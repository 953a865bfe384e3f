-------------------------- MODULE ContentTreeProofs --------------------------
(***************************************************************************)
(* The model the element declaration handler gets is the one the           *)
(* declaration spells, proved for every vocabulary of tokens, every depth  *)
(* and every number of members: what the links of the scaffold hold at     *)
(* each token, and what build_model reads out of them at the end.          *)
(***************************************************************************)
EXTENDS ContentSyntaxProofs

-----------------------------------------------------------------------------
(* The members of every node of the scaffold, as its links give them.  The   *)
(* member c of a node comes at least c nodes after it, and no node is a      *)
(* member twice.                                                             *)
Linking(nodes, n, kids) ==
  /\ kids \in [0..n - 1 -> Seq(Nat)]
  /\ \A i \in 0..n - 1 :
       /\ nodes[i].childcnt = Len(kids[i])
       /\ kids[i] = <<>> => nodes[i].lastchild = 0
       /\ kids[i] # <<>> =>
            nodes[i].firstchild = kids[i][1] /\ nodes[i].lastchild = kids[i][Len(kids[i])]
       /\ \A c \in 1..Len(kids[i]) :
            /\ kids[i][c] \in i + c..n - 1
            /\ c < Len(kids[i]) => nodes[kids[i][c]].nextsib = kids[i][c + 1]
  /\ \A i, j \in 0..n - 1 : \A c \in 1..Len(kids[i]), d \in 1..Len(kids[j]) :
       kids[i][c] = kids[j][d] => i = j /\ c = d

SameLabel(new, old) == new.type = old.type /\ new.quant = old.quant /\ new.name = old.name
SameChildren(new, old) ==
  /\ new.childcnt = old.childcnt /\ new.firstchild = old.firstchild
  /\ new.lastchild = old.lastchild

(* A node n is added, the last member of p.                                  *)
Adopted(old, nodes, p, n) ==
  /\ \A i \in 0..n - 1 :
       /\ SameLabel(nodes[i], old[i])
       /\ i # p => SameChildren(nodes[i], old[i])
       /\ nodes[i].nextsib = IF i # 0 /\ i = old[p].lastchild THEN n ELSE old[i].nextsib
  /\ nodes[p].childcnt = old[p].childcnt + 1
  /\ nodes[p].firstchild = IF old[p].childcnt = 0 THEN n ELSE old[p].firstchild
  /\ nodes[p].lastchild = n

Childless(node) == node.childcnt = 0 /\ node.lastchild = 0

WithChild(kids, p, n) ==
  [i \in 0..n |-> IF i = n THEN <<>> ELSE IF i = p THEN Append(kids[p], n) ELSE kids[i]]

LEMMA ChildLinked ==
  ASSUME NEW n \in Nat, NEW old, NEW nodes, NEW kids, Linking(old, n, kids), NEW p \in 0..n - 1,
         Adopted(old, nodes, p, n), Childless(nodes[n])
  PROVE  Linking(nodes, n + 1, WithChild(kids, p, n))
<1> DEFINE new == WithChild(kids, p, n)
           m == Len(kids[p])
<1>1. /\ kids \in [0..n - 1 -> Seq(Nat)] /\ n \in 0..n /\ p \in Nat /\ p < n
  BY DEF Linking
<1>2. /\ new \in [0..n -> Seq(Nat)] /\ new[n] = <<>> /\ new[p] = Append(kids[p], n)
      /\ \A i \in 0..n - 1 : i # p => new[i] = kids[i]
  BY <1>1 DEF WithChild
<1>3. /\ m \in Nat /\ kids[p] \in Seq(Nat) /\ Len(new[p]) = m + 1 /\ new[p][m + 1] = n
      /\ \A c \in 1..m : new[p][c] = kids[p][c]
      /\ new[p] # <<>> /\ (kids[p] = <<>> <=> m = 0)
  <2>1. kids[p] \in Seq(Nat) /\ m = Len(kids[p]) /\ n \in Nat /\ new[p] = Append(kids[p], n)
    BY <1>1, <1>2
  <2>2. m \in Nat /\ (kids[p] = <<>> <=> m = 0)
    BY <2>1
  <2>3. /\ Len(new[p]) = m + 1 /\ new[p][m + 1] = n /\ \A c \in 1..m : new[p][c] = kids[p][c]
        /\ new[p] # <<>>
    <3>1. /\ Append(kids[p], n) # <<>> /\ Len(Append(kids[p], n)) = Len(kids[p]) + 1
          /\ \A c \in 1..Len(kids[p]) : Append(kids[p], n)[c] = kids[p][c]
          /\ Append(kids[p], n)[Len(kids[p]) + 1] = n
      BY <2>1, AppendProperties, SMTT(60)
    <3> HIDE DEF new
    <3> QED
      BY <2>1, <3>1
  <2> QED
    BY <2>1, <2>2, <2>3
<1>4. \A i \in 0..n : i = n \/ i = p \/ (i \in 0..n - 1 /\ i # p)
  OBVIOUS
<1>5. \A i \in 0..n - 1 : \A c \in 1..Len(kids[i]) :
        kids[i][c] \in 0..n - 1 /\ kids[i][c] # 0
  <2> SUFFICES ASSUME NEW i \in 0..n - 1, NEW c \in 1..Len(kids[i])
               PROVE  kids[i][c] \in 0..n - 1 /\ kids[i][c] # 0
    OBVIOUS
  <2>1. kids[i][c] \in i + c..n - 1 /\ Len(kids[i]) \in Nat
    BY <1>1 DEF Linking
  <2> QED
    BY <2>1
<1>6. m > 0 => old[p].lastchild = kids[p][m] /\ kids[p][m] \in p + m..n - 1
  BY <1>1, <1>3, SMTT(60) DEF Linking
<1>7. m = 0 => old[p].lastchild = 0
  BY <1>3 DEF Linking
<1>8. \A i \in 0..n - 1 : \A c \in 1..Len(new[i]) :
        \/ i = p /\ c = m + 1 /\ new[i][c] = n
        \/ c \in 1..Len(kids[i]) /\ new[i][c] = kids[i][c] /\ (i = p => c \in 1..m)
  <2> SUFFICES ASSUME NEW i \in 0..n - 1, NEW c \in 1..Len(new[i])
               PROVE  \/ i = p /\ c = m + 1 /\ new[i][c] = n
                      \/ c \in 1..Len(kids[i]) /\ new[i][c] = kids[i][c] /\ (i = p => c \in 1..m)
    OBVIOUS
  <2>1. CASE i # p
    BY <1>2, <2>1
  <2>2. CASE i = p
    <3>1. c \in 1..m + 1 /\ m \in Nat
      BY <1>3, <2>2
    <3>2. c = m + 1 \/ c \in 1..m
      BY <3>1
    <3> QED
      BY <1>3, <2>2, <3>2
  <2> QED
    BY <2>1, <2>2
<1> HIDE DEF new, m
<1>9. ASSUME NEW i \in 0..n
      PROVE  /\ nodes[i].childcnt = Len(new[i])
             /\ new[i] = <<>> => nodes[i].lastchild = 0
             /\ new[i] # <<>> =>
                  nodes[i].firstchild = new[i][1] /\ nodes[i].lastchild = new[i][Len(new[i])]
  <2>1. CASE i = n
    BY <1>2, <2>1 DEF Childless
  <2>2. CASE i = p
    <3>1. nodes[p].childcnt = m + 1 /\ nodes[p].lastchild = n
      BY <1>3 DEF Adopted, Linking, m
    <3>2. nodes[p].firstchild = new[p][1]
      <4>1. old[p].childcnt = m /\ (m > 0 => old[p].firstchild = kids[p][1])
        BY <1>3 DEF Linking, m
      <4>2. CASE m = 0
        BY <4>1, <4>2, <1>3 DEF Adopted
      <4>3. CASE m > 0
        BY <4>1, <4>3, <1>3 DEF Adopted
      <4> QED
        BY <1>3, <4>2, <4>3
    <3> QED
      BY <1>3, <2>2, <3>1, <3>2
  <2>3. CASE i \in 0..n - 1 /\ i # p
    <3>1. SameChildren(nodes[i], old[i]) /\ new[i] = kids[i]
      BY <1>2, <2>3 DEF Adopted
    <3> QED
      BY <2>3, <3>1 DEF Linking, SameChildren
  <2> QED
    BY <1>4, <2>1, <2>2, <2>3
<1>10. ASSUME NEW i \in 0..n, NEW c \in 1..Len(new[i])
       PROVE  /\ new[i][c] \in i + c..n
              /\ c < Len(new[i]) => nodes[new[i][c]].nextsib = new[i][c + 1]
  <2>1. i \in 0..n - 1
    <3>1. i = n => Len(new[i]) = 0
      BY <1>2
    <3> QED
      BY <1>4, <3>1
  <2>2. CASE i = p /\ c = m + 1 /\ new[i][c] = n
    <3>1. p + m <= n - 1 \/ m = 0
      BY <1>3, <1>6, <1>1
    <3>2. p + (m + 1) <= n /\ n <= n /\ ~(m + 1 < m + 1) /\ p + (m + 1) \in Int /\ n \in Int
      BY <1>1, <1>3, <3>1
    <3>3. n \in p + (m + 1)..n
      BY <3>2
    <3> QED
      BY <1>3, <2>2, <3>2, <3>3
  <2>3. CASE c \in 1..Len(kids[i]) /\ new[i][c] = kids[i][c] /\ (i = p => c \in 1..m)
    <3>1. kids[i][c] \in i + c..n - 1 /\ kids[i][c] \in 0..n - 1 /\ kids[i][c] # 0
      BY <1>5, <2>1, <2>3 DEF Linking
    <3>2. new[i][c] \in i + c..n
      BY <2>3, <3>1
    <3>3. CASE i = p /\ c = m
      <4>1. kids[i][c] = old[p].lastchild
        BY <1>3, <1>6, <3>3, <2>3
      <4>2. nodes[kids[i][c]].nextsib = n
        BY <3>1, <4>1 DEF Adopted
      <4> QED
        BY <1>3, <2>3, <3>2, <3>3, <4>2
    <3>4. CASE ~(i = p /\ c = m)
      <4>1. ASSUME kids[i][c] = old[p].lastchild PROVE FALSE
        <5>1. m > 0 /\ kids[i][c] = kids[p][m] /\ m \in 1..Len(kids[p])
          BY <1>3, <1>6, <1>7, <3>1, <4>1 DEF m
        <5> QED
          BY <2>1, <2>3, <3>4, <5>1 DEF Linking
      <4>2. nodes[kids[i][c]].nextsib = old[kids[i][c]].nextsib
        BY <3>1, <4>1 DEF Adopted
      <4>3. ASSUME c < Len(new[i])
            PROVE  c < Len(kids[i]) /\ new[i][c + 1] = kids[i][c + 1]
        <5>1. Len(kids[i]) \in Nat
          BY <1>1, <2>1
        <5>2. CASE i = p
          <6>1. c < m /\ c + 1 \in 1..m
            BY <1>3, <2>3, <3>4, <5>2, <4>3
          <6> QED
            BY <1>3, <5>2, <6>1 DEF m
        <5>3. CASE i # p
          BY <1>2, <2>1, <4>3, <5>3
        <5> QED
          BY <5>2, <5>3
      <4>4. c < Len(kids[i]) => old[kids[i][c]].nextsib = kids[i][c + 1]
        BY <2>1, <2>3 DEF Linking
      <4> QED
        BY <2>3, <3>2, <4>2, <4>3, <4>4
    <3> QED
      BY <3>3, <3>4
  <2> QED
    BY <1>8, <2>1, <2>2, <2>3
<1>11. ASSUME NEW i \in 0..n, NEW j \in 0..n, NEW c \in 1..Len(new[i]), NEW d \in 1..Len(new[j]),
              new[i][c] = new[j][d]
       PROVE  i = j /\ c = d
  <2>1. i \in 0..n - 1 /\ j \in 0..n - 1
    <3>1. Len(new[n]) = 0
      BY <1>2
    <3> QED
      BY <1>4, <3>1
  <2>2. /\ \/ i = p /\ c = m + 1 /\ new[i][c] = n
           \/ c \in 1..Len(kids[i]) /\ new[i][c] = kids[i][c]
        /\ \/ j = p /\ d = m + 1 /\ new[j][d] = n
           \/ d \in 1..Len(kids[j]) /\ new[j][d] = kids[j][d]
    BY <1>8, <2>1
  <2>3. /\ c \in 1..Len(kids[i]) => kids[i][c] # n
        /\ d \in 1..Len(kids[j]) => kids[j][d] # n
    BY <1>5, <2>1
  <2>4. c \in 1..Len(kids[i]) /\ d \in 1..Len(kids[j]) /\ kids[i][c] = kids[j][d] => i = j /\ c = d
    BY <2>1 DEF Linking
  <2> QED
    BY <1>11, <2>2, <2>3, <2>4
<1>12. (n + 1) - 1 = n
  OBVIOUS
<1> QED
  BY <1>2, <1>9, <1>10, <1>11, <1>12, ZenonT(60) DEF Linking, new

(* The first node, and a node whose label changes.                           *)
LEMMA RootLinked ==
  ASSUME NEW nodes, Childless(nodes[0])
  PROVE  Linking(nodes, 1, [i \in 0..0 |-> <<>>])
BY DEF Linking, Childless

LEMMA StillLinked ==
  ASSUME NEW n \in Nat, NEW old, NEW nodes, NEW kids, Linking(old, n, kids),
         \A i \in 0..n - 1 : SameChildren(nodes[i], old[i]) /\ nodes[i].nextsib = old[i].nextsib
  PROVE  Linking(nodes, n, kids)
<1>1. ASSUME NEW i \in 0..n - 1, NEW c \in 1..Len(kids[i])
      PROVE  kids[i][c] \in 0..n - 1
  <2>1. kids[i] \in Seq(Nat) /\ kids[i][c] \in i + c..n - 1
    BY DEF Linking
  <2> QED
    BY <2>1
<1> QED
  BY <1>1, ZenonT(60) DEF Linking, SameChildren

-----------------------------------------------------------------------------
(* nextScaffoldPart: the new node becomes the last member of the innermost   *)
(* open group, or is the first of the scaffold.                              *)
SameNodes(old, nodes, n) == \A i \in 0..n - 1 : nodes[i] = old[i]

LEMMA AdoptedSame ==
  ASSUME NEW old, NEW nodes, NEW new, NEW n, NEW p \in 0..n - 1,
         Adopted(old, nodes, p, n), SameNodes(nodes, new, n)
  PROVE  Adopted(old, new, p, n)
BY DEF Adopted, SameNodes

LEMMA LinkChildAdopts ==
  ASSUME NEW size \in Nat, NEW nodes \in [0..size - 1 -> Node], NEW next \in 0..size - 1,
         Linked(nodes, next), NEW parent \in 0..next - 1
  PROVE  /\ LinkChild(nodes, parent, next) \in [0..size - 1 -> Node]
         /\ Adopted(nodes, LinkChild(nodes, parent, next), parent, next)
<1> DEFINE last == nodes[parent].lastchild
           siblings == IF last = 0 THEN nodes ELSE [nodes EXCEPT ![last].nextsib = next]
           node == Adopt(siblings[parent], next)
           result == [siblings EXCEPT ![parent] = node]
<1>1. last \in 0..next - 1 /\ last \in 0..size - 1 /\ parent \in 0..size - 1 /\ next \in Nat
  BY DEF Linked
<1>2. /\ result = LinkChild(nodes, parent, next)
      /\ LinkChild(nodes, parent, next) \in [0..size - 1 -> Node]
  BY LinkChildLinks DEF LinkChild
<1>3. \A n \in Node : LET r == [n EXCEPT !.nextsib = next]
                      IN  r \in Node /\ SameLabel(r, n) /\ SameChildren(r, n) /\ r.nextsib = next
  BY <1>1 DEF Node, SameLabel, SameChildren
<1>4. /\ siblings \in [0..size - 1 -> Node]
      /\ \A i \in 0..next - 1 :
           /\ SameLabel(siblings[i], nodes[i]) /\ SameChildren(siblings[i], nodes[i])
           /\ siblings[i].nextsib = IF i # 0 /\ i = last THEN next ELSE nodes[i].nextsib
  <2>1. CASE last = 0
    BY <2>1 DEF SameLabel, SameChildren
  <2>2. CASE last # 0
    <3> DEFINE changed == [nodes[last] EXCEPT !.nextsib = next]
    <3>1. /\ changed \in Node /\ SameLabel(changed, nodes[last])
          /\ SameChildren(changed, nodes[last]) /\ changed.nextsib = next
      BY <1>1, <1>3
    <3>2. siblings = [nodes EXCEPT ![last] = changed]
      BY <2>2
    <3> HIDE DEF changed, siblings, last
    <3>3. siblings \in [0..size - 1 -> Node]
      BY <3>1, <3>2
    <3>4. ASSUME NEW i \in 0..next - 1
          PROVE  /\ SameLabel(siblings[i], nodes[i]) /\ SameChildren(siblings[i], nodes[i])
                 /\ siblings[i].nextsib = IF i # 0 /\ i = last THEN next ELSE nodes[i].nextsib
      <4>1. siblings[i] = IF i = last THEN changed ELSE nodes[i]
        BY <1>1, <3>2
      <4> QED
        BY <2>2, <3>1, <4>1 DEF SameLabel, SameChildren
    <3> QED
      BY <3>3, <3>4
  <2> QED
    BY <2>1, <2>2
<1> HIDE DEF siblings
<1>5. siblings[parent] \in Node /\ parent \in 0..next - 1
  BY <1>1, <1>4
<1>6. /\ SameLabel(node, siblings[parent]) /\ node.nextsib = siblings[parent].nextsib
      /\ node.childcnt = siblings[parent].childcnt + 1 /\ node.lastchild = next
      /\ node.firstchild = IF siblings[parent].childcnt = 0 THEN next ELSE siblings[parent].firstchild
  BY <1>5 DEF Adopt, Node, SameLabel
<1> HIDE DEF node
<1>7. \A i \in 0..next - 1 : result[i] = IF i = parent THEN node ELSE siblings[i]
  BY <1>1, <1>4
<1> HIDE DEF result
<1>8. ASSUME NEW i \in 0..next - 1
      PROVE  /\ SameLabel(result[i], nodes[i])
             /\ i # parent => SameChildren(result[i], nodes[i])
             /\ result[i].nextsib = IF i # 0 /\ i = last THEN next ELSE nodes[i].nextsib
  BY <1>4, <1>6, <1>7 DEF SameLabel
<1>9. /\ result[parent].childcnt = nodes[parent].childcnt + 1
      /\ result[parent].firstchild = IF nodes[parent].childcnt = 0 THEN next ELSE nodes[parent].firstchild
      /\ result[parent].lastchild = next
  BY <1>4, <1>6, <1>7 DEF SameChildren
<1>10. Adopted(nodes, result, parent, next)
  BY <1>8, <1>9 DEF Adopted
<1> QED
  BY <1>2, <1>10

LEMMA NewNodeClears ==
  ASSUME NEW size \in Nat, NEW nodes \in [0..size - 1 -> Node], NEW next \in 0..size - 1
  PROVE  /\ Childless(NewNode(nodes, next)[next])
         /\ SameNodes(nodes, NewNode(nodes, next), next)
<1> DEFINE new == [nodes[next] EXCEPT !.firstchild = 0, !.lastchild = 0, !.childcnt = 0, !.nextsib = 0]
<1>1. Childless(new)
  BY DEF Node, Childless
<1>2. NewNode(nodes, next) = [nodes EXCEPT ![next] = new]
  BY DEF NewNode
<1> HIDE DEF new
<1> QED
  BY <1>1, <1>2 DEF SameNodes

(* What is added to the scaffold: node n, below the innermost open group.    *)
Added(d, r, index) ==
  /\ Childless(r.scaffold[d.scaffCount])
  /\ d.scaffLevel = 0 => SameNodes(d.scaffold, r.scaffold, d.scaffCount)
  /\ d.scaffLevel > 0 =>
       Adopted(d.scaffold, r.scaffold, index[d.scaffLevel - 1], d.scaffCount)

LEMMA NextNode ==
  ASSUME NEW d, DtdType(d), Linked(d.scaffold, d.scaffCount), NEW size \in Nat, size > 1,
         d.scaffLevel > 0 =>
           /\ d.scaffLevel - 1 \in DOMAIN IndexTable(d, size)
           /\ IndexTable(d, size)[d.scaffLevel - 1] \in 0..d.scaffCount - 1
  PROVE  Added(d, nextScaffoldPart(d, size), IndexTable(d, size))
<1> DEFINE index == IndexTable(d, size)
           n == ScaffoldSize(d)
           nodes == Grow(d.scaffold, n, Garbage)
           next == d.scaffCount
           p == index[d.scaffLevel - 1]
           linked == IF d.scaffLevel = 0 THEN nodes ELSE LinkChild(nodes, p, next)
           all == NewNode(linked, next)
<1>1. /\ next \in Nat /\ d.scaffSize \in Nat /\ d.scaffLevel \in Nat /\ next <= d.scaffSize
      /\ d.scaffold \in [0..d.scaffSize - 1 -> Node]
  BY DEF DtdType
<1>2. n \in Nat /\ n > next /\ n >= d.scaffSize
  BY <1>1, ContentModelAssumption DEF ScaffoldSize
<1>3. Garbage \in Node
  BY DEF Garbage, Node, Types, Quants
<1>4. nextScaffoldPart(d, size).scaffold = all
  BY DEF nextScaffoldPart, DtdType, NoScaffold
<1> HIDE DEF n, index
<1>5. nodes \in [0..n - 1 -> Node] /\ \A i \in 0..next - 1 : nodes[i] = d.scaffold[i]
  <2>1. nodes \in [0..n - 1 -> Node]
    BY <1>1, <1>2, <1>3, GrowKeeps
  <2>2. \A i \in 0..n - 1 : i < d.scaffSize => nodes[i] = d.scaffold[i]
    BY <1>1 DEF Grow
  <2> HIDE DEF nodes
  <2> QED
    BY <1>1, <1>2, <2>1, <2>2
<1> HIDE DEF nodes
<1>6. Linked(nodes, next) /\ next \in 0..n - 1
  <2>1. next \in 0..n - 1
    BY <1>1, <1>2
  <2>2. \A i \in 0..next - 1 : d.scaffold[i].lastchild \in 0..next - 1
    BY DEF Linked
  <2>3. \A i \in 0..next - 1 : nodes[i].lastchild \in 0..next - 1
    BY <1>5, <2>2
  <2> HIDE DEF next
  <2> QED
    BY <2>1, <2>3 DEF Linked
<1>7. CASE d.scaffLevel = 0
  <2>1. linked = nodes
    BY <1>7
  <2>2. Childless(all[next]) /\ SameNodes(nodes, all, next)
    BY <1>2, <1>5, <1>6, <2>1, NewNodeClears
  <2> HIDE DEF all
  <2> QED
    BY <1>4, <1>5, <1>7, <2>2 DEF Added, SameNodes
<1>8. CASE d.scaffLevel # 0
  <2>1. p \in 0..next - 1
    BY <1>1, <1>8 DEF index
  <2> HIDE DEF p
  <2>2. linked \in [0..n - 1 -> Node] /\ Adopted(nodes, linked, p, next)
    BY <1>2, <1>5, <1>6, <1>8, <2>1, LinkChildAdopts
  <2> HIDE DEF linked
  <2>3. Childless(all[next]) /\ SameNodes(linked, all, next)
    BY <1>2, <1>6, <2>2, NewNodeClears
  <2> HIDE DEF all
  <2>4. Adopted(d.scaffold, all, p, next)
    BY <1>5, <2>1, <2>2, <2>3 DEF Adopted, SameNodes
  <2> QED
    BY <1>4, <1>8, <2>3, <2>4 DEF Added, p, index
<1> QED
  BY <1>7, <1>8

-----------------------------------------------------------------------------
(* The scaffold of a declaration that is read as far as the reference's      *)
(* state s: the open groups are a path of last members from node 0, each of  *)
(* the other nodes has a tree, and the members of the reference's groups are *)
(* the trees of the nodes below the open groups.                             *)
Path(index, level, n, kids) ==
  /\ \A l \in 0..level - 1 : index[l] \in 0..n - 1
  /\ level > 0 => index[0] = 0
  /\ \A l \in 1..level - 1 :
       /\ kids[index[l - 1]] # <<>>
       /\ index[l] = kids[index[l - 1]][Len(kids[index[l - 1]])]
  /\ \A l, m \in 0..level - 1 : l < m => index[l] < index[m]

TreeOf(node, kids, tree) ==
  Ref!Tree(node.type, node.quant, IF node.type = "NAME" THEN node.name ELSE "-",
           IF node.type = "NAME" THEN <<>> ELSE [c \in 1..Len(kids) |-> tree[kids[c]]])

Open(d) == {d.scaffIndex[l] : l \in 0..d.scaffLevel - 1}

Trees(d, kids, tree) ==
  \A i \in 0..d.scaffCount - 1 : i \notin Open(d) => tree[i] = TreeOf(d.scaffold[i], kids[i], tree)

GroupType(s, l) ==
  IF s.at \in {"mixed", "mixedName"} THEN "MIXED"
  ELSE IF s.groups[l].separator = "OR" THEN "CHOICE" ELSE "SEQ"

GroupRead(d, s, kids, tree, l) ==
  LET i == d.scaffIndex[l - 1]
      children == s.groups[l].children
  IN  /\ d.scaffold[i].type = GroupType(s, l)
      /\ Len(kids[i]) = Len(children) + (IF l < d.scaffLevel THEN 1 ELSE 0)
      /\ \A c \in 1..Len(children) : children[c] = tree[kids[i][c]]

Collects(d, s, kids, tree) ==
  /\ d.scaffCount = s.nodes /\ d.contentStringLen = s.chars /\ d.scaffLevel = Len(s.groups)
  /\ Linking(d.scaffold, d.scaffCount, kids)
  /\ Path(d.scaffIndex, d.scaffLevel, d.scaffCount, kids)
  /\ Trees(d, kids, tree)
  /\ \A l \in 1..d.scaffLevel : GroupRead(d, s, kids, tree, l)

(* The reference's groups, member by member.                                 *)
LEMMA Children ==
  ASSUME NEW groups, Grouped(groups), NEW l \in 1..Len(groups)
  PROVE  /\ Len(groups[l].children) \in Nat
         /\ groups[l].children = [c \in 1..Len(groups[l].children) |-> groups[l].children[c]]
<1>1. PICK S : groups \in GroupsOf(S)
  BY DEF Grouped
<1> DEFINE P == [separator: Separated, children: Seq(S)]
<1> HIDE DEF P
<1>2. groups \in Seq(P)
  BY <1>1 DEF GroupsOf, P
<1>3. groups[l] \in P
  BY <1>2
<1>4. groups[l].children \in Seq(S)
  BY <1>3 DEF P
<1> QED
  BY <1>4

Appended(groups, r, child) ==
  LET n == Len(groups)
      m == Len(groups[n].children)
  IN  /\ n \in Nat /\ n > 0 /\ m \in Nat
      /\ Grouped(r) /\ Len(r) = n /\ r[n].separator = groups[n].separator
      /\ Len(r[n].children) = m + 1 /\ r[n].children[m + 1] = child
      /\ \A c \in 1..m : r[n].children[c] = groups[n].children[c]
      /\ \A l \in 1..n - 1 : r[l] = groups[l]

LEMMA ChildAppended ==
  ASSUME NEW groups, Grouped(groups), groups # <<>>, NEW child
  PROVE  Appended(groups, Ref!AddChild(groups, child), child)
<1>1. PICK S : groups \in GroupsOf(S)
  BY DEF Grouped
<1> DEFINE T == S \cup {child}
           n == Len(groups)
           g == [groups[n] EXCEPT !.children = Append(@, child)]
           r == [groups EXCEPT ![n] = g]
<1>2. groups \in GroupsOf(T) /\ child \in T
  BY <1>1, GroupsWiden
<1> HIDE DEF T
<1>3. n \in Nat /\ n > 0 /\ groups[n] \in [separator: Separated, children: Seq(T)]
  BY <1>2, GroupsNonempty
<1>4. groups[n].children \in Seq(T)
  BY <1>3
<1>5. /\ g.separator = groups[n].separator /\ g.children = Append(groups[n].children, child)
      /\ g = [separator |-> groups[n].separator, children |-> Append(groups[n].children, child)]
  <2>1. \A x : \A old \in [separator: Separated, children: Seq(T)] :
          [old EXCEPT !.children = x] = [separator |-> old.separator, children |-> x]
    OBVIOUS
  <2>2. g = [groups[n] EXCEPT !.children = Append(groups[n].children, child)]
    OBVIOUS
  <2> HIDE DEF g
  <2> QED
    BY <1>3, <2>1, <2>2
<1>6. /\ Append(groups[n].children, child) \in Seq(T)
      /\ Len(Append(groups[n].children, child)) = Len(groups[n].children) + 1
      /\ \A c \in 1..Len(groups[n].children) :
           Append(groups[n].children, child)[c] = groups[n].children[c]
      /\ Append(groups[n].children, child)[Len(groups[n].children) + 1] = child
  BY <1>2, <1>4, AppendProperties
<1>7. g \in [separator: Separated, children: Seq(T)]
  BY <1>3, <1>5, <1>6
<1> HIDE DEF g
<1>8. r[n] = g /\ Len(r) = n /\ \A l \in 1..n - 1 : r[l] = groups[l]
  BY <1>2, <1>3, <1>7, GroupReplaced
<1>9. Ref!AddChild(groups, child) = r /\ Grouped(Ref!AddChild(groups, child))
  BY ChildAdded DEF Ref!AddChild, g
<1>10. Len(groups[n].children) \in Nat
  BY <1>4
<1> HIDE DEF r
<1> QED
  BY <1>3, <1>5, <1>6, <1>8, <1>9, <1>10 DEF Appended

LEMMA FrontKeeps ==
  ASSUME NEW groups, Grouped(groups), groups # <<>>
  PROVE  /\ Len(groups) \in Nat /\ Len(groups) > 0
         /\ \A l \in 1..Len(groups) - 1 : Ref!Front(groups)[l] = groups[l]
<1>1. PICK S : groups \in GroupsOf(S)
  BY DEF Grouped
<1> DEFINE P == [separator: Separated, children: Seq(S)]
<1> HIDE DEF P
<1>2. groups \in Seq(P) /\ Len(groups) \in Nat /\ Len(groups) > 0
  BY <1>1, GroupsNonempty DEF GroupsOf, P
<1> DEFINE n == Len(groups) - 1
<1>3. n \in Nat /\ n \in Int /\ 1 \in Int /\ \A i \in 1..n : groups[i] \in P
  BY <1>2
<1>4. Ref!Front(groups) = SubSeq(groups, 1, n)
  BY DEF Ref!Front
<1> HIDE DEF n
<1>5. \A i \in 1..n - 1 + 1 : SubSeq(groups, 1, n)[i] = groups[1 + i - 1]
  BY <1>3, SubSeqProperties
<1>6. \A i \in 1..n : SubSeq(groups, 1, n)[i] = groups[i]
  BY <1>3, <1>5
<1> QED
  BY <1>2, <1>4, <1>6 DEF n

LEMMA TreeKept ==
  ASSUME NEW old, NEW new, SameLabel(new, old), NEW kids, NEW tree, NEW tree1,
         \A c \in 1..Len(kids) : tree1[kids[c]] = tree[kids[c]]
  PROVE  TreeOf(new, kids, tree1) = TreeOf(old, kids, tree)
<1>1. [c \in 1..Len(kids) |-> tree1[kids[c]]] = [c \in 1..Len(kids) |-> tree[kids[c]]]
  OBVIOUS
<1> QED
  BY <1>1 DEF TreeOf, SameLabel

LEMMA KidsInside ==
  ASSUME NEW n \in Nat, NEW nodes, NEW kids, Linking(nodes, n, kids), NEW i \in 0..n - 1
  PROVE  /\ Len(kids[i]) \in Nat
         /\ \A c \in 1..Len(kids[i]) : kids[i][c] \in 0..n - 1 /\ kids[i][c] > i /\ kids[i][c] # n
<1>1. kids[i] \in Seq(Nat)
  BY DEF Linking
<1>2. ASSUME NEW c \in 1..Len(kids[i])
      PROVE  kids[i][c] \in 0..n - 1 /\ kids[i][c] > i /\ kids[i][c] # n
  <2>1. kids[i][c] \in i + c..n - 1
    BY DEF Linking
  <2> QED
    BY <1>1, <2>1
<1> QED
  BY <1>1, <1>2

-----------------------------------------------------------------------------
(* The steps.  Nothing changes but labels of open nodes, and where the       *)
(* reference is.                                                             *)
LEMMA StillCollected ==
  ASSUME NEW d, NEW s, NEW kids, NEW tree, Collects(d, s, kids, tree), d.scaffCount \in Nat,
         NEW r, NEW n,
         r.scaffCount = d.scaffCount, r.contentStringLen = d.contentStringLen,
         r.scaffLevel = d.scaffLevel, r.scaffIndex = d.scaffIndex,
         \A i \in 0..d.scaffCount - 1 :
           /\ SameChildren(r.scaffold[i], d.scaffold[i])
           /\ r.scaffold[i].nextsib = d.scaffold[i].nextsib
           /\ i \notin Open(d) => SameLabel(r.scaffold[i], d.scaffold[i]),
         n.nodes = s.nodes, n.chars = s.chars, Len(n.groups) = Len(s.groups),
         \A l \in 1..d.scaffLevel :
           /\ n.groups[l].children = s.groups[l].children
           /\ r.scaffold[d.scaffIndex[l - 1]].type = GroupType(n, l)
  PROVE  Collects(r, n, kids, tree)
<1>1. Linking(r.scaffold, r.scaffCount, kids)
  BY StillLinked DEF Collects
<1>2. Open(r) = Open(d)
  BY DEF Open
<1>3. Trees(r, kids, tree)
  <2> SUFFICES ASSUME NEW i \in 0..d.scaffCount - 1, i \notin Open(d)
               PROVE  tree[i] = TreeOf(r.scaffold[i], kids[i], tree)
    BY <1>2 DEF Trees
  <2>1. tree[i] = TreeOf(d.scaffold[i], kids[i], tree)
    BY DEF Collects, Trees
  <2>2. SameLabel(r.scaffold[i], d.scaffold[i])
    OBVIOUS
  <2>3. TreeOf(r.scaffold[i], kids[i], tree) = TreeOf(d.scaffold[i], kids[i], tree)
    BY <2>2, TreeKept
  <2> QED
    BY <2>1, <2>3
<1>4. \A l \in 1..r.scaffLevel : GroupRead(r, n, kids, tree, l)
  <2> SUFFICES ASSUME NEW l \in 1..d.scaffLevel PROVE GroupRead(r, n, kids, tree, l)
    OBVIOUS
  <2>1. GroupRead(d, s, kids, tree, l)
    BY DEF Collects
  <2> HIDE DEF Collects
  <2> QED
    BY <2>1 DEF GroupRead
<1> QED
  BY <1>1, <1>3, <1>4 DEF Collects

(* Node n is added to the innermost open group, or begins the scaffold: what *)
(* was read stays read.                                                      *)
WithTree(tree, n, new) == [i \in 0..n |-> IF i = n THEN new ELSE tree[i]]

StillRead(d, s, r, kids, p, kids1, tree1, new) ==
  /\ p \in 0..d.scaffCount - 1
  /\ \A i \in 0..d.scaffCount - 1 : i \notin Open(d) =>
       tree1[i] = TreeOf(r.scaffold[i], kids1[i], tree1)
  /\ \A l \in 1..d.scaffLevel - 1 :
       kids1[d.scaffIndex[l - 1]] = kids[d.scaffIndex[l - 1]] /\ d.scaffIndex[l - 1] # p
  /\ \A l \in 0..d.scaffLevel - 1 :
       d.scaffIndex[l] \in 0..d.scaffCount - 1
  /\ \A l \in 1..d.scaffLevel : \A c \in 1..Len(s.groups[l].children) :
       s.groups[l].children[c] = tree1[kids1[d.scaffIndex[l - 1]][c]]
  /\ Len(kids[p]) \in Nat /\ Len(kids[p]) = Len(s.groups[d.scaffLevel].children)
  /\ Len(kids1[p]) = Len(kids[p]) + 1 /\ kids1[p][Len(kids[p]) + 1] = d.scaffCount
  /\ kids1[d.scaffCount] = <<>> /\ tree1[d.scaffCount] = new

LEMMA OthersKept ==
  ASSUME NEW d, NEW s, Shape(s), NEW kids, NEW tree, Collects(d, s, kids, tree),
         d.scaffCount \in Nat, d.scaffLevel \in Nat, d.scaffLevel > 0,
         NEW r, NEW p, p = d.scaffIndex[d.scaffLevel - 1],
         Adopted(d.scaffold, r.scaffold, p, d.scaffCount),
         NEW new, NEW kids1, kids1 = WithChild(kids, p, d.scaffCount),
         NEW tree1, tree1 = WithTree(tree, d.scaffCount, new)
  PROVE  StillRead(d, s, r, kids, p, kids1, tree1, new)
<1> DEFINE n == d.scaffCount
           level == d.scaffLevel
<1>1. /\ Linking(d.scaffold, n, kids) /\ Path(d.scaffIndex, level, n, kids) /\ Trees(d, kids, tree)
      /\ \A l \in 1..level : GroupRead(d, s, kids, tree, l)
  BY DEF Collects
<1>2. level - 1 \in 0..level - 1 /\ \A l \in 0..level - 1 : d.scaffIndex[l] \in 0..n - 1
  <2>1. level - 1 \in 0..level - 1
    OBVIOUS
  <2> HIDE DEF level, n
  <2>2. \A l \in 0..level - 1 : d.scaffIndex[l] \in 0..n - 1
    BY <1>1, Zenon DEF Path
  <2> QED
    BY <2>1, <2>2
<1>3. p \in 0..n - 1
  BY <1>2
<1>4. \A i \in 0..n - 1 : i # p => kids1[i] = kids[i]
  BY SMTT(60) DEF WithChild
<1>5. /\ Len(kids[p]) \in Nat /\ Len(kids1[p]) = Len(kids[p]) + 1
      /\ kids1[p][Len(kids[p]) + 1] = n /\ \A c \in 1..Len(kids[p]) : kids1[p][c] = kids[p][c]
      /\ kids1[n] = <<>>
  <2>1. kids[p] \in Seq(Nat) /\ n \in Nat
    BY <1>1, <1>3, SMTT(60) DEF Linking
  <2>0. kids1[p] = Append(kids[p], n) /\ kids1[n] = <<>>
    <3>1. p \in 0..n /\ n \in 0..n /\ p # n
      BY <1>3, <2>1
    <3>2. kids1 = [i \in 0..n |-> IF i = n THEN <<>> ELSE IF i = p THEN Append(kids[p], n) ELSE kids[i]]
      BY DEF WithChild
    <3> QED
      BY <3>1, <3>2, Zenon
  <2> HIDE DEF n
  <2>2. /\ Len(Append(kids[p], n)) = Len(kids[p]) + 1
        /\ \A c \in 1..Len(kids[p]) : Append(kids[p], n)[c] = kids[p][c]
        /\ Append(kids[p], n)[Len(kids[p]) + 1] = n
    BY <2>1, AppendProperties
  <2>3. Len(kids[p]) \in Nat
    BY <2>1
  <2> QED
    BY <2>0, <2>2, <2>3, Zenon
<1>6. tree1[n] = new /\ \A i \in 0..n - 1 : tree1[i] = tree[i]
  BY DEF WithTree
<1>7. ASSUME NEW i \in 0..n - 1, i \notin Open(d)
      PROVE  tree1[i] = TreeOf(r.scaffold[i], kids1[i], tree1)
  <2>1. p \in Open(d)
    BY <1>2 DEF Open
  <2>2. kids1[i] = kids[i] /\ SameLabel(r.scaffold[i], d.scaffold[i])
    BY <1>4, <1>7, <2>1 DEF Adopted
  <2>3. \A c \in 1..Len(kids[i]) : tree1[kids[i][c]] = tree[kids[i][c]]
    BY <1>1, <1>6, KidsInside
  <2>4. tree[i] = TreeOf(d.scaffold[i], kids[i], tree)
    BY <1>1, <1>7 DEF Trees
  <2> QED
    BY <1>6, <2>2, <2>3, <2>4, TreeKept
<1>8. ASSUME NEW l \in 1..level - 1
      PROVE  kids1[d.scaffIndex[l - 1]] = kids[d.scaffIndex[l - 1]] /\ d.scaffIndex[l - 1] # p
  <2>1. l - 1 \in 0..level - 1 /\ l - 1 < level - 1
    OBVIOUS
  <2>2. d.scaffIndex[l - 1] < p /\ d.scaffIndex[l - 1] \in 0..n - 1
    BY <1>1, <1>2, <2>1 DEF Path
  <2> QED
    BY <1>3, <1>4, <2>2
<1>9. Len(kids[p]) = Len(s.groups[level].children)
  <2>1. level \in 1..level
    OBVIOUS
  <2>2. GroupRead(d, s, kids, tree, level)
    BY <1>1, <2>1
  <2>3. Len(s.groups[level].children) \in Nat
    BY <2>1, Children DEF Collects, Shape
  <2>4. /\ Len(kids[d.scaffIndex[level - 1]])
             = Len(s.groups[level].children) + (IF level < level THEN 1 ELSE 0)
        /\ p = d.scaffIndex[level - 1] /\ ~(level < level)
    BY <2>2 DEF GroupRead
  <2> HIDE DEF level
  <2> QED
    BY <2>3, <2>4
<1>10. ASSUME NEW l \in 1..level, NEW c \in 1..Len(s.groups[l].children)
       PROVE  s.groups[l].children[c] = tree1[kids1[d.scaffIndex[l - 1]][c]]
  <2> DEFINE i == d.scaffIndex[l - 1]
  <2>1. i \in 0..n - 1
    BY <1>2, SMTT(60)
  <2>2. /\ s.groups[l].children[c] = tree[kids[i][c]]
        /\ Len(kids[i]) = Len(s.groups[l].children) + (IF l < level THEN 1 ELSE 0)
    BY <1>1 DEF GroupRead
  <2> HIDE DEF i
  <2>3. kids1[i][c] = kids[i][c] /\ c \in 1..Len(kids[i])
    <3>1. CASE l = level
      BY <1>5, <1>9, <3>1, Zenon DEF i
    <3>2. CASE l # level
      <4>1. kids1[i] = kids[i] /\ l < level
        BY <1>8, <3>2 DEF i
      <4>2. Len(kids[i]) \in Nat
        BY <1>1, <2>1, KidsInside
      <4> QED
        BY <2>2, <4>1, <4>2
    <3> QED
      BY <3>1, <3>2
  <2>4. kids[i][c] \in 0..n - 1
    BY <1>1, <2>1, <2>3, KidsInside
  <2> QED
    BY <1>6, <2>2, <2>3, <2>4 DEF i
<1> QED
  BY <1>2, <1>3, <1>5, <1>6, <1>7, <1>8, <1>9, <1>10, Zenon DEF StillRead

(* A name is a new last member of the innermost group.                       *)
LEMMA LeafCollected ==
  ASSUME NEW d, NEW s, Shape(s), NEW kids, NEW tree, Collects(d, s, kids, tree),
         d.scaffCount \in Nat, d.scaffLevel \in Nat, d.scaffLevel > 0,
         NEW r, NEW t, NEW at,
         r.scaffCount = d.scaffCount + 1, r.scaffLevel = d.scaffLevel,
         r.contentStringLen = d.contentStringLen + NameLength[t.n],
         \A l \in 0..d.scaffLevel - 1 : r.scaffIndex[l] = d.scaffIndex[l],
         Adopted(d.scaffold, r.scaffold, d.scaffIndex[d.scaffLevel - 1], d.scaffCount),
         Childless(r.scaffold[d.scaffCount]),
         r.scaffold[d.scaffCount].type = "NAME",
         r.scaffold[d.scaffCount].quant = Ref!Quantifier(t.k),
         r.scaffold[d.scaffCount].name = t.n,
         at \in {"mixed", "mixedName"} <=> s.at \in {"mixed", "mixedName"}
  PROVE  \E k, tr : Collects(r, Ref!ReadLeaf(s, t, at), k, tr)
<1> DEFINE n == d.scaffCount
           level == d.scaffLevel
           p == d.scaffIndex[level - 1]
           leaf == Ref!Tree("NAME", Ref!Quantifier(t.k), t.n, <<>>)
           kids1 == WithChild(kids, p, n)
           tree1 == WithTree(tree, n, leaf)
           gs == Ref!AddChild(s.groups, leaf)
           s1 == Ref!ReadLeaf(s, t, at)
<1>1. /\ Linking(d.scaffold, n, kids) /\ Path(d.scaffIndex, level, n, kids)
      /\ \A l \in 1..level : GroupRead(d, s, kids, tree, l)
      /\ n = s.nodes /\ d.contentStringLen = s.chars /\ level = Len(s.groups)
  BY DEF Collects
<1>4. s1.nodes = s.nodes + 1 /\ s1.chars = s.chars + NameLength[t.n] /\ s1.groups = gs /\ s1.at = at
  BY DEF Shape, Ref!Start, Ref!ReadLeaf
<1>0. /\ p = d.scaffIndex[level - 1] /\ kids1 = WithChild(kids, p, n) /\ tree1 = WithTree(tree, n, leaf)
      /\ gs = Ref!AddChild(s.groups, leaf)
  OBVIOUS
<1> HIDE DEF kids1, tree1, gs, s1, leaf, p
<1>2. /\ p \in 0..n - 1
      /\ \A i \in 0..n - 1 : i \notin Open(d) =>
           tree1[i] = TreeOf(r.scaffold[i], kids1[i], tree1)
      /\ \A l \in 1..level - 1 :
           kids1[d.scaffIndex[l - 1]] = kids[d.scaffIndex[l - 1]] /\ d.scaffIndex[l - 1] # p
      /\ \A l \in 0..level - 1 : d.scaffIndex[l] \in 0..n - 1
      /\ \A l \in 1..level : \A c \in 1..Len(s.groups[l].children) :
           s.groups[l].children[c] = tree1[kids1[d.scaffIndex[l - 1]][c]]
      /\ Len(kids[p]) \in Nat /\ Len(kids[p]) = Len(s.groups[level].children)
      /\ Len(kids1[p]) = Len(kids[p]) + 1 /\ kids1[p][Len(kids[p]) + 1] = n
      /\ kids1[n] = <<>> /\ tree1[n] = leaf
  <2>1. /\ p = d.scaffIndex[d.scaffLevel - 1] /\ Adopted(d.scaffold, r.scaffold, p, d.scaffCount)
        /\ kids1 = WithChild(kids, p, d.scaffCount) /\ tree1 = WithTree(tree, d.scaffCount, leaf)
    BY <1>0
  <2>2. StillRead(d, s, r, kids, p, kids1, tree1, leaf)
    BY <2>1, OthersKept
  <2> QED
    BY <2>2 DEF StillRead
<1>3. Linking(r.scaffold, n + 1, kids1)
  <2>1. Adopted(d.scaffold, r.scaffold, p, n) /\ Childless(r.scaffold[n]) /\ n \in Nat
    BY <1>0, SMTT(60)
  <2>2. Linking(d.scaffold, n, kids) /\ p \in 0..n - 1 /\ kids1 = WithChild(kids, p, n)
    BY <1>0, <1>1, <1>2, Zenon
  <2> HIDE DEF n
  <2> QED
    BY <2>1, <2>2, ChildLinked
<1>5. s.groups # <<>>
  <2>1. s.groups = <<>> => Len(s.groups) = 0
    OBVIOUS
  <2> QED
    BY <1>1, <2>1
<1>6. /\ Len(s.groups[level].children) \in Nat
      /\ Len(gs) = level /\ gs[level].separator = s.groups[level].separator
      /\ Len(gs[level].children) = Len(s.groups[level].children) + 1
      /\ gs[level].children[Len(s.groups[level].children) + 1] = leaf
      /\ \A c \in 1..Len(s.groups[level].children) :
           gs[level].children[c] = s.groups[level].children[c]
      /\ \A l \in 1..level - 1 : gs[l] = s.groups[l]
  <2>1. Grouped(s.groups) /\ Len(s.groups) = level
    BY <1>1 DEF Shape
  <2>2. Appended(s.groups, gs, leaf)
    BY <1>0, <1>5, <2>1, ChildAppended
  <2> QED
    BY <2>1, <2>2 DEF Appended
<1>7. Path(r.scaffIndex, level, n + 1, kids1)
  <2>1. ASSUME NEW l \in 0..level - 1 PROVE r.scaffIndex[l] \in 0..n
    <3>1. r.scaffIndex[l] = d.scaffIndex[l] /\ d.scaffIndex[l] \in 0..n - 1
      BY <1>2
    <3> QED
      BY <3>1
  <2>2. r.scaffIndex[0] = 0
    BY <1>1 DEF Path
  <2>3. ASSUME NEW l \in 1..level - 1
        PROVE  /\ kids1[r.scaffIndex[l - 1]] # <<>>
               /\ r.scaffIndex[l] = kids1[r.scaffIndex[l - 1]][Len(kids1[r.scaffIndex[l - 1]])]
    <3>1. /\ r.scaffIndex[l - 1] = d.scaffIndex[l - 1] /\ r.scaffIndex[l] = d.scaffIndex[l]
          /\ kids1[d.scaffIndex[l - 1]] = kids[d.scaffIndex[l - 1]]
      BY <1>2
    <3> QED
      BY <1>1, <3>1 DEF Path
  <2>4. \A l, m \in 0..level - 1 : l < m => r.scaffIndex[l] < r.scaffIndex[m]
    BY <1>1 DEF Path
  <2>5. (n + 1) - 1 = n
    OBVIOUS
  <2> QED
    BY <2>1, <2>2, <2>3, <2>4, <2>5 DEF Path
<1>8. Open(r) = Open(d)
  BY DEF Open
<1>9. Trees(r, kids1, tree1)
  <2>1. tree1[n] = TreeOf(r.scaffold[n], kids1[n], tree1)
    BY <1>2 DEF TreeOf, leaf
  <2>2. \A i \in 0..(n + 1) - 1 : i = n \/ i \in 0..n - 1
    OBVIOUS
  <2> QED
    BY <1>2, <1>8, <2>1, <2>2 DEF Trees
<1>10. ASSUME NEW l \in 1..level
       PROVE  GroupRead(r, s1, kids1, tree1, l)
  <2> DEFINE i == d.scaffIndex[l - 1]
  <2>1. r.scaffIndex[l - 1] = i /\ i \in 0..n - 1
    BY <1>2
  <2>2. GroupRead(d, s, kids, tree, l)
    BY <1>1
  <2>3. /\ d.scaffold[i].type = GroupType(s, l)
        /\ Len(kids[i]) = Len(s.groups[l].children) + (IF l < level THEN 1 ELSE 0)
    BY <2>2 DEF GroupRead
  <2>4. s1.groups[l].separator = s.groups[l].separator
    <3>1. l = level \/ l \in 1..level - 1
      OBVIOUS
    <3> QED
      BY <1>4, <1>6, <3>1, SMTT(60)
  <2> HIDE DEF i
  <2>5. r.scaffold[i].type = GroupType(s1, l)
    BY <1>4, <2>1, <2>3, <2>4 DEF Adopted, SameLabel, GroupType, p
  <2>6. CASE l = level
    <3>1. i = p /\ ~(l < level)
      BY <2>6 DEF i, p
    <3>2. s1.groups[l].children = gs[level].children
      BY <1>4, <2>6, SMTT(60)
    <3>3. Len(kids1[i]) = Len(s1.groups[l].children)
      BY <1>2, <1>6, <3>1, <3>2
    <3>4. ASSUME NEW c \in 1..Len(s1.groups[l].children)
          PROVE  s1.groups[l].children[c] = tree1[kids1[i][c]]
      <4>1. c = Len(s.groups[level].children) + 1 \/ c \in 1..Len(s.groups[level].children)
        BY <1>6, <3>2
      <4>2. CASE c = Len(s.groups[level].children) + 1
        BY <1>2, <1>6, <3>1, <3>2, <4>2, ZenonT(60)
      <4>3. CASE c \in 1..Len(s.groups[level].children)
        BY <1>2, <1>6, <3>2, <4>3, <2>6 DEF i
      <4> QED
        BY <4>1, <4>2, <4>3
    <3>5. Len(s1.groups[l].children) \in Nat
      BY <1>6, <3>2
    <3> QED
      BY <2>1, <2>5, <2>6, <3>1, <3>3, <3>4, <3>5 DEF GroupRead
  <2>7. CASE l # level
    <3>1. l \in 1..level - 1 /\ l < level
      BY <2>7, SMTT(60)
    <3>2. s1.groups[l].children = s.groups[l].children /\ kids1[i] = kids[i]
      BY <1>2, <1>4, <1>6, <3>1 DEF i
    <3>3. \A c \in 1..Len(s.groups[l].children) : s.groups[l].children[c] = tree1[kids1[i][c]]
      BY <1>2 DEF i
    <3> QED
      BY <2>1, <2>3, <2>5, <3>1, <3>2, <3>3 DEF GroupRead
  <2> QED
    BY <2>6, <2>7
<1>11. Collects(r, s1, kids1, tree1)
  BY <1>1, <1>3, <1>4, <1>6, <1>7, <1>9, <1>10 DEF Collects
<1> QED
  BY <1>11 DEF s1

(* A group without members begins, below the innermost group or as the root. *)
LEMMA GroupCollected ==
  ASSUME NEW d, NEW s, Shape(s), NEW kids, NEW tree, Collects(d, s, kids, tree),
         d.scaffCount \in Nat, d.scaffLevel \in Nat, d.scaffLevel = 0 => d.scaffCount = 0,
         NEW r, NEW at,
         r.scaffCount = d.scaffCount + 1, r.scaffLevel = d.scaffLevel + 1,
         r.contentStringLen = d.contentStringLen,
         \A l \in 0..d.scaffLevel - 1 : r.scaffIndex[l] = d.scaffIndex[l],
         r.scaffIndex[d.scaffLevel] = d.scaffCount,
         d.scaffLevel > 0 =>
           Adopted(d.scaffold, r.scaffold, d.scaffIndex[d.scaffLevel - 1], d.scaffCount),
         Childless(r.scaffold[d.scaffCount]),
         r.scaffold[d.scaffCount].type = "SEQ",
         s.at \notin {"mixed", "mixedName"}, at \notin {"mixed", "mixedName"}
  PROVE  \E k, tr : Collects(r, Ref!ReadOpen(s, at), k, tr)
<1> DEFINE n == d.scaffCount
           level == d.scaffLevel
           gs == Append(s.groups, Ref!NewGroup)
           s1 == Ref!ReadOpen(s, at)
<1>1. /\ Linking(d.scaffold, n, kids) /\ Path(d.scaffIndex, level, n, kids)
      /\ \A l \in 1..level : GroupRead(d, s, kids, tree, l)
      /\ n = s.nodes /\ d.contentStringLen = s.chars /\ level = Len(s.groups)
  BY DEF Collects
<1>2. s1.nodes = s.nodes + 1 /\ s1.chars = s.chars /\ s1.groups = gs /\ s1.at = at
  BY DEF Shape, Ref!Start, Ref!ReadOpen
<1>3. /\ Len(gs) = level + 1 /\ gs[level + 1] = Ref!NewGroup
      /\ \A l \in 1..level : gs[l] = s.groups[l]
  <2>1. PICK S : s.groups \in GroupsOf(S)
    BY DEF Shape, Grouped
  <2> QED
    BY <1>1, <2>1 DEF GroupsOf
<1>4. gs[level + 1].separator = "none" /\ gs[level + 1].children = <<>>
  BY <1>3 DEF Ref!NewGroup
<1> HIDE DEF gs, s1
<1>5. ASSUME NEW kids1, NEW tree1, kids1[n] = <<>>,
             Linking(r.scaffold, n + 1, kids1), Path(r.scaffIndex, level + 1, n + 1, kids1),
             Trees(r, kids1, tree1),
             \A l \in 1..level : GroupRead(r, s1, kids1, tree1, l)
      PROVE  \E k, tr : Collects(r, s1, k, tr)
  <2>1. GroupRead(r, s1, kids1, tree1, level + 1)
    <3>1. (level + 1) - 1 = level /\ ~(level + 1 < level + 1)
      OBVIOUS
    <3>2. Len(s1.groups[level + 1].children) = 0 /\ Len(kids1[n]) = 0
      BY <1>2, <1>4, <1>5
    <3>3. GroupType(s1, level + 1) = "SEQ"
      BY <1>2, <1>4 DEF GroupType
    <3> QED
      BY <3>1, <3>2, <3>3 DEF GroupRead
  <2>2. \A l \in 1..level + 1 : l = level + 1 \/ l \in 1..level
    OBVIOUS
  <2>3. Collects(r, s1, kids1, tree1)
    BY <1>1, <1>2, <1>3, <1>5, <2>1, <2>2 DEF Collects
  <2> QED
    BY <2>3
<1>6. CASE level = 0
  <2> DEFINE kids1 == [i \in 0..0 |-> <<>>]
  <2>1. n = 0 /\ n + 1 = 1 /\ level + 1 = 1 /\ Open(r) = {0}
    BY <1>6 DEF Open
  <2>2. Linking(r.scaffold, 1, kids1)
    BY <2>1, RootLinked
  <2>3. kids1[n] = <<>>
    BY <2>1
  <2>4. Path(r.scaffIndex, 1, 1, kids1)
    BY <1>6, <2>1 DEF Path
  <2>5. Trees(r, kids1, tree)
    BY <2>1 DEF Trees
  <2>6. \A l \in 1..level : GroupRead(r, s1, kids1, tree, l)
    BY <1>6
  <2> HIDE DEF kids1
  <2>7. \E k, tr : Collects(r, s1, k, tr)
    BY <1>5, <2>1, <2>2, <2>3, <2>4, <2>5, <2>6
  <2> QED
    BY <2>7 DEF s1
<1>7. CASE level > 0
  <2> DEFINE p == d.scaffIndex[level - 1]
             kids1 == WithChild(kids, p, n)
             tree1 == WithTree(tree, n, tree[n])
  <2>1. /\ p = d.scaffIndex[level - 1] /\ kids1 = WithChild(kids, p, n)
        /\ tree1 = WithTree(tree, n, tree[n]) /\ Adopted(d.scaffold, r.scaffold, p, n)
    BY <1>7
  <2> HIDE DEF p, kids1, tree1
  <2>2. StillRead(d, s, r, kids, p, kids1, tree1, tree[n])
    BY <1>7, <2>1, OthersKept
  <2>3. /\ p \in 0..n - 1
        /\ \A i \in 0..n - 1 : i \notin Open(d) =>
             tree1[i] = TreeOf(r.scaffold[i], kids1[i], tree1)
        /\ \A l \in 1..level - 1 :
             kids1[d.scaffIndex[l - 1]] = kids[d.scaffIndex[l - 1]] /\ d.scaffIndex[l - 1] # p
        /\ \A l \in 0..level - 1 : d.scaffIndex[l] \in 0..n - 1
        /\ \A l \in 1..level : \A c \in 1..Len(s.groups[l].children) :
             s.groups[l].children[c] = tree1[kids1[d.scaffIndex[l - 1]][c]]
        /\ Len(kids[p]) \in Nat /\ Len(kids[p]) = Len(s.groups[level].children)
        /\ Len(kids1[p]) = Len(kids[p]) + 1 /\ kids1[p][Len(kids[p]) + 1] = n
        /\ kids1[n] = <<>>
    BY <2>2, SMTT(60) DEF StillRead
  <2>4. Linking(r.scaffold, n + 1, kids1)
    <3>1. Linking(d.scaffold, n, kids) /\ Childless(r.scaffold[n]) /\ n \in Nat
      BY <1>1
    <3> HIDE DEF n
    <3> QED
      BY <2>1, <2>3, <3>1, ChildLinked
  <2>5. Path(r.scaffIndex, level + 1, n + 1, kids1)
    <3>1. ASSUME NEW l \in 0..level PROVE r.scaffIndex[l] \in 0..n
      <4>1. CASE l = level
        BY <4>1
      <4>2. CASE l # level
        <5>1. l \in 0..level - 1
          BY <4>2
        <5>2. r.scaffIndex[l] = d.scaffIndex[l] /\ d.scaffIndex[l] \in 0..n - 1
          BY <2>3, <5>1
        <5> QED
          BY <5>2
      <4> QED
        BY <4>1, <4>2
    <3>2. r.scaffIndex[0] = 0
      BY <1>1, <1>7, SMTT(60) DEF Path
    <3>3. ASSUME NEW l \in 1..level
          PROVE  /\ kids1[r.scaffIndex[l - 1]] # <<>>
                 /\ r.scaffIndex[l] = kids1[r.scaffIndex[l - 1]][Len(kids1[r.scaffIndex[l - 1]])]
      <4>0. r.scaffIndex[l - 1] = d.scaffIndex[l - 1]
        OBVIOUS
      <4>1. CASE l = level
        <5>1. r.scaffIndex[l - 1] = p /\ r.scaffIndex[l] = n
          BY <2>1, <4>0, <4>1
        <5>2. kids1[p] # <<>>
          <6>1. kids1[p] = <<>> => Len(kids1[p]) = 0
            OBVIOUS
          <6> QED
            BY <2>3, <6>1
        <5> QED
          BY <2>3, <5>1, <5>2
      <4>2. CASE l # level
        <5>1. l \in 1..level - 1 /\ r.scaffIndex[l] = d.scaffIndex[l]
          BY <4>2
        <5>2. kids1[d.scaffIndex[l - 1]] = kids[d.scaffIndex[l - 1]]
          BY <2>3, <5>1
        <5> QED
          BY <1>1, <4>0, <5>1, <5>2 DEF Path
      <4> QED
        BY <4>1, <4>2
    <3>4. ASSUME NEW l \in 0..level, NEW m \in 0..level, l < m
          PROVE  r.scaffIndex[l] < r.scaffIndex[m]
      <4>1. l \in 0..level - 1 /\ r.scaffIndex[l] = d.scaffIndex[l] /\ d.scaffIndex[l] \in 0..n - 1
        BY <2>3, <3>4
      <4>2. CASE m = level
        BY <4>1, <4>2
      <4>3. CASE m # level
        <5>1. m \in 0..level - 1 /\ r.scaffIndex[m] = d.scaffIndex[m]
          BY <4>3
        <5> QED
          BY <1>1, <3>4, <4>1, <5>1 DEF Path
      <4> QED
        BY <4>2, <4>3
    <3>5. (n + 1) - 1 = n /\ (level + 1) - 1 = level
      OBVIOUS
    <3> QED
      BY <3>1, <3>2, <3>3, <3>4, <3>5 DEF Path
  <2>6. Trees(r, kids1, tree1)
    <3> SUFFICES ASSUME NEW i \in 0..n, i \notin Open(r)
                 PROVE  tree1[i] = TreeOf(r.scaffold[i], kids1[i], tree1)
      BY DEF Trees
    <3>1. r.scaffIndex[level] = n /\ level \in 0..level
      OBVIOUS
    <3>2. n \in Open(r)
      BY <3>1 DEF Open
    <3>3. i \in 0..n - 1
      BY <3>2
    <3>4. i \notin Open(d)
      BY DEF Open
    <3> QED
      BY <2>3, <3>3, <3>4
  <2>7. ASSUME NEW l \in 1..level
        PROVE  GroupRead(r, s1, kids1, tree1, l)
    <3> DEFINE i == d.scaffIndex[l - 1]
    <3>1. r.scaffIndex[l - 1] = i /\ i \in 0..n - 1
      BY <2>3, SMTT(60)
    <3>2. GroupRead(d, s, kids, tree, l)
      BY <1>1
    <3>3. /\ d.scaffold[i].type = GroupType(s, l)
          /\ Len(kids[i]) = Len(s.groups[l].children) + (IF l < level THEN 1 ELSE 0)
      BY <3>2 DEF GroupRead
    <3>4. s1.groups[l] = s.groups[l]
      BY <1>2, <1>3, SMTT(60)
    <3> HIDE DEF i
    <3>5. r.scaffold[i].type = GroupType(s1, l)
      BY <1>2, <2>1, <3>1, <3>3, <3>4, ZenonT(60) DEF Adopted, SameLabel, GroupType
    <3>6. Len(kids1[i]) = Len(s.groups[l].children) + 1
      <4>1. CASE l = level
        BY <2>1, <2>3, <4>1, Zenon DEF i
      <4>2. CASE l # level
        <5>1. l \in 1..level - 1 /\ l < level
          BY <4>2
        <5> QED
          BY <2>3, <3>3, <5>1 DEF i
      <4> QED
        BY <4>1, <4>2
    <3>7. \A c \in 1..Len(s.groups[l].children) : s.groups[l].children[c] = tree1[kids1[i][c]]
      BY <2>3 DEF i
    <3>8. l < level + 1
      OBVIOUS
    <3> QED
      BY <3>1, <3>4, <3>5, <3>6, <3>7, <3>8 DEF GroupRead
  <2>8. \E k, tr : Collects(r, s1, k, tr)
    BY <1>5, <2>3, <2>4, <2>5, <2>6, <2>7
  <2> QED
    BY <2>8 DEF s1
<1> QED
  BY <1>6, <1>7

(* The innermost group closes: its node has the tree of what was read of it. *)
WithClosed(tree, n, g, new) == [i \in 0..n - 1 |-> IF i = g THEN new ELSE tree[i]]

Closes(d, r, g, quant) ==
  /\ r.scaffCount = d.scaffCount /\ r.scaffLevel = d.scaffLevel - 1
  /\ r.scaffIndex = d.scaffIndex
  /\ \A i \in 0..d.scaffCount - 1 :
       /\ SameChildren(r.scaffold[i], d.scaffold[i])
       /\ r.scaffold[i].nextsib = d.scaffold[i].nextsib
       /\ i # g => SameLabel(r.scaffold[i], d.scaffold[i])
  /\ r.scaffold[g].type = d.scaffold[g].type /\ r.scaffold[g].quant = quant

ClosedGroup(s, quant) ==
  Ref!Tree(GroupType(s, Len(s.groups)), quant, "-", s.groups[Len(s.groups)].children)

ClosedRead(d, r, kids, tree, g, new, tree1) ==
  /\ g \in 0..d.scaffCount - 1
  /\ Linking(r.scaffold, d.scaffCount, kids)
  /\ Trees(r, kids, tree1)
  /\ tree1[g] = new
  /\ \A i \in 0..d.scaffCount - 1 : i # g => tree1[i] = tree[i]
  /\ \A i \in 0..d.scaffCount - 1 : \A c \in 1..Len(kids[i]) :
       kids[i][c] = g =>
         d.scaffLevel > 1 /\ i = d.scaffIndex[d.scaffLevel - 2] /\ c = Len(kids[i])

LEMMA TreesClosed ==
  ASSUME NEW d, NEW s, Shape(s), NEW kids, NEW tree, Collects(d, s, kids, tree),
         d.scaffCount \in Nat, d.scaffLevel \in Nat, d.scaffLevel > 0,
         NEW g, g = d.scaffIndex[d.scaffLevel - 1], NEW r, NEW quant, Closes(d, r, g, quant),
         NEW new, new = ClosedGroup(s, quant),
         NEW tree1, tree1 = WithClosed(tree, d.scaffCount, g, new)
  PROVE  ClosedRead(d, r, kids, tree, g, new, tree1)
<1> DEFINE n == d.scaffCount
           level == d.scaffLevel
<1>1. /\ Linking(d.scaffold, n, kids) /\ Path(d.scaffIndex, level, n, kids) /\ Trees(d, kids, tree)
      /\ \A l \in 1..level : GroupRead(d, s, kids, tree, l)
      /\ level = Len(s.groups)
  BY DEF Collects
<1>2. /\ level - 1 \in 0..level - 1 /\ level \in 1..level /\ ~(level < level)
      /\ \A l \in 0..level - 1 : d.scaffIndex[l] \in 0..n - 1
  <2>1. level - 1 \in 0..level - 1 /\ level \in 1..level /\ ~(level < level)
    OBVIOUS
  <2> HIDE DEF level, n
  <2>2. \A l \in 0..level - 1 : d.scaffIndex[l] \in 0..n - 1
    BY <1>1, Zenon DEF Path
  <2> QED
    BY <2>1, <2>2
<1>3. g \in 0..n - 1
  BY <1>2
<1>4. Linking(r.scaffold, n, kids)
  BY <1>1, StillLinked DEF Closes
<1>5. tree1[g] = new /\ \A i \in 0..n - 1 : i # g => tree1[i] = tree[i]
  BY <1>3 DEF WithClosed
<1>6. ASSUME NEW i \in 0..n - 1, NEW c \in 1..Len(kids[i]), kids[i][c] = g
      PROVE  level > 1 /\ i = d.scaffIndex[level - 2] /\ c = Len(kids[i])
  <2>1. kids[i][c] > i
    BY <1>1, KidsInside
  <2>2. level > 1
    <3>1. level = 1 => g = 0
      BY <1>1 DEF Path
    <3> QED
      BY <1>3, <1>6, <2>1, <3>1
  <2> DEFINE q == d.scaffIndex[level - 2]
  <2>3. level - 2 \in 0..level - 1 /\ level - 1 \in 1..level - 1 /\ (level - 1) - 1 = level - 2
    BY <2>2, SMTT(60)
  <2>4. q \in 0..n - 1 /\ kids[q] # <<>> /\ g = kids[q][Len(kids[q])]
    BY <1>1, <1>2, <2>3 DEF Path
  <2>5. kids[q] \in Seq(Nat)
    BY <1>1, <2>4 DEF Linking
  <2> HIDE DEF q
  <2>6. Len(kids[q]) \in 1..Len(kids[q])
    BY <2>4, <2>5
  <2>7. i = q /\ c = Len(kids[q])
    <3>1. \A a, b \in 0..n - 1 : \A e \in 1..Len(kids[a]), f \in 1..Len(kids[b]) :
            kids[a][e] = kids[b][f] => a = b /\ e = f
      BY <1>1 DEF Linking
    <3>2. kids[i][c] = kids[q][Len(kids[q])]
      BY <1>6, <2>4, SMTT(60)
    <3> QED
      BY <1>6, <2>4, <2>6, <3>1, <3>2, SMTT(60)
  <2> QED
    BY <2>2, <2>7 DEF q
<1>7. tree1[g] = TreeOf(r.scaffold[g], kids[g], tree1)
  <2> DEFINE children == s.groups[level].children
  <2>1. GroupRead(d, s, kids, tree, level)
    BY <1>1, <1>2, SMTT(60)
  <2>2. /\ d.scaffold[g].type = GroupType(s, level) /\ Len(kids[g]) = Len(children) + 0
        /\ \A c \in 1..Len(children) : children[c] = tree[kids[g][c]]
    BY <1>2, <2>1 DEF GroupRead
  <2>3. Len(children) \in Nat /\ children = [c \in 1..Len(children) |-> children[c]]
    BY <1>1, <1>2, Children DEF Shape
  <2> HIDE DEF children
  <2>4. \A c \in 1..Len(kids[g]) : tree1[kids[g][c]] = tree[kids[g][c]]
    <3> SUFFICES ASSUME NEW c \in 1..Len(kids[g]) PROVE tree1[kids[g][c]] = tree[kids[g][c]]
      OBVIOUS
    <3>1. kids[g][c] \in 0..n - 1 /\ kids[g][c] > g
      BY <1>1, <1>3, KidsInside
    <3> QED
      BY <1>3, <1>5, <3>1, SMTT(60)
  <2>5. children = [c \in 1..Len(kids[g]) |-> tree1[kids[g][c]]]
    <3>1. Len(kids[g]) = Len(children)
      BY <2>2, <2>3, SMTT(60)
    <3>2. \A c \in 1..Len(children) : children[c] = tree1[kids[g][c]]
      BY <2>2, <2>4, <3>1
    <3>3. [c \in 1..Len(children) |-> children[c]] = [c \in 1..Len(children) |-> tree1[kids[g][c]]]
      BY <3>2
    <3> QED
      BY <2>3, <3>1, <3>3
  <2>6. GroupType(s, level) # "NAME"
    BY DEF GroupType
  <2>7. r.scaffold[g].type = GroupType(s, level) /\ r.scaffold[g].quant = quant
    BY <2>2 DEF Closes
  <2>8. new = Ref!Tree(GroupType(s, level), quant, "-", children)
    BY <1>1 DEF ClosedGroup, children
  <2> QED
    BY <1>5, <2>5, <2>6, <2>7, <2>8, Zenon DEF TreeOf
<1>8. ASSUME NEW i \in 0..n - 1, i \notin Open(r)
      PROVE  tree1[i] = TreeOf(r.scaffold[i], kids[i], tree1)
  <2>1. CASE i = g
    BY <1>7, <2>1
  <2>2. CASE i # g
    <3>1. i \notin Open(d)
      <4> SUFFICES ASSUME NEW l \in 0..level - 1, i = d.scaffIndex[l] PROVE FALSE
        BY DEF Open
      <4>1. l # level - 1
        BY <2>2
      <4>2. l \in 0..(level - 1) - 1
        BY <4>1
      <4> QED
        BY <1>8, <4>2 DEF Open, Closes
    <3>2. \A c \in 1..Len(kids[i]) : kids[i][c] # g
      <4> SUFFICES ASSUME NEW c \in 1..Len(kids[i]), kids[i][c] = g PROVE FALSE
        OBVIOUS
      <4>1. level - 2 \in 0..level - 1 /\ i = d.scaffIndex[level - 2]
        BY <1>6, SMTT(60)
      <4> QED
        BY <3>1, <4>1 DEF Open
    <3>3. \A c \in 1..Len(kids[i]) : tree1[kids[i][c]] = tree[kids[i][c]]
      BY <1>1, <1>5, <3>2, KidsInside
    <3>4. tree[i] = TreeOf(d.scaffold[i], kids[i], tree)
      BY <1>1, <3>1 DEF Trees
    <3>5. SameLabel(r.scaffold[i], d.scaffold[i])
      BY <2>2 DEF Closes
    <3>6. TreeOf(r.scaffold[i], kids[i], tree1) = TreeOf(d.scaffold[i], kids[i], tree)
      BY <3>3, <3>5, TreeKept
    <3> QED
      BY <1>5, <2>2, <3>4, <3>6
  <2> QED
    BY <2>1, <2>2
<1>9. Trees(r, kids, tree1)
  BY <1>8 DEF Trees, Closes
<1> QED
  BY <1>3, <1>4, <1>5, <1>6, <1>9 DEF ClosedRead

LEMMA EndCollected ==
  ASSUME NEW d, NEW s, Shape(s), NEW kids, NEW tree, Collects(d, s, kids, tree),
         d.scaffCount \in Nat, d.scaffLevel \in Nat, d.scaffLevel > 1, s.at = "next",
         NEW r, NEW t, NEW type, type = GroupType(s, Len(s.groups)),
         r.contentStringLen = d.contentStringLen,
         Closes(d, r, d.scaffIndex[d.scaffLevel - 1], Ref!Quantifier(t.k))
  PROVE  \E k, tr : Collects(r, Ref!ReadEnd(s, type, t), k, tr)
<1> DEFINE n == d.scaffCount
           level == d.scaffLevel
           g == d.scaffIndex[level - 1]
           new == ClosedGroup(s, Ref!Quantifier(t.k))
           tree1 == WithClosed(tree, n, g, new)
           front == Ref!Front(s.groups)
           gs == Ref!AddChild(front, new)
           s1 == Ref!ReadEnd(s, type, t)
<1>1. /\ Linking(d.scaffold, n, kids) /\ Path(d.scaffIndex, level, n, kids)
      /\ \A l \in 1..level : GroupRead(d, s, kids, tree, l)
      /\ n = s.nodes /\ d.contentStringLen = s.chars /\ level = Len(s.groups)
  BY DEF Collects
<1>2. /\ g \in 0..n - 1 /\ Linking(r.scaffold, n, kids) /\ Trees(r, kids, tree1)
      /\ tree1[g] = new /\ \A i \in 0..n - 1 : i # g => tree1[i] = tree[i]
      /\ \A i \in 0..n - 1 : \A c \in 1..Len(kids[i]) :
           kids[i][c] = g => level > 1 /\ i = d.scaffIndex[level - 2] /\ c = Len(kids[i])
  <2>1. g = d.scaffIndex[d.scaffLevel - 1] /\ new = ClosedGroup(s, Ref!Quantifier(t.k))
        /\ tree1 = WithClosed(tree, d.scaffCount, g, new)
        /\ Closes(d, r, g, Ref!Quantifier(t.k)) /\ d.scaffLevel > 0
    OBVIOUS
  <2> HIDE DEF g, new, tree1
  <2>2. ClosedRead(d, r, kids, tree, g, new, tree1)
    BY <2>1, TreesClosed
  <2> QED
    BY <2>2 DEF ClosedRead
<1>3. Grouped(s.groups) /\ s.groups # <<>>
  <2>1. s.groups = <<>> => Len(s.groups) = 0
    OBVIOUS
  <2> QED
    BY <1>1, <2>1 DEF Shape
<1>4. /\ Grouped(front) /\ Len(front) = level - 1 /\ front # <<>>
      /\ \A l \in 1..level - 1 : front[l] = s.groups[l]
  <2>1. Grouped(front) /\ Len(front) = level - 1 /\ \A l \in 1..level - 1 : front[l] = s.groups[l]
    BY <1>1, <1>3, GroupClosed, FrontKeeps
  <2>2. front = <<>> => Len(front) = 0
    OBVIOUS
  <2> QED
    BY <2>1, <2>2
<1>5. /\ Len(front[level - 1].children) \in Nat
      /\ Len(gs) = level - 1 /\ gs[level - 1].separator = front[level - 1].separator
      /\ Len(gs[level - 1].children) = Len(front[level - 1].children) + 1
      /\ gs[level - 1].children[Len(front[level - 1].children) + 1] = new
      /\ \A c \in 1..Len(front[level - 1].children) :
           gs[level - 1].children[c] = front[level - 1].children[c]
      /\ \A l \in 1..(level - 1) - 1 : gs[l] = front[l]
  <2> HIDE DEF front, new
  <2>1. Appended(front, gs, new)
    BY <1>4, ChildAppended, Zenon
  <2> HIDE DEF gs
  <2> QED
    BY <1>4, <2>1 DEF Appended
<1>6. s1.nodes = s.nodes /\ s1.chars = s.chars /\ s1.groups = gs /\ s1.at = "next"
  <2>1. Ref!Last(s.groups) = s.groups[Len(s.groups)]
    BY DEF Ref!Last
  <2>2. new = Ref!Tree(type, Ref!Quantifier(t.k), "-", Ref!Last(s.groups).children)
    BY <2>1 DEF ClosedGroup
  <2>4. Len(s.groups) # 1
    <3>1. Len(s.groups) = d.scaffLevel
      BY <1>1
    <3> QED
      BY <3>1
  <2>5. front = Ref!Front(s.groups)
    OBVIOUS
  <2> HIDE DEF new, front
  <2>3. s1 = [s EXCEPT !.at = "next", !.groups = gs]
    BY <2>2, <2>4, <2>5 DEF Ref!ReadEnd
  <2> HIDE DEF gs, s1
  <2> QED
    BY <2>3 DEF Shape, Ref!Start
<1>7. /\ \A l \in 1..level - 1 : gs[l].separator = s.groups[l].separator
      /\ \A l \in 1..level - 2 : gs[l].children = s.groups[l].children
  <2>1. \A l \in 1..level - 1 : l = level - 1 \/ l \in 1..(level - 1) - 1
    OBVIOUS
  <2>2. \A l \in 1..level - 2 : l \in 1..(level - 1) - 1 /\ l \in 1..level - 1
    OBVIOUS
  <2> HIDE DEF gs, front
  <2>3. \A l \in 1..level - 2 : gs[l].children = s.groups[l].children
    BY <1>4, <1>5, <2>2
  <2>4. ASSUME NEW l \in 1..level - 1 PROVE gs[l].separator = s.groups[l].separator
    <3>1. l \in 1..level - 1 /\ front[l] = s.groups[l]
      BY <1>4
    <3>2. ASSUME l = level - 1 PROVE gs[l].separator = front[l].separator
      BY <1>5, <3>2
    <3>3. ASSUME l \in 1..(level - 1) - 1 PROVE gs[l].separator = front[l].separator
      <4>1. gs[l] = front[l]
        BY <1>5, <3>3
      <4> QED
        BY <4>1
    <3> QED
      BY <2>1, <3>1, <3>2, <3>3
  <2> QED
    BY <2>3, <2>4
<1>8. front[level - 1] = s.groups[level - 1]
  BY <1>4
<1> HIDE DEF g, new, tree1, front, gs, s1
<1>9. Path(r.scaffIndex, level - 1, n, kids)
  <2>1. /\ \A l \in 0..(level - 1) - 1 : l \in 0..level - 1
        /\ \A l \in 1..(level - 1) - 1 : l \in 1..level - 1
    OBVIOUS
  <2>2. r.scaffIndex = d.scaffIndex
    BY DEF Closes
  <2>3. Path(d.scaffIndex, level, n, kids) /\ level > 0
    BY <1>1
  <2> HIDE DEF level
  <2> QED
    BY <2>1, <2>2, <2>3 DEF Path
<1>10. ASSUME NEW l \in 1..level - 1
       PROVE  GroupRead(r, s1, kids, tree1, l)
  <2> DEFINE i == d.scaffIndex[l - 1]
             children == s.groups[l].children
  <2>1. r.scaffIndex[l - 1] = i
    BY DEF Closes
  <2>2. l - 1 \in 0..level - 1 /\ level - 1 \in 0..level - 1 /\ l - 1 < level - 1 /\ l < level
    OBVIOUS
  <2>3. i \in 0..n - 1 /\ i # g
    <3>1. Path(d.scaffIndex, level, n, kids)
      BY <1>1
    <3>2. d.scaffIndex[l - 1] < d.scaffIndex[level - 1] /\ d.scaffIndex[l - 1] \in 0..n - 1
      BY <2>2, <3>1 DEF Path
    <3> QED
      BY <1>2, <3>2 DEF g
  <2>4. /\ d.scaffold[i].type = GroupType(s, l) /\ Len(kids[i]) = Len(children) + 1
        /\ \A c \in 1..Len(children) : children[c] = tree[kids[i][c]]
    <3>1. l \in 1..level /\ l < level
      OBVIOUS
    <3>2. GroupRead(d, s, kids, tree, l)
      BY <1>1, <3>1
    <3> QED
      BY <3>1, <3>2 DEF GroupRead
  <2>5. Len(children) \in Nat
    BY <1>1, <1>3, Children
  <2> HIDE DEF i, children
  <2>6. r.scaffold[i].type = GroupType(s1, l)
    BY <1>6, <1>7, <2>3, <2>4 DEF Closes, SameLabel, GroupType, g
  <2>7. \A c \in 1..Len(children) : children[c] = tree1[kids[i][c]]
    <3> SUFFICES ASSUME NEW c \in 1..Len(children) PROVE children[c] = tree1[kids[i][c]]
      OBVIOUS
    <3>1. c \in 1..Len(kids[i]) /\ c # Len(kids[i])
      BY <2>4, <2>5
    <3>2. kids[i][c] \in 0..n - 1 /\ kids[i][c] # g
      BY <1>1, <1>2, <2>3, <3>1, KidsInside
    <3> QED
      BY <1>2, <2>4, <3>2
  <2>8. CASE l = level - 1
    <3>1. ~(l < level - 1) /\ l = level - 1 /\ l - 1 = level - 2
      BY <2>8
    <3>2. kids[i][Len(kids[i])] = g
      <4>1. level - 1 \in 1..level - 1 /\ (level - 1) - 1 = l - 1
        BY <2>8
      <4> QED
        BY <1>1, <4>1 DEF Path, g, i
    <3>3. /\ Len(s1.groups[l].children) = Len(children) + 1
          /\ s1.groups[l].children[Len(children) + 1] = new
          /\ \A c \in 1..Len(children) : s1.groups[l].children[c] = children[c]
      BY <1>5, <1>6, <1>8, <3>1 DEF children
    <3>4. ASSUME NEW c \in 1..Len(s1.groups[l].children)
          PROVE  s1.groups[l].children[c] = tree1[kids[i][c]]
      <4>1. c = Len(children) + 1 \/ c \in 1..Len(children)
        BY <2>5, <3>3
      <4>2. CASE c = Len(children) + 1
        BY <1>2, <2>4, <3>2, <3>3, <4>2
      <4>3. CASE c \in 1..Len(children)
        BY <2>7, <3>3, <4>3
      <4> QED
        BY <4>1, <4>2, <4>3
    <3>5. Len(kids[i]) = Len(s1.groups[l].children) + 0 /\ ~(l < r.scaffLevel)
      BY <2>4, <2>5, <3>1, <3>3 DEF Closes
    <3> QED
      BY <2>1, <2>6, <3>4, <3>5 DEF GroupRead
  <2>9. CASE l # level - 1
    <3>1. l \in 1..level - 2 /\ l < level - 1
      BY <2>9
    <3>2. s1.groups[l].children = children /\ l < r.scaffLevel
      BY <1>6, <1>7, <3>1 DEF Closes, children
    <3> QED
      BY <2>1, <2>4, <2>6, <2>7, <3>2 DEF GroupRead
  <2> QED
    BY <2>8, <2>9
<1>11. Collects(r, s1, kids, tree1)
  BY <1>1, <1>2, <1>5, <1>6, <1>9, <1>10 DEF Collects, Closes
<1> QED
  BY <1>11 DEF s1

-----------------------------------------------------------------------------
(* build_model: the tree of the first node.                                  *)
LEMMA MembersLinked ==
  ASSUME NEW d, d.scaffCount \in Nat, NEW kids, Linking(d.scaffold, d.scaffCount, kids),
         NEW i \in 0..d.scaffCount - 1
  PROVE  \A c \in 1..Len(kids[i]) : Members(d, i)[c] = kids[i][c]
<1> DEFINE m == d.scaffold[i].childcnt
           Walks(f, k) ==
             f = [c \in 1..k |-> IF c = 1 THEN d.scaffold[i].firstchild
                                 ELSE d.scaffold[f[c - 1]].nextsib]
           T == {k \in Nat : \E f : Walks(f, k)}
<1>1. m = Len(kids[i]) /\ m \in Nat /\ kids[i] \in Seq(Nat)
  BY DEF Linking
<1>2. 0 \in T
  <2> DEFINE f == [c \in 1..0 |-> 0]
  <2>1. Walks(f, 0)
    OBVIOUS
  <2> HIDE DEF Walks
  <2> QED
    BY <2>1
<1>3. ASSUME NEW k \in Nat, k \in T PROVE k + 1 \in T
  <2>1. PICK f : Walks(f, k)
    BY <1>3
  <2> DEFINE g == [c \in 1..k + 1 |->
                     IF c = 1 THEN d.scaffold[i].firstchild ELSE d.scaffold[f[c - 1]].nextsib]
  <2>2. \A c \in 1..k : f[c] = g[c]
    <3>1. \A c \in 1..k : c \in 1..k + 1
      OBVIOUS
    <3>2. \A c \in 1..k : f[c] = IF c = 1 THEN d.scaffold[i].firstchild
                                ELSE d.scaffold[f[c - 1]].nextsib
      BY <2>1, Zenon
    <3>3. \A c \in 1..k + 1 : g[c] = IF c = 1 THEN d.scaffold[i].firstchild
                                    ELSE d.scaffold[f[c - 1]].nextsib
      BY Zenon
    <3> QED
      BY <3>1, <3>2, <3>3, Zenon
  <2>3. \A c \in 1..k + 1 :
          g[c] = IF c = 1 THEN d.scaffold[i].firstchild ELSE d.scaffold[g[c - 1]].nextsib
    <3> SUFFICES ASSUME NEW c \in 1..k + 1, c # 1 PROVE g[c] = d.scaffold[g[c - 1]].nextsib
      OBVIOUS
    <3>1. c - 1 \in 1..k
      OBVIOUS
    <3>2. f[c - 1] = g[c - 1]
      BY <2>2, <3>1
    <3>3. g[c] = d.scaffold[f[c - 1]].nextsib
      OBVIOUS
    <3> HIDE DEF g
    <3> QED
      BY <3>2, <3>3
  <2>4. g = [c \in 1..k + 1 |-> g[c]]
    OBVIOUS
  <2> HIDE DEF g
  <2>5. Walks(g, k + 1)
    BY <2>3, <2>4
  <2> HIDE DEF Walks
  <2> QED
    BY <2>5
<1> HIDE DEF T, m
<1>4. m \in T
  BY <1>1, <1>2, <1>3, SetInduction
<1> DEFINE f == CHOOSE f : Walks(f, m)
<1>5. Walks(f, m)
  <2>1. \E g : Walks(g, m)
    BY <1>4 DEF T
  <2> HIDE DEF Walks
  <2> QED
    BY <2>1
<1>6. Members(d, i) = f
  BY DEF Members, m
<1> HIDE DEF f
<1>7. \A c \in 1..m : f[c] = IF c = 1 THEN d.scaffold[i].firstchild
                             ELSE d.scaffold[f[c - 1]].nextsib
  BY <1>5
<1> DEFINE U == {c \in Nat : c \in 1..m => f[c] = kids[i][c]}
<1>8. 0 \in U
  OBVIOUS
<1>9. ASSUME NEW c \in Nat, c \in U PROVE c + 1 \in U
  <2> SUFFICES ASSUME c + 1 \in 1..m PROVE f[c + 1] = kids[i][c + 1]
    OBVIOUS
  <2>1. CASE c = 0
    <3>1. kids[i] # <<>>
      BY <1>1
    <3>2. d.scaffold[i].firstchild = kids[i][1]
      BY <3>1 DEF Linking
    <3> QED
      BY <1>7, <2>1, <3>2
  <2>2. CASE c # 0
    <3>1. c \in 1..Len(kids[i]) /\ c < Len(kids[i]) /\ c \in 1..m /\ c + 1 # 1 /\ (c + 1) - 1 = c
      BY <1>1, <2>2
    <3>2. d.scaffold[kids[i][c]].nextsib = kids[i][c + 1]
      BY <3>1 DEF Linking
    <3>3. f[c] = kids[i][c]
      BY <1>9, <3>1
    <3>4. f[c + 1] = d.scaffold[f[c]].nextsib
      BY <1>7, <3>1
    <3> QED
      BY <3>2, <3>3, <3>4
  <2> QED
    BY <2>1, <2>2
<1> HIDE DEF U
<1>10. \A c \in Nat : c \in U
  BY <1>8, <1>9, SetInduction
<1> QED
  BY <1>1, <1>6, <1>10 DEF U

LEMMA ModelBuilt ==
  ASSUME NEW d, d.scaffCount \in Nat, d.scaffCount > 0,
         NEW kids, NEW tree, Linking(d.scaffold, d.scaffCount, kids),
         \A i \in 0..d.scaffCount - 1 : tree[i] = TreeOf(d.scaffold[i], kids[i], tree)
  PROVE  build_model(d) =
           [model |-> tree[0], nodes |-> d.scaffCount, chars |-> d.contentStringLen]
<1> DEFINE n == d.scaffCount
           Node1(f, i) ==
             [type |-> d.scaffold[i].type, quant |-> d.scaffold[i].quant,
              name |-> IF d.scaffold[i].type = "NAME" THEN d.scaffold[i].name ELSE "-",
              children |-> IF d.scaffold[i].type = "NAME" THEN <<>>
                           ELSE [c \in 1..d.scaffold[i].childcnt |-> f[Members(d, i)[c]]]]
           Built(f) == f = [i \in 0..n - 1 |-> Node1(f, i)]
           R == [i \in 0..n - 1 |-> tree[i]]
<1>1. ASSUME NEW i \in 0..n - 1
      PROVE  /\ d.scaffold[i].childcnt = Len(kids[i]) /\ Len(kids[i]) \in Nat
             /\ \A c \in 1..Len(kids[i]) :
                  /\ Members(d, i)[c] = kids[i][c]
                  /\ kids[i][c] \in 0..n - 1 /\ kids[i][c] > i
  <2>1. \A c \in 1..Len(kids[i]) : Members(d, i)[c] = kids[i][c]
    BY MembersLinked
  <2>2. d.scaffold[i].childcnt = Len(kids[i])
    BY DEF Linking
  <2>3. /\ Len(kids[i]) \in Nat
        /\ \A c \in 1..Len(kids[i]) : kids[i][c] \in 0..n - 1 /\ kids[i][c] > i
    BY KidsInside
  <2> QED
    BY <2>1, <2>2, <2>3
<1>2. ASSUME NEW i \in 0..n - 1, NEW f, \A c \in 1..Len(kids[i]) : f[kids[i][c]] = tree[kids[i][c]]
      PROVE  Node1(f, i) = tree[i]
  <2>1. [c \in 1..d.scaffold[i].childcnt |-> f[Members(d, i)[c]]]
          = [c \in 1..Len(kids[i]) |-> tree[kids[i][c]]]
    BY <1>1, <1>2
  <2>2. tree[i] = TreeOf(d.scaffold[i], kids[i], tree)
    OBVIOUS
  <2> QED
    BY <2>1, <2>2 DEF TreeOf, Ref!Tree
<1> HIDE DEF Node1
<1>3. Built(R)
  <2>1. \A i \in 0..n - 1 : R[i] = Node1(R, i)
    <3> SUFFICES ASSUME NEW i \in 0..n - 1 PROVE tree[i] = Node1(R, i)
      OBVIOUS
    <3>1. \A c \in 1..Len(kids[i]) : R[kids[i][c]] = tree[kids[i][c]]
      BY <1>1
    <3> HIDE DEF R
    <3> QED
      BY <1>2, <3>1
  <2>2. R = [i \in 0..n - 1 |-> R[i]]
    OBVIOUS
  <2> HIDE DEF R
  <2> QED
    BY <2>1, <2>2
<1> HIDE DEF R
<1> DEFINE node == CHOOSE f : Built(f)
<1>4. Built(node)
  <2> HIDE DEF Built
  <2> QED
    BY <1>3
<1>5. build_model(d) = [model |-> node[0], nodes |-> n, chars |-> d.contentStringLen]
  BY DEF build_model, Node1
<1> HIDE DEF node
<1>6. \A i \in 0..n - 1 : node[i] = Node1(node, i)
  BY <1>4
<1> DEFINE T == {k \in Nat : \A i \in 0..n - 1 : i >= n - k => node[i] = tree[i]}
<1>7. 0 \in T
  OBVIOUS
<1>8. ASSUME NEW k \in Nat, k \in T PROVE k + 1 \in T
  <2> SUFFICES ASSUME NEW i \in 0..n - 1, i >= n - (k + 1) PROVE node[i] = tree[i]
    OBVIOUS
  <2>1. \A c \in 1..Len(kids[i]) : node[kids[i][c]] = tree[kids[i][c]]
    <3> SUFFICES ASSUME NEW c \in 1..Len(kids[i]) PROVE node[kids[i][c]] = tree[kids[i][c]]
      OBVIOUS
    <3>1. kids[i][c] \in 0..n - 1 /\ kids[i][c] > i
      BY <1>1
    <3>2. kids[i][c] >= n - k
      BY <3>1
    <3> QED
      BY <1>8, <3>1, <3>2
  <2> QED
    BY <1>2, <1>6, <2>1
<1> HIDE DEF T
<1>9. n \in T
  BY <1>7, <1>8, SetInduction
<1>10. node[0] = tree[0]
  BY <1>9 DEF T
<1> QED
  BY <1>5, <1>10

(* The outermost group closes, and the copy of the scaffold is the model the *)
(* reference has put together.                                               *)
Completes(d, s, kids, tree, r, t) ==
  /\ Shape(s) /\ Collects(d, s, kids, tree)
  /\ d.scaffCount \in Nat /\ d.scaffLevel = 1
  /\ r.contentStringLen = d.contentStringLen
  /\ Closes(d, r, d.scaffIndex[d.scaffLevel - 1], Ref!Quantifier(t.k))

LEMMA LastCollected ==
  ASSUME NEW d, NEW s, NEW kids, NEW tree, NEW r, NEW t, Completes(d, s, kids, tree, r, t)
  PROVE  build_model(r) = Ref!Model(Ref!ReadEnd(s, GroupType(s, Len(s.groups)), t))
<1>0. /\ Shape(s) /\ Collects(d, s, kids, tree)
      /\ d.scaffCount \in Nat /\ d.scaffLevel = 1
      /\ r.contentStringLen = d.contentStringLen
      /\ Closes(d, r, d.scaffIndex[d.scaffLevel - 1], Ref!Quantifier(t.k))
  BY DEF Completes
<1> USE <1>0
<1> DEFINE type == GroupType(s, Len(s.groups))
<1> DEFINE n == d.scaffCount
           g == d.scaffIndex[d.scaffLevel - 1]
           new == ClosedGroup(s, Ref!Quantifier(t.k))
           tree1 == WithClosed(tree, n, g, new)
           s1 == Ref!ReadEnd(s, type, t)
<1>1. n = s.nodes /\ d.contentStringLen = s.chars /\ Len(s.groups) = d.scaffLevel
      /\ Path(d.scaffIndex, d.scaffLevel, n, kids)
  BY DEF Collects
<1>2. /\ g \in 0..n - 1 /\ Linking(r.scaffold, n, kids) /\ Trees(r, kids, tree1)
      /\ tree1[g] = new
  <2>1. /\ g = d.scaffIndex[d.scaffLevel - 1] /\ new = ClosedGroup(s, Ref!Quantifier(t.k))
        /\ tree1 = WithClosed(tree, d.scaffCount, g, new)
        /\ Closes(d, r, g, Ref!Quantifier(t.k)) /\ d.scaffLevel > 0 /\ d.scaffLevel \in Nat
    OBVIOUS
  <2> HIDE DEF g, new, tree1
  <2>2. ClosedRead(d, r, kids, tree, g, new, tree1)
    BY <2>1, TreesClosed
  <2> QED
    BY <2>2 DEF ClosedRead
<1>3. g = 0
  BY <1>1 DEF Path
<1>4. s1.nodes = s.nodes /\ s1.chars = s.chars /\ s1.content = new
  <2>1. Ref!Last(s.groups) = s.groups[Len(s.groups)]
    BY DEF Ref!Last
  <2>2. new = Ref!Tree(type, Ref!Quantifier(t.k), "-", Ref!Last(s.groups).children)
    BY <2>1 DEF ClosedGroup
  <2>3. Len(s.groups) = 1
    <3>1. Len(s.groups) = d.scaffLevel
      BY <1>1
    <3> QED
      BY <3>1
  <2> HIDE DEF new
  <2>4. s1 = [s EXCEPT !.at = "end", !.groups = <<>>, !.content = new]
    BY <2>2, <2>3 DEF Ref!ReadEnd
  <2> HIDE DEF s1
  <2> QED
    BY <2>4 DEF Shape, Ref!Start
<1> HIDE DEF g, new, tree1, s1
<1>5. /\ r.scaffCount = n /\ r.contentStringLen = s.chars /\ n \in Nat /\ n > 0
      /\ Linking(r.scaffold, r.scaffCount, kids)
  BY <1>1, <1>2 DEF Closes
<1>6. Open(r) = {}
  BY DEF Open, Closes
<1>7. \A i \in 0..r.scaffCount - 1 : tree1[i] = TreeOf(r.scaffold[i], kids[i], tree1)
  BY <1>2, <1>6 DEF Trees
<1>8. build_model(r) =
        [model |-> tree1[0], nodes |-> r.scaffCount, chars |-> r.contentStringLen]
  BY <1>5, <1>7, ModelBuilt
<1>9. Ref!Model(s1) = [model |-> new, nodes |-> n, chars |-> s.chars]
  BY <1>1, <1>4 DEF Ref!Model
<1> QED
  BY <1>2, <1>3, <1>5, <1>8, <1>9 DEF s1

-----------------------------------------------------------------------------
(* What the reference makes of a token, by the role the automaton finds.     *)
ReadsBy(st, s, t, r, n) ==
  /\ r.role = "ELEMENT_NAME" =>
       s.at = "name" /\ n = [s EXCEPT !.at = "spec", !.element = t.n]
  /\ r.role \in {"CONTENT_ANY", "CONTENT_EMPTY"} =>
       /\ s.at = "spec" /\ t.k = IF r.role = "CONTENT_ANY" THEN "ANY" ELSE "EMPTY"
       /\ n = [s EXCEPT !.at = "end", !.nodes = 1, !.content = Ref!Tree(t.k, "NONE", "-", <<>>)]
  /\ r.role = "CONTENT_PCDATA" =>
       s.at = "first" /\ st.handler = "element2" /\ n = [s EXCEPT !.at = "mixed"]
  /\ r.role = "GROUP_OPEN" =>
       s.at \in {"spec", "first", "item"} /\ \E at \in {"first", "item"} : n = Ref!ReadOpen(s, at)
  /\ r.role \in ContentRoles =>
       /\ s.at \in {"first", "item", "mixedName"} /\ QuantOf(r.role) = Ref!Quantifier(t.k)
       /\ n = Ref!ReadLeaf(s, t, IF s.at = "mixedName" THEN "mixed" ELSE "next")
  /\ r.role \in CloseRoles =>
       /\ s.at \in {"mixed", "next"} /\ QuantOf(r.role) = Ref!Quantifier(t.k)
       /\ n = Ref!ReadEnd(s, GroupType(s, Len(s.groups)), t)
  /\ r.role \in {"GROUP_SEQUENCE", "GROUP_CHOICE"} =>
       /\ s.at = "next" /\ t.k = IF r.role = "GROUP_SEQUENCE" THEN "COMMA" ELSE "OR"
       /\ s.groups[Len(s.groups)].separator \in {"none", t.k} =>
            n = [s EXCEPT !.at = "item", !.groups[Len(s.groups)].separator = t.k]
  /\ r.role \notin ElementRoles \cup {"ERROR"} =>
       \/ s.at = "mixed" /\ r.role = "ELEMENT_NONE" /\ n = [s EXCEPT !.at = "mixedName"]
       \/ s.at = "end" /\ n = [s EXCEPT !.at = "done"]

LEMMA Quantifiers ==
  /\ \A k \in Particle : QuantOf(ContentRole(k)) = Ref!Quantifier(k)
  /\ \A k \in GroupEnd : QuantOf(CloseRole(k)) = Ref!Quantifier(k)
BY DEF Particle, QName, Name, AttributeTypes, GroupEnd, QuantOf, ContentRole, CloseRole,
   Ref!Quantifier

LEMMA ErrorReads ==
  ASSUME NEW st, NEW s, NEW t, NEW r, NEW n, r.role = "ERROR"
  PROVE  ReadsBy(st, s, t, r, n)
BY DEF ReadsBy, ContentRoles, CloseRoles

LEMMA LeafReadsBy ==
  ASSUME NEW st, NEW s, NEW t, t.k \in Particle, NEW r, NEW n,
         s.at \in {"first", "item", "mixedName"}, r.role = ContentRole(t.k),
         n = Ref!ReadLeaf(s, t, IF s.at = "mixedName" THEN "mixed" ELSE "next")
  PROVE  ReadsBy(st, s, t, r, n)
<1>1. r.role \in ContentRoles /\ QuantOf(r.role) = Ref!Quantifier(t.k)
  BY Quantifiers, QuantifiedRoles
<1> QED
  BY <1>1 DEF ReadsBy, ContentRoles, CloseRoles, ElementRoles

LEMMA OpenReadsBy ==
  ASSUME NEW st, NEW s, NEW t, NEW r, NEW n, NEW at \in {"first", "item"},
         s.at \in {"spec", "first", "item"}, r.role = "GROUP_OPEN", n = Ref!ReadOpen(s, at)
  PROVE  ReadsBy(st, s, t, r, n)
BY DEF ReadsBy, ContentRoles, CloseRoles, ElementRoles

LEMMA NameReads ==
  ASSUME NEW st \in PrologStates, NEW t, NEW s, Position(st, s), Unskipped(st, t.k),
         st.handler = "element0"
  PROVE  ReadsBy(st, s, t, XmlTokenRole(st, t.k), Ref!Read(s, t))
<1> DEFINE r == XmlTokenRole(st, t.k)
           n == Ref!Read(s, t)
<1>1. s.at = "name"
  BY DEF Position, Place
<1>2. r = element(st, t.k) /\ (element(st, t.k) = common(st, t.k) => common(st, t.k).role = "ERROR")
  BY ElementToken DEF ElementDecl
<1>3. CASE t.k \in QName
  <2>1. r = To(st, "element1", "ELEMENT_NAME")
    BY <1>2, <1>3 DEF element
  <2>2. n = [s EXCEPT !.at = "spec", !.element = t.n]
    BY <1>1, <1>3, SameKinds DEF Ref!Read
  <2>3. r.role = "ELEMENT_NAME"
    BY <2>1 DEF To, Stay
  <2> HIDE DEF r, n
  <2>4. ReadsBy(st, s, t, r, n)
    BY <1>1, <2>2, <2>3 DEF ReadsBy, ContentRoles, CloseRoles, ElementRoles
  <2> QED
    BY <2>4 DEF r, n
<1>4. CASE t.k \notin QName
  BY <1>2, <1>4, ErrorReads DEF element
<1> QED
  BY <1>3, <1>4

LEMMA SpecReads ==
  ASSUME NEW st \in PrologStates, NEW t, NEW s, Position(st, s), Unskipped(st, t.k),
         st.handler = "element1"
  PROVE  ReadsBy(st, s, t, XmlTokenRole(st, t.k), Ref!Read(s, t))
<1> DEFINE r == XmlTokenRole(st, t.k)
           n == Ref!Read(s, t)
<1>1. s.at = "spec"
  BY DEF Position, Place
<1>2. r = element(st, t.k) /\ (element(st, t.k) = common(st, t.k) => common(st, t.k).role = "ERROR")
  BY ElementToken DEF ElementDecl
<1>3. CASE t.k \in {"EMPTY", "ANY"}
  <2>1. r.role = IF t.k = "ANY" THEN "CONTENT_ANY" ELSE "CONTENT_EMPTY"
    BY <1>2, <1>3 DEF element, ToClose, Stay
  <2>2. n = [s EXCEPT !.at = "end", !.nodes = 1, !.content = Ref!Tree(t.k, "NONE", "-", <<>>)]
    BY <1>1, <1>3 DEF Ref!Read
  <2> HIDE DEF r, n
  <2>3. ReadsBy(st, s, t, r, n)
    BY <1>1, <1>3, <2>1, <2>2 DEF ReadsBy, ContentRoles, CloseRoles, ElementRoles
  <2> QED
    BY <2>3 DEF r, n
<1>4. CASE t.k = "OPEN_PAREN"
  <2>1. r.role = "GROUP_OPEN"
    BY <1>2, <1>4 DEF element, To, Stay
  <2>2. n = Ref!ReadOpen(s, "first")
    BY <1>1, <1>4 DEF Ref!Read
  <2> HIDE DEF r, n
  <2>3. ReadsBy(st, s, t, r, n)
    BY <1>1, <2>1, <2>2, OpenReadsBy
  <2> QED
    BY <2>3 DEF r, n
<1>5. CASE t.k \notin {"EMPTY", "ANY", "OPEN_PAREN"}
  BY <1>2, <1>5, ErrorReads DEF element
<1> QED
  BY <1>3, <1>4, <1>5

LEMMA ParticleReads ==
  ASSUME NEW st \in PrologStates, NEW t, NEW s, Position(st, s), Unskipped(st, t.k),
         st.handler \in {"element2", "element6"}
  PROVE  ReadsBy(st, s, t, XmlTokenRole(st, t.k), Ref!Read(s, t))
<1> DEFINE r == XmlTokenRole(st, t.k)
           n == Ref!Read(s, t)
<1>1. s.at \in {"first", "item"} /\ (s.at = "first" <=> st.handler = "element2")
  BY DEF Position, Place
<1>2. r = element(st, t.k) /\ (element(st, t.k) = common(st, t.k) => common(st, t.k).role = "ERROR")
  BY ElementToken DEF ElementDecl
<1>3. CASE t.k = "#PCDATA" /\ st.handler = "element2"
  <2>1. r.role = "CONTENT_PCDATA"
    BY <1>2, <1>3 DEF element, Particle, QName, Name, AttributeTypes, To, Stay
  <2>2. n = [s EXCEPT !.at = "mixed"]
    BY <1>1, <1>3, SameKinds DEF Ref!Read, Particle, QName, Name, AttributeTypes
  <2> HIDE DEF r, n
  <2>3. ReadsBy(st, s, t, r, n)
    BY <1>1, <1>3, <2>1, <2>2 DEF ReadsBy, ContentRoles, CloseRoles, ElementRoles
  <2> QED
    BY <2>3 DEF r, n
<1>4. CASE t.k = "OPEN_PAREN"
  <2>1. r.role = "GROUP_OPEN"
    BY <1>2, <1>4 DEF element, Particle, QName, Name, AttributeTypes, To, Stay
  <2>2. n = Ref!ReadOpen(s, "item")
    BY <1>1, <1>4, SameKinds DEF Ref!Read, Particle, QName, Name, AttributeTypes
  <2> HIDE DEF r, n
  <2>3. ReadsBy(st, s, t, r, n)
    BY <1>1, <2>1, <2>2, OpenReadsBy
  <2> QED
    BY <2>3 DEF r, n
<1>5. CASE t.k \in Particle
  <2>1. r.role = ContentRole(t.k)
    BY <1>2, <1>5 DEF element, Particle, QName, Name, AttributeTypes, To, Stay
  <2>2. n = Ref!ReadLeaf(s, t, "next")
    BY <1>1, <1>5, SameKinds DEF Ref!Read, Particle, QName, Name, AttributeTypes
  <2> HIDE DEF r, n
  <2>3. ReadsBy(st, s, t, r, n)
    BY <1>1, <1>5, <2>1, <2>2, LeafReadsBy
  <2> QED
    BY <2>3 DEF r, n
<1>6. CASE /\ ~(t.k = "#PCDATA" /\ st.handler = "element2")
           /\ t.k \notin {"OPEN_PAREN"} \cup Particle
  BY <1>2, <1>6, ErrorReads DEF element
<1> QED
  BY <1>3, <1>4, <1>5, <1>6

LEMMA MixedReads ==
  ASSUME NEW st \in PrologStates, NEW t, NEW s, Position(st, s), Unskipped(st, t.k),
         st.handler \in {"element3", "element5"}
  PROVE  ReadsBy(st, s, t, XmlTokenRole(st, t.k), Ref!Read(s, t))
<1> DEFINE r == XmlTokenRole(st, t.k)
           n == Ref!Read(s, t)
<1>1. s.at = "mixed" /\ (st.handler = "element3" => s.groups[1].children = <<>>)
  BY DEF Position, Place
<1>2. r = element(st, t.k) /\ (element(st, t.k) = common(st, t.k) => common(st, t.k).role = "ERROR")
  BY ElementToken DEF ElementDecl
<1>3. CASE \/ t.k = "CLOSE_PAREN_ASTERISK"
           \/ t.k = "CLOSE_PAREN" /\ st.handler = "element3"
  <2>1. r.role = CloseRole(t.k) /\ t.k \in GroupEnd
    BY <1>2, <1>3 DEF element, ToClose, Stay, CloseRole, GroupEnd
  <2>2. n = Ref!ReadEnd(s, "MIXED", t)
    BY <1>1, <1>3 DEF Ref!Read
  <2>3. GroupType(s, Len(s.groups)) = "MIXED"
    BY <1>1 DEF GroupType
  <2> HIDE DEF r, n
  <2>5. r.role \in CloseRoles /\ QuantOf(r.role) = Ref!Quantifier(t.k)
    BY <2>1, Quantifiers, QuantifiedRoles
  <2>4. ReadsBy(st, s, t, r, n)
    BY <1>1, <2>2, <2>3, <2>5 DEF ReadsBy, ContentRoles, CloseRoles, ElementRoles
  <2> QED
    BY <2>4 DEF r, n
<1>4. CASE t.k = "OR"
  <2>1. r.role = "ELEMENT_NONE"
    BY <1>2, <1>4 DEF element, To, Stay
  <2>2. n = [s EXCEPT !.at = "mixedName"]
    BY <1>1, <1>4 DEF Ref!Read
  <2> HIDE DEF r, n
  <2>3. ReadsBy(st, s, t, r, n)
    BY <1>1, <2>1, <2>2 DEF ReadsBy, ContentRoles, CloseRoles, ElementRoles
  <2> QED
    BY <2>3 DEF r, n
<1>5. CASE /\ t.k \notin {"CLOSE_PAREN_ASTERISK", "OR"}
           /\ ~(t.k = "CLOSE_PAREN" /\ st.handler = "element3")
  BY <1>2, <1>5, ErrorReads DEF element
<1> QED
  BY <1>3, <1>4, <1>5

LEMMA MixedNameReads ==
  ASSUME NEW st \in PrologStates, NEW t, NEW s, Position(st, s), Unskipped(st, t.k),
         st.handler = "element4"
  PROVE  ReadsBy(st, s, t, XmlTokenRole(st, t.k), Ref!Read(s, t))
<1> DEFINE r == XmlTokenRole(st, t.k)
           n == Ref!Read(s, t)
<1>1. s.at = "mixedName"
  BY DEF Position, Place
<1>2. r = element(st, t.k) /\ (element(st, t.k) = common(st, t.k) => common(st, t.k).role = "ERROR")
  BY ElementToken DEF ElementDecl
<1>3. CASE t.k \in QName
  <2>1. r.role = ContentRole(t.k) /\ t.k \in Particle
    <3>1. ContentRole(t.k) = "CONTENT_ELEMENT"
      BY <1>3 DEF ContentRole, QName, Name, AttributeTypes
    <3> QED
      BY <1>2, <1>3, <3>1 DEF element, To, Stay, Particle
  <2>2. n = Ref!ReadLeaf(s, t, "mixed")
    BY <1>1, <1>3, SameKinds DEF Ref!Read
  <2> HIDE DEF r, n
  <2>3. ReadsBy(st, s, t, r, n)
    BY <1>1, <2>1, <2>2, LeafReadsBy
  <2> QED
    BY <2>3 DEF r, n
<1>4. CASE t.k \notin QName
  BY <1>2, <1>4, ErrorReads DEF element
<1> QED
  BY <1>3, <1>4

LEMMA NextReads ==
  ASSUME NEW st \in PrologStates, NEW t, NEW s, Position(st, s), Unskipped(st, t.k),
         st.handler = "element7"
  PROVE  ReadsBy(st, s, t, XmlTokenRole(st, t.k), Ref!Read(s, t))
<1> DEFINE r == XmlTokenRole(st, t.k)
           n == Ref!Read(s, t)
           type == IF Ref!Last(s.groups).separator = "OR" THEN "CHOICE" ELSE "SEQ"
<1>1. s.at = "next" /\ Ref!Last(s.groups) = s.groups[Len(s.groups)]
  BY DEF Position, Place, Ref!Last
<1>2. r = element(st, t.k) /\ (element(st, t.k) = common(st, t.k) => common(st, t.k).role = "ERROR")
  BY ElementToken DEF ElementDecl
<1>3. CASE t.k \in GroupEnd
  <2>1. r.role = CloseRole(t.k)
    BY <1>2, <1>3 DEF element, GroupEnd, closeGroup, ToClose, Stay
  <2>2. n = Ref!ReadEnd(s, type, t)
    BY <1>1, <1>3, SameKinds DEF Ref!Read, GroupEnd
  <2>3. GroupType(s, Len(s.groups)) = type
    BY <1>1 DEF GroupType
  <2> HIDE DEF r, n, type
  <2>5. r.role \in CloseRoles /\ QuantOf(r.role) = Ref!Quantifier(t.k)
    BY <1>3, <2>1, Quantifiers, QuantifiedRoles
  <2>4. ReadsBy(st, s, t, r, n)
    BY <1>1, <2>2, <2>3, <2>5 DEF ReadsBy, ContentRoles, CloseRoles, ElementRoles
  <2> QED
    BY <2>4 DEF r, n
<1>4. CASE t.k \in {"COMMA", "OR"}
  <2>1. r.role = IF t.k = "COMMA" THEN "GROUP_SEQUENCE" ELSE "GROUP_CHOICE"
    BY <1>2, <1>4 DEF element, GroupEnd, To, Stay
  <2>2. s.groups[Len(s.groups)].separator \in {"none", t.k} =>
          n = [s EXCEPT !.at = "item", !.groups[Len(s.groups)].separator = t.k]
    BY <1>1, <1>4, SameKinds DEF Ref!Read, Ref!Accepts, GroupEnd
  <2> HIDE DEF r, n
  <2>3. ReadsBy(st, s, t, r, n)
    BY <1>1, <1>4, <2>1, <2>2 DEF ReadsBy, ContentRoles, CloseRoles, ElementRoles
  <2> QED
    BY <2>3 DEF r, n
<1>5. CASE t.k \notin {"COMMA", "OR"} \cup GroupEnd
  BY <1>2, <1>5, ErrorReads DEF element
<1> QED
  BY <1>3, <1>4, <1>5

LEMMA CloseReads ==
  ASSUME NEW st \in PrologStates, NEW t, NEW s, Position(st, s), Unskipped(st, t.k),
         st.handler = "declClose"
  PROVE  ReadsBy(st, s, t, XmlTokenRole(st, t.k), Ref!Read(s, t))
<1> DEFINE r == XmlTokenRole(st, t.k)
           n == Ref!Read(s, t)
<1>1. s.at = "end"
  BY DEF Position, Place
<1>2. r = declClose(st, t.k)
  BY DEF Unskipped, XmlTokenRole, Prolog, Doctype, Subset, EntityDecl, NotationDecl, AttlistDecl,
     ElementDecl
<1>3. CASE t.k = "DECL_CLOSE"
  <2>1. r.role \in NoneRoles
    BY <1>2, <1>3 DEF declClose, setTopLevel, To, Stay, PrologStates
  <2>2. n = [s EXCEPT !.at = "done"]
    BY <1>1, <1>3 DEF Ref!Read
  <2> HIDE DEF r, n
  <2>3. ReadsBy(st, s, t, r, n)
    BY <1>1, <2>1, <2>2 DEF ReadsBy, ContentRoles, CloseRoles, ElementRoles, NoneRoles
  <2> QED
    BY <2>3 DEF r, n
<1>4. CASE t.k # "DECL_CLOSE"
  <2>1. r.role = "ERROR"
    BY <1>2, <1>4 DEF declClose, Unskipped, common, Stay, To
  <2> QED
    BY <2>1, ErrorReads
<1> QED
  BY <1>3, <1>4

LEMMA TokensRead ==
  ASSUME NEW st \in PrologStates, NEW t, NEW s, Position(st, s), Unskipped(st, t.k),
         st.handler \notin TopHandlers
  PROVE  ReadsBy(st, s, t, XmlTokenRole(st, t.k), Ref!Read(s, t))
BY NameReads, SpecReads, ParticleReads, MixedReads, MixedNameReads, NextReads, CloseReads
   DEF Position, ElementDecl

-----------------------------------------------------------------------------
(* What is said stays said: no token after the ")" or after EMPTY or ANY     *)
(* changes the model.                                                        *)
LEMMA EndStays ==
  ASSUME NEW s, Shape(s), s.at \in {"end", "done"}, NEW t
  PROVE  LET n == Ref!Read(s, t)
         IN  n.at \in {"done", "bad"} /\ n.element = s.element /\ Ref!Model(n) = Ref!Model(s)
<1>1. Ref!Read(s, t) \in {[s EXCEPT !.at = "done"], [s EXCEPT !.at = "bad"]}
  BY DEF Ref!Read
<1>2. \A at : LET n == [s EXCEPT !.at = at]
              IN  n.at = at /\ n.element = s.element /\ Ref!Model(n) = Ref!Model(s)
  BY DEF Shape, Ref!Start, Ref!Model
<1> QED
  BY <1>1, <1>2

(* A token of an element declaration is skipped, begins the declaration or   *)
(* is read by the reference.                                                 *)
Skips(t) ==
  /\ Skipped(t) /\ IsElementDecl /\ Declaration' = Declaration
  /\ Role(t) \notin ElementRoles \cup {"ERROR"}
  /\ state.handler \in ElementDecl => Role(t) # "ATTLIST_ELEMENT_NAME"

Begins(t) ==
  /\ TopLevel /\ ~Skipped(t) /\ Role(t) = "ELEMENT_NONE"
  /\ Declaration' = [Ref!Start EXCEPT !.at = "name"]

Continues(t) ==
  /\ ~TopLevel /\ IsElementDecl
  /\ Follows(state, groupConnector, Declaration)
  /\ Declaration' = Ref!Read(Declaration, t)
  /\ ReadsBy(state, Declaration, t, XmlTokenRole(state, t.k), Declaration')

LEMMA SkippedRole ==
  ASSUME NEW st \in PrologStates, NEW tok \in {"S", "PARAM_ENTITY_REF"}, st.handler \in ElementDecl
  PROVE  XmlTokenRole(st, tok).role # "ATTLIST_ELEMENT_NAME"
<1>1. CASE tok = "S"
  <2>1. XmlTokenRole(st, tok) = Stay(st, "ELEMENT_NONE")
    BY <1>1 DEF XmlTokenRole, Space, ElementDecl, Doctype, EntityDecl, NotationDecl, AttlistDecl
  <2> QED
    BY <2>1 DEF Stay
<1>2. CASE tok = "PARAM_ENTITY_REF"
  <2>1. XmlTokenRole(st, tok) = element(st, tok)
    BY <1>2 DEF XmlTokenRole, Prolog, Doctype, Subset, EntityDecl, NotationDecl, AttlistDecl,
       ElementDecl
  <2>2. element(st, tok) = common(st, tok)
    BY <1>2 DEF element, Particle, QName, Name, AttributeTypes, GroupEnd
  <2> QED
    BY <2>1, <2>2 DEF common, Stay, To
<1> QED
  BY <1>1, <1>2

LEMMA TokenOfDeclaration ==
  ASSUME IndInv, SyntaxInv, NEW t \in Tokens, Reads(t), Logged(t), IsElementDecl'
  PROVE  Skips(t) \/ Begins(t) \/ Continues(t)
<1> DEFINE r == XmlTokenRole(state, t.k)
<1>1. /\ state \in PrologStates /\ error = "NONE" /\ Role(t) = r.role
      /\ decl \in Seq(Tokens) /\ (decl = <<>> => state.handler \in TopHandlers)
      /\ IsElementDecl => Follows(state, groupConnector, Declaration)
  BY DEF IndInv, TypeOK, SyntaxInv, Reads, Role
<1>2. TopLevel <=> state.handler \in TopHandlers
  BY DEF TopLevel, TopHandlers
<1> HIDE DEF r
<1>3. CASE Skipped(t)
  <2>1. decl' = decl /\ t.k \in {"S", "PARAM_ENTITY_REF"} /\ r.role # "ERROR"
    BY <1>1, <1>3 DEF Logged, Skipped
  <2>2. IsElementDecl /\ Declaration' = Declaration
    BY <2>1 DEF IsElementDecl, Declaration
  <2>3. state.handler \in ElementDecl \cup {"declClose"} \cup TopHandlers
    BY <1>1, <2>2 DEF Follows, Position
  <2>4. r.role \notin ElementRoles
    BY <1>1, <2>1, <2>3, SkipStays DEF r
  <2>5. state.handler \in ElementDecl => r.role # "ATTLIST_ELEMENT_NAME"
    BY <1>1, <2>1, SkippedRole DEF r
  <2> QED
    BY <1>1, <1>3, <2>1, <2>2, <2>4, <2>5 DEF Skips
<1>4. CASE ~Skipped(t) /\ TopLevel
  <2>1. decl' = <<t>>
    BY <1>4 DEF Logged
  <2>2. t.k = "<!ELEMENT"
    BY <2>1 DEF IsElementDecl
  <2>3. r.role = "ELEMENT_NONE"
    BY <1>1, <1>2, <1>4, <2>2, ElementBegins DEF r
  <2>4. Declaration' = Ref!Read(Ref!Start, t)
    <3>1. Declaration' = Ref!Declared(<<t>>)
      BY <2>1, NextDeclaration
    <3> QED
      BY <1>1, <3>1, DeclaredAppend
  <2>5. Ref!Read(Ref!Start, t) = [Ref!Start EXCEPT !.at = "name"]
    BY <2>2 DEF Ref!Read, Ref!Start
  <2> QED
    BY <1>1, <1>4, <2>3, <2>4, <2>5 DEF Begins
<1>5. CASE ~Skipped(t) /\ ~TopLevel
  <2>1. decl' = Append(decl, t) /\ decl # <<>>
    BY <1>1, <1>2, <1>5 DEF Logged
  <2>2. decl'[1] = decl[1]
    BY <1>1, <2>1
  <2>3. IsElementDecl
    BY <2>1, <2>2 DEF IsElementDecl
  <2>4. Follows(state, groupConnector, Declaration) /\ Position(state, Declaration)
    BY <1>1, <2>3 DEF Follows
  <2>5. Declaration' = Ref!Read(Declaration, t)
    <3>1. Declaration' = Ref!Declared(Append(decl, t))
      BY <2>1, NextDeclaration
    <3> QED
      BY <1>1, <3>1, DeclaredAppend DEF Declaration
  <2>6. Unskipped(state, t.k)
    BY <1>1, <1>5, SpaceRole DEF Skipped, Unskipped, Role, r
  <2>7. ReadsBy(state, Declaration, t, XmlTokenRole(state, t.k), Ref!Read(Declaration, t))
    BY <1>1, <1>2, <1>5, <2>4, <2>6, TokensRead
  <2> QED
    BY <1>5, <2>3, <2>4, <2>5, <2>7 DEF Continues
<1> QED
  BY <1>3, <1>4, <1>5

-----------------------------------------------------------------------------
(* The inductive invariant.  While no error has occurred, a declaration      *)
(* whose model is collected is in the scaffold as far as it was read, the    *)
(* handler has been called only for one that is complete, and the names of a *)
(* model are counted from zero.                                              *)
Progress(d, type, calls, kp, s) ==
  /\ s.at \notin {"end", "done"} => calls = <<>>
  /\ d.in_eldecl => type = s.element /\ \E kids, tree : Collects(d, s, kids, tree)
  /\ s.at \in {"name", "spec"} => s.nodes = 0 /\ s.chars = 0
  /\ kp /\ s.at # "name" => d.in_eldecl \/ calls # <<>>

Called(calls, s) ==
  calls # <<>> => calls = <<[element |-> s.element, content |-> Ref!Model(s)]>>

Delivery(err, d, type, calls, kp, s) ==
  Called(calls, s) /\ (err = "NONE" => Progress(d, type, calls, kp, s))

Counted(err, d, st) ==
  err = "NONE" /\ (~d.in_eldecl \/ st.handler = "element1") => d.contentStringLen = 0

ModelInv ==
  /\ Counted(error, dtd, state)
  /\ kept => elementDeclHandler
  /\ IsElementDecl => Delivery(error, dtd, declElementType, delivered, kept, Declaration)

LEMMA NextDelivery ==
  Delivery(error', dtd', declElementType', delivered', kept', Declaration')
    => Delivery(error, dtd, declElementType, delivered, kept, Declaration)'
<1>1. \A e, d, ty, c, k, s :
        /\ error = e /\ dtd = d /\ declElementType = ty /\ delivered = c /\ kept = k
        /\ Declaration = s /\ Delivery(e, d, ty, c, k, s)
        => Delivery(error, dtd, declElementType, delivered, kept, Declaration)
  OBVIOUS
<1>2. (\A e, d, ty, c, k, s :
        /\ error = e /\ dtd = d /\ declElementType = ty /\ delivered = c /\ kept = k
        /\ Declaration = s /\ Delivery(e, d, ty, c, k, s)
        => Delivery(error, dtd, declElementType, delivered, kept, Declaration))'
  BY <1>1, PTL
<1> QED
  BY <1>2

LEMMA NextCounted == Counted(error', dtd', state') => Counted(error, dtd, state)'
BY DEF Counted

(* What is left to show of a step.                                           *)
LEMMA ModelKept ==
  ASSUME Counted(error', dtd', state'), kept' => elementDeclHandler',
         IsElementDecl' =>
           Delivery(error', dtd', declElementType', delivered', kept', Declaration')
  PROVE  ModelInv'
BY NextDelivery, NextCounted DEF ModelInv

(* A token is read that is one of an element declaration.                    *)
Reading(t, s, n) ==
  /\ Before(t, XmlTokenRole(state, t.k)) /\ state \in PrologStates
  /\ Counted(error, dtd, state)
  /\ s = Declaration /\ n = Declaration'
  /\ IsElementDecl' /\ (Skips(t) \/ Begins(t) \/ Continues(t))
  /\ IsElementDecl => Delivery(error, dtd, declElementType, delivered, kept, s)
  /\ IsElementDecl => Position(state, s) /\ Shape(s)

LEMMA TokenReading ==
  ASSUME IndInv, SyntaxInv, ModelInv, NEW t \in Tokens, Reads(t), Logged(t), IsElementDecl'
  PROVE  Reading(t, Declaration, Declaration')
<1>1. Before(t, XmlTokenRole(state, t.k))
  BY TokenRead
<1>2. error = "NONE" /\ state \in PrologStates
  BY <1>1 DEF Before, TypeOK
<1>3. Skips(t) \/ Begins(t) \/ Continues(t)
  BY TokenOfDeclaration
<1>4. IsElementDecl => Position(state, Declaration) /\ Shape(Declaration)
  BY <1>2 DEF SyntaxInv, Follows, Position
<1> QED
  BY <1>1, <1>2, <1>3, <1>4 DEF Reading, ModelInv

(* A token whose role is one of an element declaration's is read by the      *)
(* reference.                                                                *)
LEMMA RoleRead ==
  ASSUME NEW t, NEW s, NEW n, Reading(t, s, n), Role(t) \in ElementRoles \cup {"ERROR"}
  PROVE  /\ n = Ref!Read(s, t) /\ Follows(state, groupConnector, s)
         /\ ReadsBy(state, s, t, XmlTokenRole(state, t.k), n)
         /\ XmlTokenRole(state, t.k).role = Role(t) /\ state' = XmlTokenRole(state, t.k).state
         /\ Position(state, s) /\ Shape(s)
         /\ Called(delivered, s) /\ Progress(dtd, declElementType, delivered, kept, s)
<1>1. Continues(t)
  BY DEF Reading, Skips, Begins, ElementRoles
<1>2. error = "NONE"
  BY DEF Reading, Before
<1>3. Delivery(error, dtd, declElementType, delivered, kept, s) /\ Position(state, s) /\ Shape(s)
  BY <1>1 DEF Reading, Continues
<1>4. /\ n = Ref!Read(s, t) /\ Follows(state, groupConnector, s)
      /\ ReadsBy(state, s, t, XmlTokenRole(state, t.k), n)
  BY <1>1 DEF Reading, Continues
<1>5. XmlTokenRole(state, t.k).role = Role(t) /\ state' = XmlTokenRole(state, t.k).state
  BY DEF Reading, Before
<1> QED
  BY <1>2, <1>3, <1>4, <1>5 DEF Delivery

LEMMA NothingCollected ==
  ASSUME NEW d, d.scaffCount = 0, d.scaffLevel = 0, d.contentStringLen = 0,
         NEW s, s.nodes = 0, s.chars = 0, s.groups = <<>>
  PROVE  \E kids, tree : Collects(d, s, kids, tree)
<1> DEFINE kids == [i \in 0..0 - 1 |-> <<>>]
<1>1. Linking(d.scaffold, d.scaffCount, kids)
  BY DEF Linking
<1>2. Path(d.scaffIndex, d.scaffLevel, d.scaffCount, kids) /\ Trees(d, kids, kids)
  BY DEF Path, Trees
<1>3. Collects(d, s, kids, kids)
  BY <1>1, <1>2 DEF Collects
<1> QED
  BY <1>3

(* While no error has occurred a collected declaration is inside of its      *)
(* content.                                                                  *)
LEMMA CollectedInside ==
  ASSUME Collected, NEW s, Position(state, s), dtd.in_eldecl
  PROVE  s.at \in {"spec", "first", "mixed", "mixedName", "item", "next"}
<1>1. state.handler \in ElementDecl \ {"element0"}
  BY DEF Collected, InDeclaration
<1> QED
  BY <1>1 DEF Position, Place, ElementDecl

(* A token ends the parse.                                                   *)
LEMMA FailedModel ==
  ASSUME IndInv, SyntaxInv, ModelInv, NEW t \in Tokens, Reads(t), Logged(t),
         Role(t) \in ElementRoles \cup {"ERROR"}, error' # "NONE", delivered' = delivered,
         kept' \in {kept, elementDeclHandler}
  PROVE  ModelInv'
<1>1. kept' => elementDeclHandler'
  BY DEF Reads, ModelInv
<1>2. ASSUME IsElementDecl' PROVE Called(delivered, Declaration')
  <2> DEFINE s == Declaration
             n == Declaration'
  <2>1. Reading(t, s, n)
    BY <1>2, TokenReading
  <2> HIDE DEF s, n
  <2>2. /\ n = Ref!Read(s, t) /\ Shape(s) /\ Called(delivered, s)
        /\ Progress(dtd, declElementType, delivered, kept, s)
    BY <2>1, RoleRead
  <2>3. CASE delivered # <<>>
    <3>1. s.at \in {"end", "done"}
      BY <2>2, <2>3 DEF Progress
    <3>2. n.element = s.element /\ Ref!Model(n) = Ref!Model(s)
      BY <2>2, <3>1, EndStays
    <3> QED
      BY <2>2, <3>2 DEF Called, n
  <2>4. CASE delivered = <<>>
    BY <2>4 DEF Called
  <2> QED
    BY <2>3, <2>4
<1> QED
  BY <1>1, <1>2, ModelKept DEF Counted, Delivery

LEMMA RefuseModel ==
  ASSUME IndInv, SyntaxInv, ModelInv, NEW t \in Tokens, Refuse(t)
  PROVE  ModelInv'
<1>1. /\ Reads(t) /\ Logged(t) /\ Role(t) = "ERROR" /\ error' # "NONE"
      /\ delivered' = delivered /\ kept' = kept
  BY DEF Refuse, Fail
<1> QED
  BY <1>1, FailedModel

(* A token with another role: at the top level, or after the content.        *)
LEMMA PassedModel ==
  ASSUME IndInv, SyntaxInv, ModelInv, NEW t \in Tokens, Reads(t), Logged(t),
         Role(t) \notin ElementRoles \cup {"ERROR"},
         dtd' = dtd, kept' = kept, error' \in {"NONE", "NO_MEMORY"},
         IF Role(t) = "ATTLIST_ELEMENT_NAME" THEN delivered' = delivered
         ELSE /\ declElementType' = declElementType
              /\ delivered' = IF TopLevel /\ ~Skipped(t) THEN <<>> ELSE delivered
  PROVE  ModelInv'
<1> DEFINE r == XmlTokenRole(state, t.k)
<1>1. kept' => elementDeclHandler'
  BY DEF Reads, ModelInv
<1>2. Before(t, r)
  BY TokenRead
<1>3. /\ Collected /\ error = "NONE" /\ state' = r.state /\ r.role = Role(t)
      /\ RoleStep(state, r) /\ state \in PrologStates
  BY <1>2 DEF Before, TypeOK
<1> HIDE DEF r
<1>4. state'.handler = "element1" => state.handler = "element1"
  BY <1>3 DEF RoleStep, Flat, ElementDecl
<1>5. Counted(error', dtd', state')
  BY <1>3, <1>4 DEF ModelInv, Counted
<1>6. ASSUME IsElementDecl'
      PROVE  Delivery(error', dtd', declElementType', delivered', kept', Declaration')
  <2> DEFINE s == Declaration
             n == Declaration'
  <2>1. Reading(t, s, n)
    BY <1>6, TokenReading
  <2>2. CASE Skips(t)
    <3>1. /\ n = s /\ delivered' = delivered
          /\ Delivery("NONE", dtd, declElementType, delivered, kept, s) /\ Position(state, s)
      BY <1>3, <2>1, <2>2 DEF Skips, Reading
    <3>2. dtd.in_eldecl => declElementType' = declElementType
      BY <1>3, <2>2 DEF Skips, Collected, InDeclaration
    <3> HIDE DEF s, n
    <3>3. Delivery(error', dtd', declElementType', delivered', kept', n)
      BY <3>1, <3>2 DEF Delivery, Progress
    <3> QED
      BY <3>3 DEF n
  <2>3. CASE Begins(t)
    <3>1. /\ n = [Ref!Start EXCEPT !.at = "name"] /\ delivered' = <<>>
          /\ state.handler \in TopHandlers
      BY <2>3 DEF Begins, TopLevel, TopHandlers
    <3>2. ~dtd.in_eldecl
      BY <1>3, <3>1 DEF Collected, InDeclaration, ElementDecl, TopHandlers
    <3>3. n.at = "name" /\ n.nodes = 0 /\ n.chars = 0
      BY <3>1 DEF Ref!Start
    <3> HIDE DEF n
    <3>4. Delivery(error', dtd', declElementType', delivered', kept', n)
      BY <3>1, <3>2, <3>3 DEF Delivery, Progress, Called
    <3> QED
      BY <3>4 DEF n
  <2>4. CASE Continues(t)
    <3>1. /\ ReadsBy(state, s, t, r, n) /\ Position(state, s) /\ Shape(s)
          /\ Called(delivered, s) /\ Progress(dtd, declElementType, delivered, kept, s)
      BY <1>3, <2>1, <2>4 DEF Continues, Reading, Delivery, r
    <3>2. \/ s.at = "mixed" /\ r.role = "ELEMENT_NONE" /\ n = [s EXCEPT !.at = "mixedName"]
          \/ s.at = "end" /\ n = [s EXCEPT !.at = "done"]
      BY <1>3, <3>1 DEF ReadsBy
    <3>3. delivered' = delivered
      BY <2>4 DEF Continues
    <3> HIDE DEF s, n
    <3>4. CASE s.at = "mixed" /\ r.role = "ELEMENT_NONE" /\ n = [s EXCEPT !.at = "mixedName"]
      <4>1. /\ n.at = "mixedName" /\ n.groups = s.groups /\ n.nodes = s.nodes
            /\ n.chars = s.chars /\ n.element = s.element
        BY <3>1, <3>4 DEF Shape, Ref!Start
      <4>2. delivered = <<>> /\ declElementType' = declElementType
        BY <1>3, <3>1, <3>4 DEF Progress
      <4>3. ASSUME dtd.in_eldecl
            PROVE  declElementType = n.element /\ \E kids, tree : Collects(dtd, n, kids, tree)
        <5>1. PICK kids, tree : Collects(dtd, s, kids, tree)
          BY <3>1, <4>3 DEF Progress
        <5>2. dtd.scaffCount \in Nat
          BY <1>2 DEF Before, TypeOK, DtdType
        <5>3. \A l \in 1..dtd.scaffLevel :
                /\ n.groups[l].children = s.groups[l].children
                /\ dtd.scaffold[dtd.scaffIndex[l - 1]].type = GroupType(n, l)
          BY <3>4, <4>1, <5>1 DEF Collects, GroupRead, GroupType
        <5>4. Collects(dtd, n, kids, tree)
          BY <4>1, <5>1, <5>2, <5>3, StillCollected DEF SameChildren, SameLabel
        <5>5. declElementType = n.element
          BY <3>1, <4>1, <4>3 DEF Progress
        <5> QED
          BY <5>4, <5>5
      <4>4. kept => dtd.in_eldecl
        BY <3>1, <3>4, <4>2 DEF Progress
      <4>5. Delivery(error', dtd', declElementType', delivered', kept', n)
        BY <3>3, <4>1, <4>2, <4>3, <4>4 DEF Delivery, Progress, Called
      <4> QED
        BY <4>5 DEF n
    <3>5. CASE s.at = "end" /\ n = [s EXCEPT !.at = "done"]
      <4>1. n.at = "done" /\ n.element = s.element /\ Ref!Model(n) = Ref!Model(s)
        BY <3>1, <3>5 DEF Shape, Ref!Start, Ref!Model
      <4>2. ~dtd.in_eldecl
        BY <1>3, <3>1, <3>5, CollectedInside
      <4>3. kept => delivered # <<>>
        BY <3>1, <3>5, <4>2 DEF Progress
      <4>4. Delivery(error', dtd', declElementType', delivered', kept', n)
        BY <3>1, <3>3, <4>1, <4>2, <4>3 DEF Delivery, Progress, Called
      <4> QED
        BY <4>4 DEF n
    <3> QED
      BY <3>2, <3>4, <3>5
  <2> QED
    BY <2>1, <2>2, <2>3, <2>4 DEF Reading
<1> QED
  BY <1>1, <1>5, <1>6, ModelKept

LEMMA OtherModel ==
  ASSUME IndInv, SyntaxInv, ModelInv, NEW t \in Tokens, Other(t)
  PROVE  ModelInv'
<1>1. /\ Reads(t) /\ Logged(t) /\ Role(t) \notin ElementRoles \cup {"ATTLIST_ELEMENT_NAME", "ERROR"}
      /\ delivered' = IF TopLevel /\ ~Skipped(t) THEN <<>> ELSE delivered
      /\ error' = "NONE" /\ declElementType' = declElementType /\ dtd' = dtd /\ kept' = kept
  BY DEF Other, Reads
<1> QED
  BY <1>1, PassedModel

LEMMA AttlistElementNameModel ==
  ASSUME IndInv, SyntaxInv, ModelInv, NEW t \in Tokens, AttlistElementName(t)
  PROVE  ModelInv'
<1>1. /\ Reads(t) /\ Logged(t) /\ Role(t) = "ATTLIST_ELEMENT_NAME"
      /\ delivered' = delivered /\ error' \in {"NONE", "NO_MEMORY"} /\ dtd' = dtd /\ kept' = kept
  BY DEF AttlistElementName, Reads
<1>2. Role(t) \notin ElementRoles \cup {"ERROR"}
  BY <1>1 DEF ElementRoles
<1> QED
  BY <1>1, <1>2, PassedModel

LEMMA ElementNameModel ==
  ASSUME IndInv, SyntaxInv, ModelInv, NEW t \in Tokens, ElementName(t)
  PROVE  ModelInv'
<1> DEFINE r == XmlTokenRole(state, t.k)
<1>1. /\ Reads(t) /\ Logged(t) /\ Role(t) = "ELEMENT_NAME" /\ kept' = elementDeclHandler
      /\ delivered' = delivered /\ Role(t) \in ElementRoles /\ elementDeclHandler' = elementDeclHandler
  BY DEF ElementName, Reads, ElementRoles
<1>2. Before(t, r)
  BY <1>1, TokenRead
<1>3. /\ Collected /\ error = "NONE" /\ RoleStep(state, r) /\ r.role = Role(t) /\ DtdType(dtd)
  BY <1>2 DEF Before, TypeOK
<1> HIDE DEF r
<1>4. state.handler = "element0" /\ ~dtd.in_eldecl /\ dtd.contentStringLen = 0
  <2>1. state.handler = "element0"
    BY <1>1, <1>3 DEF RoleStep
  <2>2. ~dtd.in_eldecl
    BY <1>3, <2>1 DEF Collected, InDeclaration
  <2> QED
    BY <1>3, <2>1, <2>2 DEF ModelInv, Counted
<1>5. CASE error' # "NONE"
  BY <1>1, <1>5, FailedModel
<1>6. CASE error' = "NONE"
  <2> DEFINE named == [dtd EXCEPT !.scaffLevel = 0, !.scaffCount = 0, !.in_eldecl = TRUE]
  <2>1. \/ ~elementDeclHandler /\ dtd' = dtd
        \/ elementDeclHandler /\ declElementType' = t.n /\ dtd' = named
    BY <1>6 DEF ElementName
  <2>2. /\ named.in_eldecl /\ named.scaffCount = 0 /\ named.scaffLevel = 0
        /\ named.contentStringLen = 0
    BY <1>3, <1>4 DEF DtdType, NoScaffold
  <2> HIDE DEF named
  <2>3. Counted(error', dtd', state')
    BY <1>4, <2>1, <2>2 DEF Counted
  <2>4. ASSUME IsElementDecl'
        PROVE  Delivery(error', dtd', declElementType', delivered', kept', Declaration')
    <3> DEFINE s == Declaration
               n == Declaration'
    <3>1. Reading(t, s, n)
      BY <1>1, <2>4, TokenReading
    <3> HIDE DEF s, n
    <3>2. /\ ReadsBy(state, s, t, XmlTokenRole(state, t.k), n) /\ Shape(s) /\ Position(state, s)
          /\ Progress(dtd, declElementType, delivered, kept, s)
      BY <1>1, <3>1, RoleRead
    <3>3. s.at = "name" /\ n = [s EXCEPT !.at = "spec", !.element = t.n]
      BY <1>1, <1>3, <3>2 DEF ReadsBy, r
    <3>4. s.groups = <<>>
      BY <1>4, <3>2 DEF Position, Groups, Flat, Deep
    <3>5. /\ n.at = "spec" /\ n.element = t.n /\ n.groups = <<>> /\ n.nodes = 0 /\ n.chars = 0
      BY <3>2, <3>3, <3>4 DEF Shape, Ref!Start, Progress
    <3>6. delivered = <<>>
      BY <3>2, <3>3 DEF Progress
    <3>7. Called(delivered', n)
      BY <1>1, <3>6 DEF Called
    <3>8. Progress(dtd', declElementType', delivered', kept', n)
      <4>1. CASE ~elementDeclHandler /\ dtd' = dtd
        BY <1>1, <1>4, <3>5, <3>6, <4>1 DEF Progress
      <4>2. CASE elementDeclHandler /\ declElementType' = t.n /\ dtd' = named
        <5>1. \E kids, tree : Collects(named, n, kids, tree)
          BY <2>2, <3>5, NothingCollected
        <5> QED
          BY <1>1, <2>2, <3>5, <3>6, <4>2, <5>1 DEF Progress
      <4> QED
        BY <2>1, <4>1, <4>2
    <3> QED
      BY <3>7, <3>8 DEF Delivery, n
  <2> QED
    BY <1>1, <2>3, <2>4, ModelKept
<1> QED
  BY <1>5, <1>6

(* EMPTY or ANY: the model is one node.                                      *)
LEMMA ContentAnyOrEmptyModel ==
  ASSUME IndInv, SyntaxInv, ModelInv, NEW t \in Tokens, ContentAnyOrEmpty(t)
  PROVE  ModelInv'
<1> DEFINE r == XmlTokenRole(state, t.k)
           leaf == Leaf(IF Role(t) = "CONTENT_ANY" THEN "ANY" ELSE "EMPTY")
           call == [element |-> declElementType, content |-> leaf]
<1>1. /\ Reads(t) /\ Logged(t) /\ Role(t) \in {"CONTENT_ANY", "CONTENT_EMPTY"}
      /\ elementDeclHandler' = elementDeclHandler
  BY DEF ContentAnyOrEmpty, Reads
<1>2. Role(t) \in ElementRoles
  BY <1>1 DEF ElementRoles
<1>3. Before(t, r)
  BY <1>1, TokenRead
<1>4. /\ Collected /\ error = "NONE" /\ RoleStep(state, r) /\ r.role = Role(t) /\ DtdType(dtd)
  BY <1>3 DEF Before, TypeOK
<1>5. state.handler = "element1" /\ dtd.contentStringLen = 0
  BY <1>1, <1>4 DEF RoleStep, ModelInv, Counted
<1> HIDE DEF r
<1>6. CASE Fail("NO_MEMORY")
  BY <1>1, <1>2, <1>6, FailedModel DEF Fail
<1>7. CASE /\ IF dtd.in_eldecl /\ elementDeclHandler THEN delivered' = Append(delivered, call)
              ELSE delivered' = delivered
           /\ dtd' = [dtd EXCEPT !.in_eldecl = FALSE]
           /\ UNCHANGED <<error, declElementType, kept>>
  <2>1. ~dtd'.in_eldecl /\ dtd'.contentStringLen = 0
    BY <1>4, <1>5, <1>7 DEF DtdType, NoScaffold
  <2>2. Counted(error', dtd', state') /\ (kept' => elementDeclHandler')
    BY <1>1, <1>7, <2>1 DEF Counted, ModelInv
  <2>3. ASSUME IsElementDecl'
        PROVE  Delivery(error', dtd', declElementType', delivered', kept', Declaration')
    <3> DEFINE s == Declaration
               n == Declaration'
    <3>1. Reading(t, s, n)
      BY <1>1, <2>3, TokenReading
    <3> HIDE DEF s, n
    <3>2. /\ ReadsBy(state, s, t, XmlTokenRole(state, t.k), n) /\ Shape(s)
          /\ Progress(dtd, declElementType, delivered, kept, s)
      BY <1>2, <3>1, RoleRead
    <3>3. /\ s.at = "spec" /\ t.k = IF Role(t) = "CONTENT_ANY" THEN "ANY" ELSE "EMPTY"
          /\ n = [s EXCEPT !.at = "end", !.nodes = 1, !.content = Ref!Tree(t.k, "NONE", "-", <<>>)]
      BY <1>1, <1>4, <3>2 DEF ReadsBy, r
    <3>4. /\ n.at = "end" /\ n.element = s.element /\ n.nodes = 1 /\ n.chars = 0
          /\ n.content = Ref!Tree(t.k, "NONE", "-", <<>>)
      BY <3>2, <3>3 DEF Shape, Ref!Start, Progress
    <3>5. leaf = Ref!Model(n)
      BY <3>3, <3>4 DEF Leaf, Ref!Model, Ref!Tree
    <3>6. delivered = <<>> /\ (dtd.in_eldecl => declElementType = s.element)
      BY <3>2, <3>3 DEF Progress
    <3>7. kept => dtd.in_eldecl /\ elementDeclHandler
      BY <3>2, <3>3, <3>6 DEF Progress, ModelInv
    <3> HIDE DEF leaf
    <3>8. CASE dtd.in_eldecl /\ elementDeclHandler
      <4>1. delivered' = <<call>> /\ <<call>> # <<>>
        BY <1>7, <3>6, <3>8
      <4>2. call = [element |-> n.element, content |-> Ref!Model(n)]
        BY <3>4, <3>5, <3>6, <3>8
      <4> HIDE DEF call
      <4> QED
        BY <2>1, <3>4, <4>1, <4>2 DEF Delivery, Called, Progress, n
    <3>9. CASE ~(dtd.in_eldecl /\ elementDeclHandler)
      <4>1. delivered' = <<>> /\ kept' = kept
        BY <1>7, <3>6, <3>9
      <4> QED
        BY <2>1, <3>4, <3>7, <3>9, <4>1 DEF Delivery, Called, Progress, n
    <3> QED
      BY <3>8, <3>9
  <2> QED
    BY <2>2, <2>3, ModelKept
<1> HIDE DEF leaf
<1> QED
  BY <1>6, <1>7 DEF ContentAnyOrEmpty, Deliver, leaf

(* A separator is read: only the innermost group's changes.                  *)
LEMMA SeparatorRead ==
  ASSUME NEW s, Shape(s), s.groups # <<>>, NEW k \in Separated
  PROVE  LET n == [s EXCEPT !.at = "item", !.groups[Len(s.groups)].separator = k]
         IN  /\ n.at = "item" /\ n.element = s.element /\ n.nodes = s.nodes /\ n.chars = s.chars
             /\ Len(n.groups) = Len(s.groups) /\ n.groups[Len(s.groups)].separator = k
             /\ \A l \in 1..Len(s.groups) : n.groups[l].children = s.groups[l].children
             /\ \A l \in 1..Len(s.groups) - 1 : n.groups[l] = s.groups[l]
<1> DEFINE n == [s EXCEPT !.at = "item", !.groups[Len(s.groups)].separator = k]
           m == Len(s.groups)
           g == [s.groups[m] EXCEPT !.separator = k]
<1>1. PICK S : s.groups \in GroupsOf(S)
  BY DEF Shape, Grouped
<1>2. m \in Nat /\ m > 0 /\ s.groups[m] \in [separator: Separated, children: Seq(S)]
  BY <1>1, GroupsNonempty
<1>3. /\ g \in [separator: Separated, children: Seq(S)] /\ g.separator = k
      /\ g.children = s.groups[m].children
  BY <1>2
<1> DEFINE gs == [s.groups EXCEPT ![m] = g]
<1>4. n.at = "item" /\ n.element = s.element /\ n.nodes = s.nodes /\ n.chars = s.chars /\ n.groups = gs
  BY DEF Shape, Ref!Start
<1> HIDE DEF g, n
<1>5. Len(gs) = m /\ gs[m] = g /\ \A l \in 1..m - 1 : gs[l] = s.groups[l]
  BY <1>1, <1>3, GroupReplaced
<1> HIDE DEF gs
<1>6. \A l \in 1..m : gs[l].children = s.groups[l].children
  <2>1. \A l \in 1..m : l = m \/ l \in 1..m - 1
    BY <1>2
  <2> HIDE DEF m
  <2> QED
    BY <1>3, <1>5, <2>1
<1> QED
  BY <1>3, <1>4, <1>5, <1>6 DEF n

(* The type of the innermost group's node is set.                            *)
LEMMA OpenTypeCollected ==
  ASSUME NEW t, NEW r, Before(t, r), InGroup, dtd.in_eldecl,
         NEW s, NEW kids, NEW tree, Collects(dtd, s, kids, tree),
         NEW type \in Types, NEW d, d = [dtd EXCEPT !.scaffold[OpenNode].type = type],
         NEW n, n.nodes = s.nodes, n.chars = s.chars, Len(n.groups) = Len(s.groups),
         \A l \in 1..dtd.scaffLevel : n.groups[l].children = s.groups[l].children,
         GroupType(n, dtd.scaffLevel) = type,
         \A l \in 1..dtd.scaffLevel - 1 : GroupType(n, l) = GroupType(s, l)
  PROVE  Collects(d, n, kids, tree)
<1> DEFINE node == [dtd.scaffold[OpenNode] EXCEPT !.type = type]
<1>1. /\ OpenNode \in 0..dtd.scaffSize - 1 /\ dtd.scaffold[OpenNode] \in Node
      /\ dtd.scaffLevel \in Nat /\ dtd.scaffLevel > 0
  BY OpenGroupNode
<1>2. DtdType(dtd) /\ dtd.scaffCount \in Nat
  BY DEF Before, TypeOK, DtdType
<1>3. d = [dtd EXCEPT !.scaffold = [dtd.scaffold EXCEPT ![OpenNode] = node]]
  OBVIOUS
<1>4. SameChildren(node, dtd.scaffold[OpenNode]) /\ node.nextsib = dtd.scaffold[OpenNode].nextsib
      /\ node.type = type
  BY <1>1 DEF Node, SameChildren
<1> HIDE DEF node
<1>5. /\ d.scaffCount = dtd.scaffCount /\ d.contentStringLen = dtd.contentStringLen
      /\ d.scaffLevel = dtd.scaffLevel /\ d.scaffIndex = dtd.scaffIndex
      /\ d.scaffold[OpenNode] = node
      /\ \A i : i # OpenNode => d.scaffold[i] = dtd.scaffold[i]
  BY <1>1, <1>2, <1>3 DEF DtdType, NoScaffold
<1>6. OpenNode \in Open(dtd)
  <2>1. dtd.scaffLevel - 1 \in 0..dtd.scaffLevel - 1
    BY <1>1
  <2> QED
    BY <2>1 DEF Open, OpenNode
<1>7. \A i \in 0..dtd.scaffCount - 1 :
        /\ SameChildren(d.scaffold[i], dtd.scaffold[i])
        /\ d.scaffold[i].nextsib = dtd.scaffold[i].nextsib
        /\ i \notin Open(dtd) => SameLabel(d.scaffold[i], dtd.scaffold[i])
  BY <1>4, <1>5, <1>6 DEF SameChildren, SameLabel
<1>8. \A l \in 1..dtd.scaffLevel : d.scaffold[dtd.scaffIndex[l - 1]].type = GroupType(n, l)
  <2>1. \A l \in 1..dtd.scaffLevel : GroupRead(dtd, s, kids, tree, l)
    BY DEF Collects
  <2>2. \A l \in 1..dtd.scaffLevel : dtd.scaffold[dtd.scaffIndex[l - 1]].type = GroupType(s, l)
    BY <2>1 DEF GroupRead
  <2>3. \A l \in 0..dtd.scaffLevel - 1, m \in 0..dtd.scaffLevel - 1 :
          l < m => dtd.scaffIndex[l] < dtd.scaffIndex[m]
    BY DEF Collects, Path
  <2>4. ASSUME NEW l \in 1..dtd.scaffLevel - 1
        PROVE  dtd.scaffIndex[l - 1] # OpenNode
    <3>1. l - 1 \in 0..dtd.scaffLevel - 1 /\ dtd.scaffLevel - 1 \in 0..dtd.scaffLevel - 1
          /\ l - 1 < dtd.scaffLevel - 1
      BY <1>1
    <3>2. dtd.scaffIndex[l - 1] < dtd.scaffIndex[dtd.scaffLevel - 1]
      BY <2>3, <3>1
    <3>3. \A i \in 0..dtd.scaffLevel - 1 : dtd.scaffIndex[i] \in 0..dtd.scaffCount - 1
      BY DEF Collects, Path
    <3>4. dtd.scaffIndex[l - 1] \in Int /\ dtd.scaffIndex[dtd.scaffLevel - 1] \in Int
      BY <1>2, <3>1, <3>3, SMTT(60)
    <3> QED
      BY <3>2, <3>4 DEF OpenNode
  <2> SUFFICES ASSUME NEW l \in 1..dtd.scaffLevel
               PROVE  d.scaffold[dtd.scaffIndex[l - 1]].type = GroupType(n, l)
    OBVIOUS
  <2>5. CASE l = dtd.scaffLevel
    BY <1>4, <1>5, <2>5 DEF OpenNode
  <2>6. CASE l # dtd.scaffLevel
    <3>1. l \in 1..dtd.scaffLevel - 1
      BY <1>1, <2>6
    <3> QED
      BY <1>5, <2>2, <2>4, <3>1
  <2> QED
    BY <2>5, <2>6
<1>9. /\ n.nodes = s.nodes /\ n.chars = s.chars /\ Len(n.groups) = Len(s.groups)
      /\ \A l \in 1..dtd.scaffLevel :
           /\ n.groups[l].children = s.groups[l].children
           /\ d.scaffold[dtd.scaffIndex[l - 1]].type = GroupType(n, l)
  BY <1>8
<1>10. /\ Collects(dtd, s, kids, tree) /\ dtd.scaffCount \in Nat
       /\ d.scaffCount = dtd.scaffCount /\ d.contentStringLen = dtd.contentStringLen
       /\ d.scaffLevel = dtd.scaffLevel /\ d.scaffIndex = dtd.scaffIndex
  BY <1>2, <1>5
<1> HIDE DEF node
<1> QED
  BY <1>7, <1>9, <1>10, StillCollected, ZenonT(60)

(* A token inside of a model's groups, after which nothing is counted and no *)
(* handler is called: what is left to show is what is collected.             *)
LEMMA InsideModel ==
  ASSUME IndInv, SyntaxInv, ModelInv, NEW t \in Tokens, Reads(t), Logged(t),
         Role(t) \in ElementRoles, error' = "NONE",
         UNCHANGED <<declElementType, kept, delivered>>,
         dtd'.in_eldecl = dtd.in_eldecl,
         ~dtd.in_eldecl => dtd'.contentStringLen = dtd.contentStringLen,
         state'.handler # "element1",
         IsElementDecl' =>
           /\ Declaration.at \notin {"name", "end", "done"}
           /\ Declaration'.at \notin {"name", "spec"}
           /\ Declaration'.element = Declaration.element,
         IsElementDecl' /\ dtd.in_eldecl =>
           \E kids, tree : Collects(dtd', Declaration', kids, tree)
  PROVE  ModelInv'
<1>1. error = "NONE" /\ elementDeclHandler' = elementDeclHandler
  BY DEF Reads
<1>2. Counted(error', dtd', state') /\ (kept' => elementDeclHandler')
  BY <1>1 DEF ModelInv, Counted
<1>3. ASSUME IsElementDecl'
      PROVE  Delivery(error', dtd', declElementType', delivered', kept', Declaration')
  <2> DEFINE s == Declaration
             n == Declaration'
  <2>1. Reading(t, s, n)
    BY <1>3, TokenReading
  <2>2. s.at \notin {"name", "end", "done"} /\ n.at \notin {"name", "spec"} /\ n.element = s.element
    BY <1>3
  <2>3. dtd.in_eldecl => \E kids, tree : Collects(dtd', n, kids, tree)
    BY <1>3
  <2> HIDE DEF s, n
  <2>4. Progress(dtd, declElementType, delivered, kept, s)
    BY <2>1, RoleRead
  <2>5. delivered = <<>> /\ (dtd.in_eldecl => declElementType = s.element) /\ (kept => dtd.in_eldecl)
    BY <2>2, <2>4 DEF Progress
  <2>6. Progress(dtd', declElementType', delivered', kept', n)
    BY <2>2, <2>3, <2>5 DEF Progress
  <2> QED
    BY <2>5, <2>6 DEF Delivery, Called, n
<1> QED
  BY <1>2, <1>3, ModelKept

LEMMA SeparatorModel ==
  ASSUME IndInv, SyntaxInv, ModelInv, NEW t \in Tokens, Reads(t), Logged(t),
         \/ Role(t) = "GROUP_SEQUENCE" /\ Connector # "pipe" /\ dtd' = dtd
         \/ /\ Role(t) = "GROUP_CHOICE" /\ Connector # "comma"
            /\ dtd' = IF /\ dtd.in_eldecl /\ Connector = "none"
                         /\ dtd.scaffold[OpenNode].type # "MIXED"
                      THEN [dtd EXCEPT !.scaffold[OpenNode].type = "CHOICE"]
                      ELSE dtd,
         UNCHANGED <<error, declElementType, kept, delivered>>
  PROVE  ModelInv'
<1> DEFINE r == XmlTokenRole(state, t.k)
           type == IF Role(t) = "GROUP_CHOICE" THEN "CHOICE" ELSE "SEQ"
           choice == [dtd EXCEPT !.scaffold[OpenNode].type = "CHOICE"]
<1>1. Before(t, r)
  BY TokenRead
<1>2. /\ Role(t) \in ElementRoles /\ r.role = Role(t) /\ r.role \in {"GROUP_SEQUENCE", "GROUP_CHOICE"}
      /\ RoleStep(state, r) /\ state' = r.state /\ error' = "NONE" /\ DtdType(dtd)
      /\ dtd.scaffCount \in Nat /\ state \in PrologStates
  BY <1>1 DEF Before, ElementRoles, TypeOK, DtdType
<1>3. state'.handler # "element1" /\ state.handler \in Groups /\ InGroup
  BY <1>2 DEF RoleStep, InGroup, Groups, Flat, Deep, ElementDecl
<1>4. dtd' = dtd \/ (dtd.in_eldecl /\ dtd' = choice)
  OBVIOUS
<1>5. /\ choice.in_eldecl = dtd.in_eldecl
  BY <1>2 DEF DtdType, NoScaffold
<1>6. dtd'.in_eldecl = dtd.in_eldecl /\ (~dtd.in_eldecl => dtd' = dtd)
  BY <1>4, <1>5
<1>7. ASSUME IsElementDecl'
      PROVE  /\ Declaration.at \notin {"name", "end", "done"}
             /\ Declaration'.at \notin {"name", "spec"}
             /\ Declaration'.element = Declaration.element
             /\ dtd.in_eldecl => \E kids, tree : Collects(dtd', Declaration', kids, tree)
  <2> DEFINE s == Declaration
             n == Declaration'
             k == IF r.role = "GROUP_SEQUENCE" THEN "COMMA" ELSE "OR"
  <2>1. Reading(t, s, n)
    BY <1>7, TokenReading
  <2> HIDE DEF s, n
  <2>2. /\ ReadsBy(state, s, t, r, n) /\ Shape(s) /\ Position(state, s)
        /\ Follows(state, groupConnector, s)
        /\ Progress(dtd, declElementType, delivered, kept, s)
    BY <1>2, <2>1, RoleRead
  <2>3. s.at = "next" /\ t.k = k
    BY <1>2, <2>2 DEF ReadsBy
  <2>4. /\ state.handler = "element7" /\ Len(s.groups) = state.level /\ state.level >= 1
        /\ state.level \in Nat
    BY <1>2, <1>3, <2>2, <2>3 DEF Position, Place, Groups, Flat, Deep, PrologStates
  <2>5. s.groups[Len(s.groups)].separator = Separator(Connector)
    <3>1. \A l \in 1..state.level : s.groups[l].separator = Separator(groupConnector[l])
      BY <1>3, <2>2 DEF Follows
    <3>2. state.level \in 1..state.level
      BY <2>4
    <3> QED
      BY <2>4, <3>1, <3>2 DEF Connector
  <2>6. Separator(Connector) \in {"none", k}
    BY <1>2 DEF Separator
  <2>7. n = [s EXCEPT !.at = "item", !.groups[Len(s.groups)].separator = k]
    BY <1>2, <2>2, <2>3, <2>5, <2>6 DEF ReadsBy
  <2>8. s.groups # <<>> /\ k \in Separated
    BY <2>4 DEF Separated
  <2> HIDE DEF k
  <2>9. /\ n.at = "item" /\ n.element = s.element /\ n.nodes = s.nodes /\ n.chars = s.chars
        /\ Len(n.groups) = Len(s.groups) /\ n.groups[Len(s.groups)].separator = k
        /\ \A l \in 1..Len(s.groups) : n.groups[l].children = s.groups[l].children
        /\ \A l \in 1..Len(s.groups) - 1 : n.groups[l] = s.groups[l]
    BY <2>2, <2>7, <2>8, SeparatorRead
  <2>10. ASSUME dtd.in_eldecl PROVE \E kids, tree : Collects(dtd', n, kids, tree)
    <3>1. PICK kids, tree : Collects(dtd, s, kids, tree)
      BY <2>2, <2>10 DEF Progress
    <3>2. Len(s.groups) = dtd.scaffLevel /\ dtd.scaffLevel \in Nat /\ dtd.scaffLevel > 0
      BY <2>4, <3>1 DEF Collects
    <3>3. GroupType(n, dtd.scaffLevel) = type
      BY <1>2, <2>9, <3>2 DEF GroupType, k
    <3>4. \A l \in 1..dtd.scaffLevel - 1 : GroupType(n, l) = GroupType(s, l)
      BY <2>3, <2>9, <3>2 DEF GroupType
    <3>5. /\ GroupRead(dtd, s, kids, tree, dtd.scaffLevel)
          /\ \A l \in 1..dtd.scaffLevel : GroupRead(dtd, s, kids, tree, l)
      BY <3>1, <3>2, SMTT(60) DEF Collects
    <3>6. dtd.scaffold[OpenNode].type = GroupType(s, dtd.scaffLevel)
      BY <3>5, Zenon DEF GroupRead, OpenNode
    <3>7. GroupType(s, dtd.scaffLevel) = IF Separator(Connector) = "OR" THEN "CHOICE" ELSE "SEQ"
      BY <2>3, <2>5, <3>2 DEF GroupType
    <3>8. CASE dtd' = dtd
      <4>1. GroupType(s, dtd.scaffLevel) = type
        <5>1. Connector \in {"none", "comma", "pipe"}
          <6>1. state.level \in 1..groupSize - 1 /\ groupConnector[state.level] # "undefined"
            BY <1>1, <1>3, <2>4 DEF Before, GroupsOpen
          <6>2. groupConnector \in [0..groupSize - 1 -> {"undefined", "none", "comma", "pipe"}]
                /\ groupSize \in Nat
            BY <1>1 DEF Before, TypeOK
          <6>3. state.level \in 0..groupSize - 1
            BY <2>4, <6>1, <6>2
          <6> QED
            BY <6>1, <6>2, <6>3 DEF Connector
        <5>2. CASE Role(t) = "GROUP_SEQUENCE"
          BY <3>7, <5>1, <5>2 DEF Separator
        <5>3. CASE Role(t) = "GROUP_CHOICE"
          <6>1. choice.scaffold[OpenNode].type = "CHOICE"
            <7>1. OpenNode \in 0..dtd.scaffSize - 1 /\ dtd.scaffold[OpenNode] \in Node
              BY <1>1, <1>3, <2>10, OpenGroupNode
            <7> QED
              BY <1>2, <7>1 DEF DtdType, NoScaffold, Node
          <6>2. Connector = "none" => dtd.scaffold[OpenNode].type = "MIXED" \/ dtd' = choice
            BY <2>10, <5>3
          <6> HIDE DEF choice
          <6>3. Connector = "none" => dtd.scaffold[OpenNode].type = "CHOICE"
            BY <3>6, <3>7, <3>8, <6>1, <6>2
          <6> QED
            BY <3>6, <3>7, <5>1, <5>3, <6>3 DEF Separator
        <5> QED
          BY <1>2, <5>2, <5>3
      <4>2. \A l \in 1..dtd.scaffLevel : GroupType(n, l) = GroupType(s, l)
        <5>1. \A l \in 1..dtd.scaffLevel : l = dtd.scaffLevel \/ l \in 1..dtd.scaffLevel - 1
          BY <3>2
        <5> QED
          BY <3>3, <3>4, <4>1, <5>1
      <4>3. \A l \in 1..dtd.scaffLevel :
              /\ n.groups[l].children = s.groups[l].children
              /\ dtd.scaffold[dtd.scaffIndex[l - 1]].type = GroupType(n, l)
        <5>1. \A l \in 1..dtd.scaffLevel : dtd.scaffold[dtd.scaffIndex[l - 1]].type = GroupType(s, l)
          BY <3>5 DEF GroupRead
        <5> QED
          BY <2>9, <3>2, <4>2, <5>1, SMTT(60)
      <4>4. Collects(dtd, n, kids, tree)
        BY <1>2, <2>9, <3>1, <4>3, StillCollected DEF SameChildren, SameLabel
      <4> QED
        BY <3>8, <4>4
    <3>9. CASE dtd' # dtd
      <4>1. dtd' = choice /\ type = "CHOICE" /\ "CHOICE" \in Types
        BY <1>4, <3>9 DEF Types
      <4>2. \A l \in 1..dtd.scaffLevel : n.groups[l].children = s.groups[l].children
        BY <2>9, <3>2
      <4>3. GroupType(n, dtd.scaffLevel) = "CHOICE"
        BY <3>3, <4>1
      <4> HIDE DEF type
      <4>4. Collects(choice, n, kids, tree)
        BY <1>1, <1>3, <2>9, <2>10, <3>1, <3>4, <4>1, <4>2, <4>3, OpenTypeCollected
      <4> HIDE DEF choice
      <4> QED
        BY <4>1, <4>4
    <3> QED
      BY <3>8, <3>9
  <2> QED
    BY <2>3, <2>9, <2>10 DEF s, n
<1> QED
  BY <1>2, <1>3, <1>6, <1>7, InsideModel

LEMMA GroupSequenceModel ==
  ASSUME IndInv, SyntaxInv, ModelInv, NEW t \in Tokens, GroupSequence(t)
  PROVE  ModelInv'
<1>1. Reads(t) /\ Logged(t) /\ Role(t) = "GROUP_SEQUENCE" /\ error = "NONE"
  BY DEF GroupSequence, Reads
<1>2. CASE Fail("SYNTAX")
  BY <1>1, <1>2, FailedModel DEF Fail, ElementRoles
<1>3. CASE Connector # "pipe" /\ UNCHANGED <<error, declElementType, dtd, kept, delivered>>
  BY <1>1, <1>3, SeparatorModel
<1> QED
  BY <1>2, <1>3 DEF GroupSequence

LEMMA GroupChoiceModel ==
  ASSUME IndInv, SyntaxInv, ModelInv, NEW t \in Tokens, GroupChoice(t)
  PROVE  ModelInv'
<1> DEFINE next == IF /\ dtd.in_eldecl /\ Connector = "none"
                      /\ dtd.scaffold[OpenNode].type # "MIXED"
                   THEN [dtd EXCEPT !.scaffold[OpenNode].type = "CHOICE"]
                   ELSE dtd
<1>1. Reads(t) /\ Logged(t) /\ Role(t) = "GROUP_CHOICE" /\ error = "NONE"
  BY DEF GroupChoice, Reads
<1>2. CASE Fail("SYNTAX")
  BY <1>1, <1>2, FailedModel DEF Fail, ElementRoles
<1>3. CASE /\ Connector # "comma" /\ dtd' = next
           /\ UNCHANGED <<error, declElementType, kept, delivered>>
  BY <1>1, <1>3, SeparatorModel, Zenon
<1>4. Fail("SYNTAX") \/ (/\ Connector # "comma" /\ dtd' = next
                         /\ UNCHANGED <<error, declElementType, kept, delivered>>)
  BY Zenon DEF GroupChoice
<1> QED
  BY <1>2, <1>3, <1>4

(* "#PCDATA" makes the outermost group a mixed one.                          *)
LEMMA ContentPcdataModel ==
  ASSUME IndInv, SyntaxInv, ModelInv, NEW t \in Tokens, ContentPcdata(t)
  PROVE  ModelInv'
<1> DEFINE r == XmlTokenRole(state, t.k)
           mixed == [dtd EXCEPT !.scaffold[OpenNode].type = "MIXED"]
<1>1. /\ Reads(t) /\ Logged(t) /\ Role(t) = "CONTENT_PCDATA"
      /\ UNCHANGED <<declElementType, kept, delivered>>
      /\ dtd' = IF dtd.in_eldecl THEN mixed ELSE dtd
  BY DEF ContentPcdata
<1>2. Before(t, r)
  BY <1>1, TokenRead
<1>3. /\ Role(t) \in ElementRoles /\ r.role = Role(t) /\ RoleStep(state, r) /\ state' = r.state
      /\ error' = "NONE" /\ DtdType(dtd)
  BY <1>1, <1>2 DEF Before, ElementRoles, TypeOK, ContentPcdata
<1>4. state'.handler # "element1" /\ state.handler = "element2" /\ InGroup
  BY <1>1, <1>3 DEF RoleStep, InGroup, ElementDecl
<1>5. mixed.in_eldecl = dtd.in_eldecl
  BY <1>3 DEF DtdType, NoScaffold
<1>6. /\ dtd.in_eldecl => dtd' = mixed
      /\ ~dtd.in_eldecl => dtd' = dtd
  BY <1>1
<1> HIDE DEF mixed
<1>7. dtd'.in_eldecl = dtd.in_eldecl
  BY <1>5, <1>6
<1>8. ASSUME IsElementDecl'
      PROVE  /\ Declaration.at \notin {"name", "end", "done"}
             /\ Declaration'.at \notin {"name", "spec"}
             /\ Declaration'.element = Declaration.element
             /\ dtd.in_eldecl => \E kids, tree : Collects(dtd', Declaration', kids, tree)
  <2> DEFINE s == Declaration
             n == Declaration'
  <2>1. Reading(t, s, n)
    BY <1>1, <1>8, TokenReading
  <2> HIDE DEF s, n
  <2>2. /\ ReadsBy(state, s, t, r, n) /\ Shape(s) /\ Position(state, s)
        /\ Progress(dtd, declElementType, delivered, kept, s)
    BY <1>3, <2>1, RoleRead
  <2>3. s.at = "first" /\ n = [s EXCEPT !.at = "mixed"]
    BY <1>1, <1>3, <2>2 DEF ReadsBy
  <2>4. /\ n.at = "mixed" /\ n.groups = s.groups /\ n.nodes = s.nodes /\ n.chars = s.chars
        /\ n.element = s.element
    BY <2>2, <2>3 DEF Shape, Ref!Start
  <2>5. ASSUME dtd.in_eldecl PROVE \E kids, tree : Collects(dtd', n, kids, tree)
    <3>1. PICK kids, tree : Collects(dtd, s, kids, tree)
      BY <2>2, <2>5 DEF Progress
    <3>2. dtd.scaffLevel = 1
      BY <1>4, <2>2, <3>1 DEF Collects, Position, Flat, Groups
    <3>3. GroupType(n, dtd.scaffLevel) = "MIXED" /\ "MIXED" \in Types
      BY <2>4 DEF GroupType, Types
    <3>4. \A l \in 1..dtd.scaffLevel - 1 : GroupType(n, l) = GroupType(s, l)
      BY <3>2
    <3>5. Collects(mixed, n, kids, tree)
      BY <1>2, <1>4, <2>4, <2>5, <3>1, <3>3, <3>4, OpenTypeCollected DEF mixed
    <3> QED
      BY <1>6, <2>5, <3>5
  <2> QED
    BY <2>3, <2>4, <2>5 DEF s, n
<1> QED
  BY <1>1, <1>3, <1>4, <1>6, <1>7, <1>8, InsideModel

(* A name is added to the innermost group.                                   *)
LEMMA NameAdded ==
  ASSUME NEW t, NEW r, Before(t, r), InGroup, dtd.in_eldecl,
         NEW s, Shape(s), NEW kids, NEW tree, Collects(dtd, s, kids, tree),
         NEW x \in Tokens, NEW quant, quant = Ref!Quantifier(x.k), quant \in Quants,
         NEW at, at \in {"mixed", "mixedName"} <=> s.at \in {"mixed", "mixedName"}
  PROVE  \E k, tr : Collects(AddName(dtd, x.n, quant), Ref!ReadLeaf(s, x, at), k, tr)
<1> DEFINE p == nextScaffoldPart(dtd, groupSize)
           next == dtd.scaffCount
           node == [p.scaffold[next] EXCEPT !.type = "NAME", !.quant = quant]
           named == [node EXCEPT !.name = x.n]
           q == [p EXCEPT !.scaffold = [p.scaffold EXCEPT ![next] = node]]
           d == [q EXCEPT !.scaffold = [q.scaffold EXCEPT ![next] = named],
                          !.contentStringLen = q.contentStringLen + NameLength[x.n]]
<1>1. /\ OpenNode \in 0..dtd.scaffCount - 1 /\ Linked(dtd.scaffold, dtd.scaffCount)
      /\ dtd.scaffLevel \in Nat /\ dtd.scaffLevel > 0
      /\ ~IsNULL(dtd.scaffIndex) /\ DOMAIN dtd.scaffIndex = 0..groupSize - 1
      /\ dtd.scaffLevel - 1 \in 0..groupSize - 1
  BY OpenGroupNode
<1>2. DtdType(dtd) /\ next \in Nat /\ groupSize \in Nat
  BY DEF Before, TypeOK, DtdType
<1>3. groupSize > 1
  BY <1>1, <1>2 DEF Before
<1>4. IndexTable(dtd, groupSize) = dtd.scaffIndex
  BY <1>1 DEF IndexTable
<1>5. /\ dtd.scaffLevel - 1 \in DOMAIN IndexTable(dtd, groupSize)
      /\ IndexTable(dtd, groupSize)[dtd.scaffLevel - 1] \in 0..dtd.scaffCount - 1
  BY <1>1, <1>4 DEF OpenNode
<1>6. /\ DtdType(p) /\ p.scaffCount = next + 1 /\ p.scaffIndex = dtd.scaffIndex
      /\ p.scaffLevel = dtd.scaffLevel /\ p.in_eldecl = dtd.in_eldecl
      /\ p.contentStringLen = dtd.contentStringLen
  BY <1>1, <1>2, <1>3, <1>4, <1>5, NextScaffoldPart
<1>7. Added(dtd, p, dtd.scaffIndex)
  BY <1>1, <1>2, <1>3, <1>4, <1>5, NextNode
<1>8. Adopted(dtd.scaffold, p.scaffold, OpenNode, next) /\ Childless(p.scaffold[next])
  BY <1>1, <1>7 DEF Added, OpenNode
<1>9. AddName(dtd, x.n, quant) = d
  BY DEF AddName, AddUnnamed
<1> HIDE DEF p, next
<1>10. /\ next \in 0..p.scaffSize - 1 /\ p.scaffold \in [0..p.scaffSize - 1 -> Node]
       /\ p.scaffold[next] \in Node
  <2>1. /\ p.scaffSize \in Nat /\ p.scaffCount <= p.scaffSize
        /\ p.scaffold \in [0..p.scaffSize - 1 -> Node]
    BY <1>6 DEF DtdType
  <2>2. next \in 0..p.scaffSize - 1
    BY <1>2, <1>6, <2>1
  <2> QED
    BY <2>1, <2>2
<1>11. /\ named.type = "NAME" /\ named.quant = quant /\ named.name = x.n
       /\ named.childcnt = p.scaffold[next].childcnt
       /\ named.lastchild = p.scaffold[next].lastchild
  BY <1>10 DEF Node
<1> HIDE DEF named, node
<1>12. /\ q.scaffold = [p.scaffold EXCEPT ![next] = node] /\ q.contentStringLen = p.contentStringLen
       /\ q.scaffCount = p.scaffCount /\ q.scaffLevel = p.scaffLevel /\ q.scaffIndex = p.scaffIndex
       /\ q.in_eldecl = p.in_eldecl /\ DOMAIN q = DOMAIN p
  BY <1>6 DEF DtdType, NoScaffold
<1> HIDE DEF q
<1>13. /\ d.scaffold = [q.scaffold EXCEPT ![next] = named]
       /\ d.contentStringLen = dtd.contentStringLen + NameLength[x.n]
       /\ d.scaffCount = dtd.scaffCount + 1 /\ d.scaffLevel = dtd.scaffLevel
       /\ d.scaffIndex = dtd.scaffIndex
  BY <1>6, <1>12 DEF DtdType, NoScaffold, next
<1> HIDE DEF d
<1>14. d.scaffold[next] = named /\ \A i \in 0..next - 1 : d.scaffold[i] = p.scaffold[i]
  <2>1. \A i \in 0..next - 1 : i # next /\ i \in DOMAIN p.scaffold
    <3>1. DOMAIN p.scaffold = 0..p.scaffSize - 1 /\ p.scaffSize \in Nat /\ next \in Nat
      BY <1>2, <1>6, <1>10 DEF DtdType, next
    <3>2. next < p.scaffSize
      BY <1>10, <3>1
    <3> QED
      BY <3>1, <3>2
  <2>2. \A f, v, w : \A i \in DOMAIN f :
          i # next => [[f EXCEPT ![next] = v] EXCEPT ![next] = w][i] = f[i]
    OBVIOUS
  <2>3. d.scaffold = [[p.scaffold EXCEPT ![next] = node] EXCEPT ![next] = named]
    BY <1>12, <1>13
  <2>4. d.scaffold[next] = named
    BY <1>10, <2>3
  <2> QED
    BY <2>1, <2>2, <2>3, <2>4
<1>15. Adopted(dtd.scaffold, d.scaffold, OpenNode, next)
  <2>1. OpenNode \in 0..next - 1
    BY <1>1 DEF next
  <2>2. Adopted(dtd.scaffold, p.scaffold, OpenNode, next)
    BY <1>8
  <2>3. SameNodes(p.scaffold, d.scaffold, next)
    BY <1>14 DEF SameNodes
  <2> QED
    BY <2>1, <2>2, <2>3, AdoptedSame
<1>16. Childless(d.scaffold[next])
  BY <1>8, <1>11, <1>14 DEF Childless
<1>17. /\ d.scaffold[next].type = "NAME" /\ d.scaffold[next].quant = Ref!Quantifier(x.k)
       /\ d.scaffold[next].name = x.n
  BY <1>11, <1>14
<1>18. \A l \in 0..dtd.scaffLevel - 1 : d.scaffIndex[l] = dtd.scaffIndex[l]
  BY <1>13
<1>19. Adopted(dtd.scaffold, d.scaffold, dtd.scaffIndex[dtd.scaffLevel - 1], dtd.scaffCount)
  BY <1>15 DEF OpenNode, next
<1>20. \E k, tr : Collects(d, Ref!ReadLeaf(s, x, at), k, tr)
  BY <1>1, <1>2, <1>13, <1>16, <1>17, <1>18, <1>19, LeafCollected DEF next
<1> QED
  BY <1>9, <1>20

LEMMA ContentElementModel ==
  ASSUME IndInv, SyntaxInv, ModelInv, NEW t \in Tokens, ContentElement(t)
  PROVE  ModelInv'
<1> DEFINE r == XmlTokenRole(state, t.k)
           quant == QuantOf(Role(t))
           named == AddName(dtd, t.n, quant)
<1>1. /\ Reads(t) /\ Logged(t) /\ Role(t) \in ContentRoles
      /\ UNCHANGED <<declElementType, kept, delivered>>
      /\ \/ error' = "NO_MEMORY"
         \/ dtd.in_eldecl /\ dtd' = named /\ error' = error
         \/ ~dtd.in_eldecl /\ dtd' = dtd /\ error' = error
  BY DEF ContentElement, ContentRoles
<1>2. Before(t, r)
  BY <1>1, TokenRead
<1>3. /\ Role(t) \in ElementRoles /\ r.role = Role(t) /\ RoleStep(state, r) /\ state' = r.state
      /\ error = "NONE" /\ DtdType(dtd)
  BY <1>1, <1>2 DEF Before, ElementRoles, ContentRoles, TypeOK
<1>4. state'.handler # "element1" /\ state.handler \in Groups /\ InGroup
  BY <1>1, <1>3 DEF RoleStep, InGroup, ElementDecl, ContentRoles, Groups, Flat, Deep
<1>5. CASE error' = "NO_MEMORY"
  BY <1>1, <1>3, <1>5, FailedModel
<1>6. CASE error' = error
  <2> HIDE DEF r, named, quant
  <2>1. ASSUME IsElementDecl'
        PROVE  /\ Declaration.at \notin {"name", "end", "done"}
               /\ Declaration'.at \notin {"name", "spec"}
               /\ Declaration'.element = Declaration.element
               /\ dtd.in_eldecl => \E kids, tree : Collects(named, Declaration', kids, tree)
    <3> DEFINE s == Declaration
               n == Declaration'
               at == IF s.at = "mixedName" THEN "mixed" ELSE "next"
    <3>1. Reading(t, s, n)
      BY <1>1, <2>1, TokenReading
    <3> HIDE DEF s, n
    <3>2. /\ ReadsBy(state, s, t, r, n) /\ Shape(s)
          /\ Progress(dtd, declElementType, delivered, kept, s)
      BY <1>3, <3>1, RoleRead DEF r
    <3>3. /\ s.at \in {"first", "item", "mixedName"} /\ quant = Ref!Quantifier(t.k)
          /\ n = Ref!ReadLeaf(s, t, at)
      BY <1>1, <1>3, <3>2 DEF ReadsBy, quant
    <3>4. n.at = at /\ n.element = s.element
      BY <3>2, <3>3 DEF Shape, Ref!Start, Ref!ReadLeaf
    <3>5. at \in {"mixed", "mixedName"} <=> s.at \in {"mixed", "mixedName"}
      BY <3>3
    <3>6. at \notin {"name", "spec"}
      OBVIOUS
    <3> HIDE DEF at
    <3>7. ASSUME dtd.in_eldecl PROVE \E kids, tree : Collects(named, n, kids, tree)
      <4>1. PICK kids, tree : Collects(dtd, s, kids, tree)
        BY <3>2, <3>7 DEF Progress
      <4>2. quant \in Quants
        BY DEF quant, QuantOf, Quants
      <4>3. \E k, tr : Collects(AddName(dtd, t.n, quant), Ref!ReadLeaf(s, t, at), k, tr)
        BY <1>2, <1>4, <3>2, <3>3, <3>5, <3>7, <4>1, <4>2, NameAdded
      <4> QED
        BY <3>3, <4>3 DEF named
    <3> QED
      BY <3>3, <3>4, <3>6, <3>7 DEF s, n
  <2>2. dtd.in_eldecl => named.in_eldecl = dtd.in_eldecl
    <3>1. ASSUME dtd.in_eldecl PROVE named.in_eldecl = dtd.in_eldecl
      <4>1. /\ OpenNode \in 0..dtd.scaffCount - 1 /\ Linked(dtd.scaffold, dtd.scaffCount)
            /\ dtd.scaffLevel > 0 /\ DOMAIN dtd.scaffIndex = 0..groupSize - 1
            /\ dtd.scaffLevel - 1 \in 0..groupSize - 1 /\ ~IsNULL(dtd.scaffIndex)
        BY <1>2, <1>4, <3>1, OpenGroupNode
      <4>2. /\ groupSize \in Nat /\ groupSize > 1 /\ t.n \in Elements /\ quant \in Quants
            /\ dtd.scaffLevel - 1 \in DOMAIN IndexTable(dtd, groupSize)
            /\ IndexTable(dtd, groupSize)[dtd.scaffLevel - 1] \in 0..dtd.scaffCount - 1
        BY <1>2, <4>1 DEF Before, TypeOK, IndexTable, OpenNode, quant, QuantOf, Quants
      <4> QED
        BY <1>3, <3>1, <4>1, <4>2, AddNameType DEF named
    <3> QED
      BY <3>1
  <2>3. error' = "NONE"
    BY <1>3, <1>6
  <2>4. \/ dtd.in_eldecl /\ dtd' = named
        \/ ~dtd.in_eldecl /\ dtd' = dtd
    BY <1>1, <1>3, <1>6
  <2>5. dtd'.in_eldecl = dtd.in_eldecl
    BY <2>2, <2>4
  <2>6. ~dtd.in_eldecl => dtd'.contentStringLen = dtd.contentStringLen
    BY <2>4
  <2>7. IsElementDecl' =>
           /\ Declaration.at \notin {"name", "end", "done"}
           /\ Declaration'.at \notin {"name", "spec"}
           /\ Declaration'.element = Declaration.element
    BY <2>1
  <2>8. IsElementDecl' /\ dtd.in_eldecl =>
           \E kids, tree : Collects(dtd', Declaration', kids, tree)
    BY <2>1, <2>4
  <2> QED
    BY <1>1, <1>3, <1>4, <2>3, <2>5, <2>6, <2>7, <2>8, InsideModel
<1> QED
  BY <1>1, <1>5, <1>6

(* A group is opened, in the tables for its depth.                           *)
LEMMA GroupAdded ==
  ASSUME TypeOK, dtd.in_eldecl, NEW size, NEW g, Opens(size, g),
         dtd.scaffLevel = 0 => dtd.scaffCount = 0, dtd.scaffLevel \in 0..groupSize,
         NEW s, Shape(s), NEW kids, NEW tree, Collects(dtd, s, kids, tree),
         s.at \notin {"mixed", "mixedName"}, NEW at, at \notin {"mixed", "mixedName"}
  PROVE  \E k, tr : Collects(OpenGroup(g, size), Ref!ReadOpen(s, at), k, tr)
<1> DEFINE index == IndexTable(g, size)
           p == nextScaffoldPart(g, size)
           next == dtd.scaffCount
           level == dtd.scaffLevel
           node == [p.scaffold[next] EXCEPT !.type = "SEQ"]
           d == OpenGroup(g, size)
           r == [p EXCEPT !.scaffIndex = [p.scaffIndex EXCEPT ![level] = next],
                          !.scaffLevel = level + 1,
                          !.scaffold = [p.scaffold EXCEPT ![next] = node]]
<1>1. /\ size \in Nat /\ size > 1 /\ DtdType(g) /\ Linked(g.scaffold, g.scaffCount)
      /\ g.scaffCount = next /\ g.scaffLevel = level /\ g.scaffold = dtd.scaffold
      /\ g.contentStringLen = dtd.contentStringLen /\ g.in_eldecl = dtd.in_eldecl
      /\ next \in Nat /\ level \in Nat /\ level < size /\ groupSize \in Nat
  <2>1. /\ g.scaffLevel = state'.level - 1 /\ state'.level < size /\ state'.level >= 1
        /\ state'.level \in Nat /\ size \in Nat
    BY DEF Opens
  <2>2. next \in Nat /\ level \in Nat /\ groupSize \in Nat
    BY DEF TypeOK, DtdType
  <2>3. g.scaffLevel = level
    BY DEF Opens
  <2>4. level < size
    BY <2>1, <2>2, <2>3
  <2> QED
    BY <2>1, <2>2, <2>4 DEF Opens
<1>2. \A l \in 0..level - 1 : index[l] = dtd.scaffIndex[l] /\ index[l] \in 0..next - 1
  <2>1. ASSUME NEW l \in 0..level - 1
        PROVE  index[l] = dtd.scaffIndex[l] /\ index[l] \in 0..next - 1
    <3>1. ~IsNULL(g.scaffIndex) /\ g.scaffIndex[l] \in 0..next - 1
      BY <1>1 DEF Opens
    <3>2. l \in 0..groupSize - 1
      BY <1>1
    <3>3. g.scaffIndex[l] = dtd.scaffIndex[l]
      BY <3>1, <3>2 DEF Opens
    <3> QED
      BY <3>1, <3>3 DEF IndexTable
  <2> QED
    BY <2>1
<1>3. DOMAIN index = 0..size - 1
  <2>1. CASE IsNULL(g.scaffIndex)
    BY <2>1 DEF IndexTable
  <2>2. CASE ~IsNULL(g.scaffIndex)
    BY <2>2 DEF IndexTable, Opens
  <2> QED
    BY <2>1, <2>2
<1> HIDE DEF index
<1>4. level > 0 => level - 1 \in DOMAIN index /\ index[level - 1] \in 0..next - 1
  <2>1. level > 0 => level - 1 \in 0..level - 1 /\ level - 1 \in 0..size - 1
    BY <1>1
  <2> QED
    BY <1>2, <1>3, <2>1
<1>5. /\ DtdType(p) /\ p.scaffCount = next + 1 /\ p.scaffIndex = index
      /\ p.scaffLevel = level /\ p.in_eldecl = dtd.in_eldecl
      /\ p.contentStringLen = dtd.contentStringLen
  <2>1. g.scaffLevel > 0 =>
          /\ g.scaffLevel - 1 \in DOMAIN IndexTable(g, size)
          /\ IndexTable(g, size)[g.scaffLevel - 1] \in 0..g.scaffCount - 1
    BY <1>1, <1>4 DEF index
  <2>2. /\ DtdType(p) /\ p.scaffCount = g.scaffCount + 1 /\ p.scaffIndex = IndexTable(g, size)
        /\ p.scaffLevel = g.scaffLevel /\ p.in_eldecl = g.in_eldecl
        /\ p.contentStringLen = g.contentStringLen
    <3>1. DtdType(g) /\ Linked(g.scaffold, g.scaffCount) /\ size \in Nat /\ size > 1
      BY <1>1
    <3> QED
      BY <2>1, <3>1, NextScaffoldPart
  <2> HIDE DEF p
  <2> QED
    BY <1>1, <2>2 DEF index
<1>6. Added(g, p, index)
  BY <1>1, <1>4, NextNode DEF index
<1>7. /\ Childless(p.scaffold[next])
      /\ level > 0 => Adopted(dtd.scaffold, p.scaffold, dtd.scaffIndex[level - 1], next)
  <2>1. level > 0 => index[level - 1] = dtd.scaffIndex[level - 1]
    BY <1>1, <1>2
  <2> QED
    BY <1>1, <1>6, <2>1 DEF Added
<1>8. d = r
  BY <1>1, <1>5 DEF OpenGroup, DtdType, NoScaffold
<1> HIDE DEF p, next, level, d
<1>9. /\ next \in 0..p.scaffSize - 1 /\ p.scaffSize \in Nat
      /\ p.scaffold \in [0..p.scaffSize - 1 -> Node] /\ p.scaffold[next] \in Node
  <2>1. /\ p.scaffSize \in Nat /\ p.scaffCount <= p.scaffSize
        /\ p.scaffold \in [0..p.scaffSize - 1 -> Node]
    BY <1>5 DEF DtdType
  <2>2. next \in 0..p.scaffSize - 1
    BY <1>1, <1>5, <2>1
  <2> QED
    BY <2>1, <2>2
<1>10. /\ node.type = "SEQ" /\ node.childcnt = p.scaffold[next].childcnt
       /\ node.lastchild = p.scaffold[next].lastchild
  BY <1>9 DEF Node
<1> HIDE DEF node
<1>11. /\ d.scaffold = [p.scaffold EXCEPT ![next] = node]
       /\ d.scaffIndex = [index EXCEPT ![level] = next]
       /\ d.contentStringLen = dtd.contentStringLen
       /\ d.scaffCount = next + 1 /\ d.scaffLevel = level + 1
  BY <1>5, <1>8 DEF DtdType, NoScaffold
<1>12. d.scaffold[next] = node /\ SameNodes(p.scaffold, d.scaffold, next)
  <2>1. \A i \in 0..next - 1 : i # next
    BY <1>1
  <2> QED
    BY <1>9, <1>11, <2>1 DEF SameNodes
<1>13. level > 0 => Adopted(dtd.scaffold, d.scaffold, dtd.scaffIndex[level - 1], next)
  <2>1. ASSUME level > 0
        PROVE  Adopted(dtd.scaffold, d.scaffold, dtd.scaffIndex[level - 1], next)
    <3>1. dtd.scaffIndex[level - 1] \in 0..next - 1
      BY <1>1, <1>2, <2>1
    <3>2. Adopted(dtd.scaffold, p.scaffold, dtd.scaffIndex[level - 1], next)
      BY <1>7, <2>1
    <3> QED
      BY <1>12, <3>1, <3>2, AdoptedSame
  <2> QED
    BY <2>1
<1>14. Childless(d.scaffold[next]) /\ d.scaffold[next].type = "SEQ"
  BY <1>7, <1>10, <1>12 DEF Childless
<1>15. d.scaffIndex[level] = next /\ \A l \in 0..level - 1 : d.scaffIndex[l] = dtd.scaffIndex[l]
  <2>1. level \in DOMAIN index /\ \A l \in 0..level - 1 : l # level /\ l \in DOMAIN index
    BY <1>1, <1>3
  <2>2. \A l \in 0..level - 1 : d.scaffIndex[l] = index[l]
    BY <1>11, <2>1
  <2> QED
    BY <1>2, <1>11, <2>1, <2>2
<1>16. \E k, tr : Collects(d, Ref!ReadOpen(s, at), k, tr)
  BY <1>1, <1>11, <1>13, <1>14, <1>15, GroupCollected DEF next, level
<1> QED
  BY <1>16 DEF d

LEMMA GroupOpenModel ==
  ASSUME IndInv, SyntaxInv, ModelInv, NEW t \in Tokens, GroupOpen(t)
  PROVE  ModelInv'
<1> DEFINE r == XmlTokenRole(state, t.k)
           size == Enlarged
           g == Grown(size)
           opened == OpenGroup(g, size)
<1>1. Reads(t) /\ Logged(t) /\ Role(t) = "GROUP_OPEN" /\ Role(t) \in ElementRoles
  BY DEF GroupOpen, ElementRoles
<1>2. Before(t, r)
  BY <1>1, TokenRead
<1>3. /\ r.role = Role(t) /\ RoleStep(state, r) /\ state' = r.state /\ error = "NONE"
      /\ DtdType(dtd) /\ TypeOK /\ groupSize \in Nat /\ Collected
  BY <1>2 DEF Before, TypeOK
<1>4. Opens(size, g)
  BY GroupOpenTables DEF size, g
<1>5. declElementType' = declElementType /\ UNCHANGED <<kept, delivered>>
  BY GroupOpenOutcomes, <1>3, <1>4 DEF GroupOpen, Fail, Opens
<1>6. \/ error' = "NO_MEMORY"
      \/ dtd.in_eldecl /\ error' = error /\ dtd' = opened
      \/ ~dtd.in_eldecl /\ error' = error /\ dtd' = g
  BY GroupOpenOutcomes, <1>3, <1>4 DEF Opens
<1> HIDE DEF r, size, g, opened
<1>7. CASE error' = "NO_MEMORY"
  BY <1>1, <1>5, <1>7, FailedModel
<1>8. CASE error' = error
  <2>1. /\ state'.handler \in {"element2", "element6"}
        /\ state.handler \in Groups \/ state.handler = "element1"
    BY <1>1, <1>3 DEF RoleStep
  <2>2. ASSUME dtd.in_eldecl
        PROVE  /\ dtd.scaffLevel = 0 => dtd.scaffCount = 0
               /\ dtd.scaffLevel \in 0..groupSize
    <3>1. CASE state.handler = "element1"
      BY <1>3, <2>2, <3>1 DEF Collected
    <3>2. CASE state.handler \in Groups
      <4>1. InGroup
        BY <3>2 DEF InGroup, Groups, Flat, Deep, ElementDecl
      <4>2. /\ dtd.scaffLevel \in Nat /\ dtd.scaffLevel > 0 /\ dtd.scaffLevel - 1 \in 0..groupSize - 1
        BY <1>2, <2>2, <4>1, OpenGroupNode
      <4> QED
        BY <1>3, <4>2
    <3> QED
      BY <2>1, <3>1, <3>2
  <2>3. ASSUME IsElementDecl'
        PROVE  /\ Declaration.at \notin {"name", "end", "done"}
               /\ Declaration'.at \notin {"name", "spec"}
               /\ Declaration'.element = Declaration.element
               /\ dtd.in_eldecl => \E kids, tree : Collects(opened, Declaration', kids, tree)
    <3> DEFINE s == Declaration
               n == Declaration'
    <3>1. Reading(t, s, n)
      BY <1>1, <2>3, TokenReading
    <3> HIDE DEF s, n
    <3>2. /\ ReadsBy(state, s, t, r, n) /\ Shape(s)
          /\ Progress(dtd, declElementType, delivered, kept, s)
      BY <1>1, <3>1, RoleRead DEF r
    <3>3. s.at \in {"spec", "first", "item"} /\ \E at \in {"first", "item"} : n = Ref!ReadOpen(s, at)
      BY <1>1, <1>3, <3>2 DEF ReadsBy
    <3>4. PICK at \in {"first", "item"} : n = Ref!ReadOpen(s, at)
      BY <3>3
    <3>5. n.at = at /\ n.element = s.element
      BY <3>2, <3>4 DEF Shape, Ref!Start, Ref!ReadOpen
    <3>6. ASSUME dtd.in_eldecl PROVE \E kids, tree : Collects(opened, n, kids, tree)
      <4>1. PICK kids, tree : Collects(dtd, s, kids, tree)
        BY <3>2, <3>6 DEF Progress
      <4>2. \E k, tr : Collects(OpenGroup(g, size), Ref!ReadOpen(s, at), k, tr)
        BY <1>3, <1>4, <2>2, <3>2, <3>3, <3>6, <4>1, GroupAdded
      <4> QED
        BY <3>4, <4>2 DEF opened
    <3> QED
      BY <3>3, <3>5, <3>6 DEF s, n
  <2>4. dtd'.in_eldecl = dtd.in_eldecl
    <3>1. CASE dtd.in_eldecl /\ dtd' = opened
      <4>1. DtdType(g) /\ g.in_eldecl = dtd.in_eldecl
        BY <1>4 DEF Opens
      <4>2. nextScaffoldPart(g, size).in_eldecl = g.in_eldecl
            /\ DOMAIN nextScaffoldPart(g, size) = DOMAIN NoScaffold
        BY <4>1 DEF nextScaffoldPart, DtdType, NoScaffold
      <4>3. opened.in_eldecl = nextScaffoldPart(g, size).in_eldecl
        BY <4>2 DEF opened, OpenGroup, NoScaffold
      <4> QED
        BY <3>1, <4>1, <4>2, <4>3
    <3>2. CASE ~dtd.in_eldecl /\ dtd' = g
      BY <1>4, <3>2 DEF Opens
    <3> QED
      BY <1>3, <1>6, <1>8, <3>1, <3>2
  <2>5. /\ error' = "NONE"
        /\ ~dtd.in_eldecl => dtd'.contentStringLen = dtd.contentStringLen
        /\ dtd.in_eldecl => dtd' = opened
    BY <1>3, <1>4, <1>6, <1>8 DEF Opens
  <2>6. IsElementDecl' =>
           /\ Declaration.at \notin {"name", "end", "done"}
           /\ Declaration'.at \notin {"name", "spec"}
           /\ Declaration'.element = Declaration.element
    BY <2>3
  <2>7. IsElementDecl' /\ dtd.in_eldecl =>
           \E kids, tree : Collects(dtd', Declaration', kids, tree)
    BY <2>3, <2>5
  <2>8. state'.handler # "element1"
    BY <2>1
  <2> QED
    BY <1>1, <1>5, <2>4, <2>5, <2>6, <2>7, <2>8, InsideModel
<1> QED
  BY <1>3, <1>6, <1>7, <1>8

(* The innermost group is closed.                                            *)
LEMMA NodeClosed ==
  ASSUME NEW t, NEW r, Before(t, r), InGroup, dtd.in_eldecl, NEW quant \in Quants,
         NEW d, d = [dtd EXCEPT !.scaffLevel = @ - 1, !.scaffold[OpenNode].quant = quant]
  PROVE  /\ d.in_eldecl = dtd.in_eldecl /\ d.scaffLevel = dtd.scaffLevel - 1
         /\ d.contentStringLen = dtd.contentStringLen
         /\ ~EndDeclaration(d).in_eldecl /\ EndDeclaration(d).contentStringLen = 0
         /\ Closes(dtd, d, OpenNode, quant)
<1> DEFINE node == [dtd.scaffold[OpenNode] EXCEPT !.quant = quant]
           nodes == [dtd.scaffold EXCEPT ![OpenNode] = node]
<1>1. /\ OpenNode \in 0..dtd.scaffSize - 1 /\ dtd.scaffold[OpenNode] \in Node
  BY OpenGroupNode
<1>2. /\ DtdType(dtd) /\ dtd.scaffold \in [0..dtd.scaffSize - 1 -> Node]
      /\ dtd.scaffCount \in Nat /\ dtd.scaffSize \in Nat /\ dtd.scaffCount <= dtd.scaffSize
  BY DEF Before, TypeOK, DtdType
<1>3. /\ SameChildren(node, dtd.scaffold[OpenNode]) /\ node.nextsib = dtd.scaffold[OpenNode].nextsib
      /\ node.type = dtd.scaffold[OpenNode].type /\ node.quant = quant
  BY <1>1 DEF Node, SameChildren
<1>4. /\ d.scaffold = nodes /\ d.scaffLevel = dtd.scaffLevel - 1 /\ d.scaffCount = dtd.scaffCount
      /\ d.scaffIndex = dtd.scaffIndex /\ d.in_eldecl = dtd.in_eldecl
      /\ d.contentStringLen = dtd.contentStringLen /\ DOMAIN d = DOMAIN NoScaffold
  BY <1>2 DEF DtdType, NoScaffold
<1> HIDE DEF node
<1>5. nodes[OpenNode] = node
  BY <1>1, <1>2
<1>6. \A i \in 0..dtd.scaffCount - 1 : i # OpenNode => nodes[i] = dtd.scaffold[i]
  <2>1. \A i \in 0..dtd.scaffCount - 1 : i \in 0..dtd.scaffSize - 1
    BY <1>2
  <2> QED
    BY <1>2, <2>1
<1> HIDE DEF nodes
<1>7. Closes(dtd, d, OpenNode, quant)
  BY <1>3, <1>4, <1>5, <1>6 DEF Closes, SameChildren, SameLabel
<1>8. ~EndDeclaration(d).in_eldecl /\ EndDeclaration(d).contentStringLen = 0
  BY <1>4 DEF EndDeclaration, NoScaffold
<1> QED
  BY <1>4, <1>7, <1>8

LEMMA GroupCloseModel ==
  ASSUME IndInv, SyntaxInv, ModelInv, NEW t \in Tokens, GroupClose(t)
  PROVE  ModelInv'
<1> DEFINE r == XmlTokenRole(state, t.k)
           quant == QuantOf(Role(t))
           closed == [dtd EXCEPT !.scaffLevel = @ - 1, !.scaffold[OpenNode].quant = quant]
           call == [element |-> declElementType, content |-> build_model(closed)]
<1>1. /\ Reads(t) /\ Logged(t) /\ Role(t) \in CloseRoles
      /\ UNCHANGED <<declElementType, kept>> /\ elementDeclHandler' = elementDeclHandler
  BY DEF GroupClose, CloseRoles, Reads
<1>2. \/ ~dtd.in_eldecl /\ dtd' = dtd /\ error' = error /\ delivered' = delivered
      \/ /\ dtd.in_eldecl /\ closed.scaffLevel > 0 /\ dtd' = closed
         /\ error' = error /\ delivered' = delivered
      \/ error' = "NO_MEMORY" /\ delivered' = delivered
      \/ /\ dtd.in_eldecl /\ closed.scaffLevel = 0 /\ dtd' = EndDeclaration(closed)
         /\ IF elementDeclHandler THEN delivered' = Append(delivered, call) ELSE delivered' = delivered
         /\ error' = error
  BY Zenon DEF GroupClose, OpenNode, Deliver
<1>3. Before(t, r)
  BY <1>1, TokenRead
<1>4. /\ Role(t) \in ElementRoles /\ r.role = Role(t) /\ RoleStep(state, r) /\ state' = r.state
      /\ error = "NONE" /\ DtdType(dtd) /\ dtd.scaffCount \in Nat /\ quant \in Quants
  BY <1>1, <1>3, QuantType DEF Before, ElementRoles, CloseRoles, TypeOK, DtdType
<1>5. state'.handler # "element1" /\ state.handler \in Groups /\ InGroup
  BY <1>1, <1>4 DEF RoleStep, InGroup, ElementDecl, CloseRoles, Groups, Flat, Deep
<1>6. ASSUME dtd.in_eldecl
      PROVE  /\ closed.in_eldecl = dtd.in_eldecl /\ closed.scaffLevel = dtd.scaffLevel - 1
             /\ closed.contentStringLen = dtd.contentStringLen
             /\ ~EndDeclaration(closed).in_eldecl /\ EndDeclaration(closed).contentStringLen = 0
             /\ Closes(dtd, closed, OpenNode, quant)
             /\ dtd.scaffLevel \in Nat /\ dtd.scaffLevel > 0
  <2>1. dtd.scaffLevel \in Nat /\ dtd.scaffLevel > 0
    BY <1>3, <1>5, <1>6, OpenGroupNode
  <2>2. closed = [dtd EXCEPT !.scaffLevel = @ - 1, !.scaffold[OpenNode].quant = quant]
    OBVIOUS
  <2> HIDE DEF closed, quant
  <2> QED
    BY <1>3, <1>4, <1>5, <1>6, <2>1, <2>2, NodeClosed
<1> HIDE DEF r, quant, closed, call
<1>7. ASSUME IsElementDecl'
      PROVE  LET s == Declaration
                 n == Declaration'
             IN  /\ s.at \in {"mixed", "next"} /\ n.at \in {"end", "next"}
                 /\ n.element = s.element /\ Shape(s)
                 /\ n = Ref!ReadEnd(s, GroupType(s, Len(s.groups)), t)
                 /\ quant = Ref!Quantifier(t.k)
                 /\ s.at = "mixed" => Len(s.groups) = 1
                 /\ Progress(dtd, declElementType, delivered, kept, s)
  <2> DEFINE s == Declaration
             n == Declaration'
             type == GroupType(s, Len(s.groups))
  <2>1. Reading(t, s, n)
    BY <1>1, <1>7, TokenReading
  <2> HIDE DEF s, n
  <2>2. /\ ReadsBy(state, s, t, r, n) /\ Shape(s) /\ Position(state, s)
        /\ Progress(dtd, declElementType, delivered, kept, s)
    BY <1>4, <2>1, RoleRead DEF r
  <2>3. s.at \in {"mixed", "next"} /\ quant = Ref!Quantifier(t.k) /\ n = Ref!ReadEnd(s, type, t)
    BY <1>1, <1>4, <2>2 DEF ReadsBy, quant
  <2>4. s.at = "mixed" => Len(s.groups) = 1
    BY <1>5, <2>2 DEF Position, Place, Groups, Flat, Deep
  <2>5. n.at \in {"end", "next"} /\ n.element = s.element
    <3> HIDE DEF type
    <3> QED
      BY <2>2, <2>3 DEF Ref!ReadEnd, Shape, Ref!Start
  <2> QED
    BY <2>2, <2>3, <2>4, <2>5 DEF s, n
<1>8. CASE error' = "NO_MEMORY" /\ delivered' = delivered
  BY <1>1, <1>4, <1>8, FailedModel
<1>9. CASE ~dtd.in_eldecl /\ dtd' = dtd /\ error' = error /\ delivered' = delivered
  <2>1. IsElementDecl' =>
          /\ Declaration.at \notin {"name", "end", "done"}
          /\ Declaration'.at \notin {"name", "spec"}
          /\ Declaration'.element = Declaration.element
    BY <1>7
  <2> QED
    BY <1>1, <1>4, <1>5, <1>9, <2>1, InsideModel
<1>10. CASE /\ dtd.in_eldecl /\ closed.scaffLevel > 0 /\ dtd' = closed
            /\ error' = error /\ delivered' = delivered
  <2>1. IsElementDecl' =>
          /\ Declaration.at \notin {"name", "end", "done"}
          /\ Declaration'.at \notin {"name", "spec"}
          /\ Declaration'.element = Declaration.element
    BY <1>7
  <2>2. ASSUME IsElementDecl' PROVE \E kids, tree : Collects(dtd', Declaration', kids, tree)
    <3> DEFINE s == Declaration
               n == Declaration'
               type == GroupType(s, Len(s.groups))
    <3>1. /\ s.at \in {"mixed", "next"} /\ Shape(s) /\ n = Ref!ReadEnd(s, type, t)
          /\ quant = Ref!Quantifier(t.k)
          /\ s.at = "mixed" => Len(s.groups) = 1
          /\ Progress(dtd, declElementType, delivered, kept, s)
      BY <1>7, <2>2
    <3> HIDE DEF s, n
    <3>2. PICK kids, tree : Collects(dtd, s, kids, tree)
      BY <1>10, <3>1 DEF Progress
    <3>3. dtd.scaffLevel > 1 /\ dtd.scaffLevel \in Nat /\ Len(s.groups) = dtd.scaffLevel
      BY <1>6, <1>10, <3>2 DEF Collects
    <3>4. s.at = "next"
      BY <3>1, <3>3
    <3>5. /\ closed.contentStringLen = dtd.contentStringLen
          /\ Closes(dtd, closed, dtd.scaffIndex[dtd.scaffLevel - 1], Ref!Quantifier(t.k))
      BY <1>6, <1>10, <3>1 DEF OpenNode
    <3>6. type = GroupType(s, Len(s.groups))
      OBVIOUS
    <3> HIDE DEF type
    <3>7. \E k, tr : Collects(closed, Ref!ReadEnd(s, type, t), k, tr)
      BY <1>4, <3>1, <3>2, <3>3, <3>4, <3>5, <3>6, EndCollected
    <3> QED
      BY <1>10, <3>1, <3>7 DEF n
  <2> QED
    BY <1>1, <1>4, <1>5, <1>6, <1>10, <2>1, <2>2, InsideModel
<1>11. CASE /\ dtd.in_eldecl /\ closed.scaffLevel = 0 /\ dtd' = EndDeclaration(closed)
            /\ IF elementDeclHandler THEN delivered' = Append(delivered, call)
               ELSE delivered' = delivered
            /\ error' = error
  <2>1. ~dtd'.in_eldecl /\ dtd'.contentStringLen = 0
    BY <1>6, <1>11
  <2>2. Counted(error', dtd', state') /\ (kept' => elementDeclHandler')
    BY <1>1, <2>1 DEF Counted, ModelInv
  <2>3. ASSUME IsElementDecl'
        PROVE  Delivery(error', dtd', declElementType', delivered', kept', Declaration')
    <3> DEFINE s == Declaration
               n == Declaration'
               type == GroupType(s, Len(s.groups))
    <3>1. /\ s.at \in {"mixed", "next"} /\ Shape(s) /\ n = Ref!ReadEnd(s, type, t)
          /\ quant = Ref!Quantifier(t.k) /\ n.element = s.element
          /\ Progress(dtd, declElementType, delivered, kept, s)
      BY <1>7, <2>3
    <3> HIDE DEF s, n
    <3>2. PICK kids, tree : Collects(dtd, s, kids, tree)
      BY <1>11, <3>1 DEF Progress
    <3>3. dtd.scaffLevel = 1 /\ Len(s.groups) = 1
      BY <1>6, <1>11, <3>2 DEF Collects
    <3>4. /\ closed.contentStringLen = dtd.contentStringLen
          /\ Closes(dtd, closed, dtd.scaffIndex[dtd.scaffLevel - 1], Ref!Quantifier(t.k))
      BY <1>6, <1>11, <3>1 DEF OpenNode
    <3>5. type = GroupType(s, Len(s.groups))
      OBVIOUS
    <3> HIDE DEF type
    <3>6. build_model(closed) = Ref!Model(n)
      <4>1. Completes(dtd, s, kids, tree, closed, t)
        BY <1>4, <3>1, <3>2, <3>3, <3>4 DEF Completes
      <4>2. build_model(closed) = Ref!Model(Ref!ReadEnd(s, type, t))
        BY <3>5, <4>1, LastCollected
      <4> QED
        BY <3>1, <4>2
    <3>7. n.at = "end"
      BY <3>1, <3>3 DEF Ref!ReadEnd, Shape, Ref!Start
    <3>8. delivered = <<>> /\ declElementType = s.element
      BY <1>11, <3>1 DEF Progress
    <3>9. CASE elementDeclHandler
      <4>1. delivered' = <<call>> /\ <<call>> # <<>>
        BY <1>11, <3>8, <3>9
      <4>2. call = [element |-> n.element, content |-> Ref!Model(n)]
        BY <3>1, <3>6, <3>8 DEF call
      <4> QED
        BY <2>1, <3>7, <4>1, <4>2 DEF Delivery, Called, Progress, n
    <3>10. CASE ~elementDeclHandler
      <4>1. delivered' = <<>> /\ ~kept'
        BY <1>1, <1>11, <3>8, <3>10 DEF ModelInv
      <4> QED
        BY <2>1, <3>7, <4>1 DEF Delivery, Called, Progress, n
    <3> QED
      BY <3>9, <3>10
  <2> QED
    BY <2>2, <2>3, ModelKept
<1> QED
  BY <1>2, <1>8, <1>9, <1>10, <1>11

-----------------------------------------------------------------------------
(* The application sets or removes the handler.                              *)
LEMMA HandlerModel ==
  ASSUME ModelInv, UNCHANGED <<state, error, declElementType, dtd, decl, delivered>>,
         kept' => kept /\ elementDeclHandler'
  PROVE  ModelInv'
<1>1. Declaration' = Declaration /\ (IsElementDecl' <=> IsElementDecl)
  BY DEF Declaration, IsElementDecl
<1>2. Counted(error', dtd', state')
  BY DEF ModelInv
<1>3. ASSUME IsElementDecl'
      PROVE  Delivery(error', dtd', declElementType', delivered', kept', Declaration')
  <2> DEFINE s == Declaration
  <2>1. Delivery(error, dtd, declElementType, delivered, kept, s)
    BY <1>1, <1>3 DEF ModelInv
  <2> HIDE DEF s
  <2>2. Delivery(error, dtd, declElementType, delivered, kept', s)
    BY <2>1 DEF Delivery, Progress
  <2> QED
    BY <1>1, <2>2 DEF s
<1> QED
  BY <1>2, <1>3, ModelKept

LEMMA SetElementDeclHandlerModel ==
  ASSUME ModelInv, XML_SetElementDeclHandler
  PROVE  ModelInv'
BY HandlerModel DEF XML_SetElementDeclHandler

LEMMA ParserResetModel ==
  ASSUME XML_ParserReset
  PROVE  ModelInv'
<1>1. ~IsElementDecl' /\ ~kept'
  BY DEF XML_ParserReset, IsElementDecl
<1>2. Counted(error', dtd', state')
  BY DEF XML_ParserReset, dtdReset, NoScaffold, Counted
<1> QED
  BY <1>1, <1>2, ModelKept

LEMMA InitModel == ASSUME Init PROVE ModelInv
BY DEF Init, ModelInv, Counted, NoScaffold, IsElementDecl

LEMMA TokenModel ==
  ASSUME IndInv, SyntaxInv, ModelInv, NEW t \in Tokens, Token(t)
  PROVE  ModelInv'
BY RefuseModel, OtherModel, AttlistElementNameModel, ElementNameModel, ContentAnyOrEmptyModel,
   GroupOpenModel, GroupSequenceModel, GroupChoiceModel, ContentPcdataModel, ContentElementModel,
   GroupCloseModel DEF Token

LEMMA ModelInductive == IndInv /\ SyntaxInv /\ ModelInv /\ [Next]_vars => ModelInv'
<1> SUFFICES ASSUME IndInv, SyntaxInv, ModelInv, [Next]_vars
             PROVE  ModelInv'
  OBVIOUS
<1>1. CASE \E t \in Tokens : Token(t)
  BY <1>1, TokenModel
<1>2. CASE XML_SetElementDeclHandler
  BY <1>2, SetElementDeclHandlerModel
<1>3. CASE XML_ParserReset
  BY <1>3, ParserResetModel
<1>4. CASE UNCHANGED vars
  <2>1. /\ UNCHANGED <<state, error, declElementType, dtd, decl, delivered>>
        /\ kept' => kept /\ elementDeclHandler'
    BY <1>4 DEF vars, history, ModelInv
  <2> QED
    BY <2>1, HandlerModel
<1> QED
  BY <1>1, <1>2, <1>3, <1>4 DEF Next

LEMMA ModelFollows ==
  ASSUME IndInv, SyntaxInv, ModelInv
  PROVE  ModelAsDeclared
<1> SUFFICES ASSUME IsElementDecl
             PROVE  /\ Len(delivered) <= 1
                    /\ delivered # <<>> =>
                         delivered[1] = [element |-> Declaration.element,
                                         content |-> Ref!Model(Declaration)]
                    /\ kept /\ error = "NONE" /\ Declaration.at \in {"end", "done"} =>
                         delivered # <<>>
  BY DEF ModelAsDeclared
<1> DEFINE s == Declaration
<1>1. Delivery(error, dtd, declElementType, delivered, kept, s)
  BY DEF ModelInv
<1>2. error = "NONE" => Collected /\ Position(state, s)
  BY DEF IndInv, SyntaxInv, Follows
<1> HIDE DEF s
<1>3. Len(delivered) <= 1 /\ (delivered # <<>> =>
        delivered[1] = [element |-> s.element, content |-> Ref!Model(s)])
  <2>1. CASE delivered = <<>>
    BY <2>1
  <2>2. CASE delivered # <<>>
    <3> DEFINE call == [element |-> s.element, content |-> Ref!Model(s)]
    <3>1. delivered = <<call>>
      BY <1>1, <2>2 DEF Delivery, Called
    <3> HIDE DEF call
    <3>2. Len(delivered) = 1 /\ delivered[1] = call
      BY <3>1
    <3> QED
      BY <3>2 DEF call
  <2> QED
    BY <2>1, <2>2
<1>4. ASSUME kept, error = "NONE", s.at \in {"end", "done"}
      PROVE  delivered # <<>>
  <2>1. Progress(dtd, declElementType, delivered, kept, s)
    BY <1>1, <1>4 DEF Delivery
  <2>2. ~dtd.in_eldecl
    BY <1>2, <1>4, CollectedInside
  <2> QED
    BY <1>4, <2>1, <2>2 DEF Progress
<1> QED
  BY <1>3, <1>4 DEF s

(* The handler gets at most one content model for an element declaration,    *)
(* the one the declaration spells, and gets it unless memory runs out when   *)
(* it was set since the element's name: what nextScaffoldPart puts into the  *)
(* scaffold and build_model of xmlparse.c copies out of it are the groups,   *)
(* members, quantifiers and names as they were read, for declarations of     *)
(* any length and depth, tables of any size, a handler set at any moment,    *)
(* any failed allocation and any reset.                                      *)
THEOREM DeclaredModels == Spec => []ModelAsDeclared
<1>1. IndInv /\ SyntaxInv /\ ModelInv => ModelAsDeclared
  BY ModelFollows
<1> QED
  BY InitInv, Inductive, InitSyntax, SyntaxInductive, InitModel, ModelInductive, <1>1, PTL DEF Spec

=============================================================================
