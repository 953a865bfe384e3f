------------------------- MODULE ContentSyntaxProofs -------------------------
(***************************************************************************)
(* doProlog refuses an element declaration exactly when the productions of *)
(* XML 1.0 do, proved for every vocabulary of tokens, every depth and      *)
(* every size of the tables.                                               *)
(***************************************************************************)
EXTENDS ContentModelProofs, SequenceTheorems, WellFoundedInduction

-----------------------------------------------------------------------------
(* What holds at 0, and at n + 1 when it holds at n, holds everywhere.       *)
LEMMA SetInduction ==
  ASSUME NEW T, 0 \in T, \A n \in Nat : n \in T => n + 1 \in T
  PROVE  \A n \in Nat : n \in T
<1> DEFINE R == OpToRel(<, Nat)
<1>1. R = {p \in Nat \X Nat : p[1] < p[2]}
  BY DEF OpToRel
<1>2. IsWellFoundedOn(R, Nat)
  BY NatLessThanWellFounded
<1> HIDE DEF R
<1> SUFFICES ASSUME Nat \ T # {} PROVE FALSE
  OBVIOUS
<1>3. PICK m \in Nat : m \notin T /\ \A y \in Nat \ T : <<y, m>> \notin R
  BY <1>2, WFMin
<1>4. m # 0 /\ m - 1 \in Nat
  BY <1>3
<1>5. <<m - 1, m>> \in R
  BY <1>1, <1>3, <1>4
<1>6. (m - 1) + 1 \in T
  BY <1>3, <1>4, <1>5
<1> QED
  BY <1>3, <1>6

(* The states of the reference while it reads w, one token after the other.  *)
Reads1(f, w) ==
  f = [i \in 0..Len(w) |-> IF i = 0 THEN Ref!Start ELSE Ref!Read(f[i - 1], w[i])]

LEMMA ReadingExists ==
  ASSUME NEW S, NEW w \in Seq(S)
  PROVE  \E f : Reads1(f, w)
<1> DEFINE Upto(f, k) ==
             f = [i \in 0..k |-> IF i = 0 THEN Ref!Start ELSE Ref!Read(f[i - 1], w[i])]
           T == {k \in Nat : \E f : Upto(f, k)}
<1>1. 0 \in T
  <2> DEFINE f == [i \in 0..0 |-> Ref!Start]
  <2>1. Upto(f, 0)
    OBVIOUS
  <2> QED
    BY <2>1
<1>2. ASSUME NEW k \in Nat, k \in T PROVE k + 1 \in T
  <2>1. PICK f : Upto(f, k)
    BY <1>2
  <2> DEFINE g == [i \in 0..k + 1 |-> IF i = k + 1 THEN Ref!Read(f[k], w[k + 1]) ELSE f[i]]
  <2>2. \A i \in 0..k : f[i] = IF i = 0 THEN Ref!Start ELSE Ref!Read(f[i - 1], w[i])
    BY <2>1
  <2>3. \A i \in 0..k + 1 : g[i] = IF i = 0 THEN Ref!Start ELSE Ref!Read(g[i - 1], w[i])
    BY <2>2
  <2>4. g = [i \in 0..k + 1 |-> g[i]]
    OBVIOUS
  <2> HIDE DEF g
  <2>5. Upto(g, k + 1)
    BY <2>3, <2>4
  <2> HIDE DEF Upto
  <2> QED
    BY <2>5
<1> HIDE DEF T
<1>3. Len(w) \in T
  BY <1>1, <1>2, SetInduction
<1> QED
  BY <1>3 DEF T, Reads1

LEMMA ReadingPrefix ==
  ASSUME NEW S, NEW w \in Seq(S), NEW v \in Seq(S), Len(w) <= Len(v),
         \A i \in 1..Len(w) : w[i] = v[i],
         NEW f, Reads1(f, w), NEW g, Reads1(g, v)
  PROVE  \A i \in 0..Len(w) : f[i] = g[i]
<1> DEFINE T == {k \in Nat : k <= Len(w) => f[k] = g[k]}
<1>1. \A i \in 0..Len(w) : f[i] = IF i = 0 THEN Ref!Start ELSE Ref!Read(f[i - 1], w[i])
  BY DEF Reads1
<1>2. \A i \in 0..Len(v) : g[i] = IF i = 0 THEN Ref!Start ELSE Ref!Read(g[i - 1], v[i])
  BY DEF Reads1
<1>3. 0 \in T
  BY <1>1, <1>2
<1>4. ASSUME NEW k \in Nat, k \in T PROVE k + 1 \in T
  <2> SUFFICES ASSUME k + 1 <= Len(w) PROVE f[k + 1] = g[k + 1]
    OBVIOUS
  <2>1. f[k] = g[k] /\ w[k + 1] = v[k + 1] /\ k + 1 \in 0..Len(w) /\ k + 1 \in 0..Len(v)
    BY <1>4
  <2>2. (k + 1) - 1 = k /\ k + 1 # 0
    OBVIOUS
  <2> QED
    BY <1>1, <1>2, <2>1, <2>2
<1> HIDE DEF T
<1>5. \A k \in Nat : k \in T
  BY <1>3, <1>4, SetInduction
<1> QED
  BY <1>5 DEF T

LEMMA DeclaredBy ==
  ASSUME NEW S, NEW w \in Seq(S)
  PROVE  \E f : Reads1(f, w) /\ Ref!Declared(w) = f[Len(w)]
<1> DEFINE f == CHOOSE f : Reads1(f, w)
<1>1. Reads1(f, w)
  BY ReadingExists
<1>2. Ref!Declared(w) = f[Len(w)]
  BY DEF Ref!Declared, Reads1
<1> HIDE DEF f
<1> QED
  BY <1>1, <1>2

(* One more token is one more step of the reference.                         *)
LEMMA DeclaredAppend ==
  ASSUME NEW S, NEW w \in Seq(S), NEW t \in S
  PROVE  /\ Ref!Declared(Append(w, t)) = Ref!Read(Ref!Declared(w), t)
         /\ Ref!Declared(<<t>>) = Ref!Read(Ref!Start, t)
<1>1. Ref!Declared(Append(w, t)) = Ref!Read(Ref!Declared(w), t)
  <2> DEFINE v == Append(w, t)
  <2>1. v \in Seq(S) /\ Len(v) = Len(w) + 1 /\ v[Len(w) + 1] = t /\ \A i \in 1..Len(w) : w[i] = v[i]
    OBVIOUS
  <2> HIDE DEF v
  <2>2. PICK f : Reads1(f, w) /\ Ref!Declared(w) = f[Len(w)]
    BY DeclaredBy
  <2>3. PICK g : Reads1(g, v) /\ Ref!Declared(v) = g[Len(v)]
    BY <2>1, DeclaredBy
  <2>4. \A i \in 0..Len(w) : f[i] = g[i]
    BY <2>1, <2>2, <2>3, ReadingPrefix
  <2>5. f[Len(w)] = g[Len(w)]
    BY <2>4
  <2>6. g[Len(w) + 1] = Ref!Read(g[(Len(w) + 1) - 1], v[Len(w) + 1])
    BY <2>1, <2>3 DEF Reads1
  <2> QED
    BY <2>1, <2>2, <2>3, <2>5, <2>6 DEF v
<1>2. Ref!Declared(<<t>>) = Ref!Read(Ref!Start, t)
  <2> DEFINE v == <<t>>
  <2>1. v \in Seq(S) /\ Len(v) = 1 /\ v[1] = t
    OBVIOUS
  <2> HIDE DEF v
  <2>2. PICK g : Reads1(g, v) /\ Ref!Declared(v) = g[Len(v)]
    BY <2>1, DeclaredBy
  <2>3. g[0] = Ref!Start /\ g[1] = Ref!Read(g[0], v[1])
    BY <2>1, <2>2 DEF Reads1
  <2> QED
    BY <2>1, <2>2, <2>3 DEF v
<1> QED
  BY <1>1, <1>2

-----------------------------------------------------------------------------
(* The reference's groups: what is read of each, the outermost first.        *)
Separated == {"none", "COMMA", "OR"}
GroupsOf(S) == Seq([separator: Separated, children: Seq(S)])
Grouped(groups) == \E S : groups \in GroupsOf(S)

SeparatorsKept(old, new) ==
  \A l \in 1..Len(new) : l <= Len(old) => new[l].separator = old[l].separator

LEMMA GroupOpened ==
  ASSUME NEW groups, Grouped(groups)
  PROVE  LET r == Append(groups, Ref!NewGroup)
         IN  /\ Grouped(r) /\ SeparatorsKept(groups, r)
             /\ Len(r) = Len(groups) + 1 /\ r[Len(r)] = Ref!NewGroup
<1>1. PICK S : groups \in GroupsOf(S)
  BY DEF Grouped
<1>2. Ref!NewGroup \in [separator: Separated, children: Seq(S)]
  BY DEF Ref!NewGroup, Separated
<1> DEFINE P == [separator: Separated, children: Seq(S)]
           r == Append(groups, Ref!NewGroup)
<1> HIDE DEF P
<1>3. groups \in Seq(P) /\ Ref!NewGroup \in P
  BY <1>1, <1>2 DEF GroupsOf, P
<1>4. /\ r \in Seq(P) /\ Len(r) = Len(groups) + 1 /\ r[Len(groups) + 1] = Ref!NewGroup
      /\ \A l \in 1..Len(groups) : r[l] = groups[l]
  BY <1>3
<1>5. r \in GroupsOf(S) /\ Len(groups) \in Nat
  BY <1>3, <1>4 DEF GroupsOf, P
<1> HIDE DEF r
<1>6. Grouped(r) /\ SeparatorsKept(groups, r)
  BY <1>4, <1>5 DEF Grouped, SeparatorsKept
<1> QED
  BY <1>4, <1>6 DEF r

LEMMA GroupsWiden ==
  ASSUME NEW S, NEW T, S \subseteq T, NEW groups \in GroupsOf(S)
  PROVE  groups \in GroupsOf(T)
<1>1. \A x \in Seq(S) : x \in Seq(T)
  <2> SUFFICES ASSUME NEW x \in Seq(S) PROVE x \in Seq(T)
    OBVIOUS
  <2>1. Len(x) \in Nat /\ \A i \in 1..Len(x) : x[i] \in T
    OBVIOUS
  <2>2. x = [i \in 1..Len(x) |-> x[i]]
    OBVIOUS
  <2> QED
    BY <2>1, <2>2
<1> DEFINE P == [separator: Separated, children: Seq(S)]
           Q == [separator: Separated, children: Seq(T)]
<1>2. P \subseteq Q
  BY <1>1
<1> HIDE DEF P, Q
<1>3. groups \in Seq(P)
  BY DEF GroupsOf, P
<1>4. Len(groups) \in Nat /\ \A i \in 1..Len(groups) : groups[i] \in Q
  BY <1>2, <1>3
<1>5. groups = [i \in 1..Len(groups) |-> groups[i]]
  BY <1>3
<1>6. groups \in Seq(Q)
  BY <1>4, <1>5
<1> QED
  BY <1>6 DEF GroupsOf, Q

LEMMA GroupsNonempty ==
  ASSUME NEW S, NEW groups \in GroupsOf(S), groups # <<>>
  PROVE  /\ Len(groups) \in Nat /\ Len(groups) > 0
         /\ \A i \in 1..Len(groups) : groups[i] \in [separator: Separated, children: Seq(S)]
<1> DEFINE P == [separator: Separated, children: Seq(S)]
<1> HIDE DEF P
<1>1. groups \in Seq(P)
  BY DEF GroupsOf, P
<1>2. Len(groups) \in Nat /\ Len(groups) > 0 /\ \A i \in 1..Len(groups) : groups[i] \in P
  BY <1>1
<1> QED
  BY <1>2 DEF P

LEMMA GroupReplaced ==
  ASSUME NEW S, NEW groups \in GroupsOf(S), groups # <<>>,
         NEW g \in [separator: Separated, children: Seq(S)]
  PROVE  LET r == [groups EXCEPT ![Len(groups)] = g]
         IN  /\ r \in GroupsOf(S) /\ Len(r) = Len(groups) /\ r[Len(groups)] = g
             /\ \A l \in 1..Len(groups) - 1 : r[l] = groups[l]
<1> DEFINE P == [separator: Separated, children: Seq(S)]
           r == [groups EXCEPT ![Len(groups)] = g]
<1> HIDE DEF P
<1>1. groups \in Seq(P) /\ g \in P
  BY DEF GroupsOf, P
<1>2. Len(groups) \in Nat /\ Len(groups) > 0
  BY <1>1
<1>3. r \in Seq(P) /\ Len(r) = Len(groups)
  BY <1>1, <1>2
<1>4. r[Len(groups)] = g /\ \A l \in 1..Len(groups) - 1 : r[l] = groups[l]
  BY <1>1, <1>2
<1> QED
  BY <1>3, <1>4 DEF GroupsOf, P

LEMMA ChildAdded ==
  ASSUME NEW groups, Grouped(groups), groups # <<>>, NEW child
  PROVE  LET r == Ref!AddChild(groups, child)
         IN  /\ Grouped(r) /\ Len(r) = Len(groups) /\ SeparatorsKept(groups, r)
             /\ r[Len(groups)].children # <<>>
<1>1. PICK S : groups \in GroupsOf(S)
  BY DEF Grouped
<1> DEFINE T == S \cup {child}
           n == Len(groups)
           g == [groups[n] EXCEPT !.children = Append(@, child)]
<1>2. groups \in GroupsOf(T) /\ child \in T
  BY <1>1, GroupsWiden
<1> HIDE DEF T
<1>3. n \in Nat /\ n > 0 /\ groups[n] \in [separator: Separated, children: Seq(T)]
  BY <1>2, GroupsNonempty
<1>4. \A old \in [separator: Separated, children: Seq(T)] :
        LET new == [old EXCEPT !.children = Append(@, child)]
        IN  /\ new \in [separator: Separated, children: Seq(T)]
            /\ new.separator = old.separator /\ new.children = Append(old.children, child)
            /\ Append(old.children, child) # <<>>
  <2> SUFFICES ASSUME NEW old \in [separator: Separated, children: Seq(T)]
               PROVE  LET new == [old EXCEPT !.children = Append(@, child)]
                      IN  /\ new \in [separator: Separated, children: Seq(T)]
                          /\ new.separator = old.separator
                          /\ new.children = Append(old.children, child)
                          /\ Append(old.children, child) # <<>>
    OBVIOUS
  <2>1. old.children \in Seq(T) /\ old.separator \in Separated
    OBVIOUS
  <2>2. /\ Append(old.children, child) \in Seq(T)
        /\ Len(Append(old.children, child)) = Len(old.children) + 1
    BY <1>2, <2>1
  <2>3. Append(old.children, child) # <<>>
    BY <2>1, <2>2
  <2> QED
    BY <2>1, <2>2, <2>3
<1>5. /\ g \in [separator: Separated, children: Seq(T)]
      /\ g.separator = groups[n].separator /\ g.children # <<>>
  BY <1>3, <1>4
<1>6. Ref!AddChild(groups, child) = [groups EXCEPT ![n] = g]
  BY DEF Ref!AddChild
<1> HIDE DEF g
<1> DEFINE r == [groups EXCEPT ![n] = g]
<1>7. /\ r \in GroupsOf(T) /\ Len(r) = n /\ r[n] = g
      /\ \A l \in 1..n - 1 : r[l] = groups[l]
  BY <1>2, <1>3, <1>5, GroupReplaced
<1> HIDE DEF r
<1>8. SeparatorsKept(groups, r)
  <2>1. r[n].separator = groups[n].separator
    BY <1>5, <1>7
  <2>2. \A l \in 1..Len(r) : l = n \/ l \in 1..n - 1
    BY <1>3, <1>7
  <2> HIDE DEF n
  <2> QED
    BY <1>7, <2>1, <2>2 DEF SeparatorsKept
<1>9. Grouped(r)
  BY <1>7 DEF Grouped
<1>10. Ref!AddChild(groups, child) = r
  BY <1>6 DEF r
<1> QED
  BY <1>5, <1>7, <1>8, <1>9, <1>10

LEMMA GroupClosed ==
  ASSUME NEW groups, Grouped(groups), groups # <<>>
  PROVE  LET r == Ref!Front(groups)
         IN  Grouped(r) /\ Len(r) = Len(groups) - 1 /\ SeparatorsKept(groups, r)
<1>1. PICK S : groups \in GroupsOf(S)
  BY DEF Grouped
<1> DEFINE P == [separator: Separated, children: Seq(S)]
           r == SubSeq(groups, 1, Len(groups) - 1)
<1> HIDE DEF P
<1>2. groups \in Seq(P) /\ Len(groups) \in Nat /\ Len(groups) > 0
  BY <1>1, GroupsNonempty DEF GroupsOf, P
<1>3. r \in Seq(P) /\ Len(r) = Len(groups) - 1 /\ \A l \in 1..Len(groups) - 1 : r[l] = groups[l]
  <2> DEFINE n == Len(groups) - 1
  <2>1. n \in Nat /\ n \in Int /\ 1 \in Int /\ \A i \in 1..n : groups[i] \in P
    BY <1>2
  <2>2. r = SubSeq(groups, 1, n)
    BY DEF r
  <2> HIDE DEF n, r
  <2>3. /\ SubSeq(groups, 1, n) \in Seq(P)
        /\ Len(SubSeq(groups, 1, n)) = IF 1 <= n THEN n - 1 + 1 ELSE 0
        /\ \A i \in 1..n - 1 + 1 : SubSeq(groups, 1, n)[i] = groups[1 + i - 1]
    BY <2>1, SubSeqProperties
  <2>4. r \in Seq(P) /\ Len(r) = n /\ \A i \in 1..n : r[i] = groups[i]
    BY <2>1, <2>2, <2>3
  <2> QED
    BY <2>4 DEF n
<1>4. Ref!Front(groups) = r
  BY DEF Ref!Front
<1> HIDE DEF r
<1>5. r \in GroupsOf(S)
  BY <1>3 DEF GroupsOf, P
<1>6. SeparatorsKept(groups, r)
  BY <1>2, <1>3 DEF SeparatorsKept
<1> QED
  BY <1>3, <1>4, <1>5, <1>6 DEF Grouped

LEMMA SeparatorSet ==
  ASSUME NEW groups, Grouped(groups), groups # <<>>, NEW k \in Separated
  PROVE  LET r == [groups EXCEPT ![Len(groups)].separator = k]
         IN  /\ Grouped(r) /\ Len(r) = Len(groups) /\ r[Len(groups)].separator = k
             /\ \A l \in 1..Len(groups) - 1 : r[l] = groups[l]
<1>1. PICK S : groups \in GroupsOf(S)
  BY DEF Grouped
<1> DEFINE n == Len(groups)
           g == [groups[n] EXCEPT !.separator = k]
<1>2. n \in Nat /\ n > 0 /\ groups[n] \in [separator: Separated, children: Seq(S)]
  BY <1>1, GroupsNonempty
<1>3. g \in [separator: Separated, children: Seq(S)] /\ g.separator = k
  BY <1>2
<1> DEFINE r == [groups EXCEPT ![n] = g]
<1>4. [groups EXCEPT ![n].separator = k] = r
  OBVIOUS
<1> HIDE DEF g
<1>5. /\ r \in GroupsOf(S) /\ Len(r) = n /\ r[n] = g
      /\ \A l \in 1..n - 1 : r[l] = groups[l]
  BY <1>1, <1>2, <1>3, GroupReplaced
<1> HIDE DEF r
<1> QED
  BY <1>3, <1>4, <1>5 DEF Grouped

-----------------------------------------------------------------------------
(* What the reference's steps do to the groups.                              *)
Shape(s) == DOMAIN s = DOMAIN Ref!Start /\ Grouped(s.groups)

LEMMA StartShape == Shape(Ref!Start) /\ Ref!Start.groups = <<>>
<1>1. <<>> \in GroupsOf({})
  BY DEF GroupsOf
<1> QED
  BY <1>1 DEF Shape, Grouped, Ref!Start

LEMMA AtReads ==
  ASSUME NEW s, Shape(s), NEW at
  PROVE  LET n == [s EXCEPT !.at = at]
         IN  Shape(n) /\ n.at = at /\ n.groups = s.groups
BY DEF Shape, Ref!Start

LEMMA OpenReads ==
  ASSUME NEW s, Shape(s), NEW at
  PROVE  LET n == Ref!ReadOpen(s, at)
         IN  Shape(n) /\ n.at = at /\ n.groups = Append(s.groups, Ref!NewGroup)
<1>1. Grouped(Append(s.groups, Ref!NewGroup))
  BY GroupOpened DEF Shape
<1> QED
  BY <1>1 DEF Shape, Ref!ReadOpen, Ref!Start

LEMMA LeafReads ==
  ASSUME NEW s, Shape(s), s.groups # <<>>, NEW t, NEW at
  PROVE  LET n == Ref!ReadLeaf(s, t, at)
         IN  /\ Shape(n) /\ n.at = at /\ Len(n.groups) = Len(s.groups)
             /\ SeparatorsKept(s.groups, n.groups) /\ n.groups[Len(s.groups)].children # <<>>
<1> DEFINE gs == Ref!AddChild(s.groups, Ref!Tree("NAME", Ref!Quantifier(t.k), t.n, <<>>))
           n == Ref!ReadLeaf(s, t, at)
<1>1. /\ Grouped(gs) /\ Len(gs) = Len(s.groups) /\ SeparatorsKept(s.groups, gs)
      /\ gs[Len(s.groups)].children # <<>>
  BY ChildAdded DEF Shape
<1>2. n.at = at /\ n.groups = gs /\ DOMAIN n = DOMAIN s
  BY DEF Shape, Ref!ReadLeaf, Ref!Start
<1> HIDE DEF gs, n
<1>3. Shape(n)
  BY <1>1, <1>2 DEF Shape
<1> QED
  BY <1>1, <1>2, <1>3 DEF n

LEMMA EndReads ==
  ASSUME NEW s, Shape(s), s.groups # <<>>, NEW type, NEW t
  PROVE  LET n == Ref!ReadEnd(s, type, t)
         IN  /\ Shape(n)
             /\ Len(s.groups) = 1 => n.at = "end" /\ n.groups = <<>>
             /\ Len(s.groups) > 1 =>
                  /\ n.at = "next" /\ Len(n.groups) = Len(s.groups) - 1
                  /\ SeparatorsKept(s.groups, n.groups)
<1> DEFINE tree == Ref!Tree(type, Ref!Quantifier(t.k), "-", Ref!Last(s.groups).children)
           front == Ref!Front(s.groups)
           gs == Ref!AddChild(front, tree)
           one == [s EXCEPT !.at = "end", !.groups = <<>>, !.content = tree]
           more == [s EXCEPT !.at = "next", !.groups = gs]
           n == Ref!ReadEnd(s, type, t)
<1>1. n = IF Len(s.groups) = 1 THEN one ELSE more
  BY DEF Ref!ReadEnd
<1>2. Grouped(front) /\ Len(front) = Len(s.groups) - 1 /\ SeparatorsKept(s.groups, front)
  BY GroupClosed DEF Shape
<1>3. Len(s.groups) \in Nat /\ Len(s.groups) > 0
  BY GroupsNonempty DEF Shape, Grouped
<1> HIDE DEF tree, front
<1>4. CASE Len(s.groups) = 1
  <2>1. n.at = "end" /\ n.groups = <<>> /\ DOMAIN n = DOMAIN Ref!Start
    BY <1>1, <1>4 DEF Shape, Ref!Start
  <2>2. Shape(n)
    BY <2>1, StartShape DEF Shape
  <2> QED
    BY <1>4, <2>1, <2>2
<1>5. CASE Len(s.groups) # 1
  <2>1. front # <<>>
    <3>1. front = <<>> => Len(front) = 0
      OBVIOUS
    <3> QED
      BY <1>2, <1>3, <1>5, <3>1
  <2>2. Grouped(gs) /\ Len(gs) = Len(front) /\ SeparatorsKept(front, gs)
    BY <1>2, <2>1, ChildAdded
  <2> HIDE DEF gs
  <2>3. n.at = "next" /\ n.groups = gs /\ DOMAIN n = DOMAIN Ref!Start
    BY <1>1, <1>5 DEF Shape, Ref!Start
  <2>4. SeparatorsKept(s.groups, gs)
    BY <1>2, <1>3, <2>2 DEF SeparatorsKept
  <2>5. Shape(n)
    BY <2>2, <2>3 DEF Shape
  <2>6. Len(n.groups) = Len(s.groups) - 1 /\ SeparatorsKept(s.groups, n.groups)
    BY <1>2, <2>2, <2>3, <2>4
  <2> HIDE DEF n
  <2> QED
    BY <1>5, <2>3, <2>5, <2>6 DEF n
<1> QED
  BY <1>4, <1>5

LEMMA SeparatorReads ==
  ASSUME NEW s, Shape(s), s.groups # <<>>, NEW k \in Separated
  PROVE  LET n == [s EXCEPT !.at = "item", !.groups[Len(s.groups)].separator = k]
         IN  /\ Shape(n) /\ n.at = "item" /\ Len(n.groups) = Len(s.groups)
             /\ n.groups[Len(s.groups)].separator = k
             /\ \A l \in 1..Len(s.groups) - 1 : n.groups[l] = s.groups[l]
<1> DEFINE gs == [s.groups EXCEPT ![Len(s.groups)].separator = k]
           n == [s EXCEPT !.at = "item", !.groups = gs]
<1>1. /\ Grouped(gs) /\ Len(gs) = Len(s.groups) /\ gs[Len(s.groups)].separator = k
      /\ \A l \in 1..Len(s.groups) - 1 : gs[l] = s.groups[l]
  BY SeparatorSet DEF Shape
<1>2. [s EXCEPT !.at = "item", !.groups[Len(s.groups)].separator = k] = n
  BY DEF Shape, Ref!Start
<1> HIDE DEF gs
<1>3. n.at = "item" /\ n.groups = gs /\ DOMAIN n = DOMAIN Ref!Start
  BY DEF Shape, Ref!Start
<1> HIDE DEF n
<1> QED
  BY <1>1, <1>2, <1>3 DEF Shape

-----------------------------------------------------------------------------
(* Where the reference is when the automaton is at handler h.                *)
TopHandlers == {"internalSubset", "externalSubset0", "externalSubset1"}
Place(h) ==
  CASE h = "element0" -> "name"
    [] h = "element1" -> "spec"
    [] h = "element2" -> "first"
    [] h \in {"element3", "element5"} -> "mixed"
    [] h = "element4" -> "mixedName"
    [] h = "element6" -> "item"
    [] h = "element7" -> "next"
    [] h = "declClose" -> "end"
    [] OTHER -> "done"

Position(st, s) ==
  /\ st.handler \in ElementDecl \cup {"declClose"} \cup TopHandlers
  /\ Shape(s) /\ s.at = Place(st.handler)
  /\ st.handler \notin Groups => s.groups = <<>>
  /\ st.handler \in Groups => Len(s.groups) = st.level /\ st.level >= 1
  /\ st.handler \in Flat => st.level = 1
  /\ st.handler \in {"element2", "element3"} => s.groups[1].children = <<>>
  /\ st.handler = "element5" => s.groups[1].children # <<>>

(* A separator is read: k, in the innermost group.                           *)
ReadsSeparator(st, s, r, n, k) ==
  /\ st.handler = "element7"
  /\ s.groups[st.level].separator \notin {"none", k} => n.at = "bad"
  /\ s.groups[st.level].separator \in {"none", k} =>
       /\ Position(r.state, n) /\ r.state.level = st.level
       /\ n.groups[st.level].separator = k
       /\ \A l \in 1..st.level - 1 : n.groups[l].separator = s.groups[l].separator

(* The automaton takes a step to r where the reference goes from s to n.     *)
InStep(st, s, r, n) ==
  /\ r.role = "ERROR" => n.at = "bad"
  /\ r.role \notin {"ERROR", "GROUP_SEQUENCE", "GROUP_CHOICE"} =>
       Position(r.state, n) /\ SeparatorsKept(s.groups, n.groups)
  /\ r.role = "GROUP_OPEN" =>
       /\ Len(n.groups) = Len(s.groups) + 1
       /\ n.groups[Len(n.groups)].separator = "none"
  /\ r.role \notin {"GROUP_OPEN", "GROUP_SEQUENCE", "GROUP_CHOICE", "ERROR"} =>
       Len(n.groups) <= Len(s.groups)
  /\ r.role = "GROUP_SEQUENCE" => ReadsSeparator(st, s, r, n, "COMMA")
  /\ r.role = "GROUP_CHOICE" => ReadsSeparator(st, s, r, n, "OR")

(* The reference reads no token that the automaton skips.                    *)
Unskipped(st, tok) ==
  tok # "S" /\ ~(tok = "PARAM_ENTITY_REF" /\ XmlTokenRole(st, tok).role # "ERROR")

LEMMA ElementToken ==
  ASSUME NEW st, NEW tok, st.handler \in ElementDecl, Unskipped(st, tok)
  PROVE  /\ XmlTokenRole(st, tok) = element(st, tok)
         /\ element(st, tok) = common(st, tok) => common(st, tok).role = "ERROR"
<1>1. tok # "S"
  BY DEF Unskipped
<1>2. XmlTokenRole(st, tok) = element(st, tok)
  BY <1>1 DEF XmlTokenRole, Prolog, Doctype, Subset, EntityDecl, NotationDecl, AttlistDecl, ElementDecl
<1>3. common(st, tok).role = "ERROR" \/ tok = "PARAM_ENTITY_REF"
  BY DEF common, Stay, To
<1> QED
  BY <1>2, <1>3 DEF Unskipped

(* The vocabularies are the same.                                            *)
LEMMA SameKinds ==
  /\ Ref!QName = QName /\ Ref!Particle = Particle /\ Ref!GroupEnd = GroupEnd
  /\ Ref!Separators = {"COMMA", "OR"}
BY DEF Ref!QName, QName, Ref!Name, Name, Ref!AttributeTypes, AttributeTypes, Ref!Particle, Particle,
   Ref!GroupEnd, GroupEnd, Ref!Separators

(* A refusal, and a step that opens no group and reads no separator.         *)
LEMMA RefusedInStep ==
  ASSUME NEW st, NEW s, Shape(s), NEW r, r.role = "ERROR", NEW n, n = [s EXCEPT !.at = "bad"]
  PROVE  InStep(st, s, r, n)
BY DEF InStep, Shape, Ref!Start

LEMMA MovedInStep ==
  ASSUME NEW st, NEW s, NEW r, NEW n,
         r.role \notin {"ERROR", "GROUP_OPEN", "GROUP_SEQUENCE", "GROUP_CHOICE"},
         Position(r.state, n), SeparatorsKept(s.groups, n.groups), Len(n.groups) <= Len(s.groups)
  PROVE  InStep(st, s, r, n)
BY DEF InStep

LEMMA OpenedInStep ==
  ASSUME NEW st, NEW s, Shape(s), NEW r, NEW n, NEW at,
         r.role = "GROUP_OPEN", n = Ref!ReadOpen(s, at), at = Place(r.state.handler),
         r.state.handler \in {"element2", "element6"}, r.state.level = Len(s.groups) + 1,
         r.state.handler = "element2" => r.state.level = 1
  PROVE  InStep(st, s, r, n)
<1> DEFINE gs == Append(s.groups, Ref!NewGroup)
<1>1. Shape(n) /\ n.at = at /\ n.groups = gs
  BY OpenReads
<1>2. /\ SeparatorsKept(s.groups, gs) /\ Len(gs) = Len(s.groups) + 1
      /\ gs[Len(gs)] = Ref!NewGroup
  BY GroupOpened DEF Shape
<1> HIDE DEF gs
<1>3. Len(s.groups) \in Nat
  BY DEF Shape, Grouped, GroupsOf
<1>4. gs[Len(gs)].separator = "none" /\ gs[Len(gs)].children = <<>>
  BY <1>2 DEF Ref!NewGroup
<1>5. Position(r.state, n)
  BY <1>1, <1>2, <1>3, <1>4 DEF Position, ElementDecl, Groups, Flat, Deep
<1> QED
  BY <1>1, <1>2, <1>4, <1>5 DEF InStep

LEMMA OpensAt ==
  ASSUME NEW st \in PrologStates, NEW l \in Nat, NEW h
  PROVE  LET r == To([st EXCEPT !.level = l], h, "GROUP_OPEN")
         IN  r.role = "GROUP_OPEN" /\ r.state.handler = h /\ r.state.level = l
<1> DEFINE s1 == [st EXCEPT !.level = l]
<1>1. s1.level = l /\ DOMAIN s1 = {"handler", "level", "role_none", "includeLevel", "documentEntity"}
  BY DEF PrologStates
<1> HIDE DEF s1
<1>2. LET r == To(s1, h, "GROUP_OPEN")
      IN  r.role = "GROUP_OPEN" /\ r.state.handler = h /\ r.state.level = l
  BY <1>1 DEF To, Stay
<1> QED
  BY <1>2 DEF s1

LEMMA ClosesAt ==
  ASSUME NEW st \in PrologStates, NEW none, NEW role
  PROVE  LET r == ToClose(st, none, role)
         IN  r.role = role /\ r.state.handler = "declClose"
BY DEF ToClose, Stay, PrologStates

LEMMA NameInStep ==
  ASSUME NEW st \in PrologStates, NEW t, NEW s, Position(st, s), Unskipped(st, t.k),
         st.handler = "element0"
  PROVE  InStep(st, s, XmlTokenRole(st, t.k), Ref!Read(s, t))
<1> DEFINE r == XmlTokenRole(st, t.k)
           n == Ref!Read(s, t)
<1>1. s.at = "name" /\ Shape(s) /\ s.groups = <<>>
  BY DEF Position, Place, Groups, Flat, Deep
<1>2. r = element(st, t.k) /\ (element(st, t.k) = common(st, t.k) => common(st, t.k).role = "ERROR")
  BY ElementToken DEF ElementDecl
<1>3. CASE t.k \in QName
  <2>1. r = To(st, "element1", "ELEMENT_NAME")
    BY <1>2, <1>3 DEF element
  <2> DEFINE m == [s EXCEPT !.at = "spec", !.element = t.n]
  <2>2. n = m
    BY <1>1, <1>3, SameKinds DEF Ref!Read
  <2>3. Shape(m) /\ m.at = "spec" /\ m.groups = s.groups
    BY <1>1 DEF Shape, Ref!Start
  <2>4. r.role = "ELEMENT_NAME" /\ r.state.handler = "element1" /\ r.state.level = st.level
    BY <2>1 DEF To, Stay, PrologStates
  <2> HIDE DEF r, n, m
  <2>5. Position(r.state, n) /\ SeparatorsKept(s.groups, n.groups) /\ Len(n.groups) <= Len(s.groups)
    BY <1>1, <2>2, <2>3, <2>4 DEF Position, Place, ElementDecl, Groups, Flat, Deep, SeparatorsKept
  <2> QED
    BY <2>4, <2>5, MovedInStep DEF r, n
<1>4. CASE t.k \notin QName
  <2>1. r.role = "ERROR"
    BY <1>2, <1>4 DEF element
  <2>2. n = [s EXCEPT !.at = "bad"]
    BY <1>1, <1>4, SameKinds DEF Ref!Read
  <2> QED
    BY <1>1, <2>1, <2>2, RefusedInStep
<1> QED
  BY <1>3, <1>4

LEMMA SpecInStep ==
  ASSUME NEW st \in PrologStates, NEW t, NEW s, Position(st, s), Unskipped(st, t.k),
         st.handler = "element1"
  PROVE  InStep(st, s, XmlTokenRole(st, t.k), Ref!Read(s, t))
<1> DEFINE r == XmlTokenRole(st, t.k)
           n == Ref!Read(s, t)
<1>1. s.at = "spec" /\ Shape(s) /\ s.groups = <<>>
  BY DEF Position, Place, Groups, Flat, Deep
<1>2. r = element(st, t.k) /\ (element(st, t.k) = common(st, t.k) => common(st, t.k).role = "ERROR")
  BY ElementToken DEF ElementDecl
<1>3. CASE t.k \in {"EMPTY", "ANY"}
  <2>1. r.role \in {"CONTENT_EMPTY", "CONTENT_ANY"} /\ r.state.handler = "declClose"
    BY <1>2, <1>3 DEF element, ToClose, Stay, PrologStates
  <2> DEFINE m == [s EXCEPT !.at = "end", !.nodes = 1,
                            !.content = Ref!Tree(t.k, "NONE", "-", <<>>)]
  <2>2. n = m
    BY <1>1, <1>3 DEF Ref!Read
  <2>3. Shape(m) /\ m.at = "end" /\ m.groups = s.groups
    BY <1>1 DEF Shape, Ref!Start
  <2> HIDE DEF r, n, m
  <2>4. Position(r.state, n) /\ SeparatorsKept(s.groups, n.groups) /\ Len(n.groups) <= Len(s.groups)
    BY <1>1, <2>1, <2>2, <2>3 DEF Position, Place, ElementDecl, Groups, Flat, Deep, SeparatorsKept
  <2> QED
    BY <2>1, <2>4, MovedInStep DEF r, n
<1>4. CASE t.k = "OPEN_PAREN"
  <2>1. r.role = "GROUP_OPEN" /\ r.state.handler = "element2" /\ r.state.level = 1
    <3>1. r = To([st EXCEPT !.level = 1], "element2", "GROUP_OPEN")
      BY <1>2, <1>4 DEF element
    <3> QED
      BY <3>1, OpensAt
  <2>2. n = Ref!ReadOpen(s, "first")
    BY <1>1, <1>4 DEF Ref!Read
  <2>3. r.state.level = Len(s.groups) + 1 /\ Place(r.state.handler) = "first"
    BY <1>1, <2>1 DEF Place
  <2> HIDE DEF r, n
  <2>4. InStep(st, s, r, n)
    BY <1>1, <2>1, <2>2, <2>3, OpenedInStep
  <2> QED
    BY <2>4 DEF r, n
<1>5. CASE t.k \notin {"EMPTY", "ANY", "OPEN_PAREN"}
  <2>1. r.role = "ERROR"
    BY <1>2, <1>5 DEF element
  <2>2. n = [s EXCEPT !.at = "bad"]
    BY <1>1, <1>5 DEF Ref!Read
  <2> QED
    BY <1>1, <2>1, <2>2, RefusedInStep
<1> QED
  BY <1>3, <1>4, <1>5

(* A leaf is read, into element5 or element7.                                *)
LEMMA LeafInStep ==
  ASSUME NEW st \in PrologStates, NEW t, NEW s, Position(st, s), st.handler \in Groups,
         NEW r, NEW h, NEW at, r = To(st, h, ContentRole(t.k)),
         h \in {"element5", "element7"}, h = "element5" => st.handler \in Flat, at = Place(h)
  PROVE  InStep(st, s, r, Ref!ReadLeaf(s, t, at))
<1> DEFINE n == Ref!ReadLeaf(s, t, at)
<1>1. Shape(s) /\ Len(s.groups) = st.level /\ st.level >= 1 /\ st.level \in Nat
  BY DEF Position, PrologStates
<1>2. s.groups # <<>>
  <2>1. s.groups = <<>> => Len(s.groups) = 0
    OBVIOUS
  <2> QED
    BY <1>1, <2>1
<1>3. /\ Shape(n) /\ n.at = at /\ Len(n.groups) = Len(s.groups)
      /\ SeparatorsKept(s.groups, n.groups) /\ n.groups[Len(s.groups)].children # <<>>
  BY <1>1, <1>2, LeafReads
<1>4. /\ r.role \in ContentRoles /\ r.state.handler = h /\ r.state.level = st.level
  BY QuantifiedRoles DEF To, Stay, PrologStates
<1> HIDE DEF n
<1>5. st.handler \in Flat => st.level = 1
  BY DEF Position
<1>6. Position(r.state, n)
  BY <1>1, <1>3, <1>4, <1>5 DEF Position, ElementDecl, Groups, Flat, Deep
<1>7. r.role \notin {"ERROR", "GROUP_OPEN", "GROUP_SEQUENCE", "GROUP_CHOICE"}
  BY <1>4 DEF ContentRoles
<1>8. Len(n.groups) <= Len(s.groups)
  BY <1>1, <1>3
<1> QED
  BY <1>3, <1>6, <1>7, <1>8, MovedInStep DEF n

(* The innermost group ends.                                                 *)
LEMMA EndInStep ==
  ASSUME NEW st \in PrologStates, NEW t, NEW s, Position(st, s), st.handler \in Groups,
         NEW r, NEW type, r.role \in CloseRoles,
         st.level = 1 => r.state.handler = "declClose",
         st.level > 1 => r.state.handler = "element7" /\ r.state.level = st.level - 1
  PROVE  InStep(st, s, r, Ref!ReadEnd(s, type, t))
<1> DEFINE n == Ref!ReadEnd(s, type, t)
<1>1. Shape(s) /\ Len(s.groups) = st.level /\ st.level >= 1 /\ st.level \in Nat
  BY DEF Position, PrologStates
<1>2. s.groups # <<>>
  <2>1. s.groups = <<>> => Len(s.groups) = 0
    OBVIOUS
  <2> QED
    BY <1>1, <2>1
<1>3. /\ Shape(n)
      /\ Len(s.groups) = 1 => n.at = "end" /\ n.groups = <<>>
      /\ Len(s.groups) > 1 =>
           /\ n.at = "next" /\ Len(n.groups) = Len(s.groups) - 1
           /\ SeparatorsKept(s.groups, n.groups)
  BY <1>1, <1>2, EndReads
<1> HIDE DEF n
<1>4. r.role \notin {"ERROR", "GROUP_OPEN", "GROUP_SEQUENCE", "GROUP_CHOICE"}
  BY DEF CloseRoles
<1>5. CASE st.level = 1
  <2>1. Position(r.state, n)
    BY <1>1, <1>3, <1>5 DEF Position, Place, ElementDecl, Groups, Flat, Deep
  <2>2. SeparatorsKept(s.groups, n.groups) /\ Len(n.groups) <= Len(s.groups)
    BY <1>1, <1>3, <1>5 DEF SeparatorsKept
  <2> QED
    BY <1>4, <2>1, <2>2, MovedInStep DEF n
<1>6. CASE st.level > 1
  <2>1. Position(r.state, n)
    BY <1>1, <1>3, <1>6 DEF Position, Place, ElementDecl, Groups, Flat, Deep
  <2>2. SeparatorsKept(s.groups, n.groups) /\ Len(n.groups) <= Len(s.groups)
    BY <1>1, <1>3, <1>6
  <2> QED
    BY <1>4, <2>1, <2>2, MovedInStep DEF n
<1> QED
  BY <1>1, <1>5, <1>6

LEMMA FirstInStep ==
  ASSUME NEW st \in PrologStates, NEW t, NEW s, Position(st, s), Unskipped(st, t.k),
         st.handler = "element2"
  PROVE  InStep(st, s, XmlTokenRole(st, t.k), Ref!Read(s, t))
<1> DEFINE r == XmlTokenRole(st, t.k)
           n == Ref!Read(s, t)
<1>1. /\ s.at = "first" /\ Shape(s) /\ Len(s.groups) = st.level /\ st.level = 1
      /\ s.groups[1].children = <<>>
  BY DEF Position, Place, Groups, Flat
<1>2. r = element(st, t.k) /\ (element(st, t.k) = common(st, t.k) => common(st, t.k).role = "ERROR")
  BY ElementToken DEF ElementDecl
<1>3. CASE t.k = "#PCDATA"
  <2>1. r.role = "CONTENT_PCDATA" /\ r.state.handler = "element3" /\ r.state.level = st.level
    <3>1. r = To(st, "element3", "CONTENT_PCDATA")
      BY <1>2, <1>3 DEF element, Particle, QName, Name, AttributeTypes
    <3> QED
      BY <3>1 DEF To, Stay, PrologStates
  <2> DEFINE m == [s EXCEPT !.at = "mixed"]
  <2>2. n = m
    BY <1>1, <1>3, SameKinds DEF Ref!Read, Particle, QName, Name, AttributeTypes
  <2>3. Shape(m) /\ m.at = "mixed" /\ m.groups = s.groups
    BY <1>1 DEF Shape, Ref!Start
  <2> HIDE DEF r, n, m
  <2>4. Position(r.state, n) /\ SeparatorsKept(s.groups, n.groups) /\ Len(n.groups) <= Len(s.groups)
    BY <1>1, <2>1, <2>2, <2>3 DEF Position, Place, ElementDecl, Groups, Flat, Deep, SeparatorsKept
  <2> QED
    BY <2>1, <2>4, MovedInStep DEF r, n
<1>4. CASE t.k = "OPEN_PAREN"
  <2>1. r.role = "GROUP_OPEN" /\ r.state.handler = "element6" /\ r.state.level = 2
    <3>1. r = To([st EXCEPT !.level = 2], "element6", "GROUP_OPEN")
      BY <1>2, <1>4 DEF element, Particle, QName, Name, AttributeTypes
    <3> QED
      BY <3>1, OpensAt
  <2>2. n = Ref!ReadOpen(s, "item")
    BY <1>1, <1>4, SameKinds DEF Ref!Read, Particle, QName, Name, AttributeTypes
  <2>3. r.state.level = Len(s.groups) + 1 /\ Place(r.state.handler) = "item"
    BY <1>1, <2>1 DEF Place
  <2> HIDE DEF r, n
  <2>4. InStep(st, s, r, n)
    BY <1>1, <2>1, <2>2, <2>3, OpenedInStep
  <2> QED
    BY <2>4 DEF r, n
<1>5. CASE t.k \in Particle
  <2>1. r = To(st, "element7", ContentRole(t.k))
    BY <1>2, <1>5 DEF element, Particle, QName, Name, AttributeTypes
  <2>2. n = Ref!ReadLeaf(s, t, "next")
    BY <1>1, <1>5, SameKinds DEF Ref!Read, Particle, QName, Name, AttributeTypes
  <2>3. st.handler \in Groups /\ "next" = Place("element7")
    BY DEF Groups, Flat, Place
  <2> HIDE DEF r, n
  <2>4. InStep(st, s, r, n)
    BY <2>1, <2>2, <2>3, LeafInStep
  <2> QED
    BY <2>4 DEF r, n
<1>6. CASE t.k \notin {"#PCDATA", "OPEN_PAREN"} \cup Particle
  <2>1. r.role = "ERROR"
    BY <1>2, <1>6 DEF element
  <2>2. n = [s EXCEPT !.at = "bad"]
    BY <1>1, <1>6, SameKinds DEF Ref!Read
  <2> QED
    BY <1>1, <2>1, <2>2, RefusedInStep
<1> QED
  BY <1>3, <1>4, <1>5, <1>6

LEMMA MixedInStep ==
  ASSUME NEW st \in PrologStates, NEW t, NEW s, Position(st, s), Unskipped(st, t.k),
         st.handler \in {"element3", "element5"}
  PROVE  InStep(st, s, XmlTokenRole(st, t.k), Ref!Read(s, t))
<1> DEFINE r == XmlTokenRole(st, t.k)
           n == Ref!Read(s, t)
<1>1. /\ s.at = "mixed" /\ Shape(s) /\ Len(s.groups) = st.level /\ st.level = 1
      /\ st.handler = "element3" <=> s.groups[1].children = <<>>
  BY DEF Position, Place, Groups, Flat
<1>2. r = element(st, t.k) /\ (element(st, t.k) = common(st, t.k) => common(st, t.k).role = "ERROR")
  BY ElementToken DEF ElementDecl
<1>3. CASE \/ t.k = "CLOSE_PAREN_ASTERISK"
           \/ t.k = "CLOSE_PAREN" /\ st.handler = "element3"
  <2>1. r.role \in CloseRoles /\ r.state.handler = "declClose"
    <3>1. CASE t.k = "CLOSE_PAREN_ASTERISK"
      <4>1. r = ToClose(st, "ELEMENT_NONE", "GROUP_CLOSE_REP")
        BY <1>2, <3>1 DEF element
      <4> QED
        BY <4>1, ClosesAt DEF CloseRoles
    <3>2. CASE t.k = "CLOSE_PAREN" /\ st.handler = "element3"
      <4>1. r = ToClose(st, "ELEMENT_NONE", "GROUP_CLOSE")
        BY <1>2, <3>2 DEF element
      <4> QED
        BY <4>1, ClosesAt DEF CloseRoles
    <3> QED
      BY <1>3, <3>1, <3>2
  <2>2. n = Ref!ReadEnd(s, "MIXED", t)
    BY <1>1, <1>3 DEF Ref!Read
  <2>3. st.handler \in Groups
    BY DEF Groups, Flat
  <2> HIDE DEF r, n
  <2>4. InStep(st, s, r, n)
    BY <1>1, <2>1, <2>2, <2>3, EndInStep
  <2> QED
    BY <2>4 DEF r, n
<1>4. CASE t.k = "OR"
  <2>1. r.role = "ELEMENT_NONE" /\ r.state.handler = "element4" /\ r.state.level = st.level
    BY <1>2, <1>4 DEF element, To, Stay, PrologStates
  <2> DEFINE m == [s EXCEPT !.at = "mixedName"]
  <2>2. n = m
    BY <1>1, <1>4 DEF Ref!Read
  <2>3. Shape(m) /\ m.at = "mixedName" /\ m.groups = s.groups
    BY <1>1 DEF Shape, Ref!Start
  <2> HIDE DEF r, n, m
  <2>4. Position(r.state, n) /\ SeparatorsKept(s.groups, n.groups) /\ Len(n.groups) <= Len(s.groups)
    BY <1>1, <2>1, <2>2, <2>3 DEF Position, Place, ElementDecl, Groups, Flat, Deep, SeparatorsKept
  <2> QED
    BY <2>1, <2>4, MovedInStep DEF r, n
<1>5. CASE /\ t.k \notin {"CLOSE_PAREN_ASTERISK", "OR"}
           /\ ~(t.k = "CLOSE_PAREN" /\ st.handler = "element3")
  <2>1. r.role = "ERROR"
    BY <1>2, <1>5 DEF element
  <2>2. n = [s EXCEPT !.at = "bad"]
    BY <1>1, <1>5 DEF Ref!Read
  <2> QED
    BY <1>1, <2>1, <2>2, RefusedInStep
<1> QED
  BY <1>3, <1>4, <1>5

LEMMA MixedNameInStep ==
  ASSUME NEW st \in PrologStates, NEW t, NEW s, Position(st, s), Unskipped(st, t.k),
         st.handler = "element4"
  PROVE  InStep(st, s, XmlTokenRole(st, t.k), Ref!Read(s, t))
<1> DEFINE r == XmlTokenRole(st, t.k)
           n == Ref!Read(s, t)
<1>1. s.at = "mixedName" /\ Shape(s)
  BY DEF Position, Place
<1>2. r = element(st, t.k) /\ (element(st, t.k) = common(st, t.k) => common(st, t.k).role = "ERROR")
  BY ElementToken DEF ElementDecl
<1>3. CASE t.k \in QName
  <2>1. r = To(st, "element5", ContentRole(t.k))
    <3>1. ContentRole(t.k) = "CONTENT_ELEMENT"
      BY <1>3 DEF ContentRole, QName, Name, AttributeTypes
    <3> QED
      BY <1>2, <1>3, <3>1 DEF element
  <2>2. n = Ref!ReadLeaf(s, t, "mixed")
    BY <1>1, <1>3, SameKinds DEF Ref!Read
  <2>3. st.handler \in Groups /\ st.handler \in Flat /\ "mixed" = Place("element5")
    BY DEF Groups, Flat, Place
  <2> HIDE DEF r, n
  <2>4. InStep(st, s, r, n)
    BY <2>1, <2>2, <2>3, LeafInStep
  <2> QED
    BY <2>4 DEF r, n
<1>4. CASE t.k \notin QName
  <2>1. r.role = "ERROR"
    BY <1>2, <1>4 DEF element
  <2>2. n = [s EXCEPT !.at = "bad"]
    BY <1>1, <1>4, SameKinds DEF Ref!Read
  <2> QED
    BY <1>1, <2>1, <2>2, RefusedInStep
<1> QED
  BY <1>3, <1>4

LEMMA ItemInStep ==
  ASSUME NEW st \in PrologStates, NEW t, NEW s, Position(st, s), Unskipped(st, t.k),
         st.handler = "element6"
  PROVE  InStep(st, s, XmlTokenRole(st, t.k), Ref!Read(s, t))
<1> DEFINE r == XmlTokenRole(st, t.k)
           n == Ref!Read(s, t)
<1>1. s.at = "item" /\ Shape(s) /\ Len(s.groups) = st.level
  BY DEF Position, Place, Groups, Deep
<1>2. r = element(st, t.k) /\ (element(st, t.k) = common(st, t.k) => common(st, t.k).role = "ERROR")
  BY ElementToken DEF ElementDecl
<1>3. CASE t.k = "OPEN_PAREN"
  <2>1. r.role = "GROUP_OPEN" /\ r.state.handler = "element6" /\ r.state.level = st.level + 1
    <3>1. r = Stay([st EXCEPT !.level = @ + 1], "GROUP_OPEN")
      BY <1>2, <1>3 DEF element, Particle, QName, Name, AttributeTypes
    <3> QED
      BY <3>1 DEF Stay, PrologStates
  <2>2. n = Ref!ReadOpen(s, "item")
    BY <1>1, <1>3, SameKinds DEF Ref!Read, Particle, QName, Name, AttributeTypes
  <2>3. r.state.level = Len(s.groups) + 1 /\ Place(r.state.handler) = "item"
    BY <1>1, <2>1 DEF Place
  <2> HIDE DEF r, n
  <2>4. InStep(st, s, r, n)
    BY <1>1, <2>1, <2>2, <2>3, OpenedInStep
  <2> QED
    BY <2>4 DEF r, n
<1>4. CASE t.k \in Particle
  <2>1. r = To(st, "element7", ContentRole(t.k))
    BY <1>2, <1>4 DEF element, Particle, QName, Name, AttributeTypes
  <2>2. n = Ref!ReadLeaf(s, t, "next")
    BY <1>1, <1>4, SameKinds DEF Ref!Read, Particle, QName, Name, AttributeTypes
  <2>3. st.handler \in Groups /\ "next" = Place("element7")
    BY DEF Groups, Deep, Place
  <2> HIDE DEF r, n
  <2>4. InStep(st, s, r, n)
    BY <2>1, <2>2, <2>3, LeafInStep
  <2> QED
    BY <2>4 DEF r, n
<1>5. CASE t.k \notin {"OPEN_PAREN"} \cup Particle
  <2>1. r.role = "ERROR"
    BY <1>2, <1>5 DEF element
  <2>2. n = [s EXCEPT !.at = "bad"]
    BY <1>1, <1>5, SameKinds DEF Ref!Read
  <2> QED
    BY <1>1, <2>1, <2>2, RefusedInStep
<1> QED
  BY <1>3, <1>4, <1>5

(* After an item: the group ends, or a separator announces the next one.     *)
LEMMA SeparatorInStep ==
  ASSUME NEW st \in PrologStates, NEW s, Position(st, s), st.handler = "element7",
         NEW t, t.k \in {"COMMA", "OR"},
         NEW r, r.role = IF t.k = "COMMA" THEN "GROUP_SEQUENCE" ELSE "GROUP_CHOICE",
         r.state.handler = "element6", r.state.level = st.level
  PROVE  InStep(st, s, r, Ref!Read(s, t))
<1> DEFINE n == Ref!Read(s, t)
           g == s.groups[st.level]
<1>1. /\ s.at = "next" /\ Shape(s) /\ Len(s.groups) = st.level /\ st.level >= 1
      /\ st.level \in Nat
  BY DEF Position, Place, Groups, Deep, PrologStates
<1>2. s.groups # <<>>
  <2>1. s.groups = <<>> => Len(s.groups) = 0
    OBVIOUS
  <2> QED
    BY <1>1, <2>1
<1>3. Ref!Last(s.groups) = g
  BY <1>1 DEF Ref!Last
<1>4. ASSUME g.separator \notin {"none", t.k} PROVE n.at = "bad"
  <2>1. n = [s EXCEPT !.at = "bad"]
    BY <1>1, <1>3, <1>4, SameKinds DEF Ref!Read, Ref!Accepts, GroupEnd
  <2> QED
    BY <1>1, <2>1 DEF Shape, Ref!Start
<1>5. ASSUME g.separator \in {"none", t.k}
      PROVE  /\ Position(r.state, n) /\ n.groups[st.level].separator = t.k
             /\ \A l \in 1..st.level - 1 : n.groups[l].separator = s.groups[l].separator
  <2> DEFINE m == [s EXCEPT !.at = "item", !.groups[Len(s.groups)].separator = t.k]
  <2>1. n = m
    BY <1>1, <1>3, <1>5, SameKinds DEF Ref!Read, Ref!Accepts, GroupEnd
  <2>2. t.k \in Separated
    BY DEF Separated
  <2>3. /\ Shape(m) /\ m.at = "item" /\ Len(m.groups) = Len(s.groups)
        /\ m.groups[Len(s.groups)].separator = t.k
        /\ \A l \in 1..Len(s.groups) - 1 : m.groups[l] = s.groups[l]
    BY <1>1, <1>2, <2>2, SeparatorReads
  <2> HIDE DEF n, m
  <2>4. Position(r.state, n)
    BY <1>1, <2>1, <2>3 DEF Position, Place, ElementDecl, Groups, Flat, Deep
  <2> QED
    BY <1>1, <2>1, <2>3, <2>4
<1> HIDE DEF n
<1>6. ReadsSeparator(st, s, r, n, t.k)
  BY <1>4, <1>5 DEF ReadsSeparator
<1> QED
  BY <1>6 DEF InStep, n

LEMMA NextInStep ==
  ASSUME NEW st \in PrologStates, NEW t, NEW s, Position(st, s), Unskipped(st, t.k),
         st.handler = "element7"
  PROVE  InStep(st, s, XmlTokenRole(st, t.k), Ref!Read(s, t))
<1> DEFINE r == XmlTokenRole(st, t.k)
           n == Ref!Read(s, t)
<1>1. s.at = "next" /\ Shape(s) /\ st.level >= 1 /\ st.level \in Nat
  BY DEF Position, Place, Groups, Deep, PrologStates
<1>2. r = element(st, t.k) /\ (element(st, t.k) = common(st, t.k) => common(st, t.k).role = "ERROR")
  BY ElementToken DEF ElementDecl
<1>3. CASE t.k \in GroupEnd
  <2>1. r = closeGroup(st, t.k)
    BY <1>2, <1>3 DEF element, GroupEnd
  <2>2. /\ r.role \in CloseRoles
        /\ st.level = 1 => r.state.handler = "declClose"
        /\ st.level > 1 => r.state.handler = "element7" /\ r.state.level = st.level - 1
    BY <2>1, QuantifiedRoles DEF closeGroup, ToClose, Stay, PrologStates
  <2> DEFINE type == IF Ref!Last(s.groups).separator = "OR" THEN "CHOICE" ELSE "SEQ"
  <2>3. n = Ref!ReadEnd(s, type, t)
    BY <1>1, <1>3, SameKinds DEF Ref!Read, GroupEnd
  <2>4. st.handler \in Groups
    BY DEF Groups, Deep
  <2> HIDE DEF r, n, type
  <2>5. InStep(st, s, r, n)
    BY <2>2, <2>3, <2>4, EndInStep
  <2> QED
    BY <2>5 DEF r, n
<1>4. CASE t.k \in {"COMMA", "OR"}
  <2>1. /\ r.role = IF t.k = "COMMA" THEN "GROUP_SEQUENCE" ELSE "GROUP_CHOICE"
        /\ r.state.handler = "element6" /\ r.state.level = st.level
    BY <1>2, <1>4 DEF element, GroupEnd, To, Stay, PrologStates
  <2> HIDE DEF r
  <2>2. InStep(st, s, r, n)
    BY <1>4, <2>1, SeparatorInStep
  <2> QED
    BY <2>2 DEF r
<1>5. CASE t.k \notin {"COMMA", "OR"} \cup GroupEnd
  <2>1. r.role = "ERROR"
    BY <1>2, <1>5 DEF element
  <2>2. n = [s EXCEPT !.at = "bad"]
    BY <1>1, <1>5, SameKinds DEF Ref!Read
  <2> QED
    BY <1>1, <2>1, <2>2, RefusedInStep
<1> QED
  BY <1>3, <1>4, <1>5

LEMMA CloseInStep ==
  ASSUME NEW st \in PrologStates, NEW t, NEW s, Position(st, s), Unskipped(st, t.k),
         st.handler = "declClose"
  PROVE  InStep(st, s, XmlTokenRole(st, t.k), Ref!Read(s, t))
<1> DEFINE r == XmlTokenRole(st, t.k)
           n == Ref!Read(s, t)
<1>1. s.at = "end" /\ Shape(s) /\ s.groups = <<>>
  BY DEF Position, Place, Groups, Flat, Deep
<1>2. r = declClose(st, t.k)
  BY DEF Unskipped, XmlTokenRole, Prolog, Doctype, Subset, EntityDecl, NotationDecl, AttlistDecl,
     ElementDecl
<1>3. CASE t.k = "DECL_CLOSE"
  <2>1. r.role \in NoneRoles /\ r.state.handler \in TopHandlers
    BY <1>2, <1>3 DEF declClose, setTopLevel, To, Stay, PrologStates, TopHandlers
  <2> DEFINE m == [s EXCEPT !.at = "done"]
  <2>2. n = m
    BY <1>1, <1>3 DEF Ref!Read
  <2>3. Shape(m) /\ m.at = "done" /\ m.groups = s.groups
    BY <1>1 DEF Shape, Ref!Start
  <2> HIDE DEF r, n, m
  <2>4. Position(r.state, n)
    BY <2>1, <2>2, <2>3 DEF Position, Place, TopHandlers, ElementDecl, Groups, Flat, Deep
  <2>5. SeparatorsKept(s.groups, n.groups) /\ Len(n.groups) <= Len(s.groups)
    BY <1>1, <2>2, <2>3 DEF SeparatorsKept
  <2> QED
    BY <2>1, <2>4, <2>5, MovedInStep DEF r, n, NoneRoles
<1>4. CASE t.k # "DECL_CLOSE"
  <2>1. r = common(st, t.k)
    BY <1>2, <1>4 DEF declClose
  <2>2. r.role = "ERROR"
    BY <2>1 DEF Unskipped, common, Stay, To
  <2>3. n = [s EXCEPT !.at = "bad"]
    BY <1>1, <1>4 DEF Ref!Read
  <2> QED
    BY <1>1, <2>2, <2>3, RefusedInStep
<1> QED
  BY <1>3, <1>4

(* The automaton and the reference, token by token.                          *)
LEMMA StepsAgree ==
  ASSUME NEW st \in PrologStates, NEW t, NEW s, Position(st, s), Unskipped(st, t.k),
         st.handler \notin TopHandlers
  PROVE  InStep(st, s, XmlTokenRole(st, t.k), Ref!Read(s, t))
BY NameInStep, SpecInStep, FirstInStep, MixedInStep, MixedNameInStep, ItemInStep, NextInStep,
   CloseInStep DEF Position, ElementDecl

-----------------------------------------------------------------------------
(* The inductive invariant: while no error has occurred, an element          *)
(* declaration has been read as far by the automaton as by the reference,    *)
(* and m_groupConnector holds the separators of the groups that are open.    *)
Separator(connector) ==
  CASE connector = "comma" -> "COMMA" [] connector = "pipe" -> "OR" [] OTHER -> "none"

Follows(st, connectors, s) ==
  /\ Position(st, s)
  /\ st.handler \in Groups =>
       \A l \in 1..st.level : s.groups[l].separator = Separator(connectors[l])

SyntaxInv ==
  /\ decl \in Seq(Tokens)
  /\ error = "NONE" /\ decl = <<>> => state.handler \in TopHandlers
  /\ error = "NONE" /\ IsElementDecl => Follows(state, groupConnector, Declaration)
  /\ RefusedForSyntax

(* White space and references to parameter entities move no declaration on.  *)
LEMMA SkipStays ==
  ASSUME NEW st \in PrologStates, NEW tok \in {"S", "PARAM_ENTITY_REF"},
         XmlTokenRole(st, tok).role # "ERROR",
         st.handler \in ElementDecl \cup {"declClose"} \cup TopHandlers
  PROVE  LET r == XmlTokenRole(st, tok)
         IN  /\ r.role \notin ElementRoles
             /\ r.state # st => st.handler \in TopHandlers /\ r.state.handler \in TopHandlers
<1> DEFINE r == XmlTokenRole(st, tok)
<1>0. r.role # "ERROR" /\ r = XmlTokenRole(st, tok)
  OBVIOUS
<1> HIDE DEF r
<1> SUFFICES /\ r.role \notin ElementRoles
             /\ r.state # st => st.handler \in TopHandlers /\ r.state.handler \in TopHandlers
  BY <1>0
<1>1. CASE tok = "S"
  <2>1. r = Space(st)
    BY <1>0, <1>1 DEF XmlTokenRole
  <2>2. CASE st.handler \in ElementDecl
    <3>1. r = Stay(st, "ELEMENT_NONE")
      BY <2>1, <2>2 DEF Space, ElementDecl, Doctype, EntityDecl, NotationDecl, AttlistDecl
    <3> QED
      BY <3>1 DEF Stay, ElementRoles
  <2>3. CASE st.handler = "declClose"
    <3>1. r = Stay(st, st.role_none)
      BY <2>1, <2>3 DEF Space, ElementDecl, Doctype, EntityDecl, NotationDecl, AttlistDecl
    <3>2. st.role_none \in NoneRoles
      BY DEF PrologStates
    <3> QED
      BY <3>1, <3>2 DEF Stay, ElementRoles, NoneRoles
  <2>4. CASE st.handler \in TopHandlers
    BY <2>1, <2>4 DEF Space, Stay, To, ElementRoles, ElementDecl, Doctype, EntityDecl, NotationDecl,
       AttlistDecl, PrologStates, TopHandlers
  <2> QED
    BY <2>2, <2>3, <2>4
<1>2. ASSUME r = common(st, tok) PROVE r.role \notin ElementRoles /\ r.state = st
  <2>1. r = Stay(st, "INNER_PARAM_ENTITY_REF") \/ r = To(st, "error", "ERROR")
    BY <1>2 DEF common
  <2>2. r = Stay(st, "INNER_PARAM_ENTITY_REF")
    BY <1>0, <2>1 DEF To, Stay
  <2> QED
    BY <2>2 DEF Stay, ElementRoles
<1>3. CASE tok = "PARAM_ENTITY_REF"
  <2>1. CASE st.handler \in ElementDecl
    <3>1. r = element(st, tok)
      BY <1>0, <1>3, <2>1 DEF XmlTokenRole, Prolog, Doctype, Subset, EntityDecl, NotationDecl, AttlistDecl,
         ElementDecl
    <3>2. element(st, tok) = common(st, tok)
      BY <1>3 DEF element, Particle, QName, Name, AttributeTypes, GroupEnd
    <3> QED
      BY <1>2, <3>1, <3>2
  <2>2. CASE st.handler = "declClose"
    <3>1. r = declClose(st, tok)
      BY <1>0, <1>3, <2>2 DEF XmlTokenRole, Prolog, Doctype, Subset, EntityDecl, NotationDecl, AttlistDecl,
         ElementDecl
    <3>2. declClose(st, tok) = common(st, tok)
      BY <1>3 DEF declClose
    <3> QED
      BY <1>2, <3>1, <3>2
  <2>3. CASE st.handler \in TopHandlers
    <3> DEFINE st1 == [st EXCEPT !.handler = "externalSubset1"]
    <3>1. \A x : internalSubset(x, tok) = Stay(x, "PARAM_ENTITY_REF")
      BY <1>3 DEF internalSubset
    <3>2. \A x : externalSubset1(x, tok) = Stay(x, "PARAM_ENTITY_REF")
      BY <1>3, <3>1 DEF externalSubset1
    <3>3. externalSubset0(st, tok) = Stay(st1, "PARAM_ENTITY_REF")
      BY <1>3, <3>2 DEF externalSubset0
    <3>4. r = Stay(st, "PARAM_ENTITY_REF") \/ r = Stay(st1, "PARAM_ENTITY_REF")
      BY <1>0, <1>3, <2>3, <3>1, <3>2, <3>3 DEF XmlTokenRole, Prolog, Doctype, Subset, EntityDecl,
         NotationDecl, AttlistDecl, ElementDecl, TopHandlers
    <3>5. st1.handler = "externalSubset1"
      BY DEF PrologStates
    <3> HIDE DEF st1
    <3> QED
      BY <2>3, <3>4, <3>5 DEF Stay, TopHandlers, ElementRoles
  <2> QED
    BY <2>1, <2>2, <2>3
<1> QED
  BY <1>1, <1>3

(* A declaration begins at the top level of a subset.                        *)
LEMMA ElementBegins ==
  ASSUME NEW st \in PrologStates, st.handler \in TopHandlers
  PROVE  LET r == XmlTokenRole(st, "<!ELEMENT")
         IN  r.role = "ELEMENT_NONE" /\ r.state.handler = "element0"
<1> DEFINE r == XmlTokenRole(st, "<!ELEMENT")
           st1 == [st EXCEPT !.handler = "externalSubset1"]
<1>1. \A x : internalSubset(x, "<!ELEMENT") = To(x, "element0", "ELEMENT_NONE")
  BY DEF internalSubset
<1>2. \A x : externalSubset1(x, "<!ELEMENT") = To(x, "element0", "ELEMENT_NONE")
  BY <1>1 DEF externalSubset1
<1>3. externalSubset0(st, "<!ELEMENT") = To(st1, "element0", "ELEMENT_NONE")
  BY <1>2 DEF externalSubset0
<1>4. r = To(st, "element0", "ELEMENT_NONE") \/ r = To(st1, "element0", "ELEMENT_NONE")
  BY <1>1, <1>2, <1>3 DEF XmlTokenRole, Prolog, Doctype, Subset, EntityDecl, NotationDecl,
     AttlistDecl, ElementDecl, TopHandlers
<1>5. st1 \in PrologStates
  BY DEF PrologStates, Handlers, Subset
<1> HIDE DEF st1, r
<1>6. \A x \in PrologStates : LET q == To(x, "element0", "ELEMENT_NONE")
                              IN  q.role = "ELEMENT_NONE" /\ q.state.handler = "element0"
  BY DEF To, Stay, PrologStates
<1> QED
  BY <1>4, <1>5, <1>6 DEF r

(* What the reference makes of the next state's tokens.                      *)
LEMMA NextDeclaration == \A w : decl' = w => Declaration' = Ref!Declared(w)
<1>1. \A w : decl = w => Ref!Declared(decl) = Ref!Declared(w)
  OBVIOUS
<1>2. (\A w : decl = w => Ref!Declared(decl) = Ref!Declared(w))'
  BY <1>1, PTL
<1> QED
  BY <1>2 DEF Declaration

(* White space is no error.                                                  *)
LEMMA SpaceRole ==
  ASSUME NEW st \in PrologStates
  PROVE  XmlTokenRole(st, "S").role # "ERROR"
<1>1. XmlTokenRole(st, "S") = Space(st)
  BY DEF XmlTokenRole
<1>2. st.role_none # "ERROR"
  BY DEF PrologStates, NoneRoles
<1> QED
  BY <1>1, <1>2 DEF Space, To, Stay

(* A token is read and recorded.  Unless its declaration is of another kind, *)
(* it begins a declaration, is skipped, or moves the automaton and the       *)
(* reference in step.                                                        *)
Unmoved(t) ==
  /\ Role(t) \notin ElementRoles \cup {"ERROR"}
  /\ Follows(state', groupConnector, Declaration')

LEMMA TokenLogged ==
  ASSUME IndInv, SyntaxInv, NEW t \in Tokens, Reads(t), Logged(t)
  PROVE  /\ decl' \in Seq(Tokens)
         /\ decl' = <<>> => state'.handler \in TopHandlers
         /\ IsElementDecl' =>
              \/ Unmoved(t)
              \/ /\ IsElementDecl /\ Follows(state, groupConnector, Declaration)
                 /\ InStep(state, Declaration, XmlTokenRole(state, t.k), Declaration')
<1> DEFINE r == XmlTokenRole(state, t.k)
<1>1. /\ state \in PrologStates /\ error = "NONE" /\ state' = r.state /\ Role(t) = r.role
      /\ decl \in Seq(Tokens) /\ (decl = <<>> => state.handler \in TopHandlers)
      /\ IsElementDecl => Follows(state, groupConnector, Declaration)
  BY DEF IndInv, TypeOK, SyntaxInv, Reads, Role
<1>2. TopLevel <=> state.handler \in TopHandlers
  BY DEF TopLevel, TopHandlers
<1> HIDE DEF r
<1>3. CASE Skipped(t)
  <2>1. decl' = decl /\ t.k \in {"S", "PARAM_ENTITY_REF"} /\ r.role # "ERROR"
    BY <1>1, <1>3 DEF Logged, Skipped
  <2>2. ASSUME state.handler \in ElementDecl \cup {"declClose"} \cup TopHandlers
        PROVE  /\ r.role \notin ElementRoles
               /\ r.state # state => state.handler \in TopHandlers /\ r.state.handler \in TopHandlers
    BY <1>1, <2>1, <2>2, SkipStays DEF r
  <2>3. decl' = <<>> => state'.handler \in TopHandlers
    BY <1>1, <2>1, <2>2
  <2>4. ASSUME IsElementDecl' PROVE Unmoved(t)
    <3>1. IsElementDecl /\ Declaration' = Declaration
      BY <2>1, <2>4 DEF IsElementDecl, Declaration
    <3>2. Follows(state, groupConnector, Declaration)
      BY <1>1, <3>1
    <3>3. state.handler \in ElementDecl \cup {"declClose"} \cup TopHandlers
      BY <3>2 DEF Follows, Position
    <3>4. ASSUME state.handler \in TopHandlers, r.state.handler \in TopHandlers
          PROVE  Follows(r.state, groupConnector, Declaration)
      BY <3>2, <3>4 DEF Follows, Position, Place, TopHandlers, Groups, Flat, Deep
    <3> QED
      BY <1>1, <2>1, <2>2, <3>1, <3>2, <3>3, <3>4 DEF Unmoved
  <2> QED
    BY <1>1, <2>1, <2>3, <2>4
<1>4. CASE ~Skipped(t) /\ TopLevel
  <2>1. decl' = <<t>>
    BY <1>4 DEF Logged
  <2>2. ASSUME IsElementDecl' PROVE Unmoved(t)
    <3>1. t.k = "<!ELEMENT"
      BY <2>1, <2>2 DEF IsElementDecl
    <3>2. r.role = "ELEMENT_NONE" /\ r.state.handler = "element0"
      BY <1>1, <1>2, <1>4, <3>1, ElementBegins DEF r
    <3>3. Declaration' = Ref!Read(Ref!Start, t)
      <4>1. Declaration' = Ref!Declared(<<t>>)
        BY <2>1, NextDeclaration
      <4> QED
        BY <1>1, <4>1, DeclaredAppend
    <3> DEFINE m == [Ref!Start EXCEPT !.at = "name"]
    <3>4. Ref!Read(Ref!Start, t) = m
      BY <3>1 DEF Ref!Read, Ref!Start
    <3>5. Shape(m) /\ m.at = "name" /\ m.groups = <<>>
      BY StartShape DEF Shape, Ref!Start
    <3> HIDE DEF m
    <3>6. Follows(r.state, groupConnector, m)
      BY <3>2, <3>5 DEF Follows, Position, Place, ElementDecl, Groups, Flat, Deep
    <3> QED
      BY <1>1, <3>2, <3>3, <3>4, <3>6 DEF Unmoved, ElementRoles
  <2> QED
    BY <2>1, <2>2
<1>5. CASE ~Skipped(t) /\ ~TopLevel
  <2>1. decl' = Append(decl, t) /\ decl # <<>>
    BY <1>1, <1>2, <1>5 DEF Logged
  <2>2. decl' \in Seq(Tokens) /\ decl' # <<>> /\ decl'[1] = decl[1]
    BY <1>1, <2>1
  <2>3. ASSUME IsElementDecl'
        PROVE  /\ IsElementDecl /\ Follows(state, groupConnector, Declaration)
               /\ InStep(state, Declaration, r, Declaration')
    <3>1. IsElementDecl
      BY <2>1, <2>2, <2>3 DEF IsElementDecl
    <3>2. Follows(state, groupConnector, Declaration)
      BY <1>1, <3>1
    <3>3. Declaration' = Ref!Read(Declaration, t)
      <4>1. Declaration' = Ref!Declared(Append(decl, t))
        BY <2>1, NextDeclaration
      <4> QED
        BY <1>1, <4>1, DeclaredAppend DEF Declaration
    <3>4. Unskipped(state, t.k)
      BY <1>1, <1>5, SpaceRole DEF Skipped, Unskipped, Role
    <3>5. Position(state, Declaration)
      BY <3>2 DEF Follows
    <3>6. InStep(state, Declaration, XmlTokenRole(state, t.k), Ref!Read(Declaration, t))
      BY <1>1, <1>2, <1>5, <3>4, <3>5, StepsAgree
    <3> QED
      BY <3>1, <3>2, <3>3, <3>6 DEF r
  <2> QED
    BY <2>2, <2>3 DEF r
<1> QED
  BY <1>3, <1>4, <1>5

-----------------------------------------------------------------------------
(* The steps.                                                                *)
LEMMA NextFollows ==
  Follows(state', groupConnector', Declaration') => Follows(state, groupConnector, Declaration)'
<1>1. \A st, c, s : state = st /\ groupConnector = c /\ Declaration = s /\ Follows(st, c, s)
                      => Follows(state, groupConnector, Declaration)
  OBVIOUS
<1>2. (\A st, c, s : state = st /\ groupConnector = c /\ Declaration = s /\ Follows(st, c, s)
                       => Follows(state, groupConnector, Declaration))'
  BY <1>1, PTL
<1> QED
  BY <1>2

LEMMA PositionNotBad ==
  ASSUME NEW st, NEW s, Position(st, s)
  PROVE  s.at # "bad"
BY DEF Position, Place

SyntaxErrors == {"SYNTAX", "PARAM_ENTITY_REF", "MISPLACED_XML_PI"}

(* What is left to show of a token that is read.                             *)
LEMMA Invariant ==
  ASSUME decl' \in Seq(Tokens), decl' = <<>> => state'.handler \in TopHandlers,
         IsElementDecl' =>
           /\ error' \in SyntaxErrors <=> Declaration'.at = "bad"
           /\ error' = "NONE" => Follows(state', groupConnector', Declaration')
  PROVE  SyntaxInv'
BY NextFollows DEF SyntaxInv, SyntaxErrors, RefusedForSyntax

LEMMA RefuseSyntax ==
  ASSUME IndInv, SyntaxInv, NEW t \in Tokens, Refuse(t)
  PROVE  SyntaxInv'
<1>1. Reads(t) /\ Logged(t) /\ Role(t) = "ERROR" /\ error' \in SyntaxErrors
  BY DEF Refuse, Fail, SyntaxErrors
<1>2. /\ decl' \in Seq(Tokens) /\ (decl' = <<>> => state'.handler \in TopHandlers)
      /\ IsElementDecl' =>
           \/ Unmoved(t)
           \/ /\ IsElementDecl /\ Follows(state, groupConnector, Declaration)
              /\ InStep(state, Declaration, XmlTokenRole(state, t.k), Declaration')
  BY <1>1, TokenLogged
<1>3. ASSUME IsElementDecl' PROVE Declaration'.at = "bad"
  BY <1>1, <1>2, <1>3 DEF Unmoved, InStep, Role
<1>4. error' # "NONE"
  BY <1>1 DEF SyntaxErrors
<1> QED
  BY <1>1, <1>2, <1>3, <1>4, Invariant

(* Roles that open no group and separate nothing.                            *)
LEMMA Continued ==
  ASSUME IndInv, SyntaxInv, NEW t \in Tokens, Reads(t), Logged(t),
         Role(t) \notin {"ERROR", "GROUP_OPEN", "GROUP_SEQUENCE", "GROUP_CHOICE"},
         groupConnector' = groupConnector, error' \in {"NONE", "NO_MEMORY"}
  PROVE  SyntaxInv'
<1> DEFINE r == XmlTokenRole(state, t.k)
<1>1. /\ decl' \in Seq(Tokens) /\ (decl' = <<>> => state'.handler \in TopHandlers)
      /\ IsElementDecl' =>
           \/ Unmoved(t)
           \/ /\ IsElementDecl /\ Follows(state, groupConnector, Declaration)
              /\ InStep(state, Declaration, r, Declaration')
  BY TokenLogged
<1>2. r.role = Role(t) /\ r.state = state'
  BY DEF Role, Reads
<1> HIDE DEF r
<1>3. ASSUME Follows(state, groupConnector, Declaration), InStep(state, Declaration, r, Declaration')
      PROVE  Follows(state', groupConnector, Declaration')
  <2> DEFINE s == Declaration
             n == Declaration'
  <2>1. /\ Position(state', n) /\ SeparatorsKept(s.groups, n.groups)
        /\ Len(n.groups) <= Len(s.groups)
    BY <1>2, <1>3 DEF InStep
  <2>2. /\ Position(state, s)
        /\ state.handler \in Groups =>
             \A l \in 1..state.level : s.groups[l].separator = Separator(groupConnector[l])
    BY <1>3 DEF Follows
  <2> HIDE DEF s, n
  <2>3. ASSUME state'.handler \in Groups
        PROVE  /\ Len(n.groups) = state'.level /\ state'.level >= 1
               /\ state.handler \in Groups /\ Len(s.groups) = state.level
    <3>1. Len(n.groups) = state'.level /\ state'.level >= 1
      BY <2>1, <2>3 DEF Position
    <3>2. state.handler \notin Groups => Len(s.groups) = 0
      BY <2>2 DEF Position
    <3>3. state.handler \in Groups => Len(s.groups) = state.level
      BY <2>2 DEF Position
    <3>4. state' \in PrologStates /\ state \in PrologStates
      BY Inductive, TokenRead DEF IndInv, TypeOK, Before, RoleStep
    <3>5. state'.level \in Nat
      BY <3>4 DEF PrologStates
    <3> QED
      BY <2>1, <3>1, <3>2, <3>3, <3>5
  <2>4. state.handler \in Groups /\ state'.handler \in Groups => state.level \in Nat /\ state'.level \in Nat
    BY <2>1, <2>2 DEF Position, Shape, Grouped, GroupsOf
  <2>5. state'.handler \in Groups =>
          \A l \in 1..state'.level : n.groups[l].separator = Separator(groupConnector[l])
    <3> SUFFICES ASSUME state'.handler \in Groups, NEW l \in 1..state'.level
                 PROVE  n.groups[l].separator = Separator(groupConnector[l])
      OBVIOUS
    <3>1. l \in 1..Len(n.groups) /\ l <= Len(s.groups) /\ l \in 1..state.level
      BY <2>1, <2>3, <2>4
    <3>2. n.groups[l].separator = s.groups[l].separator
      BY <2>1, <3>1 DEF SeparatorsKept
    <3> QED
      BY <2>2, <2>3, <3>1, <3>2
  <2> QED
    BY <2>1, <2>5 DEF Follows, n
<1>4. ASSUME IsElementDecl' PROVE Follows(state', groupConnector, Declaration')
  BY <1>1, <1>3, <1>4 DEF Unmoved
<1>5. ASSUME IsElementDecl' PROVE Declaration'.at # "bad"
  BY <1>4, <1>5, PositionNotBad DEF Follows
<1> QED
  BY <1>1, <1>4, <1>5, Invariant DEF SyntaxErrors

LEMMA GroupOpenSyntax ==
  ASSUME IndInv, SyntaxInv, NEW t \in Tokens, GroupOpen(t)
  PROVE  SyntaxInv'
<1> DEFINE r == XmlTokenRole(state, t.k)
           s == Declaration
           n == Declaration'
<1>0. Reads(t) /\ Logged(t) /\ Role(t) = "GROUP_OPEN"
  BY DEF GroupOpen
<1>1. /\ decl' \in Seq(Tokens) /\ (decl' = <<>> => state'.handler \in TopHandlers)
      /\ IsElementDecl' =>
           \/ Unmoved(t)
           \/ /\ IsElementDecl /\ Follows(state, groupConnector, s) /\ InStep(state, s, r, n)
  BY <1>0, TokenLogged
<1>2. /\ r.role = Role(t) /\ r.state = state' /\ error = "NONE"
      /\ state \in PrologStates /\ state' \in PrologStates /\ groupSize \in Nat
      /\ groupConnector \in [0..groupSize - 1 -> {"undefined", "none", "comma", "pipe"}]
      /\ GroupsOpen /\ RoleStep(state, r)
  BY <1>0, TokenRead DEF Before, TypeOK, RoleStep, Role
<1> HIDE DEF r
<1>3. IndInv'
  BY GroupOpenStep
<1>4. ASSUME IsElementDecl'
      PROVE  /\ Follows(state, groupConnector, s) /\ Position(state', n)
             /\ SeparatorsKept(s.groups, n.groups)
             /\ Len(n.groups) = Len(s.groups) + 1 /\ n.groups[Len(n.groups)].separator = "none"
  BY <1>0, <1>1, <1>2, <1>4 DEF Unmoved, ElementRoles, InStep
<1> HIDE DEF s, n
<1>5. ASSUME IsElementDecl' PROVE n.at # "bad"
  BY <1>4, <1>5, PositionNotBad
<1>6. /\ error' \in {"NONE", "NO_MEMORY"}
      /\ error' = "NONE" =>
           groupSize' = Enlarged /\ groupConnector' = OpenConnector(Enlarged, state'.level)
  BY <1>2, GroupOpenOutcomes DEF PrologStates
<1>7. ASSUME IsElementDecl', error' = "NONE"
      PROVE  Follows(state', groupConnector', n)
  <2> DEFINE level == state'.level
  <2>1. state'.handler \in {"element2", "element6"}
    BY <1>0, <1>2 DEF RoleStep
  <2>2. level \in 1..groupSize' - 1 /\ level \in Nat /\ groupSize' \in Nat
    <3>1. TypeOK' /\ (error' = "NONE" => GroupsOpen')
      BY <1>3 DEF IndInv
    <3>2. InGroup'
      BY <2>1 DEF InGroup, ElementDecl
    <3>3. groupSize' \in Nat
      BY <3>1 DEF TypeOK
    <3>4. level \in 1..groupSize' - 1
      BY <1>7, <3>1, <3>2 DEF GroupsOpen
    <3> QED
      BY <3>3, <3>4
  <2>3. /\ groupConnector' = [Grow(groupConnector, groupSize', "undefined") EXCEPT ![level] = "none"]
    BY <1>6, <1>7 DEF OpenConnector
  <2>4. /\ groupConnector'[level] = "none"
        /\ \A l \in 1..level - 1 : l \in 0..groupSize - 1 => groupConnector'[l] = groupConnector[l]
    <3> DEFINE g == Grow(groupConnector, groupSize', "undefined")
    <3>1. DOMAIN g = 0..groupSize' - 1
      BY DEF Grow
    <3>2. \A l \in 0..groupSize' - 1 : l \in 0..groupSize - 1 => g[l] = groupConnector[l]
      BY <1>2 DEF Grow
    <3> HIDE DEF g, level
    <3>3. level \in 0..groupSize' - 1 /\ \A l \in 1..level - 1 : l \in 0..groupSize' - 1 /\ l # level
      <4>1. ASSUME NEW a \in Nat, NEW b \in Nat, a \in 1..b - 1
            PROVE  a \in 0..b - 1
        BY <4>1
      <4>2. ASSUME NEW a \in Nat, NEW b \in Nat, a \in 1..b - 1, NEW l \in 1..a - 1
            PROVE  l \in 0..b - 1 /\ l # a
        BY <4>2
      <4> QED
        BY <2>2, <4>1, <4>2
    <3>4. groupConnector' = [g EXCEPT ![level] = "none"]
      BY <2>3 DEF g
    <3> QED
      BY <3>1, <3>2, <3>3, <3>4
  <2>5. Len(n.groups) = level
    BY <1>4, <1>7, <2>1 DEF Position, Groups, Flat, Deep
  <2>6. Len(s.groups) = level - 1
    <3>1. Len(s.groups) \in Nat
      BY <1>4, <1>7 DEF Follows, Position, Shape, Grouped, GroupsOf
    <3> QED
      BY <1>4, <1>7, <2>2, <2>5, <3>1
  <2>7. ASSUME NEW l \in 1..level - 1
        PROVE  /\ s.groups[l].separator = Separator(groupConnector[l])
               /\ l \in 0..groupSize - 1
    <3>1. Len(s.groups) > 0
      BY <2>2, <2>6
    <3>2. state.handler \in Groups
      <4>1. state.handler \notin Groups => s.groups = <<>>
        BY <1>4, <1>7 DEF Follows, Position
      <4> QED
        BY <3>1, <4>1
    <3>3. Len(s.groups) = state.level
      BY <1>4, <1>7, <3>2 DEF Follows, Position
    <3>4. state.level \in 1..groupSize - 1
      BY <1>2, <3>2 DEF GroupsOpen, InGroup, Groups, Flat, Deep, ElementDecl
    <3>5. l \in 1..state.level /\ l \in 0..groupSize - 1
      BY <1>2, <2>2, <2>6, <3>3, <3>4
    <3> QED
      BY <1>4, <1>7, <3>2, <3>5 DEF Follows
  <2>8. ASSUME NEW l \in 1..level
        PROVE  n.groups[l].separator = Separator(groupConnector'[l])
    <3>1. CASE l = level
      BY <1>4, <1>7, <2>4, <2>5, <3>1 DEF Separator
    <3>2. CASE l # level
      <4>1. l \in 1..level - 1
        BY <2>2, <3>2
      <4>2. n.groups[l].separator = s.groups[l].separator
        BY <1>4, <1>7, <2>2, <2>5, <2>6, <4>1 DEF SeparatorsKept
      <4> QED
        BY <2>4, <2>7, <4>1, <4>2
    <3> QED
      BY <3>1, <3>2
  <2> QED
    BY <1>4, <1>7, <2>8 DEF Follows
<1> QED
  BY <1>1, <1>5, <1>6, <1>7, Invariant DEF SyntaxErrors, n

(* A separator: c for the innermost group, unless it has had the other.      *)
LEMMA SeparatorSyntax ==
  ASSUME IndInv, SyntaxInv, NEW t \in Tokens, Reads(t), Logged(t), NEW c, NEW wrong,
         \/ Role(t) = "GROUP_SEQUENCE" /\ c = "comma" /\ wrong = "pipe"
         \/ Role(t) = "GROUP_CHOICE" /\ c = "pipe" /\ wrong = "comma",
         \/ Connector = wrong /\ error' = "SYNTAX"
         \/ Connector # wrong /\ SetConnector(c) /\ UNCHANGED error
  PROVE  SyntaxInv'
<1> DEFINE r == XmlTokenRole(state, t.k)
           s == Declaration
           n == Declaration'
           level == state.level
<1>1. /\ decl' \in Seq(Tokens) /\ (decl' = <<>> => state'.handler \in TopHandlers)
      /\ IsElementDecl' =>
           \/ Unmoved(t)
           \/ /\ IsElementDecl /\ Follows(state, groupConnector, s) /\ InStep(state, s, r, n)
  BY TokenLogged
<1>2. /\ r.role = Role(t) /\ r.state = state' /\ error = "NONE"
      /\ state \in PrologStates /\ groupSize \in Nat
      /\ groupConnector \in [0..groupSize - 1 -> {"undefined", "none", "comma", "pipe"}]
      /\ GroupsOpen
  BY TokenRead DEF Before, TypeOK, Role
<1> HIDE DEF r
<1>3. ASSUME IsElementDecl'
      PROVE  /\ Follows(state, groupConnector, s)
             /\ ReadsSeparator(state, s, r, n, Separator(c))
  BY <1>1, <1>2, <1>3 DEF Unmoved, ElementRoles, InStep, Separator
<1> HIDE DEF s, n
<1>4. ASSUME state.handler = "element7"
      PROVE  /\ level \in Nat /\ level >= 1 /\ level \in 0..groupSize - 1
             /\ Connector \in {"none", "comma", "pipe"}
  <2>1. level \in 1..groupSize - 1 /\ groupConnector[level] # "undefined"
    BY <1>2, <1>4 DEF GroupsOpen, InGroup, ElementDecl
  <2> HIDE DEF level
  <2>2. level \in Nat /\ level >= 1 /\ level \in 0..groupSize - 1
    BY <1>2, <2>1
  <2>3. groupConnector[level] \in {"undefined", "none", "comma", "pipe"}
    BY <1>2, <2>2
  <2> QED
    BY <2>1, <2>2, <2>3 DEF Connector, level
<1>5. ASSUME IsElementDecl'
      PROVE  /\ state.handler = "element7" /\ s.groups[level].separator = Separator(Connector)
             /\ Connector = wrong <=> Separator(Connector) \notin {"none", Separator(c)}
  <2>1. state.handler = "element7"
    BY <1>3, <1>5 DEF ReadsSeparator
  <2>2. s.groups[level].separator = Separator(Connector)
    BY <1>3, <1>4, <1>5, <2>1 DEF Follows, Groups, Deep, Flat, Connector
  <2>3. Connector = wrong <=> Separator(Connector) \notin {"none", Separator(c)}
    BY <1>4, <2>1 DEF Separator
  <2> QED
    BY <2>1, <2>2, <2>3
<1>6. CASE Connector = wrong
  <2>1. error' = "SYNTAX"
    BY <1>6
  <2>2. ASSUME IsElementDecl' PROVE n.at = "bad"
    BY <1>3, <1>5, <1>6, <2>2 DEF ReadsSeparator
  <2> QED
    BY <1>1, <2>1, <2>2, Invariant DEF SyntaxErrors, n
<1>7. CASE Connector # wrong
  <2>1. SetConnector(c) /\ error' = "NONE"
    BY <1>2, <1>7
  <2>2. ASSUME IsElementDecl' PROVE Follows(state', groupConnector', n)
    <3>1. /\ Position(state', n) /\ state'.level = level
          /\ n.groups[level].separator = Separator(c)
          /\ \A l \in 1..level - 1 : n.groups[l].separator = s.groups[l].separator
      BY <1>2, <1>3, <1>5, <1>7, <2>2 DEF ReadsSeparator
    <3>2. \A l \in 1..level - 1 : s.groups[l].separator = Separator(groupConnector[l])
      <4>1. \A l \in 1..level : s.groups[l].separator = Separator(groupConnector[l])
        BY <1>3, <1>5, <2>2 DEF Follows, Groups, Deep, Flat
      <4>2. level \in Nat
        BY <1>4, <1>5, <2>2
      <4> HIDE DEF level
      <4> QED
        BY <4>1, <4>2
    <3>3. level \in Nat /\ level \in DOMAIN groupConnector
      BY <1>2, <1>4, <1>5, <2>2
    <3>4. groupConnector' = [groupConnector EXCEPT ![level] = c]
      BY <2>1 DEF SetConnector
    <3> HIDE DEF level
    <3>5. /\ groupConnector'[level] = c
          /\ \A l \in 1..level - 1 : groupConnector'[l] = groupConnector[l]
      <4>1. \A l \in 1..level - 1 : l # level
        BY <3>3
      <4>2. DOMAIN groupConnector = 0..groupSize - 1
        BY <1>2
      <4>3. \A l : l # level /\ l \in DOMAIN groupConnector => groupConnector'[l] = groupConnector[l]
        BY <3>4
      <4>4. \A l \in 1..level - 1 : l \in DOMAIN groupConnector
        BY <1>2, <3>3, <4>2
      <4> QED
        BY <3>3, <3>4, <4>1, <4>3, <4>4
    <3>6. \A l \in 1..level : l = level \/ l \in 1..level - 1
      BY <3>3
    <3>7. \A l \in 1..level : n.groups[l].separator = Separator(groupConnector'[l])
      BY <3>1, <3>2, <3>5, <3>6
    <3> QED
      BY <3>1, <3>7 DEF Follows
  <2>3. ASSUME IsElementDecl' PROVE n.at # "bad"
    BY <2>2, <2>3, PositionNotBad DEF Follows
  <2> QED
    BY <1>1, <2>1, <2>2, <2>3, Invariant DEF SyntaxErrors, n
<1> QED
  BY <1>6, <1>7

LEMMA GroupSequenceSyntax ==
  ASSUME IndInv, SyntaxInv, NEW t \in Tokens, GroupSequence(t)
  PROVE  SyntaxInv'
<1>1. Reads(t) /\ Logged(t) /\ Role(t) = "GROUP_SEQUENCE"
  BY DEF GroupSequence
<1>2. \/ Connector = "pipe" /\ error' = "SYNTAX"
      \/ Connector # "pipe" /\ SetConnector("comma") /\ UNCHANGED error
  BY DEF GroupSequence, Fail
<1> QED
  BY <1>1, <1>2, SeparatorSyntax

LEMMA GroupChoiceSyntax ==
  ASSUME IndInv, SyntaxInv, NEW t \in Tokens, GroupChoice(t)
  PROVE  SyntaxInv'
<1>1. Reads(t) /\ Logged(t) /\ Role(t) = "GROUP_CHOICE"
  BY DEF GroupChoice
<1>2. \/ Connector = "comma" /\ error' = "SYNTAX"
      \/ Connector # "comma" /\ SetConnector("pipe") /\ UNCHANGED error
  BY DEF GroupChoice, Fail
<1> QED
  BY <1>1, <1>2, SeparatorSyntax

LEMMA TokenSyntax ==
  ASSUME IndInv, SyntaxInv, NEW t \in Tokens, Token(t)
  PROVE  SyntaxInv'
<1>1. ASSUME Other(t) PROVE SyntaxInv'
  <2>1. /\ Reads(t) /\ Logged(t) /\ UNCHANGED <<error, group>>
        /\ Role(t) \notin {"ERROR", "GROUP_OPEN", "GROUP_SEQUENCE", "GROUP_CHOICE"}
    BY <1>1 DEF Other, ElementRoles
  <2>2. error' = "NONE" /\ groupConnector' = groupConnector
    BY <2>1 DEF Reads, group
  <2> QED
    BY <2>1, <2>2, Continued
<1>2. ASSUME AttlistElementName(t) PROVE SyntaxInv'
  <2>1. /\ Reads(t) /\ Logged(t) /\ UNCHANGED group /\ error' \in {"NO_MEMORY", error}
        /\ Role(t) \notin {"ERROR", "GROUP_OPEN", "GROUP_SEQUENCE", "GROUP_CHOICE"}
    BY <1>2 DEF AttlistElementName
  <2>2. error' \in {"NONE", "NO_MEMORY"} /\ groupConnector' = groupConnector
    BY <2>1 DEF Reads, group
  <2> QED
    BY <2>1, <2>2, Continued
<1>3. ASSUME ElementName(t) PROVE SyntaxInv'
  <2>1. /\ Reads(t) /\ Logged(t) /\ UNCHANGED group /\ error' \in {"NO_MEMORY", error}
        /\ Role(t) \notin {"ERROR", "GROUP_OPEN", "GROUP_SEQUENCE", "GROUP_CHOICE"}
    BY <1>3 DEF ElementName
  <2>2. error' \in {"NONE", "NO_MEMORY"} /\ groupConnector' = groupConnector
    BY <2>1 DEF Reads, group
  <2> QED
    BY <2>1, <2>2, Continued
<1>4. ASSUME ContentAnyOrEmpty(t) PROVE SyntaxInv'
  <2>1. /\ Reads(t) /\ Logged(t) /\ UNCHANGED group /\ error' \in {"NO_MEMORY", error}
        /\ Role(t) \notin {"ERROR", "GROUP_OPEN", "GROUP_SEQUENCE", "GROUP_CHOICE"}
    BY <1>4 DEF ContentAnyOrEmpty, Fail
  <2>2. error' \in {"NONE", "NO_MEMORY"} /\ groupConnector' = groupConnector
    BY <2>1 DEF Reads, group
  <2> QED
    BY <2>1, <2>2, Continued
<1>5. ASSUME ContentPcdata(t) PROVE SyntaxInv'
  <2>1. /\ Reads(t) /\ Logged(t) /\ UNCHANGED <<error, group>>
        /\ Role(t) \notin {"ERROR", "GROUP_OPEN", "GROUP_SEQUENCE", "GROUP_CHOICE"}
    BY <1>5 DEF ContentPcdata
  <2>2. error' = "NONE" /\ groupConnector' = groupConnector
    BY <2>1 DEF Reads, group
  <2> QED
    BY <2>1, <2>2, Continued
<1>6. ASSUME ContentElement(t) PROVE SyntaxInv'
  <2>1. /\ Reads(t) /\ Logged(t) /\ UNCHANGED group /\ error' \in {"NO_MEMORY", error}
        /\ Role(t) \notin {"ERROR", "GROUP_OPEN", "GROUP_SEQUENCE", "GROUP_CHOICE"}
    BY <1>6 DEF ContentElement
  <2>2. error' \in {"NONE", "NO_MEMORY"} /\ groupConnector' = groupConnector
    BY <2>1 DEF Reads, group
  <2> QED
    BY <2>1, <2>2, Continued
<1>7. ASSUME GroupClose(t) PROVE SyntaxInv'
  <2>1. /\ Reads(t) /\ Logged(t) /\ UNCHANGED group /\ error' \in {"NO_MEMORY", error}
        /\ Role(t) \notin {"ERROR", "GROUP_OPEN", "GROUP_SEQUENCE", "GROUP_CHOICE"}
    BY <1>7 DEF GroupClose
  <2>2. error' \in {"NONE", "NO_MEMORY"} /\ groupConnector' = groupConnector
    BY <2>1 DEF Reads, group
  <2> QED
    BY <2>1, <2>2, Continued
<1> QED
  BY <1>1, <1>2, <1>3, <1>4, <1>5, <1>6, <1>7, RefuseSyntax, GroupOpenSyntax,
     GroupSequenceSyntax, GroupChoiceSyntax DEF Token

LEMMA UnreadSyntax ==
  ASSUME SyntaxInv, UNCHANGED <<state, error, groupConnector, decl>>
  PROVE  SyntaxInv'
<1>1. Declaration' = Declaration
  BY NextDeclaration DEF Declaration
<1>2. IsElementDecl' = IsElementDecl
  BY DEF IsElementDecl
<1>3. error' = "NONE" /\ IsElementDecl' => Follows(state, groupConnector, Declaration)'
  BY <1>1, <1>2, NextFollows DEF SyntaxInv
<1>4. RefusedForSyntax'
  BY <1>1, <1>2 DEF SyntaxInv, RefusedForSyntax
<1> QED
  BY <1>3, <1>4 DEF SyntaxInv

LEMMA ResetSyntax ==
  ASSUME IndInv, XML_ParserReset
  PROVE  SyntaxInv'
<1>1. decl' = <<>> /\ ~IsElementDecl'
  BY DEF XML_ParserReset, IsElementDecl
<1>2. state'.handler \in TopHandlers
  <2>1. state' = [state EXCEPT !.handler = "internalSubset", !.includeLevel = 0]
    BY DEF XML_ParserReset
  <2>2. state \in PrologStates
    BY DEF IndInv, TypeOK
  <2> QED
    BY <2>1, <2>2 DEF TopHandlers, PrologStates
<1> QED
  BY <1>1, <1>2 DEF SyntaxInv, RefusedForSyntax

LEMMA InitSyntax == Init => SyntaxInv
<1> SUFFICES ASSUME Init PROVE SyntaxInv
  OBVIOUS
<1>1. decl = <<>> /\ ~IsElementDecl
  BY DEF Init, IsElementDecl
<1>2. state.handler \in TopHandlers
  BY DEF Init, InSubset, XmlPrologStateInit, XmlPrologStateInitExternalEntity, TopHandlers
<1> QED
  BY <1>1, <1>2 DEF SyntaxInv, RefusedForSyntax

LEMMA SyntaxInductive == IndInv /\ SyntaxInv /\ [Next]_vars => SyntaxInv'
<1> SUFFICES ASSUME IndInv, SyntaxInv, [Next]_vars PROVE SyntaxInv'
  OBVIOUS
<1>1. ASSUME UNCHANGED vars \/ XML_SetElementDeclHandler PROVE SyntaxInv'
  <2>1. UNCHANGED <<state, error, groupConnector, decl>>
    BY <1>1 DEF vars, group, history, XML_SetElementDeclHandler
  <2> QED
    BY <2>1, UnreadSyntax
<1> QED
  BY <1>1, TokenSyntax, ResetSyntax DEF Next

-----------------------------------------------------------------------------
(* doProlog refuses an element declaration exactly when the productions of   *)
(* XML 1.0 have no content model that begins with its tokens: the connectors *)
(* kept at the automaton's depth are the separators of the groups that are   *)
(* open, for every nesting, any growth of the tables and any failed          *)
(* allocation, in the internal and in an external subset.                    *)
THEOREM SyntaxRefused == Spec => []RefusedForSyntax
<1>1. SyntaxInv => RefusedForSyntax
  BY DEF SyntaxInv
<1>2. Spec => [](IndInv /\ SyntaxInv)
  BY InitInv, Inductive, InitSyntax, SyntaxInductive, PTL DEF Spec
<1> QED
  BY <1>1, <1>2, PTL

=============================================================================
