--------------------------- MODULE NamespacesProofs ---------------------------
(***************************************************************************)
(* The bindings of namespaces: where each BINDING is, and in whose buffer  *)
(* the names of the open elements are, proved for every vocabulary of      *)
(* prefixes, names, attributes and defaults, every nesting and any number  *)
(* of tags, external entities and resets.                                  *)
(***************************************************************************)
EXTENDS Namespaces, SequenceTheorems, FiniteSetTheorems, WellFoundedInduction, TLAPS

-----------------------------------------------------------------------------
(* What holds at 0, and at n + 1 when it holds at n, holds everywhere.       *)
LEMMA SetInduction ==
  ASSUME NEW T, 0 \in T, \A n \in Nat : n \in T => n + 1 \in T
  PROVE  \A n \in Nat : n \in T
<1> DEFINE R == OpToRel(<, Nat)
<1>1. R = {p \in Nat \X Nat : p[1] < p[2]}
  BY DEF OpToRel
<1>2. IsWellFoundedOn(R, Nat)
  BY NatLessThanWellFounded
<1> HIDE DEF R
<1> SUFFICES ASSUME Nat \ T # {} PROVE FALSE
  OBVIOUS
<1>3. PICK m \in Nat : m \notin T /\ \A y \in Nat \ T : <<y, m>> \notin R
  BY <1>2, WFMin
<1>4. m # 0 /\ m - 1 \in Nat
  BY <1>3
<1>5. <<m - 1, m>> \in R
  BY <1>1, <1>3, <1>4
<1>6. (m - 1) + 1 \in T
  BY <1>3, <1>4, <1>5
<1> QED
  BY <1>3, <1>6

(* Sequences taken apart and put together.                                   *)
LEMMA Pushed ==
  ASSUME NEW S, NEW x \in S, NEW s \in Seq(S)
  PROVE  LET r == <<x>> \o s
         IN  /\ r \in Seq(S) /\ Len(r) = Len(s) + 1 /\ r[1] = x /\ r # <<>>
             /\ \A i \in 1..Len(s) : r[i + 1] = s[i]
             /\ \A i \in 2..Len(r) : i - 1 \in 1..Len(s) /\ r[i] = s[i - 1]
OBVIOUS

LEMMA Popped ==
  ASSUME NEW S, NEW s \in Seq(S), s # <<>>
  PROVE  /\ Head(s) \in S /\ Head(s) = s[1] /\ Tail(s) \in Seq(S)
         /\ Len(Tail(s)) = Len(s) - 1 /\ Len(s) \in Nat \ {0}
         /\ \A i \in 1..Len(s) - 1 : Tail(s)[i] = s[i + 1]
         /\ s = <<Head(s)>> \o Tail(s)
<1>1. /\ Head(s) \in S /\ Head(s) = s[1] /\ Tail(s) \in Seq(S)
      /\ Len(Tail(s)) = Len(s) - 1 /\ Len(s) \in Nat \ {0}
      /\ \A i \in 1..Len(s) - 1 : Tail(s)[i] = s[i + 1]
  OBVIOUS
<1> DEFINE r == <<Head(s)>> \o Tail(s)
<1>2. /\ r \in Seq(S) /\ Len(r) = Len(s) /\ r[1] = s[1]
      /\ \A i \in 2..Len(r) : r[i] = Tail(s)[i - 1]
  BY <1>1, Pushed
<1>3. \A i \in 1..Len(s) : r[i] = s[i]
  <2> HIDE DEF r
  <2> SUFFICES ASSUME NEW i \in 1..Len(s), i # 1 PROVE r[i] = s[i]
    BY <1>2
  <2>1. i \in 2..Len(r) /\ i - 1 \in 1..Len(s) - 1
    BY <1>1, <1>2
  <2>2. r[i] = Tail(s)[i - 1] /\ Tail(s)[i - 1] = s[(i - 1) + 1]
    BY <1>1, <1>2, <2>1
  <2> QED
    BY <2>2
<1> HIDE DEF r
<1>4. r = s
  BY <1>2, <1>3, SeqEqual
<1> QED
  BY <1>1, <1>4 DEF r

LEMMA Concatenated ==
  ASSUME NEW S, NEW s \in Seq(S), NEW t \in Seq(S)
  PROVE  /\ s \o t \in Seq(S) /\ Len(s \o t) = Len(s) + Len(t)
         /\ \A i \in 1..Len(s) : (s \o t)[i] = s[i]
         /\ \A i \in 1..Len(t) : (s \o t)[Len(s) + i] = t[i]
         /\ Range(s \o t) = Range(s) \cup Range(t)
         /\ IsInjective(s \o t) <=>
              IsInjective(s) /\ IsInjective(t) /\ Range(s) \cap Range(t) = {}
<1> DEFINE r == s \o t
           n == Len(s)
<1>1. /\ r \in Seq(S) /\ Len(r) = n + Len(t) /\ n \in Nat /\ Len(t) \in Nat
      /\ \A i \in 1..n : r[i] = s[i]
      /\ \A i \in 1..Len(t) : r[n + i] = t[i]
      /\ DOMAIN r = 1..n + Len(t) /\ DOMAIN s = 1..n /\ DOMAIN t = 1..Len(t)
  OBVIOUS
<1> HIDE DEF r, n
<1>2. \A i \in 1..n + Len(t) : i \in 1..n \/ \E j \in 1..Len(t) : i = n + j
  <2> SUFFICES ASSUME NEW i \in 1..n + Len(t), i \notin 1..n
               PROVE  \E j \in 1..Len(t) : i = n + j
    OBVIOUS
  <2>1. i - n \in 1..Len(t) /\ i = n + (i - n)
    BY <1>1
  <2> QED
    BY <2>1
<1>3. \A j \in 1..Len(t) : n + j \in 1..n + Len(t) /\ n + j \notin 1..n
  BY <1>1
<1>4. 1..n \subseteq 1..n + Len(t)
  BY <1>1
<1>5. Range(r) = Range(s) \cup Range(t)
  <2>1. \A x : x \in Range(r) <=> \E i \in 1..n + Len(t) : r[i] = x
    BY <1>1 DEF Range
  <2>2. \A x : x \in Range(s) <=> \E i \in 1..n : s[i] = x
    BY <1>1 DEF Range
  <2>3. \A x : x \in Range(t) <=> \E i \in 1..Len(t) : t[i] = x
    BY <1>1 DEF Range
  <2>4. \A x \in Range(r) : x \in Range(s) \cup Range(t)
    BY <1>1, <1>2, <2>1, <2>2, <2>3
  <2>5. \A x \in Range(s) \cup Range(t) : x \in Range(r)
    BY <1>1, <1>3, <1>4, <2>1, <2>2, <2>3
  <2> QED
    BY <2>4, <2>5
<1>6. ASSUME IsInjective(r)
      PROVE  IsInjective(s) /\ IsInjective(t) /\ Range(s) \cap Range(t) = {}
  <2>1. \A i, j \in 1..n + Len(t) : r[i] = r[j] => i = j
    BY <1>1, <1>6 DEF IsInjective
  <2>2. IsInjective(s)
    BY <1>1, <1>4, <2>1 DEF IsInjective
  <2>3. IsInjective(t)
    <3> SUFFICES ASSUME NEW i \in 1..Len(t), NEW j \in 1..Len(t), t[i] = t[j] PROVE i = j
      BY <1>1 DEF IsInjective
    <3>1. n + i = n + j
      BY <1>1, <1>3, <2>1
    <3> QED
      BY <1>1, <3>1
  <2>4. Range(s) \cap Range(t) = {}
    <3> SUFFICES ASSUME NEW i \in 1..n, NEW j \in 1..Len(t), s[i] = t[j] PROVE FALSE
      BY <1>1 DEF Range
    <3>1. r[i] = r[n + j]
      BY <1>1
    <3> QED
      BY <1>3, <1>4, <2>1, <3>1
  <2> QED
    BY <2>2, <2>3, <2>4
<1>7. ASSUME IsInjective(s), IsInjective(t), Range(s) \cap Range(t) = {}
      PROVE  IsInjective(r)
  <2>1. \A i, j \in 1..n : s[i] = s[j] => i = j
    BY <1>1, <1>7 DEF IsInjective
  <2>2. \A i, j \in 1..Len(t) : t[i] = t[j] => i = j
    BY <1>1, <1>7 DEF IsInjective
  <2>3. \A i \in 1..n, j \in 1..Len(t) : s[i] # t[j]
    BY <1>1, <1>7 DEF Range
  <2>4. \A i, j \in 1..n + Len(t) : r[i] = r[j] => i = j
    <3> SUFFICES ASSUME NEW i \in 1..n + Len(t), NEW j \in 1..n + Len(t), r[i] = r[j] PROVE i = j
      OBVIOUS
    <3>1. CASE i \in 1..n /\ j \in 1..n
      BY <1>1, <2>1, <3>1
    <3>2. CASE i \in 1..n /\ j \notin 1..n
      BY <1>1, <1>2, <2>3, <3>2
    <3>3. CASE i \notin 1..n /\ j \in 1..n
      BY <1>1, <1>2, <2>3, <3>3
    <3>4. CASE i \notin 1..n /\ j \notin 1..n
      BY <1>1, <1>2, <2>2, <3>4
    <3> QED
      BY <3>1, <3>2, <3>3, <3>4
  <2> QED
    BY <1>1, <2>4 DEF IsInjective
<1> QED
  BY <1>1, <1>5, <1>6, <1>7 DEF r, n

LEMMA Reversed ==
  ASSUME NEW S, NEW s \in Seq(S)
  PROVE  /\ Reverse(s) \in Seq(S) /\ Len(Reverse(s)) = Len(s)
         /\ Range(Reverse(s)) = Range(s)
         /\ IsInjective(Reverse(s)) <=> IsInjective(s)
<1> DEFINE r == Reverse(s)
           n == Len(s)
<1>1. /\ n \in Nat /\ DOMAIN s = 1..n /\ \A i \in 1..n : s[i] \in S
      /\ r = [i \in 1..n |-> s[n - i + 1]]
  BY DEF Reverse
<1> HIDE DEF r, n
<1>2. \A i \in 1..n : /\ n - i + 1 \in 1..n /\ n - (n - i + 1) + 1 = i
                      /\ \A j \in 1..n : n - i + 1 = n - j + 1 => i = j
  BY <1>1
<1>3. DOMAIN r = 1..n /\ \A i \in 1..n : r[i] = s[n - i + 1] /\ r[n - i + 1] = s[i]
  BY <1>1, <1>2
<1>4. r \in Seq(S) /\ Len(r) = n
  <2>1. r \in [1..n -> S]
    BY <1>1, <1>2
  <2> QED
    BY <1>1, <2>1
<1>5. Range(r) = Range(s)
  <2>1. \A x : x \in Range(r) <=> \E i \in 1..n : r[i] = x
    BY <1>3 DEF Range
  <2>2. \A x : x \in Range(s) <=> \E i \in 1..n : s[i] = x
    BY <1>1 DEF Range
  <2>3. \A x \in Range(r) : x \in Range(s)
    BY <1>2, <1>3, <2>1, <2>2
  <2>4. \A x \in Range(s) : x \in Range(r)
    BY <1>2, <1>3, <2>1, <2>2
  <2> QED
    BY <2>3, <2>4
<1>6. IsInjective(s) => IsInjective(r)
  <2> SUFFICES ASSUME IsInjective(s), NEW i \in 1..n, NEW j \in 1..n, r[i] = r[j] PROVE i = j
    BY <1>3 DEF IsInjective
  <2>1. s[n - i + 1] = s[n - j + 1]
    BY <1>3
  <2>2. n - i + 1 = n - j + 1
    BY <1>1, <1>2, <2>1 DEF IsInjective
  <2> QED
    BY <1>2, <2>2
<1>7. IsInjective(r) => IsInjective(s)
  <2> SUFFICES ASSUME IsInjective(r), NEW i \in 1..n, NEW j \in 1..n, s[i] = s[j] PROVE i = j
    BY <1>1 DEF IsInjective
  <2>1. r[n - i + 1] = r[n - j + 1]
    BY <1>3
  <2>2. n - i + 1 = n - j + 1
    BY <1>2, <1>3, <2>1 DEF IsInjective
  <2> QED
    BY <1>2, <2>2
<1> QED
  BY <1>4, <1>5, <1>6, <1>7 DEF r, n

(* FlattenSeq, one sequence after the other.                                 *)
Flattens(f, ss) ==
  f = [i \in 1..Len(ss) |-> IF i = 1 THEN ss[i] ELSE f[i - 1] \o ss[i]]

LEMMA FlattensExists ==
  ASSUME NEW S, NEW ss \in Seq(S)
  PROVE  \E f : Flattens(f, ss)
<1> DEFINE Upto(f, k) == f = [i \in 1..k |-> IF i = 1 THEN ss[i] ELSE f[i - 1] \o ss[i]]
           T == {k \in Nat : \E f : Upto(f, k)}
<1>1. 0 \in T
  <2> DEFINE f == [i \in 1..0 |-> <<>>]
  <2>1. Upto(f, 0)
    OBVIOUS
  <2> QED
    BY <2>1
<1>2. ASSUME NEW k \in Nat, k \in T PROVE k + 1 \in T
  <2>1. PICK f : Upto(f, k)
    BY <1>2
  <2> DEFINE g == [i \in 1..k + 1 |->
                     IF i = k + 1 THEN IF i = 1 THEN ss[i] ELSE f[k] \o ss[i] ELSE f[i]]
  <2>2. \A i \in 1..k : f[i] = IF i = 1 THEN ss[i] ELSE f[i - 1] \o ss[i]
    BY <2>1
  <2>3. \A i \in 1..k + 1 : g[i] = IF i = 1 THEN ss[i] ELSE g[i - 1] \o ss[i]
    <3>1. \A i \in 1..k : g[i] = f[i]
      OBVIOUS
    <3>2. ASSUME NEW i \in 1..k + 1 PROVE g[i] = IF i = 1 THEN ss[i] ELSE g[i - 1] \o ss[i]
      <4>1. CASE i = k + 1
        <5>1. g[i] = IF i = 1 THEN ss[i] ELSE f[k] \o ss[i]
          BY <4>1
        <5>2. i # 1 => i - 1 = k /\ k \in 1..k
          BY <4>1
        <5> HIDE DEF g
        <5> QED
          BY <3>1, <5>1, <5>2
      <4>2. CASE i # k + 1
        <5>1. i \in 1..k /\ (i # 1 => i - 1 \in 1..k)
          BY <4>2
        <5> HIDE DEF g
        <5> QED
          BY <2>2, <3>1, <5>1
      <4> QED
        BY <4>1, <4>2
    <3> QED
      BY <3>2
  <2>4. g = [i \in 1..k + 1 |-> g[i]]
    OBVIOUS
  <2> HIDE DEF g
  <2>5. Upto(g, k + 1)
    BY <2>3, <2>4
  <2> HIDE DEF Upto
  <2> QED
    BY <2>5
<1> HIDE DEF T
<1>3. Len(ss) \in T
  BY <1>1, <1>2, SetInduction
<1> QED
  BY <1>3 DEF T, Flattens

LEMMA FlattenBy ==
  ASSUME NEW S, NEW ss \in Seq(S), ss # <<>>
  PROVE  \E f : Flattens(f, ss) /\ FlattenSeq(ss) = f[Len(ss)]
<1> DEFINE f == CHOOSE f : Flattens(f, ss)
<1>1. Flattens(f, ss)
  BY FlattensExists
<1>2. FlattenSeq(ss) = f[Len(ss)]
  BY DEF FlattenSeq, Flattens
<1> HIDE DEF f
<1> QED
  BY <1>1, <1>2

LEMMA FlattenEmpty == FlattenSeq(<<>>) = <<>>
BY DEF FlattenSeq

LEMMA FlattenPushed ==
  ASSUME NEW S, NEW x \in Seq(S), NEW ss \in Seq(Seq(S))
  PROVE  FlattenSeq(<<x>> \o ss) = x \o FlattenSeq(ss)
<1>0. \A a, b, c \in Seq(S) : (a \o b) \o c = a \o (b \o c)
  BY ConcatAssociative
<1> DEFINE r == <<x>> \o ss
<1>1. /\ r \in Seq(Seq(S)) /\ Len(r) = Len(ss) + 1 /\ r[1] = x /\ r # <<>>
      /\ \A i \in 1..Len(ss) : r[i + 1] = ss[i]
      /\ Len(ss) \in Nat
  BY Pushed
<1> HIDE DEF r
<1>2. PICK g : Flattens(g, r) /\ FlattenSeq(r) = g[Len(r)]
  BY <1>1, FlattenBy
<1>3. \A i \in 1..Len(r) : g[i] = IF i = 1 THEN r[i] ELSE g[i - 1] \o r[i]
  BY <1>2 DEF Flattens
<1>4. CASE ss = <<>>
  <2>1. Len(r) = 1 /\ g[1] = x
    BY <1>1, <1>3, <1>4
  <2>2. x = x \o <<>>
    OBVIOUS
  <2> QED
    BY <1>2, <1>4, <2>1, <2>2, FlattenEmpty DEF r
<1>5. CASE ss # <<>>
  <2>1. PICK f : Flattens(f, ss) /\ FlattenSeq(ss) = f[Len(ss)]
    BY <1>5, FlattenBy
  <2>2. \A i \in 1..Len(ss) : f[i] = IF i = 1 THEN ss[i] ELSE f[i - 1] \o ss[i]
    BY <2>1 DEF Flattens
  <2> DEFINE T == {k \in Nat : k \in 1..Len(ss) => f[k] \in Seq(S) /\ g[k + 1] = x \o f[k]}
  <2>3. 0 \in T
    OBVIOUS
  <2>4. ASSUME NEW k \in Nat, k \in T PROVE k + 1 \in T
    <3> SUFFICES ASSUME k + 1 \in 1..Len(ss)
                 PROVE  f[k + 1] \in Seq(S) /\ g[(k + 1) + 1] = x \o f[k + 1]
      OBVIOUS
    <3>1. /\ ss[k + 1] \in Seq(S) /\ r[(k + 1) + 1] = ss[k + 1]
          /\ g[(k + 1) + 1] = g[k + 1] \o ss[k + 1]
      <4>1. (k + 1) + 1 \in 1..Len(r) /\ (k + 1) + 1 # 1 /\ ((k + 1) + 1) - 1 = k + 1
        BY <1>1
      <4>2. ss[k + 1] \in Seq(S) /\ r[(k + 1) + 1] = ss[k + 1]
        BY <1>1
      <4> QED
        BY <1>3, <4>1, <4>2
    <3>2. CASE k = 0
      <4>1. f[k + 1] = ss[k + 1]
        BY <2>2, <3>2
      <4>2. g[k + 1] = x
        BY <1>1, <1>3, <3>2
      <4> QED
        BY <3>1, <4>1, <4>2
    <3>3. CASE k # 0
      <4>1. k \in 1..Len(ss) /\ (k + 1) - 1 = k /\ k + 1 # 1
        BY <3>3
      <4>2. f[k] \in Seq(S) /\ g[k + 1] = x \o f[k]
        BY <2>4, <4>1
      <4>3. f[k + 1] = f[k] \o ss[k + 1]
        BY <2>2, <4>1
      <4>4. (x \o f[k]) \o ss[k + 1] = x \o (f[k] \o ss[k + 1])
        BY <1>0, <3>1, <4>2
      <4>5. f[k] \o ss[k + 1] \in Seq(S)
        BY <3>1, <4>2
      <4> QED
        BY <3>1, <4>2, <4>3, <4>4, <4>5
    <3> QED
      BY <3>2, <3>3
  <2> HIDE DEF T
  <2>5. \A k \in Nat : k \in T
    BY <2>3, <2>4, SetInduction
  <2>6. Len(ss) \in 1..Len(ss)
    BY <1>1, <1>5
  <2>7. g[Len(ss) + 1] = x \o f[Len(ss)]
    BY <1>1, <2>5, <2>6 DEF T
  <2> QED
    BY <1>1, <1>2, <2>1, <2>7 DEF r
<1> QED
  BY <1>4, <1>5

LEMMA Flattened ==
  ASSUME NEW S, NEW ss \in Seq(Seq(S))
  PROVE  /\ FlattenSeq(ss) \in Seq(S)
         /\ \A x : x \in Range(FlattenSeq(ss)) <=> \E i \in 1..Len(ss) : x \in Range(ss[i])
<1> DEFINE Right(u) ==
             /\ FlattenSeq(u) \in Seq(S)
             /\ \A x : x \in Range(FlattenSeq(u)) <=> \E i \in 1..Len(u) : x \in Range(u[i])
           T == {n \in Nat : \A u \in Seq(Seq(S)) : Len(u) = n => Right(u)}
<1>1. 0 \in T
  <2> SUFFICES ASSUME NEW u \in Seq(Seq(S)), Len(u) = 0 PROVE Right(u)
    OBVIOUS
  <2>1. u = <<>> /\ FlattenSeq(u) = <<>> /\ <<>> \in Seq(S)
    BY FlattenEmpty
  <2>2. Range(FlattenSeq(u)) = {}
    BY <2>1 DEF Range
  <2>3. FlattenSeq(u) \in Seq(S)
    BY <2>1
  <2>4. ~\E i \in 1..Len(u) : TRUE
    OBVIOUS
  <2> QED
    BY <2>2, <2>3, <2>4
<1>2. ASSUME NEW n \in Nat, n \in T PROVE n + 1 \in T
  <2> SUFFICES ASSUME NEW u \in Seq(Seq(S)), Len(u) = n + 1 PROVE Right(u)
    OBVIOUS
  <2> DEFINE x == Head(u)
             v == Tail(u)
  <2>1. u # <<>>
    OBVIOUS
  <2>2. /\ x \in Seq(S) /\ x = u[1] /\ v \in Seq(Seq(S)) /\ Len(v) = n
        /\ \A i \in 1..n : v[i] = u[i + 1]
        /\ u = <<x>> \o v
    BY <2>1, Popped
  <2> HIDE DEF x, v
  <2>3. Right(v)
    BY <1>2, <2>2
  <2>4. FlattenSeq(u) = x \o FlattenSeq(v)
    BY <2>2, FlattenPushed
  <2>5. /\ FlattenSeq(u) \in Seq(S)
        /\ Range(FlattenSeq(u)) = Range(x) \cup Range(FlattenSeq(v))
    <3>1. x \in Seq(S) /\ FlattenSeq(v) \in Seq(S)
      BY <2>2, <2>3
    <3> HIDE DEF Right
    <3> QED
      BY <2>4, <3>1, Concatenated
  <2>6. \A y : (\E i \in 1..Len(u) : y \in Range(u[i]))
                 <=> y \in Range(x) \/ \E i \in 1..Len(v) : y \in Range(v[i])
    <3>1. \A i \in 1..Len(u) : i = 1 \/ (i - 1 \in 1..n /\ v[i - 1] = u[i])
      BY <2>2
    <3>2. 1 \in 1..Len(u) /\ \A i \in 1..n : i + 1 \in 1..Len(u)
      OBVIOUS
    <3> QED
      BY <2>2, <3>1, <3>2
  <2> QED
    BY <2>3, <2>5, <2>6
<1> HIDE DEF T
<1>3. Len(ss) \in T
  BY <1>1, <1>2, SetInduction
<1> QED
  BY <1>3 DEF T

LEMMA EmptiesFlattened ==
  ASSUME NEW S, NEW ss \in Seq(Seq(S)), NEW n \in Nat
  PROVE  FlattenSeq([i \in 1..n |-> <<>>] \o ss) = FlattenSeq(ss)
<1>j. \A s, t \in Seq(Seq(S)) :
        /\ s \o t \in Seq(Seq(S)) /\ Len(s \o t) = Len(s) + Len(t)
        /\ \A i \in 1..Len(s) : (s \o t)[i] = s[i]
        /\ \A i \in 1..Len(t) : (s \o t)[Len(s) + i] = t[i]
  OBVIOUS
<1> DEFINE E(k) == [i \in 1..k |-> <<>>]
           T == {k \in Nat : FlattenSeq(E(k) \o ss) = FlattenSeq(ss)}
<1>0. \A k \in Nat : E(k) \in Seq(Seq(S)) /\ Len(E(k)) = k /\ \A i \in 1..k : E(k)[i] = <<>>
  <2> SUFFICES ASSUME NEW k \in Nat
               PROVE  E(k) \in Seq(Seq(S)) /\ Len(E(k)) = k /\ \A i \in 1..k : E(k)[i] = <<>>
    OBVIOUS
  <2>1. <<>> \in Seq(S)
    OBVIOUS
  <2>2. E(k) \in [1..k -> Seq(S)]
    BY <2>1
  <2> QED
    BY <2>2
<1> HIDE DEF E
<1>1. 0 \in T
  <2>1. E(0) = <<>>
    BY <1>0
  <2>2. <<>> \o ss = ss
    OBVIOUS
  <2> QED
    BY <2>1, <2>2
<1>2. ASSUME NEW k \in Nat, k \in T PROVE k + 1 \in T
  <2> DEFINE rest == E(k) \o ss
             all == E(k + 1) \o ss
             r == << <<>> >> \o rest
  <2>1. /\ rest \in Seq(Seq(S)) /\ Len(rest) = k + Len(ss)
        /\ \A i \in 1..k : rest[i] = <<>>
        /\ \A i \in 1..Len(ss) : rest[k + i] = ss[i]
    <3>1. E(k) \in Seq(Seq(S)) /\ Len(E(k)) = k /\ \A i \in 1..k : E(k)[i] = <<>>
      BY <1>0
    <3>2. /\ rest \in Seq(Seq(S)) /\ Len(rest) = Len(E(k)) + Len(ss)
          /\ \A i \in 1..Len(E(k)) : rest[i] = E(k)[i]
          /\ \A i \in 1..Len(ss) : rest[Len(E(k)) + i] = ss[i]
      BY <1>j, <3>1
    <3> HIDE DEF rest
    <3> QED
      BY <3>1, <3>2
  <2>2. /\ all \in Seq(Seq(S)) /\ Len(all) = (k + 1) + Len(ss)
        /\ \A i \in 1..k + 1 : all[i] = <<>>
        /\ \A i \in 1..Len(ss) : all[(k + 1) + i] = ss[i]
    <3>1. /\ k + 1 \in Nat
          /\ E(k + 1) \in Seq(Seq(S)) /\ Len(E(k + 1)) = k + 1
          /\ \A i \in 1..k + 1 : E(k + 1)[i] = <<>>
      BY <1>0
    <3>2. /\ all \in Seq(Seq(S)) /\ Len(all) = Len(E(k + 1)) + Len(ss)
          /\ \A i \in 1..Len(E(k + 1)) : all[i] = E(k + 1)[i]
          /\ \A i \in 1..Len(ss) : all[Len(E(k + 1)) + i] = ss[i]
      BY <1>j, <3>1
    <3> HIDE DEF all
    <3> QED
      BY <3>1, <3>2
  <2>3. <<>> \in Seq(S) /\ Len(ss) \in Nat
    OBVIOUS
  <2> HIDE DEF rest
  <2>4. /\ r \in Seq(Seq(S)) /\ Len(r) = Len(rest) + 1 /\ r[1] = <<>>
        /\ \A i \in 2..Len(r) : i - 1 \in 1..Len(rest) /\ r[i] = rest[i - 1]
    BY <2>1, <2>3, Pushed
  <2> HIDE DEF all, r
  <2>5. \A i \in 1..Len(all) : all[i] = r[i]
    <3> SUFFICES ASSUME NEW i \in 1..Len(all) PROVE all[i] = r[i]
      OBVIOUS
    <3>1. CASE i = 1
      BY <2>2, <2>4, <3>1
    <3>2. CASE i \in 2..k + 1
      <4>1. i - 1 \in 1..k /\ i \in 1..k + 1 /\ i \in 2..Len(r)
        BY <2>1, <2>3, <2>4, <3>2
      <4> QED
        BY <2>1, <2>2, <2>4, <4>1
    <3>3. CASE i > k + 1
      <4>1. /\ i - (k + 1) \in 1..Len(ss) /\ i = (k + 1) + (i - (k + 1))
            /\ i - 1 = k + (i - (k + 1)) /\ i \in 2..Len(r)
        BY <2>1, <2>2, <2>3, <2>4, <3>3
      <4> QED
        BY <2>1, <2>2, <2>4, <4>1
    <3> QED
      BY <2>2, <2>3, <3>1, <3>2, <3>3
  <2>6. all = r
    <3>1. Len(all) = Len(r)
      BY <2>1, <2>2, <2>3, <2>4
    <3> QED
      BY <2>2, <2>4, <2>5, <3>1, SeqEqual
  <2>7. FlattenSeq(r) = <<>> \o FlattenSeq(rest)
    BY <2>1, <2>3, FlattenPushed DEF r
  <2>8. <<>> \o FlattenSeq(rest) = FlattenSeq(rest)
    BY <2>1, Flattened
  <2>9. FlattenSeq(all) = FlattenSeq(rest)
    BY <2>6, <2>7, <2>8
  <2> QED
    BY <1>2, <2>9 DEF all, rest
<1> HIDE DEF T
<1>3. n \in T
  BY <1>1, <1>2, SetInduction
<1> QED
  BY <1>3 DEF T, E

-----------------------------------------------------------------------------
(* The parser.                                                               *)

Binding ==
  [prefix: PrefixTable, uri: Strings, behind: Strings \cup {None}, alloc: Nat, prev: Nat,
   att: AttIds \cup {NoAtt}]
OpenTag == [el: Elements, str: {Own} \cup (Nat \X Nat), bindings: Seq(Nat)]

BindingType(p) ==
  /\ p.binding \in Seq(Binding)
  /\ \A b \in 1..Len(p.binding) :
       p.binding[b].prev <= Len(p.binding) /\ Length[p.binding[b].uri] <= p.binding[b].alloc
  /\ p.prefixBinding \in [PrefixTable -> 0..Len(p.binding)]

ListType(p) ==
  /\ p.tagStack \in Seq(OpenTag) /\ p.freeTags \in Seq(Seq(Nat))
  /\ p.freeBindings \in Seq(Nat) /\ p.inherited \in Seq(Nat)

AttType(p) ==
  /\ p.flag \in [AttIds -> 0..2] /\ p.version \in 0..InitAttsVersion
  /\ DOMAIN p.nsAtts = IF p.power = 0 THEN {} ELSE 0..(2^p.power - 1)

StateType(p) ==
  /\ DOMAIN p = DOMAIN NewParser
  /\ p.state \in {"new", "open", "ended"}
  /\ p.state = "new" => p.inherited = <<>> /\ p.tagStack = <<>> /\ p.error = None

Typed(p) == BindingType(p) /\ ListType(p) /\ AttType(p) /\ StateType(p)

(* A BINDING is on one list; cur is the list of the tag that is being read.  *)
OfTags(stack) == [i \in DOMAIN stack |-> stack[i].bindings]
OpenLists(p) == FlattenSeq(OfTags(p.tagStack))

Owned(p, cur) ==
  Range(cur) \cup Range(OpenLists(p)) \cup Range(FlattenSeq(p.freeTags))
  \cup Range(p.freeBindings) \cup Range(p.inherited)

Apart(p, cur) ==
  /\ IsInjective(cur) /\ IsInjective(OpenLists(p)) /\ IsInjective(FlattenSeq(p.freeTags))
  /\ IsInjective(p.freeBindings) /\ IsInjective(p.inherited)
  /\ Range(cur) \cap Range(OpenLists(p)) = {}
  /\ Range(cur) \cap Range(FlattenSeq(p.freeTags)) = {}
  /\ Range(cur) \cap Range(p.freeBindings) = {}
  /\ Range(cur) \cap Range(p.inherited) = {}
  /\ Range(OpenLists(p)) \cap Range(FlattenSeq(p.freeTags)) = {}
  /\ Range(OpenLists(p)) \cap Range(p.freeBindings) = {}
  /\ Range(OpenLists(p)) \cap Range(p.inherited) = {}
  /\ Range(FlattenSeq(p.freeTags)) \cap Range(p.freeBindings) = {}
  /\ Range(FlattenSeq(p.freeTags)) \cap Range(p.inherited) = {}
  /\ Range(p.freeBindings) \cap Range(p.inherited) = {}

OneList(p, cur) == Apart(p, cur) /\ Owned(p, cur) \subseteq 1..Len(p.binding)

(* The bindings of the i-th open element, counted from the innermost, and of *)
(* those around it; a binding shadows one of its list or of the scope around.*)
Scope(p, i) ==
  Range(p.inherited) \cup UNION {Range(p.tagStack[k].bindings) : k \in i..Len(p.tagStack)}

Shadows(p, list, k, around) ==
  LET b == p.binding[list[k]]
  IN  b.prev # Null =>
        /\ b.prev \in around \cup {list[j] : j \in k + 1..Len(list)}
        /\ p.binding[b.prev].prefix = b.prefix

PrefixesInScope(p, cur) ==
  /\ \A q \in PrefixTable :
       p.prefixBinding[q] # Null =>
         /\ p.prefixBinding[q] \in Range(cur) \cup Scope(p, 1)
         /\ p.binding[p.prefixBinding[q]].prefix = q
  /\ \A k \in 1..Len(cur) : Shadows(p, cur, k, Scope(p, 1))

ShadowsInScope(p) ==
  \A i \in 1..Len(p.tagStack) : \A k \in 1..Len(p.tagStack[i].bindings) :
    Shadows(p, p.tagStack[i].bindings, k, Scope(p, i + 1))

(* The name of an open element lies in the buffer of a binding in its scope. *)
NamePlaced(p, tag, scope) ==
  LET b == tag.str[1]
  IN  tag.str # Own =>
        /\ b \in scope /\ p.binding[b].prefix = tag.el.prefix
        /\ p.binding[b].alloc = tag.str[2]
        /\ NameLen(tag.el, p.binding[b].uri) <= p.binding[b].alloc

NamesPlaced(p) == \A i \in 1..Len(p.tagStack) : NamePlaced(p, p.tagStack[i], Scope(p, i))

Live(p, cur) == PrefixesInScope(p, cur) /\ ShadowsInScope(p) /\ NamesPlaced(p)

FlagsClear(p) == \A a \in AttIds : p.flag[a] = 0

ParserInv(p) ==
  /\ Typed(p) /\ OneList(p, <<>>)
  /\ p.error = None => Live(p, <<>>) /\ FlagsClear(p)

-----------------------------------------------------------------------------
(* The lists and the scopes.                                                 *)
LEMMA EmptyRange == Range(<<>>) = {} /\ IsInjective(<<>>) /\ \A S : <<>> \in Seq(S)
BY DEF Range, IsInjective

LEMMA OfTagsType ==
  ASSUME NEW stack \in Seq(OpenTag)
  PROVE  /\ OfTags(stack) \in Seq(Seq(Nat)) /\ Len(OfTags(stack)) = Len(stack)
         /\ \A i \in 1..Len(stack) :
              /\ stack[i] \in OpenTag /\ stack[i].bindings \in Seq(Nat)
              /\ OfTags(stack)[i] = stack[i].bindings
<1>1. Len(stack) \in Nat /\ DOMAIN stack = 1..Len(stack)
  OBVIOUS
<1>2. \A i \in 1..Len(stack) : stack[i] \in OpenTag /\ stack[i].bindings \in Seq(Nat)
  <2>1. \A t \in OpenTag : t.bindings \in Seq(Nat)
    BY DEF OpenTag
  <2>2. \A i \in 1..Len(stack) : stack[i] \in OpenTag
    OBVIOUS
  <2> QED
    BY <2>1, <2>2
<1>3. OfTags(stack) = [i \in 1..Len(stack) |-> stack[i].bindings]
  BY <1>1 DEF OfTags
<1>4. OfTags(stack) \in [1..Len(stack) -> Seq(Nat)]
  BY <1>2, <1>3
<1> QED
  BY <1>1, <1>2, <1>3, <1>4

LEMMA ListsTyped ==
  ASSUME NEW p, ListType(p)
  PROVE  /\ OpenLists(p) \in Seq(Nat) /\ FlattenSeq(p.freeTags) \in Seq(Nat)
         /\ \A x : x \in Range(OpenLists(p))
                     <=> \E i \in 1..Len(p.tagStack) : x \in Range(p.tagStack[i].bindings)
<1>1. p.tagStack \in Seq(OpenTag) /\ p.freeTags \in Seq(Seq(Nat))
  BY DEF ListType
<1>2. /\ OfTags(p.tagStack) \in Seq(Seq(Nat)) /\ Len(OfTags(p.tagStack)) = Len(p.tagStack)
      /\ \A i \in 1..Len(p.tagStack) : OfTags(p.tagStack)[i] = p.tagStack[i].bindings
  BY <1>1, OfTagsType
<1>3. /\ OpenLists(p) \in Seq(Nat)
      /\ \A x : x \in Range(OpenLists(p))
                  <=> \E i \in 1..Len(OfTags(p.tagStack)) : x \in Range(OfTags(p.tagStack)[i])
  BY <1>2, Flattened DEF OpenLists
<1>4. FlattenSeq(p.freeTags) \in Seq(Nat)
  BY <1>1, Flattened
<1> QED
  BY <1>2, <1>3, <1>4

LEMMA ListsSplit ==
  ASSUME NEW p, ListType(p)
  PROVE  /\ Range(Lists(p)) = Owned(p, <<>>)
         /\ IsInjective(Lists(p)) <=> Apart(p, <<>>)
<1> DEFINE s == OpenLists(p)
           t == FlattenSeq(p.freeTags)
           u == p.freeBindings
           v == p.inherited
<1>1. s \in Seq(Nat) /\ t \in Seq(Nat) /\ u \in Seq(Nat) /\ v \in Seq(Nat)
  BY ListsTyped DEF ListType
<1>2. Lists(p) = ((s \o t) \o u) \o v
  BY DEF Lists, OpenLists, OfTags
<1>3. /\ Owned(p, <<>>) = Range(s) \cup Range(t) \cup Range(u) \cup Range(v)
      /\ Apart(p, <<>>) <=>
           /\ IsInjective(s) /\ IsInjective(t) /\ IsInjective(u) /\ IsInjective(v)
           /\ Range(s) \cap Range(t) = {} /\ Range(s) \cap Range(u) = {}
           /\ Range(s) \cap Range(v) = {} /\ Range(t) \cap Range(u) = {}
           /\ Range(t) \cap Range(v) = {} /\ Range(u) \cap Range(v) = {}
  BY EmptyRange DEF Owned, Apart
<1> HIDE DEF s, t, u, v
<1>4. /\ s \o t \in Seq(Nat) /\ Range(s \o t) = Range(s) \cup Range(t)
      /\ IsInjective(s \o t) <=>
           IsInjective(s) /\ IsInjective(t) /\ Range(s) \cap Range(t) = {}
  BY <1>1, Concatenated
<1> DEFINE st == s \o t
<1> HIDE DEF st
<1>5. /\ st \o u \in Seq(Nat) /\ Range(st \o u) = Range(st) \cup Range(u)
      /\ IsInjective(st \o u) <=>
           IsInjective(st) /\ IsInjective(u) /\ Range(st) \cap Range(u) = {}
  BY <1>1, <1>4, Concatenated DEF st
<1> DEFINE stu == st \o u
<1> HIDE DEF stu
<1>6. /\ Range(stu \o v) = Range(stu) \cup Range(v)
      /\ IsInjective(stu \o v) <=>
           IsInjective(stu) /\ IsInjective(v) /\ Range(stu) \cap Range(v) = {}
  BY <1>1, <1>5, Concatenated DEF stu
<1>7. Lists(p) = stu \o v
  BY <1>2 DEF stu, st
<1>8. /\ Range(st) = Range(s) \cup Range(t)
      /\ IsInjective(st) <=> IsInjective(s) /\ IsInjective(t) /\ Range(s) \cap Range(t) = {}
      /\ Range(stu) = Range(st) \cup Range(u)
      /\ IsInjective(stu) <=> IsInjective(st) /\ IsInjective(u) /\ Range(st) \cap Range(u) = {}
  BY <1>4, <1>5 DEF st, stu
<1> QED
  BY <1>3, <1>6, <1>7, <1>8

LEMMA ScopeFacts ==
  ASSUME NEW p, ListType(p)
  PROVE  /\ \A i \in 1..Len(p.tagStack) :
              /\ Scope(p, i) = Range(p.tagStack[i].bindings) \cup Scope(p, i + 1)
              /\ \A k \in 1..Len(p.tagStack[i].bindings) : p.tagStack[i].bindings[k] \in Scope(p, i)
         /\ \A i \in 1..Len(p.tagStack) + 1 :
              /\ Scope(p, i) \subseteq Scope(p, 1)
              /\ Scope(p, i) \subseteq Range(OpenLists(p)) \cup Range(p.inherited)
         /\ p.tagStack = <<>> => Scope(p, 1) = Range(p.inherited)
<1>1. p.tagStack \in Seq(OpenTag) /\ Len(p.tagStack) \in Nat
  BY DEF ListType
<1>2. \A i : \A x : x \in Scope(p, i) <=>
         x \in Range(p.inherited)
           \/ \E k \in i..Len(p.tagStack) : x \in Range(p.tagStack[k].bindings)
  BY DEF Scope
<1>3. ASSUME NEW i \in 1..Len(p.tagStack)
      PROVE  Scope(p, i) = Range(p.tagStack[i].bindings) \cup Scope(p, i + 1)
  <2>1. \A k \in i..Len(p.tagStack) : k = i \/ k \in i + 1..Len(p.tagStack)
    BY <1>1
  <2>2. i \in i..Len(p.tagStack) /\ i + 1..Len(p.tagStack) \subseteq i..Len(p.tagStack)
    BY <1>1
  <2> QED
    BY <1>2, <2>1, <2>2
<1>4. ASSUME NEW i \in 1..Len(p.tagStack), NEW k \in 1..Len(p.tagStack[i].bindings)
      PROVE  p.tagStack[i].bindings[k] \in Scope(p, i)
  <2>1. p.tagStack[i].bindings \in Seq(Nat)
    BY <1>1, OfTagsType
  <2>2. p.tagStack[i].bindings[k] \in Range(p.tagStack[i].bindings)
    BY <2>1 DEF Range
  <2> QED
    BY <1>3, <2>2
<1>5. ASSUME NEW i \in 1..Len(p.tagStack) + 1
      PROVE  /\ Scope(p, i) \subseteq Scope(p, 1)
             /\ Scope(p, i) \subseteq Range(OpenLists(p)) \cup Range(p.inherited)
  <2>1. i..Len(p.tagStack) \subseteq 1..Len(p.tagStack)
    BY <1>1
  <2> QED
    BY <1>2, <2>1, ListsTyped
<1>6. ASSUME p.tagStack = <<>> PROVE Scope(p, 1) = Range(p.inherited)
  <2>1. Len(p.tagStack) = 0 /\ 1..0 = {}
    BY <1>6
  <2>2. \A x : x \in Scope(p, 1) <=> x \in Range(p.inherited)
    BY <1>2, <2>1
  <2> QED
    BY <2>2
<1> QED
  BY <1>3, <1>4, <1>5, <1>6

-----------------------------------------------------------------------------
(* What of a binding the scopes are about stays.                             *)
Agree(p, r, U) ==
  \A c \in U : /\ r.binding[c].prefix = p.binding[c].prefix
               /\ r.binding[c].prev = p.binding[c].prev
               /\ r.binding[c].uri = p.binding[c].uri
               /\ r.binding[c].alloc = p.binding[c].alloc

SamePrefixes(p, r, U) ==
  \A c \in U : /\ r.binding[c].prefix = p.binding[c].prefix
               /\ r.binding[c].prev = p.binding[c].prev

LEMMA ShadowsKept ==
  ASSUME NEW p, NEW r, NEW list \in Seq(Nat), NEW around,
         SamePrefixes(p, r, Range(list) \cup around),
         NEW k \in 1..Len(list), Shadows(p, list, k, around)
  PROVE  Shadows(r, list, k, around)
<1>1. Len(list) \in Nat /\ DOMAIN list = 1..Len(list)
  OBVIOUS
<1>2. \A j \in 1..Len(list) : list[j] \in Range(list)
  BY <1>1 DEF Range
<1>3. {list[j] : j \in k + 1..Len(list)} \subseteq Range(list)
  <2>1. k + 1..Len(list) \subseteq 1..Len(list)
    BY <1>1
  <2> QED
    BY <1>2, <2>1
<1>4. /\ r.binding[list[k]].prev = p.binding[list[k]].prev
      /\ r.binding[list[k]].prefix = p.binding[list[k]].prefix
  BY <1>2 DEF SamePrefixes
<1>5. \A c \in around \cup {list[j] : j \in k + 1..Len(list)} :
        r.binding[c].prefix = p.binding[c].prefix
  BY <1>3 DEF SamePrefixes
<1> QED
  BY <1>4, <1>5 DEF Shadows

LEMMA StackKept ==
  ASSUME NEW p, NEW r, ListType(p), ListType(r),
         r.tagStack = p.tagStack, r.inherited = p.inherited, Agree(p, r, Scope(p, 1))
  PROVE  /\ \A i : Scope(r, i) = Scope(p, i)
         /\ ShadowsInScope(p) => ShadowsInScope(r)
         /\ NamesPlaced(p) => NamesPlaced(r)
<1>1. \A i : Scope(r, i) = Scope(p, i)
  BY DEF Scope
<1>2. p.tagStack \in Seq(OpenTag) /\ Len(p.tagStack) \in Nat
  BY DEF ListType
<1>3. ASSUME ShadowsInScope(p) PROVE ShadowsInScope(r)
  <2> SUFFICES ASSUME NEW i \in 1..Len(p.tagStack), NEW k \in 1..Len(p.tagStack[i].bindings)
               PROVE  Shadows(r, p.tagStack[i].bindings, k, Scope(p, i + 1))
    BY <1>1 DEF ShadowsInScope
  <2>1. Shadows(p, p.tagStack[i].bindings, k, Scope(p, i + 1))
    BY <1>3 DEF ShadowsInScope
  <2>2. p.tagStack[i].bindings \in Seq(Nat)
    BY <1>2, OfTagsType
  <2>3. Range(p.tagStack[i].bindings) \cup Scope(p, i + 1) \subseteq Scope(p, 1)
    <3>1. i + 1 \in 1..Len(p.tagStack) + 1 /\ i \in 1..Len(p.tagStack) + 1
      BY <1>2
    <3> QED
      BY <3>1, ScopeFacts
  <2>4. SamePrefixes(p, r, Range(p.tagStack[i].bindings) \cup Scope(p, i + 1))
    BY <2>3 DEF Agree, SamePrefixes
  <2> QED
    BY <2>1, <2>2, <2>4, ShadowsKept
<1>4. ASSUME NamesPlaced(p) PROVE NamesPlaced(r)
  <2> SUFFICES ASSUME NEW i \in 1..Len(p.tagStack)
               PROVE  NamePlaced(r, p.tagStack[i], Scope(p, i))
    BY <1>1 DEF NamesPlaced
  <2>1. NamePlaced(p, p.tagStack[i], Scope(p, i))
    BY <1>4 DEF NamesPlaced
  <2>2. Scope(p, i) \subseteq Scope(p, 1)
    BY <1>2, ScopeFacts
  <2> QED
    BY <2>1, <2>2 DEF NamePlaced, Agree
<1> QED
  BY <1>1, <1>3, <1>4

(* No BINDING is lost on the way from p to r, and new ones are on a list.    *)
Kept(p, cur, r, cur2) ==
  /\ Len(p.binding) <= Len(r.binding)
  /\ Owned(p, cur) \subseteq Owned(r, cur2)
  /\ \A b \in 1..Len(r.binding) : b \in 1..Len(p.binding) \/ b \in Owned(r, cur2)

LEMMA KeptOn ==
  ASSUME NEW p, NEW r, NEW u, NEW c1, NEW c2, NEW c3, BindingType(p), BindingType(r),
         BindingType(u), Kept(p, c1, r, c2), Kept(r, c2, u, c3)
  PROVE  Kept(p, c1, u, c3)
<1>1. Len(p.binding) \in Nat /\ Len(r.binding) \in Nat /\ Len(u.binding) \in Nat
  BY DEF BindingType
<1> QED
  BY <1>1 DEF Kept

LEMMA BindingFields ==
  ASSUME NEW d \in Binding
  PROVE  /\ d.prefix \in PrefixTable /\ d.uri \in Strings /\ d.alloc \in Nat /\ d.prev \in Nat
         /\ DOMAIN d = {"prefix", "uri", "behind", "alloc", "prev", "att"}
         /\ d.behind \in Strings \cup {None} /\ d.att \in AttIds \cup {NoAtt}
BY DEF Binding

(* A BINDING that is on no list, or was the head of the free ones, becomes   *)
(* the head of the current list and is bound to the prefix q.                *)
Adds(p, r, cur, b, q) ==
  /\ ListType(r) /\ r.binding \in Seq(Binding) /\ b \in 1..Len(r.binding)
  /\ Len(p.binding) <= Len(r.binding)
  /\ \A c \in 1..Len(r.binding) : c = b \/ c \in 1..Len(p.binding)
  /\ \A c \in 1..Len(p.binding) : c # b => r.binding[c] = p.binding[c]
  /\ r.binding[b].prefix = q /\ r.binding[b].prev = p.prefixBinding[q]
  /\ Length[r.binding[b].uri] <= r.binding[b].alloc
  /\ r.prefixBinding \in {[p.prefixBinding EXCEPT ![q] = Null], [p.prefixBinding EXCEPT ![q] = b]}
  /\ IsInjective(r.freeBindings) /\ Range(r.freeBindings) = Range(p.freeBindings) \ {b}
  /\ b \notin Owned(p, cur) \/ b \in Range(p.freeBindings)
  /\ r.tagStack = p.tagStack /\ r.freeTags = p.freeTags /\ r.inherited = p.inherited

LEMMA BindingAdded ==
  ASSUME NEW p, NEW r, NEW cur \in Seq(Nat), NEW b \in Nat, NEW q \in PrefixTable,
         Typed(p), OneList(p, cur), Adds(p, r, cur, b, q)
  PROVE  /\ BindingType(r) /\ OneList(r, <<b>> \o cur) /\ Kept(p, cur, r, <<b>> \o cur)
         /\ Live(p, cur) => Live(r, <<b>> \o cur)
<1> DEFINE new == <<b>> \o cur
<1>0. /\ new \in Seq(Nat) /\ Len(new) = Len(cur) + 1 /\ new[1] = b
      /\ \A i \in 1..Len(cur) : new[i + 1] = cur[i]
      /\ \A i \in 2..Len(new) : i - 1 \in 1..Len(cur) /\ new[i] = cur[i - 1]
  BY Pushed
<1>a. Adds(p, r, cur, b, q)
  OBVIOUS
<1> USE <1>a DEF Adds
<1>1. /\ Len(p.binding) \in Nat /\ Len(r.binding) \in Nat /\ Len(cur) \in Nat
      /\ p.prefixBinding \in [PrefixTable -> 0..Len(p.binding)]
      /\ BindingType(p) /\ ListType(p)
  BY DEF Typed, BindingType
<1>2. BindingType(r)
  <2>1. r.prefixBinding \in [PrefixTable -> 0..Len(r.binding)]
    <3>1. /\ p.prefixBinding \in [PrefixTable -> 0..Len(r.binding)]
          /\ 0 \in 0..Len(r.binding) /\ b \in 0..Len(r.binding)
      BY <1>1
    <3> QED
      BY <3>1 DEF Null
  <2>2. ASSUME NEW c \in 1..Len(r.binding)
        PROVE  r.binding[c].prev <= Len(r.binding) /\ Length[r.binding[c].uri] <= r.binding[c].alloc
    <3>1. CASE c = b
      <4>1. p.prefixBinding[q] \in 0..Len(p.binding)
        BY <1>1
      <4> QED
        BY <1>1, <3>1, <4>1
    <3>2. CASE c # b
      <4>1. c \in 1..Len(p.binding) /\ r.binding[c] = p.binding[c]
        BY <3>2
      <4>2. p.binding[c].prev <= Len(p.binding) /\ Length[p.binding[c].uri] <= p.binding[c].alloc
        BY <1>1, <4>1 DEF BindingType
      <4>3. p.binding[c].prev \in Nat
        BY <1>1, <4>1, BindingFields DEF BindingType
      <4> QED
        BY <1>1, <4>1, <4>2, <4>3
    <3> QED
      BY <3>1, <3>2
  <2> QED
    BY <2>1, <2>2 DEF BindingType
<1>4. /\ Range(new) = {b} \cup Range(cur)
      /\ IsInjective(new) <=> IsInjective(cur) /\ b \notin Range(cur)
  <2>1. <<b>> \in Seq(Nat) /\ Range(<<b>>) = {b} /\ IsInjective(<<b>>)
    BY DEF Range, IsInjective
  <2>2. /\ Range(<<b>> \o cur) = Range(<<b>>) \cup Range(cur)
        /\ IsInjective(<<b>> \o cur) <=>
             IsInjective(<<b>>) /\ IsInjective(cur) /\ Range(<<b>>) \cap Range(cur) = {}
    BY <2>1, Concatenated
  <2> QED
    BY <2>1, <2>2
<1> HIDE DEF new
<1>5. b \notin Range(cur) \cup Range(OpenLists(p)) \cup Range(FlattenSeq(p.freeTags)) \cup Range(p.inherited)
  BY DEF OneList, Apart, Owned
<1>6. /\ OpenLists(r) = OpenLists(p) /\ \A i : Scope(r, i) = Scope(p, i)
      /\ Owned(r, new) = Owned(p, cur) \cup {b}
  <2>1. OpenLists(r) = OpenLists(p) /\ \A i : Scope(r, i) = Scope(p, i)
    BY DEF OpenLists, Scope
  <2> QED
    BY <1>4, <2>1 DEF Owned
<1>7. OneList(r, new)
  <2>1. Apart(r, new)
    BY <1>4, <1>5, <1>6 DEF OneList, Apart
  <2>2. Owned(r, new) \subseteq 1..Len(r.binding)
    BY <1>1, <1>6 DEF OneList
  <2> QED
    BY <2>1, <2>2 DEF OneList
<1>8. Kept(p, cur, r, new)
  BY <1>6 DEF Kept
<1>9. ASSUME Live(p, cur) PROVE Live(r, new)
  <2>1. Scope(p, 1) \subseteq Range(OpenLists(p)) \cup Range(p.inherited)
    <3>1. 1 \in 1..Len(p.tagStack) + 1
      BY <1>1 DEF ListType
    <3> QED
      BY <1>1, <3>1, ScopeFacts
  <2>2. Range(cur) \cup Scope(p, 1) \subseteq 1..Len(p.binding) /\ b \notin Range(cur) \cup Scope(p, 1)
    BY <1>5, <2>1 DEF OneList, Owned
  <2>3. Agree(p, r, Range(cur) \cup Scope(p, 1))
    BY <2>2 DEF Agree
  <2>4. ShadowsInScope(r) /\ NamesPlaced(r)
    BY <1>1, <1>9, <2>3, StackKept DEF Live, Agree
  <2>5. ASSUME NEW x \in PrefixTable, r.prefixBinding[x] # Null
        PROVE  /\ r.prefixBinding[x] \in Range(new) \cup Scope(r, 1)
               /\ r.binding[r.prefixBinding[x]].prefix = x
    <3>1. CASE x = q
      <4>1. r.prefixBinding[x] = b
        BY <1>1, <2>5, <3>1
      <4> QED
        BY <1>4, <3>1, <4>1
    <3>2. CASE x # q
      <4>1. r.prefixBinding[x] = p.prefixBinding[x]
        BY <1>1, <3>2
      <4>2. /\ p.prefixBinding[x] \in Range(cur) \cup Scope(p, 1)
            /\ p.binding[p.prefixBinding[x]].prefix = x
        BY <1>9, <2>5, <4>1 DEF Live, PrefixesInScope
      <4> QED
        BY <1>4, <1>6, <2>3, <4>1, <4>2 DEF Agree
    <3> QED
      BY <3>1, <3>2
  <2>6. ASSUME NEW k \in 1..Len(new) PROVE Shadows(r, new, k, Scope(r, 1))
    <3>1. CASE k = 1
      <4>1. {new[j] : j \in 2..Len(new)} = Range(cur)
        <5>1. \A j \in 2..Len(new) : j - 1 \in 1..Len(cur) /\ new[j] = cur[j - 1]
          BY <1>1, <1>0
        <5>2. \A j \in 1..Len(cur) : j + 1 \in 2..Len(new) /\ new[j + 1] = cur[j]
          BY <1>1, <1>0
        <5>3. \A x : x \in Range(cur) <=> \E j \in 1..Len(cur) : x = cur[j]
          BY DEF Range
        <5>4. \A x \in Range(cur) : \E j \in 2..Len(new) : x = new[j]
          BY <5>2, <5>3
        <5>5. \A j \in 2..Len(new) : new[j] \in Range(cur)
          BY <5>1, <5>3
        <5> QED
          BY <5>4, <5>5
      <4>2. p.prefixBinding[q] # Null =>
              /\ p.prefixBinding[q] \in Range(cur) \cup Scope(p, 1)
              /\ p.binding[p.prefixBinding[q]].prefix = q
        BY <1>9 DEF Live, PrefixesInScope
      <4>3. p.prefixBinding[q] # Null => r.binding[p.prefixBinding[q]].prefix = q
        BY <2>3, <4>2 DEF Agree
      <4>4. new[k] = b /\ k + 1 = 2
        BY <1>0, <3>1
      <4> QED
        BY <1>6, <4>1, <4>2, <4>3, <4>4 DEF Shadows
    <3>2. CASE k # 1
      <4>1. k - 1 \in 1..Len(cur) /\ new[k] = cur[k - 1]
        <5>1. k \in 2..Len(new)
          BY <1>1, <1>0, <3>2
        <5> QED
          BY <1>0, <5>1
      <4>2. Shadows(r, cur, k - 1, Scope(p, 1))
        <5>1. Shadows(p, cur, k - 1, Scope(p, 1))
          BY <1>9, <4>1 DEF Live, PrefixesInScope
        <5>2. SamePrefixes(p, r, Range(cur) \cup Scope(p, 1))
          BY <2>3 DEF Agree, SamePrefixes
        <5> QED
          BY <4>1, <5>1, <5>2, ShadowsKept
      <4>3. {cur[j] : j \in (k - 1) + 1..Len(cur)} \subseteq {new[j] : j \in k + 1..Len(new)}
        <5>1. \A j \in (k - 1) + 1..Len(cur) : j + 1 \in k + 1..Len(new) /\ new[j + 1] = cur[j]
          BY <1>1, <1>0, <4>1
        <5>2. ASSUME NEW j \in (k - 1) + 1..Len(cur) PROVE cur[j] \in {new[i] : i \in k + 1..Len(new)}
          BY <5>1
        <5> SUFFICES ASSUME NEW x \in {cur[j] : j \in (k - 1) + 1..Len(cur)}
                     PROVE  x \in {new[j] : j \in k + 1..Len(new)}
          OBVIOUS
        <5>3. PICK j \in (k - 1) + 1..Len(cur) : x = cur[j]
          OBVIOUS
        <5> QED
          BY <5>2, <5>3
      <4> QED
        BY <1>6, <4>1, <4>2, <4>3 DEF Shadows
    <3> QED
      BY <3>1, <3>2
  <2> QED
    BY <2>4, <2>5, <2>6 DEF Live, PrefixesInScope
<1> QED
  BY <1>2, <1>7, <1>8, <1>9 DEF new

-----------------------------------------------------------------------------
(* A call at work on the parser p.                                           *)
FrameType(F) ==
  /\ DOMAIN F = {"p", "bindings", "appAtts", "atts", "uriNames", "name", "str", "calls", "error"}
  /\ F.bindings \in Seq(Nat) /\ F.appAtts \in Seq(AttIds) /\ F.str = Own

SameParser(p, r) ==
  /\ r.error = p.error /\ r.state = p.state
  /\ r.tagStack = p.tagStack /\ r.freeTags = p.freeTags /\ r.inherited = p.inherited

FrameInv(p, F) ==
  /\ FrameType(F) /\ Typed(F.p) /\ SameParser(p, F.p)
  /\ OneList(F.p, F.bindings) /\ Kept(p, <<>>, F.p, F.bindings)
  /\ F.error = None => Live(F.p, F.bindings)

LEMMA ParserFields ==
  DOMAIN NewParser =
    {"prefixBinding", "binding", "freeBindings", "inherited", "tagStack", "freeTags", "flag",
     "power", "version", "nsAtts", "state", "error"}
BY DEF NewParser

LEMMA HeadApart ==
  ASSUME NEW S, NEW s \in Seq(S), s # <<>>
  PROVE  /\ Head(s) \in Range(s) /\ Range(s) = {Head(s)} \cup Range(Tail(s))
         /\ IsInjective(s) => IsInjective(Tail(s)) /\ Head(s) \notin Range(Tail(s))
<1>1. Head(s) \in S /\ Tail(s) \in Seq(S) /\ s = <<Head(s)>> \o Tail(s)
  BY Popped
<1> DEFINE x == Head(s)
           u == Tail(s)
<1> HIDE DEF x, u
<1>2. /\ <<x>> \in Seq(S) /\ Range(<<x>>) = {x}
  BY <1>1 DEF Range, x
<1>3. /\ Range(<<x>> \o u) = Range(<<x>>) \cup Range(u)
      /\ IsInjective(<<x>> \o u) <=>
           IsInjective(<<x>>) /\ IsInjective(u) /\ Range(<<x>>) \cap Range(u) = {}
  BY <1>1, <1>2, Concatenated DEF u
<1> QED
  BY <1>1, <1>2, <1>3 DEF x, u

Added(F, G, att) ==
  /\ G.appAtts = F.appAtts /\ G.p.flag = F.p.flag
  /\ G.error = None =>
       \E b \in Nat : /\ G.bindings = <<b>> \o F.bindings /\ G.p.binding[b].att = att
                      /\ \A c \in Range(F.bindings) : G.p.binding[c] = F.p.binding[c]

LEMMA AddBinding ==
  ASSUME NEW p, NEW F, BindingType(p), FrameInv(p, F), F.error = None,
         NEW prefix \in PrefixTable, NEW att \in AttIds \cup {NoAtt}, NEW uri \in Strings
  PROVE  LET G == addBinding(F, prefix, att, uri)
         IN  FrameInv(p, G) /\ Added(F, G, att)
<1> DEFINE G == addBinding(F, prefix, att, uri)
           P == F.p
           r == G.p
           len == Length[uri]
           reused == P.freeBindings # <<>>
           b == IF reused THEN Head(P.freeBindings) ELSE Len(P.binding) + 1
           alloc == IF reused /\ len <= P.binding[b].alloc THEN P.binding[b].alloc ELSE len + ExpandSpare
           new == [prefix |-> prefix, uri |-> uri, behind |-> None, alloc |-> alloc,
                   prev |-> P.prefixBinding[prefix], att |-> att]
<1>1. /\ FrameType(F) /\ Typed(P) /\ SameParser(p, P) /\ OneList(P, F.bindings)
      /\ Kept(p, <<>>, P, F.bindings) /\ Live(P, F.bindings)
      /\ F.bindings \in Seq(Nat)
  BY DEF FrameInv, FrameType
<1>2. CASE Refusal(prefix, uri) # None
  <2>1. G = [F EXCEPT !.error = Refusal(prefix, uri)]
    BY <1>2 DEF addBinding
  <2> HIDE DEF G
  <2>2. /\ FrameType(G) /\ G.p = P /\ G.bindings = F.bindings /\ G.appAtts = F.appAtts /\ G.str = F.str
        /\ G.error # None
    BY <1>1, <1>2, <2>1 DEF FrameType
  <2> QED
    BY <1>1, <2>2 DEF G, FrameInv, Added
<1>3. CASE Refusal(prefix, uri) = None
  <2>1. G = [F EXCEPT
             !.p.binding = IF reused THEN [@ EXCEPT ![b] = new] ELSE Append(@, new),
             !.p.freeBindings = IF reused THEN Tail(@) ELSE @,
             !.p.prefixBinding[prefix] = IF uri = "" THEN Null ELSE b,
             !.bindings = <<b>> \o @,
             !.calls = IF att = NoAtt THEN @ ELSE Append(@, StartNamespaceDecl(prefix, uri))]
    BY <1>3 DEF addBinding
  <2> HIDE DEF G, b, new, P, reused
  <2>2. DOMAIN F = {"p", "bindings", "appAtts", "atts", "uriNames", "name", "str", "calls", "error"}
    BY <1>1 DEF FrameType
  <2>3. DOMAIN F.p = {"prefixBinding", "binding", "freeBindings", "inherited", "tagStack", "freeTags",
                      "flag", "power", "version", "nsAtts", "state", "error"}
    BY <1>1, ParserFields DEF Typed, StateType, P
  <2>t. /\ BindingType(P) /\ ListType(P) /\ P.binding \in Seq(Binding)
        /\ Len(P.binding) \in Nat /\ P.freeBindings \in Seq(Nat)
        /\ P.prefixBinding \in [PrefixTable -> 0..Len(P.binding)]
    BY <1>1 DEF Typed, BindingType, ListType
  <2>b. /\ b \in Nat
        /\ reused => /\ b \in 1..Len(P.binding) /\ b \in Range(P.freeBindings)
                     /\ IsInjective(Tail(P.freeBindings)) /\ Tail(P.freeBindings) \in Seq(Nat)
                     /\ Range(Tail(P.freeBindings)) = Range(P.freeBindings) \ {b}
        /\ ~reused => b = Len(P.binding) + 1 /\ P.freeBindings = <<>>
    <3>1. CASE reused
      <4>1. b = Head(P.freeBindings) /\ P.freeBindings # <<>>
        BY <3>1 DEF b, reused
      <4>2. IsInjective(P.freeBindings) /\ Range(P.freeBindings) \subseteq 1..Len(P.binding)
        BY <1>1 DEF OneList, Apart, Owned
      <4>3. /\ b \in Range(P.freeBindings) /\ IsInjective(Tail(P.freeBindings))
            /\ Range(Tail(P.freeBindings)) = Range(P.freeBindings) \ {b}
            /\ Tail(P.freeBindings) \in Seq(Nat)
        BY <2>t, <4>1, <4>2, HeadApart, Popped
      <4> QED
        BY <3>1, <4>2, <4>3
    <3>2. CASE ~reused
      BY <2>t, <3>2 DEF b, reused
    <3> QED
      BY <3>1, <3>2
  <2>n. /\ new \in Binding /\ new.prefix = prefix /\ new.prev = P.prefixBinding[prefix]
        /\ Length[new.uri] <= new.alloc /\ new.att = att
    <3>1. len \in Nat /\ ExpandSpare \in Nat /\ P.prefixBinding[prefix] \in Nat
      BY <2>t, NamespacesAssumption
    <3>2. alloc \in Nat /\ len <= alloc
      <4>1. CASE reused /\ len <= P.binding[b].alloc
        <5>1. P.binding[b].alloc \in Nat
          BY <2>b, <2>t, <4>1, BindingFields
        <5> QED
          BY <4>1, <5>1
      <4>2. CASE ~(reused /\ len <= P.binding[b].alloc)
        BY <3>1, <4>2
      <4> QED
        BY <4>1, <4>2
    <3> HIDE DEF alloc
    <3> QED
      BY <3>1, <3>2 DEF new, Binding
  <2>4. /\ FrameType(G) /\ G.bindings = <<b>> \o F.bindings /\ G.appAtts = F.appAtts
        /\ G.error = F.error
    <3>1. /\ DOMAIN G = DOMAIN F /\ G.bindings = <<b>> \o F.bindings /\ G.appAtts = F.appAtts /\ G.str = F.str
          /\ G.error = F.error
      BY <2>1, <2>2
    <3> QED
      BY <1>1, <2>2, <2>b, <3>1, Pushed DEF FrameType
  <2>5. /\ DOMAIN r = DOMAIN P /\ r.state = P.state /\ r.error = P.error
        /\ r.tagStack = P.tagStack /\ r.freeTags = P.freeTags /\ r.inherited = P.inherited
        /\ r.flag = P.flag /\ r.power = P.power /\ r.version = P.version /\ r.nsAtts = P.nsAtts
    BY <2>1, <2>2, <2>3 DEF P
  <2>6. /\ r.binding = IF reused THEN [P.binding EXCEPT ![b] = new] ELSE Append(P.binding, new)
        /\ r.freeBindings = IF reused THEN Tail(P.freeBindings) ELSE P.freeBindings
        /\ r.prefixBinding = [P.prefixBinding EXCEPT ![prefix] = IF uri = "" THEN Null ELSE b]
    BY <2>1, <2>2, <2>3 DEF P
  <2>7. /\ r.binding \in Seq(Binding) /\ r.binding[b] = new /\ b \in 1..Len(r.binding)
        /\ Len(P.binding) <= Len(r.binding)
        /\ \A c \in 1..Len(r.binding) : c = b \/ c \in 1..Len(P.binding)
        /\ \A c \in 1..Len(P.binding) : c # b => r.binding[c] = P.binding[c]
    <3>1. CASE reused
      <4>1. r.binding = [P.binding EXCEPT ![b] = new] /\ b \in 1..Len(P.binding)
        BY <2>6, <2>b, <3>1
      <4> QED
        BY <2>n, <2>t, <4>1
    <3>2. CASE ~reused
      <4>1. r.binding = Append(P.binding, new) /\ b = Len(P.binding) + 1
        BY <2>6, <2>b, <3>2
      <4> QED
        BY <2>n, <2>t, <4>1
    <3> QED
      BY <3>1, <3>2
  <2>8. /\ IsInjective(r.freeBindings) /\ Range(r.freeBindings) = Range(P.freeBindings) \ {b}
        /\ b \notin Owned(P, F.bindings) \/ b \in Range(P.freeBindings)
        /\ r.freeBindings \in Seq(Nat)
    <3>1. CASE reused
      BY <2>6, <2>b, <3>1
    <3>2. CASE ~reused
      <4>1. b \notin Owned(P, F.bindings)
        BY <1>1, <2>b, <2>t, <3>2 DEF OneList
      <4>2. IsInjective(P.freeBindings) /\ Range(P.freeBindings) \subseteq Owned(P, F.bindings)
        BY <1>1 DEF OneList, Apart, Owned
      <4> QED
        BY <2>6, <2>t, <3>2, <4>1, <4>2
    <3> QED
      BY <3>1, <3>2
  <2>9. r.prefixBinding \in {[P.prefixBinding EXCEPT ![prefix] = Null],
                             [P.prefixBinding EXCEPT ![prefix] = b]}
    BY <2>6
  <2> HIDE DEF r
  <2>10. ListType(r)
    BY <2>5, <2>8, <2>t DEF ListType
  <2>11. /\ BindingType(r) /\ OneList(r, <<b>> \o F.bindings)
         /\ Kept(P, F.bindings, r, <<b>> \o F.bindings) /\ Live(r, <<b>> \o F.bindings)
    <3>1. /\ r.binding[b].prefix = prefix /\ r.binding[b].prev = P.prefixBinding[prefix]
          /\ Length[r.binding[b].uri] <= r.binding[b].alloc
      BY <2>7, <2>n
    <3>2. /\ r.tagStack = P.tagStack /\ r.freeTags = P.freeTags /\ r.inherited = P.inherited
          /\ b \in Nat /\ F.bindings \in Seq(Nat)
      BY <1>1, <2>5, <2>b
    <3>3. Typed(P) /\ OneList(P, F.bindings) /\ Live(P, F.bindings)
      BY <1>1
    <3>4. Adds(P, r, F.bindings, b, prefix)
      BY <2>7, <2>8, <2>9, <2>10, <3>1, <3>2 DEF Adds
    <3> QED
      BY <3>2, <3>3, <3>4, BindingAdded
  <2>12. Typed(r) /\ SameParser(p, r)
    BY <1>1, <2>5, <2>10, <2>11 DEF Typed, AttType, StateType, SameParser
  <2>13. Kept(p, <<>>, r, G.bindings)
    BY <1>1, <2>4, <2>11, <2>t, KeptOn
  <2>14. FrameInv(p, G)
    BY <2>4, <2>11, <2>12, <2>13 DEF FrameInv, r
  <2>15. ASSUME NEW c \in Range(F.bindings) PROVE r.binding[c] = P.binding[c]
    <3>1. c \in 1..Len(P.binding) /\ c # b
      BY <1>1, <2>8 DEF OneList, Owned, Apart
    <3> QED
      BY <2>7, <3>1
  <2>16. r.binding[b].att = att /\ r.flag = F.p.flag
    BY <2>5, <2>7, <2>n DEF P
  <2>17. \E d \in Nat : /\ G.bindings = <<d>> \o F.bindings /\ r.binding[d].att = att
                         /\ \A c \in Range(F.bindings) : r.binding[c] = F.p.binding[c]
    BY <2>4, <2>15, <2>16, <2>b DEF P
  <2> QED
    BY <2>4, <2>14, <2>16, <2>17 DEF r, G, Added
<1> QED
  BY <1>2, <1>3

-----------------------------------------------------------------------------
(* The loops, one round after the other.                                     *)
(* freeBindings.                                                             *)
Unbinds(f, p, list) ==
  /\ f[0] = p.prefixBinding
  /\ \A i \in 1..Len(list) :
       f[i] = [f[i - 1] EXCEPT ![p.binding[list[i]].prefix] = p.binding[list[i]].prev]
  /\ Unbound(p, list) = f[Len(list)]

LEMMA UnboundBy ==
  ASSUME NEW p, NEW list \in Seq(Nat)
  PROVE  \E f : Unbinds(f, p, list)
<1> DEFINE Step(x, i) == [x EXCEPT ![p.binding[list[i]].prefix] = p.binding[list[i]].prev]
           Upto(f, k) == f = [i \in 0..k |-> IF i = 0 THEN p.prefixBinding ELSE Step(f[i - 1], i)]
           T == {k \in Nat : \E f : Upto(f, k)}
<1> HIDE DEF Step
<1>1. 0 \in T
  <2> DEFINE f == [i \in 0..0 |-> p.prefixBinding]
  <2>1. Upto(f, 0)
    OBVIOUS
  <2> QED
    BY <2>1
<1>2. ASSUME NEW k \in Nat, k \in T PROVE k + 1 \in T
  <2>1. PICK f : Upto(f, k)
    BY <1>2
  <2> DEFINE g == [i \in 0..k + 1 |-> IF i = k + 1 THEN Step(f[k], k + 1) ELSE f[i]]
  <2>2. \A i \in 0..k : f[i] = IF i = 0 THEN p.prefixBinding ELSE Step(f[i - 1], i)
    BY <2>1
  <2>3. \A i \in 0..k + 1 : g[i] = IF i = 0 THEN p.prefixBinding ELSE Step(g[i - 1], i)
    <3>1. (\A i \in 0..k : g[i] = f[i]) /\ g[k + 1] = Step(f[k], k + 1)
      OBVIOUS
    <3> SUFFICES ASSUME NEW i \in 0..k + 1
                 PROVE  g[i] = IF i = 0 THEN p.prefixBinding ELSE Step(g[i - 1], i)
      OBVIOUS
    <3> HIDE DEF g
    <3>2. CASE i = k + 1
      <4>1. (k + 1) - 1 = k /\ k \in 0..k /\ k + 1 # 0
        OBVIOUS
      <4> QED
        BY <3>1, <3>2, <4>1
    <3>3. CASE i # k + 1
      <4>1. i \in 0..k /\ (i # 0 => i - 1 \in 0..k)
        BY <3>3
      <4> QED
        BY <2>2, <3>1, <4>1
    <3> QED
      BY <3>2, <3>3
  <2>4. g = [i \in 0..k + 1 |-> g[i]]
    OBVIOUS
  <2> HIDE DEF g
  <2>5. Upto(g, k + 1)
    BY <2>3, <2>4
  <2> HIDE DEF Upto
  <2> QED
    BY <2>5
<1> HIDE DEF T
<1>3. Len(list) \in T
  BY <1>1, <1>2, SetInduction
<1> DEFINE f == CHOOSE f : Upto(f, Len(list))
<1>4. Upto(f, Len(list))
  BY <1>3 DEF T
<1>5. Unbound(p, list) = f[Len(list)]
  BY DEF Unbound, Step
<1> DEFINE n == Len(list)
<1> HIDE DEF f
<1>6. n \in Nat
  OBVIOUS
<1>8. Upto(f, n)
  BY <1>4
<1> HIDE DEF n
<1>7. f[0] = p.prefixBinding /\ \A i \in 1..n : f[i] = Step(f[i - 1], i)
  BY <1>6, <1>8
<1> HIDE DEF Upto
<1>9. Unbinds(f, p, list)
  BY <1>5, <1>7 DEF Step, n, Unbinds
<1> QED
  BY <1>9

(* The two loops of storeAtts that collect the attributes.                   *)
LEMMA CollectedBy ==
  ASSUME NEW p, NEW el \in Elements, NEW atts \in Seq(Attribute), Defaults[el] \in Seq(Attribute)
  PROVE  \E f : /\ f[0] = Frame(p)
                /\ \A i \in 1..Len(atts \o Defaults[el]) :
                     f[i] = (IF i <= Len(atts)
                             THEN SpecifiedAtt(f[i - 1], (atts \o Defaults[el])[i])
                             ELSE DefaultAtt(f[i - 1], (atts \o Defaults[el])[i]))
                /\ Collected(p, el, atts) = f[Len(atts \o Defaults[el])]
<1> DEFINE Step(x, i) == (IF i <= Len(atts) THEN SpecifiedAtt(x, (atts \o Defaults[el])[i])
                          ELSE DefaultAtt(x, (atts \o Defaults[el])[i]))
           Upto(f, k) == f = [i \in 0..k |-> IF i = 0 THEN Frame(p) ELSE Step(f[i - 1], i)]
           T == {k \in Nat : \E f : Upto(f, k)}
<1> HIDE DEF Step
<1>1. 0 \in T
  <2> DEFINE f == [i \in 0..0 |-> Frame(p)]
  <2>1. Upto(f, 0)
    OBVIOUS
  <2> QED
    BY <2>1
<1>2. ASSUME NEW k \in Nat, k \in T PROVE k + 1 \in T
  <2>1. PICK f : Upto(f, k)
    BY <1>2
  <2> DEFINE g == [i \in 0..k + 1 |-> IF i = k + 1 THEN Step(f[k], k + 1) ELSE f[i]]
  <2>2. \A i \in 0..k : f[i] = IF i = 0 THEN Frame(p) ELSE Step(f[i - 1], i)
    BY <2>1
  <2>3. \A i \in 0..k + 1 : g[i] = IF i = 0 THEN Frame(p) ELSE Step(g[i - 1], i)
    <3>1. (\A i \in 0..k : g[i] = f[i]) /\ g[k + 1] = Step(f[k], k + 1)
      OBVIOUS
    <3> SUFFICES ASSUME NEW i \in 0..k + 1
                 PROVE  g[i] = IF i = 0 THEN Frame(p) ELSE Step(g[i - 1], i)
      OBVIOUS
    <3> HIDE DEF g
    <3>2. CASE i = k + 1
      <4>1. (k + 1) - 1 = k /\ k \in 0..k /\ k + 1 # 0
        OBVIOUS
      <4> QED
        BY <3>1, <3>2, <4>1
    <3>3. CASE i # k + 1
      <4>1. i \in 0..k /\ (i # 0 => i - 1 \in 0..k)
        BY <3>3
      <4> QED
        BY <2>2, <3>1, <4>1
    <3> QED
      BY <3>2, <3>3
  <2>4. g = [i \in 0..k + 1 |-> g[i]]
    OBVIOUS
  <2> HIDE DEF g
  <2>5. Upto(g, k + 1)
    BY <2>3, <2>4
  <2> HIDE DEF Upto
  <2> QED
    BY <2>5
<1> HIDE DEF T
<1>3. Len(atts \o Defaults[el]) \in T
  BY <1>1, <1>2, SetInduction
<1> DEFINE f == CHOOSE f : Upto(f, Len(atts \o Defaults[el]))
<1>4. Upto(f, Len(atts \o Defaults[el]))
  BY <1>3 DEF T
<1>5. Collected(p, el, atts) = f[Len(atts \o Defaults[el])]
  BY DEF Collected, Step
<1> DEFINE n == Len(atts \o Defaults[el])
<1> HIDE DEF f
<1>6. n \in Nat
  OBVIOUS
<1>8. Upto(f, n)
  BY <1>4
<1> HIDE DEF n
<1>7. f[0] = Frame(p) /\ \A i \in 1..n : f[i] = Step(f[i - 1], i)
  BY <1>6, <1>8
<1> HIDE DEF Upto
<1> QED
  BY <1>5, <1>7 DEF Step, n

(* The loop that expands their names.                                        *)
LEMMA ExpandedBy ==
  ASSUME NEW F, F.appAtts \in Seq(AttIds)
  PROVE  \E f : /\ f[0] = F
                /\ \A i \in 1..Len(F.appAtts) : f[i] = ExpandedAtt(f[i - 1], F.appAtts[i])
                /\ Expanded(F) = f[Len(F.appAtts)]
<1> DEFINE Step(x, i) == ExpandedAtt(x, F.appAtts[i])
           Upto(f, k) == f = [i \in 0..k |-> IF i = 0 THEN F ELSE Step(f[i - 1], i)]
           T == {k \in Nat : \E f : Upto(f, k)}
<1> HIDE DEF Step
<1>1. 0 \in T
  <2> DEFINE f == [i \in 0..0 |-> F]
  <2>1. Upto(f, 0)
    OBVIOUS
  <2> QED
    BY <2>1
<1>2. ASSUME NEW k \in Nat, k \in T PROVE k + 1 \in T
  <2>1. PICK f : Upto(f, k)
    BY <1>2
  <2> DEFINE g == [i \in 0..k + 1 |-> IF i = k + 1 THEN Step(f[k], k + 1) ELSE f[i]]
  <2>2. \A i \in 0..k : f[i] = IF i = 0 THEN F ELSE Step(f[i - 1], i)
    BY <2>1
  <2>3. \A i \in 0..k + 1 : g[i] = IF i = 0 THEN F ELSE Step(g[i - 1], i)
    <3>1. (\A i \in 0..k : g[i] = f[i]) /\ g[k + 1] = Step(f[k], k + 1)
      OBVIOUS
    <3> SUFFICES ASSUME NEW i \in 0..k + 1
                 PROVE  g[i] = IF i = 0 THEN F ELSE Step(g[i - 1], i)
      OBVIOUS
    <3> HIDE DEF g
    <3>2. CASE i = k + 1
      <4>1. (k + 1) - 1 = k /\ k \in 0..k /\ k + 1 # 0
        OBVIOUS
      <4> QED
        BY <3>1, <3>2, <4>1
    <3>3. CASE i # k + 1
      <4>1. i \in 0..k /\ (i # 0 => i - 1 \in 0..k)
        BY <3>3
      <4> QED
        BY <2>2, <3>1, <4>1
    <3> QED
      BY <3>2, <3>3
  <2>4. g = [i \in 0..k + 1 |-> g[i]]
    OBVIOUS
  <2> HIDE DEF g
  <2>5. Upto(g, k + 1)
    BY <2>3, <2>4
  <2> HIDE DEF Upto
  <2> QED
    BY <2>5
<1> HIDE DEF T
<1>3. Len(F.appAtts) \in T
  BY <1>1, <1>2, SetInduction
<1> DEFINE f == CHOOSE f : Upto(f, Len(F.appAtts))
<1>4. Upto(f, Len(F.appAtts))
  BY <1>3 DEF T
<1>5. Expanded(F) = f[Len(F.appAtts)]
  BY DEF Expanded, Step
<1> DEFINE n == Len(F.appAtts)
<1> HIDE DEF f
<1>6. n \in Nat
  OBVIOUS
<1>8. Upto(f, n)
  BY <1>4
<1> HIDE DEF n
<1>7. f[0] = F /\ \A i \in 1..n : f[i] = Step(f[i - 1], i)
  BY <1>6, <1>8
<1> HIDE DEF Upto
<1> QED
  BY <1>5, <1>7 DEF Step, n

(* setContext.                                                               *)
SetsContext(f, p, context) ==
  /\ f[0] = Frame(p)
  /\ \A i \in 1..Len(context) :
       f[i] = IF f[i - 1].error # None THEN f[i - 1]
              ELSE addBinding(f[i - 1], context[i][1], NoAtt, context[i][2])
  /\ setContext(p, context) = [f[Len(context)].p EXCEPT !.inherited = f[Len(context)].bindings,
                                                        !.error = f[Len(context)].error]

LEMMA SetContextBy ==
  ASSUME NEW p, NEW context \in Seq(PrefixTable \X Strings)
  PROVE  \E f : SetsContext(f, p, context)
<1> DEFINE Step(x, i) == (IF x.error # None THEN x
                          ELSE addBinding(x, context[i][1], NoAtt, context[i][2]))
           Upto(f, k) == f = [i \in 0..k |-> IF i = 0 THEN Frame(p) ELSE Step(f[i - 1], i)]
           T == {k \in Nat : \E f : Upto(f, k)}
<1> HIDE DEF Step
<1>1. 0 \in T
  <2> DEFINE f == [i \in 0..0 |-> Frame(p)]
  <2>1. Upto(f, 0)
    OBVIOUS
  <2> QED
    BY <2>1
<1>2. ASSUME NEW k \in Nat, k \in T PROVE k + 1 \in T
  <2>1. PICK f : Upto(f, k)
    BY <1>2
  <2> DEFINE g == [i \in 0..k + 1 |-> IF i = k + 1 THEN Step(f[k], k + 1) ELSE f[i]]
  <2>2. \A i \in 0..k : f[i] = IF i = 0 THEN Frame(p) ELSE Step(f[i - 1], i)
    BY <2>1
  <2>3. \A i \in 0..k + 1 : g[i] = IF i = 0 THEN Frame(p) ELSE Step(g[i - 1], i)
    <3>1. (\A i \in 0..k : g[i] = f[i]) /\ g[k + 1] = Step(f[k], k + 1)
      OBVIOUS
    <3> SUFFICES ASSUME NEW i \in 0..k + 1
                 PROVE  g[i] = IF i = 0 THEN Frame(p) ELSE Step(g[i - 1], i)
      OBVIOUS
    <3> HIDE DEF g
    <3>2. CASE i = k + 1
      <4>1. (k + 1) - 1 = k /\ k \in 0..k /\ k + 1 # 0
        OBVIOUS
      <4> QED
        BY <3>1, <3>2, <4>1
    <3>3. CASE i # k + 1
      <4>1. i \in 0..k /\ (i # 0 => i - 1 \in 0..k)
        BY <3>3
      <4> QED
        BY <2>2, <3>1, <4>1
    <3> QED
      BY <3>2, <3>3
  <2>4. g = [i \in 0..k + 1 |-> g[i]]
    OBVIOUS
  <2> HIDE DEF g
  <2>5. Upto(g, k + 1)
    BY <2>3, <2>4
  <2> HIDE DEF Upto
  <2> QED
    BY <2>5
<1> HIDE DEF T
<1>3. Len(context) \in T
  BY <1>1, <1>2, SetInduction
<1> DEFINE f == CHOOSE f : Upto(f, Len(context))
<1>4. Upto(f, Len(context))
  BY <1>3 DEF T
<1>5. setContext(p, context) = [f[Len(context)].p EXCEPT !.inherited = f[Len(context)].bindings,
                                                        !.error = f[Len(context)].error]
  BY DEF setContext, Step
<1> DEFINE n == Len(context)
<1> HIDE DEF f
<1>6. n \in Nat
  OBVIOUS
<1>8. Upto(f, n)
  BY <1>4
<1> HIDE DEF n
<1>7. f[0] = Frame(p) /\ \A i \in 1..n : f[i] = Step(f[i - 1], i)
  BY <1>6, <1>8
<1> HIDE DEF Upto
<1>9. SetsContext(f, p, context)
  BY <1>5, <1>7 DEF Step, n, SetsContext
<1> QED
  BY <1>9

-----------------------------------------------------------------------------
(* storeAtts.                                                                *)
LEMMA ElementOf ==
  ASSUME NEW S, NEW s \in Seq(S), NEW i \in 1..Len(s)
  PROVE  s[i] \in S /\ i \in DOMAIN s /\ s[i] \in Range(s)
BY DEF Range

LEMMA AttributesOf ==
  ASSUME NEW el \in Elements, NEW atts \in AttLists[el]
  PROVE  /\ atts \in Seq(Attribute) /\ Defaults[el] \in Seq(Attribute)
         /\ \A i \in 1..Len(atts \o Defaults[el]) :
              LET att == (atts \o Defaults[el])[i]
              IN  /\ att.id \in AttIds /\ att.id.prefix \in PrefixTable /\ att.value \in Strings
<1>1. atts \in Seq(Attribute) /\ Defaults[el] \in Seq(Attribute)
  BY NamespacesAssumption
<1>2. ASSUME NEW as \in AttLists[el] \cup {Defaults[el]}, as \in Seq(Attribute),
             NEW i \in 1..Len(as)
      PROVE  /\ as[i].id \in AttIds /\ as[i].id.prefix \in PrefixTable /\ as[i].value \in Strings
  <2>1. as[i] \in Attribute /\ i \in DOMAIN as
    BY <1>2, ElementOf
  <2>2. as[i].id.prefix \in PrefixTable /\ as[i].value \in Strings
    BY <2>1 DEF Attribute
  <2>3. as \in UNION {AttLists[e] \cup {Defaults[e]} : e \in Elements}
    BY <1>2
  <2>4. as[i].id \in {as[j].id : j \in DOMAIN as}
    BY <2>1
  <2>5. {as[j].id : j \in DOMAIN as} \in
          {{at[j].id : j \in DOMAIN at} :
             at \in UNION {AttLists[e] \cup {Defaults[e]} : e \in Elements}}
    BY <2>3
  <2>6. as[i].id \in AttIds
    BY <2>4, <2>5 DEF AttIds
  <2> QED
    BY <2>2, <2>6
<1>3. ASSUME NEW i \in 1..Len(atts \o Defaults[el])
      PROVE  LET att == (atts \o Defaults[el])[i]
             IN  /\ att.id \in AttIds /\ att.id.prefix \in PrefixTable /\ att.value \in Strings
  <2>1. /\ Len(atts \o Defaults[el]) = Len(atts) + Len(Defaults[el])
        /\ \A j \in 1..Len(atts) : (atts \o Defaults[el])[j] = atts[j]
        /\ \A j \in 1..Len(Defaults[el]) : (atts \o Defaults[el])[Len(atts) + j] = Defaults[el][j]
        /\ Len(atts) \in Nat /\ Len(Defaults[el]) \in Nat
    BY <1>1, Concatenated
  <2>2. CASE i <= Len(atts)
    <3>1. i \in 1..Len(atts) /\ (atts \o Defaults[el])[i] = atts[i]
      BY <2>1, <2>2
    <3> QED
      BY <1>1, <1>2, <3>1
  <2>3. CASE ~(i <= Len(atts))
    <3>1. i - Len(atts) \in 1..Len(Defaults[el]) /\ Len(atts) + (i - Len(atts)) = i
      BY <2>1, <2>3
    <3>2. (atts \o Defaults[el])[i] = Defaults[el][i - Len(atts)]
      BY <2>1, <3>1
    <3> QED
      BY <1>1, <1>2, <3>1, <3>2
  <2> QED
    BY <2>2, <2>3
<1> QED
  BY <1>1, <1>3

SameBindings(p, r) ==
  /\ r.binding = p.binding /\ r.prefixBinding = p.prefixBinding
  /\ r.freeBindings = p.freeBindings

LEMMA FrameChanged ==
  ASSUME NEW p, NEW F, NEW G, FrameInv(p, F), FrameType(G), G.bindings = F.bindings,
         SameParser(F.p, G.p), SameBindings(F.p, G.p), AttType(G.p), DOMAIN G.p = DOMAIN F.p,
         G.error = None => F.error = None
  PROVE  FrameInv(p, G)
<1>1. /\ Typed(F.p) /\ SameParser(p, F.p) /\ OneList(F.p, F.bindings)
      /\ Kept(p, <<>>, F.p, F.bindings)
      /\ F.error = None => Live(F.p, F.bindings)
  BY DEF FrameInv
<1> DEFINE P == F.p
           r == G.p
<1>2. /\ r.binding = P.binding /\ r.prefixBinding = P.prefixBinding
      /\ r.freeBindings = P.freeBindings /\ r.error = P.error /\ r.state = P.state
      /\ r.tagStack = P.tagStack /\ r.freeTags = P.freeTags /\ r.inherited = P.inherited
      /\ DOMAIN r = DOMAIN P
  BY DEF SameParser, SameBindings
<1>3. AttType(r)
  OBVIOUS
<1> HIDE DEF P, r
<1>4. Typed(r)
  <2>1. Typed(P)
    BY <1>1 DEF P
  <2>2. BindingType(r)
    BY <1>2, <2>1 DEF Typed, BindingType
  <2>3. ListType(r)
    BY <1>2, <2>1 DEF Typed, ListType
  <2>4. StateType(r)
    BY <1>2, <2>1 DEF Typed, StateType
  <2> QED
    BY <1>3, <2>2, <2>3, <2>4 DEF Typed
<1>5. SameParser(p, r)
  BY <1>1, <1>2 DEF P, SameParser
<1>6. \A cur : Owned(r, cur) = Owned(P, cur) /\ (OneList(P, cur) => OneList(r, cur))
  BY <1>2 DEF Owned, Apart, OneList, OpenLists
<1>7. Kept(p, <<>>, r, F.bindings)
  <2>1. Owned(r, F.bindings) = Owned(P, F.bindings) /\ r.binding = P.binding
    BY <1>2, <1>6
  <2>2. Kept(p, <<>>, P, F.bindings)
    BY <1>1 DEF P
  <2> QED
    BY <2>1, <2>2 DEF Kept
<1>8. ASSUME NEW cur \in Seq(Nat), Live(P, cur) PROVE Live(r, cur)
  <2>1. ListType(P) /\ ListType(r) /\ Agree(P, r, Scope(P, 1))
    BY <1>1, <1>2, <1>4 DEF P, Typed, Agree
  <2>2. /\ \A i : Scope(r, i) = Scope(P, i)
        /\ ShadowsInScope(P) => ShadowsInScope(r)
        /\ NamesPlaced(P) => NamesPlaced(r)
    BY <1>2, <2>1, StackKept
  <2>3. PrefixesInScope(P, cur) => PrefixesInScope(r, cur)
    BY <1>2, <2>2 DEF PrefixesInScope, Shadows
  <2> QED
    BY <1>8, <2>2, <2>3 DEF Live
<1>9. F.bindings \in Seq(Nat)
  BY DEF FrameInv, FrameType
<1> QED
  BY <1>1, <1>4, <1>5, <1>6, <1>7, <1>8, <1>9 DEF P, r, FrameInv

(* An attribute is marked if it is one of those whose name is still to be    *)
(* expanded, or made a binding of the tag.                                   *)
Marked(F, k) ==
  F.error = None =>
    \A a \in AttIds :
      F.p.flag[a] # 0 =>
        \/ \E i \in k + 1..Len(F.appAtts) : F.appAtts[i] = a
        \/ \E c \in Range(F.bindings) : F.p.binding[c].att = a

LEMMA FrameFields ==
  ASSUME NEW p, NEW F, FrameInv(p, F)
  PROVE  /\ DOMAIN F = {"p", "bindings", "appAtts", "atts", "uriNames", "name", "str", "calls", "error"}
         /\ DOMAIN F.p = {"prefixBinding", "binding", "freeBindings", "inherited", "tagStack",
                          "freeTags", "flag", "power", "version", "nsAtts", "state", "error"}
         /\ F.bindings \in Seq(Nat) /\ F.appAtts \in Seq(AttIds) /\ F.str = Own
         /\ AttType(F.p) /\ F.p.flag \in [AttIds -> 0..2]
BY ParserFields DEF FrameInv, FrameType, Typed, StateType, AttType

LEMMA FrameRefused ==
  ASSUME NEW p, NEW F, FrameInv(p, F), NEW e, e # None,
         NEW G, G = [F EXCEPT !.error = e]
  PROVE  FrameInv(p, G) /\ G.error # None
<1>1. /\ DOMAIN G = DOMAIN F /\ G.p = F.p /\ G.bindings = F.bindings /\ G.appAtts = F.appAtts /\ G.str = F.str
      /\ G.error = e
  BY FrameFields
<1>2. FrameType(G)
  BY <1>1, FrameFields DEF FrameType
<1>3. SameParser(F.p, G.p) /\ SameBindings(F.p, G.p) /\ AttType(G.p) /\ DOMAIN G.p = DOMAIN F.p
  BY <1>1, FrameFields DEF SameParser, SameBindings
<1>4. FrameInv(p, G)
  BY <1>1, <1>2, <1>3, FrameChanged
<1> QED
  BY <1>1, <1>4

Flagged(F, G, a, v) ==
  /\ G.p.flag = [F.p.flag EXCEPT ![a] = v] /\ G.p.binding = F.p.binding
  /\ G.bindings = F.bindings /\ G.appAtts = F.appAtts /\ G.str = F.str /\ G.error = F.error

LEMMA FrameFlagged ==
  ASSUME NEW p, NEW F, FrameInv(p, F), NEW a \in AttIds, NEW v \in 0..2,
         NEW G, G = [F EXCEPT !.p.flag[a] = v]
  PROVE  FrameInv(p, G) /\ Flagged(F, G, a, v)
<1>1. /\ DOMAIN G = DOMAIN F /\ G.bindings = F.bindings /\ G.appAtts = F.appAtts /\ G.str = F.str
      /\ G.error = F.error /\ G.p = [F.p EXCEPT !.flag[a] = v]
  BY FrameFields
<1>2. /\ DOMAIN G.p = DOMAIN F.p /\ G.p.flag = [F.p.flag EXCEPT ![a] = v]
      /\ SameParser(F.p, G.p) /\ SameBindings(F.p, G.p)
      /\ G.p.version = F.p.version /\ G.p.power = F.p.power /\ G.p.nsAtts = F.p.nsAtts
  BY <1>1, FrameFields DEF SameParser, SameBindings
<1>3. FrameType(G) /\ AttType(G.p)
  <2>1. FrameType(G)
    BY <1>1, FrameFields DEF FrameType
  <2>2. AttType(F.p) /\ F.p.flag \in [AttIds -> 0..2]
    BY FrameFields
  <2>3. G.p.flag \in [AttIds -> 0..2]
    BY <1>2, <2>2
  <2> QED
    BY <1>2, <2>1, <2>2, <2>3 DEF AttType
<1>4. FrameInv(p, G)
  BY <1>1, <1>2, <1>3, FrameChanged
<1> QED
  BY <1>1, <1>2, <1>4 DEF SameBindings, Flagged

LEMMA FrameListed ==
  ASSUME NEW p, NEW F, FrameInv(p, F), Marked(F, 0), F.error = None, NEW a \in AttIds
  PROVE  FrameInv(p, Listed(F, a)) /\ Marked(Listed(F, a), 0)
<1> DEFINE v == IF a.prefix = "" THEN 1 ELSE 2
           G == [F EXCEPT !.p.flag[a] = v]
           H == Listed(F, a)
<1>0. v \in 0..2
  OBVIOUS
<1>2. /\ DOMAIN H = DOMAIN G /\ H.p = G.p /\ H.bindings = G.bindings
      /\ H.appAtts = Append(F.appAtts, a) /\ H.str = G.str /\ H.error = G.error
  BY FrameFields DEF Listed
<1> HIDE DEF v
<1>g. G = [F EXCEPT !.p.flag[a] = v]
  OBVIOUS
<1> HIDE DEF G, H
<1>f. FrameInv(p, G) /\ Flagged(F, G, a, v)
  BY <1>0, <1>g, FrameFlagged
<1>1. /\ FrameInv(p, G) /\ G.p.flag = [F.p.flag EXCEPT ![a] = v]
      /\ G.p.binding = F.p.binding /\ G.bindings = F.bindings /\ G.appAtts = F.appAtts /\ G.str = F.str
      /\ G.error = F.error
  BY <1>f DEF Flagged
<1>3. FrameInv(p, H)
  <2>1. FrameType(H)
    BY <1>1, <1>2, FrameFields DEF FrameType
  <2>2. SameParser(G.p, H.p) /\ SameBindings(G.p, H.p) /\ AttType(H.p) /\ DOMAIN H.p = DOMAIN G.p
    BY <1>1, <1>2, FrameFields DEF SameParser, SameBindings
  <2> QED
    BY <1>1, <1>2, <2>1, <2>2, FrameChanged
<1>4. Marked(H, 0)
  <2> SUFFICES ASSUME NEW x \in AttIds, H.p.flag[x] # 0
               PROVE  \/ \E i \in 0 + 1..Len(H.appAtts) : H.appAtts[i] = x
                      \/ \E c \in Range(H.bindings) : H.p.binding[c].att = x
    BY DEF Marked
  <2>1. /\ Len(F.appAtts) \in Nat /\ Len(H.appAtts) = Len(F.appAtts) + 1
        /\ H.appAtts[Len(F.appAtts) + 1] = a
        /\ \A i \in 1..Len(F.appAtts) : H.appAtts[i] = F.appAtts[i]
    BY <1>2, FrameFields
  <2>2. CASE x = a
    <3>1. Len(F.appAtts) + 1 \in 0 + 1..Len(H.appAtts)
      BY <2>1
    <3> QED
      BY <2>1, <2>2, <3>1
  <2>3. CASE x # a
    <3>1. F.p.flag[x] # 0
      BY <1>1, <1>2, <2>3, FrameFields
    <3>2. \/ \E i \in 0 + 1..Len(F.appAtts) : F.appAtts[i] = x
          \/ \E c \in Range(F.bindings) : F.p.binding[c].att = x
      BY <3>1 DEF Marked
    <3>3. \A i \in 0 + 1..Len(F.appAtts) : i \in 0 + 1..Len(H.appAtts) /\ H.appAtts[i] = F.appAtts[i]
      BY <2>1
    <3> QED
      BY <1>1, <1>2, <3>2, <3>3
  <2> QED
    BY <2>2, <2>3
<1> QED
  BY <1>3, <1>4 DEF H

(* A declaration: marked by the specified attribute, or not marked at all.   *)
MarkedBut(F, a) ==
  \A x \in AttIds : x # a /\ F.p.flag[x] # 0 =>
    \/ \E i \in 0 + 1..Len(F.appAtts) : F.appAtts[i] = x
    \/ \E c \in Range(F.bindings) : F.p.binding[c].att = x

LEMMA PushedRange ==
  ASSUME NEW b \in Nat, NEW s \in Seq(Nat)
  PROVE  Range(<<b>> \o s) = {b} \cup Range(s)
<1>1. <<b>> \in Seq(Nat) /\ Range(<<b>>) = {b}
  BY DEF Range
<1>2. Range(<<b>> \o s) = Range(<<b>>) \cup Range(s)
  BY <1>1, Concatenated
<1> QED
  BY <1>1, <1>2

LEMMA FrameDeclared ==
  ASSUME NEW p, NEW F, BindingType(p), FrameInv(p, F), F.error = None, NEW a \in AttIds,
         a.prefix \in PrefixTable, NEW uri \in Strings, MarkedBut(F, a)
  PROVE  LET G == addBinding(F, a.prefix, a, uri)
         IN  FrameInv(p, G) /\ Marked(G, 0)
<1> DEFINE G == addBinding(F, a.prefix, a, uri)
<1>a. a \in AttIds \cup {NoAtt}
  OBVIOUS
<1>1. FrameInv(p, G) /\ Added(F, G, a)
  BY <1>a, AddBinding
<1> HIDE DEF G
<1>2. Marked(G, 0)
  <2> SUFFICES ASSUME G.error = None, NEW x \in AttIds, G.p.flag[x] # 0
               PROVE  \/ \E i \in 0 + 1..Len(G.appAtts) : G.appAtts[i] = x
                      \/ \E c \in Range(G.bindings) : G.p.binding[c].att = x
    BY DEF Marked
  <2>1. PICK b \in Nat : /\ G.bindings = <<b>> \o F.bindings /\ G.p.binding[b].att = a
                         /\ \A c \in Range(F.bindings) : G.p.binding[c] = F.p.binding[c]
    BY <1>1 DEF Added
  <2>2. F.bindings \in Seq(Nat)
    BY FrameFields
  <2>3. Range(G.bindings) = {b} \cup Range(F.bindings)
    BY <2>1, <2>2, PushedRange
  <2>4. G.appAtts = F.appAtts /\ G.p.flag = F.p.flag
    BY <1>1 DEF Added
  <2>5. CASE x = a
    BY <2>1, <2>3, <2>5
  <2>6. CASE x # a
    <3>1. \/ \E i \in 0 + 1..Len(F.appAtts) : F.appAtts[i] = x
          \/ \E c \in Range(F.bindings) : F.p.binding[c].att = x
      BY <2>4, <2>6 DEF MarkedBut
    <3> QED
      BY <2>1, <2>3, <2>4, <3>1
  <2> QED
    BY <2>5, <2>6
<1> QED
  BY <1>1, <1>2 DEF G

AttributeType(att) ==
  att.id \in AttIds /\ att.id.prefix \in PrefixTable /\ att.value \in Strings

LEMMA Specified ==
  ASSUME NEW p, NEW F, BindingType(p), FrameInv(p, F), Marked(F, 0), NEW att, AttributeType(att)
  PROVE  FrameInv(p, SpecifiedAtt(F, att)) /\ Marked(SpecifiedAtt(F, att), 0)
<1> DEFINE G == SpecifiedAtt(F, att)
<1> USE DEF AttributeType
<1>1. CASE F.error # None
  BY <1>1 DEF SpecifiedAtt
<1>2. CASE F.error = None /\ F.p.flag[att.id] # 0
  <2>1. G = [F EXCEPT !.error = "DUPLICATE_ATTRIBUTE"] /\ "DUPLICATE_ATTRIBUTE" # None
    BY <1>2 DEF SpecifiedAtt, None
  <2> HIDE DEF G
  <2>2. FrameInv(p, G) /\ G.error # None
    BY <2>1, FrameRefused
  <2> QED
    BY <2>2 DEF Marked, G
<1>3. CASE F.error = None /\ F.p.flag[att.id] = 0 /\ att.id.xmlns
  <2> DEFINE H == [F EXCEPT !.p.flag[att.id] = 1]
  <2>1. G = addBinding(H, att.id.prefix, att.id, att.value)
    BY <1>3 DEF SpecifiedAtt
  <2>h. H = [F EXCEPT !.p.flag[att.id] = 1] /\ 1 \in 0..2
    OBVIOUS
  <2> HIDE DEF H, G
  <2>2. FrameInv(p, H) /\ Flagged(F, H, att.id, 1)
    BY <2>h, FrameFlagged
  <2>3. MarkedBut(H, att.id)
    <3> SUFFICES ASSUME NEW x \in AttIds, x # att.id, H.p.flag[x] # 0
                 PROVE  \/ \E i \in 0 + 1..Len(H.appAtts) : H.appAtts[i] = x
                        \/ \E c \in Range(H.bindings) : H.p.binding[c].att = x
      BY DEF MarkedBut
    <3>1. F.p.flag[x] # 0
      BY <2>2, FrameFields DEF Flagged
    <3>2. \/ \E i \in 0 + 1..Len(F.appAtts) : F.appAtts[i] = x
          \/ \E c \in Range(F.bindings) : F.p.binding[c].att = x
      BY <1>3, <3>1 DEF Marked
    <3> QED
      BY <2>2, <3>2 DEF Flagged
  <2>4. H.error = None
    BY <1>3, <2>2 DEF Flagged
  <2>5. FrameInv(p, G) /\ Marked(G, 0)
    BY <2>1, <2>2, <2>3, <2>4, FrameDeclared
  <2> QED
    BY <2>5 DEF G
<1>4. CASE F.error = None /\ F.p.flag[att.id] = 0 /\ ~att.id.xmlns
  BY <1>4, FrameListed DEF SpecifiedAtt
<1> QED
  BY <1>1, <1>2, <1>3, <1>4

LEMMA DefaultTaken ==
  ASSUME NEW p, NEW F, BindingType(p), FrameInv(p, F), Marked(F, 0), NEW att, AttributeType(att)
  PROVE  FrameInv(p, DefaultAtt(F, att)) /\ Marked(DefaultAtt(F, att), 0)
<1> DEFINE G == DefaultAtt(F, att)
<1> USE DEF AttributeType
<1>1. CASE F.error # None \/ F.p.flag[att.id] # 0
  BY <1>1 DEF DefaultAtt
<1>2. CASE F.error = None /\ F.p.flag[att.id] = 0 /\ att.id.xmlns
  <2>1. G = addBinding(F, att.id.prefix, att.id, att.value)
    BY <1>2 DEF DefaultAtt
  <2>2. MarkedBut(F, att.id)
    BY <1>2 DEF Marked, MarkedBut
  <2> HIDE DEF G
  <2>3. FrameInv(p, G) /\ Marked(G, 0)
    BY <1>2, <2>1, <2>2, FrameDeclared
  <2> QED
    BY <2>3 DEF G
<1>3. CASE F.error = None /\ F.p.flag[att.id] = 0 /\ ~att.id.xmlns
  BY <1>3, FrameListed DEF DefaultAtt
<1> QED
  BY <1>1, <1>2, <1>3

(* A part that leaves the lists, the bindings and the marks alone.           *)
SameMarks(F, G) ==
  /\ DOMAIN G = DOMAIN F /\ G.bindings = F.bindings /\ G.appAtts = F.appAtts /\ G.str = F.str
  /\ G.p.flag = F.p.flag /\ SameParser(F.p, G.p) /\ SameBindings(F.p, G.p)
  /\ G.p.version \in 0..InitAttsVersion
  /\ DOMAIN G.p.nsAtts = IF G.p.power = 0 THEN {} ELSE 0..(2^G.p.power - 1)
  /\ DOMAIN G.p = DOMAIN F.p
  /\ G.error = None => F.error = None

LEMMA FrameSameMarks ==
  ASSUME NEW p, NEW F, NEW G, FrameInv(p, F), SameMarks(F, G)
  PROVE  FrameInv(p, G) /\ \A k : Marked(F, k) => Marked(G, k)
<1>a. /\ DOMAIN G = DOMAIN F /\ G.bindings = F.bindings /\ G.appAtts = F.appAtts /\ G.str = F.str
      /\ G.p.flag = F.p.flag /\ SameParser(F.p, G.p) /\ SameBindings(F.p, G.p)
      /\ G.p.version \in 0..InitAttsVersion
      /\ DOMAIN G.p.nsAtts = IF G.p.power = 0 THEN {} ELSE 0..(2^G.p.power - 1)
      /\ DOMAIN G.p = DOMAIN F.p
      /\ G.error = None => F.error = None
  BY DEF SameMarks
<1>1. FrameType(G)
  BY <1>a, FrameFields DEF FrameType
<1>2. F.p.flag \in [AttIds -> 0..2]
  BY FrameFields
<1>3. AttType(G.p)
  BY <1>a, <1>2 DEF AttType
<1>4. FrameInv(p, G)
  BY <1>a, <1>1, <1>3, FrameChanged
<1>5. ASSUME NEW k, Marked(F, k) PROVE Marked(G, k)
  BY <1>a, <1>5 DEF Marked, SameBindings
<1> QED
  BY <1>4, <1>5

LEMMA Framed ==
  ASSUME NEW p, Typed(p), OneList(p, <<>>), Live(p, <<>>), FlagsClear(p)
  PROVE  FrameInv(p, Frame(p)) /\ Marked(Frame(p), 0)
<1> DEFINE F == Frame(p)
<1>1. /\ DOMAIN F = {"p", "bindings", "appAtts", "atts", "uriNames", "name", "str", "calls", "error"}
      /\ F.p = p /\ F.bindings = <<>> /\ F.appAtts = <<>> /\ F.error = None
      /\ F.str = Own
  BY DEF Frame
<1> HIDE DEF F
<1>2. FrameType(F)
  BY <1>1, EmptyRange DEF FrameType
<1>3. Kept(p, <<>>, p, <<>>)
  BY DEF Kept, Typed, BindingType
<1>4. FrameInv(p, F)
  BY <1>1, <1>2, <1>3 DEF FrameInv, SameParser
<1>5. Marked(F, 0)
  BY <1>1 DEF Marked, FlagsClear
<1> QED
  BY <1>4, <1>5 DEF F

LEMMA CollectedAll ==
  ASSUME NEW p, Typed(p), OneList(p, <<>>), Live(p, <<>>), FlagsClear(p),
         NEW el \in Elements, NEW atts \in AttLists[el]
  PROVE  LET F == Collected(p, el, atts)
         IN  FrameInv(p, F) /\ Marked(F, 0)
<1> DEFINE all == atts \o Defaults[el]
           F == Collected(p, el, atts)
<1>1. /\ atts \in Seq(Attribute) /\ Defaults[el] \in Seq(Attribute)
      /\ \A i \in 1..Len(all) : AttributeType(all[i])
  BY AttributesOf DEF AttributeType
<1>2. PICK f : /\ f[0] = Frame(p)
               /\ \A i \in 1..Len(all) :
                    f[i] = (IF i <= Len(atts) THEN SpecifiedAtt(f[i - 1], all[i])
                            ELSE DefaultAtt(f[i - 1], all[i]))
               /\ F = f[Len(all)]
  BY <1>1, CollectedBy
<1>3. BindingType(p) /\ Len(all) \in Nat
  BY <1>1 DEF Typed
<1> HIDE DEF all, F
<1> DEFINE T == {n \in Nat : n <= Len(all) => FrameInv(p, f[n]) /\ Marked(f[n], 0)}
<1>4. 0 \in T
  BY <1>2, Framed
<1>5. ASSUME NEW n \in Nat, n \in T PROVE n + 1 \in T
  <2> SUFFICES ASSUME n + 1 <= Len(all) PROVE FrameInv(p, f[n + 1]) /\ Marked(f[n + 1], 0)
    OBVIOUS
  <2>1. FrameInv(p, f[n]) /\ Marked(f[n], 0)
    BY <1>3, <1>5
  <2>2. n + 1 \in 1..Len(all) /\ (n + 1) - 1 = n
    BY <1>3
  <2>3. AttributeType(all[n + 1])
    BY <1>1, <2>2 DEF all
  <2>4. f[n + 1] \in {SpecifiedAtt(f[n], all[n + 1]), DefaultAtt(f[n], all[n + 1])}
    BY <1>2, <2>2
  <2>5. FrameInv(p, SpecifiedAtt(f[n], all[n + 1])) /\ Marked(SpecifiedAtt(f[n], all[n + 1]), 0)
    BY <1>3, <2>1, <2>3, Specified
  <2>6. FrameInv(p, DefaultAtt(f[n], all[n + 1])) /\ Marked(DefaultAtt(f[n], all[n + 1]), 0)
    BY <1>3, <2>1, <2>3, DefaultTaken
  <2> QED
    BY <2>4, <2>5, <2>6
<1> HIDE DEF T
<1>6. Len(all) \in T
  BY <1>3, <1>4, <1>5, SetInduction
<1>7. FrameInv(p, F) /\ Marked(F, 0)
  BY <1>2, <1>3, <1>6 DEF T
<1> QED
  BY <1>7 DEF F

LEMMA Versioned ==
  ASSUME NEW p, NEW F, FrameInv(p, F), Marked(F, 0)
  PROVE  FrameInv(p, NewVersion(F)) /\ Marked(NewVersion(F), 0)
<1> DEFINE n == PrefixedAtts(F)
           power == NewPower(n, F.p.power)
           anew == power # F.p.power \/ F.p.version = 0
           version == IF anew THEN InitAttsVersion ELSE F.p.version
           ns == IF anew THEN [j \in 0..(2^power - 1) |-> InitAttsVersion] ELSE F.p.nsAtts
           G == NewVersion(F)
<1>1. power # 0
  <2> HIDE DEF n
  <2>1. CASE F.p.power # 0 /\ (2 * n) \div 2^F.p.power = 0
    BY <2>1 DEF NewPower
  <2>2. CASE ~(F.p.power # 0 /\ (2 * n) \div 2^F.p.power = 0)
    <3> DEFINE fits == CHOOSE k \in F.p.power..(F.p.power + n) :
                     n \div 2^k = 0 /\ \A l \in F.p.power..(k - 1) : n \div 2^l # 0
    <3>1. power = IF fits + 1 < 3 THEN 3 ELSE fits + 1
      BY <2>2 DEF NewPower
    <3> DEFINE m == fits + 1
    <3> HIDE DEF fits
    <3>2. power = IF m < 3 THEN 3 ELSE m
      BY <3>1
    <3> HIDE DEF power, m
    <3>3. m = 0 => m < 3
      OBVIOUS
    <3> QED
      BY <3>2, <3>3
  <2> QED
    BY <2>1, <2>2
<1>2. CASE F.error # None \/ n = 0
  <2>1. G = F
    BY <1>2 DEF NewVersion
  <2> QED
    BY <2>1
<1>3. CASE F.error = None /\ n # 0
  <2>1. G = [F EXCEPT !.p.power = power, !.p.version = version - 1, !.p.nsAtts = ns,
                      !.uriNames = [j \in 0..(2^power - 1) |-> Gone]]
    BY <1>3 DEF NewVersion
  <2>2. AttType(F.p) /\ InitAttsVersion \in Nat \ {0}
    BY FrameFields, NamespacesAssumption
  <2>3. version - 1 \in 0..InitAttsVersion
    BY <2>2 DEF AttType
  <2>4. DOMAIN ns = 0..(2^power - 1)
    <3>1. CASE anew
      BY <3>1
    <3>2. CASE ~anew
      BY <1>1, <2>2, <3>2 DEF AttType
    <3> QED
      BY <3>1, <3>2
  <2> HIDE DEF n, power, version, ns, anew, G
  <2>5. /\ DOMAIN G = DOMAIN F /\ G.bindings = F.bindings /\ G.appAtts = F.appAtts /\ G.str = F.str
        /\ G.error = F.error
        /\ G.p = [F.p EXCEPT !.power = power, !.version = version - 1, !.nsAtts = ns]
    BY <2>1, FrameFields
  <2>6. /\ DOMAIN G.p = DOMAIN F.p /\ G.p.flag = F.p.flag
        /\ G.p.version = version - 1 /\ G.p.power = power /\ G.p.nsAtts = ns
        /\ SameParser(F.p, G.p) /\ SameBindings(F.p, G.p)
    BY <2>5, FrameFields DEF SameParser, SameBindings
  <2>7. SameMarks(F, G)
    BY <1>1, <2>3, <2>4, <2>5, <2>6 DEF SameMarks
  <2>8. FrameInv(p, G) /\ Marked(G, 0)
    BY <2>7, FrameSameMarks
  <2> QED
    BY <2>8 DEF G
<1> QED
  BY <1>2, <1>3

LEMMA NameExpanded ==
  ASSUME NEW p, NEW F, NEW k \in Nat, FrameInv(p, F), Marked(F, k), k + 1 \in 1..Len(F.appAtts)
  PROVE  LET G == ExpandedAtt(F, F.appAtts[k + 1])
         IN  FrameInv(p, G) /\ Marked(G, k + 1) /\ G.appAtts = F.appAtts
<1> DEFINE id == F.appAtts[k + 1]
           G == ExpandedAtt(F, id)
           b == F.p.prefixBinding[id.prefix]
           uriName == <<F.p.binding[b].uri, id.local>>
           j == Entry(F, uriName)
           U == [F EXCEPT !.p.flag[id] = 0]
<1>1. CASE F.error # None
  <2>1. G = F
    BY <1>1 DEF ExpandedAtt
  <2> QED
    BY <1>1, <2>1 DEF Marked
<1>2. CASE F.error = None
  <2>1. id \in AttIds
    BY FrameFields
  <2>2. U = [F EXCEPT !.p.flag[id] = 0] /\ 0 \in 0..2
    OBVIOUS
  <2>3. \/ \E x : G = [U EXCEPT !.atts = x]
        \/ \E x : x # None /\ G = [U EXCEPT !.error = x]
        \/ \E x, y, z : G = [U EXCEPT !.p.nsAtts[j] = x, !.uriNames[j] = y, !.atts = z]
    <3> HIDE DEF j, uriName, b, id
    <3>1. CASE F.p.flag[id] # 2
      <4>1. G = [U EXCEPT !.atts = Append(@, Name("", id.local, ""))]
        BY <1>2, <3>1 DEF ExpandedAtt
      <4> HIDE DEF U, G
      <4> QED
        BY <4>1
    <3>2. CASE F.p.flag[id] = 2 /\ b = Null
      <4>1. G = [U EXCEPT !.error = "UNBOUND_PREFIX"]
        BY <1>2, <3>2 DEF ExpandedAtt, b
      <4> HIDE DEF U, G
      <4> QED
        BY <4>1 DEF None
    <3>3. CASE F.p.flag[id] = 2 /\ b # Null /\ F.p.nsAtts[j] = F.p.version
      <4>1. G = [U EXCEPT !.error = "DUPLICATE_ATTRIBUTE"]
        BY <1>2, <3>3 DEF ExpandedAtt, b, j, uriName
      <4> HIDE DEF U, G
      <4> QED
        BY <4>1 DEF None
    <3>4. CASE F.p.flag[id] = 2 /\ b # Null /\ F.p.nsAtts[j] # F.p.version
      <4>1. G = [U EXCEPT !.p.nsAtts[j] = F.p.version, !.uriNames[j] = uriName,
                          !.atts = Append(@, Name(uriName[1], id.local, id.prefix))]
        BY <1>2, <3>4 DEF ExpandedAtt, b, j, uriName
      <4> HIDE DEF U, G
      <4> QED
        BY <4>1
    <3> QED
      BY <3>1, <3>2, <3>3, <3>4
  <2> HIDE DEF U, G, j, uriName, b
  <2>4. FrameInv(p, U) /\ Flagged(F, U, id, 0)
    BY <2>1, <2>2, FrameFlagged DEF id
  <2>5. Marked(U, k + 1)
    <3> SUFFICES ASSUME NEW a \in AttIds, U.p.flag[a] # 0
                 PROVE  \/ \E i \in (k + 1) + 1..Len(U.appAtts) : U.appAtts[i] = a
                        \/ \E c \in Range(U.bindings) : U.p.binding[c].att = a
      BY DEF Marked
    <3>1. a # id /\ F.p.flag[a] # 0
      BY <2>1, <2>4, FrameFields DEF Flagged
    <3>2. \/ \E i \in k + 1..Len(F.appAtts) : F.appAtts[i] = a
          \/ \E c \in Range(F.bindings) : F.p.binding[c].att = a
      BY <1>2, <3>1 DEF Marked
    <3>3. \A i \in k + 1..Len(F.appAtts) : F.appAtts[i] = a => i \in (k + 1) + 1..Len(F.appAtts)
      <4>1. F.appAtts \in Seq(AttIds)
        BY FrameFields
      <4>2. Len(F.appAtts) \in Nat
        BY <4>1
      <4> QED
        BY <3>1, <4>2 DEF id
    <3> QED
      BY <2>4, <3>2, <3>3 DEF Flagged
  <2>6. U.p.flag = U.p.flag /\ AttType(U.p)
    BY <2>4, FrameFields
  <2>7. SameMarks(U, G)
    <3>1. CASE \E x : G = [U EXCEPT !.atts = x]
      <4>1. /\ DOMAIN G = DOMAIN U /\ G.p = U.p /\ G.bindings = U.bindings
            /\ G.appAtts = U.appAtts /\ G.str = U.str /\ G.error = U.error
        BY <2>4, <3>1, FrameFields
      <4> QED
        BY <2>6, <4>1 DEF SameMarks, SameParser, SameBindings, AttType
    <3>2. CASE \E x : x # None /\ G = [U EXCEPT !.error = x]
      <4>1. /\ DOMAIN G = DOMAIN U /\ G.p = U.p /\ G.bindings = U.bindings
            /\ G.appAtts = U.appAtts /\ G.str = U.str /\ G.error # None
        BY <2>4, <3>2, FrameFields
      <4> QED
        BY <2>6, <4>1 DEF SameMarks, SameParser, SameBindings, AttType
    <3>3. CASE \E x, y, z : G = [U EXCEPT !.p.nsAtts[j] = x, !.uriNames[j] = y, !.atts = z]
      <4>1. PICK x, y, z : G = [U EXCEPT !.p.nsAtts[j] = x, !.uriNames[j] = y, !.atts = z]
        BY <3>3
      <4>2. /\ DOMAIN G = DOMAIN U /\ G.p = [U.p EXCEPT !.nsAtts[j] = x] /\ G.bindings = U.bindings
            /\ G.appAtts = U.appAtts /\ G.str = U.str /\ G.error = U.error
        BY <2>4, <4>1, FrameFields
      <4>3. /\ DOMAIN G.p = DOMAIN U.p /\ G.p.flag = U.p.flag
            /\ SameParser(U.p, G.p) /\ SameBindings(U.p, G.p)
            /\ G.p.version = U.p.version /\ G.p.power = U.p.power
            /\ G.p.nsAtts = [U.p.nsAtts EXCEPT ![j] = x]
        BY <2>4, <4>2, FrameFields DEF SameParser, SameBindings
      <4>4. DOMAIN G.p.nsAtts = DOMAIN U.p.nsAtts
        BY <4>3
      <4> QED
        BY <2>6, <4>2, <4>3, <4>4 DEF SameMarks, AttType
    <3> QED
      BY <2>3, <3>1, <3>2, <3>3
  <2>8. FrameInv(p, G) /\ Marked(G, k + 1)
    BY <2>4, <2>5, <2>7, FrameSameMarks
  <2>9. G.appAtts = F.appAtts
    BY <2>4, <2>7 DEF Flagged, SameMarks
  <2> QED
    BY <2>8, <2>9 DEF G, id
<1> QED
  BY <1>1, <1>2

LEMMA NamesExpanded ==
  ASSUME NEW p, NEW F, FrameInv(p, F), Marked(F, 0)
  PROVE  LET G == Expanded(F)
         IN  FrameInv(p, G) /\ Marked(G, Len(F.appAtts)) /\ G.appAtts = F.appAtts
<1> DEFINE G == Expanded(F)
<1>1. F.appAtts \in Seq(AttIds) /\ Len(F.appAtts) \in Nat
  <2>1. F.appAtts \in Seq(AttIds)
    BY FrameFields
  <2> QED
    BY <2>1
<1>2. PICK f : /\ f[0] = F
               /\ \A i \in 1..Len(F.appAtts) : f[i] = ExpandedAtt(f[i - 1], F.appAtts[i])
               /\ G = f[Len(F.appAtts)]
  BY <1>1, ExpandedBy
<1> HIDE DEF G
<1> DEFINE T == {n \in Nat : n <= Len(F.appAtts) =>
                   FrameInv(p, f[n]) /\ Marked(f[n], n) /\ f[n].appAtts = F.appAtts}
<1>3. 0 \in T
  BY <1>2
<1>4. ASSUME NEW n \in Nat, n \in T PROVE n + 1 \in T
  <2> SUFFICES ASSUME n + 1 <= Len(F.appAtts)
               PROVE  /\ FrameInv(p, f[n + 1]) /\ Marked(f[n + 1], n + 1)
                      /\ f[n + 1].appAtts = F.appAtts
    OBVIOUS
  <2>1. FrameInv(p, f[n]) /\ Marked(f[n], n) /\ f[n].appAtts = F.appAtts
    BY <1>1, <1>4
  <2>2. n + 1 \in 1..Len(F.appAtts) /\ (n + 1) - 1 = n
    BY <1>1
  <2>3. f[n + 1] = ExpandedAtt(f[n], f[n].appAtts[n + 1])
    BY <1>2, <2>1, <2>2
  <2> QED
    BY <2>1, <2>2, <2>3, NameExpanded
<1> HIDE DEF T
<1>5. Len(F.appAtts) \in T
  BY <1>1, <1>3, <1>4, SetInduction
<1>6. FrameInv(p, G) /\ Marked(G, Len(F.appAtts)) /\ G.appAtts = F.appAtts
  BY <1>1, <1>2, <1>5 DEF T
<1> QED
  BY <1>6 DEF G

LEMMA MarksCleared ==
  ASSUME NEW p, NEW F, FrameInv(p, F), Marked(F, Len(F.appAtts))
  PROVE  LET G == BindingFlagsCleared(F)
         IN  FrameInv(p, G) /\ (G.error = None => FlagsClear(G.p))
<1> DEFINE clear == [a \in AttIds |->
                       IF \E i \in DOMAIN F.bindings : F.p.binding[F.bindings[i]].att = a
                       THEN 0 ELSE F.p.flag[a]]
           G == BindingFlagsCleared(F)
<1>1. CASE F.error # None
  BY <1>1 DEF BindingFlagsCleared
<1>2. CASE F.error = None
  <2>1. G = [F EXCEPT !.p.flag = clear]
    BY <1>2 DEF BindingFlagsCleared
  <2>2. F.p.flag \in [AttIds -> 0..2] /\ AttType(F.p)
    BY FrameFields
  <2>3. clear \in [AttIds -> 0..2]
    BY <2>2
  <2>4. \A a \in AttIds : clear[a] = 0
    <3> SUFFICES ASSUME NEW a \in AttIds, F.p.flag[a] # 0
                 PROVE  \E i \in DOMAIN F.bindings : F.p.binding[F.bindings[i]].att = a
      OBVIOUS
    <3>1. F.appAtts \in Seq(AttIds) /\ F.bindings \in Seq(Nat)
      BY FrameFields
    <3>2. Len(F.appAtts) + 1..Len(F.appAtts) = {}
      BY <3>1
    <3>3. \E c \in Range(F.bindings) : F.p.binding[c].att = a
      BY <1>2, <3>2 DEF Marked
    <3> QED
      BY <3>3 DEF Range
  <2> HIDE DEF clear, G
  <2>5. /\ DOMAIN G = DOMAIN F /\ G.bindings = F.bindings /\ G.appAtts = F.appAtts /\ G.str = F.str
        /\ G.error = F.error /\ G.p = [F.p EXCEPT !.flag = clear]
    BY <2>1, FrameFields
  <2>6. /\ DOMAIN G.p = DOMAIN F.p /\ G.p.flag = clear
        /\ G.p.version = F.p.version /\ G.p.power = F.p.power /\ G.p.nsAtts = F.p.nsAtts
        /\ SameParser(F.p, G.p) /\ SameBindings(F.p, G.p)
    BY <2>5, FrameFields DEF SameParser, SameBindings
  <2>7. FrameType(G)
    BY <2>5, FrameFields DEF FrameType
  <2>8. AttType(G.p)
    BY <2>2, <2>3, <2>6 DEF AttType
  <2>9. FrameInv(p, G)
    BY <2>5, <2>6, <2>7, <2>8, FrameChanged
  <2>10. FlagsClear(G.p)
    BY <2>4, <2>6 DEF FlagsClear
  <2> QED
    BY <2>9, <2>10 DEF G
<1> QED
  BY <1>1, <1>2

-----------------------------------------------------------------------------
(* A buffer moves, or what is in it is written again.                        *)
SameLists(p, q) ==
  /\ Len(q.tagStack) = Len(p.tagStack) /\ q.inherited = p.inherited
  /\ \A i \in 1..Len(p.tagStack) : q.tagStack[i].bindings = p.tagStack[i].bindings

LEMMA ScopesKept ==
  ASSUME NEW p, NEW q, ListType(p), ListType(q), SameLists(p, q)
  PROVE  /\ OpenLists(q) = OpenLists(p)
         /\ \A i \in Nat \ {0} : Scope(q, i) = Scope(p, i)
<1>1. /\ p.tagStack \in Seq(OpenTag) /\ q.tagStack \in Seq(OpenTag)
      /\ Len(p.tagStack) \in Nat /\ Len(q.tagStack) = Len(p.tagStack)
      /\ DOMAIN p.tagStack = 1..Len(p.tagStack) /\ DOMAIN q.tagStack = 1..Len(p.tagStack)
      /\ \A i \in 1..Len(p.tagStack) : q.tagStack[i].bindings = p.tagStack[i].bindings
  BY DEF ListType, SameLists
<1>2. OfTags(q.tagStack) = OfTags(p.tagStack)
  BY <1>1 DEF OfTags
<1>3. ASSUME NEW i \in Nat \ {0} PROVE Scope(q, i) = Scope(p, i)
  <2>1. i..Len(p.tagStack) \subseteq 1..Len(p.tagStack)
    BY <1>1
  <2>2. {Range(q.tagStack[k].bindings) : k \in i..Len(p.tagStack)}
          = {Range(p.tagStack[k].bindings) : k \in i..Len(p.tagStack)}
    BY <1>1, <2>1
  <2> QED
    BY <1>1, <2>2 DEF Scope, SameLists
<1> QED
  BY <1>2, <1>3 DEF OpenLists

LEMMA ShadowsMoved ==
  ASSUME NEW p, NEW q, ListType(p), ListType(q), SameLists(p, q), SamePrefixes(p, q, Scope(p, 1)),
         ShadowsInScope(p)
  PROVE  ShadowsInScope(q)
<1>0. p.tagStack \in Seq(OpenTag) /\ Len(p.tagStack) \in Nat
  BY DEF ListType
<1>1. /\ Len(q.tagStack) = Len(p.tagStack)
      /\ \A i \in 1..Len(p.tagStack) : q.tagStack[i].bindings = p.tagStack[i].bindings
  BY DEF SameLists
<1> SUFFICES ASSUME NEW i \in 1..Len(q.tagStack), NEW k \in 1..Len(q.tagStack[i].bindings)
             PROVE  Shadows(q, q.tagStack[i].bindings, k, Scope(q, i + 1))
  BY DEF ShadowsInScope
<1> DEFINE list == p.tagStack[i].bindings
<1>2. i \in 1..Len(p.tagStack) /\ q.tagStack[i].bindings = list
  BY <1>1
<1>3. list \in Seq(Nat) /\ k \in 1..Len(list)
  BY <1>0, <1>2, OfTagsType
<1>4. i + 1 \in Nat \ {0} /\ i + 1 \in 1..Len(p.tagStack) + 1
  BY <1>0, <1>2
<1>5. Scope(q, i + 1) = Scope(p, i + 1)
  BY <1>4, ScopesKept
<1>6. Range(list) \cup Scope(p, i + 1) \subseteq Scope(p, 1)
  <2>1. Scope(p, i) = Range(list) \cup Scope(p, i + 1)
    BY <1>2, ScopeFacts
  <2>2. i \in 1..Len(p.tagStack) + 1
    BY <1>0, <1>2
  <2> QED
    BY <2>1, <2>2, ScopeFacts
<1>7. SamePrefixes(p, q, Range(list) \cup Scope(p, i + 1))
  BY <1>6 DEF SamePrefixes
<1>8. Shadows(p, list, k, Scope(p, i + 1))
  BY <1>2, <1>3 DEF ShadowsInScope
<1> HIDE DEF list
<1> QED
  BY <1>2, <1>3, <1>5, <1>7, <1>8, ShadowsKept

Moves(p, q, b, a) ==
  /\ DOMAIN q = DOMAIN p /\ q.prefixBinding = p.prefixBinding /\ q.freeBindings = p.freeBindings
  /\ q.inherited = p.inherited /\ q.freeTags = p.freeTags /\ q.flag = p.flag
  /\ q.power = p.power /\ q.version = p.version /\ q.nsAtts = p.nsAtts
  /\ q.state = p.state /\ q.error = p.error
  /\ q.binding \in Seq(Binding) /\ Len(q.binding) = Len(p.binding)
  /\ \A c \in 1..Len(p.binding) : c # b => q.binding[c] = p.binding[c]
  /\ q.binding[b].prefix = p.binding[b].prefix /\ q.binding[b].prev = p.binding[b].prev
  /\ q.binding[b].uri = p.binding[b].uri
  /\ q.binding[b].alloc = a /\ p.binding[b].alloc <= a
  /\ q.tagStack \in Seq(OpenTag) /\ Len(q.tagStack) = Len(p.tagStack)
  /\ \A i \in 1..Len(p.tagStack) :
       /\ q.tagStack[i].el = p.tagStack[i].el /\ q.tagStack[i].bindings = p.tagStack[i].bindings
       /\ q.tagStack[i].str = IF p.tagStack[i].str = <<b, p.binding[b].alloc>> THEN <<b, a>>
                              ELSE p.tagStack[i].str

LEMMA BindingIn ==
  ASSUME NEW p, BindingType(p), NEW b \in 1..Len(p.binding)
  PROVE  /\ p.binding[b] \in Binding /\ p.binding[b].prefix \in PrefixTable
         /\ p.binding[b].uri \in Strings /\ p.binding[b].alloc \in Nat
         /\ p.binding[b].prev \in 0..Len(p.binding)
         /\ Length[p.binding[b].uri] <= p.binding[b].alloc /\ Length[p.binding[b].uri] \in Nat
<1>1. p.binding \in Seq(Binding) /\ Len(p.binding) \in Nat
  BY DEF BindingType
<1>2. p.binding[b] \in Binding
  BY <1>1, ElementOf
<1>3. /\ p.binding[b].prefix \in PrefixTable /\ p.binding[b].uri \in Strings
      /\ p.binding[b].alloc \in Nat /\ p.binding[b].prev \in Nat
  BY <1>2, BindingFields
<1>4. p.binding[b].prev <= Len(p.binding) /\ Length[p.binding[b].uri] <= p.binding[b].alloc
  BY DEF BindingType
<1>5. Length[p.binding[b].uri] \in Nat
  BY <1>3, NamespacesAssumption DEF Strings
<1> QED
  BY <1>1, <1>2, <1>3, <1>4, <1>5

LEMMA NameLenNat ==
  ASSUME NEW el, NEW uri, Length[el.local] \in Nat, Length[uri] \in Nat, Length[el.prefix] \in Nat
  PROVE  NameLen(el, uri) \in Nat
<1> DEFINE named == Triplets /\ el.prefix # ""
<1>1. NameLen(el, uri) = Length[el.local] + Length[uri] + (IF named THEN Length[el.prefix] ELSE 0)
  BY Zenon DEF NameLen
<1> HIDE DEF named
<1>2. (IF named THEN Length[el.prefix] ELSE 0) \in Nat
  OBVIOUS
<1> DEFINE n == IF named THEN Length[el.prefix] ELSE 0
<1> HIDE DEF n
<1>3. NameLen(el, uri) = Length[el.local] + Length[uri] + n /\ n \in Nat
  BY <1>1, <1>2 DEF n
<1> QED
  BY <1>3

LEMMA Moved ==
  ASSUME NEW p, NEW q, NEW cur \in Seq(Nat), NEW b \in 1..Len(p.binding), NEW a \in Nat,
         Typed(p), OneList(p, cur), Moves(p, q, b, a)
  PROVE  /\ Typed(q) /\ OneList(q, cur) /\ Owned(q, cur) = Owned(p, cur)
         /\ \A i \in Nat \ {0} : Scope(q, i) = Scope(p, i)
         /\ Live(p, cur) => Live(q, cur)
<1>1. /\ BindingType(p) /\ ListType(p) /\ AttType(p) /\ StateType(p)
      /\ Len(p.binding) \in Nat /\ Len(p.tagStack) \in Nat
  BY DEF Typed, BindingType, ListType
<1>2. \A c \in 1..Len(p.binding) :
        /\ q.binding[c].prefix = p.binding[c].prefix /\ q.binding[c].prev = p.binding[c].prev
        /\ q.binding[c].uri = p.binding[c].uri
  BY DEF Moves
<1>3. BindingType(q)
  <2>1. \A c \in 1..Len(p.binding) :
          q.binding[c].prev <= Len(q.binding) /\ Length[q.binding[c].uri] <= q.binding[c].alloc
    <3> SUFFICES ASSUME NEW c \in 1..Len(p.binding)
                 PROVE  /\ q.binding[c].prev <= Len(q.binding)
                        /\ Length[q.binding[c].uri] <= q.binding[c].alloc
      OBVIOUS
    <3>1. /\ p.binding[c].prev <= Len(p.binding) /\ Length[p.binding[c].uri] <= p.binding[c].alloc
          /\ Length[p.binding[c].uri] \in Nat /\ p.binding[c].alloc \in Nat
      BY <1>1, BindingIn
    <3>2. q.binding[c].alloc = p.binding[c].alloc \/ (c = b /\ q.binding[c].alloc = a /\ p.binding[b].alloc <= a)
      BY DEF Moves
    <3>3. p.binding[c].alloc <= q.binding[c].alloc /\ q.binding[c].alloc \in Nat
      BY <3>1, <3>2
    <3> QED
      BY <1>2, <3>1, <3>3 DEF Moves
  <2> QED
    BY <1>1, <2>1 DEF BindingType, Moves
<1>4. ListType(q) /\ AttType(q)
  BY <1>1 DEF ListType, AttType, Moves
<1>5. StateType(q)
  <2>1. p.tagStack = <<>> => q.tagStack = <<>>
    BY DEF Moves
  <2> QED
    BY <1>1, <2>1 DEF StateType, Moves
<1>6. SameLists(p, q)
  BY DEF SameLists, Moves
<1>7. OpenLists(q) = OpenLists(p) /\ \A i \in Nat \ {0} : Scope(q, i) = Scope(p, i)
  BY <1>1, <1>4, <1>6, ScopesKept
<1>8. Owned(q, cur) = Owned(p, cur) /\ OneList(q, cur)
  <2>1. Owned(q, cur) = Owned(p, cur)
    BY <1>7 DEF Owned, Moves
  <2>2. Apart(q, cur)
    BY <1>7 DEF OneList, Apart, Moves
  <2> QED
    BY <2>1, <2>2 DEF OneList, Moves
<1>9. ASSUME Live(p, cur) PROVE Live(q, cur)
  <2>1. Scope(p, 1) \subseteq Owned(p, cur)
    <3>1. 1 \in 1..Len(p.tagStack) + 1
      BY <1>1
    <3> QED
      BY <1>1, <3>1, ScopeFacts DEF Owned
  <2>2. Range(cur) \cup Scope(p, 1) \subseteq 1..Len(p.binding)
    BY <2>1 DEF OneList, Owned
  <2>3. SamePrefixes(p, q, Range(cur) \cup Scope(p, 1)) /\ SamePrefixes(p, q, Scope(p, 1))
    BY <1>2, <2>2 DEF SamePrefixes
  <2>4. ShadowsInScope(q)
    BY <1>1, <1>4, <1>6, <1>9, <2>3, ShadowsMoved DEF Live
  <2>5. Scope(q, 1) = Scope(p, 1)
    BY <1>7
  <2>6. PrefixesInScope(q, cur)
    <3>1. \A k \in 1..Len(cur) : Shadows(q, cur, k, Scope(p, 1))
      BY <1>9, <2>3, ShadowsKept DEF Live, PrefixesInScope
    <3>2. ASSUME NEW x \in PrefixTable, q.prefixBinding[x] # Null
          PROVE  /\ q.prefixBinding[x] \in Range(cur) \cup Scope(p, 1)
                 /\ q.binding[q.prefixBinding[x]].prefix = x
      <4>1. q.prefixBinding[x] = p.prefixBinding[x]
        BY DEF Moves
      <4>2. /\ p.prefixBinding[x] \in Range(cur) \cup Scope(p, 1)
            /\ p.binding[p.prefixBinding[x]].prefix = x
        BY <1>9, <3>2, <4>1 DEF Live, PrefixesInScope
      <4> QED
        BY <2>3, <4>1, <4>2 DEF SamePrefixes
    <3> QED
      BY <2>5, <3>1, <3>2 DEF PrefixesInScope
  <2>7. NamesPlaced(q)
    <3> SUFFICES ASSUME NEW i \in 1..Len(p.tagStack), q.tagStack[i].str # Own
                 PROVE  LET c == q.tagStack[i].str[1]
                        IN  /\ c \in Scope(q, i) /\ q.binding[c].prefix = q.tagStack[i].el.prefix
                            /\ q.binding[c].alloc = q.tagStack[i].str[2]
                            /\ NameLen(q.tagStack[i].el, q.binding[c].uri) <= q.binding[c].alloc
      BY DEF NamesPlaced, NamePlaced, Moves
    <3> DEFINE t == p.tagStack[i]
               u == q.tagStack[i]
               c == t.str[1]
    <3>1. /\ u.el = t.el
          /\ u.str = IF t.str = <<b, p.binding[b].alloc>> THEN <<b, a>> ELSE t.str
      BY DEF Moves
    <3>2. t \in OpenTag
      BY <1>1, ElementOf DEF ListType
    <3>3. <<b, p.binding[b].alloc>> # <<>> /\ <<b, a>> # <<>>
      OBVIOUS
    <3>4. t.str # Own
      BY <3>1, <3>3 DEF Own
    <3>5. t.str \in Nat \X Nat /\ t.str = <<t.str[1], t.str[2]>>
      <4>1. t.str \in Nat \X Nat
        BY <3>2, <3>4 DEF OpenTag
      <4> QED
        BY <4>1
    <3> HIDE DEF t, u
    <3>6. /\ c \in Scope(p, i) /\ p.binding[c].prefix = t.el.prefix
          /\ p.binding[c].alloc = t.str[2] /\ NameLen(t.el, p.binding[c].uri) <= p.binding[c].alloc
      <4>1. NamePlaced(p, t, Scope(p, i))
        BY <1>9 DEF Live, NamesPlaced, t
      <4> QED
        BY <3>4, <4>1 DEF NamePlaced
    <3>7. i \in Nat \ {0} /\ Scope(p, i) \subseteq Scope(p, 1)
      BY <1>1, ScopeFacts
    <3>8. c \in 1..Len(p.binding) /\ Scope(q, i) = Scope(p, i)
      BY <1>7, <2>2, <3>6, <3>7
    <3>n. NameLen(t.el, p.binding[c].uri) <= p.binding[c].alloc
      BY <3>6
    <3>9. CASE c = b
      <4>1. t.str = <<b, p.binding[b].alloc>>
        BY <3>5, <3>6, <3>9
      <4>2. u.str = <<b, a>> /\ u.str[1] = b /\ u.str[2] = a
        BY <3>1, <4>1
      <4>3. q.binding[b].alloc = a /\ p.binding[b].alloc <= a
        BY DEF Moves
      <4>4. p.binding[b].alloc \in Nat
        BY <1>1, BindingIn
      <4>5. NameLen(t.el, p.binding[b].uri) <= a
        <5>1. NameLen(t.el, p.binding[b].uri) \in Nat
          <6>1. t.el \in [prefix: PrefixTable, local: Strings]
            BY <3>2, NamespacesAssumption DEF OpenTag
          <6>2. Length[t.el.local] \in Nat /\ Length[t.el.prefix] \in Nat
            BY <6>1, NamespacesAssumption DEF Strings
          <6>3. Length[p.binding[b].uri] \in Nat
            BY <1>1, BindingIn
          <6> QED
            BY <6>2, <6>3, NameLenNat
        <5> QED
          BY <3>9, <3>n, <4>3, <4>4, <5>1
      <4> QED
        BY <1>2, <3>1, <3>6, <3>8, <3>9, <4>2, <4>3, <4>5 DEF u
    <3>10. CASE c # b
      <4>1. t.str # <<b, p.binding[b].alloc>>
        BY <3>5, <3>10
      <4>2. u.str = t.str
        BY <3>1, <4>1
      <4>3. q.binding[c] = p.binding[c]
        BY <3>8, <3>10 DEF Moves
      <4> QED
        BY <3>1, <3>6, <3>8, <4>2, <4>3 DEF u
    <3> QED
      BY <3>9, <3>10
  <2> QED
    BY <2>4, <2>6, <2>7 DEF Live
<1> QED
  BY <1>3, <1>4, <1>5, <1>7, <1>8, <1>9 DEF Typed

LEMMA UriBufferMoves ==
  ASSUME NEW p, Typed(p), NEW b \in 1..Len(p.binding), NEW a \in Nat, p.binding[b].alloc <= a
  PROVE  Moves(p, NewUriBuffer(p, b, a), b, a)
<1> DEFINE old == p.binding[b].alloc
           stack == [i \in DOMAIN p.tagStack |->
                       IF p.tagStack[i].str = <<b, old>>
                       THEN [p.tagStack[i] EXCEPT !.str = <<b, a>>] ELSE p.tagStack[i]]
           d == [p.binding[b] EXCEPT !.alloc = a]
           q == NewUriBuffer(p, b, a)
<1>1. /\ p.binding \in Seq(Binding) /\ p.tagStack \in Seq(OpenTag)
      /\ Len(p.tagStack) \in Nat /\ DOMAIN p.tagStack = 1..Len(p.tagStack)
      /\ DOMAIN p = {"prefixBinding", "binding", "freeBindings", "inherited", "tagStack",
                     "freeTags", "flag", "power", "version", "nsAtts", "state", "error"}
  BY ParserFields DEF Typed, BindingType, ListType, StateType
<1>2. d \in Binding /\ d.prefix = p.binding[b].prefix /\ d.prev = p.binding[b].prev
        /\ d.uri = p.binding[b].uri /\ d.alloc = a
  <2>1. p.binding[b] \in Binding
    BY <1>1, ElementOf
  <2> QED
    BY <2>1 DEF Binding
<1>3. \A i \in 1..Len(p.tagStack) :
        /\ stack[i] \in OpenTag
        /\ stack[i].el = p.tagStack[i].el /\ stack[i].bindings = p.tagStack[i].bindings
        /\ stack[i].str = IF p.tagStack[i].str = <<b, old>> THEN <<b, a>> ELSE p.tagStack[i].str
  <2> SUFFICES ASSUME NEW i \in 1..Len(p.tagStack)
               PROVE  /\ stack[i] \in OpenTag
                      /\ stack[i].el = p.tagStack[i].el
                      /\ stack[i].bindings = p.tagStack[i].bindings
                      /\ stack[i].str = IF p.tagStack[i].str = <<b, old>> THEN <<b, a>>
                                        ELSE p.tagStack[i].str
    OBVIOUS
  <2> DEFINE t == p.tagStack[i]
  <2>1. t \in OpenTag
    BY <1>1, ElementOf
  <2>2. stack[i] = IF t.str = <<b, old>> THEN [t EXCEPT !.str = <<b, a>>] ELSE t
    BY <1>1
  <2>3. <<b, a>> \in Nat \X Nat
    BY <1>1
  <2> HIDE DEF stack, t
  <2>4. [t EXCEPT !.str = <<b, a>>] \in OpenTag
    BY <2>1, <2>3 DEF OpenTag
  <2>5. /\ [t EXCEPT !.str = <<b, a>>].el = t.el /\ [t EXCEPT !.str = <<b, a>>].bindings = t.bindings
        /\ [t EXCEPT !.str = <<b, a>>].str = <<b, a>>
    BY <2>1 DEF OpenTag
  <2> QED
    BY <2>1, <2>2, <2>4, <2>5 DEF t
<1>4. stack \in Seq(OpenTag) /\ Len(stack) = Len(p.tagStack)
  <2>1. stack \in [1..Len(p.tagStack) -> OpenTag]
    BY <1>1, <1>3
  <2> QED
    BY <1>1, <2>1
<1>5. q = [p EXCEPT !.binding = [@ EXCEPT ![b] = d], !.tagStack = stack]
  BY Zenon DEF NewUriBuffer
<1> HIDE DEF d, stack, q
<1>6. /\ DOMAIN q = DOMAIN p /\ q.prefixBinding = p.prefixBinding /\ q.freeBindings = p.freeBindings
      /\ q.inherited = p.inherited /\ q.freeTags = p.freeTags /\ q.flag = p.flag
      /\ q.power = p.power /\ q.version = p.version /\ q.nsAtts = p.nsAtts
      /\ q.state = p.state /\ q.error = p.error
      /\ q.binding = [p.binding EXCEPT ![b] = d] /\ q.tagStack = stack
  BY <1>1, <1>5
<1>7. /\ q.binding \in Seq(Binding) /\ Len(q.binding) = Len(p.binding) /\ q.binding[b] = d
      /\ \A c \in 1..Len(p.binding) : c # b => q.binding[c] = p.binding[c]
  BY <1>1, <1>2, <1>6
<1> QED
  BY <1>2, <1>3, <1>4, <1>6, <1>7 DEF Moves, q

Written(p, b, name) == [p EXCEPT !.binding[b].behind = name]

LEMMA MovesNot ==
  ASSUME NEW p, Typed(p), NEW b \in 1..Len(p.binding)
  PROVE  Moves(p, p, b, p.binding[b].alloc)
<1>1. p.binding \in Seq(Binding) /\ p.tagStack \in Seq(OpenTag)
  BY DEF Typed, BindingType, ListType
<1>2. p.binding[b].alloc <= p.binding[b].alloc
  BY BindingIn DEF Typed
<1>3. \A s : s = IF s = <<b, p.binding[b].alloc>> THEN <<b, p.binding[b].alloc>> ELSE s
  OBVIOUS
<1> QED
  BY <1>1, <1>2, <1>3 DEF Moves

LEMMA Rewritten ==
  ASSUME NEW p, Typed(p), NEW b \in 1..Len(p.binding), NEW w \in Strings \cup {None}
  PROVE  Moves(p, Written(p, b, w), b, p.binding[b].alloc) /\ p.binding[b].alloc \in Nat
<1> DEFINE d == [p.binding[b] EXCEPT !.behind = w]
           q == Written(p, b, w)
<1>1. /\ p.binding \in Seq(Binding) /\ p.tagStack \in Seq(OpenTag)
      /\ DOMAIN p = {"prefixBinding", "binding", "freeBindings", "inherited", "tagStack",
                     "freeTags", "flag", "power", "version", "nsAtts", "state", "error"}
  BY ParserFields DEF Typed, BindingType, ListType, StateType
<1>2. d \in Binding /\ d.prefix = p.binding[b].prefix /\ d.prev = p.binding[b].prev
        /\ d.uri = p.binding[b].uri /\ d.alloc = p.binding[b].alloc
  <2>1. p.binding[b] \in Binding
    BY <1>1, ElementOf
  <2> QED
    BY <2>1 DEF Binding
<1>5. q = [p EXCEPT !.binding = [@ EXCEPT ![b] = d]]
  BY Zenon DEF Written
<1> HIDE DEF d, q
<1>6. /\ DOMAIN q = DOMAIN p /\ q.prefixBinding = p.prefixBinding /\ q.freeBindings = p.freeBindings
      /\ q.inherited = p.inherited /\ q.freeTags = p.freeTags /\ q.flag = p.flag
      /\ q.power = p.power /\ q.version = p.version /\ q.nsAtts = p.nsAtts
      /\ q.state = p.state /\ q.error = p.error
      /\ q.binding = [p.binding EXCEPT ![b] = d] /\ q.tagStack = p.tagStack
  BY <1>1, <1>5
<1>7. /\ q.binding \in Seq(Binding) /\ Len(q.binding) = Len(p.binding) /\ q.binding[b] = d
      /\ \A c \in 1..Len(p.binding) : c # b => q.binding[c] = p.binding[c]
  BY <1>1, <1>2, <1>6
<1>8. p.binding[b].alloc \in Nat
  BY BindingIn DEF Typed
<1>9. \A i \in 1..Len(p.tagStack) :
        q.tagStack[i].str = IF p.tagStack[i].str = <<b, p.binding[b].alloc>>
                            THEN <<b, p.binding[b].alloc>> ELSE p.tagStack[i].str
  BY <1>6
<1>10. \A i \in 1..Len(p.tagStack) :
         q.tagStack[i].el = p.tagStack[i].el /\ q.tagStack[i].bindings = p.tagStack[i].bindings
  BY <1>6
<1>11. p.binding[b].alloc <= p.binding[b].alloc
  BY <1>8
<1> DEFINE a == p.binding[b].alloc
<1>12. Moves(p, q, b, a)
  <2>1. \A i \in 1..Len(p.tagStack) :
          q.tagStack[i].str = IF p.tagStack[i].str = <<b, p.binding[b].alloc>> THEN <<b, a>>
                              ELSE p.tagStack[i].str
    BY <1>9
  <2>2. q.binding[b].alloc = a /\ p.binding[b].alloc <= a
    BY <1>2, <1>7, <1>11
  <2>3. q.tagStack \in Seq(OpenTag) /\ Len(q.tagStack) = Len(p.tagStack)
    BY <1>1, <1>6
  <2> HIDE DEF a
  <2> QED
    BY <1>2, <1>6, <1>7, <1>10, <2>1, <2>2, <2>3 DEF Moves
<1> QED
  BY <1>8, <1>12 DEF q

LEMMA KeptMoved ==
  ASSUME NEW u, NEW p, NEW q, NEW c1, NEW cur, NEW b, NEW a, Kept(u, c1, p, cur), Moves(p, q, b, a),
         Owned(q, cur) = Owned(p, cur)
  PROVE  Kept(u, c1, q, cur)
BY DEF Kept, Moves

(* storeAtts when it is done with the tag of the element el.                 *)
Stored(p, el, F) ==
  /\ Typed(F.p) /\ F.p.error = p.error /\ F.p.state = p.state /\ F.p.freeTags = p.freeTags
  /\ F.bindings \in Seq(Nat) /\ OneList(F.p, F.bindings) /\ Kept(p, <<>>, F.p, F.bindings)
  /\ F.str \in {Own} \cup (Nat \X Nat)
  /\ F.error = None =>
       /\ Live(F.p, F.bindings) /\ FlagsClear(F.p)
       /\ NamePlaced(F.p, [el |-> el, str |-> F.str, bindings |-> F.bindings],
                     Range(F.bindings) \cup Scope(F.p, 1))

LEMMA StoredUnplaced ==
  ASSUME NEW p, NEW el, NEW F, FrameInv(p, F), F.error = None => FlagsClear(F.p)
  PROVE  Stored(p, el, F)
<1>1. /\ Typed(F.p) /\ SameParser(p, F.p) /\ OneList(F.p, F.bindings)
      /\ Kept(p, <<>>, F.p, F.bindings) /\ F.bindings \in Seq(Nat) /\ F.str = Own
  BY DEF FrameInv, FrameType
<1>2. F.error = None => Live(F.p, F.bindings)
  BY DEF FrameInv
<1>3. NamePlaced(F.p, [el |-> el, str |-> F.str, bindings |-> F.bindings],
                 Range(F.bindings) \cup Scope(F.p, 1))
  BY <1>1 DEF NamePlaced
<1> QED
  BY <1>1, <1>2, <1>3 DEF Stored, SameParser

LEMMA ElementExpanded ==
  ASSUME NEW p, NEW el \in Elements, NEW F, FrameInv(p, F), F.error = None => FlagsClear(F.p)
  PROVE  Stored(p, el, ExpandedElement(F, el))
<1> DEFINE P == F.p
           b == P.prefixBinding[el.prefix]
           n == NameLen(el, P.binding[b].uri)
           a == n + ExpandSpare
           U == IF n > P.binding[b].alloc THEN NewUriBuffer(P, b, a) ELSE P
           Q == Written(U, b, el.local)
           G == ExpandedElement(F, el)
<1>1. CASE F.error # None
  <2>1. G = F
    BY <1>1 DEF ExpandedElement
  <2> QED
    BY <2>1, StoredUnplaced
<1>2. CASE F.error = None /\ b = Null
  <2>1. \/ G = [F EXCEPT !.error = "UNBOUND_PREFIX"]
        \/ G = [F EXCEPT !.name = Name("", el.local, "")]
    BY <1>2, Zenon DEF ExpandedElement, b
  <2>2. CASE G = [F EXCEPT !.error = "UNBOUND_PREFIX"]
    <3> HIDE DEF G
    <3>1. FrameInv(p, G) /\ G.error # None
      BY <2>2, FrameRefused DEF None
    <3>2. Stored(p, el, G)
      BY <3>1, StoredUnplaced
    <3> QED
      BY <3>2 DEF G
  <2>3. CASE G = [F EXCEPT !.name = Name("", el.local, "")]
    <3> DEFINE x == Name("", el.local, "")
    <3>0. G = [F EXCEPT !.name = x]
      BY <2>3
    <3> HIDE DEF G, x
    <3>1. /\ DOMAIN G = DOMAIN F /\ G.p = F.p /\ G.bindings = F.bindings /\ G.appAtts = F.appAtts
          /\ G.str = F.str /\ G.error = F.error
      BY <3>0, FrameFields
    <3>2. Typed(F.p) /\ OneList(F.p, F.bindings) /\ SameParser(p, F.p)
          /\ Kept(p, <<>>, F.p, F.bindings) /\ Live(F.p, F.bindings)
      BY <1>2 DEF FrameInv
    <3>3. FrameType(G)
      BY <3>1, FrameFields DEF FrameType
    <3>4. FrameInv(p, G)
      BY <1>2, <3>1, <3>2, <3>3 DEF FrameInv
    <3>5. Stored(p, el, G)
      BY <3>1, <3>4, StoredUnplaced
    <3> QED
      BY <3>5 DEF G
  <2> QED
    BY <2>1, <2>2, <2>3
<1>3. CASE F.error = None /\ b # Null
  <2>1. G = [F EXCEPT !.p = Q, !.str = <<b, U.binding[b].alloc>>,
                      !.name = Name(P.binding[b].uri, el.local, el.prefix)]
    BY <1>3, Zenon DEF ExpandedElement, Written
  <2>2. /\ Typed(P) /\ BindingType(P) /\ SameParser(p, P) /\ OneList(P, F.bindings)
        /\ Kept(p, <<>>, P, F.bindings) /\ Live(P, F.bindings) /\ FlagsClear(P)
        /\ F.bindings \in Seq(Nat)
    BY <1>3 DEF FrameInv, FrameType, Typed
  <2>3. el.prefix \in PrefixTable /\ el.local \in Strings
    BY NamespacesAssumption
  <2>4. /\ b \in Range(F.bindings) \cup Scope(P, 1) /\ P.binding[b].prefix = el.prefix
    BY <1>3, <2>2, <2>3 DEF Live, PrefixesInScope
  <2>5. b \in 1..Len(P.binding)
    BY <1>3, <2>2, <2>3 DEF BindingType, Null
  <2>6. /\ P.binding[b].alloc \in Nat /\ P.binding[b].uri \in Strings
        /\ Length[P.binding[b].uri] \in Nat
    BY <2>2, <2>5, BindingIn
  <2>7. n \in Nat /\ ExpandSpare \in Nat /\ a \in Nat
    <3>1. Length[el.local] \in Nat /\ Length[el.prefix] \in Nat /\ ExpandSpare \in Nat
      BY <2>3, NamespacesAssumption DEF Strings
    <3>2. n \in Nat
      BY <2>6, <3>1, NameLenNat
    <3> HIDE DEF n
    <3> QED
      BY <3>1, <3>2
  <2> HIDE DEF P, b, n, G, Q
  <2>8. /\ Moves(P, U, b, U.binding[b].alloc) /\ U.binding[b].alloc \in Nat
        /\ n <= U.binding[b].alloc
    <3>1. CASE n > P.binding[b].alloc
      <4>1. U = NewUriBuffer(P, b, a) /\ P.binding[b].alloc <= a /\ n <= a
        BY <2>6, <2>7, <3>1
      <4> HIDE DEF U, a
      <4>2. Moves(P, U, b, a)
        BY <2>2, <2>5, <2>7, <4>1, UriBufferMoves
      <4>3. U.binding[b].alloc = a
        BY <4>2 DEF Moves
      <4> QED
        BY <2>7, <4>1, <4>2, <4>3
    <3>2. CASE ~(n > P.binding[b].alloc)
      <4>1. U = P /\ n <= P.binding[b].alloc
        BY <2>6, <2>7, <3>2
      <4> HIDE DEF U
      <4>3. Moves(P, P, b, P.binding[b].alloc)
        BY <2>2, <2>5, MovesNot
      <4> QED
        BY <2>6, <4>1, <4>3
    <3> QED
      BY <3>1, <3>2
  <2> HIDE DEF U, a
  <2>9. /\ Typed(U) /\ OneList(U, F.bindings) /\ Owned(U, F.bindings) = Owned(P, F.bindings)
        /\ Scope(U, 1) = Scope(P, 1) /\ Live(U, F.bindings)
    <3> DEFINE m == U.binding[b].alloc
    <3>1. 1 \in Nat \ {0} /\ m \in Nat /\ Moves(P, U, b, m)
      BY <2>8
    <3> HIDE DEF m
    <3>2. /\ Typed(U) /\ OneList(U, F.bindings) /\ Owned(U, F.bindings) = Owned(P, F.bindings)
          /\ \A i \in Nat \ {0} : Scope(U, i) = Scope(P, i)
          /\ Live(P, F.bindings) => Live(U, F.bindings)
      BY <2>2, <2>5, <3>1, Moved
    <3> QED
      BY <2>2, <3>1, <3>2
  <2>10. b \in 1..Len(U.binding) /\ el.local \in Strings \cup {None}
    BY <2>3, <2>5, <2>8 DEF Moves
  <2>11. Moves(U, Q, b, U.binding[b].alloc)
    BY <2>9, <2>10, Rewritten DEF Q
  <2>12. /\ Typed(Q) /\ OneList(Q, F.bindings) /\ Owned(Q, F.bindings) = Owned(U, F.bindings)
         /\ Scope(Q, 1) = Scope(U, 1) /\ Live(Q, F.bindings)
    <3> DEFINE m == U.binding[b].alloc
    <3>1. 1 \in Nat \ {0} /\ m \in Nat /\ Moves(U, Q, b, m)
      BY <2>8, <2>11
    <3> HIDE DEF m
    <3>2. F.bindings \in Seq(Nat) /\ b \in 1..Len(U.binding) /\ Typed(U) /\ OneList(U, F.bindings)
      BY <2>2, <2>9, <2>10
    <3>3. /\ Typed(Q) /\ OneList(Q, F.bindings) /\ Owned(Q, F.bindings) = Owned(U, F.bindings)
          /\ \A i \in Nat \ {0} : Scope(Q, i) = Scope(U, i)
          /\ Live(U, F.bindings) => Live(Q, F.bindings)
      BY <3>1, <3>2, Moved
    <3> QED
      BY <2>9, <3>1, <3>3
  <2>13. Kept(p, <<>>, Q, F.bindings)
    <3>1. Kept(p, <<>>, U, F.bindings)
      BY <2>2, <2>8, <2>9, KeptMoved
    <3> QED
      BY <2>11, <2>12, <3>1, KeptMoved
  <2>14. /\ Q.error = p.error /\ Q.state = p.state /\ Q.freeTags = p.freeTags /\ Q.flag = P.flag
    BY <2>2, <2>8, <2>11 DEF Moves, SameParser
  <2>15. /\ Q.binding[b].alloc = U.binding[b].alloc /\ Q.binding[b].prefix = el.prefix
         /\ Q.binding[b].uri = P.binding[b].uri
    BY <2>4, <2>8, <2>11 DEF Moves
  <2>16. /\ G.p = Q /\ G.str = <<b, U.binding[b].alloc>> /\ G.bindings = F.bindings
         /\ G.error = None
    BY <1>3, <2>1, FrameFields
  <2>17. G.str[1] = b /\ G.str[2] = U.binding[b].alloc /\ G.str \in Nat \X Nat
    BY <2>5, <2>8, <2>16
  <2> DEFINE t == [el |-> el, str |-> G.str, bindings |-> G.bindings]
  <2>18. t.el = el /\ t.str = G.str
    OBVIOUS
  <2> HIDE DEF t
  <2>19. NamePlaced(Q, t, Range(F.bindings) \cup Scope(Q, 1))
    <3>1. NameLen(el, Q.binding[b].uri) <= Q.binding[b].alloc
      BY <2>8, <2>15 DEF n
    <3>2. b \in Range(F.bindings) \cup Scope(Q, 1)
      BY <2>4, <2>9, <2>12
    <3> QED
      BY <2>15, <2>17, <2>18, <3>1, <3>2 DEF NamePlaced
  <2>20. FlagsClear(Q)
    BY <2>2, <2>14 DEF FlagsClear
  <2>21. Stored(p, el, G)
    BY <2>2, <2>12, <2>13, <2>14, <2>16, <2>17, <2>19, <2>20 DEF Stored, t
  <2> QED
    BY <2>21 DEF G
<1> QED
  BY <1>1, <1>2, <1>3

LEMMA AttsStored ==
  ASSUME NEW p, Typed(p), OneList(p, <<>>), Live(p, <<>>), FlagsClear(p),
         NEW el \in Elements, NEW atts \in AttLists[el]
  PROVE  Stored(p, el, storeAtts(p, el, atts))
<1> DEFINE C == Collected(p, el, atts)
           V == NewVersion(C)
           X == Expanded(V)
           M == BindingFlagsCleared(X)
<1>1. FrameInv(p, C) /\ Marked(C, 0)
  BY CollectedAll
<1>2. storeAtts(p, el, atts) = ExpandedElement(M, el)
  BY DEF storeAtts
<1> HIDE DEF C
<1>3. FrameInv(p, V) /\ Marked(V, 0)
  BY <1>1, Versioned
<1> HIDE DEF V
<1>4. FrameInv(p, X) /\ Marked(X, Len(V.appAtts)) /\ X.appAtts = V.appAtts
  BY <1>3, NamesExpanded
<1>5. Marked(X, Len(X.appAtts))
  BY <1>4
<1> HIDE DEF X
<1>6. FrameInv(p, M) /\ (M.error = None => FlagsClear(M.p))
  BY <1>4, <1>5, MarksCleared
<1> HIDE DEF M
<1>7. Stored(p, el, ExpandedElement(M, el))
  BY <1>6, ElementExpanded
<1> QED
  BY <1>2, <1>7

-----------------------------------------------------------------------------
(* A tag is put on the stack, or taken from it (q has one more than p).      *)
Pushes(p, q, tag) ==
  /\ ListType(p) /\ ListType(q) /\ SameBindings(p, q) /\ q.inherited = p.inherited
  /\ FlattenSeq(q.freeTags) = FlattenSeq(p.freeTags)
  /\ tag \in OpenTag /\ q.tagStack = <<tag>> \o p.tagStack

LEMMA PushedTags ==
  ASSUME NEW tag \in OpenTag, NEW stack \in Seq(OpenTag)
  PROVE  OfTags(<<tag>> \o stack) = <<tag.bindings>> \o OfTags(stack)
<1> DEFINE s == <<tag>> \o stack
           b == tag.bindings
           a == OfTags(s)
           c == <<b>> \o OfTags(stack)
<1>0. b \in Seq(Nat)
  BY DEF OpenTag
<1>1. /\ s \in Seq(OpenTag) /\ Len(s) = Len(stack) + 1 /\ s[1] = tag
      /\ \A i \in 2..Len(s) : i - 1 \in 1..Len(stack) /\ s[i] = stack[i - 1]
  BY Pushed
<1>2. /\ OfTags(stack) \in Seq(Seq(Nat)) /\ Len(OfTags(stack)) = Len(stack)
      /\ \A i \in 1..Len(stack) : OfTags(stack)[i] = stack[i].bindings
  BY OfTagsType
<1> HIDE DEF s, b
<1>3. /\ a \in Seq(Seq(Nat)) /\ Len(a) = Len(s)
      /\ \A i \in 1..Len(s) : a[i] = s[i].bindings
  BY <1>1, OfTagsType
<1> DEFINE o == OfTags(stack)
<1> HIDE DEF o
<1>4. /\ c \in Seq(Seq(Nat)) /\ Len(c) = Len(o) + 1 /\ c[1] = b
      /\ \A i \in 2..Len(c) : i - 1 \in 1..Len(o) /\ c[i] = o[i - 1]
  <2> DEFINE d == <<b>> \o o
  <2>1. o \in Seq(Seq(Nat)) /\ c = d
    BY <1>2 DEF o
  <2> HIDE DEF c
  <2>2. /\ d \in Seq(Seq(Nat)) /\ Len(d) = Len(o) + 1 /\ d[1] = b
        /\ \A i \in 2..Len(d) : i - 1 \in 1..Len(o) /\ d[i] = o[i - 1]
    BY <1>0, <2>1, Pushed
  <2> HIDE DEF d
  <2> QED
    BY <2>1, <2>2
<1> HIDE DEF a, c
<1>5. Len(a) = Len(c) /\ Len(stack) \in Nat
  BY <1>1, <1>2, <1>3, <1>4 DEF o
<1>6. \A i \in 1..Len(a) : a[i] = c[i]
  <2> SUFFICES ASSUME NEW i \in 1..Len(a) PROVE a[i] = c[i]
    OBVIOUS
  <2>1. CASE i = 1
    BY <1>1, <1>3, <1>4, <1>5, <2>1 DEF b
  <2>2. CASE i # 1
    <3>1. i \in 2..Len(s) /\ i \in 2..Len(c)
      BY <1>1, <1>3, <1>5, <2>2
    <3>2. c[i] = stack[i - 1].bindings
      BY <1>1, <1>2, <1>4, <3>1 DEF o
    <3> QED
      BY <1>1, <1>3, <3>1, <3>2
  <2> QED
    BY <2>1, <2>2
<1>7. a = c
  BY <1>3, <1>4, <1>5, <1>6
<1> QED
  BY <1>7 DEF a, c, s, b, o

LEMMA PushedStack ==
  ASSUME NEW p, NEW q, NEW tag, Pushes(p, q, tag)
  PROVE  /\ tag.bindings \in Seq(Nat)
         /\ Len(p.tagStack) \in Nat /\ Len(q.tagStack) = Len(p.tagStack) + 1
         /\ q.tagStack[1] = tag
         /\ \A i \in 1..Len(p.tagStack) : q.tagStack[i + 1] = p.tagStack[i]
         /\ \A i \in 2..Len(q.tagStack) :
              i - 1 \in 1..Len(p.tagStack) /\ q.tagStack[i] = p.tagStack[i - 1]
         /\ Range(OpenLists(q)) = Range(tag.bindings) \cup Range(OpenLists(p))
         /\ IsInjective(OpenLists(q)) <=>
              /\ IsInjective(tag.bindings) /\ IsInjective(OpenLists(p))
              /\ Range(tag.bindings) \cap Range(OpenLists(p)) = {}
         /\ Scope(q, 1) = Range(tag.bindings) \cup Scope(p, 1)
         /\ \A i \in Nat \ {0} : Scope(q, i + 1) = Scope(p, i)
<1>1. /\ ListType(p) /\ ListType(q) /\ q.inherited = p.inherited
      /\ tag \in OpenTag /\ q.tagStack = <<tag>> \o p.tagStack
      /\ p.tagStack \in Seq(OpenTag) /\ Len(p.tagStack) \in Nat
  BY DEF Pushes, ListType
<1>2. tag.bindings \in Seq(Nat)
  BY <1>1 DEF OpenTag
<1>3. /\ Len(q.tagStack) = Len(p.tagStack) + 1 /\ q.tagStack[1] = tag
      /\ \A i \in 1..Len(p.tagStack) : q.tagStack[i + 1] = p.tagStack[i]
      /\ \A i \in 2..Len(q.tagStack) :
           i - 1 \in 1..Len(p.tagStack) /\ q.tagStack[i] = p.tagStack[i - 1]
  BY <1>1, Pushed
<1>4. OpenLists(q) = tag.bindings \o OpenLists(p)
  <2>1. OfTags(q.tagStack) = <<tag.bindings>> \o OfTags(p.tagStack)
    BY <1>1, PushedTags
  <2>2. OfTags(p.tagStack) \in Seq(Seq(Nat))
    BY <1>1, OfTagsType
  <2> QED
    BY <1>2, <2>1, <2>2, FlattenPushed DEF OpenLists
<1>5. OpenLists(p) \in Seq(Nat)
  BY <1>1, ListsTyped
<1> DEFINE c == tag.bindings
           o == OpenLists(p)
<1> HIDE DEF c, o
<1>6. /\ Range(c \o o) = Range(c) \cup Range(o)
      /\ IsInjective(c \o o) <=> IsInjective(c) /\ IsInjective(o) /\ Range(c) \cap Range(o) = {}
  <2>1. c \in Seq(Nat) /\ o \in Seq(Nat)
    BY <1>2, <1>5 DEF c, o
  <2> QED
    BY <2>1, Concatenated
<1>7. ASSUME NEW i \in Nat \ {0} PROVE Scope(q, i + 1) = Scope(p, i)
  <2>1. \A k \in i + 1..Len(q.tagStack) :
          k - 1 \in i..Len(p.tagStack) /\ q.tagStack[k] = p.tagStack[k - 1]
    BY <1>1, <1>3
  <2>2. \A k \in i..Len(p.tagStack) :
          k + 1 \in i + 1..Len(q.tagStack) /\ q.tagStack[k + 1] = p.tagStack[k]
    BY <1>1, <1>3
  <2>3. \A x : (\E k \in i + 1..Len(q.tagStack) : x \in Range(q.tagStack[k].bindings))
                 <=> \E k \in i..Len(p.tagStack) : x \in Range(p.tagStack[k].bindings)
    BY <2>1, <2>2
  <2>4. /\ \A x : x \in Scope(q, i + 1) <=>
              x \in Range(q.inherited)
                \/ \E k \in i + 1..Len(q.tagStack) : x \in Range(q.tagStack[k].bindings)
        /\ \A x : x \in Scope(p, i) <=>
              x \in Range(p.inherited)
                \/ \E k \in i..Len(p.tagStack) : x \in Range(p.tagStack[k].bindings)
    BY DEF Scope
  <2>5. \A x : x \in Scope(q, i + 1) <=> x \in Scope(p, i)
    BY <1>1, <2>3, <2>4
  <2> QED
    BY <2>5
<1>8. Scope(q, 1) = Range(tag.bindings) \cup Scope(p, 1)
  <2>1. 1 \in 1..Len(q.tagStack) /\ 1 \in Nat \ {0}
    BY <1>1, <1>3
  <2>2. Scope(q, 1) = Range(q.tagStack[1].bindings) \cup Scope(q, 1 + 1)
    BY <1>1, <2>1, ScopeFacts
  <2>3. Scope(q, 1 + 1) = Scope(p, 1)
    BY <1>7, <2>1
  <2> QED
    BY <1>3, <2>2, <2>3
<1> QED
  BY <1>1, <1>2, <1>3, <1>4, <1>6, <1>7, <1>8 DEF c, o

LEMMA PushedLists ==
  ASSUME NEW p, NEW q, NEW tag, Pushes(p, q, tag)
  PROVE  /\ Owned(q, <<>>) = Owned(p, tag.bindings)
         /\ Apart(q, <<>>) <=> Apart(p, tag.bindings)
<1>1. /\ Range(OpenLists(q)) = Range(tag.bindings) \cup Range(OpenLists(p))
      /\ IsInjective(OpenLists(q)) <=>
           /\ IsInjective(tag.bindings) /\ IsInjective(OpenLists(p))
           /\ Range(tag.bindings) \cap Range(OpenLists(p)) = {}
  BY PushedStack
<1>2. /\ q.inherited = p.inherited /\ q.freeBindings = p.freeBindings
      /\ FlattenSeq(q.freeTags) = FlattenSeq(p.freeTags)
  BY DEF Pushes, SameBindings
<1> DEFINE o == OpenLists(q)
           c == tag.bindings
           u == OpenLists(p)
           f == FlattenSeq(p.freeTags)
           h == p.inherited
           g == p.freeBindings
<1>3. Owned(q, <<>>) = Range(o) \cup Range(f) \cup Range(g) \cup Range(h)
  BY <1>2, EmptyRange DEF Owned
<1>4. Owned(p, c) = Range(c) \cup Range(u) \cup Range(f) \cup Range(g) \cup Range(h)
  BY DEF Owned
<1>5. Apart(q, <<>>) <=>
        /\ IsInjective(o) /\ IsInjective(f) /\ IsInjective(g) /\ IsInjective(h)
        /\ Range(o) \cap Range(f) = {} /\ Range(o) \cap Range(g) = {} /\ Range(o) \cap Range(h) = {}
        /\ Range(f) \cap Range(g) = {} /\ Range(f) \cap Range(h) = {} /\ Range(g) \cap Range(h) = {}
  BY <1>2, EmptyRange DEF Apart
<1>6. Apart(p, c) <=>
        /\ IsInjective(c) /\ IsInjective(u) /\ Range(c) \cap Range(u) = {}
        /\ IsInjective(f) /\ IsInjective(g) /\ IsInjective(h)
        /\ Range(c) \cap Range(f) = {} /\ Range(c) \cap Range(g) = {} /\ Range(c) \cap Range(h) = {}
        /\ Range(u) \cap Range(f) = {} /\ Range(u) \cap Range(g) = {} /\ Range(u) \cap Range(h) = {}
        /\ Range(f) \cap Range(g) = {} /\ Range(f) \cap Range(h) = {} /\ Range(g) \cap Range(h) = {}
  BY DEF Apart
<1> HIDE DEF o, c, u, f, h, g
<1>7. \A X, Y, Z : (X \cup Y) \cap Z = {} <=> X \cap Z = {} /\ Y \cap Z = {}
  OBVIOUS
<1>8. Range(o) = Range(c) \cup Range(u)
  BY <1>1 DEF o, c, u
<1>9. IsInjective(o) <=> IsInjective(c) /\ IsInjective(u) /\ Range(c) \cap Range(u) = {}
  BY <1>1 DEF o, c, u
<1>10. Apart(q, <<>>) <=> Apart(p, c)
  <2>1. /\ Range(o) \cap Range(f) = {} <=> Range(c) \cap Range(f) = {} /\ Range(u) \cap Range(f) = {}
        /\ Range(o) \cap Range(g) = {} <=> Range(c) \cap Range(g) = {} /\ Range(u) \cap Range(g) = {}
        /\ Range(o) \cap Range(h) = {} <=> Range(c) \cap Range(h) = {} /\ Range(u) \cap Range(h) = {}
    BY <1>7, <1>8
  <2> QED
    BY <1>5, <1>6, <1>9, <2>1
<1> QED
  BY <1>3, <1>4, <1>8, <1>10 DEF c

LEMMA PushedLive ==
  ASSUME NEW p, NEW q, NEW tag, Pushes(p, q, tag)
  PROVE  Live(q, <<>>) <=> Live(p, tag.bindings) /\ NamePlaced(p, tag, Scope(q, 1))
<1> DEFINE cur == tag.bindings
<1>1. /\ cur \in Seq(Nat) /\ Len(p.tagStack) \in Nat /\ Len(q.tagStack) = Len(p.tagStack) + 1
      /\ q.tagStack[1] = tag
      /\ \A i \in 1..Len(p.tagStack) : q.tagStack[i + 1] = p.tagStack[i]
      /\ \A i \in 2..Len(q.tagStack) :
           i - 1 \in 1..Len(p.tagStack) /\ q.tagStack[i] = p.tagStack[i - 1]
  BY PushedStack
<1>2. Scope(q, 1) = Range(cur) \cup Scope(p, 1)
  BY PushedStack
<1>3. \A i \in Nat \ {0} : Scope(q, i + 1) = Scope(p, i)
  BY PushedStack
<1>4. q.binding = p.binding /\ q.prefixBinding = p.prefixBinding
  BY DEF Pushes, SameBindings
<1>5. \A list, k, around : Shadows(q, list, k, around) <=> Shadows(p, list, k, around)
  BY <1>4 DEF Shadows
<1>6. \A t, s : NamePlaced(q, t, s) <=> NamePlaced(p, t, s)
  BY <1>4 DEF NamePlaced
<1>7. PrefixesInScope(q, <<>>) <=>
        \A x \in PrefixTable : p.prefixBinding[x] # Null =>
          /\ p.prefixBinding[x] \in Range(cur) \cup Scope(p, 1)
          /\ p.binding[p.prefixBinding[x]].prefix = x
  <2>1. Range(<<>>) \cup Scope(q, 1) = Range(cur) \cup Scope(p, 1) /\ 1..Len(<<>>) = {}
    BY <1>2, EmptyRange
  <2> QED
    BY <1>4, <2>1 DEF PrefixesInScope
<1> DEFINE Own1 == \A k \in 1..Len(cur) : Shadows(p, cur, k, Scope(p, 1))
<1>8. PrefixesInScope(p, cur) <=> PrefixesInScope(q, <<>>) /\ Own1
  BY <1>7 DEF PrefixesInScope
<1> HIDE DEF Own1
<1>9. ShadowsInScope(q) <=> ShadowsInScope(p) /\ Own1
  <2> DEFINE InQ(i) == \A k \in 1..Len(q.tagStack[i].bindings) :
                         Shadows(q, q.tagStack[i].bindings, k, Scope(q, i + 1))
             InP(i) == \A k \in 1..Len(p.tagStack[i].bindings) :
                         Shadows(p, p.tagStack[i].bindings, k, Scope(p, i + 1))
  <2>1. InQ(1) <=> Own1
    <3>1. Scope(q, 1 + 1) = Scope(p, 1)
      BY <1>3
    <3> QED
      BY <1>1, <1>5, <3>1 DEF Own1
  <2>2. \A i \in 1..Len(p.tagStack) : InQ(i + 1) <=> InP(i)
    <3> SUFFICES ASSUME NEW i \in 1..Len(p.tagStack) PROVE InQ(i + 1) <=> InP(i)
      OBVIOUS
    <3>1. Scope(q, (i + 1) + 1) = Scope(p, i + 1) /\ q.tagStack[i + 1] = p.tagStack[i]
      BY <1>1, <1>3
    <3> QED
      BY <1>5, <3>1
  <2>3. /\ ShadowsInScope(q) <=> \A i \in 1..Len(q.tagStack) : InQ(i)
        /\ ShadowsInScope(p) <=> \A i \in 1..Len(p.tagStack) : InP(i)
    BY DEF ShadowsInScope
  <2> HIDE DEF InQ, InP
  <2>4. \A i \in 1..Len(q.tagStack) : i = 1 \/ (i - 1 \in 1..Len(p.tagStack) /\ (i - 1) + 1 = i)
    BY <1>1
  <2>5. 1 \in 1..Len(q.tagStack) /\ \A i \in 1..Len(p.tagStack) : i + 1 \in 1..Len(q.tagStack)
    BY <1>1
  <2>6. (\A i \in 1..Len(q.tagStack) : InQ(i)) <=> InQ(1) /\ \A i \in 1..Len(p.tagStack) : InQ(i + 1)
    BY <2>4, <2>5
  <2> QED
    BY <2>1, <2>2, <2>3, <2>6
<1>10. NamesPlaced(q) <=> NamesPlaced(p) /\ NamePlaced(p, tag, Scope(q, 1))
  <2> DEFINE InQ(i) == NamePlaced(q, q.tagStack[i], Scope(q, i))
             InP(i) == NamePlaced(p, p.tagStack[i], Scope(p, i))
  <2>1. InQ(1) <=> NamePlaced(p, tag, Scope(q, 1))
    BY <1>1, <1>6
  <2>2. \A i \in 1..Len(p.tagStack) : InQ(i + 1) <=> InP(i)
    <3> SUFFICES ASSUME NEW i \in 1..Len(p.tagStack) PROVE InQ(i + 1) <=> InP(i)
      OBVIOUS
    <3>1. Scope(q, i + 1) = Scope(p, i) /\ q.tagStack[i + 1] = p.tagStack[i]
      BY <1>1, <1>3
    <3> QED
      BY <1>6, <3>1
  <2>3. /\ NamesPlaced(q) <=> \A i \in 1..Len(q.tagStack) : InQ(i)
        /\ NamesPlaced(p) <=> \A i \in 1..Len(p.tagStack) : InP(i)
    BY DEF NamesPlaced
  <2> HIDE DEF InQ, InP
  <2>4. \A i \in 1..Len(q.tagStack) : i = 1 \/ (i - 1 \in 1..Len(p.tagStack) /\ (i - 1) + 1 = i)
    BY <1>1
  <2>5. 1 \in 1..Len(q.tagStack) /\ \A i \in 1..Len(p.tagStack) : i + 1 \in 1..Len(q.tagStack)
    BY <1>1
  <2>6. (\A i \in 1..Len(q.tagStack) : InQ(i)) <=> InQ(1) /\ \A i \in 1..Len(p.tagStack) : InQ(i + 1)
    BY <2>4, <2>5
  <2> QED
    BY <2>1, <2>2, <2>3, <2>6
<1> QED
  BY <1>8, <1>9, <1>10 DEF Live

(* A start tag: the TAG goes on the stack with what storeAtts has left.      *)
Opened(F, tag) == [F.p EXCEPT !.tagStack = <<tag>> \o @, !.error = F.error]

LEMMA TagOpened ==
  ASSUME NEW p, BindingType(p), NEW el \in Elements, NEW F, Stored(p, el, F),
         p.state = "open", p.error = None
  PROVE  LET tag == [el |-> el, str |-> F.str, bindings |-> F.bindings]
         IN  ParserInv(Opened(F, tag)) /\ Kept(p, <<>>, Opened(F, tag), <<>>)
<1> DEFINE tag == [el |-> el, str |-> F.str, bindings |-> F.bindings]
           P == F.p
           cur == F.bindings
           q == Opened(F, tag)
<1>1. /\ BindingType(P) /\ ListType(P) /\ AttType(P) /\ StateType(P) /\ Typed(P)
      /\ P.state = "open" /\ P.tagStack \in Seq(OpenTag)
      /\ cur \in Seq(Nat) /\ OneList(P, cur) /\ Kept(p, <<>>, P, cur)
  BY DEF Stored, Typed, ListType
<1>2. F.error = None => Live(P, cur) /\ FlagsClear(P) /\ NamePlaced(P, tag, Range(cur) \cup Scope(P, 1))
  BY DEF Stored
<1>3. tag \in OpenTag /\ tag.bindings = cur
  BY <1>1 DEF Stored, OpenTag
<1>4. q = [P EXCEPT !.tagStack = <<tag>> \o P.tagStack, !.error = F.error]
  BY DEF Opened
<1> HIDE DEF tag, P, cur, q
<1>5. DOMAIN P = {"prefixBinding", "binding", "freeBindings", "inherited", "tagStack", "freeTags",
                  "flag", "power", "version", "nsAtts", "state", "error"}
  BY <1>1, ParserFields DEF StateType
<1>6. /\ DOMAIN q = DOMAIN P /\ q.state = P.state /\ q.error = F.error
      /\ q.tagStack = <<tag>> \o P.tagStack /\ q.freeTags = P.freeTags /\ q.inherited = P.inherited
      /\ q.binding = P.binding /\ q.prefixBinding = P.prefixBinding
      /\ q.freeBindings = P.freeBindings
      /\ q.flag = P.flag /\ q.power = P.power /\ q.version = P.version /\ q.nsAtts = P.nsAtts
  BY <1>4, <1>5
<1>7. q.tagStack \in Seq(OpenTag)
  BY <1>1, <1>3, <1>6, Pushed
<1>8. ListType(q)
  BY <1>1, <1>6, <1>7 DEF ListType
<1>9. Typed(q)
  <2>1. BindingType(q)
    BY <1>1, <1>6 DEF BindingType
  <2>2. AttType(q)
    BY <1>1, <1>6 DEF AttType
  <2>3. StateType(q)
    BY <1>1, <1>6 DEF StateType
  <2> QED
    BY <1>8, <2>1, <2>2, <2>3 DEF Typed
<1>10. Pushes(P, q, tag)
  BY <1>1, <1>3, <1>6, <1>8 DEF Pushes, SameBindings
<1>11. OneList(q, <<>>) /\ Kept(P, cur, q, <<>>)
  <2>1. Owned(q, <<>>) = Owned(P, cur) /\ (Apart(q, <<>>) <=> Apart(P, cur))
    BY <1>3, <1>10, PushedLists
  <2>2. Len(P.binding) <= Len(P.binding)
    BY <1>1 DEF BindingType
  <2> QED
    BY <1>1, <1>6, <2>1, <2>2 DEF OneList, Kept
<1>12. Kept(p, <<>>, q, <<>>)
  BY <1>1, <1>9, <1>11, KeptOn DEF Typed
<1>13. ASSUME F.error = None PROVE Live(q, <<>>) /\ FlagsClear(q)
  <2>1. Scope(q, 1) = Range(cur) \cup Scope(P, 1)
    BY <1>3, <1>10, PushedStack
  <2>2. Live(q, <<>>)
    BY <1>2, <1>3, <1>10, <1>13, <2>1, PushedLive
  <2> QED
    BY <1>2, <1>6, <1>13, <2>2 DEF FlagsClear
<1>14. ParserInv(q)
  BY <1>6, <1>9, <1>11, <1>13 DEF ParserInv
<1> QED
  BY <1>12, <1>14 DEF q, tag

(* The bindings of an element are freed, and its prefixes bound as before.   *)
LEMMA UnboundType ==
  ASSUME NEW p, NEW list \in Seq(Nat), BindingType(p), Range(list) \subseteq 1..Len(p.binding)
  PROVE  Unbound(p, list) \in [PrefixTable -> 0..Len(p.binding)]
<1>0. PICK f : Unbinds(f, p, list)
  BY UnboundBy
<1>1. /\ f[0] = p.prefixBinding
      /\ \A i \in 1..Len(list) :
           f[i] = [f[i - 1] EXCEPT ![p.binding[list[i]].prefix] = p.binding[list[i]].prev]
      /\ Unbound(p, list) = f[Len(list)]
  BY <1>0 DEF Unbinds
<1>2. Len(list) \in Nat /\ p.prefixBinding \in [PrefixTable -> 0..Len(p.binding)]
  BY DEF BindingType
<1> DEFINE T == {n \in Nat : n <= Len(list) => f[n] \in [PrefixTable -> 0..Len(p.binding)]}
<1>3. 0 \in T
  BY <1>1, <1>2
<1>4. ASSUME NEW n \in Nat, n \in T PROVE n + 1 \in T
  <2> SUFFICES ASSUME n + 1 <= Len(list) PROVE f[n + 1] \in [PrefixTable -> 0..Len(p.binding)]
    OBVIOUS
  <2>1. n + 1 \in 1..Len(list) /\ (n + 1) - 1 = n /\ n <= Len(list)
    BY <1>2
  <2>2. list[n + 1] \in 1..Len(p.binding)
    BY <2>1, ElementOf
  <2>3. p.binding[list[n + 1]].prev \in 0..Len(p.binding)
    BY <2>2, BindingIn
  <2>4. f[n] \in [PrefixTable -> 0..Len(p.binding)]
    BY <1>4, <2>1
  <2>5. f[n + 1] = [f[n] EXCEPT ![p.binding[list[n + 1]].prefix] = p.binding[list[n + 1]].prev]
    BY <1>1, <2>1
  <2> DEFINE y == p.binding[list[n + 1]].prefix
             z == p.binding[list[n + 1]].prev
             g == f[n]
  <2> HIDE DEF y, z, g
  <2>6. g \in [PrefixTable -> 0..Len(p.binding)] /\ z \in 0..Len(p.binding)
    BY <2>3, <2>4 DEF g, z
  <2>7. [g EXCEPT ![y] = z] \in [PrefixTable -> 0..Len(p.binding)]
    BY <2>6
  <2> QED
    BY <2>5, <2>7 DEF g, y, z
<1> HIDE DEF T
<1>5. Len(list) \in T
  BY <1>2, <1>3, <1>4, SetInduction
<1> QED
  BY <1>1, <1>2, <1>5 DEF T

LEMMA UnboundInScope ==
  ASSUME NEW p, NEW list \in Seq(Nat), BindingType(p), Range(list) \subseteq 1..Len(p.binding),
         PrefixesInScope(p, list)
  PROVE  \A x \in PrefixTable :
           Unbound(p, list)[x] # Null =>
             /\ Unbound(p, list)[x] \in Scope(p, 1)
             /\ p.binding[Unbound(p, list)[x]].prefix = x
<1>0. PICK f : Unbinds(f, p, list)
  BY UnboundBy
<1>1. /\ f[0] = p.prefixBinding
      /\ \A i \in 1..Len(list) :
           f[i] = [f[i - 1] EXCEPT ![p.binding[list[i]].prefix] = p.binding[list[i]].prev]
      /\ Unbound(p, list) = f[Len(list)]
  BY <1>0 DEF Unbinds
<1>2. Len(list) \in Nat /\ p.prefixBinding \in [PrefixTable -> 0..Len(p.binding)]
  BY DEF BindingType
<1> DEFINE Rest(n) == {list[j] : j \in n + 1..Len(list)}
           In(n) == \A x \in PrefixTable : f[n][x] # Null =>
                      f[n][x] \in Scope(p, 1) \cup Rest(n) /\ p.binding[f[n][x]].prefix = x
           T == {n \in Nat : n <= Len(list) => In(n) /\ DOMAIN f[n] = PrefixTable}
<1>3. 0 \in T
  <2>1. Range(list) \subseteq Rest(0)
    <3>1. DOMAIN list = 0 + 1..Len(list)
      OBVIOUS
    <3> QED
      BY <3>1 DEF Range
  <2>2. \A x \in PrefixTable : p.prefixBinding[x] # Null =>
          /\ p.prefixBinding[x] \in Range(list) \cup Scope(p, 1)
          /\ p.binding[p.prefixBinding[x]].prefix = x
    BY DEF PrefixesInScope
  <2> HIDE DEF Rest
  <2>3. In(0) /\ DOMAIN f[0] = PrefixTable
    BY <1>1, <1>2, <2>1, <2>2
  <2> HIDE DEF In
  <2> QED
    BY <2>3
<1>4. ASSUME NEW n \in Nat, n \in T PROVE n + 1 \in T
  <2> SUFFICES ASSUME n + 1 <= Len(list) PROVE In(n + 1) /\ DOMAIN f[n + 1] = PrefixTable
    OBVIOUS
  <2> DEFINE c == list[n + 1]
             y == p.binding[c].prefix
             z == p.binding[c].prev
  <2>1. n + 1 \in 1..Len(list) /\ (n + 1) - 1 = n /\ n <= Len(list)
    BY <1>2
  <2>2. c \in 1..Len(p.binding)
    BY <2>1, ElementOf
  <2>3. y \in PrefixTable
    BY <2>2, BindingIn
  <2>4. In(n) /\ DOMAIN f[n] = PrefixTable
    BY <1>4, <2>1
  <2>5. f[n + 1] = [f[n] EXCEPT ![y] = z]
    BY <1>1, <2>1
  <2>6. z # Null => z \in Scope(p, 1) \cup Rest(n + 1) /\ p.binding[z].prefix = y
    <3>1. Shadows(p, list, n + 1, Scope(p, 1))
      BY <2>1 DEF PrefixesInScope
    <3> QED
      BY <3>1 DEF Shadows
  <2>7. \A d \in Rest(n) : d = c \/ d \in Rest(n + 1)
    <3>1. \A j \in n + 1..Len(list) : j = n + 1 \/ j \in (n + 1) + 1..Len(list)
      BY <1>2
    <3> QED
      BY <3>1
  <2>8. DOMAIN f[n + 1] = PrefixTable
    BY <2>4, <2>5
  <2>9. \A x \in PrefixTable : f[n + 1][x] = IF x = y THEN z ELSE f[n][x]
    BY <2>3, <2>4, <2>5
  <2>10. ASSUME NEW x \in PrefixTable, f[n + 1][x] # Null
         PROVE  f[n + 1][x] \in Scope(p, 1) \cup Rest(n + 1) /\ p.binding[f[n + 1][x]].prefix = x
    <3>1. CASE x = y
      BY <2>6, <2>9, <2>10, <3>1
    <3>2. CASE x # y
      <4>1. f[n + 1][x] = f[n][x]
        BY <2>9, <3>2
      <4>2. f[n][x] \in Scope(p, 1) \cup Rest(n) /\ p.binding[f[n][x]].prefix = x
        BY <2>4, <2>10, <4>1
      <4>3. f[n][x] # c
        BY <3>2, <4>2
      <4> HIDE DEF Rest
      <4> QED
        BY <2>7, <4>1, <4>2, <4>3
    <3> QED
      BY <3>1, <3>2
  <2> QED
    BY <2>8, <2>10
<1> HIDE DEF T
<1>5. Len(list) \in T
  BY <1>2, <1>3, <1>4, SetInduction
<1>6. In(Len(list))
  BY <1>2, <1>5 DEF T
<1>7. Rest(Len(list)) = {}
  <2>1. Len(list) + 1..Len(list) = {}
    BY <1>2
  <2> QED
    BY <2>1
<1> QED
  BY <1>1, <1>6, <1>7

LEMMA ReleasedFields ==
  ASSUME NEW p, DOMAIN p = DOMAIN NewParser, NEW list
  PROVE  LET q == Released(p, list)
         IN  /\ DOMAIN q = DOMAIN p /\ q.binding = p.binding /\ q.prefixBinding = Unbound(p, list)
             /\ q.freeBindings = Reverse(list) \o p.freeBindings
             /\ q.tagStack = p.tagStack /\ q.freeTags = p.freeTags /\ q.inherited = p.inherited
             /\ q.flag = p.flag /\ q.power = p.power /\ q.version = p.version
             /\ q.nsAtts = p.nsAtts /\ q.state = p.state /\ q.error = p.error
<1> DEFINE u == Unbound(p, list)
           r == Reverse(list)
<1> HIDE DEF u, r
<1>1. Released(p, list) = [p EXCEPT !.freeBindings = r \o p.freeBindings, !.prefixBinding = u]
  BY DEF Released, u, r
<1>2. DOMAIN p = {"prefixBinding", "binding", "freeBindings", "inherited", "tagStack", "freeTags",
                  "flag", "power", "version", "nsAtts", "state", "error"}
  BY ParserFields
<1> QED
  BY <1>1, <1>2 DEF u, r

LEMMA BindingsReleased ==
  ASSUME NEW p, NEW list \in Seq(Nat), Typed(p), OneList(p, list)
  PROVE  LET q == Released(p, list)
         IN  /\ Typed(q) /\ OneList(q, <<>>) /\ Kept(p, list, q, <<>>)
             /\ Live(p, list) => Live(q, <<>>)
<1> DEFINE q == Released(p, list)
           r == Reverse(list)
           g == p.freeBindings
<1>1. /\ BindingType(p) /\ ListType(p) /\ AttType(p) /\ StateType(p)
      /\ Len(p.binding) \in Nat /\ g \in Seq(Nat)
  BY DEF Typed, BindingType, ListType
<1>2. /\ DOMAIN q = DOMAIN p /\ q.binding = p.binding /\ q.prefixBinding = Unbound(p, list)
      /\ q.freeBindings = r \o g
      /\ q.tagStack = p.tagStack /\ q.freeTags = p.freeTags /\ q.inherited = p.inherited
      /\ q.flag = p.flag /\ q.power = p.power /\ q.version = p.version
      /\ q.nsAtts = p.nsAtts /\ q.state = p.state /\ q.error = p.error
  BY <1>1, ReleasedFields DEF StateType
<1>3. /\ r \in Seq(Nat) /\ Range(r) = Range(list) /\ (IsInjective(r) <=> IsInjective(list))
  BY Reversed
<1>4. Range(list) \subseteq 1..Len(p.binding)
  BY DEF OneList, Owned
<1> HIDE DEF q, r, g
<1>5. /\ r \o g \in Seq(Nat) /\ Range(r \o g) = Range(r) \cup Range(g)
      /\ IsInjective(r \o g) <=> IsInjective(r) /\ IsInjective(g) /\ Range(r) \cap Range(g) = {}
  BY <1>1, <1>3, Concatenated
<1>6. BindingType(q)
  <2>1. q.prefixBinding \in [PrefixTable -> 0..Len(p.binding)]
    BY <1>1, <1>2, <1>4, UnboundType
  <2> QED
    BY <1>1, <1>2, <2>1 DEF BindingType
<1>7. ListType(q)
  BY <1>1, <1>2, <1>5 DEF ListType
<1>8. Typed(q)
  <2>1. AttType(q)
    BY <1>1, <1>2 DEF AttType
  <2>2. StateType(q)
    BY <1>1, <1>2 DEF StateType
  <2> QED
    BY <1>6, <1>7, <2>1, <2>2 DEF Typed
<1>9. OpenLists(q) = OpenLists(p)
  BY <1>2 DEF OpenLists
<1> DEFINE o == OpenLists(p)
           f == FlattenSeq(p.freeTags)
           h == p.inherited
           l == Range(r \o g)
<1>10. /\ Owned(p, list) = Range(list) \cup Range(o) \cup Range(f) \cup Range(g) \cup Range(h)
       /\ Apart(p, list) <=>
            /\ IsInjective(list) /\ IsInjective(o) /\ IsInjective(f) /\ IsInjective(g) /\ IsInjective(h)
            /\ Range(list) \cap Range(o) = {} /\ Range(list) \cap Range(f) = {}
            /\ Range(list) \cap Range(g) = {} /\ Range(list) \cap Range(h) = {}
            /\ Range(o) \cap Range(f) = {} /\ Range(o) \cap Range(g) = {}
            /\ Range(o) \cap Range(h) = {} /\ Range(f) \cap Range(g) = {}
            /\ Range(f) \cap Range(h) = {} /\ Range(g) \cap Range(h) = {}
  BY DEF Owned, Apart, g
<1>11. /\ Owned(q, <<>>) = Range(o) \cup Range(f) \cup l \cup Range(h)
       /\ Apart(q, <<>>) <=>
            /\ IsInjective(o) /\ IsInjective(f) /\ IsInjective(r \o g) /\ IsInjective(h)
            /\ Range(o) \cap Range(f) = {} /\ Range(o) \cap l = {}
            /\ Range(o) \cap Range(h) = {} /\ Range(f) \cap l = {}
            /\ Range(f) \cap Range(h) = {} /\ l \cap Range(h) = {}
  BY <1>2, <1>9, EmptyRange DEF Owned, Apart
<1>12. l = Range(list) \cup Range(g)
  BY <1>3, <1>5
<1> HIDE DEF o, f, h, l
<1>13. Owned(q, <<>>) = Owned(p, list) /\ Apart(q, <<>>)
  <2>1. Apart(p, list)
    BY DEF OneList
  <2>2. IsInjective(r \o g)
    BY <1>3, <1>5, <1>10, <2>1
  <2>3. Apart(q, <<>>)
    BY <1>10, <1>11, <1>12, <2>1, <2>2
  <2> QED
    BY <1>10, <1>11, <1>12, <2>3
<1>14. OneList(q, <<>>) /\ Kept(p, list, q, <<>>)
  <2>1. Len(p.binding) <= Len(p.binding)
    BY <1>1
  <2> QED
    BY <1>2, <1>13, <2>1 DEF OneList, Kept
<1>15. ASSUME Live(p, list) PROVE Live(q, <<>>)
  <2>1. Agree(p, q, Scope(p, 1))
    BY <1>2 DEF Agree
  <2>2. /\ \A i : Scope(q, i) = Scope(p, i)
        /\ ShadowsInScope(p) => ShadowsInScope(q)
        /\ NamesPlaced(p) => NamesPlaced(q)
    BY <1>1, <1>2, <1>7, <2>1, StackKept
  <2>3. PrefixesInScope(p, list)
    BY <1>15 DEF Live
  <2>4. \A x \in PrefixTable :
          q.prefixBinding[x] # Null =>
            /\ q.prefixBinding[x] \in Scope(p, 1)
            /\ q.binding[q.prefixBinding[x]].prefix = x
    BY <1>1, <1>2, <1>4, <2>3, UnboundInScope
  <2>5. PrefixesInScope(q, <<>>)
    <3>1. 1..Len(<<>>) = {}
      OBVIOUS
    <3> QED
      BY <2>2, <2>4, <3>1, EmptyRange DEF PrefixesInScope
  <2> QED
    BY <1>15, <2>2, <2>5 DEF Live
<1> QED
  BY <1>8, <1>14, <1>15 DEF q

(* The state is another, or there is an error.                               *)
Restated(p, q) ==
  /\ DOMAIN q = DOMAIN p /\ q.binding = p.binding /\ q.prefixBinding = p.prefixBinding
  /\ q.freeBindings = p.freeBindings
  /\ q.tagStack = p.tagStack /\ q.freeTags = p.freeTags /\ q.inherited = p.inherited
  /\ q.flag = p.flag /\ q.power = p.power /\ q.version = p.version /\ q.nsAtts = p.nsAtts
  /\ q.state \in {"new", "open", "ended"} /\ (q.state = "new" => q = p)

LEMMA StateChanged ==
  ASSUME NEW p, NEW q, NEW cur, Typed(p), Restated(p, q)
  PROVE  /\ Typed(q) /\ Owned(q, cur) = Owned(p, cur)
         /\ OneList(p, cur) => OneList(q, cur) /\ Kept(p, cur, q, cur)
         /\ \A i : Scope(q, i) = Scope(p, i)
         /\ Live(p, cur) => Live(q, cur)
         /\ FlagsClear(p) => FlagsClear(q)
<1>1. BindingType(p) /\ ListType(p) /\ AttType(p) /\ StateType(p) /\ Len(p.binding) \in Nat
  BY DEF Typed, BindingType
<1>2. BindingType(q)
  BY <1>1 DEF Restated, BindingType
<1>3. ListType(q)
  BY <1>1 DEF Restated, ListType
<1>4. AttType(q)
  BY <1>1 DEF Restated, AttType
<1>5. StateType(q)
  BY <1>1 DEF Restated, StateType
<1>6. Owned(q, cur) = Owned(p, cur) /\ (Apart(q, cur) <=> Apart(p, cur))
  BY DEF Restated, Owned, Apart, OpenLists
<1>7. ASSUME OneList(p, cur) PROVE OneList(q, cur) /\ Kept(p, cur, q, cur)
  <2>1. q.binding = p.binding /\ Len(p.binding) <= Len(p.binding)
    BY <1>1 DEF Restated
  <2> QED
    BY <1>6, <1>7, <2>1 DEF OneList, Kept
<1>8. \A i : Scope(q, i) = Scope(p, i)
  BY DEF Scope, Restated
<1>9. ASSUME Live(p, cur) PROVE Live(q, cur)
  <2>1. /\ q.binding = p.binding /\ q.prefixBinding = p.prefixBinding /\ q.tagStack = p.tagStack
        /\ q.inherited = p.inherited
    BY DEF Restated
  <2>2. Agree(p, q, Scope(p, 1))
    BY <2>1 DEF Agree
  <2>3. /\ ShadowsInScope(p) => ShadowsInScope(q)
        /\ NamesPlaced(p) => NamesPlaced(q)
    BY <1>1, <1>3, <2>1, <2>2, StackKept
  <2>4. PrefixesInScope(p, cur) => PrefixesInScope(q, cur)
    BY <1>8, <2>1 DEF PrefixesInScope, Shadows
  <2> QED
    BY <1>9, <2>3, <2>4 DEF Live
<1>10. FlagsClear(p) => FlagsClear(q)
  BY DEF FlagsClear, Restated
<1> QED
  BY <1>2, <1>3, <1>4, <1>5, <1>6, <1>7, <1>8, <1>9, <1>10 DEF Typed

(* An empty tag.                                                             *)
LEMMA TagEmptied ==
  ASSUME NEW p, BindingType(p), NEW el, NEW F, Stored(p, el, F), NEW s \in {"open", "ended"}
  PROVE  LET q == [Released(F.p, F.bindings) EXCEPT !.error = F.error, !.state = s]
         IN  ParserInv(q) /\ Kept(p, <<>>, q, <<>>)
<1> DEFINE P == F.p
           cur == F.bindings
           r == Released(P, cur)
           q == [r EXCEPT !.error = F.error, !.state = s]
<1>1. Typed(P) /\ cur \in Seq(Nat) /\ OneList(P, cur) /\ Kept(p, <<>>, P, cur) /\ BindingType(P)
  BY DEF Stored, Typed
<1>2. F.error = None => Live(P, cur) /\ FlagsClear(P)
  BY DEF Stored
<1> HIDE DEF P, cur
<1>3. /\ Typed(r) /\ OneList(r, <<>>) /\ Kept(P, cur, r, <<>>)
      /\ Live(P, cur) => Live(r, <<>>)
  BY <1>1, BindingsReleased
<1>4. r.flag = P.flag
  BY <1>1, ReleasedFields DEF Typed, StateType
<1> HIDE DEF r
<1>5. DOMAIN r = {"prefixBinding", "binding", "freeBindings", "inherited", "tagStack", "freeTags",
                  "flag", "power", "version", "nsAtts", "state", "error"}
  BY <1>3, ParserFields DEF Typed, StateType
<1>6. Restated(r, q) /\ q.error = F.error
  BY <1>5 DEF Restated
<1> HIDE DEF q
<1>7. /\ Typed(q) /\ OneList(q, <<>>) /\ Kept(r, <<>>, q, <<>>)
      /\ Live(r, <<>>) => Live(q, <<>>)
      /\ FlagsClear(r) => FlagsClear(q)
  BY <1>3, <1>6, StateChanged
<1>8. ParserInv(q)
  <2>1. FlagsClear(P) => FlagsClear(r)
    BY <1>4 DEF FlagsClear
  <2> QED
    BY <1>2, <1>3, <1>6, <1>7, <2>1 DEF ParserInv
<1>9. Kept(p, <<>>, q, <<>>)
  <2>1. BindingType(r) /\ BindingType(q)
    BY <1>3, <1>7 DEF Typed
  <2>2. Kept(p, <<>>, r, <<>>)
    BY <1>1, <1>3, <2>1, KeptOn
  <2> QED
    BY <1>7, <2>1, <2>2, KeptOn
<1> QED
  BY <1>8, <1>9 DEF q, r, P, cur

LEMMA FreeTagPushed ==
  ASSUME NEW x \in Seq(Nat), NEW ts \in Seq(Seq(Nat))
  PROVE  /\ <<x>> \o ts \in Seq(Seq(Nat)) /\ FlattenSeq(ts) \in Seq(Nat)
         /\ FlattenSeq(<<x>> \o ts) = x \o FlattenSeq(ts)
         /\ x = <<>> => FlattenSeq(<<x>> \o ts) = FlattenSeq(ts)
<1>1. <<x>> \o ts \in Seq(Seq(Nat))
  BY Pushed
<1>2. FlattenSeq(ts) \in Seq(Nat)
  BY Flattened
<1>3. FlattenSeq(<<x>> \o ts) = x \o FlattenSeq(ts)
  BY FlattenPushed
<1> DEFINE f == FlattenSeq(ts)
           g == FlattenSeq(<<x>> \o ts)
<1> HIDE DEF f, g
<1>4. g = x \o f /\ f \in Seq(Nat)
  BY <1>2, <1>3 DEF f, g
<1>5. x = <<>> => g = f
  BY <1>4
<1> QED
  BY <1>1, <1>2, <1>3, <1>5 DEF f, g

(* An end tag: the TAG goes to the free ones without its bindings, which are *)
(* freed once its name has been written again.                               *)
LEMMA NameWritten ==
  ASSUME NEW p, NEW tag \in OpenTag, Typed(p), OneList(p, tag.bindings), Live(p, tag.bindings),
         NamePlaced(p, tag, 1..Len(p.binding))
  PROVE  LET q == NameAgain(p, tag)
         IN  /\ Typed(q) /\ OneList(q, tag.bindings) /\ Live(q, tag.bindings)
             /\ Kept(p, tag.bindings, q, tag.bindings)
             /\ q.error = p.error /\ q.flag = p.flag
<1> DEFINE q == NameAgain(p, tag)
           cur == tag.bindings
           b == tag.str[1]
           w == tag.el.local
<1>0. Kept(p, cur, p, cur)
  <2>1. Len(p.binding) <= Len(p.binding)
    BY DEF Typed, BindingType
  <2> QED
    BY <2>1 DEF Kept
<1>1. CASE tag.str = Own
  <2>1. q = p
    BY <1>1 DEF NameAgain
  <2> HIDE DEF q
  <2> QED
    BY <1>0, <2>1 DEF q
<1>2. CASE tag.str # Own
  <2>1. q = Written(p, b, w)
    BY <1>2 DEF NameAgain, Written
  <2>2. b \in 1..Len(p.binding)
    BY <1>2 DEF NamePlaced
  <2>3. w \in Strings \cup {None} /\ cur \in Seq(Nat)
    BY NamespacesAssumption DEF OpenTag
  <2> HIDE DEF q, b, w, cur
  <2>4. Moves(p, q, b, p.binding[b].alloc) /\ p.binding[b].alloc \in Nat
    BY <2>1, <2>2, <2>3, Rewritten
  <2>5. /\ Typed(q) /\ OneList(q, cur) /\ Owned(q, cur) = Owned(p, cur)
        /\ Live(p, cur) => Live(q, cur)
    <3> DEFINE a == p.binding[b].alloc
    <3>1. Moves(p, q, b, a) /\ a \in Nat
      BY <2>4
    <3> HIDE DEF a
    <3>2. OneList(p, cur)
      BY DEF cur
    <3> QED
      BY <2>2, <2>3, <3>1, <3>2, Moved
  <2>6. Kept(p, cur, q, cur)
    BY <1>0, <2>4, <2>5, KeptMoved
  <2>7. q.error = p.error /\ q.flag = p.flag
    BY <2>4 DEF Moves
  <2> QED
    BY <2>5, <2>6, <2>7 DEF q, cur
<1> QED
  BY <1>1, <1>2

LEMMA TagClosed ==
  ASSUME NEW p, ParserInv(p), p.error = None, p.tagStack # <<>>, NEW s \in {"open", "ended"}
  PROVE  LET tag == Head(p.tagStack)
             u == [p EXCEPT !.tagStack = Tail(@), !.freeTags = << <<>> >> \o @, !.state = s]
             q == Released(NameAgain(u, tag), tag.bindings)
         IN  ParserInv(q) /\ Kept(p, <<>>, q, <<>>)
<1> DEFINE tag == Head(p.tagStack)
           cur == tag.bindings
           u == [p EXCEPT !.tagStack = Tail(@), !.freeTags = << <<>> >> \o @, !.state = s]
           v == NameAgain(u, tag)
           q == Released(v, cur)
<1>1. /\ BindingType(p) /\ ListType(p) /\ AttType(p) /\ StateType(p)
      /\ OneList(p, <<>>) /\ Live(p, <<>>) /\ FlagsClear(p)
  BY DEF ParserInv, Typed
<1>2. p.tagStack \in Seq(OpenTag) /\ p.freeTags \in Seq(Seq(Nat)) /\ Len(p.binding) \in Nat
  BY <1>1 DEF ListType, BindingType
<1>3. tag \in OpenTag /\ Tail(p.tagStack) \in Seq(OpenTag) /\ p.tagStack = <<tag>> \o Tail(p.tagStack)
  BY <1>2, Popped
<1>4. cur \in Seq(Nat)
  BY <1>3 DEF OpenTag
<1>5. DOMAIN p = {"prefixBinding", "binding", "freeBindings", "inherited", "tagStack", "freeTags",
                  "flag", "power", "version", "nsAtts", "state", "error"}
  BY <1>1, ParserFields DEF StateType
<1>6. /\ DOMAIN u = DOMAIN p /\ u.state = s /\ u.error = p.error
      /\ u.tagStack = Tail(p.tagStack) /\ u.freeTags = << <<>> >> \o p.freeTags
      /\ u.inherited = p.inherited
      /\ u.binding = p.binding /\ u.prefixBinding = p.prefixBinding
      /\ u.freeBindings = p.freeBindings
      /\ u.flag = p.flag /\ u.power = p.power /\ u.version = p.version /\ u.nsAtts = p.nsAtts
  BY <1>5
<1> HIDE DEF tag, cur, u, v, q
<1>7. u.freeTags \in Seq(Seq(Nat)) /\ FlattenSeq(u.freeTags) = FlattenSeq(p.freeTags)
  <2> DEFINE e == <<>>
  <2>1. e \in Seq(Nat) /\ e = <<>>
    BY EmptyRange
  <2>2. u.freeTags = <<e>> \o p.freeTags
    BY <1>6
  <2> HIDE DEF e
  <2> QED
    BY <1>2, <2>1, <2>2, FreeTagPushed
<1>8. ListType(u)
  BY <1>1, <1>3, <1>6, <1>7 DEF ListType
<1>9. Typed(u)
  <2>1. BindingType(u)
    BY <1>1, <1>6 DEF BindingType
  <2>2. AttType(u)
    BY <1>1, <1>6 DEF AttType
  <2>3. StateType(u)
    BY <1>1, <1>6 DEF StateType
  <2> QED
    BY <1>8, <2>1, <2>2, <2>3 DEF Typed
<1>10. Pushes(u, p, tag)
  BY <1>1, <1>3, <1>6, <1>7, <1>8 DEF Pushes, SameBindings
<1>11. OneList(u, cur) /\ Kept(p, <<>>, u, cur)
  <2>1. Owned(p, <<>>) = Owned(u, cur) /\ (Apart(p, <<>>) <=> Apart(u, cur))
    BY <1>10, PushedLists DEF cur
  <2>2. Len(p.binding) <= Len(p.binding)
    BY <1>2
  <2> QED
    BY <1>1, <1>6, <2>1, <2>2 DEF OneList, Kept
<1>12. Live(u, cur) /\ NamePlaced(u, tag, Scope(p, 1))
  BY <1>1, <1>10, PushedLive DEF cur
<1>13. NamePlaced(u, tag, 1..Len(u.binding))
  <2>1. Scope(p, 1) \subseteq Range(OpenLists(p)) \cup Range(p.inherited)
    <3>1. 1 \in 1..Len(p.tagStack) + 1
      BY <1>2
    <3> QED
      BY <1>1, <3>1, ScopeFacts
  <2>2. Scope(p, 1) \subseteq 1..Len(p.binding)
    BY <1>1, <2>1 DEF OneList, Owned
  <2> QED
    BY <1>6, <1>12, <2>2 DEF NamePlaced
<1>14. /\ Typed(v) /\ OneList(v, cur) /\ Live(v, cur) /\ Kept(u, cur, v, cur)
       /\ v.error = p.error /\ v.flag = p.flag
  BY <1>3, <1>6, <1>9, <1>11, <1>12, <1>13, NameWritten DEF v, cur
<1>15. /\ Typed(q) /\ OneList(q, <<>>) /\ Live(q, <<>>) /\ Kept(v, cur, q, <<>>)
  BY <1>4, <1>14, BindingsReleased DEF q
<1>16. q.error = v.error /\ q.flag = v.flag
  BY <1>14, ReleasedFields DEF q, Typed, StateType
<1>17. ParserInv(q)
  BY <1>1, <1>14, <1>15, <1>16 DEF ParserInv, FlagsClear
<1>18. Kept(p, <<>>, q, <<>>)
  <2>1. BindingType(u) /\ BindingType(v) /\ BindingType(q)
    BY <1>9, <1>14, <1>15 DEF Typed
  <2>2. Kept(p, <<>>, v, cur)
    BY <1>1, <1>11, <1>14, <2>1, KeptOn
  <2> QED
    BY <1>1, <1>15, <2>1, <2>2, KeptOn
<1> QED
  BY <1>17, <1>18 DEF q, v, u, cur, tag

(* A mismatched end tag leaves its bindings with the TAG.                    *)
LEMMA TagMismatched ==
  ASSUME NEW p, ParserInv(p), p.state # "new", p.tagStack # <<>>, NEW e, e # None
  PROVE  LET q == [p EXCEPT !.tagStack = Tail(@), !.error = e,
                            !.freeTags = <<Head(p.tagStack).bindings>> \o @]
         IN  ParserInv(q) /\ Kept(p, <<>>, q, <<>>)
<1> DEFINE tag == Head(p.tagStack)
           cur == tag.bindings
           u == [p EXCEPT !.tagStack = Tail(@)]
           q == [p EXCEPT !.tagStack = Tail(@), !.error = e, !.freeTags = <<cur>> \o @]
<1>1. /\ BindingType(p) /\ ListType(p) /\ AttType(p) /\ StateType(p) /\ OneList(p, <<>>)
  BY DEF ParserInv, Typed
<1>2. p.tagStack \in Seq(OpenTag) /\ p.freeTags \in Seq(Seq(Nat)) /\ Len(p.binding) \in Nat
  BY <1>1 DEF ListType, BindingType
<1>3. tag \in OpenTag /\ Tail(p.tagStack) \in Seq(OpenTag) /\ p.tagStack = <<tag>> \o Tail(p.tagStack)
  BY <1>2, Popped
<1>4. cur \in Seq(Nat)
  BY <1>3 DEF OpenTag
<1>5. DOMAIN p = {"prefixBinding", "binding", "freeBindings", "inherited", "tagStack", "freeTags",
                  "flag", "power", "version", "nsAtts", "state", "error"}
  BY <1>1, ParserFields DEF StateType
<1> HIDE DEF tag, cur
<1>6. /\ u.tagStack = Tail(p.tagStack) /\ u.freeTags = p.freeTags
      /\ u.inherited = p.inherited /\ u.freeBindings = p.freeBindings
      /\ u.binding = p.binding /\ u.prefixBinding = p.prefixBinding
  BY <1>5
<1>7. /\ DOMAIN q = DOMAIN p /\ q.state = p.state /\ q.error = e
      /\ q.tagStack = Tail(p.tagStack) /\ q.freeTags = <<cur>> \o p.freeTags
      /\ q.inherited = p.inherited /\ q.freeBindings = p.freeBindings
      /\ q.binding = p.binding /\ q.prefixBinding = p.prefixBinding
      /\ q.flag = p.flag /\ q.power = p.power /\ q.version = p.version /\ q.nsAtts = p.nsAtts
  BY <1>5
<1> HIDE DEF u, q
<1>8. ListType(u)
  BY <1>1, <1>3, <1>6 DEF ListType
<1>9. Pushes(u, p, tag)
  BY <1>1, <1>3, <1>6, <1>8 DEF Pushes, SameBindings
<1> DEFINE o == OpenLists(u)
           f == FlattenSeq(p.freeTags)
           g == p.freeBindings
           h == p.inherited
           w == FlattenSeq(q.freeTags)
<1>10. w = cur \o f /\ f \in Seq(Nat) /\ q.freeTags \in Seq(Seq(Nat))
  BY <1>2, <1>4, <1>7, FreeTagPushed
<1>11. /\ Range(w) = Range(cur) \cup Range(f)
       /\ IsInjective(w) <=> IsInjective(cur) /\ IsInjective(f) /\ Range(cur) \cap Range(f) = {}
  <2> HIDE DEF w, f
  <2> QED
    BY <1>4, <1>10, Concatenated
<1>12. OpenLists(q) = o
  BY <1>6, <1>7 DEF OpenLists
<1>13. /\ Owned(p, <<>>) = Range(cur) \cup Range(o) \cup Range(f) \cup Range(g) \cup Range(h)
       /\ Apart(p, <<>>) <=>
            /\ IsInjective(cur) /\ IsInjective(o) /\ IsInjective(f) /\ IsInjective(g) /\ IsInjective(h)
            /\ Range(cur) \cap Range(o) = {} /\ Range(cur) \cap Range(f) = {}
            /\ Range(cur) \cap Range(g) = {} /\ Range(cur) \cap Range(h) = {}
            /\ Range(o) \cap Range(f) = {} /\ Range(o) \cap Range(g) = {}
            /\ Range(o) \cap Range(h) = {} /\ Range(f) \cap Range(g) = {}
            /\ Range(f) \cap Range(h) = {} /\ Range(g) \cap Range(h) = {}
  <2>1. Owned(p, <<>>) = Owned(u, cur) /\ (Apart(p, <<>>) <=> Apart(u, cur))
    BY <1>9, PushedLists DEF cur
  <2> QED
    BY <1>6, <2>1 DEF Owned, Apart
<1>14. /\ Owned(q, <<>>) = Range(o) \cup Range(w) \cup Range(g) \cup Range(h)
       /\ Apart(q, <<>>) <=>
            /\ IsInjective(o) /\ IsInjective(w) /\ IsInjective(g) /\ IsInjective(h)
            /\ Range(o) \cap Range(w) = {} /\ Range(o) \cap Range(g) = {}
            /\ Range(o) \cap Range(h) = {} /\ Range(w) \cap Range(g) = {}
            /\ Range(w) \cap Range(h) = {} /\ Range(g) \cap Range(h) = {}
  BY <1>7, <1>12, EmptyRange DEF Owned, Apart
<1> HIDE DEF o, f, g, h, w
<1>15. Owned(q, <<>>) = Owned(p, <<>>) /\ Apart(q, <<>>)
  <2>1. Apart(p, <<>>)
    BY <1>1 DEF OneList
  <2>2. Apart(q, <<>>)
    BY <1>11, <1>13, <1>14, <2>1
  <2> QED
    BY <1>11, <1>13, <1>14, <2>2
<1>16. OneList(q, <<>>) /\ Kept(p, <<>>, q, <<>>)
  <2>1. Len(p.binding) <= Len(p.binding)
    BY <1>2
  <2> QED
    BY <1>1, <1>7, <1>15, <2>1 DEF OneList, Kept
<1>17. Typed(q)
  <2>1. BindingType(q)
    BY <1>1, <1>7 DEF BindingType
  <2>2. ListType(q)
    BY <1>1, <1>3, <1>7, <1>10 DEF ListType
  <2>3. AttType(q)
    BY <1>1, <1>7 DEF AttType
  <2>4. StateType(q)
    BY <1>1, <1>7 DEF StateType
  <2> QED
    BY <2>1, <2>2, <2>3, <2>4 DEF Typed
<1> QED
  BY <1>7, <1>16, <1>17 DEF ParserInv, q, cur, tag

(* A start tag takes a free TAG, and what is on it is lost.                  *)
LEMMA TagTaken ==
  ASSUME NEW p, ParserInv(p)
  PROVE  LET q == [p EXCEPT !.freeTags = IF @ = <<>> THEN @ ELSE Tail(@)]
         IN  /\ ParserInv(q) /\ q.binding = p.binding /\ q.state = p.state /\ q.error = p.error
             /\ Owned(p, <<>>) \ Left(p) \subseteq Owned(q, <<>>)
<1> DEFINE ts == IF p.freeTags = <<>> THEN p.freeTags ELSE Tail(p.freeTags)
           q == [p EXCEPT !.freeTags = ts]
           f == FlattenSeq(p.freeTags)
           w == FlattenSeq(ts)
<1>1. /\ BindingType(p) /\ ListType(p) /\ AttType(p) /\ StateType(p) /\ OneList(p, <<>>)
      /\ p.freeTags \in Seq(Seq(Nat))
  BY DEF ParserInv, Typed, ListType
<1>2. /\ ts \in Seq(Seq(Nat)) /\ Range(f) = Left(p) \cup Range(w)
      /\ IsInjective(f) => IsInjective(w)
  <2>1. CASE p.freeTags = <<>>
    <3>1. ts = p.freeTags /\ Left(p) = {}
      BY <2>1 DEF Left
    <3> QED
      BY <1>1, <3>1
  <2>2. CASE p.freeTags # <<>>
    <3> DEFINE x == Head(p.freeTags)
    <3>1. ts = Tail(p.freeTags) /\ Left(p) = Range(x)
      BY <2>2 DEF Left
    <3>2. x \in Seq(Nat) /\ ts \in Seq(Seq(Nat)) /\ p.freeTags = <<x>> \o ts
      BY <1>1, <2>2, <3>1, Popped
    <3> HIDE DEF x, ts
    <3>3. f = x \o w /\ w \in Seq(Nat)
      BY <3>2, FreeTagPushed
    <3> HIDE DEF f, w
    <3>4. /\ Range(f) = Range(x) \cup Range(w)
          /\ IsInjective(f) <=> IsInjective(x) /\ IsInjective(w) /\ Range(x) \cap Range(w) = {}
      BY <3>2, <3>3, Concatenated
    <3> QED
      BY <3>1, <3>2, <3>4
  <2> QED
    BY <2>1, <2>2
<1>3. DOMAIN p = {"prefixBinding", "binding", "freeBindings", "inherited", "tagStack", "freeTags",
                  "flag", "power", "version", "nsAtts", "state", "error"}
  BY <1>1, ParserFields DEF StateType
<1> HIDE DEF ts
<1>4. /\ DOMAIN q = DOMAIN p /\ q.state = p.state /\ q.error = p.error
      /\ q.tagStack = p.tagStack /\ q.freeTags = ts
      /\ q.inherited = p.inherited /\ q.freeBindings = p.freeBindings
      /\ q.binding = p.binding /\ q.prefixBinding = p.prefixBinding
      /\ q.flag = p.flag /\ q.power = p.power /\ q.version = p.version /\ q.nsAtts = p.nsAtts
  BY <1>3
<1> HIDE DEF q
<1>5. ListType(q)
  BY <1>1, <1>2, <1>4 DEF ListType
<1>6. Typed(q)
  <2>1. BindingType(q)
    BY <1>1, <1>4 DEF BindingType
  <2>2. AttType(q)
    BY <1>1, <1>4 DEF AttType
  <2>3. StateType(q)
    BY <1>1, <1>4 DEF StateType
  <2> QED
    BY <1>5, <2>1, <2>2, <2>3 DEF Typed
<1>7. OpenLists(q) = OpenLists(p) /\ FlattenSeq(q.freeTags) = w
  BY <1>4 DEF OpenLists
<1>8. /\ Owned(q, <<>>) \subseteq Owned(p, <<>>)
      /\ Owned(p, <<>>) \ Left(p) \subseteq Owned(q, <<>>)
  <2> HIDE DEF f, w
  <2> QED
    BY <1>2, <1>4, <1>7 DEF Owned, f
<1>9. Apart(q, <<>>)
  <2>1. Range(w) \subseteq Range(f) /\ (IsInjective(f) => IsInjective(w))
    BY <1>2
  <2>2. Apart(p, <<>>)
    BY <1>1 DEF OneList
  <2> HIDE DEF w
  <2> QED
    BY <1>4, <1>7, <2>1, <2>2 DEF Apart, f
<1>10. OneList(q, <<>>)
  BY <1>1, <1>4, <1>8, <1>9 DEF OneList
<1>11. ASSUME p.error = None PROVE Live(q, <<>>) /\ FlagsClear(q)
  <2>1. Live(p, <<>>) /\ FlagsClear(p)
    BY <1>11 DEF ParserInv
  <2>2. Agree(p, q, Scope(p, 1))
    BY <1>4 DEF Agree
  <2>3. /\ \A i : Scope(q, i) = Scope(p, i)
        /\ ShadowsInScope(p) => ShadowsInScope(q)
        /\ NamesPlaced(p) => NamesPlaced(q)
    BY <1>1, <1>4, <1>5, <2>2, StackKept
  <2>4. PrefixesInScope(p, <<>>) => PrefixesInScope(q, <<>>)
    BY <1>4, <2>3 DEF PrefixesInScope, Shadows
  <2> QED
    BY <1>4, <2>1, <2>3, <2>4 DEF Live, FlagsClear
<1>12. ParserInv(q)
  BY <1>4, <1>6, <1>10, <1>11 DEF ParserInv
<1> QED
  BY <1>4, <1>8, <1>12 DEF q, ts

(* The bindings made for a new parser are those it inherits.                 *)
Inherits(F, q) ==
  /\ DOMAIN q = DOMAIN F.p /\ q.inherited = F.bindings /\ q.state = "open"
  /\ q.binding = F.p.binding /\ q.prefixBinding = F.p.prefixBinding
  /\ q.freeBindings = F.p.freeBindings /\ q.tagStack = F.p.tagStack /\ q.freeTags = F.p.freeTags
  /\ q.flag = F.p.flag /\ q.power = F.p.power /\ q.version = F.p.version /\ q.nsAtts = F.p.nsAtts

LEMMA BindingsInherited ==
  ASSUME NEW p, NEW F, NEW q, BindingType(p), FrameInv(p, F), Inherits(F, q),
         p.tagStack = <<>>, p.inherited = <<>>
  PROVE  /\ Typed(q) /\ OneList(q, <<>>) /\ Kept(p, <<>>, q, <<>>)
         /\ F.error = None => Live(q, <<>>)
<1> DEFINE P == F.p
           cur == F.bindings
<1>1. /\ BindingType(P) /\ ListType(P) /\ AttType(P) /\ StateType(P)
      /\ OneList(P, cur) /\ Kept(p, <<>>, P, cur) /\ cur \in Seq(Nat)
      /\ P.tagStack = <<>> /\ P.inherited = <<>>
  BY DEF FrameInv, FrameType, Typed, SameParser
<1>2. /\ DOMAIN q = DOMAIN P /\ q.inherited = cur /\ q.state = "open"
      /\ q.binding = P.binding /\ q.prefixBinding = P.prefixBinding
      /\ q.freeBindings = P.freeBindings /\ q.tagStack = <<>> /\ q.freeTags = P.freeTags
      /\ q.flag = P.flag /\ q.power = P.power /\ q.version = P.version /\ q.nsAtts = P.nsAtts
  BY <1>1 DEF Inherits
<1>3. F.error = None => Live(P, cur)
  BY DEF FrameInv
<1> HIDE DEF P, cur
<1>4. ListType(q)
  BY <1>1, <1>2 DEF ListType
<1>5. Typed(q)
  <2>1. BindingType(q)
    BY <1>1, <1>2 DEF BindingType
  <2>2. AttType(q)
    BY <1>1, <1>2 DEF AttType
  <2>3. StateType(q)
    BY <1>1, <1>2 DEF StateType
  <2> QED
    BY <1>4, <2>1, <2>2, <2>3 DEF Typed
<1>6. OpenLists(P) = <<>> /\ OpenLists(q) = <<>>
  <2>1. OfTags(<<>>) = <<>>
    BY DEF OfTags
  <2> QED
    BY <1>1, <1>2, <2>1, FlattenEmpty DEF OpenLists
<1>7. Owned(q, <<>>) = Owned(P, cur) /\ Apart(q, <<>>)
  <2>1. Apart(P, cur)
    BY <1>1 DEF OneList
  <2>2. Apart(q, <<>>)
    BY <1>1, <1>2, <1>6, <2>1, EmptyRange DEF Apart
  <2> QED
    BY <1>1, <1>2, <1>6, <2>2, EmptyRange DEF Owned
<1>8. OneList(q, <<>>) /\ Kept(P, cur, q, <<>>)
  <2>1. Len(P.binding) <= Len(P.binding)
    BY <1>1 DEF BindingType
  <2> QED
    BY <1>1, <1>2, <1>7, <2>1 DEF OneList, Kept
<1>9. Kept(p, <<>>, q, <<>>)
  BY <1>1, <1>5, <1>8, KeptOn DEF Typed
<1>10. ASSUME F.error = None PROVE Live(q, <<>>)
  <2>1. Scope(P, 1) = {} /\ Scope(q, 1) = Range(cur)
    BY <1>1, <1>2, <1>4, ScopeFacts, EmptyRange
  <2>2. PrefixesInScope(P, cur)
    BY <1>3, <1>10 DEF Live
  <2>3. 1..Len(<<>>) = {}
    OBVIOUS
  <2>4. PrefixesInScope(q, <<>>)
    BY <1>2, <2>1, <2>2, <2>3, EmptyRange DEF PrefixesInScope
  <2>5. ShadowsInScope(q) /\ NamesPlaced(q)
    BY <1>2, <2>3 DEF ShadowsInScope, NamesPlaced
  <2> QED
    BY <2>4, <2>5 DEF Live
<1> QED
  BY <1>5, <1>8, <1>9, <1>10

LEMMA XmlBound == Refusal("xml", XmlNamespace) = None
BY DEF Refusal, XmlNamespace, XmlnsNamespace, None

LEMMA ParserStarted ==
  ASSUME NEW p, ParserInv(p), p.state = "new"
  PROVE  LET F == addBinding(Frame(p), "xml", NoAtt, XmlNamespace)
             q == [F.p EXCEPT !.inherited = F.bindings, !.state = "open"]
         IN  ParserInv(q) /\ Kept(p, <<>>, q, <<>>)
<1> DEFINE A == Frame(p)
           F == addBinding(A, "xml", NoAtt, XmlNamespace)
           q == [F.p EXCEPT !.inherited = F.bindings, !.state = "open"]
<1>1. /\ Typed(p) /\ BindingType(p) /\ OneList(p, <<>>)
      /\ p.error = None /\ p.inherited = <<>> /\ p.tagStack = <<>>
      /\ Live(p, <<>>) /\ FlagsClear(p)
  BY DEF ParserInv, Typed, StateType
<1>2. FrameInv(p, A) /\ A.error = None /\ A.p = p
  BY <1>1, Framed DEF Frame
<1>3. F.error = None
  BY <1>2, XmlBound DEF addBinding
<1> HIDE DEF A
<1>4. FrameInv(p, F) /\ Added(A, F, NoAtt)
  <2>1. "xml" \in PrefixTable /\ XmlNamespace \in Strings /\ NoAtt \in AttIds \cup {NoAtt}
    BY NamespacesAssumption
  <2> QED
    BY <1>1, <1>2, <2>1, AddBinding
<1> HIDE DEF F
<1>5. F.p.flag = p.flag /\ F.p.error = None
  BY <1>1, <1>2, <1>4 DEF Added, FrameInv, SameParser
<1>6. DOMAIN F.p = {"prefixBinding", "binding", "freeBindings", "inherited", "tagStack", "freeTags",
                    "flag", "power", "version", "nsAtts", "state", "error"}
  BY <1>4, ParserFields DEF FrameInv, Typed, StateType
<1>7. Inherits(F, q) /\ q.flag = p.flag /\ q.error = None
  BY <1>5, <1>6 DEF Inherits
<1> HIDE DEF q
<1>8. Typed(q) /\ OneList(q, <<>>) /\ Kept(p, <<>>, q, <<>>) /\ Live(q, <<>>)
  BY <1>1, <1>3, <1>4, <1>7, BindingsInherited
<1>9. ParserInv(q)
  BY <1>1, <1>7, <1>8 DEF ParserInv, FlagsClear
<1> QED
  BY <1>8, <1>9 DEF q, F, A

(* The parser of an external entity.                                         *)
LEMMA SequenceOfSet ==
  ASSUME NEW S, IsFiniteSet(S)
  PROVE  SetToSeq(S) \in Seq(S)
<1> DEFINE n == Cardinality(S)
<1>1. n \in Nat /\ ExistsBijection(1..n, S)
  BY FS_CardinalityType
<1> HIDE DEF n
<1>2. \E f \in [1..n -> S] : IsInjective(f)
  BY <1>1 DEF ExistsBijection, Bijection, Injection
<1>3. SetToSeq(S) = CHOOSE f \in [1..n -> S] : IsInjective(f)
  BY DEF SetToSeq, n
<1>4. SetToSeq(S) \in [1..n -> S]
  BY <1>2, <1>3
<1> QED
  BY <1>1, <1>4

LEMMA ContextType ==
  ASSUME NEW p, BindingType(p)
  PROVE  Context(p) \in Seq(PrefixTable \X Strings)
<1> DEFINE nul == ""
           bound == {x \in PrefixTable : p.prefixBinding[x] # Null}
           pair(x) == <<x, p.binding[p.prefixBinding[x]].uri>>
           rest == {pair(x) : x \in bound \ {nul}}
           head == IF nul \in bound THEN <<pair(nul)>> ELSE <<>>
<1>1. Context(p) = head \o SetToSeq(rest)
  BY Zenon DEF Context
<1> HIDE DEF nul
<1>2. \A x \in bound : pair(x) \in PrefixTable \X Strings
  <2> SUFFICES ASSUME NEW x \in bound PROVE pair(x) \in PrefixTable \X Strings
    OBVIOUS
  <2> DEFINE b == p.prefixBinding[x]
  <2>1. b \in 1..Len(p.binding) /\ x \in PrefixTable
    <3>1. /\ x \in PrefixTable /\ b # 0 /\ Len(p.binding) \in Nat
          /\ p.prefixBinding \in [PrefixTable -> 0..Len(p.binding)]
      BY DEF BindingType, Null
    <3> QED
      BY <3>1
  <2>2. pair(x) = <<x, p.binding[b].uri>>
    OBVIOUS
  <2> HIDE DEF b, pair
  <2>3. p.binding[b].uri \in Strings
    BY <2>1, BindingIn
  <2> QED
    BY <2>1, <2>2, <2>3
<1> DEFINE B == bound \ {nul}
           g == [x \in B |-> pair(x)]
<1>3. IsFiniteSet(B)
  <2>1. B \in SUBSET PrefixTable /\ IsFiniteSet(PrefixTable)
    BY NamespacesAssumption
  <2> HIDE DEF B
  <2> QED
    BY <2>1, FS_Subset
<1>4. g \in Surjection(B, rest)
  BY DEF Surjection
<1> HIDE DEF B, g
<1>5. IsFiniteSet(rest)
  BY <1>3, <1>4, FS_Surjection
<1>6. rest \subseteq PrefixTable \X Strings
  BY <1>2
<1>7. head \in Seq(PrefixTable \X Strings)
  <2>1. CASE nul \in bound
    <3>1. head = <<pair(nul)>> /\ pair(nul) \in PrefixTable \X Strings
      BY <1>2, <2>1
    <3> HIDE DEF head, pair
    <3> QED
      BY <3>1
  <2>2. CASE nul \notin bound
    <3>1. head = <<>>
      BY <2>2
    <3> HIDE DEF head
    <3> QED
      BY <3>1, EmptyRange
  <2> QED
    BY <2>1, <2>2
<1> HIDE DEF rest, head
<1>8. SetToSeq(rest) \in Seq(PrefixTable \X Strings)
  <2>1. SetToSeq(rest) \in Seq(rest)
    BY <1>5, SequenceOfSet
  <2> QED
    BY <1>6, <2>1
<1> QED
  BY <1>1, <1>7, <1>8

LEMMA NewParserInv == ParserInv(NewParser) /\ FlagsClear(NewParser)
<1> DEFINE p == NewParser
<1>1. /\ p.prefixBinding = [x \in PrefixTable |-> Null] /\ p.binding = <<>>
      /\ p.freeBindings = <<>> /\ p.inherited = <<>> /\ p.tagStack = <<>> /\ p.freeTags = <<>>
      /\ p.flag = [a \in AttIds |-> 0] /\ p.power = 0 /\ p.version = 0
      /\ p.nsAtts = [j \in 0..-1 |-> 0] /\ p.state = "new" /\ p.error = None
      /\ DOMAIN p = DOMAIN NewParser
  BY DEF NewParser
<1> HIDE DEF p
<1>2. Len(<<>>) = 0 /\ 1..0 = {} /\ \A S : <<>> \in Seq(S)
  OBVIOUS
<1>3. BindingType(p)
  <2>1. p.prefixBinding \in [PrefixTable -> 0..Len(p.binding)]
    BY <1>1, <1>2 DEF Null
  <2> QED
    BY <1>1, <1>2, <2>1 DEF BindingType
<1>4. ListType(p)
  BY <1>1, <1>2 DEF ListType
<1>5. AttType(p)
  <2>1. p.flag \in [AttIds -> 0..2]
    BY <1>1
  <2>2. p.version \in 0..InitAttsVersion
    BY <1>1, NamespacesAssumption
  <2>3. DOMAIN p.nsAtts = {}
    BY <1>1
  <2> QED
    BY <1>1, <2>1, <2>2, <2>3 DEF AttType
<1>6. StateType(p)
  BY <1>1 DEF StateType
<1>7. OpenLists(p) = <<>> /\ FlattenSeq(p.freeTags) = <<>>
  <2>1. OfTags(<<>>) = <<>>
    BY DEF OfTags
  <2> QED
    BY <1>1, <2>1, FlattenEmpty DEF OpenLists
<1>8. OneList(p, <<>>)
  BY <1>1, <1>2, <1>7, EmptyRange DEF OneList, Apart, Owned
<1>9. Live(p, <<>>)
  <2>1. PrefixesInScope(p, <<>>)
    BY <1>1, <1>2 DEF PrefixesInScope
  <2> QED
    BY <1>1, <1>2, <2>1 DEF Live, ShadowsInScope, NamesPlaced
<1>10. FlagsClear(p)
  BY <1>1 DEF FlagsClear
<1> QED
  BY <1>3, <1>4, <1>5, <1>6, <1>8, <1>9, <1>10 DEF ParserInv, Typed, p

LEMMA ContextSet ==
  ASSUME NEW context \in Seq(PrefixTable \X Strings)
  PROVE  ParserInv([setContext(NewParser, context) EXCEPT !.state = "open"])
<1> DEFINE p == NewParser
           c == setContext(p, context)
           q == [c EXCEPT !.state = "open"]
           n == Len(context)
<1>1. /\ Typed(p) /\ BindingType(p) /\ OneList(p, <<>>) /\ Live(p, <<>>) /\ FlagsClear(p)
      /\ p.tagStack = <<>> /\ p.inherited = <<>>
  <2>1. ParserInv(p) /\ FlagsClear(p) /\ p.error = None
    BY NewParserInv DEF NewParser
  <2>2. p.tagStack = <<>> /\ p.inherited = <<>>
    BY DEF NewParser
  <2> QED
    BY <2>1, <2>2 DEF ParserInv, Typed
<1> HIDE DEF p
<1>2. PICK f : SetsContext(f, p, context)
  BY SetContextBy
<1>3. /\ f[0] = Frame(p)
      /\ \A i \in 1..n :
           f[i] = IF f[i - 1].error # None THEN f[i - 1]
                  ELSE addBinding(f[i - 1], context[i][1], NoAtt, context[i][2])
      /\ c = [f[n].p EXCEPT !.inherited = f[n].bindings, !.error = f[n].error]
      /\ n \in Nat
  BY <1>2 DEF SetsContext
<1> DEFINE Good(F) == FrameInv(p, F) /\ F.p.flag = p.flag
           T == {i \in Nat : i <= n => Good(f[i])}
<1> HIDE DEF n, c
<1>4. 0 \in T
  <2>1. FrameInv(p, Frame(p)) /\ Frame(p).p = p
    BY <1>1, Framed DEF Frame
  <2> QED
    BY <1>3, <2>1
<1>5. ASSUME NEW i \in Nat, i \in T PROVE i + 1 \in T
  <2> SUFFICES ASSUME i + 1 <= n PROVE Good(f[i + 1])
    OBVIOUS
  <2> DEFINE F == f[i]
             x == context[i + 1][1]
             uri == context[i + 1][2]
             G == addBinding(F, x, NoAtt, uri)
  <2>1. i + 1 \in 1..n /\ (i + 1) - 1 = i /\ Good(F)
    BY <1>3, <1>5
  <2>2. x \in PrefixTable /\ uri \in Strings
    <3>1. context[i + 1] \in PrefixTable \X Strings
      BY <2>1, ElementOf DEF n
    <3> QED
      BY <3>1
  <2>3. f[i + 1] = IF F.error # None THEN F ELSE G
    BY <1>3, <2>1
  <2> HIDE DEF F, x, uri
  <2>4. ASSUME F.error = None PROVE Good(G)
    <3>1. NoAtt \in AttIds \cup {NoAtt}
      OBVIOUS
    <3>2. FrameInv(p, G) /\ Added(F, G, NoAtt)
      BY <1>1, <2>1, <2>2, <2>4, <3>1, AddBinding
    <3> QED
      BY <2>1, <3>2 DEF Added
  <2> HIDE DEF G, Good
  <2> QED
    BY <2>1, <2>3, <2>4
<1> HIDE DEF T
<1>6. n \in T
  BY <1>3, <1>4, <1>5, SetInduction
<1> DEFINE F == f[n]
<1>7. FrameInv(p, F) /\ F.p.flag = p.flag
  BY <1>3, <1>6 DEF T
<1>8. c = [F.p EXCEPT !.inherited = F.bindings, !.error = F.error]
  BY <1>3
<1> HIDE DEF F, Good
<1>9. DOMAIN F.p = {"prefixBinding", "binding", "freeBindings", "inherited", "tagStack", "freeTags",
                    "flag", "power", "version", "nsAtts", "state", "error"}
  BY <1>7, ParserFields DEF FrameInv, Typed, StateType
<1>10. Inherits(F, q) /\ q.flag = p.flag /\ q.error = F.error
  BY <1>7, <1>8, <1>9 DEF Inherits
<1> HIDE DEF q
<1>11. /\ Typed(q) /\ OneList(q, <<>>)
       /\ F.error = None => Live(q, <<>>)
  BY <1>1, <1>7, <1>10, BindingsInherited
<1>12. ParserInv(q)
  BY <1>1, <1>10, <1>11 DEF ParserInv, FlagsClear
<1> QED
  BY <1>12 DEF q, c, p

LEMMA EntityParserCreated ==
  ASSUME NEW p, ParserInv(p)
  PROVE  ParserInv(XML_ExternalEntityParserCreate(p))
<1>1. Context(p) \in Seq(PrefixTable \X Strings)
  BY ContextType DEF ParserInv, Typed
<1> QED
  BY <1>1, ContextSet DEF XML_ExternalEntityParserCreate

(* The reset takes every list apart; the TAGs stay, without bindings.        *)
Reset(p, freed) ==
  [NewParser EXCEPT
     !.binding = p.binding, !.freeBindings = freed,
     !.freeTags = [i \in DOMAIN p.tagStack |-> <<>>] \o p.freeTags,
     !.power = p.power, !.version = p.version, !.nsAtts = p.nsAtts]

LEMMA ParserReset ==
  ASSUME NEW p, ParserInv(p)
  PROVE  LET freed == Reverse(p.inherited) \o (Reverse(OpenLists(p)) \o p.freeBindings)
         IN  ParserInv(Reset(p, freed)) /\ Kept(p, <<>>, Reset(p, freed), <<>>)
<1> DEFINE o == OpenLists(p)
           f == FlattenSeq(p.freeTags)
           g == p.freeBindings
           h == p.inherited
           ro == Reverse(o)
           rh == Reverse(h)
           m == ro \o g
           freed == rh \o m
           es == [i \in DOMAIN p.tagStack |-> <<>>]
           q == Reset(p, freed)
<1>1. /\ BindingType(p) /\ ListType(p) /\ AttType(p) /\ StateType(p) /\ OneList(p, <<>>)
      /\ p.tagStack \in Seq(OpenTag) /\ p.freeTags \in Seq(Seq(Nat))
      /\ g \in Seq(Nat) /\ h \in Seq(Nat) /\ o \in Seq(Nat) /\ f \in Seq(Nat)
      /\ Len(p.binding) \in Nat
  BY ListsTyped DEF ParserInv, Typed, ListType, BindingType
<1>2. /\ q.prefixBinding = [x \in PrefixTable |-> Null] /\ q.binding = p.binding
      /\ q.freeBindings = freed /\ q.inherited = <<>> /\ q.tagStack = <<>>
      /\ q.freeTags = es \o p.freeTags
      /\ q.flag = [a \in AttIds |-> 0] /\ q.power = p.power /\ q.version = p.version
      /\ q.nsAtts = p.nsAtts /\ q.state = "new" /\ q.error = None
      /\ DOMAIN q = DOMAIN NewParser
  BY DEF Reset, NewParser
<1> HIDE DEF o, f, g, h, ro, rh, m, freed, es, q
<1>3. /\ ro \in Seq(Nat) /\ Range(ro) = Range(o) /\ (IsInjective(ro) <=> IsInjective(o))
      /\ rh \in Seq(Nat) /\ Range(rh) = Range(h) /\ (IsInjective(rh) <=> IsInjective(h))
  BY <1>1, Reversed DEF ro, rh
<1>4. /\ m \in Seq(Nat) /\ Range(m) = Range(ro) \cup Range(g)
      /\ IsInjective(m) <=> IsInjective(ro) /\ IsInjective(g) /\ Range(ro) \cap Range(g) = {}
  BY <1>1, <1>3, Concatenated DEF m
<1>5. /\ freed \in Seq(Nat) /\ Range(freed) = Range(rh) \cup Range(m)
      /\ IsInjective(freed) <=> IsInjective(rh) /\ IsInjective(m) /\ Range(rh) \cap Range(m) = {}
  BY <1>3, <1>4, Concatenated DEF freed
<1>6. q.freeTags \in Seq(Seq(Nat)) /\ FlattenSeq(q.freeTags) = f
  <2> DEFINE n == Len(p.tagStack)
  <2>1. n \in Nat /\ es = [i \in 1..n |-> <<>>]
    BY <1>1 DEF es
  <2>2. es \in Seq(Seq(Nat))
    <3>1. <<>> \in Seq(Nat)
      BY EmptyRange
    <3>2. es \in [1..n -> Seq(Nat)]
      BY <2>1, <3>1
    <3> HIDE DEF n
    <3> QED
      BY <2>1, <3>2
  <2>3. es \o p.freeTags \in Seq(Seq(Nat))
    BY <1>1, <2>2, Concatenated
  <2> HIDE DEF n
  <2>4. FlattenSeq([i \in 1..n |-> <<>>] \o p.freeTags) = FlattenSeq(p.freeTags)
    BY <1>1, <2>1, EmptiesFlattened
  <2> QED
    BY <1>2, <2>1, <2>3, <2>4 DEF f
<1>7. OpenLists(q) = <<>>
  <2>1. OfTags(<<>>) = <<>>
    BY DEF OfTags
  <2> QED
    BY <1>2, <2>1, FlattenEmpty DEF OpenLists
<1>8. Len(<<>>) = 0 /\ 1..0 = {} /\ \A S : <<>> \in Seq(S)
  OBVIOUS
<1>9. Typed(q)
  <2>1. BindingType(q)
    <3>1. q.prefixBinding \in [PrefixTable -> 0..Len(q.binding)]
      BY <1>1, <1>2 DEF Null
    <3> QED
      BY <1>1, <1>2, <3>1 DEF BindingType
  <2>2. ListType(q)
    BY <1>2, <1>5, <1>6, <1>8 DEF ListType
  <2>3. AttType(q)
    <3>1. q.flag \in [AttIds -> 0..2]
      BY <1>2
    <3> QED
      BY <1>1, <1>2, <3>1 DEF AttType
  <2>4. StateType(q)
    BY <1>2 DEF StateType
  <2> QED
    BY <2>1, <2>2, <2>3, <2>4 DEF Typed
<1>10. /\ Owned(p, <<>>) = Range(o) \cup Range(f) \cup Range(g) \cup Range(h)
       /\ Apart(p, <<>>)
       /\ Apart(p, <<>>) <=>
            /\ IsInjective(o) /\ IsInjective(f) /\ IsInjective(g) /\ IsInjective(h)
            /\ Range(o) \cap Range(f) = {} /\ Range(o) \cap Range(g) = {}
            /\ Range(o) \cap Range(h) = {} /\ Range(f) \cap Range(g) = {}
            /\ Range(f) \cap Range(h) = {} /\ Range(g) \cap Range(h) = {}
  BY <1>1, EmptyRange DEF OneList, Owned, Apart, o, f, g, h
<1>11. /\ Owned(q, <<>>) = Range(f) \cup Range(freed)
       /\ Apart(q, <<>>) <=>
            IsInjective(f) /\ IsInjective(freed) /\ Range(f) \cap Range(freed) = {}
  BY <1>2, <1>6, <1>7, EmptyRange DEF Owned, Apart
<1>12. Owned(q, <<>>) = Owned(p, <<>>) /\ Apart(q, <<>>)
  <2>1. Range(freed) = Range(h) \cup Range(o) \cup Range(g)
    BY <1>3, <1>4, <1>5
  <2>2. IsInjective(freed)
    BY <1>3, <1>4, <1>5, <1>10
  <2>3. Apart(q, <<>>)
    BY <1>10, <1>11, <2>1, <2>2
  <2> QED
    BY <1>10, <1>11, <2>1, <2>3
<1>13. OneList(q, <<>>) /\ Kept(p, <<>>, q, <<>>)
  <2>1. Len(p.binding) <= Len(p.binding)
    BY <1>1
  <2> QED
    BY <1>1, <1>2, <1>12, <2>1 DEF OneList, Kept
<1>14. Live(q, <<>>)
  <2>1. PrefixesInScope(q, <<>>)
    BY <1>2, <1>8 DEF PrefixesInScope
  <2> QED
    BY <1>2, <1>8, <2>1 DEF Live, ShadowsInScope, NamesPlaced
<1>15. FlagsClear(q)
  BY <1>2 DEF FlagsClear
<1>16. ParserInv(q)
  BY <1>9, <1>13, <1>14, <1>15 DEF ParserInv
<1> QED
  BY <1>13, <1>16 DEF q, freed, m, ro, rh, o, g, h

-----------------------------------------------------------------------------
(* The steps.                                                                *)
Conserves(p, lost, q) ==
  /\ Owned(p, <<>>) \ lost \subseteq Owned(q, <<>>)
  /\ \A b \in 1..Len(q.binding) : b \in 1..Len(p.binding) \/ b \in Owned(q, <<>>)

LEMMA KeptConserves ==
  ASSUME NEW p, NEW lost, NEW q, Kept(p, <<>>, q, <<>>)
  PROVE  Conserves(p, lost, q)
BY DEF Kept, Conserves

LEMMA TagStarted ==
  ASSUME NEW p, ParserInv(p), p.state = "open", p.error = None,
         NEW el \in Elements, NEW atts \in AttLists[el]
  PROVE  LET t == [p EXCEPT !.freeTags = IF @ = <<>> THEN @ ELSE Tail(@)]
             F == storeAtts(t, el, atts)
             tag == [el |-> el, str |-> F.str, bindings |-> F.bindings]
         IN  ParserInv(Opened(F, tag)) /\ Conserves(p, Left(p), Opened(F, tag))
<1> DEFINE t == [p EXCEPT !.freeTags = IF @ = <<>> THEN @ ELSE Tail(@)]
           F == storeAtts(t, el, atts)
           tag == [el |-> el, str |-> F.str, bindings |-> F.bindings]
           q == Opened(F, tag)
<1>1. /\ ParserInv(t) /\ t.binding = p.binding /\ t.state = "open" /\ t.error = None
      /\ Owned(p, <<>>) \ Left(p) \subseteq Owned(t, <<>>)
  BY TagTaken
<1> HIDE DEF t
<1>2. Typed(t) /\ BindingType(t) /\ OneList(t, <<>>) /\ Live(t, <<>>) /\ FlagsClear(t)
  BY <1>1 DEF ParserInv, Typed
<1>3. Stored(t, el, F)
  BY <1>2, AttsStored
<1> HIDE DEF F
<1>4. ParserInv(q) /\ Kept(t, <<>>, q, <<>>)
  BY <1>1, <1>2, <1>3, TagOpened
<1> HIDE DEF q
<1>5. Conserves(p, Left(p), q)
  BY <1>1, <1>4 DEF Conserves, Kept
<1> QED
  BY <1>4, <1>5 DEF q, tag, F, t

LEMMA ErrorSet ==
  ASSUME NEW p, ParserInv(p), NEW e, e # None, p.state # "new"
  PROVE  ParserInv([p EXCEPT !.error = e])
<1> DEFINE q == [p EXCEPT !.error = e]
<1>1. Typed(p) /\ OneList(p, <<>>) /\ StateType(p)
  BY DEF ParserInv, Typed
<1>2. DOMAIN p = {"prefixBinding", "binding", "freeBindings", "inherited", "tagStack", "freeTags",
                  "flag", "power", "version", "nsAtts", "state", "error"}
  BY <1>1, ParserFields DEF StateType
<1>3. Restated(p, q) /\ q.error = e
  BY <1>1, <1>2 DEF Restated, StateType
<1> HIDE DEF q
<1>4. Typed(q) /\ OneList(q, <<>>)
  BY <1>1, <1>3, StateChanged
<1>5. ParserInv(q)
  BY <1>3, <1>4 DEF ParserInv
<1> QED
  BY <1>5 DEF q

(* The parsers whose handlers are at work have started.                      *)
IndInv ==
  /\ ParserInv(parser)
  /\ \E S : /\ outer \in Seq(S)
            /\ \A p \in S : ParserInv(p) /\ p.state # "new"

Around ==
  \/ outer' = outer
  \/ parser.state # "new" /\ outer' = <<parser>> \o outer
  \/ outer # <<>> /\ outer' = Tail(outer)

LEMMA InitInv == Init => IndInv
<1> SUFFICES ASSUME Init PROVE IndInv
  OBVIOUS
<1>1. ParserInv(parser)
  BY NewParserInv DEF Init
<1> DEFINE S == {}
<1>2. outer \in Seq(S) /\ \A p \in S : ParserInv(p) /\ p.state # "new"
  BY EmptyRange DEF Init
<1> HIDE DEF S
<1> QED
  BY <1>1, <1>2 DEF IndInv

LEMMA StateAfterType == \A stack : StateAfter(stack) \in {"open", "ended"}
BY DEF StateAfter

LEMMA StepKeeps ==
  ASSUME IndInv, [Next]_vars
  PROVE  /\ ParserInv(parser') /\ Around
         /\ outer' = outer => Conserves(parser, Forgotten, parser')
<1>1. PICK S : outer \in Seq(S) /\ \A p \in S : ParserInv(p) /\ p.state # "new"
  BY DEF IndInv
<1>2. ParserInv(parser)
  BY DEF IndInv
<1> DEFINE Goal == /\ ParserInv(parser') /\ Around
                   /\ outer' = outer => Conserves(parser, Forgotten, parser')
<1>3. ASSUME ParserInv(parser') /\ Kept(parser, <<>>, parser', <<>>), outer' = outer PROVE Goal
  BY <1>3, KeptConserves DEF Around
<1> HIDE DEF Goal
<1>4. ASSUME startParsing PROVE Goal
  <2> DEFINE F == addBinding(Frame(parser), "xml", NoAtt, XmlNamespace)
  <2>1. /\ parser.state = "new" /\ outer' = outer
        /\ parser' = [F.p EXCEPT !.inherited = F.bindings, !.state = "open"]
    BY <1>4 DEF startParsing
  <2> HIDE DEF F
  <2>2. ParserInv(parser') /\ Kept(parser, <<>>, parser', <<>>)
    BY Zenon, <1>2, <2>1, ParserStarted DEF F
  <2> QED
    BY <1>3, <2>1, <2>2
<1>5. ASSUME NEW el \in Elements, NEW atts \in AttLists[el], StartTag(el, atts) PROVE Goal
  <2> DEFINE t == [parser EXCEPT !.freeTags = IF @ = <<>> THEN @ ELSE Tail(@)]
             F == storeAtts(t, el, atts)
             tag == [el |-> el, str |-> F.str, bindings |-> F.bindings]
  <2>1. /\ parser.state = "open" /\ parser.error = None /\ outer' = outer
        /\ parser' = Opened(F, tag)
    BY <1>5 DEF StartTag, Parsing, Opened
  <2>2. ParserInv(Opened(F, tag)) /\ Conserves(parser, Left(parser), Opened(F, tag))
    BY <1>2, <2>1, TagStarted
  <2>3. Forgotten = Left(parser)
    BY <1>5 DEF StartTag, Tag, Forgotten
  <2> HIDE DEF F, tag
  <2> QED
    BY <2>1, <2>2, <2>3 DEF Around, Goal
<1>6. ASSUME NEW el \in Elements, NEW atts \in AttLists[el], EmptyTag(el, atts) PROVE Goal
  <2> DEFINE F == storeAtts(parser, el, atts)
             s == StateAfter(parser.tagStack)
  <2>1. /\ parser.state = "open" /\ parser.error = None /\ outer' = outer
        /\ parser' = [Released(F.p, F.bindings) EXCEPT !.error = F.error, !.state = s]
    BY <1>6 DEF EmptyTag, Parsing
  <2>2. Stored(parser, el, F)
    BY <1>2, <2>1, AttsStored DEF ParserInv
  <2>3. s \in {"open", "ended"} /\ BindingType(parser)
    BY <1>2, StateAfterType DEF ParserInv, Typed
  <2> HIDE DEF F, s
  <2>4. ParserInv(parser') /\ Kept(parser, <<>>, parser', <<>>)
    BY Zenon, <2>1, <2>2, <2>3, TagEmptied
  <2> QED
    BY <1>3, <2>1, <2>4
<1>7. ASSUME EndTag PROVE Goal
  <2> DEFINE s == StateAfter(Tail(parser.tagStack))
             tag == Head(parser.tagStack)
             u == [parser EXCEPT !.tagStack = Tail(@), !.freeTags = << <<>> >> \o @, !.state = s]
  <2>1. /\ parser.error = None /\ parser.tagStack # <<>> /\ outer' = outer
        /\ parser' = Released(NameAgain(u, tag), tag.bindings)
    BY <1>7 DEF EndTag, Parsing
  <2>2. s \in {"open", "ended"}
    BY StateAfterType
  <2> HIDE DEF s
  <2>3. ParserInv(parser') /\ Kept(parser, <<>>, parser', <<>>)
    BY Zenon, <1>2, <2>1, <2>2, TagClosed
  <2> QED
    BY <1>3, <2>1, <2>3
<1>8. ASSUME MismatchedEndTag PROVE Goal
  <2> DEFINE e == "TAG_MISMATCH"
  <2>1. /\ parser.state = "open" /\ parser.tagStack # <<>> /\ outer' = outer
        /\ parser' = [parser EXCEPT !.tagStack = Tail(@), !.error = e,
                                    !.freeTags = <<Head(parser.tagStack).bindings>> \o @]
    BY <1>8 DEF MismatchedEndTag, Parsing
  <2>2. e # None /\ parser.state # "new"
    BY <2>1 DEF None
  <2> HIDE DEF e
  <2>3. ParserInv(parser') /\ Kept(parser, <<>>, parser', <<>>)
    BY Zenon, <1>2, <2>1, <2>2, TagMismatched
  <2> QED
    BY <1>3, <2>1, <2>3
<1>9. ASSUME ExternalEntityRef PROVE Goal
  <2>1. /\ outer' = <<parser>> \o outer /\ parser.state = "open"
        /\ parser' = XML_ExternalEntityParserCreate(parser)
    BY <1>9 DEF ExternalEntityRef, Parsing
  <2>2. ParserInv(parser')
    BY <1>2, <2>1, EntityParserCreated
  <2>3. outer' # outer
    <3>1. Len(outer') = Len(outer) + 1 /\ Len(outer) \in Nat
      BY <1>1, <2>1, Pushed
    <3> QED
      BY <3>1
  <2> QED
    BY <2>1, <2>2, <2>3 DEF Around, Goal
<1>10. ASSUME ExternalEntityEnd PROVE Goal
  <2>1. /\ outer # <<>> /\ outer' = Tail(outer)
        /\ parser' \in {Head(outer), [Head(outer) EXCEPT !.error = "EXTERNAL_ENTITY_HANDLING"]}
    BY <1>10 DEF ExternalEntityEnd
  <2>2. Head(outer) \in S /\ outer' # outer
    <3>1. Head(outer) \in S /\ Len(outer') = Len(outer) - 1 /\ Len(outer) \in Nat
      BY <1>1, <2>1, Popped
    <3> QED
      BY <3>1
  <2> DEFINE h == Head(outer)
             e == "EXTERNAL_ENTITY_HANDLING"
             q == [h EXCEPT !.error = e]
  <2>3. ParserInv(h) /\ h.state # "new" /\ (parser' = h \/ parser' = q)
    BY <1>1, <2>1, <2>2
  <2> HIDE DEF h
  <2>4. ParserInv(q)
    <3>1. e # None
      BY DEF None
    <3> HIDE DEF e
    <3> QED
      BY <2>3, <3>1, ErrorSet
  <2> QED
    BY <2>1, <2>2, <2>3, <2>4 DEF Around, Goal
<1>11. ASSUME XML_ParserReset PROVE Goal
  <2> DEFINE freed == Reverse(parser.inherited) \o (Reverse(OpenLists(parser)) \o parser.freeBindings)
             moved == [parser EXCEPT !.freeBindings = Reverse(OpenLists(parser)) \o @]
  <2>1. outer' = outer /\ parser' = Reset(parser, FreedByReset(moved))
    BY <1>11 DEF XML_ParserReset, Reset, OpenLists, OfTags
  <2>2. FreedByReset(moved) = freed
    <3>1. /\ moved.inherited = parser.inherited
          /\ moved.freeBindings = Reverse(OpenLists(parser)) \o parser.freeBindings
      BY <1>2, ParserFields DEF ParserInv, Typed, StateType
    <3> QED
      BY <3>1 DEF FreedByReset
  <2>3. ParserInv(parser') /\ Kept(parser, <<>>, parser', <<>>)
    BY <1>2, <2>1, <2>2, ParserReset
  <2> QED
    BY <1>3, <2>1, <2>3
<1>12. ASSUME UNCHANGED vars PROVE Goal
  <2>1. parser' = parser /\ outer' = outer
    BY <1>12 DEF vars
  <2>2. Kept(parser, <<>>, parser, <<>>)
    BY <1>2 DEF Kept, ParserInv, Typed, BindingType
  <2> QED
    BY <1>2, <1>3, <2>1, <2>2
<1>13. Goal
  <2> QED
    BY <1>4, <1>5, <1>6, <1>7, <1>8, <1>9, <1>10, <1>11, <1>12 DEF Next
<1> QED
  BY <1>13 DEF Goal

LEMMA NextInv == IndInv /\ [Next]_vars => IndInv'
<1> SUFFICES ASSUME IndInv, [Next]_vars PROVE IndInv'
  OBVIOUS
<1>1. PICK S : outer \in Seq(S) /\ \A p \in S : ParserInv(p) /\ p.state # "new"
  BY DEF IndInv
<1>2. ParserInv(parser') /\ Around /\ ParserInv(parser)
  BY StepKeeps DEF IndInv
<1>3. CASE outer' \in Seq(S)
  BY <1>1, <1>2, <1>3 DEF IndInv
<1>4. CASE parser.state # "new" /\ outer' = <<parser>> \o outer
  <2> DEFINE R == S \cup {parser}
  <2>1. \A p \in R : ParserInv(p) /\ p.state # "new"
    BY <1>1, <1>2, <1>4
  <2>2. outer \in Seq(R) /\ parser \in R
    BY <1>1
  <2> HIDE DEF R
  <2>3. outer' \in Seq(R)
    BY <1>4, <2>2, Pushed
  <2> QED
    BY <1>2, <2>1, <2>3 DEF IndInv
<1>5. CASE outer # <<>> /\ outer' = Tail(outer)
  <2>1. outer' \in Seq(S)
    BY <1>1, <1>5, Popped
  <2> QED
    BY <1>3, <2>1
<1> QED
  BY <1>1, <1>2, <1>3, <1>4, <1>5 DEF Around

-----------------------------------------------------------------------------
(* The inductive invariant: every parser there is keeps ParserInv.            *)
THEOREM InvHolds == Spec => []IndInv
<1>1. Init => IndInv
  BY InitInv
<1>2. IndInv /\ [Next]_vars => IndInv'
  BY NextInv
<1> QED
  BY <1>1, <1>2, PTL DEF Spec

LEMMA ParserTyped == IndInv => TypeOK
<1> SUFFICES ASSUME IndInv PROVE TypeOK
  OBVIOUS
<1> DEFINE p == parser
<1>1. /\ BindingType(p) /\ ListType(p) /\ AttType(p) /\ StateType(p) /\ OneList(p, <<>>)
      /\ p.error = None => FlagsClear(p)
  BY DEF IndInv, ParserInv, Typed
<1>2. /\ Len(p.binding) \in Nat /\ DOMAIN p.binding = 1..Len(p.binding)
      /\ DOMAIN p.tagStack = 1..Len(p.tagStack)
  BY <1>1 DEF BindingType, ListType
<1> DEFINE bs == DOMAIN p.binding
<1>3. p.prefixBinding \in [PrefixTable -> bs \cup {Null}]
  <2>1. bs \cup {Null} = 0..Len(p.binding)
    BY <1>2 DEF Null
  <2> QED
    BY <1>1, <2>1 DEF BindingType
<1>4. ASSUME NEW b \in bs
      PROVE  /\ p.binding[b].prefix \in PrefixTable /\ p.binding[b].prev \in bs \cup {Null}
             /\ p.binding[b].alloc >= Length[p.binding[b].uri]
  <2>1. /\ p.binding[b].prefix \in PrefixTable /\ p.binding[b].prev \in 0..Len(p.binding)
        /\ p.binding[b].alloc \in Nat /\ Length[p.binding[b].uri] \in Nat
        /\ Length[p.binding[b].uri] <= p.binding[b].alloc
    BY <1>1, <1>2, BindingIn
  <2> QED
    BY <1>2, <2>1 DEF Null
<1>5. Range(p.freeBindings) \cup Range(p.inherited) \subseteq bs
  BY <1>1, <1>2 DEF OneList, Owned
<1>6. ASSUME NEW i \in DOMAIN p.tagStack PROVE Range(p.tagStack[i].bindings) \subseteq bs
  <2>1. \A x \in Range(p.tagStack[i].bindings) : x \in Range(OpenLists(p))
    BY <1>1, <1>2, ListsTyped
  <2> QED
    BY <1>1, <1>2, <2>1 DEF OneList, Owned
<1>7. /\ p.state \in {"new", "open", "ended"} /\ p.version \in 0..InitAttsVersion
      /\ DOMAIN p.nsAtts = IF p.power = 0 THEN {} ELSE 0..(2^p.power - 1)
  BY <1>1 DEF StateType, AttType
<1>8. p.error = None => \A a \in AttIds : p.flag[a] = 0
  BY <1>1 DEF FlagsClear
<1> QED
  BY <1>3, <1>4, <1>5, <1>6, <1>7, <1>8 DEF TypeOK

LEMMA NamesLive == IndInv => OpenNamesLive
<1> SUFFICES ASSUME IndInv, NEW i \in DOMAIN parser.tagStack,
                    parser.error = None, parser.tagStack[i].str # Own
             PROVE  LET tag == parser.tagStack[i]
                        b == tag.str[1]
                    IN  /\ b \notin Range(parser.freeBindings)
                        /\ parser.binding[b].prefix = tag.el.prefix
                        /\ parser.binding[b].alloc = tag.str[2]
                        /\ NameLen(tag.el, parser.binding[b].uri) <= parser.binding[b].alloc
  BY DEF OpenNamesLive
<1> DEFINE tag == parser.tagStack[i]
           b == tag.str[1]
<1>1. ListType(parser) /\ OneList(parser, <<>>) /\ NamesPlaced(parser)
  BY DEF IndInv, ParserInv, Typed, Live
<1>2. i \in 1..Len(parser.tagStack) /\ Len(parser.tagStack) \in Nat
  BY <1>1 DEF ListType
<1>3. NamePlaced(parser, tag, Scope(parser, i))
  BY <1>1, <1>2 DEF NamesPlaced
<1>4. /\ b \in Scope(parser, i) /\ parser.binding[b].prefix = tag.el.prefix
      /\ parser.binding[b].alloc = tag.str[2]
      /\ NameLen(tag.el, parser.binding[b].uri) <= parser.binding[b].alloc
  BY <1>3 DEF NamePlaced
<1>5. Scope(parser, i) \subseteq Range(OpenLists(parser)) \cup Range(parser.inherited)
  BY <1>1, <1>2, ScopeFacts
<1> HIDE DEF b
<1>6. b \notin Range(parser.freeBindings)
  BY <1>1, <1>4, <1>5 DEF OneList, Apart
<1> QED
  BY <1>4, <1>6 DEF b

(* Whatever is parsed, every list, every prefix and every BINDING refers to  *)
(* a BINDING there is, the table of expanded names has the size its power    *)
(* says, and between two tags no attribute is marked as seen.                *)
THEOREM Typing == Spec => []TypeOK
<1>1. IndInv => TypeOK
  BY ParserTyped
<1> QED
  BY <1>1, InvHolds, PTL

(* The name of an open element is in the buffer its BINDING has now, which   *)
(* has room for it and is on no free list: when the end tag comes, the name  *)
(* is read where it is (xmlparse.c:2849), however often buffers moved.       *)
THEOREM OpenNamesStayLive == Spec => []OpenNamesLive
<1>1. IndInv => OpenNamesLive
  BY NamesLive
<1> QED
  BY <1>1, InvHolds, PTL

(* A BINDING is on one list of its parser, and none is lost but those on a   *)
(* free TAG that a start tag takes again.                                    *)
THEOREM BindingsStay == Spec => BindingsConserved
<1> DEFINE A == outer' = outer =>
                  /\ IsInjective(Lists(parser'))
                  /\ Range(Lists(parser)) \ Forgotten \subseteq Range(Lists(parser'))
                  /\ DOMAIN parser'.binding \ DOMAIN parser.binding
                       \subseteq Range(Lists(parser'))
<1>1. IndInv /\ [Next]_vars => A
  <2> SUFFICES ASSUME IndInv, [Next]_vars, outer' = outer
               PROVE  /\ IsInjective(Lists(parser'))
                      /\ Range(Lists(parser)) \ Forgotten \subseteq Range(Lists(parser'))
                      /\ DOMAIN parser'.binding \ DOMAIN parser.binding
                           \subseteq Range(Lists(parser'))
    OBVIOUS
  <2>1. ParserInv(parser) /\ ParserInv(parser') /\ Conserves(parser, Forgotten, parser')
    BY StepKeeps DEF IndInv
  <2> DEFINE p == parser
             q == parser'
             lost == Forgotten
  <2>2. /\ ListType(p) /\ ListType(q) /\ Apart(q, <<>>)
        /\ DOMAIN p.binding = 1..Len(p.binding) /\ DOMAIN q.binding = 1..Len(q.binding)
    BY <2>1 DEF ParserInv, Typed, OneList, BindingType
  <2> HIDE DEF p, q, lost
  <2>3. Range(Lists(p)) = Owned(p, <<>>) /\ Range(Lists(q)) = Owned(q, <<>>) /\ IsInjective(Lists(q))
    BY <2>2, ListsSplit
  <2>4. /\ Owned(p, <<>>) \ lost \subseteq Owned(q, <<>>)
        /\ \A b \in 1..Len(q.binding) : b \in 1..Len(p.binding) \/ b \in Owned(q, <<>>)
    BY <2>1 DEF Conserves, p, q, lost
  <2>5. /\ IsInjective(Lists(q))
        /\ Range(Lists(p)) \ lost \subseteq Range(Lists(q))
        /\ DOMAIN q.binding \ DOMAIN p.binding \subseteq Range(Lists(q))
    BY <2>2, <2>3, <2>4
  <2> QED
    BY <2>5 DEF p, q, lost
<1>2. BindingsConserved <=> [][A]_vars
  BY DEF BindingsConserved
<1> HIDE DEF A
<1> QED
  BY <1>1, <1>2, InvHolds, PTL DEF Spec

=============================================================================
