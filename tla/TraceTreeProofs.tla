---------------------------- MODULE TraceTreeProofs ----------------------------
(***************************************************************************)
(* What the algorithms of TraceTree compute, for every call trace: an      *)
(* induction each, with the least-element principle.                       *)
(***************************************************************************)
EXTENDS TraceTree, FiniteSetTheorems, SequenceTheorems, WellFoundedInduction, TLAPS

--------------------------------------------------------------------------------
(* Induction and recursion.                                                *)

(* A set of numbers that holds a number with all smaller ones holds all.   *)
LEMMA CourseOfValues ==
  ASSUME NEW P \in SUBSET Nat,
         \A n \in Nat : (\A k \in Nat : k < n => k \in P) => n \in P
  PROVE  P = Nat
<1> SUFFICES ASSUME Nat \ P # {} PROVE FALSE
  OBVIOUS
<1>1. PICK n \in Nat \ P : \A y \in Nat \ P : ~ (<<y, n>> \in OpToRel(<, Nat))
  BY NatLessThanWellFounded, WFMin
<1>2. \A y \in Nat \ P : ~(y < n)
  BY <1>1 DEF OpToRel
<1>3. QED
  BY <1>1, <1>2

(* One that holds 0 and with a number the next one holds all.              *)
LEMMA Induction ==
  ASSUME NEW P \in SUBSET Nat, 0 \in P, \A n \in P : n + 1 \in P
  PROVE  P = Nat
<1>1. ASSUME NEW n \in Nat, \A k \in Nat : k < n => k \in P
      PROVE  n \in P
  <2>1. CASE n = 0
    BY <2>1
  <2>2. CASE n # 0
    <3>1. n - 1 \in Nat /\ n - 1 < n /\ (n - 1) + 1 = n
      BY <2>2
    <3>2. n - 1 \in P
      BY <1>1, <3>1
    <3>3. (n - 1) + 1 \in P
      BY <3>2
    <3>4. QED
      BY <3>1, <3>3
  <2>3. QED
    BY <2>1, <2>2
<1>2. QED
  BY <1>1, CourseOfValues

(* The functions that obey a recursion F as far as the measure m is        *)
(* below n.                                                                *)
Upto(F, S, T, m, n) == {f \in [S -> T] : \A s \in S : m[s] < n => f[s] = F[<<f, s>>]}

(* F looks only at what has a smaller measure.                             *)
LooksBelow(F, S, T, m) ==
  \A g, h \in [S -> T] : \A s \in S :
    (\A r \in S : m[r] < m[s] => g[r] = h[r]) => F[<<g, s>>] = F[<<h, s>>]

LEMMA UptoAgree ==
  ASSUME NEW S, NEW T, NEW m \in [S -> Nat], NEW F, LooksBelow(F, S, T, m),
         NEW n \in Nat, NEW f \in Upto(F, S, T, m, n), NEW g \in Upto(F, S, T, m, n)
  PROVE  \A s \in S : m[s] < n => f[s] = g[s]
<1> DEFINE P == {k \in Nat : \A s \in S : m[s] = k /\ k < n => f[s] = g[s]}
<1>0. f \in [S -> T] /\ g \in [S -> T]
  BY DEF Upto
<1>1. ASSUME NEW k \in Nat, \A i \in Nat : i < k => i \in P
      PROVE  k \in P
  <2>1. SUFFICES ASSUME NEW s \in S, m[s] = k, k < n PROVE f[s] = g[s]
    OBVIOUS
  <2>2. ASSUME NEW r \in S, m[r] < m[s] PROVE f[r] = g[r]
    <3>1. m[r] \in Nat /\ m[r] < k /\ m[r] < n
      BY <2>1, <2>2
    <3>2. m[r] \in P
      BY <1>1, <3>1
    <3>3. QED
      BY <3>1, <3>2
  <2>3. F[<<f, s>>] = F[<<g, s>>]
    BY <1>0, <2>2 DEF LooksBelow
  <2>4. f[s] = F[<<f, s>>] /\ g[s] = F[<<g, s>>]
    BY <2>1 DEF Upto
  <2>5. QED
    BY <2>3, <2>4
<1>2. P = Nat
  <2> HIDE DEF P
  <2>1. P \in SUBSET Nat
    BY DEF P
  <2>2. QED
    BY <1>1, <2>1, CourseOfValues
<1>3. QED
  BY <1>2

LEMMA UptoStep ==
  ASSUME NEW S, NEW T, NEW m \in [S -> Nat], NEW F \in [[S -> T] \X S -> T],
         LooksBelow(F, S, T, m), NEW n \in Nat, NEW f \in Upto(F, S, T, m, n)
  PROVE  Upto(F, S, T, m, n + 1) # {}
<1> DEFINE g == [s \in S |-> IF m[s] < n THEN f[s] ELSE F[<<f, s>>]]
<1>1. f \in [S -> T] /\ \A s \in S : m[s] < n => f[s] = F[<<f, s>>]
  BY DEF Upto
<1>2. g \in [S -> T]
  <2>1. ASSUME NEW s \in S PROVE F[<<f, s>>] \in T
    BY <1>1
  <2>2. QED
    BY <1>1, <2>1
<1>3. ASSUME NEW s \in S, m[s] < n + 1 PROVE g[s] = F[<<g, s>>]
  <2>1. ASSUME NEW r \in S, m[r] < m[s] PROVE f[r] = g[r]
    <3>1. m[r] < n
      BY <1>3, <2>1
    <3>2. QED
      BY <3>1
  <2>2. F[<<f, s>>] = F[<<g, s>>]
    BY <1>1, <1>2, <2>1 DEF LooksBelow
  <2>3. g[s] = F[<<f, s>>]
    BY <1>1
  <2>4. QED
    BY <2>2, <2>3
<1>4. g \in Upto(F, S, T, m, n + 1)
  BY <1>2, <1>3 DEF Upto
<1>5. QED
  BY <1>4

(* What a recursive definition over S asks for exists, when each value     *)
(* depends on values of a smaller measure.                                 *)
Recursive(F, S, T, m) ==
  T # {} /\ m \in [S -> Nat] /\ F \in [[S -> T] \X S -> T] /\ LooksBelow(F, S, T, m)

Solutions(F, S, T) == {f \in [S -> T] : \A s \in S : f[s] = F[<<f, s>>]}

LEMMA Recursion ==
  ASSUME NEW S, NEW T, NEW m, NEW F, Recursive(F, S, T, m)
  PROVE  Solutions(F, S, T) # {}
<1>0. T # {} /\ m \in [S -> Nat] /\ F \in [[S -> T] \X S -> T] /\ LooksBelow(F, S, T, m)
  BY DEF Recursive
<1> DEFINE P == {n \in Nat : Upto(F, S, T, m, n) # {}}
           at(s) == CHOOSE g \in Upto(F, S, T, m, m[s] + 1) : TRUE
           f == [s \in S |-> at(s)[s]]
<1>1. P = Nat
  <2>1. 0 \in P
    <3>1. PICK t \in T : TRUE
      BY <1>0
    <3>2. [s \in S |-> t] \in Upto(F, S, T, m, 0)
      BY <1>0, <3>1 DEF Upto
    <3>3. QED
      BY <3>2
  <2>2. ASSUME NEW n \in P PROVE n + 1 \in P
    <3>1. n \in Nat /\ \E f_ \in Upto(F, S, T, m, n) : TRUE
      OBVIOUS
    <3>2. Upto(F, S, T, m, n + 1) # {}
      BY <1>0, <3>1, UptoStep
    <3>3. QED
      BY <3>1, <3>2
  <2>3. P \in SUBSET Nat
    OBVIOUS
  <2> HIDE DEF P
  <2>4. QED
    BY <2>1, <2>2, <2>3, Induction
<1>2. ASSUME NEW s \in S PROVE at(s) \in Upto(F, S, T, m, m[s] + 1)
  <2>1. m[s] + 1 \in P
    BY <1>0, <1>1
  <2>2. Upto(F, S, T, m, m[s] + 1) # {}
    BY <2>1
  <2>3. QED
    BY <2>2
<1> HIDE DEF P, at
<1>3. ASSUME NEW s \in S PROVE /\ at(s) \in [S -> T]
                               /\ \A r \in S : m[r] < m[s] + 1 => at(s)[r] = F[<<at(s), r>>]
  BY <1>2 DEF Upto
<1>4. f \in [S -> T]
  BY <1>3
<1>5. ASSUME NEW s \in S PROVE f[s] = F[<<f, s>>]
  <2>1. ASSUME NEW r \in S, m[r] < m[s] PROVE at(s)[r] = f[r]
    <3>1. at(s) \in Upto(F, S, T, m, m[r] + 1)
      <4>1. \A q \in S : m[q] < m[r] + 1 => m[q] < m[s] + 1
        BY <1>0, <2>1
      <4>2. QED
        BY <1>3, <4>1 DEF Upto
    <3>2. \A q \in S : m[q] < m[r] + 1 => at(s)[q] = at(r)[q]
      BY <1>0, <1>2, <2>1, <3>1, UptoAgree
    <3>3. QED
      BY <1>0, <3>2
  <2>2. F[<<at(s), s>>] = F[<<f, s>>]
    BY <1>0, <1>3, <1>4, <2>1 DEF LooksBelow
  <2>3. at(s)[s] = F[<<at(s), s>>]
    <3>1. m[s] < m[s] + 1
      BY <1>0
    <3>2. QED
      BY <1>3, <3>1
  <2>4. QED
    BY <2>2, <2>3
<1>6. QED
  BY <1>4, <1>5 DEF Solutions
--------------------------------------------------------------------------------
(* Flattening.                                                             *)

(* The first i sequences of ss, one after the other.                       *)
Flattens(flat, ss, T) ==
  /\ flat \in [0 .. Len(ss) -> Seq(T)]
  /\ flat[0] = << >>
  /\ \A i \in 1 .. Len(ss) : flat[i] = flat[i - 1] \o ss[i]

LEMMA FlattenSteps ==
  ASSUME NEW T, NEW ss \in Seq(Seq(T))
  PROVE  \E flat : Flattens(flat, ss, T) /\ FlattenSeq(ss) = flat[Len(ss)]
<1> DEFINE S == 1 .. Len(ss)
           m == [i \in S |-> i]
           F == [q \in [S -> Seq(T)] \X S |->
                   IF q[2] = 1 THEN ss[q[2]] ELSE q[1][q[2] - 1] \o ss[q[2]]]
           right(f) == f = [i \in S |-> IF i = 1 THEN ss[i] ELSE f[i - 1] \o ss[i]]
           h == CHOOSE f : right(f)
           flat == [i \in 0 .. Len(ss) |-> IF i = 0 THEN << >> ELSE h[i]]
<1>1. Len(ss) \in Nat /\ \A i \in S : ss[i] \in Seq(T)
  OBVIOUS
<1>2. CASE Len(ss) = 0
  <2>1. ss = << >> /\ FlattenSeq(ss) = << >>
    BY <1>2 DEF FlattenSeq
  <2>2. Flattens([i \in 0 .. 0 |-> << >>], ss, T)
    BY <1>2 DEF Flattens
  <2>3. QED
    BY <1>2, <2>1, <2>2
<1>3. CASE Len(ss) # 0
  <2>1. m \in [S -> Nat] /\ Seq(T) # {}
    <3>1. << >> \in Seq(T)
      OBVIOUS
    <3>2. QED
      BY <1>1, <3>1
  <2>2. F \in [[S -> Seq(T)] \X S -> Seq(T)]
    <3>1. ASSUME NEW q \in [S -> Seq(T)] \X S PROVE F[q] \in Seq(T)
      <4>1. q[1] \in [S -> Seq(T)] /\ q[2] \in S
        OBVIOUS
      <4>2. q[2] # 1 => q[2] - 1 \in S
        BY <1>1, <4>1
      <4>3. q[2] # 1 => q[1][q[2] - 1] \in Seq(T)
        BY <4>1, <4>2
      <4>4. QED
        BY <1>1, <4>1, <4>3, ConcatProperties
    <3>2. QED
      BY <3>1
  <2>3. LooksBelow(F, S, Seq(T), m)
    <3>1. SUFFICES ASSUME NEW f \in [S -> Seq(T)], NEW g \in [S -> Seq(T)], NEW i \in S,
                          \A r \in S : m[r] < m[i] => f[r] = g[r]
                   PROVE  F[<<f, i>>] = F[<<g, i>>]
      BY DEF LooksBelow
    <3>2. i # 1 => i - 1 \in S /\ m[i - 1] < m[i]
      BY <1>1
    <3>3. i # 1 => f[i - 1] = g[i - 1]
      BY <3>1, <3>2
    <3>4. QED
      BY <3>3
  <2>4. PICK f \in Solutions(F, S, Seq(T)) : TRUE
    <3>1. Recursive(F, S, Seq(T), m)
      BY <2>1, <2>2, <2>3 DEF Recursive
    <3> HIDE DEF S, m, F, right, h, flat
    <3>2. Solutions(F, S, Seq(T)) # {}
      BY <3>1, Recursion
    <3>3. QED
      BY <3>2
  <2>5. right(f)
    <3>1. f \in [S -> Seq(T)] /\ \A i \in S : f[i] = F[<<f, i>>]
      BY <2>4 DEF Solutions
    <3>2. \A i \in S : f[i] = IF i = 1 THEN ss[i] ELSE f[i - 1] \o ss[i]
      BY <3>1
    <3>3. QED
      BY <3>1, <3>2
  <2>6. right(h)
    BY <2>5
  <2>7. FlattenSeq(ss) = h[Len(ss)]
    BY <1>3 DEF FlattenSeq
  <2> HIDE DEF h
  <2>8. \A i \in S : h[i] = IF i = 1 THEN ss[i] ELSE h[i - 1] \o ss[i]
    BY <2>6
  <2>9. DOMAIN h = S
    BY <2>6
  <2>10. \A i \in S : h[i] \in Seq(T)
    <3> DEFINE P == {n \in Nat : n \in S => h[n] \in Seq(T)}
    <3>1. 0 \in P
      OBVIOUS
    <3>2. ASSUME NEW n \in P PROVE n + 1 \in P
      <4>1. CASE n = 0
        <5>1. 1 \in S => h[1] = ss[1]
          BY <2>8
        <5>2. QED
          BY <1>1, <4>1, <5>1
      <4>2. CASE n # 0 /\ n + 1 \in S
        <5>1. n \in S /\ h[n] \in Seq(T) /\ n + 1 # 1 /\ (n + 1) - 1 = n
          BY <1>1, <4>2
        <5>2. h[n + 1] = h[n] \o ss[n + 1]
          BY <2>8, <4>2, <5>1
        <5>3. h[n + 1] \in Seq(T)
          BY <1>1, <4>2, <5>1, <5>2, ConcatProperties
        <5>4. QED
          BY <5>3
      <4>3. QED
        BY <4>1, <4>2
    <3>3. P \in SUBSET Nat
      OBVIOUS
    <3> HIDE DEF P
    <3>4. P = Nat
      BY <3>1, <3>2, <3>3, Induction
    <3>5. \A n \in Nat : n \in P
      BY <3>4
    <3>6. QED
      BY <1>1, <3>5 DEF P
  <2>11. flat \in [0 .. Len(ss) -> Seq(T)]
    BY <1>1, <2>10
  <2>12. ASSUME NEW i \in 1 .. Len(ss) PROVE flat[i] = flat[i - 1] \o ss[i]
    <3>1. CASE i = 1
      <4>1. flat[i] = ss[i] /\ flat[i - 1] = << >>
        BY <2>8, <3>1
      <4>2. QED
        BY <1>1, <4>1, ConcatEmptySeq
    <3>2. CASE i # 1
      <4>1. i - 1 \in 0 .. Len(ss) /\ i - 1 # 0 /\ i # 0
        BY <1>1, <3>2
      <4>2. flat[i] = h[i] /\ flat[i - 1] = h[i - 1]
        BY <4>1
      <4>3. QED
        BY <2>8, <3>2, <4>2
    <3>3. QED
      BY <3>1, <3>2
  <2>13. flat[0] = << >> /\ flat[Len(ss)] = h[Len(ss)]
    BY <1>1, <1>3
  <2> HIDE DEF flat
  <2>14. Flattens(flat, ss, T)
    BY <2>11, <2>12, <2>13 DEF Flattens
  <2>15. QED
    BY <2>7, <2>13, <2>14
<1>4. QED
  BY <1>2, <1>3

(* The elements of what is flattened, and that each is there once when     *)
(* the parts are disjoint and have each of theirs once.                    *)
Once(s) == \A i, j \in 1 .. Len(s) : s[i] = s[j] => i = j

Apart(ss) ==
  /\ \A i \in 1 .. Len(ss) : Once(ss[i])
  /\ \A i, j \in 1 .. Len(ss) : i # j => ToSet(ss[i]) \cap ToSet(ss[j]) = {}

LEMMA Concatenated ==
  ASSUME NEW T, NEW s \in Seq(T), NEW t \in Seq(T)
  PROVE  /\ s \o t \in Seq(T) /\ ToSet(s \o t) = ToSet(s) \cup ToSet(t)
         /\ Once(s) /\ Once(t) /\ ToSet(s) \cap ToSet(t) = {} => Once(s \o t)
<1>1. /\ s \o t \in Seq(T) /\ Len(s \o t) = Len(s) + Len(t)
      /\ \A i \in 1 .. Len(s) + Len(t) :
           (s \o t)[i] = IF i <= Len(s) THEN s[i] ELSE t[i - Len(s)]
  BY ConcatProperties
<1>2. /\ ToSet(s) = {s[i] : i \in 1 .. Len(s)} /\ ToSet(t) = {t[i] : i \in 1 .. Len(t)}
      /\ ToSet(s \o t) = {(s \o t)[i] : i \in 1 .. Len(s) + Len(t)}
      /\ Len(s) \in Nat /\ Len(t) \in Nat
  <2> DEFINE u == s \o t
  <2>1. u \in Seq(T) /\ Len(u) = Len(s) + Len(t)
    BY <1>1
  <2> HIDE DEF u
  <2>2. /\ DOMAIN s = 1 .. Len(s) /\ Len(s) \in Nat
        /\ DOMAIN t = 1 .. Len(t) /\ Len(t) \in Nat
        /\ DOMAIN u = 1 .. Len(s) + Len(t)
    BY <2>1
  <2>3. /\ ToSet(s) = {s[i] : i \in DOMAIN s} /\ ToSet(t) = {t[i] : i \in DOMAIN t}
        /\ ToSet(u) = {u[i] : i \in DOMAIN u}
    BY DEF ToSet
  <2>4. QED
    BY <2>2, <2>3, Zenon DEF u
<1>3. ToSet(s) \subseteq ToSet(s \o t)
  <2>1. ASSUME NEW i \in 1 .. Len(s)
        PROVE  i \in 1 .. Len(s) + Len(t) /\ (s \o t)[i] = s[i]
    BY <1>1, <1>2
  <2>2. QED
    BY <1>2, <2>1
<1>4. ToSet(t) \subseteq ToSet(s \o t)
  <2>1. ASSUME NEW i \in 1 .. Len(t)
        PROVE  Len(s) + i \in 1 .. Len(s) + Len(t) /\ (s \o t)[Len(s) + i] = t[i]
    <3>1. Len(s) + i \in 1 .. Len(s) + Len(t) /\ ~(Len(s) + i <= Len(s))
          /\ (Len(s) + i) - Len(s) = i
      BY <1>2
    <3>2. QED
      BY <1>1, <3>1
  <2>2. QED
    BY <1>2, <2>1
<1>5. ASSUME NEW i \in 1 .. Len(s) + Len(t), i > Len(s)
      PROVE  i - Len(s) \in 1 .. Len(t) /\ (s \o t)[i] = t[i - Len(s)]
  BY <1>1, <1>2, <1>5
<1>6. ToSet(s \o t) \subseteq ToSet(s) \cup ToSet(t)
  <2>1. ASSUME NEW i \in 1 .. Len(s) + Len(t) PROVE (s \o t)[i] \in ToSet(s) \cup ToSet(t)
    <3>1. CASE i <= Len(s)
      BY <1>1, <1>2, <3>1
    <3>2. CASE i > Len(s)
      BY <1>2, <1>5, <3>2
    <3>3. QED
      BY <1>2, <3>1, <3>2
  <2>2. QED
    BY <1>2, <2>1
<1>7. ASSUME Once(s), Once(t), ToSet(s) \cap ToSet(t) = {} PROVE Once(s \o t)
  <2>1. SUFFICES ASSUME NEW i \in 1 .. Len(s) + Len(t), NEW j \in 1 .. Len(s) + Len(t),
                        (s \o t)[i] = (s \o t)[j]
                 PROVE  i = j
    BY <1>1 DEF Once
  <2>2. CASE i <= Len(s) /\ j <= Len(s)
    BY <1>1, <1>2, <1>7, <2>1, <2>2 DEF Once
  <2>3. CASE i > Len(s) /\ j > Len(s)
    <3>1. i - Len(s) = j - Len(s)
      BY <1>5, <1>7, <2>1, <2>3 DEF Once
    <3>2. QED
      BY <1>2, <3>1
  <2>4. CASE i <= Len(s) /\ j > Len(s)
    <3>1. s[i] \in ToSet(s) /\ t[j - Len(s)] \in ToSet(t) /\ s[i] = t[j - Len(s)]
      BY <1>1, <1>2, <1>5, <2>1, <2>4
    <3>2. QED
      BY <1>7, <3>1
  <2>5. CASE i > Len(s) /\ j <= Len(s)
    <3>1. s[j] \in ToSet(s) /\ t[i - Len(s)] \in ToSet(t) /\ s[j] = t[i - Len(s)]
      BY <1>1, <1>2, <1>5, <2>1, <2>5
    <3>2. QED
      BY <1>7, <3>1
  <2>6. QED
    BY <1>2, <2>2, <2>3, <2>4, <2>5
<1>8. QED
  BY <1>1, <1>3, <1>4, <1>6, <1>7

LEMMA Flattened ==
  ASSUME NEW T, NEW ss \in Seq(Seq(T))
  PROVE  /\ FlattenSeq(ss) \in Seq(T)
         /\ ToSet(FlattenSeq(ss)) = UNION {ToSet(ss[i]) : i \in 1 .. Len(ss)}
         /\ Apart(ss) => Once(FlattenSeq(ss))
<1>1. PICK flat : Flattens(flat, ss, T) /\ FlattenSeq(ss) = flat[Len(ss)]
  BY FlattenSteps
<1>2. Len(ss) \in Nat /\ \A i \in 1 .. Len(ss) : ss[i] \in Seq(T)
  OBVIOUS
<1>3. /\ \A i \in 0 .. Len(ss) : flat[i] \in Seq(T)
      /\ flat[0] = << >>
      /\ \A i \in 1 .. Len(ss) : flat[i] = flat[i - 1] \o ss[i]
  <2>1. flat \in [0 .. Len(ss) -> Seq(T)]
    BY <1>1 DEF Flattens
  <2>2. \A i \in 0 .. Len(ss) : flat[i] \in Seq(T)
    BY <2>1
  <2>3. QED
    BY <1>1, <2>2 DEF Flattens
<1> DEFINE all(n) == UNION {ToSet(ss[i]) : i \in 1 .. n}
           good(n) == /\ ToSet(flat[n]) = all(n)
                      /\ Apart(ss) => Once(flat[n])
           P == {n \in Nat : n <= Len(ss) => good(n)}
<1>4. good(0)
  <2>1. ToSet(<< >>) = {} /\ Once(<< >>)
    BY DEF ToSet, Once
  <2>2. all(0) = {}
    OBVIOUS
  <2>3. QED
    BY <1>3, <2>1, <2>2
<1>5. ASSUME NEW n \in Nat, n + 1 <= Len(ss), good(n) PROVE good(n + 1)
  <2>1. n \in 0 .. Len(ss) /\ n + 1 \in 1 .. Len(ss) /\ (n + 1) - 1 = n
    BY <1>2, <1>5
  <2>2. flat[n] \in Seq(T) /\ ss[n + 1] \in Seq(T) /\ flat[n + 1] = flat[n] \o ss[n + 1]
    BY <1>2, <1>3, <2>1
  <2>3. all(n + 1) = all(n) \cup ToSet(ss[n + 1])
    <3>1. 1 .. n + 1 = 1 .. n \cup {n + 1}
      BY <2>1
    <3>2. QED
      BY <3>1, Zenon
  <2>4. ASSUME Apart(ss) PROVE all(n) \cap ToSet(ss[n + 1]) = {} /\ Once(ss[n + 1])
    <3>1. \A i \in 1 .. n : i \in 1 .. Len(ss) /\ i # n + 1
      BY <2>1
    <3>2. ASSUME NEW i \in 1 .. n PROVE ToSet(ss[i]) \cap ToSet(ss[n + 1]) = {}
      BY <2>1, <2>4, <3>1 DEF Apart
    <3>3. Once(ss[n + 1])
      BY <2>1, <2>4 DEF Apart
    <3>4. QED
      BY <3>2, <3>3
  <2>5. ToSet(flat[n]) = all(n) /\ (Apart(ss) => Once(flat[n]))
    BY <1>5
  <2> HIDE DEF all
  <2>6. /\ ToSet(flat[n + 1]) = ToSet(flat[n]) \cup ToSet(ss[n + 1])
        /\ Once(flat[n]) /\ Once(ss[n + 1]) /\ ToSet(flat[n]) \cap ToSet(ss[n + 1]) = {}
             => Once(flat[n + 1])
    BY <2>2, Concatenated
  <2>7. QED
    BY <2>3, <2>4, <2>5, <2>6
<1> HIDE DEF good
<1>6. P = Nat
  <2>1. P \in SUBSET Nat /\ 0 \in P
    BY <1>4
  <2>2. ASSUME NEW n \in P PROVE n + 1 \in P
    <3>1. n \in Nat /\ (n + 1 <= Len(ss) => n <= Len(ss))
      BY <1>2
    <3>2. n + 1 <= Len(ss) => good(n + 1)
      BY <1>5, <3>1
    <3>3. QED
      BY <3>1, <3>2
  <2> HIDE DEF P
  <2>3. QED
    BY <2>1, <2>2, Induction
<1>7. good(Len(ss))
  <2>1. Len(ss) \in P
    BY <1>2, <1>6
  <2>2. QED
    BY <1>2, <2>1
<1>8. QED
  BY <1>1, <1>2, <1>3, <1>7 DEF good

LEMMA FlattensAgree ==
  ASSUME NEW T, NEW ss \in Seq(Seq(T)), NEW s \in Seq(T),
         NEW f, Flattens(f, ss, T), NEW g, Flattens(g, Append(ss, s), T)
  PROVE  g[Len(ss) + 1] = f[Len(ss)] \o s
<1> DEFINE more == Append(ss, s)
           P == {n \in Nat : n <= Len(ss) => f[n] = g[n]}
<1>1. Len(ss) \in Nat
  OBVIOUS
<1>2. Len(more) = Len(ss) + 1 /\ more[Len(ss) + 1] = s /\ \A i \in 1 .. Len(ss) : more[i] = ss[i]
  BY AppendProperties
<1>3. /\ f[0] = << >> /\ g[0] = << >>
      /\ \A i \in 1 .. Len(ss) : f[i] = f[i - 1] \o ss[i]
      /\ \A i \in 1 .. Len(ss) + 1 : g[i] = g[i - 1] \o more[i]
  BY <1>2 DEF Flattens
<1> HIDE DEF more
<1>4. P = Nat
  <2>1. P \in SUBSET Nat /\ 0 \in P
    BY <1>3
  <2>2. ASSUME NEW n \in P PROVE n + 1 \in P
    <3>1. SUFFICES ASSUME n + 1 <= Len(ss) PROVE f[n + 1] = g[n + 1]
      OBVIOUS
    <3>2. n + 1 \in 1 .. Len(ss) /\ n + 1 \in 1 .. Len(ss) + 1 /\ (n + 1) - 1 = n /\ f[n] = g[n]
      BY <1>1, <3>1
    <3>3. QED
      BY <1>2, <1>3, <3>2
  <2> HIDE DEF P
  <2>3. QED
    BY <2>1, <2>2, Induction
<1>5. f[Len(ss)] = g[Len(ss)]
  <2>1. Len(ss) \in P
    BY <1>1, <1>4
  <2>2. QED
    BY <1>1, <2>1
<1>6. Len(ss) + 1 \in 1 .. Len(ss) + 1 /\ (Len(ss) + 1) - 1 = Len(ss)
  BY <1>1
<1>7. QED
  BY <1>2, <1>3, <1>5, <1>6

(* What is appended is flattened last.                                     *)
LEMMA FlattenLast ==
  ASSUME NEW T, NEW ss \in Seq(Seq(T)), NEW s \in Seq(T)
  PROVE  FlattenSeq(Append(ss, s)) = FlattenSeq(ss) \o s
<1>1. Append(ss, s) \in Seq(Seq(T)) /\ Len(Append(ss, s)) = Len(ss) + 1
  BY AppendProperties
<1>2. PICK f : Flattens(f, ss, T) /\ FlattenSeq(ss) = f[Len(ss)]
  BY FlattenSteps
<1>3. PICK g : Flattens(g, Append(ss, s), T) /\ FlattenSeq(Append(ss, s)) = g[Len(ss) + 1]
  BY <1>1, FlattenSteps
<1>4. QED
  BY <1>2, <1>3, FlattensAgree

--------------------------------------------------------------------------------
(* Frame ids.                                                              *)

(* The last digit of a number and what is before it.                       *)
Tens(n) == n \div 10
Unit(n) == 48 + (n % 10)
Numeral == 48 .. 57

LEMMA TensAndUnit ==
  ASSUME NEW n \in Nat
  PROVE  /\ Tens(n) \in Nat /\ Unit(n) \in Numeral /\ Unit(n) \in Nat
         /\ n = 10 * Tens(n) + (Unit(n) - 48)
         /\ n < 10 => 48 + n \in Numeral /\ 48 + n \in Nat
         /\ ~(n < 10) => Tens(n) < n
BY DEF Tens, Unit, Numeral

LEMMA DigitsRule ==
  ASSUME NEW n \in Nat
  PROVE  Digits[n] = IF n < 10 THEN <<48 + n>> ELSE Append(Digits[Tens(n)], Unit(n))
<1> DEFINE m == [k \in Nat |-> k]
           V == Seq(Nat)
           rule(f, k) == IF k < 10 THEN <<48 + k>> ELSE Append(f[Tens(k)], Unit(k))
           F == [q \in [Nat -> V] \X Nat |-> rule(q[1], q[2])]
           right(f) == f = [k \in Nat |-> rule(f, k)]
<1>1. V # {} /\ m \in [Nat -> Nat]
  <2>1. << >> \in V
    OBVIOUS
  <2>2. QED
    BY <2>1
<1>2. ASSUME NEW f \in [Nat -> V], NEW k \in Nat PROVE rule(f, k) \in V
  <2>1. CASE k < 10
    <3>1. 48 + k \in Nat
      OBVIOUS
    <3>2. <<48 + k>> \in V
      BY <3>1
    <3>3. QED
      BY <2>1, <3>2
  <2>2. CASE ~(k < 10)
    <3>1. f[Tens(k)] \in V /\ Unit(k) \in Nat
      BY TensAndUnit
    <3>2. Append(f[Tens(k)], Unit(k)) \in V
      BY <3>1, AppendProperties
    <3>3. QED
      BY <2>2, <3>2
  <2>3. QED
    BY <2>1, <2>2
<1>3. ASSUME NEW f \in [Nat -> V], NEW g \in [Nat -> V], NEW k \in Nat,
             \A r \in Nat : m[r] < m[k] => f[r] = g[r]
      PROVE  rule(f, k) = rule(g, k)
  <2>1. ~(k < 10) => f[Tens(k)] = g[Tens(k)]
    BY <1>3, TensAndUnit
  <2>2. QED
    BY <2>1
<1> HIDE DEF V, rule, m
<1>4. F \in [[Nat -> V] \X Nat -> V]
  BY <1>2
<1>5. LooksBelow(F, Nat, V, m)
  BY <1>3 DEF LooksBelow
<1>6. PICK f \in Solutions(F, Nat, V) : TRUE
  <2>1. Recursive(F, Nat, V, m)
    BY <1>1, <1>4, <1>5 DEF Recursive
  <2> HIDE DEF F
  <2>2. Solutions(F, Nat, V) # {}
    BY <2>1, Recursion
  <2>3. QED
    BY <2>2
<1>7. right(f)
  <2>1. f \in [Nat -> V] /\ \A k \in Nat : f[k] = F[<<f, k>>]
    BY <1>6 DEF Solutions
  <2>2. \A k \in Nat : f[k] = rule(f, k)
    BY <2>1
  <2>3. QED
    BY <2>1, <2>2
<1>8. Digits = CHOOSE g : right(g)
  BY DEF Digits, rule, Tens, Unit
<1>9. right(Digits)
  <2> HIDE DEF right
  <2>1. QED
    BY <1>7, <1>8
<1>10. Digits[n] = rule(Digits, n)
  BY <1>9
<1>11. QED
  BY <1>10 DEF rule

(* The digits of a number are digits, one at least, and no other number    *)
(* has the same.                                                           *)
LEMMA DigitsType ==
  ASSUME NEW n \in Nat
  PROVE  Digits[n] \in Seq(Numeral) /\ Digits[n] \in Seq(Nat) /\ Digits[n] # << >>
<1> DEFINE good(k) == Digits[k] \in Seq(Numeral) /\ Digits[k] # << >>
           P == {k \in Nat : good(k)}
<1>1. ASSUME NEW k \in Nat, \A i \in Nat : i < k => i \in P PROVE good(k)
  <2>1. CASE k < 10
    <3>1. Digits[k] = <<48 + k>> /\ 48 + k \in Numeral
      BY <2>1, DigitsRule, TensAndUnit
    <3>2. <<48 + k>> \in Seq(Numeral) /\ <<48 + k>> # << >>
      BY <3>1
    <3>3. QED
      BY <3>1, <3>2
  <2>2. CASE ~(k < 10)
    <3>1. Tens(k) \in Nat /\ Tens(k) < k /\ Unit(k) \in Numeral
      BY <2>2, TensAndUnit
    <3>2. Digits[k] = Append(Digits[Tens(k)], Unit(k))
      BY <2>2, DigitsRule
    <3>3. Digits[Tens(k)] \in Seq(Numeral)
      BY <1>1, <3>1
    <3>4. QED
      BY <3>1, <3>2, <3>3, AppendProperties
  <2>3. QED
    BY <2>1, <2>2
<1> HIDE DEF good
<1>2. P = Nat
  <2>1. P \in SUBSET Nat /\ \A k \in Nat : (\A i \in Nat : i < k => i \in P) => k \in P
    BY <1>1
  <2> HIDE DEF P
  <2>2. QED
    BY <2>1, CourseOfValues
<1>3. Digits[n] \in Seq(Numeral) /\ Digits[n] # << >>
  BY <1>2 DEF good
<1>4. Numeral \subseteq Nat
  BY DEF Numeral
<1>5. Digits[n] \in Seq(Nat)
  <2>1. \A i \in 1 .. Len(Digits[n]) : Digits[n][i] \in Nat
    BY <1>3, <1>4, ElementOfSeq
  <2>2. QED
    BY <1>3, <2>1, SeqMonotonic
<1>6. QED
  BY <1>3, <1>5

LEMMA DigitsLength ==
  ASSUME NEW n \in Nat
  PROVE  Len(Digits[n]) = 1 <=> n < 10
<1>1. CASE n < 10
  <2>1. Digits[n] = <<48 + n>>
    BY <1>1, DigitsRule
  <2>2. QED
    BY <1>1, <2>1
<1>2. CASE ~(n < 10)
  <2>1. Digits[n] = Append(Digits[Tens(n)], Unit(n)) /\ Tens(n) \in Nat /\ Unit(n) \in Nat
    BY <1>2, DigitsRule, TensAndUnit
  <2>2. Digits[Tens(n)] \in Seq(Nat) /\ Digits[Tens(n)] # << >>
    BY <2>1, DigitsType
  <2>3. Len(Digits[Tens(n)]) \in Nat /\ Len(Digits[Tens(n)]) # 0
    BY <2>2
  <2>4. Len(Digits[n]) = Len(Digits[Tens(n)]) + 1
    BY <2>1, <2>2, AppendProperties
  <2>5. QED
    BY <1>2, <2>3, <2>4
<1>3. QED
  BY <1>1, <1>2

LEMMA SameEnds ==
  ASSUME NEW s \in Seq(Nat), NEW t \in Seq(Nat), NEW a \in Nat, NEW b \in Nat,
         Append(s, a) = Append(t, b)
  PROVE  s = t /\ a = b
BY AppendInjective

LEMMA DigitsDiffer ==
  ASSUME NEW n \in Nat, NEW k \in Nat, Digits[n] = Digits[k]
  PROVE  n = k
<1> DEFINE good(i) == \A j \in Nat : Digits[i] = Digits[j] => i = j
           P == {i \in Nat : good(i)}
<1>1. ASSUME NEW i \in Nat, \A r \in Nat : r < i => r \in P PROVE good(i)
  <2>1. SUFFICES ASSUME NEW j \in Nat, Digits[i] = Digits[j] PROVE i = j
    OBVIOUS
  <2>2. i < 10 <=> j < 10
    BY <2>1, DigitsLength
  <2>3. CASE i < 10
    <3>1. Digits[i] = <<48 + i>> /\ Digits[j] = <<48 + j>>
      BY <2>2, <2>3, DigitsRule
    <3>2. 48 + i = 48 + j
      <4>1. Digits[i][1] = 48 + i /\ Digits[j][1] = 48 + j
        BY <3>1
      <4>2. QED
        BY <2>1, <4>1
    <3>3. QED
      BY <3>2
  <2>4. CASE ~(i < 10)
    <3>1. /\ Digits[Tens(i)] \in Seq(Nat) /\ Digits[Tens(j)] \in Seq(Nat)
          /\ Unit(i) \in Nat /\ Unit(j) \in Nat
      BY TensAndUnit, DigitsType
    <3>2. Append(Digits[Tens(i)], Unit(i)) = Append(Digits[Tens(j)], Unit(j))
      BY <2>1, <2>2, <2>4, DigitsRule
    <3>3. Digits[Tens(i)] = Digits[Tens(j)] /\ Unit(i) = Unit(j)
      <4> DEFINE s == Digits[Tens(i)]  t == Digits[Tens(j)]  a == Unit(i)  b == Unit(j)
      <4>1. s \in Seq(Nat) /\ t \in Seq(Nat) /\ a \in Nat /\ b \in Nat
            /\ Append(s, a) = Append(t, b)
        BY <3>1, <3>2
      <4> HIDE DEF s, t, a, b
      <4>2. s = t /\ a = b
        BY <4>1, SameEnds
      <4>3. QED
        BY <4>2 DEF s, t, a, b
    <3>4. Tens(i) \in P /\ Tens(j) \in Nat
      BY <1>1, <2>4, TensAndUnit
    <3>5. Tens(i) = Tens(j)
      BY <3>3, <3>4
    <3>6. i = 10 * Tens(i) + (Unit(i) - 48) /\ j = 10 * Tens(j) + (Unit(j) - 48)
      BY TensAndUnit
    <3>7. QED
      BY <3>3, <3>5, <3>6
  <2>5. QED
    BY <2>3, <2>4
<1> HIDE DEF good
<1>2. P = Nat
  <2>1. P \in SUBSET Nat /\ \A i \in Nat : (\A r \in Nat : r < i => r \in P) => i \in P
    BY <1>1
  <2> HIDE DEF P
  <2>2. QED
    BY <2>1, CourseOfValues
<1>3. good(n)
  BY <1>2
<1>4. QED
  BY <1>3 DEF good

Decimal(n) == Digits[n]

LEMMA DecimalType ==
  ASSUME NEW n \in Nat
  PROVE  Decimal(n) \in Seq(Numeral) /\ Decimal(n) \in Seq(Nat)
BY DigitsType DEF Decimal

LEMMA DecimalDiffers ==
  ASSUME NEW n \in Nat, NEW k \in Nat, Decimal(n) = Decimal(k)
  PROVE  n = k
BY DigitsDiffer DEF Decimal

(* Concatenation of strings.                                               *)
LEMMA Joined ==
  ASSUME NEW s \in Seq(Nat), NEW t \in Seq(Nat)
  PROVE  /\ s \o t \in Seq(Nat) /\ Len(s \o t) = Len(s) + Len(t)
         /\ Len(s) \in Nat /\ Len(t) \in Nat
         /\ \A i \in 1 .. Len(s) : (s \o t)[i] = s[i]
         /\ \A i \in 1 .. Len(t) : (s \o t)[Len(s) + i] = t[i]
<1>1. /\ s \o t \in Seq(Nat) /\ Len(s \o t) = Len(s) + Len(t)
      /\ Len(s) \in Nat /\ Len(t) \in Nat
      /\ \A i \in 1 .. Len(s) + Len(t) :
           (s \o t)[i] = IF i <= Len(s) THEN s[i] ELSE t[i - Len(s)]
  BY ConcatProperties
<1>2. ASSUME NEW i \in 1 .. Len(t) PROVE (s \o t)[Len(s) + i] = t[i]
  <2>1. /\ Len(s) + i \in 1 .. Len(s) + Len(t) /\ ~(Len(s) + i <= Len(s))
        /\ (Len(s) + i) - Len(s) = i
    BY <1>1
  <2>2. QED
    BY <1>1, <2>1
<1>3. QED
  BY <1>1, <1>2

LEMMA Associates ==
  ASSUME NEW s \in Seq(Nat), NEW t \in Seq(Nat), NEW u \in Seq(Nat)
  PROVE  (s \o t) \o u = s \o (t \o u)
BY ConcatAssociative, SMTT(30)

(* An id with a dot at its end is a list of words, each the digits of a    *)
(* number and a dot.                                                       *)
Word(k) == Decimal(k) \o <<Dot>>
Dotted(path) == Id(path) \o <<Dot>>

LEMMA WordType ==
  ASSUME NEW k \in Nat
  PROVE  /\ Word(k) \in Seq(Nat) /\ Len(Word(k)) = Len(Decimal(k)) + 1
         /\ Len(Decimal(k)) \in Nat
         /\ Word(k)[Len(Decimal(k)) + 1] = Dot
         /\ \A i \in 1 .. Len(Decimal(k)) : Word(k)[i] = Decimal(k)[i] /\ Word(k)[i] \in Numeral
<1>1. Decimal(k) \in Seq(Nat) /\ <<Dot>> \in Seq(Nat)
  BY DecimalType DEF Dot
<1>2. \A i \in 1 .. Len(Decimal(k)) : Decimal(k)[i] \in Numeral
  BY DecimalType, ElementOfSeq
<1>3. Len(<<Dot>>) = 1 /\ <<Dot>>[1] = Dot /\ 1 \in 1 .. Len(<<Dot>>)
  OBVIOUS
<1>4. QED
  BY <1>1, <1>2, <1>3, Joined DEF Word

(* No word is the beginning of another.                                    *)
LEMMA WordsDiffer ==
  ASSUME NEW j \in Nat, NEW k \in Nat, NEW s \in Seq(Nat), NEW t \in Seq(Nat),
         Word(j) \o s = Word(k) \o t
  PROVE  j = k
<1> DEFINE a == Len(Decimal(j))  b == Len(Decimal(k))
<1>1. /\ a \in Nat /\ b \in Nat
      /\ \A i \in 1 .. a + 1 : (Word(j) \o s)[i] = Word(j)[i]
      /\ \A i \in 1 .. b + 1 : (Word(k) \o t)[i] = Word(k)[i]
  <2>1. Word(j) \in Seq(Nat) /\ Len(Word(j)) = a + 1 /\ a \in Nat
    BY WordType
  <2>2. Word(k) \in Seq(Nat) /\ Len(Word(k)) = b + 1 /\ b \in Nat
    BY WordType
  <2>3. \A i \in 1 .. a + 1 : (Word(j) \o s)[i] = Word(j)[i]
    <3>1. \A i \in 1 .. Len(Word(j)) : (Word(j) \o s)[i] = Word(j)[i]
      BY <2>1, Joined, Zenon
    <3>2. QED
      BY <2>1, <3>1, Zenon
  <2>4. \A i \in 1 .. b + 1 : (Word(k) \o t)[i] = Word(k)[i]
    <3>1. \A i \in 1 .. Len(Word(k)) : (Word(k) \o t)[i] = Word(k)[i]
      BY <2>2, Joined, Zenon
    <3>2. QED
      BY <2>2, <3>1, Zenon
  <2>5. QED
    BY <2>1, <2>2, <2>3, <2>4
<1>2. /\ Word(j)[a + 1] = Dot /\ Word(k)[b + 1] = Dot
      /\ \A i \in 1 .. a : Word(j)[i] = Decimal(j)[i] /\ Word(j)[i] \in Numeral
      /\ \A i \in 1 .. b : Word(k)[i] = Decimal(k)[i] /\ Word(k)[i] \in Numeral
  BY WordType
<1>3. Dot \notin Numeral
  BY DEF Dot, Numeral
<1>4. \A i \in 1 .. a + 1 : i \in 1 .. b + 1 => Word(j)[i] = Word(k)[i]
  BY <1>1
<1> HIDE DEF a, b
<1>5. ~(a < b)
  <2>1. SUFFICES ASSUME a < b PROVE FALSE
    OBVIOUS
  <2>2. a + 1 \in 1 .. a + 1 /\ a + 1 \in 1 .. b + 1 /\ a + 1 \in 1 .. b
    BY <1>1, <2>1
  <2>3. QED
    BY <1>2, <1>3, <1>4, <2>2
<1>6. ~(b < a)
  <2>1. SUFFICES ASSUME b < a PROVE FALSE
    OBVIOUS
  <2>2. b + 1 \in 1 .. a + 1 /\ b + 1 \in 1 .. b + 1 /\ b + 1 \in 1 .. a
    BY <1>1, <2>1
  <2>3. QED
    BY <1>2, <1>3, <1>4, <2>2
<1>7. a = b
  BY <1>1, <1>5, <1>6
<1>8. ASSUME NEW i \in 1 .. a PROVE Decimal(j)[i] = Decimal(k)[i]
  <2>1. i \in 1 .. a + 1 /\ i \in 1 .. b + 1 /\ i \in 1 .. b
    BY <1>1, <1>7
  <2>2. QED
    BY <1>2, <1>4, <2>1
<1>9. Decimal(j) \in Seq(Nat) /\ Decimal(k) \in Seq(Nat)
  BY DecimalType
<1>10. Decimal(j) = Decimal(k)
  BY <1>7, <1>8, <1>9, SeqEqual DEF a, b
<1>11. QED
  BY <1>10, DecimalDiffers

(* Parts are flattened to make an id.                                      *)
Part(k) == <<Dot>> \o Decimal(k)
Parts(path) == [n \in DOMAIN path |-> Part(path[n])]

LEMMA PartType ==
  ASSUME NEW k \in Nat
  PROVE  Part(k) \in Seq(Nat) /\ Part(k)[1] = Dot /\ Len(Part(k)) = Len(Decimal(k)) + 1
<1>1. Decimal(k) \in Seq(Nat) /\ <<Dot>> \in Seq(Nat)
  BY DecimalType DEF Dot
<1>2. QED
  BY <1>1, ConcatProperties DEF Part

LEMMA PartsType ==
  ASSUME NEW path \in Seq(Nat)
  PROVE  Parts(path) \in Seq(Seq(Nat)) /\ Len(Parts(path)) = Len(path)
<1>1. DOMAIN path = 1 .. Len(path) /\ Len(path) \in Nat
  OBVIOUS
<1>2. \A n \in 1 .. Len(path) : Part(path[n]) \in Seq(Nat)
  BY PartType, ElementOfSeq
<1>3. QED
  BY <1>1, <1>2 DEF Parts

LEMMA IdType ==
  ASSUME NEW path \in Seq(Nat)
  PROVE  Id(path) \in Seq(Nat)
<1>1. Id(path) = FlattenSeq(Parts(path))
  BY DEF Id, Parts, Part, Decimal
<1>2. QED
  BY <1>1, PartsType, Flattened

LEMMA IdOfRoot == Id(<< >>) = << >>
<1>1. [n \in DOMAIN << >> |-> <<Dot>> \o Decimal(<< >>[n])] = << >>
  OBVIOUS
<1>2. FlattenSeq(<< >>) = << >>
  BY DEF FlattenSeq
<1>3. QED
  BY <1>1, <1>2 DEF Id, Decimal

LEMMA IdLast ==
  ASSUME NEW path \in Seq(Nat), NEW k \in Nat
  PROVE  Id(Append(path, k)) = Id(path) \o Part(k)
<1>1. /\ Append(path, k) \in Seq(Nat) /\ Len(Append(path, k)) = Len(path) + 1
      /\ \A i \in 1 .. Len(path) : Append(path, k)[i] = path[i]
      /\ Append(path, k)[Len(path) + 1] = k
  BY AppendProperties
<1>2. /\ Id(Append(path, k)) = FlattenSeq(Parts(Append(path, k)))
      /\ Id(path) = FlattenSeq(Parts(path))
  BY DEF Id, Parts, Part, Decimal
<1>3. Parts(path) \in Seq(Seq(Nat)) /\ Part(k) \in Seq(Nat) /\ Len(Parts(path)) = Len(path)
  BY PartsType, PartType
<1>4. Parts(Append(path, k)) = Append(Parts(path), Part(k))
  <2>1. /\ Parts(Append(path, k)) \in Seq(Seq(Nat))
        /\ Len(Parts(Append(path, k))) = Len(path) + 1
    BY <1>1, PartsType
  <2>2. /\ Append(Parts(path), Part(k)) \in Seq(Seq(Nat))
        /\ Len(Append(Parts(path), Part(k))) = Len(path) + 1
        /\ \A i \in 1 .. Len(path) : Append(Parts(path), Part(k))[i] = Parts(path)[i]
        /\ Append(Parts(path), Part(k))[Len(path) + 1] = Part(k)
    BY <1>3, AppendProperties
  <2>3. Len(path) \in Nat
    OBVIOUS
  <2>4. ASSUME NEW i \in 1 .. Len(path) + 1
        PROVE  Parts(Append(path, k))[i] = Append(Parts(path), Part(k))[i]
    <3>1. i \in DOMAIN Append(path, k)
      BY <1>1
    <3>2. Parts(Append(path, k))[i] = Part(Append(path, k)[i])
      BY <3>1 DEF Parts
    <3>3. CASE i = Len(path) + 1
      BY <1>1, <2>2, <3>2, <3>3
    <3>4. CASE i # Len(path) + 1
      <4>1. i \in 1 .. Len(path) /\ i \in DOMAIN path
        BY <2>3, <3>4
      <4>2. Parts(path)[i] = Part(path[i])
        BY <4>1 DEF Parts
      <4>3. QED
        BY <1>1, <2>2, <3>2, <4>1, <4>2
    <3>5. QED
      BY <3>3, <3>4
  <2>5. QED
    BY <2>1, <2>2, <2>4, SeqEqual
<1>5. QED
  BY <1>2, <1>3, <1>4, FlattenLast

LEMMA DottedType ==
  ASSUME NEW path \in Seq(Nat)
  PROVE  /\ Dotted(path) \in Seq(Nat) /\ Len(Dotted(path)) = Len(Id(path)) + 1
         /\ Dotted(path) = Append(Id(path), Dot)
<1>1. Id(path) \in Seq(Nat) /\ Dot \in Nat /\ <<Dot>> \in Seq(Nat)
  BY IdType DEF Dot
<1>2. QED
  BY <1>1, ConcatProperties, AppendIsConcat DEF Dotted

LEMMA DottedLast ==
  ASSUME NEW path \in Seq(Nat), NEW k \in Nat
  PROVE  /\ Id(Append(path, k)) = Dotted(path) \o Decimal(k)
         /\ Dotted(Append(path, k)) = Dotted(path) \o Word(k)
<1>1. Id(path) \in Seq(Nat) /\ <<Dot>> \in Seq(Nat) /\ Decimal(k) \in Seq(Nat)
  BY IdType, DecimalType DEF Dot
<1>2. Id(Append(path, k)) = Id(path) \o (<<Dot>> \o Decimal(k))
  BY IdLast DEF Part
<1>3. Id(Append(path, k)) = Dotted(path) \o Decimal(k)
  BY <1>1, <1>2, Associates DEF Dotted
<1>4. Dotted(path) \in Seq(Nat)
  BY DottedType
<1>5. (Dotted(path) \o Decimal(k)) \o <<Dot>> = Dotted(path) \o (Decimal(k) \o <<Dot>>)
  BY <1>1, <1>4, Associates
<1>6. QED
  BY <1>3, <1>5 DEF Dotted, Word

(* The same for an operator that hides what a concatenation is.            *)
Cat(s, t) == s \o t

LEMMA CatType ==
  ASSUME NEW s \in Seq(Nat), NEW t \in Seq(Nat)
  PROVE  /\ Cat(s, t) \in Seq(Nat) /\ Len(Cat(s, t)) = Len(s) + Len(t)
         /\ Len(s) \in Nat /\ Len(t) \in Nat
         /\ \A i \in 1 .. Len(t) : Cat(s, t)[Len(s) + i] = t[i]
BY Joined DEF Cat

LEMMA CatAssociates ==
  ASSUME NEW s \in Seq(Nat), NEW t \in Seq(Nat), NEW u \in Seq(Nat)
  PROVE  Cat(Cat(s, t), u) = Cat(s, Cat(t, u))
BY Associates DEF Cat

LEMMA Cancels ==
  ASSUME NEW s \in Seq(Nat), NEW t \in Seq(Nat), NEW u \in Seq(Nat), Cat(s, t) = Cat(s, u)
  PROVE  t = u
<1>1. /\ Len(Cat(s, t)) = Len(s) + Len(t) /\ Len(s) \in Nat /\ Len(t) \in Nat
      /\ \A i \in 1 .. Len(t) : Cat(s, t)[Len(s) + i] = t[i]
  BY CatType
<1>2. /\ Len(Cat(s, u)) = Len(s) + Len(u) /\ Len(u) \in Nat
      /\ \A i \in 1 .. Len(u) : Cat(s, u)[Len(s) + i] = u[i]
  BY CatType
<1>3. Len(t) = Len(u)
  BY <1>1, <1>2
<1>4. \A i \in 1 .. Len(t) : t[i] = u[i]
  BY <1>1, <1>2, <1>3
<1>5. QED
  BY <1>3, <1>4, SeqEqual

LEMMA DottedCat ==
  ASSUME NEW path \in Seq(Nat), NEW k \in Nat
  PROVE  /\ Dotted(Append(path, k)) = Cat(Dotted(path), Word(k))
         /\ Id(Append(path, k)) = Cat(Dotted(path), Decimal(k))
BY DottedLast DEF Cat

--------------------------------------------------------------------------------
(* Paths: one frame is above another, or is that frame.                    *)
Above(p, q) == Len(p) <= Len(q) /\ \A i \in 1 .. Len(p) : p[i] = q[i]

LEMMA PathEmptyOrAppend ==
  ASSUME NEW p \in Seq(Nat), p # << >>
  PROVE  \E q \in Seq(Nat), k \in Nat : p = Append(q, k) /\ Len(p) = Len(q) + 1
<1>1. PICK q \in Seq(Nat), k \in Nat : p = Append(q, k)
  BY SequenceEmptyOrAppend
<1>2. Len(p) = Len(q) + 1
  BY <1>1, AppendProperties
<1>3. QED
  BY <1>1, <1>2

LEMMA Longer ==
  ASSUME NEW q \in Seq(Nat), NEW k \in Nat
  PROVE  /\ Append(q, k) \in Seq(Nat) /\ Len(Append(q, k)) = Len(q) + 1
         /\ Append(q, k)[Len(q) + 1] = k
         /\ Len(q) \in Nat
         /\ \A i \in 1 .. Len(q) : Append(q, k)[i] = q[i]
         /\ Append(q, k) # << >>
BY AppendProperties

LEMMA AboveLast ==
  ASSUME NEW p \in Seq(Nat), NEW q \in Seq(Nat), NEW k \in Nat
  PROVE  Above(p, Append(q, k)) <=> (p = Append(q, k) \/ Above(p, q))
<1> DEFINE r == Append(q, k)
<1>1. /\ r \in Seq(Nat) /\ Len(r) = Len(q) + 1 /\ Len(q) \in Nat /\ Len(p) \in Nat
      /\ \A i \in 1 .. Len(q) : r[i] = q[i]
  BY Longer
<1> HIDE DEF r
<1>2. ASSUME Above(p, r), p # r PROVE Above(p, q)
  <2>1. Len(p) # Len(r)
    BY <1>1, <1>2, SeqEqual DEF Above
  <2>2. Len(p) <= Len(q)
    BY <1>1, <1>2, <2>1 DEF Above
  <2>3. ASSUME NEW i \in 1 .. Len(p) PROVE p[i] = q[i]
    <3>1. i \in 1 .. Len(q)
      BY <1>1, <2>2
    <3>2. QED
      BY <1>1, <1>2, <3>1 DEF Above
  <2>4. QED
    BY <2>2, <2>3 DEF Above
<1>3. ASSUME Above(p, q) PROVE Above(p, r)
  <2>1. Len(p) <= Len(q)
    BY <1>3 DEF Above
  <2>2. ASSUME NEW i \in 1 .. Len(p) PROVE p[i] = r[i]
    <3>1. i \in 1 .. Len(q)
      BY <1>1, <2>1
    <3>2. QED
      BY <1>1, <1>3, <3>1 DEF Above
  <2>3. QED
    BY <1>1, <2>1, <2>2 DEF Above
<1>4. p = r => Above(p, r)
  BY <1>1 DEF Above
<1>5. QED
  BY <1>2, <1>3, <1>4 DEF r

(* The dotted id of a frame begins with those of the frames above it ...   *)
LEMMA BelowBegins ==
  ASSUME NEW p \in Seq(Nat), NEW q \in Seq(Nat), Above(p, q)
  PROVE  \E r \in Seq(Nat) : Dotted(q) = Cat(Dotted(p), r)
<1> DEFINE begins(t) == \E r \in Seq(Nat) : Dotted(t) = Cat(Dotted(p), r)
           P == {n \in Nat : \A t \in Seq(Nat) : Len(t) = n /\ Above(p, t) => begins(t)}
<1>1. begins(p)
  <2>1. Dotted(p) \in Seq(Nat) /\ << >> \in Seq(Nat)
    BY DottedType
  <2>2. Dotted(p) = Cat(Dotted(p), << >>)
    BY <2>1, ConcatEmptySeq DEF Cat
  <2>3. QED
    BY <2>1, <2>2
<1>2. ASSUME NEW t \in Seq(Nat), NEW k \in Nat, begins(t) PROVE begins(Append(t, k))
  <2>1. PICK r \in Seq(Nat) : Dotted(t) = Cat(Dotted(p), r)
    BY <1>2
  <2>2. Dotted(p) \in Seq(Nat) /\ Word(k) \in Seq(Nat)
    BY DottedType, WordType
  <2>3. Dotted(Append(t, k)) = Cat(Cat(Dotted(p), r), Word(k))
    BY <2>1, DottedCat
  <2>4. Dotted(Append(t, k)) = Cat(Dotted(p), Cat(r, Word(k))) /\ Cat(r, Word(k)) \in Seq(Nat)
    BY <2>2, <2>3, CatAssociates, CatType
  <2>5. QED
    BY <2>4
<1> HIDE DEF begins
<1>3. ASSUME NEW n \in Nat, \A i \in Nat : i < n => i \in P PROVE n \in P
  <2>1. SUFFICES ASSUME NEW t \in Seq(Nat), Len(t) = n, Above(p, t) PROVE begins(t)
    OBVIOUS
  <2>2. CASE t = p
    BY <1>1, <2>2
  <2>3. CASE t # p /\ t = << >>
    <3>1. Len(p) <= 0
      BY <2>1, <2>3 DEF Above
    <3>2. p = << >>
      BY <3>1
    <3>3. QED
      BY <2>3, <3>2
  <2>4. CASE t # p /\ t # << >>
    <3>1. PICK s \in Seq(Nat), k \in Nat : t = Append(s, k) /\ Len(t) = Len(s) + 1
      BY <2>4, PathEmptyOrAppend
    <3>2. Above(p, s)
      BY <2>1, <2>4, <3>1, AboveLast
    <3>3. Len(s) \in Nat /\ Len(s) < n
      BY <2>1, <3>1
    <3>4. begins(s)
      BY <1>3, <3>2, <3>3
    <3>5. QED
      BY <1>2, <3>1, <3>4
  <2>5. QED
    BY <2>2, <2>3, <2>4
<1>4. P = Nat
  <2>1. P \in SUBSET Nat
    OBVIOUS
  <2> HIDE DEF P
  <2>2. QED
    BY <1>3, <2>1, CourseOfValues
<1>5. Len(q) \in P
  BY <1>4
<1>6. QED
  BY <1>5 DEF begins

(* ... and with no other.                                                  *)
LEMMA BeginsBelow ==
  ASSUME NEW p \in Seq(Nat), NEW q \in Seq(Nat), NEW r \in Seq(Nat),
         Dotted(q) = Cat(Dotted(p), r)
  PROVE  Above(p, q)
<1> DEFINE P == {n \in Nat : \A s \in Seq(Nat) : \A u \in Seq(Nat) :
                               Len(s) = n /\ Dotted(q) = Cat(Dotted(s), u) => Above(s, q)}
<1>1. ASSUME NEW n \in Nat, \A i \in Nat : i < n => i \in P PROVE n \in P
  <2>1. SUFFICES ASSUME NEW s \in Seq(Nat), NEW u \in Seq(Nat), Len(s) = n,
                        Dotted(q) = Cat(Dotted(s), u)
                 PROVE  Above(s, q)
    OBVIOUS
  <2>2. CASE s = << >>
    BY <2>2 DEF Above
  <2>3. CASE s # << >>
    <3>1. PICK t \in Seq(Nat), k \in Nat : s = Append(t, k) /\ Len(s) = Len(t) + 1
      BY <2>3, PathEmptyOrAppend
    <3>2. /\ Dotted(t) \in Seq(Nat) /\ Word(k) \in Seq(Nat) /\ Dotted(q) \in Seq(Nat)
          /\ Cat(Word(k), u) \in Seq(Nat) /\ Len(Word(k)) > 0
      <4>1. Dotted(t) \in Seq(Nat) /\ Word(k) \in Seq(Nat) /\ Dotted(q) \in Seq(Nat)
        BY DottedType, WordType
      <4>2. Len(Word(k)) = Len(Decimal(k)) + 1 /\ Len(Decimal(k)) \in Nat
        BY WordType
      <4>3. QED
        BY <4>1, <4>2, CatType
    <3>3. Dotted(q) = Cat(Cat(Dotted(t), Word(k)), u)
      BY <2>1, <3>1, DottedCat
    <3>4. Dotted(q) = Cat(Dotted(t), Cat(Word(k), u))
      BY <3>2, <3>3, CatAssociates
    <3>5. Len(t) \in Nat /\ Len(t) < n
      BY <2>1, <3>1
    <3>6. Above(t, q)
      BY <1>1, <3>2, <3>4, <3>5
    <3>7. Len(Dotted(q)) = Len(Dotted(t)) + (Len(Word(k)) + Len(u)) /\ Len(u) \in Nat
          /\ Len(Word(k)) \in Nat /\ Len(Dotted(t)) \in Nat
      <4>1. Len(Cat(Word(k), u)) = Len(Word(k)) + Len(u) /\ Len(u) \in Nat /\ Len(Word(k)) \in Nat
        BY <3>2, CatType
      <4>2. /\ Len(Cat(Dotted(t), Cat(Word(k), u))) = Len(Dotted(t)) + Len(Cat(Word(k), u))
            /\ Len(Dotted(t)) \in Nat
        BY <3>2, CatType
      <4>3. QED
        BY <3>4, <4>1, <4>2
    <3>8. t # q
      BY <3>2, <3>7
    <3>9. Len(t) < Len(q)
      <4>1. Len(t) # Len(q)
        BY <3>6, <3>8, SeqEqual DEF Above
      <4>2. QED
        BY <3>6, <4>1 DEF Above
    <3>10. Len(t) + 1 \in 1 .. Len(q) /\ q[Len(t) + 1] \in Nat
      BY <3>9
    <3> DEFINE j == q[Len(t) + 1]
    <3> HIDE DEF j
    <3>11. j \in Nat
      BY <3>10 DEF j
    <3>12. Above(Append(t, j), q)
      <4>1. /\ Len(Append(t, j)) = Len(t) + 1 /\ Append(t, j)[Len(t) + 1] = j
            /\ \A i \in 1 .. Len(t) : Append(t, j)[i] = t[i]
        BY <3>11, Longer
      <4>2. ASSUME NEW i \in 1 .. Len(t) + 1 PROVE Append(t, j)[i] = q[i]
        <5>1. CASE i = Len(t) + 1
          BY <4>1, <5>1 DEF j
        <5>2. CASE i # Len(t) + 1
          <6>1. i \in 1 .. Len(t)
            BY <3>5, <5>2
          <6>2. QED
            BY <3>6, <4>1, <6>1 DEF Above
        <5>3. QED
          BY <5>1, <5>2
      <4>3. QED
        BY <3>10, <4>1, <4>2 DEF Above
    <3>13. PICK w \in Seq(Nat) : Dotted(q) = Cat(Dotted(Append(t, j)), w)
      BY <3>11, <3>12, BelowBegins, Longer
    <3>14. Dotted(q) = Cat(Dotted(t), Cat(Word(j), w)) /\ Cat(Word(j), w) \in Seq(Nat)
      <4>1. Word(j) \in Seq(Nat)
        BY <3>11, WordType
      <4>2. Dotted(q) = Cat(Cat(Dotted(t), Word(j)), w)
        BY <3>11, <3>13, DottedCat
      <4>3. QED
        BY <3>2, <4>1, <4>2, CatAssociates, CatType
    <3>15. Cat(Word(j), w) = Cat(Word(k), u)
      <4>1. Cat(Dotted(t), Cat(Word(j), w)) = Cat(Dotted(t), Cat(Word(k), u))
        BY <3>4, <3>14
      <4> DEFINE x == Cat(Word(j), w)  y == Cat(Word(k), u)  z == Dotted(t)
      <4>2. x \in Seq(Nat) /\ y \in Seq(Nat) /\ z \in Seq(Nat) /\ Cat(z, x) = Cat(z, y)
        BY <3>2, <3>14, <4>1
      <4> HIDE DEF x, y, z
      <4>3. x = y
        BY <4>2, Cancels
      <4>4. QED
        BY <4>3 DEF x, y
    <3>16. j = k
      BY <3>11, <3>15, WordsDiffer DEF Cat
    <3>17. QED
      BY <3>1, <3>12, <3>16
  <2>4. QED
    BY <2>2, <2>3
<1>2. P = Nat
  <2>1. P \in SUBSET Nat
    OBVIOUS
  <2> HIDE DEF P
  <2>2. QED
    BY <1>1, <2>1, CourseOfValues
<1>3. Len(p) \in P
  <2>1. Len(p) \in Nat
    OBVIOUS
  <2> HIDE DEF P
  <2>2. QED
    BY <1>2, <2>1
<1>4. QED
  BY <1>3

LEMMA IsPrefixOf ==
  ASSUME NEW s \in Seq(Nat), NEW t \in Seq(Nat)
  PROVE  IsPrefix(s, t) <=> \E r \in Seq(Nat) : t = Cat(s, r)
<1>1. Len(s) \in Nat /\ Len(t) \in Nat
  OBVIOUS
<1>2. SubSeq(s, 1, Len(s)) = s /\ SubSeq(t, 1, Len(t)) = t
  BY SubSeqFull
<1>3. ASSUME IsPrefix(s, t) PROVE \E r \in Seq(Nat) : t = Cat(s, r)
  <2>1. Len(s) <= Len(t) /\ s = SubSeq(t, 1, Len(s))
    BY <1>2, <1>3 DEF IsPrefix
  <2>2. SubSeq(t, Len(s) + 1, Len(t)) \in Seq(Nat)
    BY <1>1, <2>1, SubSeqProperties
  <2>3. SubSeq(t, 1, Len(s)) \o SubSeq(t, Len(s) + 1, Len(t)) = SubSeq(t, 1, Len(t))
    <3> DEFINE k == Len(s)  n == Len(t)
    <3>1. k \in Nat /\ n \in Nat /\ k <= n
      BY <1>1, <2>1
    <3>2. 1 \in 1 .. n + 1 /\ k \in 1 - 1 .. n /\ n \in k .. n
      BY <3>1
    <3>3. 1 \in 1 .. Len(t) + 1 /\ k \in 1 - 1 .. Len(t) /\ n \in k .. Len(t)
      BY <3>2
    <3> HIDE DEF k, n
    <3>4. SubSeq(t, 1, k) \o SubSeq(t, k + 1, n) = SubSeq(t, 1, n)
      BY <3>3, ConcatAdjacentSubSeq
    <3>5. QED
      BY <3>4 DEF k, n
  <2>4. t = Cat(s, SubSeq(t, Len(s) + 1, Len(t)))
    BY <1>2, <2>1, <2>3 DEF Cat
  <2>5. QED
    BY <2>2, <2>4
<1>4. ASSUME NEW r \in Seq(Nat), t = Cat(s, r) PROVE IsPrefix(s, t)
  <2>1. Len(t) = Len(s) + Len(r) /\ Len(r) \in Nat
    BY <1>4, CatType
  <2>2. SubSeq(s \o r, 1, Len(s)) = SubSeq(s, 1, Len(s))
    BY <1>1, SubSeqOfConcat1
  <2>3. QED
    BY <1>1, <1>4, <2>1, <2>2 DEF IsPrefix, Cat
<1>5. QED
  BY <1>3, <1>4

LEMMA AboveEachOther ==
  ASSUME NEW p \in Seq(Nat), NEW q \in Seq(Nat), Above(p, q), Above(q, p)
  PROVE  p = q
<1>1. Len(p) = Len(q)
  BY DEF Above
<1>2. QED
  BY <1>1, SeqEqual DEF Above

(* No two frames have the same id.                                         *)
LEMMA IdsDiffer ==
  ASSUME NEW p \in Seq(Nat), NEW q \in Seq(Nat), Id(p) = Id(q)
  PROVE  p = q
<1>1. Dotted(p) = Dotted(q) /\ Dotted(p) \in Seq(Nat) /\ << >> \in Seq(Nat)
  BY DottedType DEF Dotted
<1>2. Dotted(q) = Cat(Dotted(p), << >>) /\ Dotted(p) = Cat(Dotted(q), << >>)
  BY <1>1, ConcatEmptySeq DEF Cat
<1>3. Above(p, q) /\ Above(q, p)
  BY <1>1, <1>2, BeginsBelow
<1>4. QED
  BY <1>3, AboveEachOther

(* The test on ids finds the frames below a frame, and no others.          *)
LEMMA PrefixIsBelow ==
  ASSUME NEW p \in Seq(Nat), NEW q \in Seq(Nat)
  PROVE  (Id(q) = Id(p) \/ IsPrefix(Append(Id(p), Dot), Id(q))) <=> Above(p, q)
<1>1. /\ Dotted(p) = Append(Id(p), Dot) /\ Dotted(p) \in Seq(Nat) /\ Id(q) \in Seq(Nat)
  BY DottedType, IdType
<1>2. IsPrefix(Append(Id(p), Dot), Id(q)) <=> \E r \in Seq(Nat) : Id(q) = Cat(Dotted(p), r)
  BY <1>1, IsPrefixOf
<1>3. Id(q) = Id(p) => Above(p, q)
  <2>1. Above(p, p)
    BY DEF Above
  <2>2. QED
    BY <2>1, IdsDiffer
<1>4. ASSUME NEW r \in Seq(Nat), Id(q) = Cat(Dotted(p), r) PROVE Above(p, q)
  <2>1. <<Dot>> \in Seq(Nat)
    BY DEF Dot
  <2>2. Dotted(q) = Cat(Cat(Dotted(p), r), <<Dot>>)
    BY <1>4 DEF Dotted, Cat
  <2>3. Dotted(q) = Cat(Dotted(p), Cat(r, <<Dot>>))
    <3> HIDE DEF Dot
    <3>1. QED
      <4> DEFINE d == <<Dot>>  u == Dotted(p)
      <4>1. u \in Seq(Nat) /\ d \in Seq(Nat)
        BY <1>1, <2>1
      <4> HIDE DEF d, u
      <4>2. Cat(Cat(u, r), d) = Cat(u, Cat(r, d))
        BY <4>1, CatAssociates
      <4>3. QED
        BY <2>2, <4>2, Zenon DEF d, u
  <2>4. Cat(r, <<Dot>>) \in Seq(Nat)
    BY <2>1, CatType
  <2>5. QED
    BY <2>3, <2>4, BeginsBelow
<1>5. ASSUME Above(p, q), p # q PROVE \E r \in Seq(Nat) : Id(q) = Cat(Dotted(p), r)
  <2>1. q # << >>
    <3>1. SUFFICES ASSUME q = << >> PROVE FALSE
      OBVIOUS
    <3>2. Above(q, p)
      BY <3>1 DEF Above
    <3>3. QED
      BY <1>5, <3>2, AboveEachOther
  <2>2. PICK s \in Seq(Nat), k \in Nat : q = Append(s, k)
    BY <2>1, PathEmptyOrAppend
  <2>3. Above(p, s)
    BY <1>5, <2>2, AboveLast
  <2>4. PICK r \in Seq(Nat) : Dotted(s) = Cat(Dotted(p), r)
    BY <2>3, BelowBegins
  <2>5. Decimal(k) \in Seq(Nat)
    BY DecimalType
  <2>6. Id(q) = Cat(Cat(Dotted(p), r), Decimal(k))
    BY <2>2, <2>4, DottedCat
  <2>7. Id(q) = Cat(Dotted(p), Cat(r, Decimal(k)))
    <3>1. Dotted(p) \in Seq(Nat)
      BY <1>1
    <3>2. Cat(Cat(Dotted(p), r), Decimal(k)) = Cat(Dotted(p), Cat(r, Decimal(k)))
      BY <2>5, <3>1, CatAssociates
    <3>3. QED
      BY <2>6, <3>2, Zenon
  <2>8. Cat(r, Decimal(k)) \in Seq(Nat)
    BY <2>5, CatType
  <2>9. QED
    BY <2>7, <2>8
<1>6. QED
  BY <1>2, <1>3, <1>4, <1>5

LEMMA ParentIs ==
  ASSUME NEW p \in Seq(Nat), NEW k \in Nat
  PROVE  ParentId(Append(p, k)) = Id(p) /\ Front(Append(p, k)) = p
<1>1. /\ Append(p, k) # << >> /\ Append(p, k) \in Seq(Nat) /\ Len(Append(p, k)) = Len(p) + 1
      /\ Len(p) \in Nat
      /\ \A i \in 1 .. Len(p) : Append(p, k)[i] = p[i]
  BY Longer
<1>2. Front(Append(p, k)) = p
  <2>1. Front(Append(p, k)) = SubSeq(Append(p, k), 1, Len(p))
    BY <1>1 DEF Front
  <2>2. /\ SubSeq(Append(p, k), 1, Len(p)) \in Seq(Nat)
        /\ Len(SubSeq(Append(p, k), 1, Len(p))) = Len(p)
        /\ \A i \in 1 .. Len(p) : SubSeq(Append(p, k), 1, Len(p))[i] = Append(p, k)[i]
    BY <1>1
  <2>3. QED
    BY <1>1, <2>1, <2>2, SeqEqual
<1>3. QED
  BY <1>1, <1>2 DEF ParentId

LEMMA NoIdIsNone ==
  ASSUME NEW p \in Seq(Nat)
  PROVE  Id(p) # NoId
<1>1. CASE p = << >>
  BY <1>1, IdOfRoot DEF NoId
<1>2. CASE p # << >>
  <2>1. SUFFICES ASSUME Id(p) = NoId PROVE FALSE
    OBVIOUS
  <2>2. Above(<< >>, p)
    BY DEF Above
  <2>3. << >> \in Seq(Nat)
    OBVIOUS
  <2>4. Id(<< >>) # Id(p)
    BY <1>2, <2>3, IdsDiffer
  <2>5. IsPrefix(Append(Id(<< >>), Dot), Id(p))
    BY <2>2, <2>3, <2>4, PrefixIsBelow
  <2>6. Append(<< >>, Dot) = <<Dot>>
    OBVIOUS
  <2>7. IsPrefix(<<Dot>>, <<0>>)
    BY <2>1, <2>5, <2>6, IdOfRoot DEF NoId
  <2>8. <<Dot>> \in Seq(Nat) /\ <<0>> \in Seq(Nat)
    BY DEF Dot
  <2>9. PICK r \in Seq(Nat) : <<0>> = Cat(<<Dot>>, r)
    BY <2>7, <2>8, IsPrefixOf
  <2>10. Cat(<<Dot>>, r)[1] = <<Dot>>[1]
    BY <2>8, Joined DEF Cat
  <2>11. QED
    BY <2>9, <2>10 DEF Dot
<1>3. QED
  BY <1>1, <1>2

--------------------------------------------------------------------------------
(* The frames of a trace: a frame and those below it.                      *)
Below(trace, p) == {q \in DOMAIN trace : Above(p, q)}

LEMMA TracePaths ==
  ASSUME NEW trace, IsTrace(trace), NEW p \in Seq(Nat), NEW k \in Nat,
         Append(p, k) \in DOMAIN trace
  PROVE  p \in DOMAIN trace /\ \A j \in 0 .. k : Append(p, j) \in DOMAIN trace
<1> DEFINE path == Append(p, k)
<1>1. Front(path) = p /\ path # << >> /\ Last(path) = k
  BY ParentIs, Longer DEF Last
<1>2. path \in DOMAIN trace
  OBVIOUS
<1> HIDE DEF path
<1>3. QED
  BY <1>1, <1>2 DEF IsTrace

(* What a path of the trace is below is in the trace.                      *)
LEMMA AboveInTrace ==
  ASSUME NEW trace, IsTrace(trace), NEW q \in DOMAIN trace, NEW p \in Seq(Nat), Above(p, q)
  PROVE  p \in DOMAIN trace
<1> DEFINE good(t) == t \in DOMAIN trace /\ Above(p, t) => p \in DOMAIN trace
           P == {n \in Nat : \A t \in Seq(Nat) : Len(t) = n => good(t)}
<1>1. ASSUME NEW n \in Nat, \A i \in Nat : i < n => i \in P PROVE n \in P
  <2>1. SUFFICES ASSUME NEW t \in Seq(Nat), Len(t) = n, t \in DOMAIN trace, Above(p, t)
                 PROVE  p \in DOMAIN trace
    OBVIOUS
  <2>2. CASE t = << >>
    <3>1. p = << >>
      BY <2>1, <2>2 DEF Above
    <3>2. QED
      BY <2>1, <2>2, <3>1
  <2>3. CASE t # << >>
    <3>1. PICK s \in Seq(Nat), k \in Nat : t = Append(s, k) /\ Len(t) = Len(s) + 1
      BY <2>3, PathEmptyOrAppend
    <3>2. s \in DOMAIN trace
      BY <2>1, <3>1, TracePaths
    <3>3. p = t \/ Above(p, s)
      BY <2>1, <3>1, AboveLast
    <3>4. Len(s) \in Nat /\ Len(s) < n
      BY <2>1, <3>1
    <3>5. good(s)
      BY <1>1, <3>4
    <3>6. QED
      BY <2>1, <3>2, <3>3, <3>5
  <2>4. QED
    BY <2>2, <2>3
<1>2. P \in SUBSET Nat
  OBVIOUS
<1>3. q \in Seq(Nat) /\ Len(q) \in Nat
  BY DEF IsTrace
<1>4. Len(q) \in P
  <2> HIDE DEF P
  <2>1. P = Nat
    BY <1>1, <1>2, CourseOfValues
  <2>2. QED
    BY <1>3, <2>1
<1>5. QED
  BY <1>3, <1>4

(* A finite set of numbers with all below each of its own.                 *)
LEMMA FirstNumbers ==
  ASSUME NEW K \in SUBSET Nat, IsFiniteSet(K), \A k \in K : 0 .. k \subseteq K
  PROVE  Cardinality(K) \in Nat /\ \A k \in Nat : k \in K <=> k < Cardinality(K)
<1>1. PICK m \in Nat : m \notin K /\ \A k \in Nat : k < m => k \in K
  <2>1. SUFFICES ASSUME \A m \in Nat : (\A k \in Nat : k < m => k \in K) => m \in K
                 PROVE  FALSE
    OBVIOUS
  <2>2. K = Nat
    BY <2>1, CourseOfValues
  <2> DEFINE c == Cardinality(K)
  <2>3. c \in Nat
    BY FS_CardinalityType
  <2>4. c + 1 \in Nat /\ 0 .. c \in SUBSET K /\ 0 \in Int /\ c \in Int /\ ~(0 > c)
    BY <2>2, <2>3
  <2> HIDE DEF c
  <2>5. Cardinality(0 .. c) = c - 0 + 1
    BY <2>4, FS_Interval
  <2>6. Cardinality(0 .. c) <= Cardinality(K)
    BY <2>4, FS_Subset
  <2>7. QED
    BY <2>3, <2>5, <2>6 DEF c
<1>2. K = 0 .. m - 1
  <2>1. ASSUME NEW k \in K PROVE k < m
    <3>1. SUFFICES ASSUME ~(k < m) PROVE FALSE
      OBVIOUS
    <3>2. k \in Nat /\ m \in 0 .. k
      BY <3>1
    <3>3. QED
      BY <1>1, <3>2
  <2>2. ASSUME NEW k \in Nat PROVE k \in K <=> k < m
    BY <1>1, <2>1
  <2>3. ASSUME NEW k PROVE k \in 0 .. m - 1 <=> k \in Nat /\ k < m
    OBVIOUS
  <2>4. QED
    BY <2>2, <2>3
<1>3. Cardinality(K) = m
  <2>1. 0 \in Int /\ m - 1 \in Int
    OBVIOUS
  <2>2. Cardinality(0 .. m - 1) = IF 0 > m - 1 THEN 0 ELSE (m - 1) - 0 + 1
    BY <2>1, FS_Interval
  <2>3. QED
    BY <1>2, <2>2
<1>4. QED
  BY <1>1, <1>2, <1>3

(* The calls of a frame are numbered from 0.                               *)
LEMMA Calls ==
  ASSUME NEW trace, IsTrace(trace), NEW p \in DOMAIN trace
  PROVE  /\ NumCalls(trace, p) \in Nat
         /\ \A k \in Nat : Append(p, k) \in DOMAIN trace <=> k < NumCalls(trace, p)
<1> DEFINE K == {k \in Nat : Append(p, k) \in DOMAIN trace}
           C == {q \in DOMAIN trace : Len(q) = Len(p) + 1 /\ Front(q) = p}
           f == [k \in K |-> Append(p, k)]
<1>1. p \in Seq(Nat) /\ IsFiniteSet(DOMAIN trace) /\ DOMAIN trace \subseteq Seq(Nat)
  BY DEF IsTrace
<1>2. ASSUME NEW k \in K PROVE Append(p, k) \in C
  BY <1>1, ParentIs, Longer
<1>3. ASSUME NEW q \in C PROVE \E k \in K : q = Append(p, k)
  <2>1. q \in Seq(Nat) /\ q # << >>
    BY <1>1
  <2>2. PICK s \in Seq(Nat), k \in Nat : q = Append(s, k)
    BY <2>1, PathEmptyOrAppend
  <2>3. s = p
    BY <2>2, ParentIs
  <2>4. QED
    BY <2>2, <2>3
<1>4. ASSUME NEW j \in K, NEW k \in K, Append(p, j) = Append(p, k) PROVE j = k
  BY <1>1, <1>4, SameEnds
<1>5. f \in Bijection(K, C)
  <2>1. f \in [K -> C]
    BY <1>2
  <2>2. f \in Injection(K, C)
    BY <1>4, <2>1 DEF Injection, IsInjective
  <2>3. f \in Surjection(K, C)
    BY <1>3, <2>1 DEF Surjection
  <2>4. QED
    BY <2>2, <2>3 DEF Bijection
<1>6. IsFiniteSet(C)
  BY <1>1, FS_Subset
<1>7. IsFiniteSet(K) /\ Cardinality(C) = Cardinality(K)
  <2>1. f \in Injection(K, C)
    BY <1>5 DEF Bijection
  <2> HIDE DEF f, K, C
  <2>2. IsFiniteSet(K)
    BY <1>6, <2>1, FS_Injection
  <2>3. ExistsBijection(K, C)
    BY <1>5 DEF ExistsBijection
  <2>4. QED
    BY <2>2, <2>3, FS_Bijection
<1>8. \A k \in K : 0 .. k \subseteq K
  BY <1>1, TracePaths
<1>9. Cardinality(K) \in Nat /\ \A k \in Nat : k \in K <=> k < Cardinality(K)
  <2>1. K \in SUBSET Nat
    OBVIOUS
  <2> HIDE DEF K
  <2>2. QED
    BY <1>7, <1>8, <2>1, FirstNumbers
<1>10. NumCalls(trace, p) = Cardinality(K)
  BY <1>7 DEF NumCalls
<1> HIDE DEF C, f
<1>11. QED
  BY <1>9, <1>10

--------------------------------------------------------------------------------
(* The walk.                                                               *)

LEMMA CallsThere ==
  ASSUME NEW trace, IsTrace(trace), NEW p \in DOMAIN trace,
         NEW n \in 1 .. NumCalls(trace, p)
  PROVE  n - 1 \in Nat /\ Append(p, n - 1) \in DOMAIN trace
<1>1. NumCalls(trace, p) \in Nat
  BY Calls
<1>2. n - 1 \in Nat /\ n - 1 < NumCalls(trace, p)
  BY <1>1
<1>3. QED
  BY <1>2, Calls

(* What is below a call of a frame goes on from the frame with its number. *)
LEMMA AboveCall ==
  ASSUME NEW p \in Seq(Nat), NEW k \in Nat, NEW q \in Seq(Nat)
  PROVE  Above(Append(p, k), q) <=> Above(p, q) /\ Len(p) < Len(q) /\ q[Len(p) + 1] = k
<1> DEFINE r == Append(p, k)
<1>1. /\ Len(r) = Len(p) + 1 /\ r[Len(p) + 1] = k /\ Len(p) \in Nat /\ Len(q) \in Nat
      /\ \A i \in 1 .. Len(p) : r[i] = p[i]
  BY Longer
<1> HIDE DEF r
<1>2. ASSUME Above(r, q) PROVE Above(p, q) /\ Len(p) < Len(q) /\ q[Len(p) + 1] = k
  <2>1. Len(p) + 1 <= Len(q) /\ \A i \in 1 .. Len(p) + 1 : r[i] = q[i]
    BY <1>1, <1>2 DEF Above
  <2>2. ASSUME NEW i \in 1 .. Len(p) PROVE p[i] = q[i]
    <3>1. i \in 1 .. Len(p) + 1
      BY <1>1
    <3>2. QED
      BY <1>1, <2>1, <3>1
  <2>3. Len(p) + 1 \in 1 .. Len(p) + 1
    BY <1>1
  <2>4. QED
    BY <1>1, <2>1, <2>2, <2>3 DEF Above
<1>3. ASSUME Above(p, q), Len(p) < Len(q), q[Len(p) + 1] = k PROVE Above(r, q)
  <2>1. ASSUME NEW i \in 1 .. Len(p) + 1 PROVE r[i] = q[i]
    <3>1. CASE i = Len(p) + 1
      BY <1>1, <1>3, <3>1
    <3>2. CASE i # Len(p) + 1
      <4>1. i \in 1 .. Len(p)
        BY <1>1, <3>2
      <4>2. QED
        BY <1>1, <1>3, <4>1 DEF Above
    <3>3. QED
      BY <3>1, <3>2
  <2>2. QED
    BY <1>1, <1>3, <2>1 DEF Above
<1>4. QED
  BY <1>2, <1>3 DEF r

(* There are fewer frames below a call of a frame than below the frame.    *)
LEMMA FewerBelow ==
  ASSUME NEW trace, IsTrace(trace), NEW p \in DOMAIN trace, NEW k \in Nat,
         Append(p, k) \in DOMAIN trace
  PROVE  /\ Cardinality(Below(trace, p)) \in Nat
         /\ Cardinality(Below(trace, Append(p, k))) \in Nat
         /\ Cardinality(Below(trace, Append(p, k))) < Cardinality(Below(trace, p))
<1> DEFINE A == Below(trace, p)  B == Below(trace, Append(p, k))
<1>1. p \in Seq(Nat) /\ IsFiniteSet(DOMAIN trace) /\ DOMAIN trace \subseteq Seq(Nat)
  BY DEF IsTrace
<1>2. IsFiniteSet(A) /\ IsFiniteSet(B)
  BY <1>1, FS_Subset DEF Below
<1>3. B \subseteq A
  <2>1. ASSUME NEW q \in DOMAIN trace, Above(Append(p, k), q) PROVE Above(p, q)
    BY <1>1, <2>1, AboveCall
  <2>2. QED
    BY <2>1 DEF Below
<1>4. p \in A /\ p \notin B
  BY <1>1, Longer DEF Below, Above
<1> HIDE DEF A, B
<1>5. Cardinality(B) <= Cardinality(A) /\ Cardinality(A) # Cardinality(B)
  BY <1>2, <1>3, <1>4, FS_Subset
<1>6. Cardinality(A) \in Nat /\ Cardinality(B) \in Nat
  BY <1>2, FS_CardinalityType
<1>7. QED
  BY <1>5, <1>6 DEF A, B

(* What is below a frame: the frame, and what is below its calls, each     *)
(* below one of them.                                                      *)
LEMMA BelowCalls ==
  ASSUME NEW trace, IsTrace(trace), NEW p \in DOMAIN trace
  PROVE  /\ Below(trace, p) =
              {p} \cup UNION {Below(trace, Append(p, n - 1)) : n \in 1 .. NumCalls(trace, p)}
         /\ \A n \in 1 .. NumCalls(trace, p) : p \notin Below(trace, Append(p, n - 1))
         /\ \A m, n \in 1 .. NumCalls(trace, p) :
              m # n => Below(trace, Append(p, m - 1)) \cap Below(trace, Append(p, n - 1)) = {}
<1> DEFINE N == NumCalls(trace, p)
<1>1. /\ N \in Nat /\ \A k \in Nat : Append(p, k) \in DOMAIN trace <=> k < N
      /\ p \in Seq(Nat) /\ DOMAIN trace \subseteq Seq(Nat)
  BY Calls DEF IsTrace
<1> HIDE DEF N
<1>2. ASSUME NEW k \in Nat, NEW q \in Seq(Nat), Above(Append(p, k), q)
      PROVE  Above(p, q) /\ q # p /\ q[Len(p) + 1] = k
  <2>1. Above(p, q) /\ Len(p) < Len(q) /\ q[Len(p) + 1] = k
    BY <1>1, <1>2, AboveCall
  <2>2. Len(p) \in Nat
    BY <1>1
  <2>3. QED
    BY <2>1, <2>2
<1>3. ASSUME NEW q \in DOMAIN trace, Above(p, q), q # p
      PROVE  \E n \in 1 .. N : Above(Append(p, n - 1), q)
  <2>1. q \in Seq(Nat) /\ Len(q) \in Nat /\ Len(p) \in Nat
    BY <1>1
  <2>2. Len(p) < Len(q)
    <3>1. Len(p) # Len(q)
      BY <1>1, <1>3, <2>1, SeqEqual DEF Above
    <3>2. QED
      BY <1>3, <2>1, <3>1 DEF Above
  <2> DEFINE k == q[Len(p) + 1]
  <2>3. k \in Nat
    BY <2>1, <2>2
  <2> HIDE DEF k
  <2>4. Above(Append(p, k), q)
    BY <1>1, <1>3, <2>1, <2>2, <2>3, AboveCall DEF k
  <2>5. Append(p, k) \in DOMAIN trace
    BY <1>1, <2>3, <2>4, AboveInTrace, Longer
  <2>6. k < N
    BY <1>1, <2>3, <2>5
  <2>7. k + 1 \in 1 .. N /\ (k + 1) - 1 = k
    BY <1>1, <2>3, <2>6
  <2>8. QED
    BY <2>4, <2>7
<1>4. Above(p, p)
  BY DEF Above
<1>5. ASSUME NEW n \in 1 .. N
      PROVE  n - 1 \in Nat /\ \A q \in Below(trace, Append(p, n - 1)) :
               q \in Below(trace, p) /\ q # p /\ q[Len(p) + 1] = n - 1
  <2>1. n - 1 \in Nat
    OBVIOUS
  <2>2. QED
    BY <1>1, <1>2, <2>1 DEF Below
<1>6. Below(trace, p) = {p} \cup UNION {Below(trace, Append(p, n - 1)) : n \in 1 .. N}
  <2>1. ASSUME NEW q \in Below(trace, p), q # p
        PROVE  \E n \in 1 .. N : q \in Below(trace, Append(p, n - 1))
    BY <1>3, <2>1 DEF Below
  <2>2. p \in Below(trace, p)
    BY <1>4 DEF Below
  <2>3. QED
    BY <1>5, <2>1, <2>2
<1>7. ASSUME NEW m \in 1 .. N, NEW n \in 1 .. N, m # n
      PROVE  Below(trace, Append(p, m - 1)) \cap Below(trace, Append(p, n - 1)) = {}
  <2>1. m - 1 # n - 1
    BY <1>7
  <2>2. QED
    BY <1>5, <2>1
<1>8. QED
  BY <1>5, <1>6, <1>7 DEF N

(* What the walk of a frame is made of.                                    *)
CallWalk(walk, p, n) == walk[Append(p, n - 1)]

Visit(trace, walk, p) ==
  <<p>> \o FlattenSeq([n \in 1 .. NumCalls(trace, p) |-> walk[Append(p, n - 1)]])

CallsApart(trace, walk, p) ==
  /\ \A n \in 1 .. NumCalls(trace, p) :
       Once(CallWalk(walk, p, n)) /\ p \notin ToSet(CallWalk(walk, p, n))
  /\ \A m, n \in 1 .. NumCalls(trace, p) :
       m # n => ToSet(CallWalk(walk, p, m)) \cap ToSet(CallWalk(walk, p, n)) = {}

LEMMA VisitType ==
  ASSUME NEW trace, IsTrace(trace), NEW walk, NEW p \in DOMAIN trace,
         \A n \in 1 .. NumCalls(trace, p) : CallWalk(walk, p, n) \in Seq(DOMAIN trace)
  PROVE  /\ Visit(trace, walk, p) \in Seq(DOMAIN trace)
         /\ ToSet(Visit(trace, walk, p)) =
              {p} \cup UNION {ToSet(CallWalk(walk, p, n)) : n \in 1 .. NumCalls(trace, p)}
         /\ CallsApart(trace, walk, p) => Once(Visit(trace, walk, p))
<1> DEFINE N == NumCalls(trace, p)  D == DOMAIN trace
           ss == [n \in 1 .. N |-> CallWalk(walk, p, n)]
<1>1. N \in Nat /\ \A k \in Nat : Append(p, k) \in D <=> k < N
  BY Calls
<1> HIDE DEF N
<1>2. \A n \in 1 .. N : CallWalk(walk, p, n) \in Seq(D)
  BY DEF N
<1>3. /\ ss \in Seq(Seq(D)) /\ Len(ss) = N /\ <<p>> \in Seq(D) /\ ToSet(<<p>>) = {p} /\ Once(<<p>>)
      /\ \A n \in 1 .. N : ss[n] = CallWalk(walk, p, n)
  <2>1. ss \in Seq(Seq(D)) /\ Len(ss) = N /\ \A n \in 1 .. N : ss[n] = CallWalk(walk, p, n)
    BY <1>1, <1>2
  <2>2. <<p>> \in Seq(D)
    OBVIOUS
  <2>3. ToSet(<<p>>) = {p} /\ Once(<<p>>)
    BY DEF ToSet, Once
  <2>4. QED
    BY <2>1, <2>2, <2>3
<1>4. Visit(trace, walk, p) = <<p>> \o FlattenSeq(ss)
  BY DEF Visit, N, CallWalk
<1> HIDE DEF ss, D
<1>5. /\ FlattenSeq(ss) \in Seq(D)
      /\ ToSet(FlattenSeq(ss)) = UNION {ToSet(ss[n]) : n \in 1 .. N}
      /\ Apart(ss) => Once(FlattenSeq(ss))
  BY <1>3, Flattened
<1>6. ToSet(FlattenSeq(ss)) = UNION {ToSet(CallWalk(walk, p, n)) : n \in 1 .. N}
  BY <1>3, <1>5
<1> DEFINE t == FlattenSeq(ss)
<1> HIDE DEF t
<1>7. t \in Seq(D) /\ <<p>> \in Seq(D)
  BY <1>3, <1>5 DEF t
<1>8. /\ <<p>> \o t \in Seq(D) /\ ToSet(<<p>> \o t) = ToSet(<<p>>) \cup ToSet(t)
      /\ Once(<<p>>) /\ Once(t) /\ ToSet(<<p>>) \cap ToSet(t) = {} => Once(<<p>> \o t)
  <2> DEFINE s == <<p>>
  <2>1. s \in Seq(D)
    BY <1>7
  <2> HIDE DEF s
  <2>2. /\ s \o t \in Seq(D) /\ ToSet(s \o t) = ToSet(s) \cup ToSet(t)
        /\ Once(s) /\ Once(t) /\ ToSet(s) \cap ToSet(t) = {} => Once(s \o t)
    BY <1>7, <2>1, Concatenated
  <2>3. QED
    BY <2>2 DEF s
<1>9. ASSUME CallsApart(trace, walk, p)
      PROVE  Once(<<p>> \o t)
  <2>1. Apart(ss)
    BY <1>3, <1>9 DEF Apart, CallsApart, N
  <2>2. p \notin ToSet(t)
    BY <1>6, <1>9 DEF t, CallsApart, N
  <2>3. QED
    BY <1>3, <1>5, <1>8, <2>1, <2>2 DEF t
<1>10. QED
  BY <1>3, <1>4, <1>6, <1>8, <1>9 DEF t, N, D

LEMMA WalkIs ==
  ASSUME NEW trace, IsTrace(trace)
  PROVE  \E walk \in [DOMAIN trace -> Seq(DOMAIN trace)] :
           /\ \A p \in DOMAIN trace : walk[p] = Visit(trace, walk, p)
           /\ Walk(trace) = walk[<< >>]
<1> DEFINE D == DOMAIN trace
           T == Seq(D)
           m == [p \in D |-> Cardinality(Below(trace, p))]
           F == [q \in [D -> T] \X D |-> Visit(trace, q[1], q[2])]
           right(f) == f = [p \in D |-> Visit(trace, f, p)]
           h == CHOOSE f : right(f)
<1>1. T # {}
  <2>1. << >> \in T
    OBVIOUS
  <2>2. QED
    BY <2>1
<1>2. m \in [D -> Nat]
  <2>1. ASSUME NEW p \in D PROVE Cardinality(Below(trace, p)) \in Nat
    BY FS_Subset, FS_CardinalityType DEF Below, IsTrace
  <2>2. QED
    BY <2>1
<1>3. ASSUME NEW f \in [D -> T], NEW p \in D PROVE Visit(trace, f, p) \in T
  <2>1. ASSUME NEW n \in 1 .. NumCalls(trace, p) PROVE CallWalk(f, p, n) \in Seq(D)
    BY CallsThere DEF CallWalk
  <2>2. QED
    BY <2>1, VisitType
<1>4. ASSUME NEW f \in [D -> T], NEW g \in [D -> T], NEW p \in D,
             \A r \in D : m[r] < m[p] => f[r] = g[r]
      PROVE  Visit(trace, f, p) = Visit(trace, g, p)
  <2>1. ASSUME NEW n \in 1 .. NumCalls(trace, p)
        PROVE  f[Append(p, n - 1)] = g[Append(p, n - 1)]
    <3>1. n - 1 \in Nat /\ Append(p, n - 1) \in D
      BY CallsThere
    <3>2. m[Append(p, n - 1)] < m[p]
      BY <3>1, FewerBelow
    <3>3. QED
      BY <1>4, <3>1, <3>2
  <2>2. QED
    BY <2>1 DEF Visit
<1>5. Walk(trace) = h[<< >>]
  BY DEF Walk, Visit
<1> HIDE DEF T, m, D
<1>6. F \in [[D -> T] \X D -> T]
  BY <1>3
<1>7. LooksBelow(F, D, T, m)
  BY <1>4 DEF LooksBelow
<1>8. PICK f \in Solutions(F, D, T) : TRUE
  <2>1. Recursive(F, D, T, m)
    BY <1>1, <1>2, <1>6, <1>7 DEF Recursive
  <2> HIDE DEF F
  <2>2. Solutions(F, D, T) # {}
    BY <2>1, Recursion
  <2>3. QED
    BY <2>2
<1>9. right(f)
  <2>1. f \in [D -> T] /\ \A p \in D : f[p] = F[<<f, p>>]
    BY <1>8 DEF Solutions
  <2>2. \A p \in D : f[p] = Visit(trace, f, p)
    BY <2>1
  <2>3. QED
    BY <2>1, <2>2
<1>10. right(h)
  <2> HIDE DEF right
  <2>1. QED
    BY <1>9
<1> HIDE DEF h
<1>11. DOMAIN h = D /\ h = [p \in D |-> h[p]] /\ \A p \in D : h[p] = Visit(trace, h, p)
  BY <1>10
<1>12. h \in [D -> T]
  <2> DEFINE P == {i \in Nat : \A p \in D : m[p] = i => h[p] \in T}
  <2>1. ASSUME NEW i \in Nat, \A j \in Nat : j < i => j \in P PROVE i \in P
    <3>1. SUFFICES ASSUME NEW p \in D, m[p] = i PROVE h[p] \in T
      OBVIOUS
    <3>2. ASSUME NEW n \in 1 .. NumCalls(trace, p) PROVE CallWalk(h, p, n) \in T
      <4>1. n - 1 \in Nat /\ Append(p, n - 1) \in D
        BY CallsThere DEF D
      <4>2. m[Append(p, n - 1)] < i /\ m[Append(p, n - 1)] \in Nat
        BY <1>2, <3>1, <4>1, FewerBelow DEF m, D
      <4>3. QED
        BY <2>1, <4>1, <4>2 DEF CallWalk
    <3>3. Visit(trace, h, p) \in T
      BY <3>2, VisitType DEF D, T
    <3>4. QED
      BY <1>11, <3>3
  <2>2. P \in SUBSET Nat
    OBVIOUS
  <2> HIDE DEF P
  <2>3. P = Nat
    BY <2>1, <2>2, CourseOfValues
  <2>4. ASSUME NEW p \in D PROVE h[p] \in T
    <3>1. m[p] \in P
      BY <1>2, <2>3
    <3>2. QED
      BY <3>1 DEF P
  <2>5. QED
    BY <1>11, <2>4
<1>13. << >> \in D
  BY DEF IsTrace, D
<1>14. QED
  BY <1>5, <1>11, <1>12 DEF D, T

(* The walk comes to each frame of the trace once.                         *)
LEMMA WalkVisitsAll ==
  ASSUME NEW trace, IsTrace(trace)
  PROVE  /\ Walk(trace) \in Seq(DOMAIN trace)
         /\ ToSet(Walk(trace)) = DOMAIN trace
         /\ Once(Walk(trace))
<1> DEFINE D == DOMAIN trace
<1>1. PICK walk \in [D -> Seq(D)] :
        /\ \A p \in D : walk[p] = Visit(trace, walk, p)
        /\ Walk(trace) = walk[<< >>]
  BY WalkIs
<1> DEFINE good(p) == ToSet(walk[p]) = Below(trace, p) /\ Once(walk[p])
           P == {i \in Nat : \A p \in D : Cardinality(Below(trace, p)) = i => good(p)}
<1> HIDE DEF good
<1>2. ASSUME NEW p \in D, \A n \in 1 .. NumCalls(trace, p) : good(Append(p, n - 1))
      PROVE  good(p)
  <2> DEFINE N == NumCalls(trace, p)
  <2>1. /\ \A n \in 1 .. N : /\ CallWalk(walk, p, n) \in Seq(D)
                             /\ ToSet(CallWalk(walk, p, n)) = Below(trace, Append(p, n - 1))
                             /\ Once(CallWalk(walk, p, n))
    BY <1>2, CallsThere DEF good, CallWalk
  <2>2. /\ Below(trace, p) = {p} \cup UNION {Below(trace, Append(p, n - 1)) : n \in 1 .. N}
        /\ \A n \in 1 .. N : p \notin Below(trace, Append(p, n - 1))
        /\ \A m, n \in 1 .. N :
             m # n => Below(trace, Append(p, m - 1)) \cap Below(trace, Append(p, n - 1)) = {}
    BY BelowCalls
  <2>3. walk[p] = Visit(trace, walk, p) /\ \A n \in 1 .. N : CallWalk(walk, p, n) \in Seq(D)
    BY <1>1, <2>1
  <2>4. ToSet(walk[p]) = {p} \cup UNION {ToSet(CallWalk(walk, p, n)) : n \in 1 .. N}
    BY <2>3, VisitType
  <2>5. Once(walk[p])
    <3>1. CallsApart(trace, walk, p)
      BY <2>1, <2>2 DEF CallsApart
    <3>2. QED
      BY <2>3, <3>1, VisitType
  <2>6. ToSet(walk[p]) = Below(trace, p)
    <3>1. {ToSet(CallWalk(walk, p, n)) : n \in 1 .. N} =
            {Below(trace, Append(p, n - 1)) : n \in 1 .. N}
      BY <2>1
    <3>2. QED
      BY <2>2, <2>4, <3>1
  <2>7. QED
    BY <2>5, <2>6 DEF good
<1>3. ASSUME NEW i \in Nat, \A j \in Nat : j < i => j \in P PROVE i \in P
  <2>1. SUFFICES ASSUME NEW p \in D, Cardinality(Below(trace, p)) = i PROVE good(p)
    OBVIOUS
  <2>2. ASSUME NEW n \in 1 .. NumCalls(trace, p) PROVE good(Append(p, n - 1))
    <3>1. n - 1 \in Nat /\ Append(p, n - 1) \in D
      BY CallsThere
    <3>2. /\ Cardinality(Below(trace, Append(p, n - 1))) < i
          /\ Cardinality(Below(trace, Append(p, n - 1))) \in Nat
      BY <2>1, <3>1, FewerBelow
    <3>3. QED
      BY <1>3, <3>1, <3>2
  <2>3. QED
    BY <1>2, <2>2
<1>4. P \in SUBSET Nat
  OBVIOUS
<1>5. << >> \in D /\ Cardinality(Below(trace, << >>)) \in Nat
  BY FS_Subset, FS_CardinalityType DEF Below, IsTrace
<1> HIDE DEF P
<1>6. P = Nat
  BY <1>3, <1>4, CourseOfValues
<1>7. good(<< >>)
  BY <1>5, <1>6 DEF P
<1>8. Below(trace, << >>) = D
  <2>1. ASSUME NEW q \in D PROVE Above(<< >>, q)
    <3>1. Len(q) \in Nat /\ Len(<< >>) = 0
      BY DEF IsTrace
    <3>2. QED
      BY <3>1 DEF Above
  <2>2. QED
    BY <2>1 DEF Below
<1>9. QED
  BY <1>1, <1>5, <1>7, <1>8 DEF good

--------------------------------------------------------------------------------
(* The frames.                                                             *)

(* A path of a trace is shorter than the trace has paths: those above it   *)
(* are there.                                                              *)
LEMMA DepthBounded ==
  ASSUME NEW trace, IsTrace(trace), NEW p \in DOMAIN trace
  PROVE  Len(p) < Cardinality(DOMAIN trace) /\ Cardinality(DOMAIN trace) \in Nat
<1> DEFINE D == DOMAIN trace
           up(q) == {r \in D : Above(r, q)}
           P == {n \in Nat : \A q \in D : Len(q) = n => n < Cardinality(up(q))}
<1>1. IsFiniteSet(D) /\ D \subseteq Seq(Nat) /\ p \in Seq(Nat)
  BY DEF IsTrace
<1>2. ASSUME NEW q \in D PROVE /\ IsFiniteSet(up(q)) /\ q \in up(q)
                               /\ Cardinality(up(q)) \in Nat
                               /\ Cardinality(up(q)) <= Cardinality(D)
  <2>1. q \in up(q) /\ up(q) \in SUBSET D
    BY DEF Above
  <2> HIDE DEF up
  <2>2. QED
    BY <1>1, <2>1, FS_Subset, FS_CardinalityType
<1>3. ASSUME NEW n \in Nat, \A i \in Nat : i < n => i \in P PROVE n \in P
  <2>1. SUFFICES ASSUME NEW q \in D, Len(q) = n PROVE n < Cardinality(up(q))
    OBVIOUS
  <2>2. CASE q = << >>
    <3>1. Cardinality(up(q)) # 0
      <4> HIDE DEF up
      <4>1. QED
        BY <1>2, FS_EmptySet
    <3>2. n = 0
      BY <2>1, <2>2
    <3>3. QED
      BY <1>2, <3>1, <3>2
  <2>3. CASE q # << >>
    <3>1. PICK s \in Seq(Nat), k \in Nat : q = Append(s, k) /\ Len(q) = Len(s) + 1
      BY <1>1, <2>3, PathEmptyOrAppend
    <3>2. s \in D
      BY <3>1, TracePaths
    <3>3. Len(s) \in Nat /\ Len(s) < n /\ n = Len(s) + 1
      BY <2>1, <3>1
    <3>4. Len(s) < Cardinality(up(s))
      BY <1>3, <3>2, <3>3
    <3>5. up(q) = up(s) \cup {q}
      BY <1>1, <3>1, <3>2, AboveLast
    <3>6. q \notin up(s)
      BY <2>1, <3>3 DEF Above
    <3>7. Cardinality(up(q)) = Cardinality(up(s)) + 1
      <4> HIDE DEF up
      <4>1. QED
        BY <1>2, <3>2, <3>5, <3>6, FS_AddElement
    <3>8. Cardinality(up(s)) \in Nat
      BY <1>2, <3>2
    <3>9. QED
      BY <3>3, <3>4, <3>7, <3>8
  <2>4. QED
    BY <2>2, <2>3
<1>4. P \in SUBSET Nat
  OBVIOUS
<1>5. Len(p) \in P /\ Len(p) \in Nat
  <2> HIDE DEF P
  <2>1. P = Nat
    BY <1>3, <1>4, CourseOfValues
  <2>2. QED
    BY <1>1, <2>1
<1>6. Len(p) < Cardinality(up(p))
  BY <1>5
<1> HIDE DEF up, P
<1>7. Cardinality(D) \in Nat
  BY <1>1, FS_CardinalityType
<1>8. QED
  BY <1>2, <1>5, <1>6, <1>7

(* The frame of a path.                                                    *)
IsFrameOf(f, p) == f.id = Id(p) /\ f.parent = ParentId(p) /\ f.depth = Len(p)

(* flattenTraceFrames makes one frame of each path.                        *)
LEMMA FramesOfPaths ==
  ASSUME NEW trace, IsTrace(trace)
  PROVE  /\ Len(Flatten(trace)) = Cardinality(DOMAIN trace)
         /\ \A f \in ToSet(Flatten(trace)) : \E p \in DOMAIN trace : IsFrameOf(f, p)
         /\ \A p \in DOMAIN trace : \E f \in ToSet(Flatten(trace)) : IsFrameOf(f, p)
<1> DEFINE D == DOMAIN trace  order == Walk(trace)  frames == Flatten(trace)
<1>1. order \in Seq(D) /\ ToSet(order) = D /\ Once(order)
  BY WalkVisitsAll
<1>2. Len(order) \in Nat /\ DOMAIN order = 1 .. Len(order)
  BY <1>1
<1>3. DOMAIN frames = DOMAIN order /\ \A n \in DOMAIN order : IsFrameOf(frames[n], order[n])
  BY DEF Flatten, IsFrameOf
<1>4. Len(frames) = Len(order)
  <2>1. frames = [n \in 1 .. Len(order) |-> frames[n]]
    BY <1>2 DEF Flatten
  <2> HIDE DEF frames, order
  <2>2. QED
    BY <1>2, <2>1
<1> HIDE DEF frames, order, D
<1>5. Len(order) = Cardinality(D)
  <2>1. order \in Injection(1 .. Len(order), D)
    BY <1>1, <1>2 DEF Injection, IsInjective, Once
  <2>2. order \in Surjection(1 .. Len(order), D)
    BY <1>1, <1>2 DEF Surjection, ToSet
  <2>3. ExistsBijection(1 .. Len(order), D)
    BY <2>1, <2>2 DEF ExistsBijection, Bijection
  <2>4. QED
    BY <1>2, <2>3, FS_CountingElements
<1>6. \A f \in ToSet(frames) : \E p \in D : IsFrameOf(f, p)
  BY <1>1, <1>2, <1>3 DEF ToSet
<1>7. \A p \in D : \E f \in ToSet(frames) : IsFrameOf(f, p)
  BY <1>1, <1>2, <1>3 DEF ToSet
<1>8. QED
  BY <1>4, <1>5, <1>6, <1>7 DEF D, frames

(* collectSubtreeFrameIDs finds a frame and the frames below it.           *)
LEMMA SubtreeIsBelow ==
  ASSUME NEW trace, IsTrace(trace), NEW p \in DOMAIN trace
  PROVE  Subtree(Flatten(trace), Id(p)) = {Id(q) : q \in Below(trace, p)}
<1> DEFINE D == DOMAIN trace  frames == Flatten(trace)
           inside(id) == id = Id(p) \/ IsPrefix(Append(Id(p), Dot), id)
<1>1. D \subseteq Seq(Nat)
  BY DEF IsTrace
<1>2. /\ \A f \in ToSet(frames) : \E q \in D : f.id = Id(q)
      /\ \A q \in D : \E f \in ToSet(frames) : f.id = Id(q)
  BY FramesOfPaths DEF IsFrameOf
<1>3. \A q \in D : inside(Id(q)) <=> q \in Below(trace, p)
  BY <1>1, PrefixIsBelow DEF Below
<1>4. Subtree(frames, Id(p)) = {f.id : f \in {g \in ToSet(frames) : inside(g.id)}}
  BY DEF Subtree
<1>5. Below(trace, p) \subseteq D
  BY DEF Below
<1> HIDE DEF inside, frames, D
<1>6. QED
  BY <1>2, <1>3, <1>4, <1>5 DEF frames

(* The frames are numbered in order, and no two have the same id.          *)
LEMMA FramesDiffer ==
  ASSUME NEW trace, IsTrace(trace)
  PROVE  LET frames == Flatten(trace)
         IN /\ Len(frames) \in Nat /\ DOMAIN frames = 1 .. Len(frames)
            /\ \A n \in DOMAIN frames :
                 /\ frames[n].id \in Seq(Nat)
                 /\ frames[n].callIndex = n - 1
                 /\ frames[n].depth \in Nat
            /\ \A m, n \in DOMAIN frames : frames[m].id = frames[n].id => m = n
<1> DEFINE D == DOMAIN trace  order == Walk(trace)  frames == Flatten(trace)
<1>1. order \in Seq(D) /\ Once(order) /\ D \subseteq Seq(Nat)
  BY WalkVisitsAll DEF IsTrace
<1>2. /\ Len(order) \in Nat /\ DOMAIN order = 1 .. Len(order)
      /\ \A n \in DOMAIN order : order[n] \in Seq(Nat)
  BY <1>1
<1>3. DOMAIN frames = DOMAIN order
      /\ \A n \in DOMAIN order : /\ frames[n].id = Id(order[n])
                                 /\ frames[n].callIndex = n - 1
                                 /\ frames[n].depth = Len(order[n])
  BY DEF Flatten
<1>4. Len(frames) = Len(order)
  <2>1. frames = [n \in 1 .. Len(order) |-> frames[n]]
    BY <1>2 DEF Flatten
  <2> HIDE DEF frames, order
  <2>2. QED
    BY <1>2, <2>1
<1> HIDE DEF frames, order, D
<1>5. \A n \in DOMAIN frames : frames[n].id \in Seq(Nat) /\ frames[n].depth \in Nat
  BY <1>2, <1>3, IdType
<1>6. \A m, n \in DOMAIN frames : frames[m].id = frames[n].id => m = n
  <2>1. SUFFICES ASSUME NEW m \in DOMAIN order, NEW n \in DOMAIN order,
                        Id(order[m]) = Id(order[n])
                 PROVE  m = n
    BY <1>3
  <2>2. order[m] = order[n]
    BY <1>2, <2>1, IdsDiffer
  <2>3. QED
    BY <1>1, <1>2, <2>2 DEF Once
<1>7. QED
  BY <1>2, <1>3, <1>4, <1>5, <1>6 DEF frames

(* Each flow is that of a frame, and no two are of the same.               *)
LEMMA FlowsOfFrames ==
  ASSUME NEW trace, IsTrace(trace)
  PROVE  LET frames == Flatten(trace)  flows == AssetFlows(frames)
         IN /\ Len(flows) \in Nat /\ DOMAIN flows = 1 .. Len(flows)
            /\ \A i \in DOMAIN flows : \E n \in DOMAIN frames : flows[i].frame = frames[n].id
            /\ \A i, j \in DOMAIN flows : flows[i].frame = flows[j].frame => i = j
<1> DEFINE frames == Flatten(trace)
           S == 1 .. Len(frames)
           moving(f) == /\ f.token.action # ""
                        /\ f.token.source # NoAddress
                        /\ f.token.target # NoAddress
           flow(f) == [frame |-> f.id, action |-> f.token.action, asset |-> f.to,
                       source |-> f.token.source, target |-> f.token.target,
                       amount |-> f.token.amount]
           drawn == [n \in S |-> flow(frames[n])]
           T == {drawn[n] : n \in S}
           parts == [n \in S |-> IF moving(frames[n]) THEN <<drawn[n]>> ELSE << >>]
           flows == AssetFlows(frames)
<1>1. /\ Len(frames) \in Nat /\ DOMAIN frames = S
      /\ \A m, n \in S : frames[m].id = frames[n].id => m = n
  BY FramesDiffer
<1>2. flows = FlattenSeq(parts)
  BY <1>1 DEF AssetFlows
<1>3. \A n \in S : drawn[n].frame = frames[n].id
  OBVIOUS
<1> HIDE DEF frames, moving, flow, flows
<1>4. /\ parts \in Seq(Seq(T)) /\ Len(parts) = Len(frames)
      /\ \A n \in S : parts[n] = <<drawn[n]>> \/ parts[n] = << >>
  <2>1. \A n \in S : parts[n] \in Seq(T)
    <3> SUFFICES ASSUME NEW n \in S PROVE parts[n] \in Seq(T)
      OBVIOUS
    <3>1. drawn[n] \in T
      OBVIOUS
    <3> HIDE DEF T, drawn
    <3>2. QED
      BY <3>1
  <2>2. \A n \in S : parts[n] = <<drawn[n]>> \/ parts[n] = << >>
    OBVIOUS
  <2>3. parts = [n \in S |-> parts[n]]
    OBVIOUS
  <2> HIDE DEF parts, T, drawn
  <2>4. QED
    BY <1>1, <2>1, <2>2, <2>3
<1> HIDE DEF parts
<1>5. Apart(parts)
  <2>1. \A n \in S : Once(parts[n]) /\ ToSet(parts[n]) \subseteq {drawn[n]}
    <3> SUFFICES ASSUME NEW n \in S
                 PROVE  Once(parts[n]) /\ ToSet(parts[n]) \subseteq {drawn[n]}
      OBVIOUS
    <3> HIDE DEF drawn, S
    <3>1. CASE parts[n] = <<drawn[n]>>
      <4>1. /\ Len(parts[n]) = 1 /\ DOMAIN parts[n] = 1 .. 1
            /\ \A i \in 1 .. 1 : parts[n][i] = drawn[n] /\ i = 1
        BY <3>1
      <4>2. QED
        BY <4>1 DEF Once, ToSet
    <3>2. CASE parts[n] = << >>
      <4>1. Len(parts[n]) = 0 /\ DOMAIN parts[n] = {}
        BY <3>2
      <4>2. QED
        BY <4>1 DEF Once, ToSet
    <3>3. QED
      BY <1>4, <3>1, <3>2 DEF S
  <2>2. \A m, n \in S : m # n => drawn[m] # drawn[n]
    <3> SUFFICES ASSUME NEW m \in S, NEW n \in S, drawn[m] = drawn[n] PROVE m = n
      OBVIOUS
    <3> HIDE DEF drawn, S
    <3>1. frames[m].id = frames[n].id
      BY <1>3
    <3>2. QED
      BY <1>1, <3>1 DEF S
  <2> HIDE DEF drawn, S
  <2>3. \A m, n \in S : m # n => ToSet(parts[m]) \cap ToSet(parts[n]) = {}
    BY <2>1, <2>2
  <2>4. S = 1 .. Len(parts)
    BY <1>4 DEF S
  <2>5. QED
    BY <2>1, <2>3, <2>4 DEF Apart
<1>6. flows \in Seq(T) /\ Once(flows)
  <2> HIDE DEF T
  <2>1. QED
    BY <1>2, <1>4, <1>5, Flattened
<1>7. Len(flows) \in Nat /\ DOMAIN flows = 1 .. Len(flows) /\ \A i \in DOMAIN flows : flows[i] \in T
  <2> HIDE DEF T
  <2>1. QED
    BY <1>6
<1>8. \A i \in DOMAIN flows : \E n \in S : flows[i] = drawn[n] /\ flows[i].frame = frames[n].id
  <2> HIDE DEF drawn
  <2>1. QED
    BY <1>3, <1>7
<1>9. \A i, j \in DOMAIN flows : flows[i].frame = flows[j].frame => i = j
  <2> SUFFICES ASSUME NEW i \in DOMAIN flows, NEW j \in DOMAIN flows,
                      flows[i].frame = flows[j].frame
               PROVE  i = j
    OBVIOUS
  <2> HIDE DEF drawn, T
  <2>1. flows[i] = flows[j]
    BY <1>1, <1>8
  <2>2. QED
    BY <1>6, <1>7, <2>1 DEF Once
<1> HIDE DEF drawn, T
<1>10. QED
  BY <1>1, <1>7, <1>8, <1>9 DEF frames, flows
================================================================================
