----------------------------- MODULE SeqLemmas ------------------------------
(***************************************************************************)
(* Lemmas about numbers, sequences and loops that the proofs about several *)
(* components need: induction over a set of numbers, the existence of the  *)
(* function that a loop over a sequence defines, elements put into and     *)
(* taken out of a list, folds, sorting, sums.                              *)
(***************************************************************************)
EXTENDS Lists, Integers, Sequences, SequencesExt, SequenceTheorems, FiniteSetTheorems,
        WellFoundedInduction, TLAPS

\* A set of natural numbers that is not empty has a least one.
LEMMA LeastNat ==
  ASSUME NEW T \in SUBSET Nat, T # {}
  PROVE  \E x \in T : \A y \in T : x <= y
<1>1. \E x \in T : \A y \in T : ~ (<<y, x>> \in OpToRel(<, Nat))
  BY NatLessThanWellFounded, WFMin
<1>2. PICK x \in T : \A y \in T : ~ (<<y, x>> \in OpToRel(<, Nat)) BY <1>1
<1>3. \A y \in T : ~(y < x) BY <1>2 DEF OpToRel
<1> QED BY <1>3

\* Induction: a set that has 0 and with each number the next has all of them.
LEMMA NatSet ==
  ASSUME NEW T, 0 \in T, \A n \in Nat : n \in T => n + 1 \in T
  PROVE  Nat \subseteq T
<1> SUFFICES ASSUME Nat \ T # {} PROVE FALSE OBVIOUS
<1>1. PICK x \in Nat \ T : \A y \in Nat \ T : x <= y BY LeastNat
<1>2. x # 0 /\ x - 1 \in Nat /\ x - 1 \notin Nat \ T BY <1>1
<1>3. (x - 1) + 1 \in T BY <1>2
<1> QED BY <1>3, <1>1

\* The value of an expression With(v, f) of Wire: the only element of a set.
LEMMA OneValue ==
  ASSUME NEW S, NEW a, S = {a}
  PROVE  (CHOOSE r \in S : TRUE) = a
OBVIOUS

\* A loop of N rounds: round n maps state x to G[n, x].
IsRun(f, N, a, G) == f[0] = a /\ \A n \in 1..N : f[n] = G[<<n, f[n - 1]>>]

\* The function that describes such a loop exists.
LEMMA RunExists ==
  ASSUME NEW N \in Nat, NEW A, NEW a \in A, NEW G \in [(1..N) \X A -> A]
  PROVE  \E f \in [0..N -> A] : IsRun(f, N, a, G)
<1> DEFINE T == {n \in Nat : n <= N => \E f \in [0..n -> A] : IsRun(f, n, a, G)}
<1>1. 0 \in T
  <2>1. [j \in 0..0 |-> a] \in [0..0 -> A] /\ IsRun([j \in 0..0 |-> a], 0, a, G) BY DEF IsRun
  <2> QED BY <2>1
<1>2. ASSUME NEW n \in Nat, n \in T PROVE n + 1 \in T
  <2> SUFFICES ASSUME n + 1 <= N PROVE \E f \in [0..(n + 1) -> A] : IsRun(f, n + 1, a, G) OBVIOUS
  <2>1. PICK f \in [0..n -> A] : IsRun(f, n, a, G) BY <1>2
  <2> DEFINE h == [j \in 0..(n + 1) |-> IF j <= n THEN f[j] ELSE G[<<n + 1, f[n]>>]]
  <2>2. f[n] \in A /\ n + 1 \in 1..N BY <2>1
  <2>3. G[<<n + 1, f[n]>>] \in A BY <2>2
  <2>4. h \in [0..(n + 1) -> A] BY <2>3
  <2>5. h[0] = a BY <2>1 DEF IsRun
  <2>6. h[n + 1] = G[<<n + 1, h[(n + 1) - 1]>>] OBVIOUS
  <2>7. ASSUME NEW j \in 1..n PROVE h[j] = G[<<j, h[j - 1]>>]
    <3>1. j \in 0..(n + 1) /\ j - 1 \in 0..(n + 1) /\ j <= n /\ j - 1 <= n OBVIOUS
    <3>2. h[j] = f[j] /\ h[j - 1] = f[j - 1] BY <3>1
    <3> QED BY <3>2, <2>1 DEF IsRun
  <2>8. \A j \in 1..(n + 1) : j \in 1..n \/ j = n + 1 OBVIOUS
  <2> HIDE DEF h
  <2>9. IsRun(h, n + 1, a, G) BY <2>5, <2>6, <2>7, <2>8 DEF IsRun
  <2> QED BY <2>4, <2>9
<1>3. Nat \subseteq T
  <2> HIDE DEF T
  <2> QED BY <1>1, <1>2, NatSet
<1> QED BY <1>3

\* SequencesExt!InsertAt: everything behind the place moves by one.
InsertIs(s, i, e, r) ==
  /\ Len(r) = Len(s) + 1
  /\ \A h \in 1..(i - 1) : r[h] = s[h]
  /\ r[i] = e
  /\ \A h \in (i + 1)..(Len(s) + 1) : r[h] = s[h - 1]

\* An element inserted in a sequence.
LEMMA InsertFacts ==
  ASSUME NEW S, NEW s \in Seq(S), NEW e \in S, NEW i \in 1..(Len(s) + 1)
  PROVE  InsertAt(s, i, e) \in Seq(S) /\ InsertIs(s, i, e, InsertAt(s, i, e))
<1> DEFINE a == SubSeq(s, 1, i - 1)
           b == SubSeq(s, i, Len(s))
<1>1. Len(s) \in Nat /\ i \in Nat /\ i - 1 \in Nat OBVIOUS
<1>2. a \in Seq(S) /\ Len(a) = i - 1 /\ \A h \in 1..(i - 1) : a[h] = s[h] BY <1>1
<1>3. b \in Seq(S) /\ Len(b) = Len(s) - i + 1 /\ \A h \in 1..(Len(s) - i + 1) : b[h] = s[i + h - 1] BY <1>1
<1>4. InsertAt(s, i, e) = (a \o <<e>>) \o b BY DEF InsertAt
<1> HIDE DEF a, b
<1>5. a \o <<e>> \in Seq(S) /\ Len(a \o <<e>>) = i /\ (a \o <<e>>)[i] = e
      /\ \A h \in 1..(i - 1) : (a \o <<e>>)[h] = s[h] BY <1>1, <1>2
<1> DEFINE c == a \o <<e>>
<1> HIDE DEF c
<1>6. c \o b \in Seq(S) /\ Len(c \o b) = Len(s) + 1
  <2>1. c \in Seq(S) /\ Len(c) = i BY <1>5 DEF c
  <2>2. c \o b \in Seq(S) /\ Len(c \o b) = Len(c) + Len(b) BY <1>3, <2>1, ConcatProperties
  <2> QED BY <1>1, <1>3, <2>1, <2>2
<1>7. \A h \in 1..i : (c \o b)[h] = c[h] BY <1>1, <1>3, <1>5, <1>6 DEF c
<1>8. ASSUME NEW h \in (i + 1)..(Len(s) + 1) PROVE (c \o b)[h] = s[h - 1]
  <2>1. (c \o b)[h] = b[h - i] BY <1>1, <1>3, <1>5, <1>6 DEF c
  <2>2. h - i \in 1..(Len(s) - i + 1) /\ i + (h - i) - 1 = h - 1 BY <1>1
  <2> QED BY <2>1, <2>2, <1>3
<1>9. InsertAt(s, i, e) = c \o b BY <1>4 DEF c
<1>10. \A h \in 1..(i - 1) : c[h] = s[h] BY <1>5 DEF c
<1>11. c[i] = e BY <1>5 DEF c
<1>12. \A h \in 1..(i - 1) : h \in 1..i BY <1>1
<1>13. i \in 1..i BY <1>1
<1> QED BY <1>6, <1>7, <1>8, <1>9, <1>10, <1>11, <1>12, <1>13 DEF InsertIs

\* The elements of the longer list are those of the shorter one and the new one;
\* a list without duplicates stays one.
Joined(s, e, r) == /\ ToSet(r) = ToSet(s) \cup {e}
                   /\ IsInjective(s) /\ e \notin ToSet(s) => IsInjective(r)

\* The elements of a sequence after an insertion.
LEMMA InsertSet ==
  ASSUME NEW S, NEW s \in Seq(S), NEW e \in S, NEW i \in 1..(Len(s) + 1),
         NEW r \in Seq(S), InsertIs(s, i, e, r)
  PROVE  Joined(s, e, r)
<1>1. Len(s) \in Nat /\ i \in Nat OBVIOUS
<1>2. DOMAIN s = 1..Len(s) /\ DOMAIN r = 1..(Len(s) + 1) BY DEF InsertIs
<1>3. \A h \in DOMAIN r : \/ h \in 1..(i - 1) /\ h \in DOMAIN s /\ r[h] = s[h]
                          \/ h = i /\ r[h] = e
                          \/ h \in (i + 1)..(Len(s) + 1) /\ h - 1 \in DOMAIN s /\ r[h] = s[h - 1]
  BY <1>1, <1>2 DEF InsertIs
<1>4. \A h \in DOMAIN s : \E g \in DOMAIN r : r[g] = s[h]
  <2> TAKE h \in DOMAIN s
  <2>1. h \in Nat /\ (h + 1) - 1 = h BY <1>2
  <2>2. CASE h < i
    <3>1. h \in 1..(i - 1) /\ h \in DOMAIN r BY <1>1, <1>2, <2>2
    <3> QED BY <3>1 DEF InsertIs
  <2>3. CASE h >= i
    <3>1. h + 1 \in (i + 1)..(Len(s) + 1) /\ h + 1 \in DOMAIN r BY <1>1, <1>2, <2>3
    <3>2. r[h + 1] = s[(h + 1) - 1] BY <3>1 DEF InsertIs
    <3> QED BY <2>1, <3>1, <3>2
  <2> QED BY <1>1, <2>1, <2>2, <2>3
<1>5. i \in DOMAIN r /\ r[i] = e BY <1>1, <1>2 DEF InsertIs
<1>6. ToSet(r) = ToSet(s) \cup {e} BY <1>3, <1>4, <1>5 DEF ToSet
<1>7. ASSUME IsInjective(s), e \notin ToSet(s), NEW h \in DOMAIN r, NEW g \in DOMAIN r, r[h] = r[g]
      PROVE  h = g
  <2>1. \A x, y \in DOMAIN s : s[x] = s[y] => x = y BY <1>7 DEF IsInjective
  <2>2. \A x \in DOMAIN s : s[x] # e BY <1>7 DEF ToSet
  <2>3. h \in Nat /\ g \in Nat BY <1>1, <1>2
  <2> QED BY <1>3, <1>7, <2>1, <2>2, <2>3
<1> QED BY <1>6, <1>7 DEF IsInjective, Joined

\* SequencesExt!RemoveAt: everything behind the place moves by one.
LEMMA RemoveFacts ==
  ASSUME NEW S, NEW s \in Seq(S), NEW i \in 1..Len(s)
  PROVE  /\ RemoveAt(s, i) \in Seq(S) /\ Len(RemoveAt(s, i)) = Len(s) - 1
         /\ \A h \in 1..(Len(s) - 1) :
              RemoveAt(s, i)[h] = IF h < i THEN s[h] ELSE s[h + 1]
<1> DEFINE a == SubSeq(s, 1, i - 1)
           b == SubSeq(s, i + 1, Len(s))
<1>1. Len(s) \in Nat /\ i \in Nat /\ i - 1 \in Nat OBVIOUS
<1>2. a \in Seq(S) /\ Len(a) = i - 1 /\ \A h \in 1..(i - 1) : a[h] = s[h] BY <1>1
<1>3. b \in Seq(S) /\ Len(b) = Len(s) - i /\ \A h \in 1..(Len(s) - i) : b[h] = s[i + h] BY <1>1
<1>4. RemoveAt(s, i) = a \o b BY DEF RemoveAt
<1> HIDE DEF a, b
<1>5. a \o b \in Seq(S) /\ Len(a \o b) = Len(s) - 1
  <2>1. a \o b \in Seq(S) /\ Len(a \o b) = Len(a) + Len(b) BY <1>2, <1>3, ConcatProperties
  <2> QED BY <1>1, <1>2, <1>3, <2>1
<1>6. ASSUME NEW h \in 1..(Len(s) - 1) PROVE (a \o b)[h] = IF h < i THEN s[h] ELSE s[h + 1]
  <2>1. CASE h < i
    <3>1. h \in 1..(i - 1) /\ h \in 1..Len(a) BY <1>1, <1>2, <2>1
    <3>2. (a \o b)[h] = a[h] BY <1>2, <1>3, <3>1
    <3> QED BY <1>2, <2>1, <3>1, <3>2
  <2>2. CASE h >= i
    <3>1. h \in Nat /\ h \in 1..Len(a \o b) /\ h > Len(a) BY <1>1, <1>2, <1>5, <2>2
    <3>2. (a \o b)[h] = b[h - Len(a)] BY <1>2, <1>3, <3>1
    <3>3. h - Len(a) \in 1..(Len(s) - i) /\ i + (h - Len(a)) = h + 1 BY <1>1, <1>2, <2>2
    <3>4. b[h - Len(a)] = s[i + (h - Len(a))] BY <1>3, <3>3
    <3>5. ~(h < i) BY <1>1, <2>2
    <3> QED BY <3>2, <3>3, <3>4, <3>5
  <2>3. h < i \/ h >= i BY <1>1
  <2> QED BY <2>1, <2>2, <2>3
<1> QED BY <1>4, <1>5, <1>6

\* The largest of some numbers up to N.
LEMMA LargestOf ==
  ASSUME NEW N \in Nat, NEW x \in SUBSET (1..N), x # {}
  PROVE  Max(x) \in x /\ \A y \in x : y <= Max(x)
<1> DEFINE T == {d \in Nat : \E y \in x : d + y = N}
<1>1. \A y \in x : y \in Nat /\ y <= N OBVIOUS
<1>2. T # {}
  <2>1. PICK y \in x : TRUE OBVIOUS
  <2>2. N - y \in Nat /\ (N - y) + y = N BY <1>1
  <2> QED BY <2>1, <2>2
<1>3. PICK d \in T : \A e \in T : d <= e BY <1>2, LeastNat
<1>4. PICK z \in x : d + z = N BY <1>3
<1>5. \A y \in x : z >= y
  <2> TAKE y \in x
  <2>1. y \in Nat /\ y <= N /\ N - y \in Nat /\ (N - y) + y = N BY <1>1
  <2>2. N - y \in T BY <2>1
  <2>3. d <= N - y /\ d \in Nat BY <1>3, <2>2
  <2>4. z \in Nat BY <1>1, <1>4
  <2> QED BY <1>4, <2>1, <2>3, <2>4
<1> HIDE DEF T
<1>6. \E w \in x : \A y \in x : w >= y BY <1>5
<1>7. Max(x) \in x /\ \A y \in x : Max(x) >= y BY <1>6, Zenon DEF Max
<1> QED BY <1>1, <1>7

\* The elements of a list with one more, and of one behind the other.
LEMMA SetOfAppend ==
  ASSUME NEW S, NEW s \in Seq(S), NEW e \in S
  PROVE  /\ ToSet(Append(s, e)) = ToSet(s) \cup {e}
         /\ IsInjective(s) /\ e \notin ToSet(s) => IsInjective(Append(s, e))
<1> DEFINE r == Append(s, e)
<1>1. Len(s) \in Nat /\ DOMAIN s = 1..Len(s) /\ DOMAIN r = 1..(Len(s) + 1) OBVIOUS
<1>2. \A h \in 1..Len(s) : r[h] = s[h] OBVIOUS
<1>3. r[Len(s) + 1] = e OBVIOUS
<1> HIDE DEF r
<1>4. \A h \in 1..(Len(s) + 1) : h \in 1..Len(s) \/ h = Len(s) + 1 BY <1>1
<1>5. \A h \in 1..Len(s) : h \in 1..(Len(s) + 1) BY <1>1
<1>6. Len(s) + 1 \in 1..(Len(s) + 1) BY <1>1
<1>7. ToSet(r) = ToSet(s) \cup {e} BY <1>1, <1>2, <1>3, <1>4, <1>5, <1>6 DEF ToSet
<1>8. ASSUME IsInjective(s), e \notin ToSet(s), NEW h \in DOMAIN r, NEW g \in DOMAIN r, r[h] = r[g]
      PROVE  h = g
  <2>1. \A x, y \in DOMAIN s : s[x] = s[y] => x = y BY <1>8 DEF IsInjective
  <2>2. \A x \in DOMAIN s : s[x] # e BY <1>8 DEF ToSet
  <2> QED BY <1>1, <1>2, <1>3, <1>4, <1>8, <2>1, <2>2
<1> QED BY <1>7, <1>8 DEF r, IsInjective

\* The elements of two lists, one behind the other.
LEMMA SetOfConcat ==
  ASSUME NEW S, NEW s \in Seq(S), NEW t \in Seq(S)
  PROVE  ToSet(s \o t) = ToSet(s) \cup ToSet(t)
<1> DEFINE r == s \o t
<1>1. Len(s) \in Nat /\ Len(t) \in Nat /\ DOMAIN s = 1..Len(s) /\ DOMAIN t = 1..Len(t) OBVIOUS
<1>2. DOMAIN r = 1..(Len(s) + Len(t)) OBVIOUS
<1>3. \A h \in 1..Len(s) : r[h] = s[h] OBVIOUS
<1>4. \A h \in 1..(Len(s) + Len(t)) : h > Len(s) => r[h] = t[h - Len(s)] OBVIOUS
<1> HIDE DEF r
<1>5. \A h \in 1..(Len(s) + Len(t)) : h \in 1..Len(s) \/ (h > Len(s) /\ h - Len(s) \in 1..Len(t)) BY <1>1
<1>6. \A h \in 1..Len(s) : h \in 1..(Len(s) + Len(t)) BY <1>1
<1>7. ASSUME NEW h \in 1..Len(t) PROVE \E g \in 1..(Len(s) + Len(t)) : r[g] = t[h]
  <2>1. h + Len(s) \in 1..(Len(s) + Len(t)) /\ h + Len(s) > Len(s) /\ (h + Len(s)) - Len(s) = h BY <1>1
  <2> QED BY <1>4, <2>1
<1>8. \A x \in ToSet(r) : x \in ToSet(s) \cup ToSet(t) BY <1>1, <1>2, <1>3, <1>4, <1>5 DEF ToSet
<1>9. \A x \in ToSet(s) : x \in ToSet(r) BY <1>1, <1>2, <1>3, <1>6 DEF ToSet
<1>10. \A x \in ToSet(t) : x \in ToSet(r) BY <1>1, <1>2, <1>7 DEF ToSet
<1> QED BY <1>8, <1>9, <1>10 DEF r

\* The elements of a list without one of them.
LEMMA SetOfRemove ==
  ASSUME NEW S, NEW s \in Seq(S), NEW i \in 1..Len(s)
  PROVE  /\ ToSet(RemoveAt(s, i)) \subseteq ToSet(s) /\ ToSet(s) \ {s[i]} \subseteq ToSet(RemoveAt(s, i))
         /\ IsInjective(s) => /\ IsInjective(RemoveAt(s, i))
                              /\ ToSet(RemoveAt(s, i)) = ToSet(s) \ {s[i]}
<1> DEFINE r == RemoveAt(s, i)
<1>1. /\ r \in Seq(S) /\ Len(r) = Len(s) - 1
      /\ \A h \in 1..(Len(s) - 1) : r[h] = IF h < i THEN s[h] ELSE s[h + 1] BY RemoveFacts
<1>2. Len(s) \in Nat /\ DOMAIN s = 1..Len(s) /\ i \in Nat OBVIOUS
<1> HIDE DEF r
<1>3. DOMAIN r = 1..(Len(s) - 1) BY <1>1
<1>4. \A h \in 1..(Len(s) - 1) :
        \/ h < i /\ h \in 1..Len(s) /\ r[h] = s[h] /\ h # i
        \/ h >= i /\ h + 1 \in 1..Len(s) /\ r[h] = s[h + 1] /\ h + 1 # i BY <1>1, <1>2
<1>5. ASSUME NEW h \in 1..Len(s), h # i PROVE \E g \in 1..(Len(s) - 1) : r[g] = s[h]
  <2>1. CASE h < i
    <3>1. h \in 1..(Len(s) - 1) BY <1>2, <2>1
    <3> QED BY <1>1, <2>1, <3>1
  <2>2. CASE h > i
    <3>1. h - 1 \in 1..(Len(s) - 1) /\ ~(h - 1 < i) /\ (h - 1) + 1 = h BY <1>2, <2>2
    <3> QED BY <1>1, <3>1
  <2> QED BY <1>2, <1>5, <2>1, <2>2
<1>6. \A x \in ToSet(r) : x \in ToSet(s) BY <1>2, <1>3, <1>4 DEF ToSet
<1>7. \A x \in ToSet(s) : x # s[i] => x \in ToSet(r) BY <1>2, <1>3, <1>5 DEF ToSet
<1>8. ASSUME IsInjective(s) PROVE IsInjective(r) /\ s[i] \notin ToSet(r)
  <2>1. \A x, y \in 1..Len(s) : s[x] = s[y] => x = y BY <1>2, <1>8 DEF IsInjective
  <2>2. s[i] \notin ToSet(r) BY <1>2, <1>3, <1>4, <2>1 DEF ToSet
  <2>3. ASSUME NEW h \in DOMAIN r, NEW g \in DOMAIN r, r[h] = r[g] PROVE h = g
    <3>1. h \in Nat /\ g \in Nat /\ h \in 1..(Len(s) - 1) /\ g \in 1..(Len(s) - 1) BY <1>2, <1>3
    <3>2. CASE h < i /\ g < i BY <1>4, <2>1, <2>3, <3>1, <3>2, <1>2
    <3>3. CASE h < i /\ g >= i
      <4>1. h = g + 1 BY <1>2, <1>4, <2>1, <2>3, <3>1, <3>3
      <4> QED BY <1>2, <3>1, <3>3, <4>1
    <3>4. CASE h >= i /\ g < i
      <4>1. h + 1 = g BY <1>2, <1>4, <2>1, <2>3, <3>1, <3>4
      <4> QED BY <1>2, <3>1, <3>4, <4>1
    <3>5. CASE h >= i /\ g >= i
      <4>1. h + 1 = g + 1 BY <1>2, <1>4, <2>1, <2>3, <3>1, <3>5
      <4> QED BY <3>1, <4>1
    <3> QED BY <1>2, <3>1, <3>2, <3>3, <3>4, <3>5
  <2> QED BY <2>2, <2>3 DEF IsInjective
<1>9. IsInjective(s) => ToSet(r) = ToSet(s) \ {s[i]} BY <1>6, <1>7, <1>8
<1>10. ToSet(r) \subseteq ToSet(s) /\ ToSet(s) \ {s[i]} \subseteq ToSet(r) BY <1>6, <1>7
<1> QED BY <1>8, <1>9, <1>10 DEF r

-----------------------------------------------------------------------------
\* SequencesExt!FoldLeft over N elements: element n makes G[n, x] of x.
IsFold(h, N, a, G) ==
  h = [x \in SUBSET (1..N) |-> IF x = {} THEN a ELSE G[<<Max(x), h[x \ {Max(x)}]>>]]

\* The function that a fold evaluates exists.
LEMMA FoldExists ==
  ASSUME NEW N \in Nat, NEW A, NEW a \in A, NEW G \in [(1..N) \X A -> A]
  PROVE  \E h \in [SUBSET (1..N) -> A] : IsFold(h, N, a, G)
<1> DEFINE T == {n \in Nat : n <= N => \E h \in [SUBSET (1..n) -> A] : IsFold(h, n, a, G)}
<1>1. 0 \in T
  <2> DEFINE h == [x \in SUBSET (1..0) |-> a]
  <2>1. 1..0 = {} /\ SUBSET (1..0) = {{}} OBVIOUS
  <2>2. h \in [SUBSET (1..0) -> A] OBVIOUS
  <2>3. h = [x \in SUBSET (1..0) |-> IF x = {} THEN a ELSE G[<<Max(x), h[x \ {Max(x)}]>>]] BY <2>1
  <2> HIDE DEF h
  <2>4. IsFold(h, 0, a, G) BY <2>3 DEF IsFold
  <2> QED BY <2>2, <2>4
<1>2. ASSUME NEW n \in Nat, n \in T PROVE n + 1 \in T
  <2>0. n + 1 \in Nat /\ (n + 1 <= N => n <= N) OBVIOUS
  <2> SUFFICES ASSUME n + 1 <= N PROVE \E h \in [SUBSET (1..(n + 1)) -> A] : IsFold(h, n + 1, a, G)
    BY <2>0, Zenon
  <2>1. PICK f \in [SUBSET (1..n) -> A] : IsFold(f, n, a, G) BY <1>2, <2>0
  <2> DEFINE h == [x \in SUBSET (1..(n + 1)) |->
                    IF n + 1 \in x THEN G[<<n + 1, f[x \ {n + 1}]>>] ELSE f[x]]
  <2>2. \A x \in SUBSET (1..(n + 1)) : x \ {n + 1} \in SUBSET (1..n) /\ (n + 1 \notin x => x \in SUBSET (1..n))
    OBVIOUS
  <2>3. n + 1 \in 1..N BY <2>1
  <2>4. h \in [SUBSET (1..(n + 1)) -> A]
    <3> SUFFICES ASSUME NEW x \in SUBSET (1..(n + 1)) PROVE h[x] \in A OBVIOUS
    <3>1. f[x \ {n + 1}] \in A BY <2>2
    <3>2. G[<<n + 1, f[x \ {n + 1}]>>] \in A BY <2>3, <3>1
    <3>3. n + 1 \notin x => f[x] \in A BY <2>2
    <3> QED BY <3>2, <3>3
  <2>5. ASSUME NEW x \in SUBSET (1..(n + 1))
        PROVE  h[x] = IF x = {} THEN a ELSE G[<<Max(x), h[x \ {Max(x)}]>>]
    <3>1. CASE n + 1 \in x
      <4>1. x # {} BY <3>1
      <4>0. n + 1 \in Nat OBVIOUS
      <4>2. Max(x) \in x /\ \A y \in x : y <= Max(x)
        <5> HIDE DEF h
        <5> QED BY <4>0, <4>1, LargestOf
      <4>3. Max(x) \in 1..(n + 1) /\ n + 1 <= Max(x) BY <3>1, <4>2
      <4>4. Max(x) = n + 1 BY <4>3
      <4>5. h[x \ {n + 1}] = f[x \ {n + 1}] BY <2>2
      <4>6. h[x] = G[<<n + 1, f[x \ {n + 1}]>>] BY <3>1
      <4> HIDE DEF h
      <4> QED BY <4>1, <4>4, <4>5, <4>6
    <3>2. CASE n + 1 \notin x
      <4>1. x \in SUBSET (1..n) BY <2>2, <3>2
      <4>2. h[x] = f[x] BY <3>2
      <4>3. f[x] = IF x = {} THEN a ELSE G[<<Max(x), f[x \ {Max(x)}]>>] BY <2>1, <4>1 DEF IsFold
      <4>4. x \ {Max(x)} \in SUBSET (1..(n + 1)) /\ n + 1 \notin x \ {Max(x)} BY <3>2
      <4>5. h[x \ {Max(x)}] = f[x \ {Max(x)}] BY <4>4
      <4> HIDE DEF h
      <4> QED BY <4>2, <4>3, <4>5
    <3> QED BY <3>1, <3>2
  <2>6. h = [x \in SUBSET (1..(n + 1)) |-> h[x]] OBVIOUS
  <2> HIDE DEF h
  <2>7. IsFold(h, n + 1, a, G) BY <2>5, <2>6 DEF IsFold
  <2> QED BY <2>4, <2>7
<1>3. N \in T
  <2> HIDE DEF T
  <2> QED BY <1>1, <1>2, NatSet
<1>4. N <= N OBVIOUS
<1> QED BY <1>3, <1>4, Zenon

\* The same with what its values are where the fold goes.
Folds(h, N, A, a, G) ==
  /\ h = [x \in SUBSET (1..N) |-> IF x = {} THEN a ELSE G[<<Max(x), h[x \ {Max(x)}]>>]]
  /\ \A x \in SUBSET (1..N) : x # {} => Max(x) \in 1..N /\ h[x \ {Max(x)}] \in A

LEMMA FoldThere ==
  ASSUME NEW N \in Nat, NEW A, NEW a \in A, NEW G \in [(1..N) \X A -> A]
  PROVE  \E h : Folds(h, N, A, a, G)
<1>1. PICK h \in [SUBSET (1..N) -> A] : IsFold(h, N, a, G) BY FoldExists
<1>2. \A x \in SUBSET (1..N) : x # {} => Max(x) \in 1..N /\ x \ {Max(x)} \in SUBSET (1..N) BY LargestOf
<1> QED BY <1>1, <1>2 DEF Folds, IsFold

\* g does with the values in A and each element what G does.
FoldOf(g, N, A, a, G) ==
  /\ g[{}] = a
  /\ \A x \in SUBSET (1..N) : /\ x # {} /\ Max(x) \in 1..N
                              /\ x \ {Max(x)} \in SUBSET (1..N) /\ g[x \ {Max(x)}] \in A
                              => g[x] = G[<<Max(x), g[x \ {Max(x)}]>>]

\* The value a is in P[0]; element n leads from a value of A in P[n - 1] to one in P[n].
Leads(N, A, a, G, P) ==
  /\ a \in A /\ a \in P[0] /\ G \in [(1..N) \X A -> A]
  /\ \A n \in 1..N : \A v \in A : v \in P[n - 1] => G[<<n, v>>] \in P[n]

\* What holds in the beginning of a fold and from each element to the next
\* holds in the end.
LEMMA FoldEnds ==
  ASSUME NEW N \in Nat, NEW A, NEW a, NEW G, NEW g, NEW P, FoldOf(g, N, A, a, G), Leads(N, A, a, G, P)
  PROVE  g[1..N] \in A /\ g[1..N] \in P[N]
<1>a. \A x \in SUBSET (1..N) : x # {} => Max(x) \in 1..N /\ x \ {Max(x)} \in SUBSET (1..N) BY LargestOf
<1>0. /\ G \in [(1..N) \X A -> A]
      /\ g[{}] \in A /\ g[{}] \in P[0]
      /\ \A x \in SUBSET (1..N) : x # {} /\ g[x \ {Max(x)}] \in A => g[x] = G[<<Max(x), g[x \ {Max(x)}]>>]
      /\ \A n \in 1..N : \A v \in A : v \in P[n - 1] => G[<<n, v>>] \in P[n]
  BY <1>a DEF FoldOf, Leads
<1> DEFINE T == {n \in Nat : n <= N => g[1..n] \in A /\ g[1..n] \in P[n]}
<1>1. 0 \in T
  <2>1. 1..0 = {} OBVIOUS
  <2> QED BY <1>0, <2>1
<1>2. ASSUME NEW n \in Nat, n \in T PROVE n + 1 \in T
  <2> SUFFICES ASSUME n + 1 <= N PROVE g[1..(n + 1)] \in A /\ g[1..(n + 1)] \in P[n + 1] OBVIOUS
  <2> DEFINE x == 1..(n + 1)
  <2>1. g[1..n] \in A /\ g[1..n] \in P[n] BY <1>2
  <2>2. x \in SUBSET (1..N) /\ x # {} /\ n + 1 \in x
    <3>1. \A i \in 1..(n + 1) : i \in 1..N OBVIOUS
    <3>2. n + 1 \in 1..(n + 1) OBVIOUS
    <3> QED BY <3>1, <3>2
  <2>3. Max(x) \in x /\ \A y \in x : y <= Max(x) BY <2>2, LargestOf
  <2>4. Max(x) = n + 1
    <3>1. Max(x) \in 1..(n + 1) /\ n + 1 <= Max(x) BY <2>2, <2>3
    <3> QED BY <3>1
  <2>5. x \ {n + 1} = 1..n OBVIOUS
  <2> HIDE DEF x
  <2>6. g[x] = G[<<n + 1, g[1..n]>>] BY <1>0, <2>1, <2>2, <2>4, <2>5
  <2>7. n + 1 \in 1..N /\ (n + 1) - 1 = n BY <1>2
  <2>8. g[x] \in A BY <1>0, <2>1, <2>6, <2>7
  <2>9. g[x] \in P[n + 1] BY <1>0, <2>1, <2>6, <2>7
  <2> QED BY <2>8, <2>9 DEF x
<1> HIDE DEF T
<1>3. N \in T BY <1>1, <1>2, NatSet
<1> QED BY <1>3 DEF T

\* In particular, it is in A.
LEMMA FoldIn ==
  ASSUME NEW N \in Nat, NEW A, NEW a \in A, NEW G \in [(1..N) \X A -> A], NEW g, FoldOf(g, N, A, a, G)
  PROVE  g[1..N] \in A
<1> DEFINE P == [n \in Nat |-> A]
<1>1. Leads(N, A, a, G, P) BY DEF Leads
<1> HIDE DEF P
<1> QED BY <1>1, FoldEnds

-----------------------------------------------------------------------------
\* SequencesExt!SetToSeq lists a finite set.
LEMMA SetToSeqFacts ==
  ASSUME NEW S, IsFiniteSet(S)
  PROVE  /\ SetToSeq(S) \in Seq(S) /\ Len(SetToSeq(S)) = Cardinality(S)
         /\ IsInjective(SetToSeq(S)) /\ ToSet(SetToSeq(S)) = S
<1> DEFINE n == Cardinality(S)
<1>1. n \in Nat BY FS_CardinalityType
<1>2. PICK b : b \in Bijection(1..n, S) BY FS_CardinalityType DEF ExistsBijection
<1>3. b \in [1..n -> S] /\ IsInjective(b) BY <1>2 DEF Bijection, Injection, IsInjective
<1> DEFINE s == SetToSeq(S)
<1>4. s \in [1..n -> S] /\ IsInjective(s) BY <1>3, Zenon DEF SetToSeq
<1> HIDE DEF s
<1>5. s \in Seq(S) /\ Len(s) = n /\ DOMAIN s = 1..n BY <1>1, <1>4
<1>6. s \in Injection(1..n, S) BY <1>4 DEF Injection, IsInjective
<1>7. IsFiniteSet(1..n) /\ Cardinality(1..n) = n BY <1>1, FS_Interval
<1>8. s \in Surjection(1..n, S) BY <1>6, <1>7, FS_Injection
<1>9. ToSet(s) = S BY <1>4, <1>5, <1>8 DEF Surjection, ToSet
<1> QED BY <1>4, <1>5, <1>9 DEF s

-----------------------------------------------------------------------------
\* The sum of the weights of the elements of a list.
SumOf(w, s) == (CHOOSE f : f = [n \in 0..Len(s) |-> IF n = 0 THEN 0 ELSE f[n - 1] + w[s[n]]])[Len(s)]

Weighed(w, s) == \A n \in 1..Len(s) : w[s[n]] \in Int
Sums(f, w, s) == f[0] = 0 /\ \A n \in 1..Len(s) : f[n] = f[n - 1] + w[s[n]]

\* There are partial sums, and the last of them is the sum.
LEMMA SumFacts ==
  ASSUME NEW S, NEW s \in Seq(S), NEW w, Weighed(w, s)
  PROVE  /\ SumOf(w, s) \in Int
         /\ \E f \in [0..Len(s) -> Int] : Sums(f, w, s) /\ f[Len(s)] = SumOf(w, s)
<1>1. PICK N \in Nat : N = Len(s) OBVIOUS
<1> DEFINE G == [z \in (1..N) \X Int |-> z[2] + w[s[z[1]]]]
           E(f) == f = [n \in 0..N |-> IF n = 0 THEN 0 ELSE f[n - 1] + w[s[n]]]
<1>2. G \in [(1..N) \X Int -> Int] /\ 0 \in Int BY <1>1 DEF Weighed
<1>3. \A n \in 1..N : \A v \in Int : G[<<n, v>>] = v + w[s[n]] OBVIOUS
<1> HIDE DEF G
<1>4. PICK f \in [0..N -> Int] : IsRun(f, N, 0, G) BY <1>1, <1>2, RunExists
<1>5. \A n \in 1..N : n \in Nat /\ n # 0 /\ n - 1 \in 0..N OBVIOUS
<1>6. ASSUME NEW n \in 1..N PROVE f[n] = f[n - 1] + w[s[n]] BY <1>3, <1>4, <1>5 DEF IsRun
<1>7. f[0] = 0 BY <1>4 DEF IsRun
<1>8. \A n \in 0..N : n = 0 \/ n \in 1..N OBVIOUS
<1>9. f = [n \in 0..N |-> IF n = 0 THEN 0 ELSE f[n - 1] + w[s[n]]] BY <1>4, <1>6, <1>7, <1>8
<1>10. E(f) BY <1>9
<1> HIDE DEF E
<1>11. E(CHOOSE g : E(g)) BY <1>10, Zenon
<1> DEFINE g == CHOOSE h : E(h)
<1>12. g = [n \in 0..N |-> IF n = 0 THEN 0 ELSE g[n - 1] + w[s[n]]] BY <1>11 DEF E
<1>13. SumOf(w, s) = g[N] BY <1>1 DEF SumOf, E
<1> HIDE DEF g
<1>14. Sums(g, w, s)
  <2>1. 0 \in 0..N /\ g[0] = 0 BY <1>12
  <2>2. ASSUME NEW n \in 1..N PROVE g[n] = g[n - 1] + w[s[n]]
    <3>1. n \in 0..N /\ n # 0 OBVIOUS
    <3> QED BY <1>12, <3>1
  <2> QED BY <1>1, <2>1, <2>2 DEF Sums
<1> DEFINE T == {n \in Nat : n <= N => g[n] = f[n]}
<1>15. 0 \in T BY <1>7, <1>14 DEF Sums
<1>16. ASSUME NEW n \in Nat, n \in T PROVE n + 1 \in T
  <2> SUFFICES ASSUME n + 1 <= N PROVE g[n + 1] = f[n + 1] OBVIOUS
  <2>1. n + 1 \in 1..N /\ (n + 1) - 1 = n /\ n <= N OBVIOUS
  <2>2. f[n + 1] = f[n] + w[s[n + 1]] BY <1>6, <2>1
  <2>3. g[n + 1] = g[n] + w[s[n + 1]] BY <1>1, <1>14, <2>1 DEF Sums
  <2>4. g[n] = f[n] BY <1>16, <2>1
  <2> QED BY <2>2, <2>3, <2>4
<1>17. g[N] = f[N]
  <2> HIDE DEF T
  <2>1. Nat \subseteq T BY <1>15, <1>16, NatSet
  <2>2. N \in T BY <1>1, <2>1
  <2> QED BY <2>2 DEF T
<1>18. Sums(f, w, s) BY <1>1, <1>6, <1>7 DEF Sums
<1>19. f[N] \in Int BY <1>4
<1> QED BY <1>1, <1>4, <1>13, <1>17, <1>18, <1>19

\* Any function with the partial sums has the sum.
LEMMA SumUnique ==
  ASSUME NEW S, NEW s \in Seq(S), NEW w, Weighed(w, s), NEW f, Sums(f, w, s)
  PROVE  f[Len(s)] = SumOf(w, s)
<1>1. PICK g \in [0..Len(s) -> Int] : Sums(g, w, s) /\ g[Len(s)] = SumOf(w, s) BY SumFacts
<1> DEFINE T == {n \in Nat : n <= Len(s) => f[n] = g[n]}
<1>2. 0 \in T BY <1>1 DEF Sums
<1>3. ASSUME NEW n \in Nat, n \in T PROVE n + 1 \in T
  <2> SUFFICES ASSUME n + 1 <= Len(s) PROVE f[n + 1] = g[n + 1] OBVIOUS
  <2>1. n + 1 \in 1..Len(s) /\ (n + 1) - 1 = n /\ n <= Len(s) OBVIOUS
  <2>2. f[n + 1] = f[n] + w[s[n + 1]] BY <2>1 DEF Sums
  <2>3. g[n + 1] = g[n] + w[s[n + 1]] BY <1>1, <2>1 DEF Sums
  <2> QED BY <1>3, <2>1, <2>2, <2>3
<1>4. Len(s) \in Nat OBVIOUS
<1>5. Len(s) \in T
  <2> HIDE DEF T
  <2> QED BY <1>2, <1>3, <1>4, NatSet
<1> QED BY <1>1, <1>4, <1>5

\* Nothing weighs nothing.
LEMMA SumEmpty ==
  ASSUME NEW w PROVE SumOf(w, <<>>) = 0 /\ Weighed(w, <<>>)
<1>1. <<>> \in Seq({}) /\ Len(<<>>) = 0 OBVIOUS
<1>2. Weighed(w, <<>>) BY DEF Weighed
<1>3. Sums([n \in {0} |-> 0], w, <<>>) BY DEF Sums
<1> DEFINE f == [n \in {0} |-> 0]
<1> HIDE DEF f
<1>4. f[Len(<<>>)] = SumOf(w, <<>>) BY <1>1, <1>2, <1>3, SumUnique DEF f
<1> QED BY <1>1, <1>2, <1>4 DEF f

\* Weights that agree on the elements give the same sum.
LEMMA SumCongruence ==
  ASSUME NEW S, NEW s \in Seq(S), NEW w, Weighed(w, s), NEW v,
         \A n \in 1..Len(s) : v[s[n]] = w[s[n]]
  PROVE  SumOf(v, s) = SumOf(w, s) /\ Weighed(v, s)
<1>1. PICK f \in [0..Len(s) -> Int] : Sums(f, w, s) /\ f[Len(s)] = SumOf(w, s) BY SumFacts
<1>2. Weighed(v, s) BY DEF Weighed
<1>3. Sums(f, v, s) BY <1>1 DEF Sums
<1> QED BY <1>1, <1>2, <1>3, SumUnique

\* The sum of two lists, one behind the other.
LEMMA SumConcat ==
  ASSUME NEW S, NEW s \in Seq(S), NEW t \in Seq(S), NEW w, Weighed(w, s), Weighed(w, t)
  PROVE  SumOf(w, s \o t) = SumOf(w, s) + SumOf(w, t) /\ Weighed(w, s \o t)
<1>1. PICK f \in [0..Len(s) -> Int] : Sums(f, w, s) /\ f[Len(s)] = SumOf(w, s) BY SumFacts
<1>2. PICK g \in [0..Len(t) -> Int] : Sums(g, w, t) /\ g[Len(t)] = SumOf(w, t) BY SumFacts
<1> DEFINE n == Len(s)
           r == s \o t
           h == [i \in 0..(n + Len(t)) |-> IF i <= n THEN f[i] ELSE f[n] + g[i - n]]
<1>3. r \in Seq(S) /\ Len(r) = n + Len(t) /\ n \in Nat /\ Len(t) \in Nat OBVIOUS
<1>4. \A i \in 1..n : r[i] = s[i] OBVIOUS
<1>5. \A i \in (n + 1)..(n + Len(t)) : r[i] = t[i - n] OBVIOUS
<1> HIDE DEF r
<1>6. h[0] = 0 BY <1>1, <1>3 DEF Sums
<1>7. ASSUME NEW i \in 1..(n + Len(t))
      PROVE  h[i] = h[i - 1] + w[r[i]] /\ w[r[i]] \in Int
  <2>0. i \in 0..(n + Len(t)) /\ i - 1 \in 0..(n + Len(t)) /\ i \in Nat BY <1>3
  <2>1. CASE i <= n
    <3>1. i \in 1..n /\ i - 1 <= n BY <1>3, <2>1
    <3>2. f[i] = f[i - 1] + w[s[i]] BY <1>1, <3>1 DEF Sums
    <3>3. h[i] = f[i] /\ h[i - 1] = f[i - 1] BY <2>0, <2>1, <3>1
    <3>4. w[s[i]] \in Int BY <3>1 DEF Weighed
    <3> QED BY <1>4, <3>1, <3>2, <3>3, <3>4
  <2>2. CASE i > n
    <3>1. i - n \in 1..Len(t) /\ i \in (n + 1)..(n + Len(t)) /\ (i - n) - 1 \in 0..Len(t) /\ (i - n) - 1 = (i - 1) - n
      BY <1>3, <2>2
    <3>2. g[i - n] = g[(i - n) - 1] + w[t[i - n]] BY <1>2, <3>1 DEF Sums
    <3>3. w[t[i - n]] \in Int BY <3>1 DEF Weighed
    <3>4. h[i] = f[n] + g[i - n] BY <1>3, <2>0, <2>2
    <3>5. h[i - 1] = f[n] + g[(i - n) - 1]
      <4>1. CASE i - 1 = n
        <5>1. g[(i - n) - 1] = 0 BY <1>2, <1>3, <4>1, <3>1 DEF Sums
        <5>2. h[i - 1] = f[n] BY <2>0, <4>1, <1>3
        <5>3. f[n] \in Int BY <1>1, <1>3
        <5> QED BY <5>1, <5>2, <5>3
      <4>2. CASE i - 1 > n BY <1>3, <2>0, <3>1, <4>2
      <4> QED BY <1>3, <2>0, <2>2, <4>1, <4>2
    <3>6. f[n] \in Int /\ g[i - n] \in Int /\ g[(i - n) - 1] \in Int
      <4>1. n \in 0..n /\ i - n \in 0..Len(t) BY <1>3, <3>1
      <4> HIDE DEF h
      <4> QED BY <1>1, <1>2, <3>1, <4>1
    <3>7. r[i] = t[i - n] BY <1>5, <3>1
    <3> HIDE DEF h
    <3> QED BY <3>2, <3>3, <3>4, <3>5, <3>6, <3>7
  <2>3. i <= n \/ i > n BY <1>3, <2>0
  <2> HIDE DEF h
  <2> QED BY <2>1, <2>2, <2>3
<1>8. h[n + Len(t)] = f[n] + g[Len(t)]
  <2>1. CASE Len(t) = 0
    <3>1. g[Len(t)] = 0 /\ f[n] \in Int BY <1>1, <1>2, <1>3, <2>1 DEF Sums
    <3>2. h[n + Len(t)] = f[n] BY <1>3, <2>1
    <3> QED BY <3>1, <3>2
  <2>2. CASE Len(t) > 0 BY <1>3, <2>2
  <2> QED BY <1>3, <2>1, <2>2
<1> HIDE DEF h
<1>9. Sums(h, w, r) /\ Weighed(w, r) BY <1>3, <1>6, <1>7 DEF Sums, Weighed
<1>10. h[Len(r)] = SumOf(w, r) BY <1>3, <1>9, SumUnique
<1> QED BY <1>1, <1>2, <1>3, <1>8, <1>9, <1>10 DEF r

\* The sum of a list with one more element, and of one without an element.
LEMMA SumAppend ==
  ASSUME NEW S, NEW s \in Seq(S), NEW w, Weighed(w, s), NEW e \in S, w[e] \in Int
  PROVE  SumOf(w, Append(s, e)) = SumOf(w, s) + w[e] /\ Weighed(w, Append(s, e))
<1> DEFINE t == <<e>>
           f == [n \in 0..1 |-> IF n = 0 THEN 0 ELSE w[e]]
<1>1. t \in Seq(S) /\ Len(t) = 1 /\ t[1] = e /\ Append(s, e) = s \o t OBVIOUS
<1>2. f[0] = 0 /\ f[1] = 0 + w[e] /\ f[1] = w[e] OBVIOUS
<1> HIDE DEF f, t
<1>3. Weighed(w, t) BY <1>1 DEF Weighed
<1>4. \A n \in 1..1 : n = 1 /\ n - 1 = 0 OBVIOUS
<1>5. Sums(f, w, t) BY <1>1, <1>2, <1>4 DEF Sums
<1>6. SumOf(w, t) = w[e] BY <1>1, <1>2, <1>3, <1>5, SumUnique
<1> QED BY <1>1, <1>3, <1>6, SumConcat

\* The sum without an element.
LEMMA SumRemove ==
  ASSUME NEW S, NEW s \in Seq(S), NEW w, Weighed(w, s), NEW j \in 1..Len(s)
  PROVE  /\ SumOf(w, RemoveAt(s, j)) = SumOf(w, s) - w[s[j]]
         /\ Weighed(w, RemoveAt(s, j))
<1>1. PICK f \in [0..Len(s) -> Int] : Sums(f, w, s) /\ f[Len(s)] = SumOf(w, s) BY SumFacts
<1> DEFINE n == Len(s)
           r == RemoveAt(s, j)
           h == [i \in 0..(n - 1) |-> IF i < j THEN f[i] ELSE f[i + 1] - w[s[j]]]
<1>2. r \in Seq(S) /\ Len(r) = n - 1 /\ \A i \in 1..(n - 1) : r[i] = IF i < j THEN s[i] ELSE s[i + 1]
  BY RemoveFacts
<1>3. n \in Nat /\ j \in Nat /\ 1 <= j /\ j <= n OBVIOUS
<1> HIDE DEF r
<1>4. f[j] = f[j - 1] + w[s[j]] /\ w[s[j]] \in Int BY <1>1 DEF Sums, Weighed
<1>5. \A i \in 0..n : f[i] \in Int BY <1>1
<1>6. h[0] = 0 BY <1>1, <1>3 DEF Sums
<1>7. ASSUME NEW i \in 1..(n - 1) PROVE h[i] = h[i - 1] + w[r[i]] /\ w[r[i]] \in Int
  <2>0. i \in 0..(n - 1) /\ i - 1 \in 0..(n - 1) /\ i \in 0..n /\ i + 1 \in 1..n /\ i - 1 \in 0..n /\ i \in 1..n
        /\ (i - 1) + 1 = i /\ (i + 1) - 1 = i BY <1>3
  <2>1. CASE i < j
    <3>1. f[i] = f[i - 1] + w[s[i]] BY <1>1, <2>0 DEF Sums
    <3>0. i - 1 < j BY <1>3, <2>0, <2>1
    <3>2. h[i] = f[i] /\ h[i - 1] = f[i - 1] BY <2>0, <2>1, <3>0
    <3>3. w[s[i]] \in Int BY <2>0 DEF Weighed
    <3>4. r[i] = s[i] BY <1>2, <2>1
    <3> HIDE DEF h
    <3> QED BY <3>1, <3>2, <3>3, <3>4
  <2>2. CASE i >= j
    <3>1. f[i + 1] = f[i] + w[s[i + 1]] BY <1>1, <2>0 DEF Sums
    <3>2. w[s[i + 1]] \in Int BY <2>0 DEF Weighed
    <3>3. h[i] = f[i + 1] - w[s[j]] BY <1>3, <2>0, <2>2
    <3>4. h[i - 1] = f[i] - w[s[j]]
      <4>1. CASE i = j
        <5>1. h[i - 1] = f[j - 1] BY <1>3, <2>0, <4>1
        <5>2. f[j - 1] \in Int BY <1>5, <2>0, <4>1
        <5> QED BY <1>4, <4>1, <5>1, <5>2
      <4>2. CASE i > j
        <5>1. ~(i - 1 < j) BY <1>3, <2>0, <4>2
        <5>2. h[i - 1] = f[(i - 1) + 1] - w[s[j]] BY <2>0, <5>1
        <5> HIDE DEF h
        <5> QED BY <2>0, <5>2
      <4> QED BY <1>3, <2>0, <2>2, <4>1, <4>2
    <3>5. f[i] \in Int /\ f[i + 1] \in Int BY <1>5, <2>0
    <3>6. r[i] = s[i + 1] BY <1>2, <1>3, <2>2
    <3> HIDE DEF h
    <3> QED BY <1>4, <3>1, <3>2, <3>3, <3>4, <3>5, <3>6
  <2>3. i < j \/ i >= j BY <1>3, <2>0
  <2> HIDE DEF h
  <2> QED BY <2>1, <2>2, <2>3
<1>8. h[n - 1] = f[n] - w[s[j]]
  <2>1. CASE j = n
    <3>1. h[n - 1] = f[n - 1] BY <1>3, <2>1
    <3>2. f[n - 1] \in Int BY <1>3, <1>5
    <3> QED BY <1>4, <2>1, <3>1, <3>2
  <2>2. CASE j < n BY <1>3, <2>2
  <2> QED BY <1>3, <2>1, <2>2
<1> HIDE DEF h
<1>9. Sums(h, w, r) /\ Weighed(w, r) BY <1>2, <1>6, <1>7 DEF Sums, Weighed
<1>10. h[Len(r)] = SumOf(w, r) BY <1>2, <1>9, SumUnique
<1> QED BY <1>1, <1>2, <1>8, <1>9, <1>10 DEF r

\* Two lists of the same elements, each there once, weigh the same.
LEMMA SumSame ==
  ASSUME NEW S, NEW w, NEW s \in Seq(S), NEW t \in Seq(S), Weighed(w, s),
         IsInjective(s), IsInjective(t), ToSet(s) = ToSet(t)
  PROVE  SumOf(w, t) = SumOf(w, s) /\ Weighed(w, t)
<1> DEFINE Same(a, b) == Weighed(w, a) /\ IsInjective(a) /\ IsInjective(b) /\ ToSet(a) = ToSet(b)
           T == {n \in Nat : \A a, b \in Seq(S) : Len(a) = n /\ Same(a, b)
                                                   => SumOf(w, b) = SumOf(w, a) /\ Weighed(w, b)}
<1>1. 0 \in T
  <2> SUFFICES ASSUME NEW a \in Seq(S), NEW b \in Seq(S), Len(a) = 0, Same(a, b)
               PROVE  SumOf(w, b) = SumOf(w, a) /\ Weighed(w, b) OBVIOUS
  <2>1. a = <<>> OBVIOUS
  <2>2. DOMAIN a = {} BY <2>1
  <2>3. DOMAIN b = {}
    <3>1. ToSet(a) = {} BY <2>2, Zenon DEF ToSet
    <3>2. \A k \in DOMAIN b : b[k] \in ToSet(b) BY DEF ToSet
    <3> QED BY <3>1, <3>2
  <2>4. b = <<>> BY <2>3
  <2> QED BY <2>1, <2>4, SumEmpty
<1>2. ASSUME NEW n \in Nat, n \in T PROVE n + 1 \in T
  <2> SUFFICES ASSUME NEW a \in Seq(S), NEW b \in Seq(S), Len(a) = n + 1, Same(a, b)
               PROVE  SumOf(w, b) = SumOf(w, a) /\ Weighed(w, b) OBVIOUS
  <2>0. Weighed(w, a) /\ IsInjective(a) /\ IsInjective(b) /\ ToSet(a) = ToSet(b) OBVIOUS
  <2>1. n + 1 \in 1..Len(a) /\ DOMAIN a = 1..Len(a) /\ DOMAIN b = 1..Len(b) OBVIOUS
  <2>2. a[n + 1] \in ToSet(b) BY <2>0, <2>1 DEF ToSet
  <2>3. PICK j \in 1..Len(b) : b[j] = a[n + 1] BY <2>1, <2>2 DEF ToSet
  <2>4. PICK i \in 1..Len(a) : i = n + 1 BY <2>1
  <2> DEFINE x == RemoveAt(a, i)
             y == RemoveAt(b, j)
  <2>5. x \in Seq(S) /\ Len(x) = n /\ y \in Seq(S)
    <3>1. x \in Seq(S) /\ Len(x) = Len(a) - 1 BY <2>4, RemoveFacts
    <3>2. y \in Seq(S) BY <2>3, RemoveFacts
    <3> HIDE DEF x, y
    <3> QED BY <3>1, <3>2
  <2>6. IsInjective(x) /\ ToSet(x) = ToSet(a) \ {a[i]} BY <2>0, <2>4, SetOfRemove
  <2>7. IsInjective(y) /\ ToSet(y) = ToSet(b) \ {b[j]} BY <2>0, <2>3, SetOfRemove
  <2>8. SumOf(w, x) = SumOf(w, a) - w[a[i]] /\ Weighed(w, x) BY <2>0, <2>4, SumRemove
  <2> HIDE DEF x, y
  <2>9. Same(x, y) BY <2>0, <2>3, <2>4, <2>6, <2>7, <2>8
  <2>10. SumOf(w, y) = SumOf(w, x) /\ Weighed(w, y) BY <1>2, <2>5, <2>9
  <2>11. \A k \in 1..Len(b) : b[k] \in ToSet(a) BY <2>0, <2>1 DEF ToSet
  <2>12. \A k \in 1..Len(b) : w[b[k]] \in Int BY <2>0, <2>1, <2>11 DEF ToSet, Weighed
  <2>13. Weighed(w, b) BY <2>12 DEF Weighed
  <2>14. SumOf(w, y) = SumOf(w, b) - w[b[j]] BY <2>3, <2>13, SumRemove DEF y
  <2>15. SumOf(w, b) \in Int /\ SumOf(w, a) \in Int /\ w[a[i]] \in Int /\ w[b[j]] = w[a[i]]
    BY <2>0, <2>3, <2>4, <2>13, SumFacts DEF Weighed
  <2> QED BY <2>8, <2>10, <2>13, <2>14, <2>15
<1>3. Len(s) \in T
  <2> HIDE DEF T
  <2>1. Nat \subseteq T BY <1>1, <1>2, NatSet
  <2>2. Len(s) \in Nat OBVIOUS
  <2> QED BY <2>1, <2>2
<1> QED BY <1>3

\* The lesser of two numbers.
LEMMA MinOf ==
  ASSUME NEW u \in Int, NEW v \in Int
  PROVE  Min({u, v}) \in Int /\ (Min({u, v}) = u \/ Min({u, v}) = v) /\ Min({u, v}) <= u /\ Min({u, v}) <= v
<1> DEFINE r == IF u <= v THEN u ELSE v
<1>1. r \in {u, v} /\ \A y \in {u, v} : r <= y OBVIOUS
<1>2. Min({u, v}) \in {u, v} /\ \A y \in {u, v} : Min({u, v}) <= y BY <1>1 DEF Min
<1> QED BY <1>2

\* The least number of a set is in it.
LEMMA LeastIn ==
  ASSUME NEW T \in SUBSET Nat, T # {} PROVE Min(T) \in T
<1>1. \E i \in T : \A h \in T : i <= h BY LeastNat
<1> QED BY <1>1 DEF Min

\* The least of three numbers.
LEMMA MinOfThree ==
  ASSUME NEW u \in Int, NEW v \in Int, NEW w \in Int
  PROVE  Min({u, v, w}) \in Int
<1> DEFINE p == IF u <= v THEN u ELSE v
           r == IF p <= w THEN p ELSE w
<1>1. r \in {u, v, w} /\ \A y \in {u, v, w} : r <= y OBVIOUS
<1>2. Min({u, v, w}) \in {u, v, w} BY <1>1 DEF Min
<1> QED BY <1>2

-----------------------------------------------------------------------------
(***************************************************************************)
(* Sequences one behind the other                                          *)
(***************************************************************************)
Joins(f, ss) == f[0] = <<>> /\ \A n \in 1..Len(ss) : f[n] = f[n - 1] \o ss[n]

\* SequencesExt!FlattenSeq joins some sequences, one after the other.
LEMMA FlattenFacts ==
  ASSUME NEW T, NEW ss \in Seq(Seq(T))
  PROVE  \E f \in [0..Len(ss) -> Seq(T)] : Joins(f, ss) /\ FlattenSeq(ss) = f[Len(ss)]
<1>1. PICK N \in Nat : N = Len(ss) OBVIOUS
<1> DEFINE A == Seq(T)
           G == [z \in (1..N) \X A |-> z[2] \o ss[z[1]]]
           E(f) == f = [i \in 1..N |-> IF i = 1 THEN ss[i] ELSE f[i - 1] \o ss[i]]
<1>2. <<>> \in A /\ \A n \in 1..N : ss[n] \in A BY <1>1
<1>3. \A v, w \in A : v \o w \in A OBVIOUS
<1>4. \A v \in A : <<>> \o v = v OBVIOUS
<1>5. CASE N = 0
  <2> HIDE DEF A, G, E
  <2>0. ss = <<>> /\ Len(ss) = 0
    <3>1. ss \in Seq(Seq(T)) /\ Len(ss) = 0 BY <1>1, <1>5
    <3> QED BY <3>1, EmptySeq
  <2>1. FlattenSeq(ss) = <<>> BY <2>0, Zenon DEF FlattenSeq
  <2> DEFINE f == [n \in 0..N |-> <<>>]
  <2>2. f \in [0..N -> A] /\ f[N] = <<>> /\ f[0] = <<>> BY <1>2, <1>5
  <2>3. 1..N = {} BY <1>5
  <2> HIDE DEF f
  <2>4. Joins(f, ss) BY <1>1, <2>2, <2>3 DEF Joins
  <2> QED BY <1>1, <2>1, <2>2, <2>4 DEF A
<1>6. CASE N # 0
  <2> HIDE DEF A
  <2>1. G \in [(1..N) \X A -> A] BY <1>2, <1>3
  <2>2. \A n \in 1..N : \A v \in A : G[<<n, v>>] = v \o ss[n] OBVIOUS
  <2> HIDE DEF G
  <2>3. PICK f \in [0..N -> A] : IsRun(f, N, <<>>, G)
    <3>1. PICK a \in A : a = <<>> BY <1>2
    <3>2. \E f \in [0..N -> A] : IsRun(f, N, a, G) BY <2>1, RunExists
    <3> QED BY <3>1, <3>2
  <2>4. \A n \in 1..N : n \in 0..N /\ n - 1 \in 0..N OBVIOUS
  <2>5. \A n \in 1..N : f[n] = f[n - 1] \o ss[n] BY <2>2, <2>3, <2>4 DEF IsRun
  <2>6. f[0] = <<>> BY <2>3 DEF IsRun
  <2>7. f[1] = ss[1]
    <3>1. 1 \in 1..N /\ 1 - 1 = 0 BY <1>6
    <3>2. f[1] = f[1 - 1] \o ss[1] BY <2>5, <3>1
    <3> QED BY <1>2, <1>4, <2>6, <3>1, <3>2
  <2> DEFINE h == [i \in 1..N |-> f[i]]
  <2>8. \A i \in 1..N : i # 1 => i - 1 \in 1..N OBVIOUS
  <2>9. h = [i \in 1..N |-> IF i = 1 THEN ss[i] ELSE h[i - 1] \o ss[i]]
    <3>1. \A i \in 1..N : h[i] = IF i = 1 THEN ss[i] ELSE h[i - 1] \o ss[i] BY <2>5, <2>7, <2>8
    <3>2. h = [i \in 1..N |-> h[i]] OBVIOUS
    <3> HIDE DEF h
    <3> QED BY <3>1, <3>2
  <2> HIDE DEF h
  <2>10. E(h) BY <2>9
  <2>11. FlattenSeq(ss) = (CHOOSE g : E(g))[N] BY <1>1, <1>6 DEF FlattenSeq
  <2> HIDE DEF E
  <2>12. E(CHOOSE g : E(g)) BY <2>10, Zenon
  <2> DEFINE g == CHOOSE x : E(x)
  <2>13. g = [i \in 1..N |-> IF i = 1 THEN ss[i] ELSE g[i - 1] \o ss[i]] BY <2>12, Zenon DEF E
  <2>14. FlattenSeq(ss) = g[N] BY <2>11
  <2> HIDE DEF g
  <2> DEFINE P == {n \in Nat : n + 1 <= N => g[n + 1] = f[n + 1]}
  <2>15. 0 \in P BY <2>7, <2>13
  <2>16. ASSUME NEW n \in Nat, n \in P PROVE n + 1 \in P
    <3> SUFFICES ASSUME (n + 1) + 1 <= N PROVE g[(n + 1) + 1] = f[(n + 1) + 1] OBVIOUS
    <3>1. (n + 1) + 1 \in 1..N /\ (n + 1) + 1 # 1 /\ ((n + 1) + 1) - 1 = n + 1 /\ n + 1 <= N OBVIOUS
    <3>2. f[(n + 1) + 1] = f[n + 1] \o ss[(n + 1) + 1] BY <2>5, <3>1
    <3>3. g[(n + 1) + 1] = g[n + 1] \o ss[(n + 1) + 1] BY <2>13, <3>1
    <3> QED BY <2>16, <3>1, <3>2, <3>3
  <2>17. N - 1 \in Nat /\ (N - 1) + 1 = N BY <1>6
  <2>18. N - 1 \in P
    <3> HIDE DEF P
    <3> QED BY <2>15, <2>16, <2>17, NatSet
  <2>19. g[N] = f[N] BY <2>17, <2>18
  <2>20. Joins(f, ss) BY <1>1, <2>5, <2>6 DEF Joins
  <2> QED BY <1>1, <2>3, <2>14, <2>19, <2>20 DEF A
<1> QED BY <1>5, <1>6

\* What joins the sequences says what FlattenSeq returns.
LEMMA FlattenUnique ==
  ASSUME NEW T, NEW ss \in Seq(Seq(T)), NEW f, Joins(f, ss)
  PROVE  FlattenSeq(ss) = f[Len(ss)]
<1>1. PICK g \in [0..Len(ss) -> Seq(T)] : Joins(g, ss) /\ FlattenSeq(ss) = g[Len(ss)] BY FlattenFacts
<1> DEFINE P == {n \in Nat : n <= Len(ss) => g[n] = f[n]}
<1>2. 0 \in P BY <1>1 DEF Joins
<1>3. ASSUME NEW n \in Nat, n \in P PROVE n + 1 \in P
  <2> SUFFICES ASSUME n + 1 <= Len(ss) PROVE g[n + 1] = f[n + 1] OBVIOUS
  <2>1. n + 1 \in 1..Len(ss) /\ (n + 1) - 1 = n /\ n <= Len(ss) OBVIOUS
  <2>2. g[n + 1] = g[n] \o ss[n + 1] /\ f[n + 1] = f[n] \o ss[n + 1] BY <1>1, <2>1 DEF Joins
  <2> QED BY <1>3, <2>1, <2>2
<1>4. Len(ss) \in Nat OBVIOUS
<1>5. Len(ss) \in P
  <2> HIDE DEF P
  <2> QED BY <1>2, <1>3, <1>4, NatSet
<1> QED BY <1>1, <1>4, <1>5

\* The first i - 1 sequences and the i-th one are not longer than all of them.
LEMMA FlattenPrefix ==
  ASSUME NEW T, NEW ss \in Seq(Seq(T)), NEW i \in 1..Len(ss)
  PROVE  /\ FlattenSeq(ss) \in Seq(T) /\ FlattenSeq([k \in 1..(i - 1) |-> ss[k]]) \in Seq(T)
         /\ Len(FlattenSeq([k \in 1..(i - 1) |-> ss[k]])) + Len(ss[i]) <= Len(FlattenSeq(ss))
<1>1. PICK f \in [0..Len(ss) -> Seq(T)] : Joins(f, ss) /\ FlattenSeq(ss) = f[Len(ss)] BY FlattenFacts
<1> DEFINE p == [k \in 1..(i - 1) |-> ss[k]]
<1>2. i \in Nat /\ i - 1 \in Nat /\ Len(ss) \in Nat /\ i - 1 \in 0..Len(ss) /\ i \in 0..Len(ss) OBVIOUS
<1>3. p \in Seq(Seq(T)) /\ Len(p) = i - 1
  <2>1. \A k \in 1..(i - 1) : ss[k] \in Seq(T) BY <1>2
  <2> QED BY <1>2, <2>1
<1>4. \A k \in 1..(i - 1) : p[k] = ss[k] /\ k \in 1..Len(ss) BY <1>2
<1> HIDE DEF p
<1>5. Joins(f, p) BY <1>1, <1>3, <1>4 DEF Joins
<1>6. FlattenSeq(p) = f[i - 1] BY <1>3, <1>5, FlattenUnique
<1>7. f[i] = f[i - 1] \o ss[i] BY <1>1 DEF Joins
<1>8. \A n \in 0..Len(ss) : f[n] \in Seq(T) /\ Len(f[n]) \in Nat
  <2> TAKE n \in 0..Len(ss)
  <2>1. f[n] \in Seq(T) BY <1>1
  <2> QED BY <2>1
<1>9. Len(f[i]) = Len(f[i - 1]) + Len(ss[i]) BY <1>2, <1>7, <1>8
<1> DEFINE P == {n \in Nat : i + n <= Len(ss) => Len(f[i]) <= Len(f[i + n])}
<1>10. 0 \in P BY <1>2, <1>8
<1>11. ASSUME NEW n \in Nat, n \in P PROVE n + 1 \in P
  <2> SUFFICES ASSUME i + (n + 1) <= Len(ss) PROVE Len(f[i]) <= Len(f[i + (n + 1)]) OBVIOUS
  <2>1. i + (n + 1) \in 1..Len(ss) /\ (i + (n + 1)) - 1 = i + n /\ i + n <= Len(ss) /\ i + n \in 0..Len(ss)
    BY <1>2
  <2>2. f[i + (n + 1)] = f[i + n] \o ss[i + (n + 1)] BY <1>1, <2>1 DEF Joins
  <2>3. ss[i + (n + 1)] \in Seq(T) BY <2>1
  <2>4. Len(f[i + (n + 1)]) = Len(f[i + n]) + Len(ss[i + (n + 1)]) /\ Len(ss[i + (n + 1)]) \in Nat
    BY <1>8, <2>1, <2>2, <2>3
  <2>5. Len(f[i]) <= Len(f[i + n]) BY <1>11, <2>1
  <2>6. Len(f[i]) \in Nat /\ Len(f[i + n]) \in Nat BY <1>2, <1>8, <2>1
  <2>7. \A a, b, d \in Nat : a <= b => a <= b + d OBVIOUS
  <2> HIDE DEF P
  <2> QED BY <2>4, <2>5, <2>6, <2>7, Zenon
<1>12. Len(ss) - i \in Nat /\ i + (Len(ss) - i) = Len(ss) BY <1>2
<1>13. Len(ss) - i \in P
  <2> HIDE DEF P
  <2> QED BY <1>10, <1>11, <1>12, NatSet
<1>14. Len(f[i]) <= Len(f[Len(ss)]) BY <1>12, <1>13
<1>15. Len(f[i - 1]) + Len(ss[i]) <= Len(FlattenSeq(ss)) BY <1>1, <1>9, <1>14
<1>16. FlattenSeq(ss) \in Seq(T) /\ FlattenSeq(p) \in Seq(T)
  <2>1. Len(ss) \in 0..Len(ss) BY <1>2
  <2> QED BY <1>1, <1>2, <1>6, <1>8, <2>1
<1> HIDE DEF P
<1>17. Len(FlattenSeq(p)) + Len(ss[i]) <= Len(FlattenSeq(ss)) BY <1>6, <1>15
<1> QED BY <1>16, <1>17 DEF p

\* The same without an index.
LEMMA FlattenSeqIs ==
  ASSUME NEW T, NEW ss \in Seq(Seq(T)) PROVE FlattenSeq(ss) \in Seq(T)
<1>1. PICK f \in [0..Len(ss) -> Seq(T)] : FlattenSeq(ss) = f[Len(ss)] BY FlattenFacts
<1>2. Len(ss) \in 0..Len(ss) OBVIOUS
<1> QED BY <1>1, <1>2

\* Nothing is joined to nothing; one more sequence comes behind the others.
LEMMA FlattenAppend ==
  ASSUME NEW T, NEW ss \in Seq(Seq(T)), NEW x \in Seq(T)
  PROVE  FlattenSeq(<<>>) = <<>> /\ FlattenSeq(Append(ss, x)) = FlattenSeq(ss) \o x
<1>1. PICK f \in [0..Len(ss) -> Seq(T)] : Joins(f, ss) /\ FlattenSeq(ss) = f[Len(ss)] BY FlattenFacts
<1> DEFINE N == Len(ss)
           r == Append(ss, x)
           h == [n \in 0..(N + 1) |-> IF n <= N THEN f[n] ELSE f[N] \o x]
<1>2. N \in Nat /\ r \in Seq(Seq(T)) /\ Len(r) = N + 1 /\ r[N + 1] = x /\ \A n \in 1..N : r[n] = ss[n] OBVIOUS
<1> HIDE DEF r, N
<1>3. h[0] = <<>> BY <1>1, <1>2 DEF Joins
<1>4. ASSUME NEW n \in 1..(N + 1) PROVE h[n] = h[n - 1] \o r[n]
  <2>1. n \in 0..(N + 1) /\ n - 1 \in 0..(N + 1) /\ n \in Nat /\ n - 1 <= N BY <1>2
  <2>2. CASE n <= N
    <3>1. n \in 1..N BY <2>1, <2>2
    <3>2. f[n] = f[n - 1] \o ss[n] BY <1>1, <3>1 DEF Joins, N
    <3>3. h[n] = f[n] /\ h[n - 1] = f[n - 1] BY <2>1, <2>2
    <3> QED BY <1>2, <3>1, <3>2, <3>3
  <2>3. CASE ~(n <= N)
    <3>1. n = N + 1 /\ n - 1 = N BY <1>2, <2>1, <2>3
    <3>2. h[n] = f[N] \o x /\ h[n - 1] = f[N] BY <2>1, <2>3, <3>1
    <3> QED BY <1>2, <3>1, <3>2
  <2> QED BY <2>2, <2>3
<1>5. h[N + 1] = f[N] \o x BY <1>2
<1> HIDE DEF h
<1>6. Joins(h, r) BY <1>2, <1>3, <1>4 DEF Joins
<1>7. FlattenSeq(r) = h[N + 1] BY <1>2, <1>6, FlattenUnique
<1>8. FlattenSeq(<<>>) = <<>>
  <2> DEFINE e == <<>>
  <2>1. e = <<>> /\ Len(e) = 0 OBVIOUS
  <2> HIDE DEF e
  <2>2. FlattenSeq(e) = <<>> BY <2>1, Zenon DEF FlattenSeq
  <2> QED BY <2>2 DEF e
<1> QED BY <1>1, <1>5, <1>7, <1>8 DEF r, N

\* What a function makes of a list with one more element.
Mapped(s, g) == [k \in DOMAIN s |-> g[s[k]]]
MappedNext(s, x, g) == Mapped(Append(s, x), g) = Append(Mapped(s, g), g[x])

LEMMA MapAppend ==
  ASSUME NEW S, NEW s \in Seq(S), NEW x \in S, NEW R, NEW g \in [S -> R]
  PROVE  Mapped(s, g) \in Seq(R) /\ MappedNext(s, x, g)
<1> DEFINE r == Append(s, x)
           p == [k \in DOMAIN s |-> g[s[k]]]
           q == [k \in DOMAIN r |-> g[r[k]]]
<1>1. PICK N \in Nat : N = Len(s) /\ DOMAIN s = 1..N OBVIOUS
<1>2. DOMAIN r = 1..(N + 1) /\ r[N + 1] = x /\ \A n \in 1..N : r[n] = s[n] BY <1>1
<1> HIDE DEF r
<1>3. \A n \in 1..N : g[s[n]] \in R BY <1>1
<1>4. p = [k \in 1..N |-> g[s[k]]] BY <1>1
<1>5. p \in Seq(R) /\ Len(p) = N BY <1>3, <1>4
<1> DEFINE a == Append(p, g[x])
<1>6. DOMAIN a = 1..(N + 1) /\ a[N + 1] = g[x] /\ \A n \in 1..N : a[n] = g[s[n]]
  <2>1. \A n \in 1..N : p[n] = g[s[n]] BY <1>4
  <2> HIDE DEF p
  <2> QED BY <1>5, <2>1
<1>7. q = [k \in 1..(N + 1) |-> g[r[k]]] BY <1>2
<1>8. a = [k \in 1..(N + 1) |-> a[k]]
  <2>1. a \in Seq(R) /\ Len(a) = N + 1
    <3> HIDE DEF p
    <3> QED BY <1>5
  <2> HIDE DEF a
  <2> QED BY <2>1
<1> HIDE DEF a, p, q
<1>9. \A k \in 1..(N + 1) : g[r[k]] = a[k]
  <2> TAKE k \in 1..(N + 1)
  <2>1. k \in 1..N \/ k = N + 1 OBVIOUS
  <2> QED BY <1>2, <1>6, <2>1
<1>10. q = a BY <1>7, <1>8, <1>9
<1> QED BY <1>5, <1>10 DEF r, p, q, a, Mapped, MappedNext

\* A set with the empty sequence that one element more does not leave has all
\* the sequences.
LEMMA SeqInduction ==
  ASSUME NEW S, NEW T, <<>> \in T, \A s \in Seq(S) : \A x \in S : s \in T => Append(s, x) \in T
  PROVE  Seq(S) \subseteq T
<1> DEFINE P == {n \in Nat : \A s \in Seq(S) : Len(s) = n => s \in T}
<1>1. 0 \in P
  <2>1. ASSUME NEW s \in Seq(S), Len(s) = 0 PROVE s \in T
    <3>1. s = <<>> BY <2>1, EmptySeq
    <3> QED BY <3>1
  <2> QED BY <2>1
<1>2. ASSUME NEW n \in Nat, n \in P PROVE n + 1 \in P
  <2>1. ASSUME NEW s \in Seq(S), Len(s) = n + 1 PROVE s \in T
    <3> DEFINE t == [k \in 1..n |-> s[k]]
    <3>1. t \in Seq(S) /\ Len(t) = n /\ s[n + 1] \in S BY <2>1
    <3>2. Append(t, s[n + 1]) = s
      <4>1. s = [k \in 1..(n + 1) |-> s[k]] BY <2>1
      <4>2. Append(t, s[n + 1]) = [k \in 1..(n + 1) |-> IF k = n + 1 THEN s[n + 1] ELSE t[k]] BY <3>1
      <4>3. \A k \in 1..(n + 1) : (IF k = n + 1 THEN s[n + 1] ELSE t[k]) = s[k] OBVIOUS
      <4> HIDE DEF t
      <4> QED BY <4>1, <4>2, <4>3
    <3> HIDE DEF t
    <3>3. t \in T BY <1>2, <3>1
    <3> QED BY <3>1, <3>2, <3>3
  <2> QED BY <2>1
<1>3. ASSUME NEW s \in Seq(S) PROVE s \in T
  <2>1. Len(s) \in Nat OBVIOUS
  <2> HIDE DEF P
  <2>2. Len(s) \in P BY <1>1, <1>2, <2>1, NatSet
  <2> QED BY <2>2 DEF P
<1> QED BY <1>3

\* Behind two sequences, or behind the second one.
AppendedLast(s, t, x) == Append(s \o t, x) = s \o Append(t, x)

LEMMA ConcatAppend ==
  ASSUME NEW S, NEW s \in Seq(S), NEW t \in Seq(S), NEW x \in S
  PROVE  AppendedLast(s, t, x)
<1> DEFINE a == Append(s \o t, x)
           b == s \o Append(t, x)
<1>1. a \in Seq(S) /\ b \in Seq(S) /\ Len(a) = Len(s) + Len(t) + 1 /\ Len(b) = Len(s) + Len(t) + 1 OBVIOUS
<1>2. \A i \in 1..Len(a) : a[i] = b[i] OBVIOUS
<1> HIDE DEF a, b
<1>3. a = b BY <1>1, <1>2
<1> QED BY <1>3 DEF a, b, AppendedLast

\* Two sequences, one behind the other.
Concat(s, t, r) ==
  /\ Len(r) = Len(s) + Len(t) /\ DOMAIN r = 1..(Len(s) + Len(t))
  /\ \A j \in 1..Len(s) : r[j] = s[j]
  /\ \A f \in 1..Len(t) : r[Len(s) + f] = t[f]

\* That is what their concatenation is.
LEMMA ConcatIs ==
  ASSUME NEW S, NEW s \in Seq(S), NEW t \in Seq(S)
  PROVE  s \o t \in Seq(S) /\ Concat(s, t, s \o t)
<1> DEFINE r == s \o t
<1>1. Len(s) \in Nat /\ Len(t) \in Nat OBVIOUS
<1>2. r \in Seq(S) /\ Len(r) = Len(s) + Len(t) OBVIOUS
<1>3. \A j \in 1..(Len(s) + Len(t)) : r[j] = IF j <= Len(s) THEN s[j] ELSE t[j - Len(s)] OBVIOUS
<1> HIDE DEF r
<1>4. DOMAIN r = 1..(Len(s) + Len(t)) BY <1>1, <1>2
<1>5. \A j \in 1..Len(s) : r[j] = s[j] BY <1>1, <1>3
<1>6. ASSUME NEW f \in 1..Len(t) PROVE r[Len(s) + f] = t[f]
  <2>1. Len(s) + f \in 1..(Len(s) + Len(t)) /\ ~(Len(s) + f <= Len(s)) /\ (Len(s) + f) - Len(s) = f BY <1>1
  <2> QED BY <1>3, <2>1
<1>7. Concat(s, t, r) BY <1>2, <1>4, <1>5, <1>6 DEF Concat
<1> QED BY <1>2, <1>7 DEF r

\* One behind the other, in any grouping.
Grouped(s, t, r) == s \o (t \o r) = (s \o t) \o r

LEMMA ConcatGrouped ==
  ASSUME NEW S, NEW s \in Seq(S), NEW t \in Seq(S), NEW r \in Seq(S)
  PROVE  Grouped(s, t, r) /\ Len(s \o t) = Len(s) + Len(t)
<1> DEFINE a == s \o (t \o r)
           b == (s \o t) \o r
<1>1. a \in Seq(S) /\ b \in Seq(S) /\ Len(a) = Len(s) + Len(t) + Len(r) /\ Len(b) = Len(s) + Len(t) + Len(r) OBVIOUS
<1>2. \A i \in 1..Len(a) : a[i] = b[i] OBVIOUS
<1>4. Len(s \o t) = Len(s) + Len(t) OBVIOUS
<1> HIDE DEF a, b
<1>3. a = b BY <1>1, <1>2
<1> QED BY <1>3, <1>4 DEF a, b, Grouped

\* What is before one of the elements, and one more element.
LEMMA PrefixAppend ==
  ASSUME NEW S, NEW f \in Seq(S), NEW x \in S
  PROVE  /\ \A k \in DOMAIN f : SubSeq(Append(f, x), 1, k - 1) = SubSeq(f, 1, k - 1)
         /\ SubSeq(Append(f, x), 1, Len(f)) = f
         /\ DOMAIN Append(f, x) = DOMAIN f \cup {Len(f) + 1} /\ Len(f) + 1 \notin DOMAIN f
         /\ Append(f, x)[Len(f) + 1] = x /\ \A k \in DOMAIN f : Append(f, x)[k] = f[k]
<1> DEFINE r == Append(f, x)
<1>1. PICK N \in Nat : N = Len(f) /\ DOMAIN f = 1..N OBVIOUS
<1>2. r \in Seq(S) /\ Len(r) = N + 1 /\ DOMAIN r = 1..(N + 1) /\ r[N + 1] = x /\ \A k \in 1..N : r[k] = f[k] BY <1>1
<1> HIDE DEF r
<1>3. \A n \in 0..N : SubSeq(r, 1, n) = [i \in 1..n |-> r[i]] /\ SubSeq(f, 1, n) = [i \in 1..n |-> f[i]] BY <1>1, <1>2
<1>4. \A n \in 0..N : \A i \in 1..n : r[i] = f[i]
  <2>1. \A n \in 0..N : \A i \in 1..n : i \in 1..N BY <1>1
  <2> QED BY <1>2, <2>1
<1>5. \A n \in 0..N : SubSeq(r, 1, n) = SubSeq(f, 1, n) BY <1>3, <1>4
<1>6. \A k \in 1..N : k - 1 \in 0..N BY <1>1
<1>7. SubSeq(f, 1, N) = f
  <2>1. N \in 0..N BY <1>1
  <2>2. f = [i \in 1..N |-> f[i]] BY <1>1
  <2> QED BY <1>3, <2>1, <2>2
<1>8. N \in 0..N /\ 1..(N + 1) = 1..N \cup {N + 1} /\ N + 1 \notin 1..N BY <1>1
<1> QED BY <1>1, <1>2, <1>5, <1>6, <1>7, <1>8 DEF r

\* What is before an element, and what is behind it.
Before(q, at) == SubSeq(q, 1, at - 1)
After(q, at) == SubSeq(q, at + 1, Len(q))

\* A sequence is what is before one of its elements, this one and what is behind it.
LEMMA SplitAt ==
  ASSUME NEW S, NEW q \in Seq(S), NEW at \in 1..Len(q)
  PROVE  /\ Before(q, at) \in Seq(S) /\ Len(Before(q, at)) = at - 1 /\ \A j \in 1..(at - 1) : Before(q, at)[j] = q[j]
         /\ After(q, at) \in Seq(S) /\ Len(After(q, at)) = Len(q) - at
         /\ \A j \in 1..(Len(q) - at) : After(q, at)[j] = q[at + j]
<1> DEFINE u == Before(q, at)
           v == After(q, at)
<1>1. PICK N \in Nat : N = Len(q) /\ at \in 1..N /\ at \in Nat /\ at >= 1 /\ at <= N OBVIOUS
<1>2. u \in Seq(S) /\ Len(u) = at - 1 /\ \A j \in 1..(at - 1) : u[j] = q[j]
  <2>1. \A j \in 1..(at - 1) : j \in 1..N BY <1>1
  <2>2. \A j \in 1..(at - 1) : q[j] \in S BY <1>1, <2>1
  <2>3. 1 \in Int /\ at - 1 \in Int BY <1>1
  <2>4. SubSeq(q, 1, at - 1) \in Seq(S) BY <2>2, <2>3, SubSeqProperties
  <2>5. Len(SubSeq(q, 1, at - 1)) = at - 1 /\ \A j \in 1..(at - 1) : SubSeq(q, 1, at - 1)[j] = q[j] BY <1>1
  <2> QED BY <2>4, <2>5 DEF Before
<1>3. v \in Seq(S) /\ Len(v) = N - at /\ \A j \in 1..(N - at) : v[j] = q[at + j]
  <2>1. \A j \in (at + 1)..N : j \in 1..N BY <1>1
  <2>2. \A j \in (at + 1)..N : q[j] \in S BY <1>1, <2>1
  <2>3. at + 1 \in Int /\ N \in Int BY <1>1
  <2>4. SubSeq(q, at + 1, N) \in Seq(S) BY <2>2, <2>3, SubSeqProperties
  <2>5. Len(SubSeq(q, at + 1, N)) = N - at BY <1>1
  <2>6. ASSUME NEW j \in 1..(N - at) PROVE SubSeq(q, at + 1, N)[j] = q[at + j]
    <3>1. SubSeq(q, at + 1, N) = [i \in 1..(N - at) |-> q[((at + 1) + i) - 1]]
      <4>1. (1 + N) - (at + 1) = N - at BY <1>1
      <4>2. SubSeq(q, at + 1, N) = [i \in 1..((1 + N) - (at + 1)) |-> q[(i + (at + 1)) - 1]] BY <1>1
      <4> QED BY <1>1, <4>1, <4>2
    <3>2. ((at + 1) + j) - 1 = at + j BY <1>1
    <3> QED BY <3>1, <3>2
  <2> QED BY <1>1, <2>4, <2>5, <2>6 DEF After
<1> HIDE DEF u, v
<1> QED BY <1>1, <1>2, <1>3 DEF u, v

\* What is before it, and another element.
Changed(a, q, at, p) == Len(a) = at /\ \A j \in 1..at : a[j] = IF j = at THEN p ELSE q[j]

LEMMA PutLast ==
  ASSUME NEW S, NEW q \in Seq(S), NEW at \in 1..Len(q), NEW p \in S
  PROVE  /\ Append(Before(q, at), p) \in Seq(S) /\ Changed(Append(Before(q, at), p), q, at, p)
         /\ \A r \in Seq(S) : Changed(r, q, at, p) => r = Append(Before(q, at), p)
<1> DEFINE u == Before(q, at)
           a == Append(u, p)
<1>1. at \in Nat /\ at >= 1 OBVIOUS
<1>2. u \in Seq(S) /\ Len(u) = at - 1 /\ \A j \in 1..(at - 1) : u[j] = q[j] BY SplitAt
<1> HIDE DEF u
<1>3. a \in Seq(S) /\ Len(a) = at BY <1>1, <1>2
<1>4. \A j \in 1..at : a[j] = IF j = at THEN p ELSE q[j]
  <2>2. a[at] = p BY <1>1, <1>2
  <2>3. \A j \in 1..(at - 1) : a[j] = q[j] BY <1>1, <1>2
  <2>4. \A j \in 1..at : j = at \/ j \in 1..(at - 1) BY <1>1
  <2>5. \A j \in 1..(at - 1) : j # at BY <1>1
  <2> HIDE DEF a
  <2> QED BY <2>2, <2>3, <2>4, <2>5
<1> HIDE DEF a
<1>5. ASSUME NEW r \in Seq(S), Changed(r, q, at, p) PROVE r = a
  <2>1. \A j \in 1..at : r[j] = a[j] BY <1>4, <1>5 DEF Changed
  <2>2. Len(r) = at BY <1>5 DEF Changed
  <2> QED BY <1>1, <1>3, <2>1, <2>2
<1>6. Changed(a, q, at, p) BY <1>3, <1>4 DEF Changed
<1> QED BY <1>3, <1>5, <1>6 DEF a, u

\* What is before it, another element, and what is behind it.
LEMMA PutAt ==
  ASSUME NEW S, NEW q \in Seq(S), NEW at \in 1..Len(q), NEW p \in S, NEW r \in Seq(S), Len(r) = Len(q),
         \A j \in 1..Len(q) : r[j] = IF j = at THEN p ELSE q[j]
  PROVE  r = Append(Before(q, at), p) \o After(q, at)
<1> DEFINE a == Append(Before(q, at), p)
           v == After(q, at)
           b == a \o v
<1>1. PICK N \in Nat : N = Len(q) /\ at \in 1..N /\ at \in Nat /\ at >= 1 /\ at <= N OBVIOUS
<1>2. a \in Seq(S) /\ Len(a) = at /\ \A j \in 1..at : a[j] = IF j = at THEN p ELSE q[j]
  <2>1. a \in Seq(S) /\ Changed(a, q, at, p) BY PutLast
  <2> QED BY <2>1 DEF Changed
<1>3. v \in Seq(S) /\ Len(v) = N - at /\ \A j \in 1..(N - at) : v[j] = q[at + j] BY <1>1, SplitAt
<1> HIDE DEF a, v
<1>4. a \o v \in Seq(S) /\ Concat(a, v, a \o v) BY <1>2, <1>3, ConcatIs
<1>5. b \in Seq(S) /\ Concat(a, v, b) BY <1>4
<1> HIDE DEF b
<1>6. Len(b) = N BY <1>1, <1>2, <1>3, <1>5 DEF Concat
<1>7. ASSUME NEW j \in 1..N PROVE b[j] = r[j]
  <2>1. CASE j <= at
    <3>1. j \in 1..at BY <1>1, <2>1
    <3> QED BY <1>1, <1>2, <1>5, <3>1 DEF Concat
  <2>2. CASE ~(j <= at)
    <3>1. j - at \in 1..(N - at) /\ at + (j - at) = j /\ j # at BY <1>1, <2>2
    <3>2. b[at + (j - at)] = v[j - at] BY <1>2, <1>3, <1>5, <3>1 DEF Concat
    <3>3. v[j - at] = q[at + (j - at)] BY <1>3, <3>1
    <3> QED BY <1>1, <3>1, <3>2, <3>3
  <2> QED BY <2>1, <2>2
<1>8. b = r BY <1>1, <1>5, <1>6, <1>7
<1> QED BY <1>8 DEF b, a, v
-----------------------------------------------------------------------------
\* A sequence whose elements are in T.
LEMMA SeqWithin ==
  ASSUME NEW S, NEW s \in Seq(S), NEW T, \A i \in 1..Len(s) : s[i] \in T
  PROVE  s \in Seq(T)
OBVIOUS

\* A list without its first element.
LEMMA TailIs ==
  ASSUME NEW S, NEW q \in Seq(S), q # <<>>, IsInjective(q)
  PROVE  /\ Tail(q) \in Seq(S) /\ Len(Tail(q)) = Len(q) - 1 /\ IsInjective(Tail(q))
         /\ ToSet(Tail(q)) = ToSet(q) \ {Head(q)} /\ Head(q) \in ToSet(q) /\ Head(q) = q[1]
<1> DEFINE t == Tail(q)
           n == Len(q)
<1>1. n \in Nat /\ n >= 1 /\ DOMAIN q = 1..n /\ Head(q) = q[1] OBVIOUS
<1>2. t \in Seq(S) /\ Len(t) = n - 1 /\ DOMAIN t = 1..(n - 1) /\ \A i \in 1..(n - 1) : t[i] = q[i + 1] OBVIOUS
<1>3. \A i, j \in 1..n : q[i] = q[j] => i = j BY <1>1 DEF IsInjective
<1> HIDE DEF t, n
<1>4. IsInjective(t)
  <2>1. ASSUME NEW i \in 1..(n - 1), NEW j \in 1..(n - 1), t[i] = t[j] PROVE i = j
    <3>1. i + 1 \in 1..n /\ j + 1 \in 1..n /\ q[i + 1] = q[j + 1] BY <1>1, <1>2, <2>1
    <3>2. i + 1 = j + 1 BY <1>3, <3>1
    <3> QED BY <3>2
  <2> QED BY <1>2, <2>1 DEF IsInjective
<1>5. ToSet(t) = ToSet(q) \ {q[1]}
  <2>1. \A i \in 1..n : i = 1 \/ (i - 1 \in 1..(n - 1) /\ q[i] = t[i - 1] /\ q[i] # q[1])
    <3>1. ASSUME NEW i \in 1..n, i # 1 PROVE i - 1 \in 1..(n - 1) /\ q[i] = t[i - 1] /\ q[i] # q[1]
      <4>1. i - 1 \in 1..(n - 1) /\ (i - 1) + 1 = i BY <1>1, <3>1
      <4>2. 1 \in 1..n BY <1>1
      <4> QED BY <1>2, <1>3, <3>1, <4>1, <4>2
    <3> QED BY <3>1
  <2>2. \A i \in 1..(n - 1) : i + 1 \in 1..n /\ t[i] = q[i + 1] /\ q[i + 1] # q[1]
    <3>1. ASSUME NEW i \in 1..(n - 1) PROVE i + 1 \in 1..n /\ t[i] = q[i + 1] /\ q[i + 1] # q[1]
      <4>1. i + 1 \in 1..n /\ i + 1 # 1 /\ 1 \in 1..n BY <1>1
      <4> QED BY <1>2, <1>3, <4>1
    <3> QED BY <3>1
  <2>3. ToSet(t) = {t[i] : i \in 1..(n - 1)} /\ ToSet(q) = {q[i] : i \in 1..n} BY <1>1, <1>2 DEF ToSet
  <2> QED BY <2>1, <2>2, <2>3
<1>6. q[1] \in ToSet(q)
  <2>1. 1 \in 1..n BY <1>1
  <2> QED BY <1>1, <2>1 DEF ToSet
<1> QED BY <1>1, <1>2, <1>4, <1>5, <1>6 DEF t, n

\* The elements in T of a list of n, found one after the other.
Chosen(f, s, T) == f[0] = <<>> /\ \A n \in 1..Len(s) : f[n] = IF s[n] \in T THEN Append(f[n - 1], s[n]) ELSE f[n - 1]

\* What finds them says what OnlyThose returns.
LEMMA OnlyThoseRun ==
  ASSUME NEW S, NEW s \in Seq(S), NEW T, NEW f \in [0..Len(s) -> Seq(S)], Chosen(f, s, T)
  PROVE  OnlyThose(s, T) = f[Len(s)]
<1> DEFINE A == Seq(S)
<1>n. PICK N \in Nat : N = Len(s) /\ DOMAIN s = 1..N OBVIOUS
<1>b. <<>> \in A OBVIOUS
<1> DEFINE op(v, n) == IF s[n] \in T THEN Append(v, s[n]) ELSE v
           G == [z \in (1..N) \X A |-> op(z[2], z[1])]
           E(h) == h = [x \in SUBSET (DOMAIN s) |-> IF x = {} THEN <<>> ELSE op(h[x \ {Max(x)}], Max(x))]
           g == CHOOSE h : E(h)
<1>f1. ASSUME NEW n \in 1..N, NEW v \in A PROVE op(v, n) \in A
  <2>1. s[n] \in S BY <1>n
  <2> QED BY <2>1
<1>f0. \A n \in 1..N : n - 1 \in 0..N /\ n \in 0..N /\ f[n] = op(f[n - 1], n) BY <1>n DEF Chosen
<1>f2. OnlyThose(s, T) = g[DOMAIN s] BY DEF OnlyThose, FoldLeft, MapThenFoldSet
<1> HIDE DEF op, A
<1>f3. G \in [(1..N) \X A -> A] /\ \A n \in 1..N : \A v \in A : G[<<n, v>>] = op(v, n) BY <1>f1
<1> HIDE DEF G
<1>f4. PICK h : Folds(h, N, A, <<>>, G) BY <1>n, <1>b, <1>f3, FoldThere
<1>f5. E(h) BY <1>n, <1>f3, <1>f4 DEF Folds
<1>f6. E(g) BY <1>f5, Zenon DEF g
<1> HIDE DEF g
<1>f7. FoldOf(g, N, A, <<>>, G) BY <1>n, <1>f3, <1>f6, Zenon DEF FoldOf, E
<1> HIDE DEF E
<1> DEFINE P == [n \in Nat |-> {f[n]}]
<1>f8. <<>> \in P[0] /\ \A n \in 1..N : \A v \in A : v \in P[n - 1] => G[<<n, v>>] \in P[n]
  <2>1. f[0] = <<>> BY DEF Chosen
  <2>2. ASSUME NEW n \in 1..N, NEW v \in A, v \in P[n - 1] PROVE G[<<n, v>>] \in P[n]
    <3>1. n - 1 \in Nat /\ n \in Nat OBVIOUS
    <3>2. v = f[n - 1] BY <2>2, <3>1
    <3>3. G[<<n, v>>] = f[n] BY <1>f0, <1>f3, <3>2
    <3> QED BY <3>1, <3>3
  <2> QED BY <2>1, <2>2
<1> HIDE DEF P
<1>f9. Leads(N, A, <<>>, G, P) BY <1>b, <1>f3, <1>f8 DEF Leads
<1>f10. OnlyThose(s, T) \in P[N] BY <1>n, <1>f2, <1>f7, <1>f9, FoldEnds
<1> QED BY <1>n, <1>f10 DEF P

\* There is such a function.
LEMMA ChosenExists ==
  ASSUME NEW S, NEW s \in Seq(S), NEW T
  PROVE  \E f \in [0..Len(s) -> Seq(S)] : Chosen(f, s, T)
<1>n. PICK N \in Nat : N = Len(s) /\ DOMAIN s = 1..N OBVIOUS
<1> DEFINE A == Seq(S)
           G == [z \in (1..N) \X A |-> IF s[z[1]] \in T THEN Append(z[2], s[z[1]]) ELSE z[2]]
<1>1. \A n \in 1..N : \A v \in A : Append(v, s[n]) \in A
  <2>1. \A n \in 1..N : s[n] \in S BY <1>n
  <2> QED BY <2>1
<1>0. <<>> \in A OBVIOUS
<1> HIDE DEF A
<1>2. PICK a \in A : a = <<>> BY <1>0
<1>3. G \in [(1..N) \X A -> A] BY <1>1
<1>4. \A n \in 1..N : \A v \in A : G[<<n, v>>] = IF s[n] \in T THEN Append(v, s[n]) ELSE v OBVIOUS
<1> HIDE DEF G
<1>5. PICK f \in [0..N -> A] : IsRun(f, N, a, G) BY <1>3, RunExists
<1>6. \A n \in 1..N : n - 1 \in 0..N OBVIOUS
<1>7. \A n \in 1..N : f[n] = IF s[n] \in T THEN Append(f[n - 1], s[n]) ELSE f[n - 1] BY <1>4, <1>5, <1>6 DEF IsRun
<1>8. Chosen(f, s, T) BY <1>n, <1>2, <1>5, <1>7 DEF Chosen, IsRun
<1> QED BY <1>n, <1>8 DEF A

\* One more element, in T or not.
LEMMA OnlyThoseAppend ==
  ASSUME NEW S, NEW T
  PROVE  /\ OnlyThose(<<>>, T) = <<>>
         /\ \A s \in Seq(S) : \A x \in S :
              /\ OnlyThose(s, T) \in Seq(S)
              /\ OnlyThose(Append(s, x), T) = IF x \in T THEN Append(OnlyThose(s, T), x) ELSE OnlyThose(s, T)
<1>1. ASSUME NEW e, e = <<>> PROVE OnlyThose(e, T) = <<>>
  <2>1. e \in Seq(S) /\ Len(e) = 0 BY <1>1
  <2>2. PICK f \in [0..Len(e) -> Seq(S)] : Chosen(f, e, T) BY <2>1, ChosenExists
  <2>3. OnlyThose(e, T) = f[Len(e)] BY <2>1, <2>2, OnlyThoseRun
  <2> QED BY <2>1, <2>2, <2>3 DEF Chosen
<1>2. ASSUME NEW s \in Seq(S), NEW x \in S
      PROVE  /\ OnlyThose(s, T) \in Seq(S)
             /\ OnlyThose(Append(s, x), T) = IF x \in T THEN Append(OnlyThose(s, T), x) ELSE OnlyThose(s, T)
  <2> DEFINE r == Append(s, x)
  <2>1. PICK N \in Nat : N = Len(s) /\ DOMAIN s = 1..N OBVIOUS
  <2>2. r \in Seq(S) /\ Len(r) = N + 1 /\ r[N + 1] = x /\ \A n \in 1..N : r[n] = s[n] BY <2>1
  <2> HIDE DEF r
  <2>3. PICK f \in [0..Len(r) -> Seq(S)] : Chosen(f, r, T) BY <2>2, ChosenExists
  <2>4. f[0] = <<>> /\ \A n \in 1..(N + 1) : f[n] = IF r[n] \in T THEN Append(f[n - 1], r[n]) ELSE f[n - 1]
    BY <2>2, <2>3 DEF Chosen
  <2>5. f \in [0..(N + 1) -> Seq(S)] BY <2>2, <2>3
  <2> DEFINE h == [n \in 0..N |-> f[n]]
  <2>6. h \in [0..N -> Seq(S)] BY <2>5
  <2>7. \A n \in 1..N : n \in 1..(N + 1) /\ h[n] = f[n] /\ h[n - 1] = f[n - 1] OBVIOUS
  <2>8. h[0] = f[0] /\ h[N] = f[N] OBVIOUS
  <2> HIDE DEF h
  <2>9. \A n \in 1..N : h[n] = IF s[n] \in T THEN Append(h[n - 1], s[n]) ELSE h[n - 1] BY <2>2, <2>4, <2>7
  <2>10. Chosen(h, s, T) BY <2>1, <2>4, <2>8, <2>9 DEF Chosen
  <2>11. OnlyThose(s, T) = h[N] BY <2>1, <2>6, <2>10, OnlyThoseRun
  <2>12. OnlyThose(r, T) = f[N + 1] BY <2>2, <2>3, OnlyThoseRun
  <2>13. N + 1 \in 1..(N + 1) /\ (N + 1) - 1 = N /\ N \in 0..N OBVIOUS
  <2>14. f[N + 1] = IF x \in T THEN Append(f[N], x) ELSE f[N] BY <2>2, <2>4, <2>13
  <2> QED BY <2>6, <2>8, <2>11, <2>12, <2>13, <2>14 DEF r
<1> QED BY <1>1, <1>2, Zenon

\* The same for one sequence.
LEMMA OnlyThoseNext ==
  ASSUME NEW S, NEW s \in Seq(S), NEW x \in S, NEW T
  PROVE  /\ OnlyThose(s, T) \in Seq(S)
         /\ OnlyThose(Append(s, x), T) = IF x \in T THEN Append(OnlyThose(s, T), x) ELSE OnlyThose(s, T)
BY OnlyThoseAppend, Zenon

\* OnlyThose leaves a sequence of the elements that are in T.
LEMMA OnlyThoseIs ==
  ASSUME NEW S, NEW s \in Seq(S), NEW T
  PROVE  OnlyThose(s, T) \in Seq({x \in S : x \in T /\ x \in ToSet(s)})
<1> DEFINE U(r) == {x \in S : x \in T /\ x \in ToSet(r)}
           L == {r \in Seq(S) : OnlyThose(r, T) \in Seq(U(r))}
<1>1. <<>> \in L
  <2>1. <<>> \in Seq(S) /\ \A V : <<>> \in Seq(V) OBVIOUS
  <2>2. OnlyThose(<<>>, T) = <<>> BY OnlyThoseAppend
  <2> QED BY <2>1, <2>2
<1>2. ASSUME NEW r \in Seq(S), NEW x \in S, r \in L PROVE Append(r, x) \in L
  <2>1. ToSet(Append(r, x)) = ToSet(r) \cup {x} BY SetOfAppend
  <2>2. \E u : u = OnlyThose(r, T) /\ u \in Seq(U(r)) BY <1>2
  <2>3. PICK u : u = OnlyThose(r, T) /\ u \in Seq(U(r)) BY <2>2
  <2>9. OnlyThose(Append(r, x), T) = IF x \in T THEN Append(OnlyThose(r, T), x) ELSE OnlyThose(r, T) BY OnlyThoseNext
  <2>4. OnlyThose(Append(r, x), T) = IF x \in T THEN Append(u, x) ELSE u BY <2>3, <2>9
  <2> DEFINE A == U(r)
             B == U(Append(r, x))
  <2>5. A \subseteq B /\ (x \in T => x \in B) BY <2>1
  <2>6. u \in Seq(A) BY <2>3
  <2> HIDE DEF A, B
  <2>7. u \in Seq(B) /\ (x \in B => Append(u, x) \in Seq(B)) BY <2>5, <2>6
  <2>8. OnlyThose(Append(r, x), T) \in Seq(B) /\ Append(r, x) \in Seq(S) BY <2>4, <2>5, <2>7
  <2> QED BY <2>8 DEF B
<1> HIDE DEF L
<1>3. Seq(S) \subseteq L BY <1>1, <1>2, SeqInduction
<1> QED BY <1>3 DEF L

\* All that are in T, none that is, a longer list, and sets that agree on the list.
LEMMA OnlyThoseParts ==
  ASSUME NEW S, NEW s \in Seq(S), NEW T
  PROVE  /\ ToSet(s) \subseteq T => OnlyThose(s, T) = s
         /\ ToSet(s) \cap T = {} => OnlyThose(s, T) = <<>>
         /\ \A t \in Seq(S) : OnlyThose(s \o t, T) = OnlyThose(s, T) \o OnlyThose(t, T)
         /\ \A U : (\A x \in ToSet(s) : x \in T <=> x \in U) => OnlyThose(s, U) = OnlyThose(s, T)
<1> DEFINE All == {r \in Seq(S) : ToSet(r) \subseteq T => OnlyThose(r, T) = r}
           None == {r \in Seq(S) : ToSet(r) \cap T = {} => OnlyThose(r, T) = <<>>}
           More == {r \in Seq(S) : OnlyThose(s \o r, T) = OnlyThose(s, T) \o OnlyThose(r, T)}
           Like(U) == {r \in Seq(S) : (\A x \in ToSet(r) : x \in T <=> x \in U) => OnlyThose(r, U) = OnlyThose(r, T)}
<1>1. <<>> \in Seq(S) /\ OnlyThose(<<>>, T) = <<>> BY OnlyThoseAppend
<1>2. ASSUME NEW r \in Seq(S), NEW x \in S
      PROVE  /\ Append(r, x) \in Seq(S) /\ ToSet(Append(r, x)) = ToSet(r) \cup {x}
             /\ OnlyThose(r, T) \in Seq(S)
             /\ OnlyThose(Append(r, x), T) = IF x \in T THEN Append(OnlyThose(r, T), x) ELSE OnlyThose(r, T)
  <2>1. Append(r, x) \in Seq(S) OBVIOUS
  <2>2. ToSet(Append(r, x)) = ToSet(r) \cup {x} BY SetOfAppend
  <2>3. /\ OnlyThose(r, T) \in Seq(S)
        /\ OnlyThose(Append(r, x), T) = IF x \in T THEN Append(OnlyThose(r, T), x) ELSE OnlyThose(r, T)
    BY OnlyThoseAppend, Zenon
  <2> QED BY <2>1, <2>2, <2>3
<1>3. Seq(S) \subseteq All
  <2>1. <<>> \in All BY <1>1
  <2>2. ASSUME NEW r \in Seq(S), NEW x \in S, r \in All PROVE Append(r, x) \in All
    <3>1. /\ Append(r, x) \in Seq(S) /\ ToSet(Append(r, x)) = ToSet(r) \cup {x}
          /\ OnlyThose(Append(r, x), T) = IF x \in T THEN Append(OnlyThose(r, T), x) ELSE OnlyThose(r, T) BY <1>2
    <3> QED BY <2>2, <3>1, Zenon
  <2> HIDE DEF All
  <2> QED BY <2>1, <2>2, SeqInduction
<1>4. Seq(S) \subseteq None
  <2>1. <<>> \in None BY <1>1
  <2>2. ASSUME NEW r \in Seq(S), NEW x \in S, r \in None PROVE Append(r, x) \in None
    <3>1. /\ Append(r, x) \in Seq(S) /\ ToSet(Append(r, x)) = ToSet(r) \cup {x}
          /\ OnlyThose(Append(r, x), T) = IF x \in T THEN Append(OnlyThose(r, T), x) ELSE OnlyThose(r, T) BY <1>2
    <3>2. ASSUME ToSet(Append(r, x)) \cap T = {} PROVE OnlyThose(Append(r, x), T) = <<>>
      <4>1. x \notin T /\ ToSet(r) \cap T = {} BY <3>1, <3>2
      <4> QED BY <2>2, <3>1, <4>1
    <3> QED BY <3>1, <3>2
  <2> HIDE DEF None
  <2> QED BY <2>1, <2>2, SeqInduction
<1>5. Seq(S) \subseteq More
  <2>0. OnlyThose(s, T) \in Seq(S) /\ s \o <<>> = s
    <3>1. ASSUME NEW x \in S PROVE OnlyThose(s, T) \in Seq(S) BY <1>2
    <3>2. s = <<>> \/ \E x \in S : TRUE
      <4>1. s # <<>> => s[1] \in S BY EmptySeq
      <4> QED BY <4>1
    <3>3. <<>> \in Seq(S) OBVIOUS
    <3>4. OnlyThose(s, T) \in Seq(S) BY <1>1, <3>1, <3>2, <3>3
    <3> QED BY <3>4
  <2>1. <<>> \in More
    <3> DEFINE q == OnlyThose(s, T)
    <3>1. q \in Seq(S) BY <2>0
    <3> HIDE DEF q
    <3>2. q \o <<>> = q BY <3>1
    <3> QED BY <1>1, <2>0, <3>2 DEF q
  <2>2. ASSUME NEW r \in Seq(S), NEW x \in S, r \in More PROVE Append(r, x) \in More
    <3>1. s \o Append(r, x) = Append(s \o r, x) /\ s \o r \in Seq(S) OBVIOUS
    <3>2. OnlyThose(Append(r, x), T) = IF x \in T THEN Append(OnlyThose(r, T), x) ELSE OnlyThose(r, T) BY <1>2
    <3>3. OnlyThose(Append(s \o r, x), T) = IF x \in T THEN Append(OnlyThose(s \o r, T), x) ELSE OnlyThose(s \o r, T) BY <1>2, <3>1
    <3>4. OnlyThose(s \o r, T) = OnlyThose(s, T) \o OnlyThose(r, T) BY <2>2
    <3>5. OnlyThose(r, T) \in Seq(S) BY <1>2
    <3>7. Append(OnlyThose(s, T) \o OnlyThose(r, T), x) = OnlyThose(s, T) \o Append(OnlyThose(r, T), x)
      <4>1. AppendedLast(OnlyThose(s, T), OnlyThose(r, T), x) BY <2>0, <3>5, ConcatAppend
      <4> QED BY <4>1 DEF AppendedLast
    <3>8. OnlyThose(s \o Append(r, x), T) = OnlyThose(s, T) \o OnlyThose(Append(r, x), T) BY <3>1, <3>2, <3>3, <3>4, <3>7, Zenon
    <3>9. Append(r, x) \in Seq(S) OBVIOUS
    <3> QED BY <3>8, <3>9
  <2> HIDE DEF More
  <2> QED BY <2>1, <2>2, SeqInduction
<1>6. ASSUME NEW U PROVE Seq(S) \subseteq Like(U)
  <2>0. ASSUME NEW r \in Seq(S), NEW x \in S
        PROVE OnlyThose(Append(r, x), U) = IF x \in U THEN Append(OnlyThose(r, U), x) ELSE OnlyThose(r, U)
    BY OnlyThoseNext
  <2>1. <<>> \in Like(U)
    <3>1. OnlyThose(<<>>, U) = <<>> BY OnlyThoseAppend
    <3> QED BY <1>1, <3>1
  <2>2. ASSUME NEW r \in Seq(S), NEW x \in S, r \in Like(U) PROVE Append(r, x) \in Like(U)
    <3>1. ASSUME \A y \in ToSet(Append(r, x)) : y \in T <=> y \in U
          PROVE  OnlyThose(Append(r, x), U) = OnlyThose(Append(r, x), T)
      <4>0. ToSet(Append(r, x)) = ToSet(r) \cup {x} BY <1>2
      <4>1. (x \in T <=> x \in U) /\ \A y \in ToSet(r) : y \in T <=> y \in U BY <3>1, <4>0
      <4>2. OnlyThose(r, U) = OnlyThose(r, T) BY <2>2, <4>1
      <4>3. OnlyThose(Append(r, x), T) = IF x \in T THEN Append(OnlyThose(r, T), x) ELSE OnlyThose(r, T) BY <1>2
      <4> QED BY <2>0, <4>1, <4>2, <4>3
    <3>2. Append(r, x) \in Seq(S) OBVIOUS
    <3> QED BY <3>1, <3>2
  <2> DEFINE L == Like(U)
  <2>3. <<>> \in L /\ \A r \in Seq(S) : \A x \in S : r \in L => Append(r, x) \in L BY <2>1, <2>2
  <2> HIDE DEF L
  <2>4. Seq(S) \subseteq L BY <2>3, SeqInduction
  <2> QED BY <2>4 DEF L
<1>7. s \in All /\ s \in None /\ (\A t \in Seq(S) : t \in More) /\ \A U : s \in Like(U) BY <1>3, <1>4, <1>5, <1>6
<1> QED BY <1>7

\* StableSort returns the elements of the list, each as often as it is there.
LEMMA SortIs ==
  ASSUME NEW S, NEW s \in Seq(S), NEW key, \A x \in ToSet(s) : key[x] \in Int
  PROVE  /\ StableSort(s, key) \in Seq(S) /\ Len(StableSort(s, key)) = Len(s)
         /\ ToSet(StableSort(s, key)) = ToSet(s)
         /\ IsInjective(s) => IsInjective(StableSort(s, key))
<1>1. PICK N \in Nat : N = Len(s) /\ DOMAIN s = 1..N OBVIOUS
<1> DEFINE before(i, j) == key[s[i]] < key[s[j]] \/ (key[s[i]] = key[s[j]] /\ i < j)
           B(i) == {j \in 1..N : before(j, i)}
           place == [i \in 1..N |-> Cardinality(B(i)) + 1]
           at(k) == CHOOSE i \in 1..N : place[i] = k
<1>2. \A i \in 1..N : key[s[i]] \in Int /\ i \in Nat BY <1>1 DEF ToSet
<1>3. \A i, j \in 1..N : i = j \/ before(i, j) \/ before(j, i) BY <1>2
<1>4. \A i \in 1..N : ~before(i, i) BY <1>2
<1>5. \A i, j, k \in 1..N : before(i, j) /\ before(j, k) => before(i, k) BY <1>2
<1>6. StableSort(s, key) = [k \in 1..N |-> s[at(k)]] BY <1>1 DEF StableSort
<1> HIDE DEF before
<1>7. IsFiniteSet(1..N) /\ Cardinality(1..N) = N BY FS_Interval
<1>8. \A i \in 1..N : IsFiniteSet(B(i)) /\ Cardinality(B(i)) \in Nat
  <2> TAKE i \in 1..N
  <2>1. B(i) \subseteq 1..N OBVIOUS
  <2> HIDE DEF B
  <2> QED BY <1>7, <2>1, FS_Subset, FS_CardinalityType
<1>9. place \in [1..N -> 1..N]
  <2> SUFFICES ASSUME NEW i \in 1..N PROVE Cardinality(B(i)) + 1 \in 1..N OBVIOUS
  <2>1. B(i) \subseteq 1..N /\ i \notin B(i) BY <1>4
  <2> HIDE DEF B
  <2>2. Cardinality(B(i)) <= N /\ (Cardinality(B(i)) = N => B(i) = 1..N) BY <1>7, <2>1, FS_Subset
  <2> QED BY <1>8, <2>1, <2>2
<1>10. ASSUME NEW i \in 1..N, NEW j \in 1..N, before(i, j) PROVE Cardinality(B(i)) < Cardinality(B(j))
  <2>1. B(i) \subseteq B(j) /\ i \in B(j) /\ i \notin B(i) BY <1>4, <1>5, <1>10
  <2> HIDE DEF B
  <2>2. Cardinality(B(i)) <= Cardinality(B(j)) /\ (Cardinality(B(i)) = Cardinality(B(j)) => B(i) = B(j))
    BY <1>8, <2>1, FS_Subset
  <2> QED BY <1>8, <2>1, <2>2
<1>11. \A i, j \in 1..N : place[i] = place[j] => i = j
  <2> TAKE i, j \in 1..N
  <2> HAVE place[i] = place[j]
  <2>1. Cardinality(B(i)) + 1 = Cardinality(B(j)) + 1 OBVIOUS
  <2> HIDE DEF B, place
  <2> QED BY <1>3, <1>8, <1>10, <2>1
<1> HIDE DEF place, B
<1>12. place \in Injection(1..N, 1..N) BY <1>9, <1>11 DEF Injection, IsInjective
<1>13. place \in Surjection(1..N, 1..N) BY <1>7, <1>12, FS_Injection
<1>14. \A k \in 1..N : \E i \in 1..N : place[i] = k BY <1>13 DEF Surjection
<1>15. \A k \in 1..N : at(k) \in 1..N /\ place[at(k)] = k BY <1>14
<1>16. \A i \in 1..N : place[i] \in 1..N /\ at(place[i]) = i BY <1>9, <1>11, <1>15
<1> HIDE DEF at
<1> DEFINE r == StableSort(s, key)
<1>17. r = [k \in 1..N |-> s[at(k)]] BY <1>6
<1> HIDE DEF r
<1>18. \A k \in 1..N : s[at(k)] \in S BY <1>1, <1>15
<1>19. r \in Seq(S) /\ Len(r) = N /\ DOMAIN r = 1..N BY <1>17, <1>18
<1>20. ToSet(r) = ToSet(s)
  <2>1. \A x \in ToSet(r) : x \in ToSet(s) BY <1>1, <1>15, <1>17, <1>19 DEF ToSet
  <2>2. \A i \in 1..N : s[i] = r[place[i]] BY <1>16, <1>17
  <2>3. \A x \in ToSet(s) : x \in ToSet(r) BY <1>1, <1>16, <1>19, <2>2 DEF ToSet
  <2> QED BY <2>1, <2>3
<1>21. ASSUME IsInjective(s), NEW k \in 1..N, NEW l \in 1..N, r[k] = r[l] PROVE k = l
  <2>1. at(k) = at(l) BY <1>1, <1>15, <1>17, <1>21 DEF IsInjective
  <2> QED BY <1>15, <2>1
<1>22. IsInjective(s) => IsInjective(r) BY <1>19, <1>21 DEF IsInjective
<1> QED BY <1>1, <1>19, <1>20, <1>22 DEF r

\* The first n elements of a sequence and the others are the sequence.
LEMMA CutInTwo ==
  ASSUME NEW S, NEW d \in Seq(S), NEW n \in Nat, n <= Len(d)
  PROVE  /\ SubSeq(d, 1, n) \in Seq(S) /\ Len(SubSeq(d, 1, n)) = n /\ SubSeq(d, n + 1, Len(d)) \in Seq(S)
         /\ SubSeq(d, 1, n) \o SubSeq(d, n + 1, Len(d)) = d
<1>2. PICK N \in Nat : N = Len(d) /\ n <= N OBVIOUS
<1> DEFINE u == SubSeq(d, 1, n)
           v == SubSeq(d, n + 1, N)
           b == u \o v
<1>3. u \in Seq(S) /\ Len(u) = n /\ \A j \in 1..n : u[j] = d[j]
  <2>1. \A j \in 1..n : j \in 1..N BY <1>2
  <2>2. \A j \in 1..n : d[j] \in S BY <1>2, <2>1
  <2>3. SubSeq(d, 1, n) \in Seq(S) BY <2>2, SubSeqProperties
  <2>4. Len(SubSeq(d, 1, n)) = n /\ \A j \in 1..n : SubSeq(d, 1, n)[j] = d[j] BY <1>2
  <2> QED BY <2>3, <2>4
<1>4. v \in Seq(S) /\ Len(v) = N - n /\ \A j \in 1..(N - n) : v[j] = d[n + j]
  <2>1. \A j \in (n + 1)..N : j \in 1..N BY <1>2
  <2>2. \A j \in (n + 1)..N : d[j] \in S BY <1>2, <2>1
  <2>3. SubSeq(d, n + 1, N) \in Seq(S) BY <2>2, SubSeqProperties
  <2>4. Len(SubSeq(d, n + 1, N)) = N - n BY <1>2
  <2>5. \A j \in 1..(N - n) : SubSeq(d, n + 1, N)[j] = d[n + j]
    <3>1. (1 + N) - (n + 1) = N - n BY <1>2
    <3>2. SubSeq(d, n + 1, N) = [i \in 1..((1 + N) - (n + 1)) |-> d[(i + (n + 1)) - 1]] BY <1>2
    <3>3. \A j \in 1..(N - n) : (j + (n + 1)) - 1 = n + j BY <1>2
    <3> QED BY <3>1, <3>2, <3>3
  <2> QED BY <2>3, <2>4, <2>5
<1> HIDE DEF u, v
<1>5. u \o v \in Seq(S) /\ Concat(u, v, u \o v) BY <1>3, <1>4, ConcatIs
<1>6. b \in Seq(S) /\ Concat(u, v, b) BY <1>5
<1> HIDE DEF b
<1>7. Len(b) = N BY <1>2, <1>3, <1>4, <1>6 DEF Concat
<1>8. ASSUME NEW j \in 1..N PROVE b[j] = d[j]
  <2>1. CASE j <= n
    <3>1. j \in 1..n BY <1>2, <2>1
    <3> QED BY <1>3, <1>6, <3>1 DEF Concat
  <2>2. CASE ~(j <= n)
    <3>1. j - n \in 1..(N - n) /\ n + (j - n) = j BY <1>2, <2>2
    <3>2. b[n + (j - n)] = v[j - n] BY <1>3, <1>4, <1>6, <3>1 DEF Concat
    <3> QED BY <1>4, <3>1, <3>2
  <2> QED BY <2>1, <2>2
<1>9. b = d BY <1>2, <1>6, <1>7, <1>8
<1> QED BY <1>2, <1>3, <1>4, <1>9 DEF b, u, v

\* The numbers to l and the n next ones.
LEMMA CountOn ==
  ASSUME NEW l \in Nat, NEW n \in Nat
  PROVE  [k \in 1..l |-> k] \o [f \in 1..n |-> l + f] = [k \in 1..(l + n) |-> k]
<1> DEFINE u == [k \in 1..l |-> k]
           v == [f \in 1..n |-> l + f]
           q == u \o v
<1>2. u \in Seq(Nat) /\ Len(u) = l /\ DOMAIN u = 1..l /\ \A k \in 1..l : u[k] = k OBVIOUS
<1>3. v \in Seq(Nat) /\ Len(v) = n /\ DOMAIN v = 1..n /\ \A f \in 1..n : v[f] = l + f OBVIOUS
<1> HIDE DEF u, v
<1>1. u \o v \in Seq(Nat) /\ Concat(u, v, u \o v) BY <1>2, <1>3, ConcatIs
<1>4. q \in Seq(Nat) /\ Concat(u, v, q) BY <1>1
<1> HIDE DEF q
<1>5. DOMAIN q = 1..(l + n) /\ (\A j \in 1..l : q[j] = j) /\ \A f \in 1..n : q[l + f] = l + f
  BY <1>2, <1>3, <1>4 DEF Concat
<1>6. \A k \in 1..(l + n) : q[k] = k
  <2> TAKE k \in 1..(l + n)
  <2>1. k \in 1..l \/ (k - l \in 1..n /\ l + (k - l) = k) OBVIOUS
  <2> QED BY <1>5, <2>1
<1>7. q = [k \in 1..(l + n) |-> q[k]] BY <1>4, <1>5
<1>8. q = [k \in 1..(l + n) |-> k] BY <1>6, <1>7
<1> QED BY <1>8 DEF q, u, v

\* The other way round.
LEMMA ReverseIs ==
  ASSUME NEW S, NEW e \in Seq(S) PROVE Reverse(e) \in Seq(S)
<1>1. \A i \in 1..Len(e) : (Len(e) - i) + 1 \in 1..Len(e) OBVIOUS
<1>2. \A i \in 1..Len(e) : e[(Len(e) - i) + 1] \in S BY <1>1
<1>3. Reverse(e) = [i \in 1..Len(e) |-> e[(Len(e) - i) + 1]] BY DEF Reverse
<1> QED BY <1>2, <1>3
=============================================================================
