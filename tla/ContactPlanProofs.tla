-------------------------- MODULE ContactPlanProofs -------------------------
(***************************************************************************)
(* Theorems about ContactPlan: pointers, bundles, the schedule and the     *)
(* reports of ended contacts, for any contacts, nodes and bundles.         *)
(***************************************************************************)
EXTENDS ContactPlan, FiniteSetTheorems, SeqLemmas

-----------------------------------------------------------------------------
(***************************************************************************)
(* Lists                                                                   *)
(***************************************************************************)
Sorted(s) == \A i, j \in DOMAIN s : i < j => From[s[i]] <= From[s[j]]

\* r are the elements of s that are in S, in the same order.
Thinned(s, S, r) ==
  /\ r \in Seq(Contact) /\ Len(r) <= Len(s)
  /\ ToSet(r) = ToSet(s) \cap S
  /\ IsInjective(s) => IsInjective(r)
  /\ Sorted(s) => Sorted(r)

\* ... of the first n elements of s.
ThinnedTo(s, S, n, q) ==
  /\ q \in Seq(Contact) /\ Len(q) <= n
  /\ \A h \in DOMAIN q : q[h] \in S /\ \E g \in 1..n : q[h] = s[g]
  /\ \A g \in 1..n : s[g] \in S => \E h \in DOMAIN q : q[h] = s[g]
  /\ IsInjective(s) => IsInjective(q)
  /\ Sorted(s) => Sorted(q)

\* One element more.
LEMMA ThinnedNext ==
  ASSUME NEW s \in Seq(Contact), NEW S, NEW n \in Nat, n + 1 <= Len(s), NEW q, ThinnedTo(s, S, n, q)
  PROVE  ThinnedTo(s, S, n + 1, IF s[n + 1] \in S THEN Append(q, s[n + 1]) ELSE q)
<1>1. n + 1 \in DOMAIN s /\ s[n + 1] \in Contact /\ DOMAIN s = 1..Len(s) /\ Len(s) \in Nat OBVIOUS
<1>2. q \in Seq(Contact) /\ Len(q) <= n BY DEF ThinnedTo
<1>3. CASE s[n + 1] \notin S
  <2>1. \A g \in 1..(n + 1) : s[g] \in S => g \in 1..n BY <1>3
  <2>2. \A g \in 1..n : g \in 1..(n + 1) OBVIOUS
  <2>3. Len(q) <= n + 1 BY <1>2
  <2> QED BY <1>2, <1>3, <2>1, <2>2, <2>3 DEF ThinnedTo
<1>4. CASE s[n + 1] \in S
  <2> DEFINE e == s[n + 1]
             r == Append(q, e)
  <2> HIDE DEF e
  <2>1. PICK k \in Nat : k = Len(q) BY <1>2
  <2>2. e \in Contact BY <1>1 DEF e
  <2>3. r \in Seq(Contact) /\ Len(r) = k + 1 /\ DOMAIN r = 1..(k + 1) /\ DOMAIN q = 1..k
        /\ r[k + 1] = e /\ \A h \in 1..k : r[h] = q[h]
    BY <1>2, <2>1, <2>2
  <2> HIDE DEF r
  <2>4. \A h \in DOMAIN r : (h \in DOMAIN q /\ r[h] = q[h]) \/ (h = k + 1 /\ r[h] = e) BY <2>3
  <2>5. \A h \in DOMAIN q : h \in DOMAIN r /\ r[h] = q[h] /\ h < k + 1 BY <2>3
  <2>6. \A h \in DOMAIN q : q[h] \in S /\ \E g \in 1..n : q[h] = s[g] BY DEF ThinnedTo
  <2>7. \A g \in 1..n : g \in 1..(n + 1) /\ g \in DOMAIN s /\ g < n + 1 BY <1>1
  <2>8. ASSUME NEW h \in DOMAIN r PROVE r[h] \in S /\ \E g \in 1..(n + 1) : r[h] = s[g]
    <3>1. n + 1 \in 1..(n + 1) OBVIOUS
    <3> QED BY <1>4, <2>4, <2>6, <2>7, <3>1 DEF e
  <2>9. ASSUME NEW g \in 1..(n + 1), s[g] \in S PROVE \E h \in DOMAIN r : r[h] = s[g]
    <3>1. CASE g = n + 1
      <4>1. k + 1 \in DOMAIN r BY <2>3
      <4> QED BY <2>3, <3>1, <4>1 DEF e
    <3>2. CASE g # n + 1
      <4>1. g \in 1..n BY <3>2
      <4>2. PICK h \in DOMAIN q : q[h] = s[g] BY <2>9, <4>1 DEF ThinnedTo
      <4> QED BY <2>5, <4>2
    <3> QED BY <3>1, <3>2
  <2>10. ASSUME IsInjective(s) PROVE IsInjective(r)
    <3>1. \A h \in DOMAIN q : q[h] # e
      <4> TAKE h \in DOMAIN q
      <4>1. PICK g \in 1..n : q[h] = s[g] BY <2>6
      <4>2. s[g] # s[n + 1] BY <1>1, <2>7, <2>10 DEF IsInjective
      <4> QED BY <4>1, <4>2 DEF e
    <3>2. \A g, h \in DOMAIN q : q[g] = q[h] => g = h BY <2>10 DEF ThinnedTo, IsInjective
    <3> QED BY <2>4, <3>1, <3>2 DEF IsInjective
  <2>11. ASSUME Sorted(s) PROVE Sorted(r)
    <3>1. \A h \in DOMAIN q : From[q[h]] <= From[e]
      <4> TAKE h \in DOMAIN q
      <4>1. PICK g \in 1..n : q[h] = s[g] BY <2>6
      <4>2. From[s[g]] <= From[s[n + 1]] BY <1>1, <2>7, <2>11 DEF Sorted
      <4> QED BY <4>1, <4>2 DEF e
    <3>2. \A g, h \in DOMAIN q : g < h => From[q[g]] <= From[q[h]] BY <2>11 DEF ThinnedTo, Sorted
    <3>3. ASSUME NEW g \in DOMAIN r, NEW h \in DOMAIN r, g < h PROVE From[r[g]] <= From[r[h]]
      <4>1. g \in DOMAIN q /\ r[g] = q[g] BY <2>3, <3>3
      <4> QED BY <2>4, <3>1, <3>2, <3>3, <4>1
    <3> QED BY <3>3 DEF Sorted
  <2>12. Len(r) <= n + 1 BY <1>2, <2>1, <2>3
  <2>13. ThinnedTo(s, S, n + 1, r) BY <2>3, <2>8, <2>9, <2>10, <2>11, <2>12 DEF ThinnedTo
  <2> QED BY <1>4, <2>13 DEF r, e
<1> QED BY <1>3, <1>4

\* SubList keeps the order of what it keeps: remove_contact_from_list, and the loops
\* of the contact manager that skip contacts.
LEMMA SubListFacts ==
  ASSUME NEW s \in Seq(Contact), NEW S
  PROVE  Thinned(s, S, SubList(s, S))
<1> DEFINE Is(f) == f = [i \in 0..Len(s) |->
                           IF i = 0 THEN <<>>
                           ELSE IF s[i] \in S THEN Append(f[i - 1], s[i]) ELSE f[i - 1]]
           upto == CHOOSE f : Is(f)
<1>1. SubList(s, S) = upto[Len(s)] BY DEF SubList
<1>2. PICK N \in Nat : N = Len(s) OBVIOUS
<1> DEFINE G == [x \in (1..N) \X Seq(Contact) |-> IF s[x[1]] \in S THEN Append(x[2], s[x[1]]) ELSE x[2]]
<1>3. G \in [(1..N) \X Seq(Contact) -> Seq(Contact)]
  <2>1. \A x \in (1..N) \X Seq(Contact) : s[x[1]] \in Contact /\ x[2] \in Seq(Contact) BY <1>2
  <2>2. \A x \in (1..N) \X Seq(Contact) : Append(x[2], s[x[1]]) \in Seq(Contact) BY <2>1
  <2> QED BY <2>1, <2>2
<1>4. <<>> \in Seq(Contact) OBVIOUS
<1>5. PICK f \in [0..N -> Seq(Contact)] : IsRun(f, N, <<>>, G)
  <2> HIDE DEF G
  <2> QED BY <1>3, <1>4, RunExists
<1>6. Is(f)
  <2>1. \A n \in 0..N : n # 0 => n \in 1..N /\ n - 1 \in 0..N OBVIOUS
  <2>2. \A n \in 1..N : <<n, f[n - 1]>> \in (1..N) \X Seq(Contact) BY <2>1
  <2>3. \A n \in 1..N : f[n] = IF s[n] \in S THEN Append(f[n - 1], s[n]) ELSE f[n - 1] BY <1>5, <2>2 DEF IsRun
  <2>4. f[0] = <<>> BY <1>5 DEF IsRun
  <2>5. \A n \in 0..N : f[n] = IF n = 0 THEN <<>>
                               ELSE IF s[n] \in S THEN Append(f[n - 1], s[n]) ELSE f[n - 1]
    BY <2>1, <2>3, <2>4
  <2>6. f = [n \in 0..N |-> f[n]] OBVIOUS
  <2> QED BY <1>2, <2>5, <2>6
<1>7. Is(upto)
  <2> HIDE DEF Is
  <2> QED BY <1>6
<1>8. \A n \in 0..N : upto[n] = IF n = 0 THEN <<>>
                                ELSE IF s[n] \in S THEN Append(upto[n - 1], s[n]) ELSE upto[n - 1]
  BY <1>2, <1>7
<1> HIDE DEF G, upto, Is
<1> DEFINE T == {n \in Nat : n <= N => ThinnedTo(s, S, n, upto[n])}
<1>9. 0 \in T
  <2>1. upto[0] = <<>> BY <1>8
  <2>2. ThinnedTo(s, S, 0, <<>>) BY DEF ThinnedTo, IsInjective, Sorted
  <2> QED BY <2>1, <2>2
<1>10. ASSUME NEW n \in Nat, n \in T PROVE n + 1 \in T
  <2> SUFFICES ASSUME n + 1 <= N PROVE ThinnedTo(s, S, n + 1, upto[n + 1]) OBVIOUS
  <2>1. n + 1 \in 0..N /\ (n + 1) - 1 = n /\ n <= N /\ n + 1 # 0 BY <1>2
  <2>2. upto[n + 1] = IF s[n + 1] \in S THEN Append(upto[n], s[n + 1]) ELSE upto[n] BY <1>8, <2>1
  <2>3. ThinnedTo(s, S, n, upto[n]) BY <1>10, <2>1
  <2> QED BY <1>2, <2>2, <2>3, ThinnedNext
<1>11. Nat \subseteq T
  <2> HIDE DEF T
  <2> QED BY <1>9, <1>10, NatSet
<1>12. ThinnedTo(s, S, N, upto[N]) BY <1>11
<1> DEFINE r == upto[N]
<1> HIDE DEF r
<1>13. ToSet(r) = ToSet(s) \cap S
  <2>1. DOMAIN s = 1..N BY <1>2
  <2>2. /\ \A h \in DOMAIN r : r[h] \in S /\ \E g \in DOMAIN s : r[h] = s[g]
        /\ \A g \in DOMAIN s : s[g] \in S => \E h \in DOMAIN r : r[h] = s[g]
    BY <1>12, <2>1 DEF ThinnedTo, r
  <2> QED BY <2>2 DEF ToSet
<1>14. Thinned(s, S, r) BY <1>2, <1>12, <1>13 DEF ThinnedTo, Thinned, r
<1> QED BY <1>1, <1>2, <1>14 DEF r

\* The set has a contact that starts last.
LEMMA LastStart ==
  ASSUME NEW S \in SUBSET Contact, S # {}
  PROVE  \E x \in S : \A y \in S : From[y] <= From[x]
<1> DEFINE T == {MaxTime - From[c] : c \in S}
<1>1. \A c \in Contact : From[c] \in Nat /\ From[c] <= MaxTime BY PlanAssumption
<1>2. MaxTime \in Nat BY PlanAssumption
<1>3. T \in SUBSET Nat /\ T # {} BY <1>1, <1>2
<1>4. PICK m \in T : \A k \in T : m <= k
  <2> HIDE DEF T
  <2> QED BY <1>3, LeastNat
<1>5. PICK x \in S : m = MaxTime - From[x] BY <1>4
<1>6. \A y \in S : MaxTime - From[x] <= MaxTime - From[y] BY <1>4, <1>5
<1> QED BY <1>1, <1>2, <1>6

\* s lists the contacts of S by their start.
Listing(s, S) == /\ s \in [1..Cardinality(S) -> S] /\ ToSet(s) = S
                 /\ \A i, j \in DOMAIN s : i < j => From[s[i]] <= From[s[j]]

\* There is an ordered list of the contacts of a node.
LEMMA ByFromFacts == ASSUME NEW S \in SUBSET Contact PROVE Listing(ByFrom(S), S)
<1> DEFINE T == {n \in Nat : \A R \in SUBSET Contact : Cardinality(R) = n => \E s : Listing(s, R)}
<1>1. \A R \in SUBSET Contact : IsFiniteSet(R) BY PlanAssumption, FS_Subset
<1>2. 0 \in T
  <2>1. \A R \in SUBSET Contact : Cardinality(R) = 0 => R = {} BY <1>1, FS_EmptySet
  <2>2. Listing(<<>>, {})
    <3>1. Cardinality({}) = 0 BY FS_EmptySet
    <3>2. <<>> \in [1..0 -> {}] /\ ToSet(<<>>) = {} BY DEF ToSet
    <3> QED BY <3>1, <3>2 DEF Listing
  <2> QED BY <2>1, <2>2
<1>3. ASSUME NEW n \in Nat, n \in T PROVE n + 1 \in T
  <2> SUFFICES ASSUME NEW R \in SUBSET Contact, Cardinality(R) = n + 1 PROVE \E s : Listing(s, R)
    OBVIOUS
  <2>1. R # {} BY FS_EmptySet
  <2>2. PICK x \in R : \A y \in R : From[y] <= From[x] BY <2>1, LastStart
  <2>3. R \ {x} \in SUBSET Contact /\ Cardinality(R \ {x}) = n
    <3>1. Cardinality(R \ {x}) = Cardinality(R) - 1 BY <1>1, FS_RemoveElement
    <3> QED BY <3>1
  <2>4. PICK s : Listing(s, R \ {x}) BY <1>3, <2>3
  <2>5. s \in [1..n -> R \ {x}] /\ ToSet(s) = R \ {x} /\ DOMAIN s = 1..n BY <2>3, <2>4 DEF Listing
  <2> DEFINE r == [i \in 1..(n + 1) |-> IF i <= n THEN s[i] ELSE x]
  <2>6. r \in [1..(n + 1) -> R] BY <2>5
  <2>7. \A i \in 1..(n + 1) : (i \in 1..n /\ r[i] = s[i]) \/ (i = n + 1 /\ r[i] = x) OBVIOUS
  <2>8. n + 1 \in 1..(n + 1) /\ \A i \in 1..n : i \in 1..(n + 1) /\ i < n + 1 OBVIOUS
  <2>9. DOMAIN r = 1..(n + 1) OBVIOUS
  <2> HIDE DEF r
  <2>10. ToSet(r) = R
    <3>1. \A i \in 1..n : r[i] = s[i]
      <4>1. \A i \in 1..n : i # n + 1 OBVIOUS
      <4> QED BY <2>7, <2>8, <4>1
    <3>2. r[n + 1] = x
      <4>1. ~(n + 1 \in 1..n) OBVIOUS
      <4> QED BY <2>7, <2>8, <4>1
    <3>3. \A y \in R \ {x} : \E i \in 1..n : s[i] = y BY <2>5 DEF ToSet
    <3> QED BY <2>6, <2>8, <2>9, <3>1, <3>2, <3>3 DEF ToSet
  <2>11. ASSUME NEW i \in DOMAIN r, NEW j \in DOMAIN r, i < j PROVE From[r[i]] <= From[r[j]]
    <3>1. i \in 1..n /\ i # n + 1 BY <2>9, <2>11
    <3>2. r[i] = s[i] /\ s[i] \in R BY <2>5, <2>7, <2>9, <3>1
    <3>3. CASE j = n + 1
      <4>1. r[j] = x
        <5>1. ~(j \in 1..n) BY <3>3
        <5> QED BY <2>7, <2>9, <5>1
      <4> QED BY <2>2, <3>2, <4>1
    <3>4. CASE j \in 1..n
      <4>1. r[j] = s[j]
        <5>1. j # n + 1 BY <3>4
        <5> QED BY <2>7, <2>9, <5>1
      <4>2. From[s[i]] <= From[s[j]] BY <2>4, <2>5, <2>11, <3>1, <3>4 DEF Listing
      <4> QED BY <3>2, <4>1, <4>2
    <3> QED BY <2>7, <2>9, <3>3, <3>4
  <2>12. Listing(r, R) BY <2>6, <2>10, <2>11 DEF Listing
  <2> QED BY <2>12
<1>4. Nat \subseteq T
  <2> HIDE DEF T
  <2> QED BY <1>2, <1>3, NatSet
<1>5. Cardinality(S) \in Nat BY <1>1, FS_CardinalityType
<1>6. \E s : Listing(s, S) BY <1>4, <1>5
<1>7. \E s \in [1..Cardinality(S) -> S] :
         /\ ToSet(s) = S
         /\ \A i, j \in DOMAIN s : i < j => From[s[i]] <= From[s[j]]
  BY <1>6 DEF Listing
<1> DEFINE P(s) == /\ ToSet(s) = S
                   /\ \A i, j \in DOMAIN s : i < j => From[s[i]] <= From[s[j]]
<1>8. ByFrom(S) = CHOOSE s \in [1..Cardinality(S) -> S] : P(s) BY DEF ByFrom
<1>9. \E s \in [1..Cardinality(S) -> S] : P(s) BY <1>7
<1>10. ByFrom(S) \in [1..Cardinality(S) -> S] /\ P(ByFrom(S))
  <2> HIDE DEF P
  <2> QED BY <1>8, <1>9
<1> QED BY <1>10 DEF Listing

\* r is list with c added.
Extended(list, S, r) ==
  /\ r \in Seq(Contact)
  /\ ToSet(list) \subseteq ToSet(r) /\ ToSet(r) \subseteq ToSet(list) \cup S
  /\ IsInjective(list) => IsInjective(r)
  /\ Sorted(list) => Sorted(r)

\* add_contact_to_ordered_list keeps the list ordered and free of duplicates.
LEMMA AddFacts ==
  ASSUME NEW list \in Seq(Contact), NEW c \in Contact
  PROVE  Extended(list, {c}, add_contact_to_ordered_list(list, c))
<1> DEFINE o(h) == From[list[h]]
           Here(j) == /\ \A h \in 1..(j - 1) : o(h) <= From[c]
                      /\ j <= Len(list) => o(j) > From[c]
           place == CHOOSE j \in 1..(Len(list) + 1) : Here(j)
<1>1. CASE c \in ToSet(list) BY <1>1 DEF add_contact_to_ordered_list, Extended
<1>2. CASE c \notin ToSet(list)
  <2>1. PICK N \in Nat : N = Len(list) OBVIOUS
  <2>2. DOMAIN list = 1..N /\ \A h \in 1..N : list[h] \in Contact BY <2>1
  <2>3. From[c] \in Nat /\ \A h \in 1..N : o(h) \in Nat BY <2>2, PlanAssumption
  <2> DEFINE T == {j \in 1..(N + 1) : j = N + 1 \/ o(j) > From[c]}
  <2>4. PICK j \in T : \A h \in T : j <= h
    <3>1. T \in SUBSET Nat /\ N + 1 \in T OBVIOUS
    <3> HIDE DEF T
    <3> QED BY <3>1, LeastNat
  <2>5. j \in 1..(Len(list) + 1) /\ Here(j)
    <3>1. j \in 1..(N + 1) OBVIOUS
    <3>2. ASSUME NEW h \in 1..(j - 1) PROVE o(h) <= From[c]
      <4>1. h \in 1..N /\ h < j /\ ~(j <= h) BY <3>1
      <4>2. ~(o(h) > From[c]) BY <2>4, <4>1
      <4> QED BY <2>3, <4>1, <4>2
    <3>3. j <= N => o(j) > From[c] BY <3>1
    <3> QED BY <2>1, <3>1, <3>2, <3>3
  <2> HIDE DEF Here, T
  <2>6. place \in 1..(Len(list) + 1) /\ Here(place) BY <2>5
  <2>7. add_contact_to_ordered_list(list, c) = InsertAt(list, place, c)
    BY <1>2 DEF add_contact_to_ordered_list, Here
  <2> HIDE DEF place
  <2>8. PICK r \in Seq(Contact) : r = InsertAt(list, place, c) /\ InsertIs(list, place, c, r)
    BY <2>6, InsertFacts
  <2>9. Joined(list, c, r) BY <2>6, <2>8, InsertSet
  <2>10. PICK k \in 1..(N + 1) : k = place BY <2>1, <2>6
  <2>11. /\ DOMAIN r = 1..(N + 1)
         /\ \A h \in 1..(k - 1) : r[h] = list[h] /\ h \in 1..N /\ From[list[h]] <= From[c]
         /\ r[k] = c
         /\ \A h \in (k + 1)..(N + 1) : r[h] = list[h - 1] /\ h - 1 \in 1..N
         /\ k <= N => From[list[k]] > From[c]
    <3>1. DOMAIN r = 1..(N + 1) BY <2>1, <2>8 DEF InsertIs
    <3>2. \A h \in 1..(k - 1) : r[h] = list[h] BY <2>8, <2>10 DEF InsertIs
    <3>3. r[k] = c BY <2>8, <2>10 DEF InsertIs
    <3>4. \A h \in (k + 1)..(N + 1) : r[h] = list[h - 1] BY <2>1, <2>8, <2>10 DEF InsertIs
    <3>5. k <= N => From[list[k]] > From[c] BY <2>1, <2>6, <2>10 DEF Here
    <3>6. \A h \in 1..(k - 1) : h \in 1..N /\ From[list[h]] <= From[c] BY <2>6, <2>10 DEF Here
    <3>7. \A h \in (k + 1)..(N + 1) : h - 1 \in 1..N OBVIOUS
    <3> QED BY <3>1, <3>2, <3>3, <3>4, <3>5, <3>6, <3>7
  <2>12. ASSUME Sorted(list) PROVE Sorted(r)
    <3>1. \A g, h \in 1..N : g < h => From[list[g]] <= From[list[h]] BY <2>2, <2>12 DEF Sorted
    <3>2. \A g, h \in 1..N : g <= h => From[list[g]] <= From[list[h]] BY <2>3, <3>1
    <3>3. \A h \in (k + 1)..(N + 1) : k \in 1..N /\ k <= N /\ k <= h - 1 OBVIOUS
    <3>4. \A h \in (k + 1)..(N + 1) : From[list[h - 1]] >= From[c]
      <4> TAKE h \in (k + 1)..(N + 1)
      <4>1. From[list[k]] <= From[list[h - 1]] BY <2>11, <3>2, <3>3
      <4> QED BY <2>3, <2>11, <3>3, <4>1
    <3> SUFFICES ASSUME NEW g \in 1..(N + 1), NEW h \in 1..(N + 1), g < h
                 PROVE  From[r[g]] <= From[r[h]]
      BY <2>11 DEF Sorted
    <3>5. CASE g < k
      <4>1. g \in 1..(k - 1) /\ r[g] = list[g] /\ g \in 1..N /\ From[list[g]] <= From[c] BY <2>11, <3>5
      <4>2. CASE h < k
        <5>1. h \in 1..(k - 1) /\ r[h] = list[h] /\ h \in 1..N BY <2>11, <4>2
        <5> QED BY <3>1, <4>1, <5>1
      <4>3. CASE h = k
        <5>1. r[h] = c BY <2>11, <4>3
        <5> QED BY <4>1, <5>1
      <4>4. CASE h > k
        <5>1. h \in (k + 1)..(N + 1) BY <4>4
        <5>2. r[h] = list[h - 1] /\ h - 1 \in 1..N /\ From[list[h - 1]] >= From[c] BY <2>11, <3>4, <5>1
        <5>3. From[list[g]] \in Nat /\ From[list[h - 1]] \in Nat /\ From[c] \in Nat BY <2>3, <4>1, <5>2
        <5>4. From[list[g]] <= From[list[h - 1]] BY <4>1, <5>2, <5>3
        <5> QED BY <4>1, <5>2, <5>4
      <4> QED BY <4>2, <4>3, <4>4
    <3>6. CASE g = k
      <4>1. h \in (k + 1)..(N + 1) BY <3>6
      <4>2. r[h] = list[h - 1] /\ h - 1 \in 1..N /\ From[list[h - 1]] >= From[c] BY <2>11, <3>4, <4>1
      <4> QED BY <2>3, <2>11, <3>6, <4>2
    <3>7. CASE g > k
      <4>1. g \in (k + 1)..(N + 1) /\ h \in (k + 1)..(N + 1) BY <3>7
      <4>2. r[h] = list[h - 1] /\ h - 1 \in 1..N /\ r[g] = list[g - 1] /\ g - 1 \in 1..N BY <2>11, <4>1
      <4>3. g - 1 < h - 1 OBVIOUS
      <4> QED BY <3>1, <4>2, <4>3
    <3> QED BY <3>5, <3>6, <3>7
  <2> QED BY <1>2, <2>7, <2>8, <2>9, <2>12 DEF Joined, Extended
<1> QED BY <1>1, <1>2

\* The schedule that a list of contacts and their nodes describe can be served.
Open(list, t) == {c \in ToSet(list) : From[c] <= t /\ t < To[c]}
Feasible(list, node) ==
  \A t \in 0..MaxTime : /\ Cardinality(Open(list, t)) <= MaxConcurrent
                        /\ \A c, d \in Open(list, t) : node[c] = node[d] => c = d

\* A contact that check_for_invalid_overlaps lets pass can be served with the others:
\* those open at any instant of it are among those that it counts.
LEMMA AddFeasible ==
  ASSUME NEW list \in Seq(Contact), NEW node, NEW c \in Contact, NEW r \in Seq(Contact),
         ToSet(r) \subseteq ToSet(list) \cup {c},
         FewContacts, Feasible(list, node), ~check_for_invalid_overlaps(list, node, c)
  PROVE  Feasible(r, node)
<1> SUFFICES ASSUME NEW t \in 0..MaxTime
             PROVE  /\ Cardinality(Open(r, t)) <= MaxConcurrent
                    /\ \A d, e \in Open(r, t) : node[d] = node[e] => d = e
  BY DEF Feasible
<1>1. \A d \in Contact : From[d] \in Nat /\ To[d] \in Nat BY PlanAssumption
<1>2. ToSet(list) \subseteq Contact /\ ToSet(r) \subseteq Contact BY DEF ToSet
<1>3. MaxConcurrent \in Nat /\ MaxTime \in Nat BY PlanAssumption
<1> DEFINE O == Open(list, t)
           R == Open(r, t)
           V == Overlaps(list, c)
<1>4. O \subseteq Contact /\ R \subseteq Contact /\ V \subseteq Contact /\ R \subseteq O \cup {c}
  BY <1>2 DEF Open, Overlaps
<1>5. /\ IsFiniteSet(Contact) /\ IsFiniteSet(O) /\ IsFiniteSet(R) /\ IsFiniteSet(V)
      /\ Cardinality(V) <= Cardinality(Contact)
  BY <1>4, FS_Subset, PlanAssumption
<1>6. /\ Cardinality(O) \in Nat /\ Cardinality(R) \in Nat /\ Cardinality(V) \in Nat
      /\ Cardinality(Contact) \in Nat
  BY <1>5, FS_CardinalityType
<1>7. Cardinality(V) < MaxConcurrent /\ \A x \in V : node[x] # node[c]
  <2>1. ~(Cardinality(V) % 256 >= MaxConcurrent) BY DEF check_for_invalid_overlaps
  <2>2. Cardinality(V) < 256 BY <1>5, <1>6 DEF FewContacts
  <2>3. Cardinality(V) % 256 = Cardinality(V) BY <1>6, <2>2
  <2>4. Cardinality(V) < MaxConcurrent BY <1>3, <1>6, <2>1, <2>3
  <2> QED BY <2>4 DEF check_for_invalid_overlaps
<1>8. Cardinality(O) <= MaxConcurrent /\ \A d, e \in O : node[d] = node[e] => d = e BY DEF Feasible
<1>9. CASE From[c] <= t /\ t < To[c]
  <2>1. O \subseteq V
    <3> SUFFICES ASSUME NEW d \in O PROVE d \in V OBVIOUS
    <3>1. d \in ToSet(list) /\ From[d] <= t /\ t < To[d] BY DEF Open
    <3>2. To[d] > From[c] /\ From[d] < To[c] BY <1>1, <1>2, <1>3, <1>9, <3>1
    <3> QED BY <3>1, <3>2 DEF Overlaps
  <2>2. Cardinality(O) <= Cardinality(V) BY <1>5, <2>1, FS_Subset
  <2>3. Cardinality(O \cup {c}) <= Cardinality(O) + 1 /\ IsFiniteSet(O \cup {c})
    <3> HIDE DEF O
    <3>1. Cardinality(O \cup {c}) = IF c \in O THEN Cardinality(O) ELSE Cardinality(O) + 1
      BY <1>5, FS_AddElement
    <3>2. IsFiniteSet(O \cup {c}) BY <1>5, FS_AddElement
    <3> QED BY <1>6, <3>1, <3>2
  <2>4. Cardinality(R) <= Cardinality(O \cup {c}) BY <1>4, <2>3, FS_Subset
  <2>5. Cardinality(O \cup {c}) \in Nat BY <2>3, FS_CardinalityType
  <2>6. Cardinality(R) <= MaxConcurrent BY <1>3, <1>6, <1>7, <2>2, <2>3, <2>4, <2>5
  <2>7. \A d \in O : node[d] # node[c] BY <1>7, <2>1
  <2>8. \A d, e \in R : node[d] = node[e] => d = e BY <1>4, <1>8, <2>7
  <2> QED BY <2>6, <2>8
<1>10. CASE ~(From[c] <= t /\ t < To[c])
  <2>1. R \subseteq O BY <1>10 DEF Open
  <2>2. Cardinality(R) <= Cardinality(O) BY <1>5, <2>1, FS_Subset
  <2> QED BY <1>3, <1>6, <1>8, <2>1, <2>2
<1> QED BY <1>9, <1>10

Grown(list, node, S, r) == /\ Extended(list, S, r)
                           /\ FewContacts /\ Feasible(list, node) => Feasible(r, node)

\* Each contact of the node is checked and added, or left out.
LEMMA AddContactFacts ==
  ASSUME NEW list \in Seq(Contact), NEW node, NEW S \in SUBSET Contact, NEW c \in S,
         NEW q, Grown(list, node, S, q)
  PROVE  Grown(list, node, S, AddContact(q, node, c))
<1>1. CASE check_for_invalid_overlaps(q, node, c) BY <1>1 DEF AddContact
<1>2. CASE ~check_for_invalid_overlaps(q, node, c)
  <2>1. q \in Seq(Contact) /\ c \in Contact BY DEF Grown, Extended
  <2>2. PICK r : r = AddContact(q, node, c) OBVIOUS
  <2>3. Extended(q, {c}, r) BY <1>2, <2>1, <2>2, AddFacts DEF AddContact
  <2>4. r \in Seq(Contact) /\ ToSet(r) \subseteq ToSet(q) \cup {c} BY <2>3 DEF Extended
  <2>5. Extended(list, S, r) BY <2>3 DEF Grown, Extended
  <2>6. ASSUME FewContacts, Feasible(list, node) PROVE Feasible(r, node)
    <3>1. Feasible(q, node) BY <2>6 DEF Grown
    <3> QED BY <1>2, <2>1, <2>4, <2>6, <3>1, AddFeasible
  <2> QED BY <2>2, <2>5, <2>6 DEF Grown
<1> QED BY <1>1, <1>2

\* add_node_to_tables.
LEMMA AddNodeFacts ==
  ASSUME NEW r \in Memory, NEW n \in Node
  PROVE  \E l : add_node_to_tables(r, n) = [r EXCEPT !.list = l] /\ Grown(r.list, r.node, r.contacts[n], l)
<1>1. PICK list \in Seq(Contact) : list = r.list BY DEF Memory
<1>2. PICK node : node = r.node OBVIOUS
<1>3. PICK S \in SUBSET Contact : S = r.contacts[n] BY DEF Memory
<1>4. PICK s : s = ByFrom(S) OBVIOUS
<1>5. PICK N \in Nat : N = Cardinality(S)
  <2>1. IsFiniteSet(S) BY FS_Subset, PlanAssumption
  <2> QED BY <2>1, FS_CardinalityType
<1>6. s \in [1..N -> S] /\ Len(s) = N
  <2>1. s \in [1..N -> S] BY <1>4, <1>5, ByFromFacts DEF Listing
  <2>2. s \in Seq(S) /\ Len(s) = N BY <2>1
  <2> QED BY <2>1, <2>2
<1> DEFINE Is(f) == f = [i \in 0..Len(s) |-> IF i = 0 THEN list ELSE AddContact(f[i - 1], node, s[i])]
           after == CHOOSE f : Is(f)
           A == {q \in Seq(Contact) : Grown(list, node, S, q)}
           G == [x \in (1..N) \X A |-> AddContact(x[2], node, s[x[1]])]
<1>7. add_node_to_tables(r, n) = [r EXCEPT !.list = after[Len(s)]]
  BY <1>1, <1>2, <1>3, <1>4 DEF add_node_to_tables
<1>8. \A c \in S, q \in A : AddContact(q, node, c) \in A
  <2> TAKE c \in S, q \in A
  <2>1. Grown(list, node, S, AddContact(q, node, c)) BY AddContactFacts
  <2> QED BY <2>1 DEF Grown, Extended
<1>9. list \in A BY DEF Grown, Extended
<1> HIDE DEF A
<1>10. G \in [(1..N) \X A -> A]
  <2>1. \A x \in (1..N) \X A : s[x[1]] \in S /\ x[2] \in A BY <1>6
  <2> QED BY <1>8, <2>1
<1>11. PICK f \in [0..N -> A] : IsRun(f, N, list, G)
  <2> HIDE DEF G
  <2> QED BY <1>9, <1>10, RunExists
<1>12. \A i \in 0..N : i # 0 => i \in 1..N /\ i - 1 \in 0..N OBVIOUS
<1>13. \A i \in 0..N : f[i] = IF i = 0 THEN list ELSE AddContact(f[i - 1], node, s[i])
  <2>1. \A i \in 1..N : i \in 0..N /\ i # 0 OBVIOUS
  <2>2. \A i \in 1..N : <<i, f[i - 1]>> \in (1..N) \X A BY <1>12, <2>1
  <2>3. \A i \in 1..N : f[i] = AddContact(f[i - 1], node, s[i]) BY <1>11, <2>2 DEF IsRun
  <2>4. f[0] = list BY <1>11 DEF IsRun
  <2> QED BY <1>12, <2>3, <2>4
<1>14. Is(f)
  <2>1. f = [i \in 0..N |-> f[i]] OBVIOUS
  <2> QED BY <1>6, <1>13, <2>1
<1>15. Is(after)
  <2> HIDE DEF Is
  <2> QED BY <1>14
<1>16. \A i \in 0..N : after[i] = IF i = 0 THEN list ELSE AddContact(after[i - 1], node, s[i])
  BY <1>6, <1>15
<1> HIDE DEF G, after, Is
<1> DEFINE T == {i \in Nat : i <= N => after[i] \in A}
<1>17. 0 \in T
  <2>1. 0 \in 0..N OBVIOUS
  <2>2. after[0] = list BY <1>16, <2>1
  <2> QED BY <1>9, <2>2
<1>18. ASSUME NEW i \in Nat, i \in T PROVE i + 1 \in T
  <2> SUFFICES ASSUME i + 1 <= N PROVE after[i + 1] \in A OBVIOUS
  <2>1. i + 1 \in 0..N /\ i + 1 # 0 /\ (i + 1) - 1 = i /\ i + 1 \in 1..N /\ i <= N OBVIOUS
  <2>2. after[i + 1] = AddContact(after[i], node, s[i + 1]) BY <1>16, <2>1
  <2>3. after[i] \in A /\ s[i + 1] \in S BY <1>6, <1>18, <2>1
  <2> QED BY <1>8, <2>2, <2>3
<1>19. Nat \subseteq T
  <2> HIDE DEF T
  <2> QED BY <1>17, <1>18, NatSet
<1>20. after[N] \in A BY <1>19
<1> QED BY <1>1, <1>2, <1>3, <1>6, <1>7, <1>20 DEF A

-----------------------------------------------------------------------------
(***************************************************************************)
(* The routing table                                                       *)
(***************************************************************************)
\* A node that is not known has no contacts; those of a node are allocated and
\* point to it.
Owned(r) ==
  \A n \in Node : /\ n \notin r.known => r.contacts[n] = {}
                  /\ \A c \in r.contacts[n] : r.obj[c] = "live" /\ r.node[c] = n
OfKnownNode(r, c) == r.node[c] \in r.known /\ c \in r.contacts[r.node[c]]
Listed(r) == \A c \in ToSet(r.list) : OfKnownNode(r, c)
Marked(r) == \A c \in r.active : r.obj[c] = "live"
Loaded(r) == \A c \in Contact : r.bundles[c] # {} => OfKnownNode(r, c)

\* What holds of the memory whenever cm_semaphore is free, and between the steps of
\* an edit.
PlanOK(r) == /\ r \in Memory /\ IsInjective(r.list) /\ Sorted(r.list)
             /\ Owned(r) /\ Listed(r) /\ Marked(r) /\ Loaded(r)

\* Each bundle stays where it was, or goes to the processor with the others of its
\* contact.
BundlesMoved(r, s) ==
  /\ r.at_bp \subseteq s.at_bp
  /\ \A c \in Contact : \/ s.bundles[c] = r.bundles[c]
                        \/ s.bundles[c] = {} /\ r.bundles[c] \subseteq s.at_bp
  /\ \A b \in s.at_bp : \/ b \in r.at_bp
                        \/ \E c \in Contact : b \in r.bundles[c] /\ s.bundles[c] = {}

\* An edit changes the state of no contact outside of D but by freeing one, and no
\* mark; it does not crash, and the schedule stays feasible.
Edit(r, s, D) ==
  /\ s.active = r.active /\ s.faults = r.faults
  /\ \A c \in Contact \ D : \/ s.obj[c] = r.obj[c]
                            \/ r.obj[c] = "live" /\ s.obj[c] = "freed"
  /\ BundlesMoved(r, s)
  /\ FewContacts /\ Feasible(r.list, r.node) => Feasible(s.list, s.node)

\* One edit after the other.
LEMMA EditTrans ==
  ASSUME NEW r, NEW s, NEW t, NEW D, Edit(r, s, D), Edit(s, t, D)
  PROVE  Edit(r, t, D)
<1>1. BundlesMoved(r, t)
  <2>1. BundlesMoved(r, s) /\ BundlesMoved(s, t) BY DEF Edit
  <2> QED BY <2>1 DEF BundlesMoved
<1>2. \A c \in Contact \ D : \/ t.obj[c] = r.obj[c]
                             \/ r.obj[c] = "live" /\ t.obj[c] = "freed"
  BY DEF Edit
<1> QED BY <1>1, <1>2 DEF Edit

\* An edit that takes no objects is one that may take some.
LEMMA EditMore ==
  ASSUME NEW r, NEW s, NEW D, Edit(r, s, {}) PROVE Edit(r, s, D)
BY DEF Edit

\* A shorter list of contacts of the same nodes is feasible, too.
LEMMA FeasibleLess ==
  ASSUME NEW k \in Seq(Contact), NEW l \in Seq(Contact), NEW node, NEW now_node,
         ToSet(l) \subseteq ToSet(k), \A c \in ToSet(l) : now_node[c] = node[c],
         Feasible(k, node)
  PROVE  Feasible(l, now_node)
<1> SUFFICES ASSUME NEW t \in 0..MaxTime
             PROVE  /\ Cardinality(Open(l, t)) <= MaxConcurrent
                    /\ \A d, e \in Open(l, t) : now_node[d] = now_node[e] => d = e
  BY DEF Feasible
<1>1. Open(l, t) \subseteq Open(k, t) /\ Open(l, t) \subseteq ToSet(l) BY DEF Open
<1>2. Open(k, t) \subseteq Contact BY DEF Open, ToSet
<1>3. IsFiniteSet(Open(k, t)) BY <1>2, FS_Subset, PlanAssumption
<1>4. Cardinality(Open(l, t)) <= Cardinality(Open(k, t)) /\ IsFiniteSet(Open(l, t))
  BY <1>1, <1>3, FS_Subset
<1>5. Cardinality(Open(l, t)) \in Nat /\ Cardinality(Open(k, t)) \in Nat BY <1>3, <1>4, FS_CardinalityType
<1>6. /\ Cardinality(Open(k, t)) <= MaxConcurrent
      /\ \A d, e \in Open(k, t) : node[d] = node[e] => d = e
  BY DEF Feasible
<1>7. MaxConcurrent \in Nat BY PlanAssumption
<1>8. Cardinality(Open(l, t)) <= MaxConcurrent BY <1>4, <1>5, <1>6, <1>7
<1>9. \A d, e \in Open(l, t) : now_node[d] = now_node[e] => d = e
  <2> TAKE d, e \in Open(l, t)
  <2>1. now_node[d] = node[d] /\ now_node[e] = node[e] /\ d \in Open(k, t) /\ e \in Open(k, t) BY <1>1
  <2> QED BY <1>6, <2>1
<1> QED BY <1>8, <1>9

\* The tables and contact objects are the same.
SameTables(r, s) == /\ s.obj = r.obj /\ s.node = r.node
                    /\ s.known = r.known /\ s.contacts = r.contacts

\* reschedule_bundles gives all bundles of the contacts back to the processor.
Rescheduled(r, C, s) == /\ PlanOK(s) /\ Edit(r, s, {}) /\ SameTables(r, s)
                        /\ s.list = r.list /\ \A c \in C : s.bundles[c] = {}

\* reschedule_bundles takes the bundles off a contact.
LEMMA RescheduleFacts ==
  ASSUME NEW r, PlanOK(r), NEW C \in SUBSET Contact
  PROVE  Rescheduled(r, C, reschedule_bundles(r, C))
<1> DEFINE s == reschedule_bundles(r, C)
<1>1. r \in Memory BY DEF PlanOK
<1>2. /\ SameTables(r, s) /\ s.list = r.list /\ s.active = r.active /\ s.faults = r.faults
      /\ s.bundles = [c \in Contact |-> IF c \in C THEN {} ELSE r.bundles[c]]
      /\ s.at_bp = r.at_bp \cup UNION {r.bundles[c] : c \in C}
  BY <1>1 DEF Memory, reschedule_bundles, SameTables
<1>3. s \in Memory
  <2>1. UNION {r.bundles[c] : c \in C} \subseteq Bundle BY <1>1 DEF Memory
  <2>2. [c \in Contact |-> IF c \in C THEN {} ELSE r.bundles[c]] \in [Contact -> SUBSET Bundle]
    BY <1>1 DEF Memory
  <2> QED BY <1>1, <2>1, <2>2 DEF Memory, reschedule_bundles
<1> HIDE DEF s
<1>4. \A c \in Contact : s.bundles[c] # {} => r.bundles[c] # {} BY <1>2
<1>5. PlanOK(s) BY <1>2, <1>3, <1>4 DEF PlanOK, Owned, Listed, Marked, Loaded, OfKnownNode, SameTables
<1>6. BundlesMoved(r, s) BY <1>2 DEF BundlesMoved
<1>7. Edit(r, s, {}) BY <1>2, <1>6 DEF Edit, SameTables
<1>8. \A c \in C : s.bundles[c] = {} BY <1>2
<1>9. Rescheduled(r, C, s) BY <1>2, <1>5, <1>7, <1>8 DEF Rescheduled
<1> QED BY <1>9 DEF s

\* Another list of contacts.
WithList(r, l, s) == /\ s \in Memory /\ SameTables(r, s) /\ s.list = l
                     /\ s.active = r.active /\ s.faults = r.faults
                     /\ s.bundles = r.bundles /\ s.at_bp = r.at_bp

\* Replacing the list of contacts changes no other table.
LEMMA WithListFacts ==
  ASSUME NEW r \in Memory, NEW l \in Seq(Contact)
  PROVE  WithList(r, l, [r EXCEPT !.list = l])
BY DEF Memory, WithList, SameTables

\* A list of contacts of known nodes replaces the one before.
LEMMA RelistEdit ==
  ASSUME NEW r, PlanOK(r), NEW l \in Seq(Contact), NEW s, WithList(r, l, s),
         IsInjective(l), Sorted(l), \A c \in ToSet(l) : OfKnownNode(r, c),
         FewContacts /\ Feasible(r.list, r.node) => Feasible(l, r.node)
  PROVE  PlanOK(s) /\ Edit(r, s, {})
<1>1. BundlesMoved(r, s) BY DEF WithList, BundlesMoved
<1>2. Edit(r, s, {}) BY <1>1 DEF Edit, WithList, SameTables
<1>3. Owned(s) /\ Listed(s) /\ Marked(s) /\ Loaded(s)
  BY DEF PlanOK, WithList, SameTables, Owned, Listed, Marked, Loaded, OfKnownNode
<1> QED BY <1>2, <1>3 DEF PlanOK, WithList

\* remove_contact_from_list for the contacts of a node.
Unlisted(r, n, s) ==
  /\ PlanOK(s) /\ Edit(r, s, {}) /\ SameTables(r, s) /\ s.bundles = r.bundles
  /\ ToSet(s.list) = ToSet(r.list) \ r.contacts[n]

\* Without the contacts of a node, the list is still ordered.
LEMMA UnlistFacts ==
  ASSUME NEW r, PlanOK(r), NEW n \in Node
  PROVE  Unlisted(r, n, unlist_node(r, n))
<1>1. r \in Memory /\ r.list \in Seq(Contact) BY DEF PlanOK, Memory
<1>2. PICK l : l = SubList(r.list, Contact \ r.contacts[n]) OBVIOUS
<1>3. Thinned(r.list, Contact \ r.contacts[n], l) BY <1>1, <1>2, SubListFacts
<1>4. ToSet(r.list) \subseteq Contact BY <1>1 DEF ToSet
<1>5. l \in Seq(Contact) /\ ToSet(l) = ToSet(r.list) \ r.contacts[n] /\ IsInjective(l) /\ Sorted(l)
  BY <1>3, <1>4 DEF Thinned, PlanOK
<1>6. WithList(r, l, unlist_node(r, n)) BY <1>1, <1>2, <1>5, WithListFacts DEF unlist_node
<1>7. \A c \in ToSet(l) : OfKnownNode(r, c) BY <1>5 DEF PlanOK, Listed
<1>8. Feasible(r.list, r.node) => Feasible(l, r.node) BY <1>1, <1>5, FeasibleLess
<1>9. PlanOK(unlist_node(r, n)) /\ Edit(r, unlist_node(r, n), {})
  BY <1>5, <1>6, <1>7, <1>8, RelistEdit
<1> QED BY <1>5, <1>6, <1>9 DEF Unlisted, WithList

\* add_node_to_tables lists contacts of a known node.
Relisted(r, s) == PlanOK(s) /\ Edit(r, s, {}) /\ SameTables(r, s)

\* add_node_to_tables extends the list by the contacts of a known node.
LEMMA AddToTables ==
  ASSUME NEW r, PlanOK(r), NEW n \in r.known
  PROVE  Relisted(r, add_node_to_tables(r, n))
<1>1. r \in Memory /\ n \in Node BY DEF PlanOK, Memory
<1>2. PICK l : /\ add_node_to_tables(r, n) = [r EXCEPT !.list = l]
               /\ Grown(r.list, r.node, r.contacts[n], l)
  BY <1>1, AddNodeFacts
<1>3. PICK s : s = add_node_to_tables(r, n) OBVIOUS
<1>4. l \in Seq(Contact) /\ IsInjective(l) /\ Sorted(l) BY <1>2 DEF Grown, Extended, PlanOK
<1>5. WithList(r, l, s) BY <1>1, <1>2, <1>3, <1>4, WithListFacts
<1>6. \A c \in r.contacts[n] : OfKnownNode(r, c) BY <1>1 DEF PlanOK, Owned, OfKnownNode
<1>7. \A c \in ToSet(l) : OfKnownNode(r, c) BY <1>2, <1>6 DEF Grown, Extended, PlanOK, Listed
<1>8. FewContacts /\ Feasible(r.list, r.node) => Feasible(l, r.node) BY <1>2 DEF Grown
<1>9. PlanOK(s) /\ Edit(r, s, {}) BY <1>4, <1>5, <1>7, <1>8, RelistEdit
<1> QED BY <1>3, <1>5, <1>9 DEF Relisted, WithList

\* After remove_node_from_tables no list and no bundle refers to a contact of the
\* node, and the ones that are left in its own list are not active.
Detached(r, n, s) ==
  /\ PlanOK(s) /\ Edit(r, s, {}) /\ s.known = r.known /\ s.obj = r.obj
  /\ s.contacts[n] \cap s.active = {}
  /\ \A c \in ToSet(s.list) : s.node[c] # n
  /\ \A c \in Contact : s.bundles[c] # {} => s.node[c] # n

\* remove_node_from_tables takes the contacts of a node out of the list.
LEMMA RemoveNodeFacts ==
  ASSUME NEW r, PlanOK(r), NEW n \in Node
  PROVE  Detached(r, n, remove_node_from_tables(r, n))
<1>1. PICK u : u = unlist_node(r, n) OBVIOUS
<1>2. Unlisted(r, n, u) BY <1>1, UnlistFacts
<1>3. r \in Memory /\ r.contacts[n] \in SUBSET Contact BY DEF PlanOK, Memory
<1>4. PICK d : d = reschedule_bundles(u, r.contacts[n]) OBVIOUS
<1>5. Rescheduled(u, r.contacts[n], d) BY <1>2, <1>3, <1>4, RescheduleFacts DEF Unlisted
<1>6. Edit(r, d, {}) BY <1>2, <1>5, EditTrans DEF Unlisted, Rescheduled
<1>7. SameTables(r, d) /\ d.list = u.list /\ d.active = r.active /\ PlanOK(d) /\ d \in Memory
  BY <1>2, <1>5, <1>6 DEF SameTables, Rescheduled, Unlisted, PlanOK, Edit
<1> DEFINE gone_on == r.contacts[n] \cap r.active
           s == remove_node_from_tables(r, n)
<1>8. s = [d EXCEPT !.node = [c \in Contact |-> IF c \in gone_on THEN NULL ELSE @[c]],
                    !.contacts[n] = @ \ gone_on]
  BY <1>1, <1>4 DEF remove_node_from_tables
<1> HIDE DEF s
<1>9. /\ s.obj = r.obj /\ s.known = r.known /\ s.active = r.active /\ s.faults = d.faults
      /\ s.list = d.list /\ s.bundles = d.bundles /\ s.at_bp = d.at_bp
      /\ s.node = [c \in Contact |-> IF c \in gone_on THEN NULL ELSE r.node[c]]
      /\ s.contacts = [r.contacts EXCEPT ![n] = @ \ gone_on]
  BY <1>7, <1>8 DEF Memory, SameTables
<1>10. s \in Memory BY <1>3, <1>7, <1>8 DEF Memory
<1>11. \A m \in Node : s.contacts[m] \subseteq r.contacts[m]
                       /\ (m # n => s.contacts[m] = r.contacts[m])
                       /\ (m = n => s.contacts[m] = r.contacts[m] \ gone_on)
  BY <1>3, <1>9 DEF Memory
<1>12. \A m \in Node : \A c \in r.contacts[m] : r.node[c] = m /\ r.obj[c] = "live" BY DEF PlanOK, Owned
<1>13. r.known \subseteq Node BY <1>3 DEF Memory
<1>14. \A c \in ToSet(s.list) \cup {e \in Contact : s.bundles[e] # {}} :
         c \in Contact /\ OfKnownNode(r, c) /\ c \notin r.contacts[n]
  <2>1. ToSet(d.list) = ToSet(r.list) \ r.contacts[n] BY <1>2, <1>7 DEF Unlisted
  <2>2. ToSet(d.list) \subseteq Contact BY <1>7 DEF Memory, ToSet
  <2>3. \A c \in ToSet(s.list) : c \in Contact /\ OfKnownNode(r, c) /\ c \notin r.contacts[n]
    BY <1>9, <2>1, <2>2 DEF PlanOK, Listed
  <2>4. \A c \in Contact : d.bundles[c] # {} => OfKnownNode(d, c) /\ c \notin r.contacts[n]
    BY <1>5, <1>7 DEF PlanOK, Loaded, Rescheduled
  <2> QED BY <1>7, <1>9, <2>3, <2>4 DEF OfKnownNode, SameTables
<1>15. \A c \in ToSet(s.list) \cup {e \in Contact : s.bundles[e] # {}} :
         s.node[c] # n /\ s.node[c] = r.node[c] /\ OfKnownNode(s, c)
  <2> TAKE c \in ToSet(s.list) \cup {e \in Contact : s.bundles[e] # {}}
  <2>1. c \in Contact /\ r.node[c] \in r.known /\ c \in r.contacts[r.node[c]] /\ c \notin r.contacts[n]
    BY <1>14 DEF OfKnownNode
  <2>2. s.node[c] = r.node[c] /\ r.node[c] # n BY <1>9, <2>1
  <2> QED BY <1>9, <1>11, <1>13, <2>1, <2>2 DEF OfKnownNode
<1>16. Owned(s)
  <2>1. ASSUME NEW m \in Node, m \notin s.known PROVE s.contacts[m] = {}
    BY <1>9, <1>11, <2>1 DEF PlanOK, Owned
  <2>2. ASSUME NEW m \in Node, NEW c \in s.contacts[m] PROVE s.obj[c] = "live" /\ s.node[c] = m
    <3>1. c \in r.contacts[m] /\ r.node[c] = m /\ c \in Contact /\ r.obj[c] = "live"
      BY <1>3, <1>11, <1>12 DEF Memory
    <3>2. c \notin gone_on BY <1>11, <1>12, <2>2, <3>1
    <3> QED BY <1>9, <3>1, <3>2
  <2> QED BY <2>1, <2>2 DEF Owned
<1>17. Listed(s) /\ Loaded(s) BY <1>15 DEF Listed, Loaded
<1>18. Marked(s) BY <1>9 DEF PlanOK, Marked
<1>19. PlanOK(s) BY <1>7, <1>9, <1>10, <1>16, <1>17, <1>18 DEF PlanOK
<1>20. Edit(r, s, {})
  <2>1. BundlesMoved(r, s) BY <1>6, <1>9 DEF Edit, BundlesMoved
  <2>2. Feasible(d.list, d.node) => Feasible(s.list, s.node)
    <3>1. s.list \in Seq(Contact) BY <1>10 DEF Memory
    <3>2. \A c \in ToSet(s.list) : s.node[c] = d.node[c] BY <1>7, <1>15 DEF SameTables
    <3>3. d.list \in Seq(Contact) /\ ToSet(s.list) \subseteq ToSet(d.list) BY <1>7, <1>9 DEF Memory
    <3> QED BY <3>1, <3>2, <3>3, FeasibleLess
  <2> QED BY <1>6, <1>7, <1>9, <2>1, <2>2 DEF Edit
<1>21. s.contacts[n] \cap s.active = {} BY <1>9, <1>11
<1> QED BY <1>9, <1>15, <1>19, <1>20, <1>21 DEF Detached, s

\* free_node frees what the node still owns and leaves no way to its contacts.
Emptied(r, n, s) ==
  /\ PlanOK(s) /\ Edit(r, s, {}) /\ s.known = r.known /\ s.contacts[n] = {}
  /\ \A c \in ToSet(s.list) : s.node[c] # n
  /\ \A c \in Contact : s.bundles[c] # {} => s.node[c] # n
  /\ \A c \in Contact : r.obj[c] # "live" => s.obj[c] = r.obj[c]

\* free_node frees the node and its contacts; freeing an active one is the
\* fault.
LEMMA FreeNodeFacts ==
  ASSUME NEW r, NEW n \in Node, NEW d, Detached(r, n, d)
  PROVE  Emptied(r, n, free_node(d, n))
<1> DEFINE s == free_node(d, n)
           own == d.contacts[n]
<1>1. d \in Memory /\ own \in SUBSET Contact /\ PlanOK(d) /\ Edit(r, d, {})
  BY DEF Detached, PlanOK, Memory
<1>2. /\ s.known = d.known /\ s.active = d.active /\ s.faults = d.faults \cup (own \cap d.active)
      /\ s.list = d.list /\ s.at_bp = d.at_bp
      /\ s.obj = [c \in Contact |-> IF c \in own THEN "freed" ELSE d.obj[c]]
      /\ s.bundles = [c \in Contact |-> IF c \in own THEN {} ELSE d.bundles[c]]
      /\ s.node = [c \in Contact |-> IF d.node[c] = n /\ c \notin own THEN Dangling ELSE d.node[c]]
      /\ s.contacts = [d.contacts EXCEPT ![n] = {}]
  BY <1>1 DEF Memory, free_node, free_contacts
<1>3. s \in Memory
  <2>1. s.obj \in [Contact -> {"unborn", "in_command", "live", "freed"}] BY <1>1, <1>2 DEF Memory
  <2>2. s.bundles \in [Contact -> SUBSET Bundle] BY <1>1, <1>2 DEF Memory
  <2>3. s.node \in [Contact -> Node \cup {NULL, Dangling}] BY <1>1, <1>2 DEF Memory
  <2>4. s.contacts \in [Node -> SUBSET Contact] BY <1>1, <1>2 DEF Memory
  <2>5. s.faults \in SUBSET Contact BY <1>1, <1>2 DEF Memory
  <2> QED BY <1>1, <2>1, <2>2, <2>3, <2>4, <2>5 DEF Memory, free_node, free_contacts
<1> HIDE DEF s
<1>4. own \cap d.active = {} BY DEF Detached
<1>5. /\ \A c \in ToSet(d.list) : d.node[c] # n
      /\ \A c \in Contact : d.bundles[c] # {} => d.node[c] # n
  BY DEF Detached
<1>6. \A c \in own : d.obj[c] = "live" /\ d.node[c] = n BY <1>1 DEF PlanOK, Owned
<1>7. d.known \subseteq Node /\ ToSet(d.list) \subseteq Contact BY <1>1 DEF Memory, ToSet
<1>8. \A m \in Node : s.contacts[m] = IF m = n THEN {} ELSE d.contacts[m] BY <1>1, <1>2 DEF Memory
<1>9. \A c \in Contact : d.node[c] # n => s.node[c] = d.node[c] /\ c \notin own BY <1>2, <1>6
<1>10. \A c \in Contact : d.node[c] # n /\ OfKnownNode(d, c) => OfKnownNode(s, c)
  <2> SUFFICES ASSUME NEW c \in Contact, d.node[c] # n, OfKnownNode(d, c) PROVE OfKnownNode(s, c) OBVIOUS
  <2>1. s.node[c] = d.node[c] /\ d.node[c] \in Node /\ d.node[c] \in d.known /\ c \in d.contacts[d.node[c]]
    BY <1>7, <1>9 DEF OfKnownNode
  <2> QED BY <1>2, <1>8, <2>1 DEF OfKnownNode
<1>11. Listed(s) BY <1>1, <1>2, <1>5, <1>7, <1>10 DEF PlanOK, Listed
<1>12. \A c \in Contact : s.bundles[c] # {} => d.bundles[c] # {} /\ d.node[c] # n BY <1>2, <1>5
<1>13. Loaded(s) BY <1>1, <1>10, <1>12 DEF PlanOK, Loaded
<1>14. Owned(s)
  <2>1. ASSUME NEW m \in Node, m \notin s.known PROVE s.contacts[m] = {}
    BY <1>1, <1>2, <1>8, <2>1 DEF PlanOK, Owned
  <2>2. ASSUME NEW m \in Node, NEW c \in s.contacts[m] PROVE s.obj[c] = "live" /\ s.node[c] = m
    <3>1. m # n /\ c \in d.contacts[m] BY <1>8, <2>2
    <3>2. c \in Contact /\ d.obj[c] = "live" /\ d.node[c] = m BY <1>1, <3>1 DEF PlanOK, Owned, Memory
    <3>3. c \notin own BY <1>6, <3>1, <3>2
    <3> QED BY <1>2, <1>9, <3>1, <3>2, <3>3
  <2> QED BY <2>1, <2>2 DEF Owned
<1>15. Marked(s)
  <2>1. d.active \subseteq Contact BY <1>1 DEF Memory
  <2> QED BY <1>1, <1>2, <1>4, <2>1 DEF PlanOK, Marked
<1>16. PlanOK(s) BY <1>1, <1>2, <1>3, <1>11, <1>13, <1>14, <1>15 DEF PlanOK
<1>17. \A c \in Contact : own \subseteq Contact /\ (c \in own => d.bundles[c] = {}) BY <1>1, <1>5, <1>6
<1>18. s.bundles = d.bundles BY <1>1, <1>2, <1>17 DEF Memory
<1>19. Edit(d, s, {})
  <2>1. BundlesMoved(d, s) BY <1>2, <1>18 DEF BundlesMoved
  <2>2. Feasible(d.list, d.node) => Feasible(s.list, s.node)
    <3>1. d.list \in Seq(Contact) BY <1>1 DEF Memory
    <3>2. s.list \in Seq(Contact) /\ ToSet(s.list) \subseteq ToSet(d.list) BY <1>2, <3>1
    <3>3. \A c \in ToSet(s.list) : s.node[c] = d.node[c] BY <1>2, <1>5, <1>7, <1>9
    <3> QED BY <3>1, <3>2, <3>3, FeasibleLess
  <2>3. \A c \in Contact : \/ s.obj[c] = d.obj[c]
                           \/ d.obj[c] = "live" /\ s.obj[c] = "freed"
    BY <1>2, <1>6
  <2>4. s.faults = d.faults BY <1>2, <1>4
  <2> QED BY <1>2, <2>1, <2>2, <2>3, <2>4 DEF Edit
<1>20. Edit(r, s, {}) BY <1>1, <1>19, EditTrans
<1>21. s.contacts[n] = {} BY <1>8
<1>22. s.known = r.known BY <1>2 DEF Detached
<1>23. \A c \in Contact : r.obj[c] # "live" => s.obj[c] = r.obj[c] BY <1>20 DEF Edit
<1>24. \A c \in ToSet(s.list) : s.node[c] # n BY <1>2, <1>5, <1>7, <1>9
<1>25. \A c \in Contact : s.bundles[c] # {} => s.node[c] # n BY <1>9, <1>12
<1> QED BY <1>16, <1>20, <1>21, <1>22, <1>23, <1>24, <1>25 DEF Emptied, s

\* The contacts of A, of those of C that came with a command, become contacts of the
\* node; the others of C are freed.
Associated(r, n, A, C, m) ==
  /\ m \in Memory
  /\ m.obj = [c \in Contact |-> IF c \in A THEN "live" ELSE IF c \in C THEN "freed" ELSE r.obj[c]]
  /\ m.node = [c \in Contact |-> IF c \in A THEN n ELSE r.node[c]]
  /\ m.known = r.known \cup {n} /\ m.contacts = [r.contacts EXCEPT ![n] = @ \cup A]
  /\ m.active = r.active /\ m.faults = r.faults /\ m.list = r.list
  /\ m.bundles = r.bundles /\ m.at_bp = r.at_bp

\* The contacts of a command become those of a node, or are freed.
LEMMA AssociateFacts ==
  ASSUME NEW r, PlanOK(r), NEW n \in Node, NEW C \in SUBSET Contact, NEW A \in SUBSET C,
         \A c \in C : r.obj[c] = "in_command", NEW m, Associated(r, n, A, C, m)
  PROVE  PlanOK(m) /\ Edit(r, m, C)
<1>1. r \in Memory /\ r.known \subseteq Node /\ r.list \in Seq(Contact) /\ r.active \subseteq Contact
  BY DEF PlanOK, Memory
<1>2. \A k \in Node : m.contacts[k] = IF k = n THEN r.contacts[k] \cup A ELSE r.contacts[k]
  BY <1>1 DEF Associated, Memory
<1>3. \A c \in Contact : r.obj[c] = "live" =>
        c \notin C /\ m.obj[c] = "live" /\ m.node[c] = r.node[c]
  BY DEF Associated
<1>4. \A k \in Node : \A c \in r.contacts[k] : c \in Contact /\ r.obj[c] = "live" /\ r.node[c] = k
  BY <1>1 DEF PlanOK, Owned, Memory
<1>5. \A c \in Contact : OfKnownNode(r, c) => r.obj[c] = "live" /\ OfKnownNode(m, c)
  <2> SUFFICES ASSUME NEW c \in Contact, OfKnownNode(r, c)
               PROVE  r.obj[c] = "live" /\ OfKnownNode(m, c)
    OBVIOUS
  <2>1. r.node[c] \in Node /\ c \in r.contacts[r.node[c]] /\ r.node[c] \in r.known
    BY <1>1 DEF OfKnownNode
  <2>2. r.obj[c] = "live" /\ m.node[c] = r.node[c] BY <1>3, <1>4, <2>1
  <2>3. c \in m.contacts[r.node[c]] BY <1>2, <2>1
  <2>4. r.node[c] \in m.known BY <2>1 DEF Associated
  <2> QED BY <2>2, <2>3, <2>4 DEF OfKnownNode
<1>6. ToSet(m.list) \subseteq Contact /\ m.list = r.list BY <1>1 DEF Associated, ToSet
<1>7. Listed(m) BY <1>5, <1>6 DEF PlanOK, Listed
<1>8. Loaded(m) BY <1>5 DEF PlanOK, Loaded, Associated
<1>9. Marked(m) BY <1>1, <1>3 DEF PlanOK, Marked, Associated
<1>10. Owned(m)
  <2>1. ASSUME NEW k \in Node, k \notin m.known PROVE m.contacts[k] = {}
    <3>1. k # n /\ k \notin r.known BY <2>1 DEF Associated
    <3> QED BY <1>2, <3>1 DEF PlanOK, Owned
  <2>2. ASSUME NEW k \in Node, NEW c \in m.contacts[k] PROVE m.obj[c] = "live" /\ m.node[c] = k
    <3>1. CASE c \in r.contacts[k] BY <1>3, <1>4, <3>1
    <3>2. CASE c \notin r.contacts[k]
      <4>1. k = n /\ c \in A /\ c \in Contact BY <1>2, <2>2, <3>2
      <4> QED BY <4>1 DEF Associated
    <3> QED BY <3>1, <3>2
  <2> QED BY <2>1, <2>2 DEF Owned
<1>11. PlanOK(m) BY <1>7, <1>8, <1>9, <1>10 DEF PlanOK, Associated
<1>12. Edit(r, m, C)
  <2>1. BundlesMoved(r, m) BY DEF Associated, BundlesMoved
  <2>2. \A c \in Contact \ C : m.obj[c] = r.obj[c] BY DEF Associated
  <2>3. Feasible(r.list, r.node) => Feasible(m.list, m.node)
    <3>1. \A c \in ToSet(m.list) : m.node[c] = r.node[c] BY <1>3, <1>5, <1>6 DEF PlanOK, Listed
    <3>2. m.list \in Seq(Contact) /\ ToSet(m.list) \subseteq ToSet(r.list) BY <1>1, <1>6
    <3> QED BY <1>1, <3>1, <3>2, FeasibleLess
  <2>4. m.active = r.active /\ m.faults = r.faults BY DEF Associated
  <2> QED BY <2>1, <2>2, <2>3, <2>4 DEF Edit
<1> QED BY <1>11, <1>12

\* What an edit on behalf of a command makes of the memory.
Edited(r, s, C) == PlanOK(s) /\ Edit(r, s, C)

\* add_new_node, also with the entry of a node that was emptied before.
LEMMA InstallFacts ==
  ASSUME NEW r, PlanOK(r), NEW n \in Node, NEW C \in SUBSET Contact,
         r.contacts[n] = {}, \A c \in C : r.obj[c] = "in_command"
  PROVE  Edited(r, install_node(r, n, C), C)
<1> DEFINE m == [r EXCEPT !.known = @ \cup {n},
                          !.contacts[n] = C,
                          !.obj = [c \in Contact |-> IF c \in C THEN "live" ELSE @[c]],
                          !.node = [c \in Contact |-> IF c \in C THEN n ELSE @[c]]]
<1>1. r \in Memory BY DEF PlanOK
<1>2. Associated(r, n, C, C, m)
  <2>1. /\ m.obj = [c \in Contact |-> IF c \in C THEN "live" ELSE r.obj[c]]
        /\ m.node = [c \in Contact |-> IF c \in C THEN n ELSE r.node[c]]
        /\ m.known = r.known \cup {n} /\ m.contacts = [r.contacts EXCEPT ![n] = C]
        /\ m.active = r.active /\ m.faults = r.faults /\ m.list = r.list
        /\ m.bundles = r.bundles /\ m.at_bp = r.at_bp
    BY <1>1 DEF Memory
  <2>2. m.obj \in [Contact -> {"unborn", "in_command", "live", "freed"}] BY <1>1, <2>1 DEF Memory
  <2>3. m.node \in [Contact -> Node \cup {NULL, Dangling}] BY <1>1, <2>1 DEF Memory
  <2>4. m.contacts \in [Node -> SUBSET Contact] BY <1>1, <2>1 DEF Memory
  <2>5. m \in Memory
    <3>1. m.known \in SUBSET Node BY <1>1, <2>1 DEF Memory
    <3> QED BY <1>1, <2>2, <2>3, <2>4, <3>1 DEF Memory
  <2>6. r.contacts[n] \cup C = C OBVIOUS
  <2>7. [r.contacts EXCEPT ![n] = @ \cup C] = [r.contacts EXCEPT ![n] = C] BY <2>6
  <2> HIDE DEF m
  <2> QED BY <2>1, <2>5, <2>7 DEF Associated
<1>3. install_node(r, n, C) = add_node_to_tables(m, n) BY DEF install_node
<1> HIDE DEF m
<1>4. PlanOK(m) /\ Edit(r, m, C) BY <1>2, AssociateFacts
<1>5. n \in m.known BY <1>2 DEF Associated
<1>6. Relisted(m, install_node(r, n, C)) BY <1>3, <1>4, <1>5, AddToTables
<1>7. Edit(r, install_node(r, n, C), C) BY <1>4, <1>6, EditTrans, EditMore DEF Relisted
<1> QED BY <1>6, <1>7 DEF Relisted, Edited

\* routing_table_replace_node frees the old node and its contacts, but for the active
\* ones, which no longer belong to a node.
LEMMA ReplaceFacts ==
  ASSUME NEW r, PlanOK(r), NEW n \in Node, NEW C \in SUBSET Contact,
         \A c \in C : r.obj[c] = "in_command"
  PROVE  Edited(r, routing_table_replace_node(r, n, C), C)
<1>1. CASE n \notin r.known
  <2>1. r.contacts[n] = {} BY <1>1 DEF PlanOK, Owned
  <2> QED BY <1>1, <2>1, InstallFacts DEF routing_table_replace_node
<1>2. CASE n \in r.known
  <2>1. PICK d : d = remove_node_from_tables(r, n) OBVIOUS
  <2>2. Detached(r, n, d) BY <2>1, RemoveNodeFacts
  <2>3. PICK e : e = free_node(d, n) OBVIOUS
  <2>4. Emptied(r, n, e) BY <2>2, <2>3, FreeNodeFacts
  <2>5. PlanOK(e) /\ Edit(r, e, {}) /\ e.contacts[n] = {} /\ \A c \in C : e.obj[c] = "in_command"
    BY <2>4 DEF Emptied
  <2>6. Edited(e, install_node(e, n, C), C) BY <2>5, InstallFacts
  <2>7. routing_table_replace_node(r, n, C) = install_node(e, n, C)
    BY <1>2, <2>1, <2>3 DEF routing_table_replace_node
  <2>8. Edit(r, install_node(e, n, C), C) BY <2>5, <2>6, EditTrans, EditMore DEF Edited
  <2> QED BY <2>6, <2>7, <2>8 DEF Edited
<1> QED BY <1>1, <1>2

\* routing_table_add_node merges the new contacts into the list of the node.
LEMMA AddNode ==
  ASSUME NEW r, PlanOK(r), NEW n \in Node, NEW C \in SUBSET Contact,
         \A c \in C : r.obj[c] = "in_command",
         NEW over \in SUBSET contact_list_difference(r.contacts[n], C)
  PROVE  Edited(r, routing_table_add_node(r, n, C, over), C)
<1>1. CASE n \notin r.known
  <2>1. r.contacts[n] = {} BY <1>1 DEF PlanOK, Owned
  <2> QED BY <1>1, <2>1, InstallFacts DEF routing_table_add_node
<1>2. CASE n \in r.known
  <2> DEFINE all == contact_list_union(r.contacts[n], C)
             A == C \cap all
             u == [r EXCEPT
                     !.contacts[n] = all,
                     !.obj = [c \in Contact |-> IF c \in C \ all THEN "freed"
                                                ELSE IF c \in C THEN "live" ELSE @[c]],
                     !.node = [c \in Contact |-> IF c \in all THEN n ELSE @[c]]]
  <2>1. r \in Memory /\ r.contacts[n] \subseteq Contact BY DEF PlanOK, Memory
  <2>2. all = r.contacts[n] \cup A BY DEF contact_list_union
  <2>3. \A c \in r.contacts[n] : r.obj[c] = "live" /\ r.node[c] = n /\ c \notin C
    BY DEF PlanOK, Owned
  <2>4. over \in SUBSET Contact BY <2>1 DEF contact_list_difference
  <2>5. routing_table_add_node(r, n, C, over) = add_node_to_tables(reschedule_bundles(u, over), n)
    BY <1>2 DEF routing_table_add_node
  <2> HIDE DEF all
  <2>6. /\ u.obj = [c \in Contact |-> IF c \in C \ all THEN "freed"
                                      ELSE IF c \in C THEN "live" ELSE r.obj[c]]
        /\ u.node = [c \in Contact |-> IF c \in all THEN n ELSE r.node[c]]
        /\ u.known = r.known /\ u.contacts = [r.contacts EXCEPT ![n] = all]
        /\ u.active = r.active /\ u.faults = r.faults /\ u.list = r.list
        /\ u.bundles = r.bundles /\ u.at_bp = r.at_bp
    BY <2>1 DEF Memory
  <2>7. u \in Memory
    <3>1. u.obj \in [Contact -> {"unborn", "in_command", "live", "freed"}] BY <2>1, <2>6 DEF Memory
    <3>2. u.node \in [Contact -> Node \cup {NULL, Dangling}] BY <2>1, <2>6 DEF Memory
    <3>3. all \subseteq Contact BY <2>1, <2>2
    <3>4. u.contacts \in [Node -> SUBSET Contact] BY <2>1, <2>6, <3>3 DEF Memory
    <3> QED BY <2>1, <3>1, <3>2, <3>4 DEF Memory
  <2> HIDE DEF u
  <2>8. u.obj = [c \in Contact |-> IF c \in A THEN "live" ELSE IF c \in C THEN "freed" ELSE r.obj[c]]
    BY <2>6
  <2>9. u.node = [c \in Contact |-> IF c \in A THEN n ELSE r.node[c]]
    <3>1. \A c \in Contact : (IF c \in all THEN n ELSE r.node[c]) = (IF c \in A THEN n ELSE r.node[c])
      BY <2>2, <2>3
    <3> QED BY <2>6, <3>1
  <2>10. u.contacts = [r.contacts EXCEPT ![n] = @ \cup A] BY <2>2, <2>6
  <2>11. u.known = r.known \cup {n} BY <1>2, <2>6
  <2>12. Associated(r, n, A, C, u) BY <2>6, <2>7, <2>8, <2>9, <2>10, <2>11 DEF Associated
  <2>13. PlanOK(u) /\ Edit(r, u, C) BY <2>12, AssociateFacts
  <2>14. PICK d : d = reschedule_bundles(u, over) OBVIOUS
  <2>15. Rescheduled(u, over, d) BY <2>4, <2>13, <2>14, RescheduleFacts
  <2>16. PlanOK(d) /\ Edit(u, d, {}) /\ n \in d.known
    BY <1>2, <2>6, <2>15 DEF Rescheduled, SameTables
  <2>17. PICK s : s = add_node_to_tables(d, n) OBVIOUS
  <2>18. Relisted(d, s) BY <2>16, <2>17, AddToTables
  <2>19. Edit(r, d, C) BY <2>13, <2>16, EditTrans, EditMore
  <2>20. Edit(r, s, C) BY <2>18, <2>19, EditTrans, EditMore DEF Relisted
  <2> QED BY <2>5, <2>14, <2>17, <2>18, <2>20 DEF Relisted, Edited
<1> QED BY <1>1, <1>2

\* Contacts of a node that no list and no bundle refers to are taken from it, and
\* freed unless they are active.
Taken(d, n, K, s) ==
  /\ s \in Memory
  /\ s.obj = [c \in Contact |-> IF c \in K \ d.active THEN "freed" ELSE d.obj[c]]
  /\ s.contacts = [d.contacts EXCEPT ![n] = @ \ K]
  /\ s.node = d.node /\ s.known = d.known /\ s.list = d.list /\ s.active = d.active
  /\ s.bundles = d.bundles /\ s.at_bp = d.at_bp /\ s.faults = d.faults

\* Unlisted contacts with no bundles are taken from a node.
LEMMA TakenFacts ==
  ASSUME NEW d, PlanOK(d), NEW n \in Node, NEW K \in SUBSET d.contacts[n],
         \A c \in K : d.bundles[c] = {}, ToSet(d.list) \cap K = {}, NEW s, Taken(d, n, K, s)
  PROVE  Edited(d, s, {})
<1>1. d \in Memory /\ d.known \subseteq Node /\ d.list \in Seq(Contact) /\ d.contacts[n] \subseteq Contact
  BY DEF PlanOK, Memory
<1>2. \A k \in Node : s.contacts[k] = IF k = n THEN d.contacts[k] \ K ELSE d.contacts[k]
  BY <1>1 DEF Taken, Memory
<1>3. \A k \in Node : \A c \in d.contacts[k] : c \in Contact /\ d.obj[c] = "live" /\ d.node[c] = k
  BY <1>1 DEF PlanOK, Owned, Memory
<1>4. \A c \in Contact : c \notin K /\ OfKnownNode(d, c) => OfKnownNode(s, c)
  <2> SUFFICES ASSUME NEW c \in Contact, c \notin K, OfKnownNode(d, c) PROVE OfKnownNode(s, c) OBVIOUS
  <2>1. d.node[c] \in Node /\ d.node[c] \in d.known /\ c \in d.contacts[d.node[c]]
    BY <1>1 DEF OfKnownNode
  <2>2. c \in s.contacts[d.node[c]] BY <1>2, <2>1
  <2> QED BY <2>1, <2>2 DEF OfKnownNode, Taken
<1>5. ToSet(d.list) \subseteq Contact BY <1>1 DEF ToSet
<1>6. Listed(s) BY <1>4, <1>5 DEF PlanOK, Listed, Taken
<1>7. Loaded(s) BY <1>4 DEF PlanOK, Loaded, Taken
<1>8. Marked(s)
  <2>1. d.active \subseteq Contact BY <1>1 DEF Memory
  <2> QED BY <2>1 DEF PlanOK, Marked, Taken
<1>9. Owned(s)
  <2>1. ASSUME NEW k \in Node, k \notin s.known PROVE s.contacts[k] = {}
    BY <1>2, <2>1 DEF PlanOK, Owned, Taken
  <2>2. ASSUME NEW k \in Node, NEW c \in s.contacts[k] PROVE s.obj[c] = "live" /\ s.node[c] = k
    <3>1. c \in d.contacts[k] BY <1>2, <2>2
    <3>2. c \in Contact /\ d.obj[c] = "live" /\ d.node[c] = k BY <1>3, <3>1
    <3>3. c \notin K
      <4>1. CASE k = n BY <1>2, <2>2, <4>1
      <4>2. CASE k # n BY <1>3, <3>2, <4>2
      <4> QED BY <4>1, <4>2
    <3> QED BY <3>2, <3>3 DEF Taken
  <2> QED BY <2>1, <2>2 DEF Owned
<1>10. PlanOK(s) BY <1>6, <1>7, <1>8, <1>9 DEF PlanOK, Taken
<1>11. \A c \in K : d.obj[c] = "live" /\ c \in Contact BY <1>3
<1>12. \A c \in Contact : \/ s.obj[c] = d.obj[c]
                          \/ d.obj[c] = "live" /\ s.obj[c] = "freed"
  BY <1>11 DEF Taken
<1>13. BundlesMoved(d, s) BY DEF Taken, BundlesMoved
<1>14. Edit(d, s, {}) BY <1>12, <1>13 DEF Edit, Taken
<1> QED BY <1>10, <1>14 DEF Edited

\* routing_table_delete_node deletes the whole node, or the contacts that the command
\* describes; delete_endpoints lists the same contacts anew.
LEMMA DeleteFacts ==
  ASSUME NEW r, PlanOK(r), NEW n \in r.known, NEW C \in SUBSET Contact, NEW endpoints \in BOOLEAN
  PROVE  Edited(r, routing_table_delete_node(r, n, C, endpoints), {})
<1>1. r \in Memory /\ n \in Node /\ r.contacts[n] \subseteq Contact BY DEF PlanOK, Memory
<1>2. CASE C = {}
  <2>1. PICK d : d = remove_node_from_tables(r, n) OBVIOUS
  <2>2. Detached(r, n, d) BY <1>1, <2>1, RemoveNodeFacts
  <2>3. PICK e : e = free_node(d, n) OBVIOUS
  <2>4. Emptied(r, n, e) BY <1>1, <2>2, <2>3, FreeNodeFacts
  <2>5. PICK s : s = [e EXCEPT !.known = @ \ {n}] OBVIOUS
  <2>6. s = routing_table_delete_node(r, n, C, endpoints)
    BY <1>2, <2>1, <2>3, <2>5 DEF routing_table_delete_node
  <2>7. PlanOK(e) /\ e \in Memory /\ Edit(r, e, {}) BY <2>4 DEF Emptied, PlanOK
  <2>8. /\ s \in Memory /\ s.known = e.known \ {n} /\ s.contacts = e.contacts /\ s.node = e.node
        /\ s.obj = e.obj /\ s.active = e.active /\ s.faults = e.faults /\ s.list = e.list
        /\ s.bundles = e.bundles /\ s.at_bp = e.at_bp
    BY <2>5, <2>7 DEF Memory
  <2>9. Owned(s) /\ Marked(s) BY <2>4, <2>7, <2>8 DEF Emptied, PlanOK, Owned, Marked
  <2>10. ToSet(e.list) \subseteq Contact BY <2>7 DEF Memory, ToSet
  <2>11. \A c \in Contact : OfKnownNode(e, c) /\ e.node[c] # n => OfKnownNode(s, c)
    BY <2>8 DEF OfKnownNode
  <2>12. Listed(s) /\ Loaded(s) BY <2>4, <2>7, <2>8, <2>10, <2>11 DEF Emptied, PlanOK, Listed, Loaded
  <2>13. Edit(e, s, {}) BY <2>8 DEF Edit, BundlesMoved
  <2>14. Edit(r, s, {}) BY <2>7, <2>13, EditTrans
  <2> QED BY <2>6, <2>7, <2>8, <2>9, <2>12, <2>14 DEF PlanOK, Edited
<1>3. CASE C # {}
  <2> DEFINE named == contact_list_difference(r.contacts[n], C)
             K == IF endpoints THEN {} ELSE named
  <2>1. PICK u : u = unlist_node(r, n) OBVIOUS
  <2>2. Unlisted(r, n, u) BY <1>1, <2>1, UnlistFacts
  <2>3. PICK d : d = reschedule_bundles(u, named) OBVIOUS
  <2>4. named \subseteq r.contacts[n] /\ named \in SUBSET Contact BY <1>1 DEF contact_list_difference
  <2>5. Rescheduled(u, named, d)
    <3> HIDE DEF named
    <3> QED BY <2>2, <2>3, <2>4, RescheduleFacts DEF Unlisted
  <2>6. PlanOK(d) /\ d \in Memory /\ Edit(r, d, {}) /\ SameTables(r, d)
    <3>1. Edit(r, d, {}) BY <2>2, <2>5, EditTrans DEF Unlisted, Rescheduled
    <3>2. SameTables(r, d) BY <2>2, <2>5 DEF Unlisted, Rescheduled, SameTables
    <3> QED BY <2>5, <3>1, <3>2 DEF Rescheduled, PlanOK
  <2>7. PICK s : s = free_contacts([d EXCEPT !.contacts[n] = @ \ K], K \ r.active) OBVIOUS
  <2>8. routing_table_delete_node(r, n, C, endpoints) = add_node_to_tables(s, n)
    BY <1>3, <2>1, <2>3, <2>7 DEF routing_table_delete_node
  <2>9. K \subseteq named BY <2>4
  <2> HIDE DEF named, K
  <2>10. d.active = r.active /\ d.contacts = r.contacts /\ d.known = r.known
    BY <2>6 DEF Edit, SameTables
  <2>11. /\ s.obj = [c \in Contact |-> IF c \in K \ d.active THEN "freed" ELSE d.obj[c]]
         /\ s.contacts = [d.contacts EXCEPT ![n] = @ \ K]
         /\ s.node = d.node /\ s.known = d.known /\ s.list = d.list /\ s.active = d.active
         /\ s.at_bp = d.at_bp
         /\ s.bundles = [c \in Contact |-> IF c \in K \ d.active THEN {} ELSE d.bundles[c]]
         /\ s.faults = d.faults \cup ((K \ d.active) \cap d.active)
    BY <2>6, <2>7, <2>10 DEF free_contacts, Memory
  <2>12. \A c \in K : d.bundles[c] = {} BY <2>5, <2>9 DEF Rescheduled
  <2>13. s.bundles = d.bundles BY <2>6, <2>11, <2>12 DEF Memory
  <2>14. s.faults = d.faults BY <2>11
  <2>15. s \in Memory
    <3>1. s.obj \in [Contact -> {"unborn", "in_command", "live", "freed"}] BY <2>6, <2>11 DEF Memory
    <3>2. s.contacts \in [Node -> SUBSET Contact] BY <1>1, <2>6, <2>11 DEF Memory
    <3>3. s.bundles \in [Contact -> SUBSET Bundle] BY <2>6, <2>13 DEF Memory
    <3>4. s.faults \in SUBSET Contact BY <2>6, <2>14 DEF Memory
    <3> QED BY <2>6, <2>7, <3>1, <3>2, <3>3, <3>4 DEF Memory, free_contacts
  <2>16. Taken(d, n, K, s) BY <2>11, <2>13, <2>14, <2>15 DEF Taken
  <2>17. K \in SUBSET d.contacts[n] BY <2>4, <2>9, <2>10
  <2>18. ToSet(d.list) \cap K = {} BY <2>2, <2>4, <2>5, <2>9 DEF Unlisted, Rescheduled
  <2>19. Edited(d, s, {}) BY <1>1, <2>6, <2>12, <2>16, <2>17, <2>18, TakenFacts
  <2>20. Edit(r, s, {}) /\ PlanOK(s) BY <2>6, <2>19, EditTrans DEF Edited
  <2>21. n \in s.known BY <2>10, <2>11
  <2>22. PICK t : t = add_node_to_tables(s, n) OBVIOUS
  <2>23. Relisted(s, t) BY <2>20, <2>21, <2>22, AddToTables
  <2>24. Edit(r, t, {}) BY <2>20, <2>23, EditTrans DEF Relisted
  <2> QED BY <2>8, <2>22, <2>23, <2>24 DEF Relisted, Edited
<1> QED BY <1>2, <1>3

\* A command that node_prepare_and_verify refuses is freed with its contacts.
LEMMA RefusedFacts ==
  ASSUME NEW r, PlanOK(r), NEW C \in SUBSET Contact, \A c \in C : r.obj[c] = "in_command"
  PROVE  Edited(r, free_contacts(r, C), C)
<1> DEFINE s == free_contacts(r, C)
<1>1. r \in Memory /\ r.known \subseteq Node /\ r.list \in Seq(Contact) /\ r.active \subseteq Contact
  BY DEF PlanOK, Memory
<1>2. \A k \in Node : \A c \in r.contacts[k] : c \in Contact /\ r.obj[c] = "live"
  BY <1>1 DEF PlanOK, Owned, Memory
<1>3. \A c \in C : r.bundles[c] = {} /\ c \notin r.active
  <2> TAKE c \in C
  <2>1. ~OfKnownNode(r, c) BY <1>1, <1>2 DEF OfKnownNode
  <2> QED BY <2>1 DEF PlanOK, Loaded, Marked
<1>4. /\ s.obj = [c \in Contact |-> IF c \in C THEN "freed" ELSE r.obj[c]]
      /\ s.bundles = [c \in Contact |-> IF c \in C THEN {} ELSE r.bundles[c]]
      /\ s.faults = r.faults \cup (C \cap r.active)
      /\ s.node = r.node /\ s.known = r.known /\ s.contacts = r.contacts
      /\ s.active = r.active /\ s.list = r.list /\ s.at_bp = r.at_bp
  BY <1>1 DEF free_contacts, Memory
<1>5. s.bundles = r.bundles BY <1>1, <1>3, <1>4 DEF Memory
<1>6. s.faults = r.faults BY <1>3, <1>4
<1>7. s \in Memory
  <2>1. s.obj \in [Contact -> {"unborn", "in_command", "live", "freed"}] BY <1>1, <1>4 DEF Memory
  <2>2. s.bundles \in [Contact -> SUBSET Bundle] BY <1>1, <1>5 DEF Memory
  <2>3. s.faults \in SUBSET Contact BY <1>1, <1>6 DEF Memory
  <2> QED BY <1>1, <2>1, <2>2, <2>3 DEF free_contacts, Memory
<1> HIDE DEF s
<1>8. \A c \in Contact : r.obj[c] = "live" => s.obj[c] = "live" BY <1>4
<1>9. Owned(s) BY <1>2, <1>4, <1>8 DEF PlanOK, Owned
<1>10. Listed(s) /\ Loaded(s) BY <1>4, <1>5 DEF PlanOK, Listed, Loaded, OfKnownNode
<1>11. Marked(s) BY <1>1, <1>4, <1>8 DEF PlanOK, Marked
<1>12. Edit(r, s, C) BY <1>4, <1>5, <1>6 DEF Edit, BundlesMoved
<1>13. PlanOK(s) BY <1>4, <1>7, <1>9, <1>10, <1>11 DEF PlanOK
<1> QED BY <1>12, <1>13 DEF Edited, s

\* The access to a freed object or an ASSERT ends the program.
Faulty(r, c) == [r EXCEPT !.faults = @ \cup {c}]

\* The use of a freed object is recorded and changes no table.
LEMMA FaultFacts ==
  ASSUME NEW r, PlanOK(r), NEW c \in Contact
  PROVE  /\ PlanOK(Faulty(r, c)) /\ Faulty(r, c).faults # {}
         /\ Faulty(r, c).obj = r.obj /\ Faulty(r, c).active = r.active
         /\ Faulty(r, c).list = r.list /\ Faulty(r, c).node = r.node
<1>1. r \in Memory BY DEF PlanOK
<1>2. PICK s : s = Faulty(r, c) OBVIOUS
<1>3. /\ s \in Memory /\ SameTables(r, s) /\ s.faults = r.faults \cup {c} /\ s.active = r.active
      /\ s.list = r.list /\ s.bundles = r.bundles /\ s.at_bp = r.at_bp
  BY <1>1, <1>2 DEF Faulty, Memory, SameTables
<1>4. Owned(s) /\ Listed(s) /\ Marked(s) /\ Loaded(s)
  BY <1>3 DEF PlanOK, Owned, Listed, Marked, Loaded, OfKnownNode, SameTables
<1>5. PlanOK(s) BY <1>3, <1>4 DEF PlanOK
<1> QED BY <1>2, <1>3, <1>5 DEF SameTables

\* routing_table_delete_contact takes a contact without bundles out of all lists.
LEMMA DeleteContactFacts ==
  ASSUME NEW r, PlanOK(r), NEW c \in Contact, r.obj[c] = "live", r.node[c] # Dangling,
         r.bundles[c] = {}, c \notin r.active
  PROVE  Edited(r, routing_table_delete_contact(r, c), {})
<1> DEFINE owner == r.node[c]
           s == routing_table_delete_contact(r, c)
<1>1. r \in Memory /\ r.known \subseteq Node /\ r.list \in Seq(Contact) BY DEF PlanOK, Memory
<1>2. PICK l : l = SubList(r.list, Contact \ {c}) OBVIOUS
<1>3. Thinned(r.list, Contact \ {c}, l) BY <1>1, <1>2, SubListFacts
<1>4. ToSet(r.list) \subseteq Contact BY <1>1 DEF ToSet
<1>5. l \in Seq(Contact) /\ ToSet(l) = ToSet(r.list) \ {c} /\ IsInjective(l) /\ Sorted(l)
  BY <1>3, <1>4 DEF Thinned, PlanOK
<1>6. /\ s.obj = [d \in Contact |-> IF d \in {c} THEN "freed" ELSE r.obj[d]]
      /\ s.bundles = [d \in Contact |-> IF d \in {c} THEN {} ELSE r.bundles[d]]
      /\ s.contacts = [n \in Node |-> IF n = owner THEN r.contacts[n] \ {c} ELSE r.contacts[n]]
      /\ s.faults = r.faults \cup ({c} \cap r.active)
      /\ s.list = l /\ s.node = r.node /\ s.known = r.known /\ s.active = r.active
      /\ s.at_bp = r.at_bp
  BY <1>1, <1>2 DEF routing_table_delete_contact, free_contacts, Memory
<1>7. s.bundles = r.bundles BY <1>1, <1>6 DEF Memory
<1>8. s.faults = r.faults BY <1>6
<1>9. s \in Memory
  <2>1. s.obj \in [Contact -> {"unborn", "in_command", "live", "freed"}] BY <1>1, <1>6 DEF Memory
  <2>2. s.contacts \in [Node -> SUBSET Contact] BY <1>1, <1>6 DEF Memory
  <2>3. s.bundles \in [Contact -> SUBSET Bundle] BY <1>1, <1>7 DEF Memory
  <2>4. s.faults \in SUBSET Contact BY <1>1, <1>8 DEF Memory
  <2>5. s.list \in Seq(Contact) BY <1>5, <1>6
  <2> QED BY <1>1, <2>1, <2>2, <2>3, <2>4, <2>5 DEF routing_table_delete_contact, free_contacts, Memory
<1> HIDE DEF s
<1>10. \A k \in Node : \A d \in r.contacts[k] : d \in Contact /\ r.obj[d] = "live" /\ r.node[d] = k
  BY <1>1 DEF PlanOK, Owned, Memory
<1>11. \A d \in Contact : d # c /\ OfKnownNode(r, d) => OfKnownNode(s, d)
  <2> SUFFICES ASSUME NEW d \in Contact, d # c, OfKnownNode(r, d) PROVE OfKnownNode(s, d) OBVIOUS
  <2>1. r.node[d] \in Node /\ r.node[d] \in r.known /\ d \in r.contacts[r.node[d]]
    BY <1>1 DEF OfKnownNode
  <2>2. d \in s.contacts[r.node[d]] BY <1>6, <2>1
  <2> QED BY <1>6, <2>1, <2>2 DEF OfKnownNode
<1>12. Listed(s) BY <1>4, <1>5, <1>6, <1>11 DEF PlanOK, Listed
<1>13. Loaded(s) BY <1>7, <1>11 DEF PlanOK, Loaded
<1>14. Marked(s)
  <2>1. r.active \subseteq Contact BY <1>1 DEF Memory
  <2> QED BY <1>6, <2>1 DEF PlanOK, Marked
<1>15. Owned(s)
  <2>1. ASSUME NEW k \in Node, k \notin s.known PROVE s.contacts[k] = {}
    BY <1>6, <2>1 DEF PlanOK, Owned
  <2>2. ASSUME NEW k \in Node, NEW d \in s.contacts[k] PROVE s.obj[d] = "live" /\ s.node[d] = k
    <3>1. d \in r.contacts[k] BY <1>6, <2>2
    <3>2. d \in Contact /\ r.obj[d] = "live" /\ r.node[d] = k BY <1>10, <3>1
    <3>3. d # c
      <4>1. CASE k = owner BY <1>6, <2>2, <4>1
      <4>2. CASE k # owner BY <3>2, <4>2
      <4> QED BY <4>1, <4>2
    <3> QED BY <1>6, <3>2, <3>3
  <2> QED BY <2>1, <2>2 DEF Owned
<1>16. PlanOK(s) BY <1>5, <1>6, <1>9, <1>12, <1>13, <1>14, <1>15 DEF PlanOK
<1>17. Feasible(r.list, r.node) => Feasible(s.list, s.node)
  <2>1. ToSet(l) \subseteq ToSet(r.list) BY <1>5
  <2>2. Feasible(r.list, r.node) => Feasible(l, r.node) BY <1>1, <1>5, <2>1, FeasibleLess
  <2> QED BY <1>6, <2>2
<1>18. BundlesMoved(r, s) BY <1>6, <1>7 DEF BundlesMoved
<1>19. Edit(r, s, {}) BY <1>6, <1>8, <1>17, <1>18 DEF Edit
<1> QED BY <1>16, <1>19 DEF Edited, s

\* routing_table_contact_passed: if the pointers are good, the bundles go back to the
\* processor and the contact is deleted.
LEMMA PassedFacts ==
  ASSUME NEW r, PlanOK(r), NEW c \in Contact, c \notin r.active
  PROVE  LET s == routing_table_contact_passed(r, c) IN s = Faulty(r, c) \/ Edited(r, s, {})
<1> DEFINE s == routing_table_contact_passed(r, c)
<1>1. CASE r.obj[c] # "live" \/ r.node[c] = Dangling
  <2>1. s = Faulty(r, c) BY <1>1 DEF routing_table_contact_passed, Faulty
  <2> QED BY <2>1
<1>2. CASE ~(r.obj[c] # "live" \/ r.node[c] = Dangling)
  <2>1. CASE r.node[c] # NULL
    <3>1. PICK d : d = reschedule_bundles(r, {c}) OBVIOUS
    <3>2. Rescheduled(r, {c}, d) BY <3>1, RescheduleFacts
    <3>3. /\ PlanOK(d) /\ Edit(r, d, {}) /\ d.obj[c] = "live" /\ d.node[c] # Dangling
          /\ d.bundles[c] = {} /\ c \notin d.active
      BY <1>2, <3>2 DEF Rescheduled, SameTables, Edit
    <3>4. Edited(d, routing_table_delete_contact(d, c), {}) BY <3>3, DeleteContactFacts
    <3>5. s = routing_table_delete_contact(d, c) BY <1>2, <2>1, <3>1 DEF routing_table_contact_passed
    <3>6. Edit(r, s, {}) BY <3>3, <3>4, <3>5, EditTrans DEF Edited
    <3>7. PlanOK(s) BY <3>4, <3>5 DEF Edited
    <3> QED BY <3>6, <3>7 DEF Edited
  <2>2. CASE r.node[c] = NULL
    <3>1. r.known \subseteq Node BY DEF PlanOK, Memory
    <3>2. r.bundles[c] = {}
      <4>1. ~OfKnownNode(r, c) BY <2>2, <3>1, PlanAssumption DEF OfKnownNode
      <4> QED BY <4>1 DEF PlanOK, Loaded
    <3>3. Edited(r, routing_table_delete_contact(r, c), {}) BY <1>2, <3>2, DeleteContactFacts
    <3>4. s = routing_table_delete_contact(r, c) BY <1>2, <2>2 DEF routing_table_contact_passed
    <3> QED BY <3>3, <3>4
  <2> QED BY <2>1, <2>2
<1> QED BY <1>1, <1>2

-----------------------------------------------------------------------------
(***************************************************************************)
(* The contact manager                                                     *)
(***************************************************************************)
\* Array and marks after some contacts of D were started.
StartedOK(cur, act, D, a) ==
  /\ a.current \in Seq(Contact) /\ Len(a.current) <= MaxConcurrent /\ IsInjective(a.current)
  /\ ToSet(cur) \subseteq ToSet(a.current) /\ ToSet(a.current) \subseteq ToSet(cur) \cup D
  /\ act \subseteq a.active /\ a.active \subseteq act \cup D
  /\ ToSet(a.current) \subseteq a.active

\* One more contact is looked at.
LEMMA CheckUpcomingFacts ==
  ASSUME NEW cur, NEW act, NEW D \in SUBSET Contact, NEW a, StartedOK(cur, act, D, a),
         NEW node, NEW c \in D
  PROVE  StartedOK(cur, act, D, check_upcoming(a, node, c))
<1>1. CASE c \in ToSet(a.current) \/ Len(a.current) >= MaxConcurrent BY <1>1 DEF check_upcoming
<1>2. CASE ~(c \in ToSet(a.current) \/ Len(a.current) >= MaxConcurrent)
  <2> DEFINE b == check_upcoming(a, node, c)
  <2>1. b.active = a.active \cup {c}
        /\ b.current = IF node[c] \in Unreachable THEN a.current ELSE Append(a.current, c)
    BY <1>2 DEF check_upcoming
  <2> HIDE DEF b
  <2>2. PICK q \in Seq(Contact) : q = a.current BY DEF StartedOK
  <2>3. PICK k \in Nat : k = Len(q) OBVIOUS
  <2>4. MaxConcurrent \in Nat /\ k < MaxConcurrent /\ c \notin ToSet(q) /\ c \in Contact
    BY <1>2, <2>2, <2>3, PlanAssumption
  <2>5. CASE node[c] \in Unreachable
    <3>1. b.current = a.current BY <2>1, <2>5
    <3> QED BY <2>1, <3>1 DEF StartedOK, b
  <2>6. CASE node[c] \notin Unreachable
    <3>1. PICK s \in Seq(Contact) : s = Append(q, c)
      <4>1. c \in Contact BY <2>4
      <4>2. Append(q, c) \in Seq(Contact) BY <4>1
      <4> QED BY <4>2
    <3>2. /\ Len(s) = k + 1 /\ DOMAIN s = 1..(k + 1) /\ DOMAIN q = 1..k /\ s[k + 1] = c
          /\ \A h \in 1..k : s[h] = q[h]
      BY <2>3, <2>4, <3>1
    <3>3. \A h \in DOMAIN s : (h \in DOMAIN q /\ s[h] = q[h]) \/ (h = k + 1 /\ s[h] = c) BY <3>2
    <3>4. \A h \in DOMAIN q : h \in DOMAIN s /\ s[h] = q[h] BY <3>2
    <3>5. k + 1 \in DOMAIN s BY <3>2
    <3>6. ToSet(s) = ToSet(q) \cup {c} BY <3>2, <3>3, <3>4, <3>5 DEF ToSet
    <3>7. IsInjective(s)
      <4>1. \A g, h \in DOMAIN q : q[g] = q[h] => g = h BY <2>2 DEF StartedOK, IsInjective
      <4>2. \A h \in DOMAIN q : q[h] # c BY <2>4 DEF ToSet
      <4> QED BY <3>3, <4>1, <4>2 DEF IsInjective
    <3>8. Len(s) <= MaxConcurrent BY <2>4, <3>2
    <3>9. b.current = s BY <2>1, <2>2, <2>6, <3>1
    <3>10. StartedOK(cur, act, D, b)
      <4>1. ToSet(cur) \subseteq ToSet(s) /\ ToSet(s) \subseteq ToSet(cur) \cup D
        BY <2>2, <3>6 DEF StartedOK
      <4>2. act \subseteq b.active /\ b.active \subseteq act \cup D /\ ToSet(s) \subseteq b.active
        BY <2>1, <2>2, <3>6 DEF StartedOK
      <4> QED BY <3>7, <3>8, <3>9, <4>1, <4>2 DEF StartedOK
    <3> QED BY <3>10 DEF b
  <2> QED BY <2>5, <2>6
<1> QED BY <1>1, <1>2

\* process_upcoming_list starts due contacts while there is room in current_contacts,
\* and marks no others.
LEMMA StartedFacts ==
  ASSUME NEW cur \in Seq(Contact), Len(cur) <= MaxConcurrent, IsInjective(cur),
         NEW r \in Memory, ToSet(cur) \subseteq r.active, NEW due \in Seq(Contact)
  PROVE  StartedOK(cur, r.active, ToSet(due), Started(cur, r, due))
<1> DEFINE D == ToSet(due)
           a0 == [current |-> cur, active |-> r.active]
           Is(f) == f = [i \in 0..Len(due) |-> IF i = 0 THEN a0
                                               ELSE check_upcoming(f[i - 1], r.node, due[i])]
           after == CHOOSE f : Is(f)
           Arrays == [current : Seq(Contact), active : SUBSET Contact]
           A == {a \in Arrays : StartedOK(cur, r.active, D, a)}
<1>1. PICK N \in Nat : N = Len(due) OBVIOUS
<1>2. Started(cur, r, due) = after[Len(due)] BY DEF Started
<1>3. D \subseteq Contact /\ r.active \subseteq Contact BY DEF ToSet, Memory
<1>4. \A i \in 1..N : due[i] \in D BY <1>1 DEF ToSet
<1> HIDE DEF D
<1>5. \A a \in A, c \in D : check_upcoming(a, r.node, c) \in A
  <2> TAKE a \in A, c \in D
  <2>1. StartedOK(cur, r.active, D, check_upcoming(a, r.node, c)) BY <1>3, CheckUpcomingFacts
  <2>2. check_upcoming(a, r.node, c) \in Arrays
    <3>1. a.current \in Seq(Contact) /\ a.active \in SUBSET Contact /\ c \in Contact BY <1>3
    <3>2. Append(a.current, c) \in Seq(Contact) BY <3>1
    <3> QED BY <3>1, <3>2 DEF check_upcoming
  <2> QED BY <2>1, <2>2
<1>6. a0 \in A
  <2>1. StartedOK(cur, r.active, D, a0) BY DEF StartedOK
  <2> QED BY <1>3, <2>1
<1> HIDE DEF A, a0
<1> DEFINE G == [x \in (1..N) \X A |-> check_upcoming(x[2], r.node, due[x[1]])]
<1>7. G \in [(1..N) \X A -> A]
  <2>1. \A x \in (1..N) \X A : due[x[1]] \in D /\ x[2] \in A BY <1>4
  <2> QED BY <1>5, <2>1
<1>8. PICK f \in [0..N -> A] : IsRun(f, N, a0, G)
  <2> HIDE DEF G
  <2> QED BY <1>6, <1>7, RunExists
<1>9. \A i \in 0..N : i # 0 => i \in 1..N /\ i - 1 \in 0..N OBVIOUS
<1>10. \A i \in 0..N : f[i] = IF i = 0 THEN a0 ELSE check_upcoming(f[i - 1], r.node, due[i])
  <2>1. \A i \in 1..N : i \in 0..N /\ i # 0 OBVIOUS
  <2>2. \A i \in 1..N : <<i, f[i - 1]>> \in (1..N) \X A BY <1>9, <2>1
  <2>3. \A i \in 1..N : f[i] = check_upcoming(f[i - 1], r.node, due[i]) BY <1>8, <2>2 DEF IsRun
  <2>4. f[0] = a0 BY <1>8 DEF IsRun
  <2> QED BY <1>9, <2>3, <2>4
<1>11. Is(f)
  <2>1. f = [i \in 0..N |-> f[i]] OBVIOUS
  <2> QED BY <1>1, <1>10, <2>1
<1>12. Is(after)
  <2> HIDE DEF Is
  <2> QED BY <1>11
<1>13. \A i \in 0..N : after[i] = IF i = 0 THEN a0 ELSE check_upcoming(after[i - 1], r.node, due[i])
  BY <1>1, <1>12
<1> HIDE DEF G, after, Is
<1> DEFINE T == {i \in Nat : i <= N => after[i] \in A}
<1>14. 0 \in T
  <2>1. 0 \in 0..N OBVIOUS
  <2>2. after[0] = a0 BY <1>13, <2>1
  <2> QED BY <1>6, <2>2
<1>15. ASSUME NEW i \in Nat, i \in T PROVE i + 1 \in T
  <2> SUFFICES ASSUME i + 1 <= N PROVE after[i + 1] \in A OBVIOUS
  <2>1. i + 1 \in 0..N /\ i + 1 # 0 /\ (i + 1) - 1 = i /\ i + 1 \in 1..N /\ i <= N OBVIOUS
  <2>2. after[i + 1] = check_upcoming(after[i], r.node, due[i + 1]) BY <1>13, <2>1
  <2>3. after[i] \in A /\ due[i + 1] \in D BY <1>4, <1>15, <2>1
  <2> QED BY <1>5, <2>2, <2>3
<1>16. Nat \subseteq T
  <2> HIDE DEF T
  <2> QED BY <1>14, <1>15, NatSet
<1>17. after[N] \in A BY <1>16
<1> QED BY <1>1, <1>2, <1>17 DEF A, D

\* The tables stay, no contact is freed, and no bundle is scheduled but on a listed
\* contact; a mark is put on allocated contacts only.
Quiet(r, s) ==
  /\ s \in Memory /\ s.node = r.node /\ s.known = r.known /\ s.contacts = r.contacts
  /\ s.list = r.list
  /\ \A c \in Contact : r.obj[c] = "live" => s.obj[c] = "live"
  /\ \A c \in s.active : r.obj[c] = "live"
  /\ \A c \in Contact : s.bundles[c] # {} => r.bundles[c] # {} \/ OfKnownNode(r, c)

\* What changes no table keeps the plan well-formed.
LEMMA QuietPlan == ASSUME NEW r, PlanOK(r), NEW s, Quiet(r, s) PROVE PlanOK(s)
<1>1. r \in Memory /\ s \in Memory /\ s.active \subseteq Contact BY DEF PlanOK, Quiet, Memory
<1>2. \A c \in Contact : OfKnownNode(r, c) => OfKnownNode(s, c) BY DEF OfKnownNode, Quiet
<1>3. ToSet(r.list) \subseteq Contact BY <1>1 DEF Memory, ToSet
<1>4. Listed(s) BY <1>2, <1>3 DEF PlanOK, Listed, Quiet
<1>5. Loaded(s) BY <1>2 DEF PlanOK, Loaded, Quiet
<1>6. Marked(s) BY <1>1 DEF Marked, Quiet
<1>7. \A n \in Node : r.contacts[n] \subseteq Contact BY <1>1 DEF Memory
<1>8. Owned(s) BY <1>7 DEF PlanOK, Owned, Quiet
<1> QED BY <1>1, <1>4, <1>5, <1>6, <1>8 DEF PlanOK, Quiet

-----------------------------------------------------------------------------
(***************************************************************************)
(* The inductive invariant                                                 *)
(***************************************************************************)
\* The contacts that a command in the queue brings along exist for it alone.
NewContacts(sig) == IF sig.type = "command" /\ sig.cmd.type \in {"add", "update"}
                    THEN sig.cmd.contacts ELSE {}
CommandsOK(q, obj) ==
  \A i \in DOMAIN q : \A c \in NewContacts(q[i]) :
    /\ obj[c] = "in_command"
    /\ \A j \in DOMAIN q : c \in NewContacts(q[j]) => j = i

\* A contact that is to be reported as over has ended and lost its mark, so that it
\* cannot be started again; it is reported once.
Reports(q, i, c) == q[i].type = "contact_over" /\ q[i].contact = c
ReportsOK(q, rm, act, t) ==
  /\ IsInjective(rm)
  /\ \A c \in ToSet(rm) : To[c] <= t /\ c \notin act
  /\ \A c \in Contact : \A i \in DOMAIN q : Reports(q, i, c) =>
       /\ To[c] <= t /\ c \notin act /\ c \notin ToSet(rm)
       /\ \A j \in DOMAIN q : Reports(q, j, c) => j = i

\* The plan as a whole.
PlanInv(r) == PlanOK(r) /\ (FewContacts => Feasible(r.list, r.node))

Inv == /\ TypeOK /\ PlanInv(rt)
       /\ ToSet(current) \subseteq rt.active
       /\ CommandsOK(rq, rt.obj)
       /\ ReportsOK(rq, rem, rt.active, now)
       /\ cm_pc # "inform" => rem = <<>>

\* No command was sent and no contact exists.
LEMMA InitInv == Init => Inv
<1> SUFFICES ASSUME Init PROVE Inv OBVIOUS
<1>1. MaxTime \in Nat /\ MaxPeriod \in Nat /\ QueueLength \in Nat /\ MaxConcurrent \in Nat
  BY PlanAssumption
<1>2. /\ rt.obj = [c \in Contact |-> "unborn"] /\ rt.node = [c \in Contact |-> NULL]
      /\ rt.active = {} /\ rt.bundles = [c \in Contact |-> {}] /\ rt.known = {}
      /\ rt.contacts = [n \in Node |-> {}] /\ rt.at_bp = Bundle /\ rt.list = <<>> /\ rt.faults = {}
  BY DEF Init
<1>3. rt \in Memory BY DEF Init, Memory
<1>4. IsInjective(rt.list) /\ Sorted(rt.list) BY <1>2 DEF IsInjective, Sorted
<1>5. ToSet(<<>>) = {} BY DEF ToSet
<1>6. PlanOK(rt) BY <1>2, <1>3, <1>4, <1>5 DEF PlanOK, Owned, Listed, Marked, Loaded
<1>7. Feasible(rt.list, rt.node)
  <2>1. \A t \in 0..MaxTime : Open(rt.list, t) = {} BY <1>2, <1>5 DEF Open
  <2>2. Cardinality({}) <= MaxConcurrent BY <1>1, FS_EmptySet
  <2> QED BY <2>1, <2>2 DEF Feasible
<1>8. TypeOK
  <2>1. rq = <<>> /\ current = <<>> /\ rem = <<>> BY DEF Init
  <2>2. rq \in Seq(Signal) /\ Len(rq) <= QueueLength BY <1>1, <2>1
  <2>3. /\ current \in Seq(Contact) /\ Len(current) <= MaxConcurrent
        /\ rem \in Seq(Contact) /\ IsInjective(current)
    BY <1>1, <2>1 DEF IsInjective
  <2>4. next_contact_time \in 0..Never /\ wake_at \in 0..Never /\ now \in 0..MaxTime
    BY <1>1 DEF Init, Never
  <2> QED BY <1>3, <1>4, <2>2, <2>3, <2>4 DEF Init, TypeOK
<1>9. CommandsOK(rq, rt.obj) /\ ReportsOK(rq, rem, rt.active, now)
  BY <1>5 DEF Init, CommandsOK, ReportsOK, IsInjective
<1> QED BY <1>2, <1>5, <1>6, <1>7, <1>8, <1>9 DEF Init, Inv, PlanInv

\* Signals at the ends of the router's queue.
LEMMA PushFacts ==
  ASSUME NEW q \in Seq(Signal), NEW sig \in Signal, NEW p, p = Append(q, sig)
  PROVE  /\ p \in Seq(Signal) /\ Len(p) = Len(q) + 1 /\ DOMAIN p = 1..(Len(q) + 1)
         /\ p[Len(q) + 1] = sig /\ \A i \in DOMAIN q : i \in DOMAIN p /\ p[i] = q[i]
         /\ DOMAIN q = 1..Len(q) /\ Len(q) \in Nat
OBVIOUS

\* Taking a signal from the router's queue.
LEMMA PopFacts ==
  ASSUME NEW q \in Seq(Signal), q # <<>>, NEW p, p = Tail(q)
  PROVE  /\ p \in Seq(Signal) /\ Len(p) = Len(q) - 1
         /\ \A i \in DOMAIN p : i + 1 \in DOMAIN q /\ p[i] = q[i + 1] /\ i \in Nat /\ i >= 1
         /\ Head(q) = q[1] /\ 1 \in DOMAIN q /\ Head(q) \in Signal
OBVIOUS

\* The invariant is kept by a signal that brings no contacts and reports none.
Plain(sig) == sig.type \in {"route", "success", "failure", "new_link"}

\* A signal that carries no objects is pushed to the router's queue.
LEMMA PlainPush ==
  ASSUME NEW q \in Seq(Signal), NEW sig \in Signal, Plain(sig), NEW p, p = Append(q, sig),
         NEW obj, NEW rm, NEW act, NEW t, CommandsOK(q, obj), ReportsOK(q, rm, act, t)
  PROVE  CommandsOK(p, obj) /\ ReportsOK(p, rm, act, t)
<1>1. \A i \in DOMAIN p : (i \in DOMAIN q /\ p[i] = q[i]) \/ p[i] = sig BY PushFacts
<1>2. NewContacts(sig) = {} /\ sig.type # "contact_over" BY DEF Plain, NewContacts
<1>3. CommandsOK(p, obj) BY <1>1, <1>2 DEF CommandsOK
<1>4. \A i \in DOMAIN p, c \in Contact : Reports(p, i, c) => i \in DOMAIN q /\ Reports(q, i, c)
  BY <1>1, <1>2 DEF Reports
<1>5. ReportsOK(p, rm, act, t) BY <1>4 DEF ReportsOK
<1> QED BY <1>3, <1>5

\* ... and by the removal of the first signal.
LEMMA Pop ==
  ASSUME NEW q \in Seq(Signal), q # <<>>, NEW p, p = Tail(q),
         NEW obj, NEW rm, NEW act, NEW t, CommandsOK(q, obj), ReportsOK(q, rm, act, t)
  PROVE  /\ CommandsOK(p, obj) /\ ReportsOK(p, rm, act, t)
         /\ \A i \in DOMAIN p : \A c \in NewContacts(p[i]) : c \notin NewContacts(Head(q))
<1>1. /\ \A i \in DOMAIN p : i + 1 \in DOMAIN q /\ p[i] = q[i + 1] /\ i \in Nat /\ i >= 1
      /\ Head(q) = q[1] /\ 1 \in DOMAIN q
  BY PopFacts
<1>2. CommandsOK(p, obj)
  <2> SUFFICES ASSUME NEW i \in DOMAIN p, NEW c \in NewContacts(p[i])
               PROVE  /\ obj[c] = "in_command"
                      /\ \A j \in DOMAIN p : c \in NewContacts(p[j]) => j = i
    BY DEF CommandsOK
  <2>1. c \in NewContacts(q[i + 1]) /\ i + 1 \in DOMAIN q BY <1>1
  <2>2. obj[c] = "in_command" BY <2>1 DEF CommandsOK
  <2>3. \A j \in DOMAIN p : c \in NewContacts(p[j]) => j = i
    <3> SUFFICES ASSUME NEW j \in DOMAIN p, c \in NewContacts(p[j]) PROVE j = i OBVIOUS
    <3>1. c \in NewContacts(q[j + 1]) /\ j + 1 \in DOMAIN q BY <1>1
    <3>2. j + 1 = i + 1 BY <2>1, <3>1 DEF CommandsOK
    <3> QED BY <1>1, <3>2
  <2> QED BY <2>2, <2>3
<1>3. ReportsOK(p, rm, act, t)
  <2>1. \A i \in DOMAIN p, c \in Contact : Reports(p, i, c) => Reports(q, i + 1, c) BY <1>1 DEF Reports
  <2> SUFFICES ASSUME NEW c \in Contact, NEW i \in DOMAIN p, Reports(p, i, c)
               PROVE  /\ To[c] <= t /\ c \notin act /\ c \notin ToSet(rm)
                      /\ \A j \in DOMAIN p : Reports(p, j, c) => j = i
    BY DEF ReportsOK
  <2>2. Reports(q, i + 1, c) /\ i + 1 \in DOMAIN q BY <1>1, <2>1
  <2>3. \A j \in DOMAIN q : Reports(q, j, c) => j = i + 1 BY <2>2 DEF ReportsOK
  <2>4. \A j \in DOMAIN p : Reports(p, j, c) => j = i
    <3> SUFFICES ASSUME NEW j \in DOMAIN p, Reports(p, j, c) PROVE j = i OBVIOUS
    <3>1. Reports(q, j + 1, c) /\ j + 1 \in DOMAIN q BY <1>1, <2>1
    <3>2. j + 1 = i + 1 BY <2>3, <3>1
    <3> QED BY <1>1, <3>2
  <2> QED BY <2>2, <2>4 DEF ReportsOK
<1>4. ASSUME NEW i \in DOMAIN p, NEW c \in NewContacts(p[i]), c \in NewContacts(Head(q))
      PROVE  FALSE
  <2>1. c \in NewContacts(q[i + 1]) /\ i + 1 \in DOMAIN q /\ c \in NewContacts(q[1]) BY <1>1, <1>4
  <2>2. i + 1 = 1 BY <1>1, <2>1 DEF CommandsOK
  <2> QED BY <1>1, <2>2
<1> QED BY <1>2, <1>3, <1>4

\* The signals of the tasks are signals of the queue.
LEMMA SignalFacts ==
  /\ [type |-> "new_link"] \in Signal /\ Plain([type |-> "new_link"])
  /\ \A b \in Bundle : \A y \in {"route", "success", "failure"} :
       [type |-> y, bundle |-> b] \in Signal /\ Plain([type |-> y, bundle |-> b])
  /\ \A c \in Contact : [type |-> "contact_over", contact |-> c] \in Signal
  /\ \A cmd \in Command : [type |-> "command", cmd |-> cmd] \in Signal
BY DEF Signal, Plain

\* The plan is as good after a quiet step as before.
LEMMA QuietInv == ASSUME NEW r, PlanInv(r), NEW s, Quiet(r, s) PROVE PlanInv(s)
<1>1. PlanOK(s) BY QuietPlan DEF PlanInv
<1> QED BY <1>1 DEF PlanInv, Quiet

\* The clock.
LEMMA TickInv == Inv /\ Tick => Inv'
<1> SUFFICES ASSUME Inv, Tick PROVE Inv' OBVIOUS
<1>1. TypeOK /\ ReportsOK(rq, rem, rt.active, now) BY DEF Inv
<1>2. /\ now < MaxTime /\ now' = now + 1 /\ rt' = rt /\ rq' = rq /\ current' = current /\ rem' = rem
      /\ next_contact_time' = next_contact_time /\ wake_at' = wake_at /\ control' = control
      /\ cm_pc' = cm_pc /\ cm_signal' = cm_signal /\ link' = link /\ tx' = tx /\ gone' = gone
  BY DEF Tick, cm, cmctl, env
<1>3. now \in Nat /\ now' \in 0..MaxTime BY <1>1, <1>2, PlanAssumption DEF TypeOK
<1>4. TypeOK' BY <1>1, <1>2, <1>3 DEF TypeOK
<1>5. \A c \in Contact : To[c] \in Nat BY PlanAssumption
<1>6. \A c \in Contact : To[c] <= now => To[c] <= now + 1 BY <1>3, <1>5
<1>7. ToSet(rem) \subseteq Contact BY <1>1 DEF TypeOK, ToSet
<1>8. ReportsOK(rq, rem, rt.active, now + 1) BY <1>1, <1>6, <1>7 DEF ReportsOK
<1> QED BY <1>2, <1>4, <1>8 DEF Inv

\* The configuration agent allocates contacts.
LEMMA SendCommandInv == Inv /\ SendCommand => Inv'
<1> SUFFICES ASSUME Inv, SendCommand PROVE Inv' OBVIOUS
<1>1. PICK cmd \in Commands :
        LET new == IF cmd.type \in {"add", "update"} THEN cmd.contacts ELSE {}
        IN /\ \A c \in new : rt.obj[c] = "unborn"
           /\ Enqueue([type |-> "command", cmd |-> cmd])
           /\ rt' = [rt EXCEPT !.obj = [c \in Contact |->
                        IF c \in new THEN "in_command" ELSE @[c]]]
  BY DEF SendCommand
<1>2. PICK sig : sig = [type |-> "command", cmd |-> cmd] OBVIOUS
<1>3. cmd \in Command BY PlanAssumption
<1>4. sig \in Signal /\ sig.type = "command" /\ sig.cmd = cmd BY <1>2, <1>3, SignalFacts
<1>5. PICK new : new = NewContacts(sig) OBVIOUS
<1>6. new \subseteq Contact BY <1>3, <1>4, <1>5 DEF NewContacts, Command
<1>7. /\ \A c \in new : rt.obj[c] = "unborn"
      /\ Len(rq) < QueueLength /\ rq' = Append(rq, sig)
      /\ rt' = [rt EXCEPT !.obj = [c \in Contact |-> IF c \in new THEN "in_command" ELSE @[c]]]
  BY <1>1, <1>2, <1>4, <1>5 DEF NewContacts, Enqueue
<1>8. /\ now' = now /\ current' = current /\ rem' = rem
      /\ next_contact_time' = next_contact_time /\ wake_at' = wake_at /\ control' = control
      /\ cm_pc' = cm_pc /\ cm_signal' = cm_signal /\ link' = link /\ tx' = tx /\ gone' = gone
  BY DEF SendCommand, cm, cmctl
<1>9. TypeOK /\ PlanInv(rt) /\ CommandsOK(rq, rt.obj) /\ ReportsOK(rq, rem, rt.active, now)
  BY DEF Inv
<1>10. rt \in Memory /\ rq \in Seq(Signal) /\ Marked(rt) BY <1>9 DEF TypeOK, PlanInv, PlanOK
<1>11. PICK s : s = rt' OBVIOUS
<1>12. /\ s.obj = [c \in Contact |-> IF c \in new THEN "in_command" ELSE rt.obj[c]]
       /\ s.node = rt.node /\ s.known = rt.known /\ s.contacts = rt.contacts /\ s.list = rt.list
       /\ s.bundles = rt.bundles /\ s.active = rt.active /\ s.faults = rt.faults
       /\ s.at_bp = rt.at_bp
  BY <1>7, <1>10, <1>11 DEF Memory
<1>13. s \in Memory
  <2>1. s.obj \in [Contact -> {"unborn", "in_command", "live", "freed"}] BY <1>10, <1>12 DEF Memory
  <2> QED BY <1>7, <1>10, <1>11, <1>12, <2>1 DEF Memory
<1>14. Quiet(rt, s)
  <2>1. rt.active \subseteq Contact BY <1>10 DEF Memory
  <2> QED BY <1>7, <1>10, <1>12, <1>13, <2>1 DEF Quiet, Marked
<1>15. PlanInv(s) BY <1>9, <1>14, QuietInv
<1>16. /\ rq' \in Seq(Signal) /\ Len(rq') = Len(rq) + 1 /\ Len(rq) \in Nat
       /\ rq'[Len(rq) + 1] = sig /\ DOMAIN rq' = 1..(Len(rq) + 1) /\ DOMAIN rq = 1..Len(rq)
       /\ \A i \in DOMAIN rq : i \in DOMAIN rq' /\ rq'[i] = rq[i]
  BY <1>4, <1>7, <1>10, PushFacts
<1>17. \A i \in DOMAIN rq' : i \in DOMAIN rq \/ i = Len(rq) + 1 BY <1>16
<1>18. Len(rq') <= QueueLength BY <1>7, <1>16, PlanAssumption
<1>19. TypeOK'
  <2>1. IsInjective(s.list) BY <1>9, <1>12 DEF TypeOK
  <2> QED BY <1>8, <1>9, <1>11, <1>13, <1>16, <1>18, <2>1 DEF TypeOK
<1>20. \A i \in DOMAIN rq : \A c \in NewContacts(rq[i]) : c \in Contact /\ c \notin new
  <2> TAKE i \in DOMAIN rq
  <2> TAKE c \in NewContacts(rq[i])
  <2>1. rt.obj[c] = "in_command" BY <1>9 DEF CommandsOK
  <2>2. rq[i] \in Signal BY <1>10
  <2>3. c \in Contact BY <2>2 DEF NewContacts, Signal, Command
  <2> QED BY <1>7, <2>1, <2>3
<1>21. CommandsOK(rq', s.obj)
  <2> SUFFICES ASSUME NEW i \in DOMAIN rq', NEW c \in NewContacts(rq'[i])
               PROVE  /\ s.obj[c] = "in_command"
                      /\ \A j \in DOMAIN rq' : c \in NewContacts(rq'[j]) => j = i
    BY DEF CommandsOK
  <2>1. CASE i \in DOMAIN rq
    <3>1. c \in NewContacts(rq[i]) /\ c \notin new /\ c \in Contact BY <1>16, <1>20, <2>1
    <3>2. rt.obj[c] = "in_command" /\ \A j \in DOMAIN rq : c \in NewContacts(rq[j]) => j = i
      BY <1>9, <2>1, <3>1 DEF CommandsOK
    <3> QED BY <1>5, <1>12, <1>16, <1>17, <3>1, <3>2
  <2>2. CASE i = Len(rq) + 1
    <3>1. c \in new BY <1>5, <1>16, <2>2
    <3>2. \A j \in DOMAIN rq : c \notin NewContacts(rq[j]) BY <1>20, <3>1
    <3> QED BY <1>6, <1>12, <1>16, <1>17, <2>2, <3>1, <3>2
  <2> QED BY <1>17, <2>1, <2>2
<1>22. ReportsOK(rq', rem, rt.active, now)
  <2>1. \A i \in DOMAIN rq', c \in Contact : Reports(rq', i, c) => i \in DOMAIN rq /\ Reports(rq, i, c)
    BY <1>4, <1>16, <1>17 DEF Reports
  <2> QED BY <1>9, <2>1 DEF ReportsOK
<1> QED BY <1>8, <1>11, <1>12, <1>15, <1>19, <1>21, <1>22 DEF Inv

\* The processor takes or drops a bundle of its own; contact objects are not touched.
AtBp(r, s, A) == s = [r EXCEPT !.at_bp = A]

\* A bundle at the bundle processor is nowhere else.
LEMMA AtBpFacts ==
  ASSUME NEW r, PlanInv(r), NEW A \in SUBSET Bundle, NEW s, AtBp(r, s, A)
  PROVE  PlanInv(s) /\ s.obj = r.obj /\ s.active = r.active /\ s.list = r.list
<1>1. r \in Memory /\ Marked(r) BY DEF PlanInv, PlanOK
<1>2. /\ s \in Memory /\ s.obj = r.obj /\ s.node = r.node /\ s.known = r.known
      /\ s.contacts = r.contacts /\ s.list = r.list /\ s.bundles = r.bundles /\ s.active = r.active
  BY <1>1 DEF AtBp, Memory
<1>3. Quiet(r, s) BY <1>1, <1>2 DEF Quiet, Marked
<1> QED BY <1>2, <1>3, QuietInv

\* The bundle processor sends a bundle to the router.
LEMMA BpRouteInv == ASSUME NEW b \in Bundle, Inv, BpRoute(b) PROVE Inv'
<1>1. PICK sig : sig = [type |-> "route", bundle |-> b] OBVIOUS
<1>2. /\ Len(rq) < QueueLength /\ rq' = Append(rq, sig) /\ AtBp(rt, rt', rt.at_bp \ {b})
      /\ now' = now /\ current' = current /\ rem' = rem
      /\ next_contact_time' = next_contact_time /\ wake_at' = wake_at /\ control' = control
      /\ cm_pc' = cm_pc /\ cm_signal' = cm_signal /\ link' = link /\ tx' = tx /\ gone' = gone
  BY <1>1 DEF BpRoute, Enqueue, cm, cmctl, env, AtBp
<1>3. sig \in Signal /\ Plain(sig) BY <1>1, SignalFacts
<1>4. TypeOK /\ PlanInv(rt) /\ CommandsOK(rq, rt.obj) /\ ReportsOK(rq, rem, rt.active, now)
  BY DEF Inv
<1>5. rt.at_bp \ {b} \subseteq Bundle /\ rq \in Seq(Signal) BY <1>4 DEF TypeOK, Memory
<1>6. PlanInv(rt') /\ rt'.obj = rt.obj /\ rt'.active = rt.active /\ rt'.list = rt.list
  BY <1>2, <1>4, <1>5, AtBpFacts
<1>7. CommandsOK(rq', rt.obj) /\ ReportsOK(rq', rem, rt.active, now)
  BY <1>2, <1>3, <1>4, <1>5, PlainPush
<1>8. rq' \in Seq(Signal) /\ Len(rq') <= QueueLength
  BY <1>2, <1>3, <1>5, PushFacts, PlanAssumption
<1>9. rt' \in Memory BY <1>6 DEF PlanInv, PlanOK
<1>10. TypeOK' BY <1>2, <1>4, <1>6, <1>8, <1>9 DEF TypeOK
<1> QED BY <1>2, <1>6, <1>7, <1>10 DEF Inv

\* The bundle processor drops a bundle.
LEMMA BpDropInv == ASSUME NEW b \in Bundle, Inv, BpDrop(b) PROVE Inv'
<1>1. /\ AtBp(rt, rt', rt.at_bp \ {b}) /\ gone' = gone \cup {b}
      /\ now' = now /\ rq' = rq /\ current' = current /\ rem' = rem
      /\ next_contact_time' = next_contact_time /\ wake_at' = wake_at /\ control' = control
      /\ cm_pc' = cm_pc /\ cm_signal' = cm_signal /\ link' = link /\ tx' = tx
  BY DEF BpDrop, cm, cmctl, env, AtBp
<1>2. TypeOK /\ PlanInv(rt) BY DEF Inv
<1>3. rt.at_bp \ {b} \subseteq Bundle BY <1>2 DEF TypeOK, Memory
<1>4. PlanInv(rt') /\ rt'.obj = rt.obj /\ rt'.active = rt.active /\ rt'.list = rt.list
  BY <1>1, <1>2, <1>3, AtBpFacts
<1>5. rt' \in Memory BY <1>4 DEF PlanInv, PlanOK
<1>6. TypeOK' BY <1>1, <1>2, <1>4, <1>5 DEF TypeOK
<1> QED BY <1>1, <1>4, <1>6 DEF Inv

\* A link comes up.
LEMMA LinkUpInv == ASSUME NEW n \in Node, Inv, LinkUp(n) PROVE Inv'
<1>1. PICK sig : sig = [type |-> "new_link"] OBVIOUS
<1>2. /\ Len(rq) < QueueLength /\ rq' = Append(rq, sig) /\ rt' = rt /\ link' = link \cup {n}
      /\ now' = now /\ current' = current /\ rem' = rem
      /\ next_contact_time' = next_contact_time /\ wake_at' = wake_at /\ control' = control
      /\ cm_pc' = cm_pc /\ cm_signal' = cm_signal /\ tx' = tx /\ gone' = gone
  BY <1>1 DEF LinkUp, Enqueue, cm, cmctl
<1>3. sig \in Signal /\ Plain(sig) BY <1>1, SignalFacts
<1>4. TypeOK /\ CommandsOK(rq, rt.obj) /\ ReportsOK(rq, rem, rt.active, now) BY DEF Inv
<1>5. rq \in Seq(Signal) BY <1>4 DEF TypeOK
<1>6. CommandsOK(rq', rt.obj) /\ ReportsOK(rq', rem, rt.active, now)
  BY <1>2, <1>3, <1>4, <1>5, PlainPush
<1>7. rq' \in Seq(Signal) /\ Len(rq') <= QueueLength
  BY <1>2, <1>3, <1>5, PushFacts, PlanAssumption
<1>8. TypeOK' BY <1>2, <1>4, <1>7 DEF TypeOK
<1> QED BY <1>2, <1>6, <1>8 DEF Inv

\* A link goes down.
LEMMA LinkDownInv == ASSUME NEW n \in Node, Inv, LinkDown(n) PROVE Inv'
<1>1. /\ link' = link \ {n} /\ rt' = rt /\ rq' = rq
      /\ now' = now /\ current' = current /\ rem' = rem
      /\ next_contact_time' = next_contact_time /\ wake_at' = wake_at /\ control' = control
      /\ cm_pc' = cm_pc /\ cm_signal' = cm_signal /\ tx' = tx /\ gone' = gone
  BY DEF LinkDown, cm, cmctl
<1>2. TypeOK' BY <1>1 DEF Inv, TypeOK
<1> QED BY <1>1, <1>2 DEF Inv

-----------------------------------------------------------------------------
\* A wake-up may make the contact manager run; it does not touch its reports.
ManagerOK == /\ control' \in {"none", "update", "process", "unknown"}
             /\ cm_pc' \in {"wait", "run", "inform"}
             /\ cm_signal' \in {"update", "process", "unknown"}
             /\ cm_pc' = "inform" <=> cm_pc = "inform"

\* wake_up_contact_manager.
LEMMA WakeFacts ==
  ASSUME TypeOK, NEW sig \in {"update", "process"}, Wake(sig) \/ UNCHANGED cmctl PROVE ManagerOK
<1>1. /\ control \in {"none", "update", "process", "unknown"}
      /\ cm_pc \in {"wait", "run", "inform"} /\ cm_signal \in {"update", "process", "unknown"}
  BY DEF TypeOK
<1> QED BY <1>1 DEF Wake, cmctl, ManagerOK

\* What the router does not change.
RouterFrame == /\ now' = now /\ current' = current /\ rem' = rem
               /\ next_contact_time' = next_contact_time /\ wake_at' = wake_at
               /\ link' = link /\ tx' = tx

\* The router has handled the first signal of its queue.
LEMMA HandledInv ==
  ASSUME Inv, rq # <<>>, rq' = Tail(rq), PlanInv(rt'), rt'.active = rt.active,
         \A c \in Contact : rt.obj[c] = "in_command" =>
           c \in NewContacts(Head(rq)) \/ rt'.obj[c] = "in_command",
         ManagerOK, RouterFrame, gone' \subseteq Bundle
  PROVE  Inv'
<1>1. TypeOK /\ CommandsOK(rq, rt.obj) /\ ReportsOK(rq, rem, rt.active, now) BY DEF Inv
<1>2. rq \in Seq(Signal) BY <1>1 DEF TypeOK
<1>3. /\ rq' \in Seq(Signal) /\ Len(rq') = Len(rq) - 1
      /\ \A i \in DOMAIN rq' : i + 1 \in DOMAIN rq /\ rq'[i] = rq[i + 1] /\ i \in Nat /\ i >= 1
  BY <1>2, PopFacts
<1>4. /\ CommandsOK(rq', rt.obj) /\ ReportsOK(rq', rem, rt.active, now)
      /\ \A i \in DOMAIN rq' : \A c \in NewContacts(rq'[i]) : c \notin NewContacts(Head(rq))
  BY <1>1, <1>2, Pop
<1>5. CommandsOK(rq', rt'.obj)
  <2>1. ASSUME NEW i \in DOMAIN rq', NEW c \in NewContacts(rq'[i]) PROVE rt'.obj[c] = "in_command"
    <3>1. rq'[i] \in Signal BY <1>3, <2>1
    <3>2. c \in Contact BY <2>1, <3>1 DEF NewContacts, Signal, Command
    <3>3. rt.obj[c] = "in_command" BY <1>4, <2>1 DEF CommandsOK
    <3> QED BY <1>4, <2>1, <3>2, <3>3
  <2> QED BY <1>4, <2>1 DEF CommandsOK
<1>6. rt' \in Memory /\ IsInjective(rt'.list) BY DEF PlanInv, PlanOK
<1>7. Len(rq') <= QueueLength
  <2>1. Len(rq) \in Nat /\ Len(rq) <= QueueLength /\ QueueLength \in Nat BY <1>1, <1>2, PlanAssumption DEF TypeOK
  <2> QED BY <1>3, <2>1
<1>8. TypeOK' BY <1>1, <1>3, <1>6, <1>7 DEF TypeOK, ManagerOK, RouterFrame
<1> QED BY <1>4, <1>5, <1>8 DEF Inv, ManagerOK, RouterFrame

\* An edit of the plan.
LEMMA EditedInv ==
  ASSUME Inv, NEW D, Edited(rt, rt', D), D \subseteq NewContacts(Head(rq))
  PROVE  /\ PlanInv(rt') /\ rt'.active = rt.active
         /\ \A c \in Contact : rt.obj[c] = "in_command" =>
              c \in NewContacts(Head(rq)) \/ rt'.obj[c] = "in_command"
<1>1. PlanInv(rt) BY DEF Inv
<1>2. PICK s : s = rt' OBVIOUS
<1>3. PlanOK(s) /\ Edit(rt, s, D) BY <1>2 DEF Edited
<1>4. PlanInv(s) BY <1>1, <1>3 DEF PlanInv, Edit
<1>5. s.active = rt.active BY <1>3 DEF Edit
<1>6. ASSUME NEW c \in Contact, rt.obj[c] = "in_command", c \notin NewContacts(Head(rq))
      PROVE  s.obj[c] = "in_command"
  BY <1>3, <1>6 DEF Edit
<1> QED BY <1>2, <1>4, <1>5, <1>6

\* No edit is an edit.
LEMMA EditSame == ASSUME NEW r, PlanOK(r), NEW D PROVE Edited(r, r, D)
BY DEF Edited, Edit, BundlesMoved

\* A command: the contacts it brings along are in its hands until it is handled.
LEMMA RouterCommandFacts ==
  ASSUME Inv, RouterCommand
  PROVE  \E D : Edited(rt, rt', D) /\ D \subseteq NewContacts(Head(rq)) /\ ManagerOK
<1>1. rq # <<>> /\ rq' = Tail(rq) /\ Head(rq).type = "command" BY DEF RouterCommand, NextSignal
<1>2. TypeOK /\ PlanInv(rt) /\ CommandsOK(rq, rt.obj) BY DEF Inv
<1>3. rq \in Seq(Signal) BY <1>2 DEF TypeOK
<1>4. Head(rq) \in Signal /\ Head(rq) = rq[1] /\ 1 \in DOMAIN rq BY <1>1, <1>3, PopFacts
<1>5. PICK cmd : cmd = Head(rq).cmd OBVIOUS
<1>6. cmd \in Command BY <1>1, <1>4, <1>5 DEF Signal
<1>7. PICK n \in Node, C \in SUBSET Contact : n = cmd.node /\ C = cmd.contacts BY <1>6 DEF Command
<1>8. cmd.type \in {"add", "update", "delete", "delete_endpoints"} BY <1>6 DEF Command
<1>9. /\ cmd.type \in {"add", "update"} => NewContacts(Head(rq)) = C
      /\ cmd.type \notin {"add", "update"} => NewContacts(Head(rq)) = {}
  BY <1>1, <1>5, <1>7 DEF NewContacts
<1>10. \A c \in NewContacts(Head(rq)) : rt.obj[c] = "in_command" BY <1>2, <1>4 DEF CommandsOK
<1>11. PlanOK(rt) BY <1>2 DEF PlanInv
<1>13. \E D : Edited(rt, rt', D) /\ D \subseteq NewContacts(Head(rq)) /\ ManagerOK
  <2>1. CASE ~node_prepare_and_verify(C)
             /\ rt' = (IF cmd.type \in {"add", "update"} THEN free_contacts(rt, C) ELSE rt)
             /\ UNCHANGED cmctl
    <3>1. ManagerOK BY <1>2, <2>1, WakeFacts
    <3>2. CASE cmd.type \in {"add", "update"}
      <4>1. Edited(rt, rt', C) BY <1>9, <1>10, <1>11, <2>1, <3>2, RefusedFacts
      <4> QED BY <1>9, <3>1, <3>2, <4>1
    <3>3. CASE cmd.type \notin {"add", "update"}
      <4>1. Edited(rt, rt', {}) BY <1>11, <2>1, <3>3, EditSame
      <4> QED BY <3>1, <4>1
    <3> QED BY <3>2, <3>3
  <2>2. CASE /\ cmd.type = "add"
             /\ \E over \in SUBSET contact_list_difference(rt.contacts[n], C) :
                  rt' = routing_table_add_node(rt, n, C, over)
             /\ Wake("update")
    <3>1. ManagerOK BY <1>2, <2>2, WakeFacts
    <3>2. Edited(rt, rt', C) BY <1>9, <1>10, <1>11, <2>2, AddNode
    <3> QED BY <1>9, <2>2, <3>1, <3>2
  <2>3. CASE cmd.type = "update" /\ rt' = routing_table_replace_node(rt, n, C) /\ Wake("update")
    <3>1. ManagerOK BY <1>2, <2>3, WakeFacts
    <3>2. Edited(rt, rt', C) BY <1>9, <1>10, <1>11, <2>3, ReplaceFacts
    <3> QED BY <1>9, <2>3, <3>1, <3>2
  <2>4. CASE /\ n \in rt.known
             /\ rt' = routing_table_delete_node(rt, n, C, cmd.type = "delete_endpoints")
             /\ Wake("update")
    <3>1. ManagerOK BY <1>2, <2>4, WakeFacts
    <3>2. PICK endpoints \in BOOLEAN : endpoints = (cmd.type = "delete_endpoints") OBVIOUS
    <3>3. Edited(rt, rt', {}) BY <1>11, <2>4, <3>2, DeleteFacts
    <3> QED BY <3>1, <3>3
  <2>5. CASE UNCHANGED <<rt, cmctl>>
    <3>1. ManagerOK BY <1>2, <2>5, WakeFacts
    <3>2. Edited(rt, rt', {}) BY <1>11, <2>5, EditSame
    <3> QED BY <3>1, <3>2
  <2> QED BY <1>5, <1>7, <2>1, <2>2, <2>3, <2>4, <2>5 DEF RouterCommand
<1> QED BY <1>13

\* process_router_command keeps the invariant.
LEMMA RouterCommandInv == ASSUME Inv, RouterCommand PROVE Inv'
<1>1. rq # <<>> /\ rq' = Tail(rq) /\ RouterFrame /\ gone' = gone
  BY DEF RouterCommand, NextSignal, RouterFrame, cm, env
<1>2. PICK D : Edited(rt, rt', D) /\ D \subseteq NewContacts(Head(rq)) /\ ManagerOK
  BY RouterCommandFacts
<1>3. /\ PlanInv(rt') /\ rt'.active = rt.active
      /\ \A c \in Contact : rt.obj[c] = "in_command" =>
           c \in NewContacts(Head(rq)) \/ rt'.obj[c] = "in_command"
  BY <1>2, EditedInv
<1>4. gone \subseteq Bundle BY DEF Inv, TypeOK
<1> QED BY <1>1, <1>2, <1>3, <1>4, HandledInv

\* A bundle is scheduled on a contact of the list, or has no route.
LEMMA RouteFacts ==
  ASSUME NEW r, PlanInv(r), NEW c \in ToSet(r.list), NEW b \in Bundle,
         NEW s, s = [r EXCEPT !.bundles[c] = @ \cup {b}]
  PROVE  PlanInv(s) /\ s.obj = r.obj /\ s.active = r.active
<1>1. r \in Memory /\ Marked(r) /\ Listed(r) BY DEF PlanInv, PlanOK
<1>2. c \in Contact BY <1>1 DEF Memory, ToSet
<1>3. /\ s.bundles = [r.bundles EXCEPT ![c] = @ \cup {b}]
      /\ s.obj = r.obj /\ s.node = r.node /\ s.known = r.known /\ s.contacts = r.contacts
      /\ s.list = r.list /\ s.active = r.active /\ s.at_bp = r.at_bp /\ s.faults = r.faults
  BY <1>1 DEF Memory
<1>4. s.bundles \in [Contact -> SUBSET Bundle] BY <1>1, <1>2, <1>3 DEF Memory
<1>5. s \in Memory BY <1>1, <1>3, <1>4 DEF Memory
<1>6. \A d \in Contact : s.bundles[d] # {} => r.bundles[d] # {} \/ OfKnownNode(r, d)
  BY <1>1, <1>3 DEF Listed, Memory
<1>7. Quiet(r, s) BY <1>1, <1>3, <1>5, <1>6 DEF Quiet, Marked
<1> QED BY <1>3, <1>7, QuietInv

\* process_bundle keeps the invariant.
LEMMA RouterRouteInv == ASSUME Inv, RouterRoute PROVE Inv'
<1>1. rq # <<>> /\ rq' = Tail(rq) /\ Head(rq).type = "route" BY DEF RouterRoute, NextSignal
<1>2. TypeOK /\ PlanInv(rt) BY DEF Inv
<1>3. rq \in Seq(Signal) /\ gone \subseteq Bundle BY <1>2 DEF TypeOK
<1>4. Head(rq) \in Signal BY <1>1, <1>3, PopFacts
<1>5. PICK b \in Bundle : b = Head(rq).bundle BY <1>1, <1>4 DEF Signal
<1>6. RouterFrame BY DEF RouterRoute, RouterFrame, cm, env
<1>7. /\ PlanInv(rt') /\ rt'.obj = rt.obj /\ rt'.active = rt.active
      /\ ManagerOK /\ gone' \subseteq Bundle
  <2>1. CASE /\ \E c \in router_get_first_route(rt) : rt' = [rt EXCEPT !.bundles[c] = @ \cup {b}]
             /\ Wake("process") /\ UNCHANGED gone
    <3>1. PICK c \in ToSet(rt.list) : rt' = [rt EXCEPT !.bundles[c] = @ \cup {b}]
      BY <2>1 DEF router_get_first_route
    <3>2. PlanInv(rt') /\ rt'.obj = rt.obj /\ rt'.active = rt.active BY <1>2, <3>1, RouteFacts
    <3>3. ManagerOK BY <1>2, <2>1, WakeFacts
    <3> QED BY <1>3, <2>1, <3>2, <3>3
  <2>2. CASE gone' = gone \cup {b} /\ UNCHANGED <<rt, cmctl>>
    <3>1. ManagerOK BY <1>2, <2>2, WakeFacts
    <3> QED BY <1>2, <1>3, <2>2, <3>1
  <2> QED BY <1>5, <2>1, <2>2 DEF RouterRoute
<1> QED BY <1>1, <1>6, <1>7, HandledInv

\* The report of an ended contact: the contact has no mark any more.
LEMMA RouterContactOverInv == ASSUME Inv, RouterContactOver PROVE Inv'
<1>1. rq # <<>> /\ rq' = Tail(rq) /\ Head(rq).type = "contact_over"
  BY DEF RouterContactOver, NextSignal
<1>2. TypeOK /\ PlanInv(rt) /\ ReportsOK(rq, rem, rt.active, now) BY DEF Inv
<1>3. rq \in Seq(Signal) /\ gone \subseteq Bundle BY <1>2 DEF TypeOK
<1>4. Head(rq) \in Signal /\ Head(rq) = rq[1] /\ 1 \in DOMAIN rq BY <1>1, <1>3, PopFacts
<1>5. PICK c \in Contact : c = Head(rq).contact BY <1>1, <1>4 DEF Signal
<1>6. c \notin rt.active BY <1>1, <1>2, <1>4, <1>5 DEF ReportsOK, Reports
<1>7. /\ rt' = routing_table_contact_passed(rt, c) /\ RouterFrame /\ gone' = gone
      /\ UNCHANGED cmctl
  BY <1>5 DEF RouterContactOver, RouterFrame, cm, env
<1>8. ManagerOK BY <1>2, <1>7, WakeFacts
<1>9. /\ PlanInv(rt') /\ rt'.active = rt.active
      /\ \A d \in Contact : rt.obj[d] = "in_command" =>
           d \in NewContacts(Head(rq)) \/ rt'.obj[d] = "in_command"
  <2>1. PlanOK(rt) BY <1>2 DEF PlanInv
  <2>2. CASE rt' = Faulty(rt, c)
    <3>1. /\ PlanOK(rt') /\ rt'.obj = rt.obj /\ rt'.active = rt.active
          /\ rt'.list = rt.list /\ rt'.node = rt.node
      BY <2>1, <2>2, FaultFacts
    <3> QED BY <1>2, <3>1 DEF PlanInv
  <2>3. CASE Edited(rt, rt', {}) BY <2>3, EditedInv
  <2> QED BY <1>6, <1>7, <2>1, <2>2, <2>3, PassedFacts
<1> QED BY <1>1, <1>3, <1>7, <1>8, <1>9, HandledInv

\* A success or failure of a transmission keeps the invariant.
LEMMA RouterTransmissionInv == ASSUME Inv, RouterTransmission PROVE Inv'
<1>1. rq # <<>> /\ rq' = Tail(rq) /\ Head(rq).type \in {"success", "failure"}
  BY DEF RouterTransmission, NextSignal
<1>2. TypeOK /\ PlanInv(rt) BY DEF Inv
<1>3. rq \in Seq(Signal) /\ gone \subseteq Bundle BY <1>2 DEF TypeOK
<1>4. Head(rq) \in Signal BY <1>1, <1>3, PopFacts
<1>5. Head(rq).bundle \in Bundle BY <1>1, <1>4 DEF Signal
<1>6. RouterFrame /\ rt' = rt /\ UNCHANGED cmctl /\ gone' = gone \cup {Head(rq).bundle}
  BY DEF RouterTransmission, RouterFrame, cm, env
<1>7. ManagerOK BY <1>2, <1>6, WakeFacts
<1>8. gone' \subseteq Bundle BY <1>3, <1>5, <1>6
<1> QED BY <1>1, <1>2, <1>6, <1>7, <1>8, HandledInv

\* NEW_LINK_ESTABLISHED keeps the invariant.
LEMMA RouterNewLinkInv == ASSUME Inv, RouterNewLink PROVE Inv'
<1>1. rq # <<>> /\ rq' = Tail(rq) BY DEF RouterNewLink, NextSignal
<1>2. TypeOK /\ PlanInv(rt) BY DEF Inv
<1>3. RouterFrame /\ rt' = rt /\ Wake("process") /\ gone' = gone
  BY DEF RouterNewLink, RouterFrame, cm, env
<1>4. ManagerOK BY <1>2, <1>3, WakeFacts
<1>5. gone' \subseteq Bundle BY <1>2, <1>3 DEF TypeOK
<1> QED BY <1>1, <1>2, <1>3, <1>4, <1>5, HandledInv

-----------------------------------------------------------------------------
\* The times the contact manager waits for.
LEMMA MinFacts ==
  ASSUME NEW T \in SUBSET Nat, T # {} PROVE Min(T) \in T
BY LeastNat DEF Min

\* The next time at which a contact begins or ends.
LEMMA UpcomingFacts ==
  ASSUME NEW r \in Memory, now \in 0..MaxTime PROVE UpcomingTime(r) \in 0..Never
<1> DEFINE A == {To[c] : c \in {x \in ToSet(r.list) : From[x] <= now /\ To[x] > now}}
           B == {From[c] : c \in {x \in ToSet(r.list) : From[x] > now}}
<1>1. MaxTime \in Nat /\ MaxPeriod \in Nat BY PlanAssumption
<1>2. Never \in Nat /\ MaxTime <= Never BY <1>1 DEF Never
<1>3. \A c \in Contact : From[c] \in Nat /\ To[c] \in Nat /\ From[c] < To[c] /\ To[c] <= MaxTime
  BY PlanAssumption
<1>4. ToSet(r.list) \subseteq Contact BY DEF Memory, ToSet
<1>5. A \subseteq 0..Never
  <2> SUFFICES ASSUME NEW c \in ToSet(r.list) PROVE To[c] \in 0..Never OBVIOUS
  <2>1. To[c] \in Nat /\ To[c] <= MaxTime BY <1>3, <1>4
  <2> QED BY <1>1, <1>2, <2>1
<1>6. B \subseteq 0..Never
  <2> SUFFICES ASSUME NEW c \in ToSet(r.list) PROVE From[c] \in 0..Never OBVIOUS
  <2>1. From[c] \in Nat /\ To[c] \in Nat /\ From[c] < To[c] /\ To[c] <= MaxTime BY <1>3, <1>4
  <2> QED BY <1>1, <1>2, <2>1
<1>7. UpcomingTime(r) = Min({Never} \cup A \cup B) BY DEF UpcomingTime
<1> HIDE DEF A, B
<1>8. {Never} \cup A \cup B \subseteq 0..Never BY <1>2, <1>5, <1>6
<1>9. {Never} \cup A \cup B \in SUBSET Nat /\ {Never} \cup A \cup B # {} BY <1>2, <1>8
<1> QED BY <1>7, <1>8, <1>9, MinFacts

\* manage_contacts at the end of a round.
LEMMA EndOfRoundFacts ==
  ASSUME TypeOK, next_contact_time' \in 0..Never, EndOfRound
  PROVE  /\ cm_pc' \in {"wait", "run"} /\ cm_signal' \in {"update", "process", "unknown"}
         /\ wake_at' \in 0..Never
<1>1. MaxTime \in Nat /\ MaxPeriod \in Nat /\ now \in 0..MaxTime BY PlanAssumption DEF TypeOK
<1>2. wake_at \in 0..Never /\ cm_signal \in {"update", "process", "unknown"} BY DEF TypeOK
<1>3. PICK x : x = next_contact_time' OBVIOUS
<1>4. Never \in Nat /\ x \in Nat /\ x <= Never /\ now + MaxPeriod \in Nat /\ now + MaxPeriod <= Never
  BY <1>1, <1>3 DEF Never
<1>5. Min({x, now + MaxPeriod}) \in {x, now + MaxPeriod} BY <1>4, MinFacts
<1>6. Min({x, now + MaxPeriod}) \in 0..Never BY <1>4, <1>5
<1>7. CASE x <= now BY <1>2, <1>3, <1>7 DEF EndOfRound
<1>8. CASE ~(x <= now) BY <1>2, <1>3, <1>6, <1>8 DEF EndOfRound
<1> QED BY <1>7, <1>8

\* The bundles of contacts with a link are handed over all together.
Handed(r, cs, s) ==
  /\ s \in Memory /\ SameTables(r, s) /\ s.list = r.list /\ s.active = r.active
  /\ s.faults = r.faults /\ s.at_bp = r.at_bp
  /\ s.bundles = [c \in Contact |-> IF c \in HandOver(cs) THEN {} ELSE r.bundles[c]]

\* hand_over_contact_bundles moves bundles to the TX task.
LEMMA HandFacts ==
  ASSUME NEW r \in Memory, NEW cs, NEW s, s = hand_over_contact_bundles(r, cs)
  PROVE  Handed(r, cs, s)
<1>1. /\ s.bundles = [c \in Contact |-> IF c \in HandOver(cs) THEN {} ELSE r.bundles[c]]
      /\ s.obj = r.obj /\ s.node = r.node /\ s.known = r.known /\ s.contacts = r.contacts
      /\ s.list = r.list /\ s.active = r.active /\ s.at_bp = r.at_bp /\ s.faults = r.faults
  BY DEF hand_over_contact_bundles, Memory
<1>2. s.bundles \in [Contact -> SUBSET Bundle] BY <1>1 DEF Memory
<1>3. s \in Memory BY <1>1, <1>2 DEF hand_over_contact_bundles, Memory
<1> QED BY <1>1, <1>3 DEF Handed, SameTables

\* Handing over changes no table.
LEMMA HandQuiet ==
  ASSUME NEW r, PlanInv(r), NEW cs, NEW s, Handed(r, cs, s) PROVE PlanInv(s)
<1>1. r \in Memory /\ Marked(r) BY DEF PlanInv, PlanOK
<1>2. Quiet(r, s) BY <1>1 DEF Handed, SameTables, Quiet, Marked
<1> QED BY <1>2, QuietInv

\* manage_contacts keeps the invariant.
LEMMA ManageBundlesInv == ASSUME Inv, ManageBundles PROVE Inv'
<1>1. TypeOK /\ PlanInv(rt) BY DEF Inv
<1>2. rt \in Memory BY <1>1 DEF TypeOK
<1>3. /\ tx' = tx \cup HandedOver(rt, current) /\ rt' = hand_over_contact_bundles(rt, current)
      /\ next_contact_time' = next_contact_time /\ EndOfRound /\ cm_pc = "run"
      /\ now' = now /\ rq' = rq /\ current' = current /\ rem' = rem /\ control' = control
      /\ link' = link /\ gone' = gone
  BY DEF ManageBundles, env
<1>4. Handed(rt, current, rt') BY <1>2, <1>3, HandFacts
<1>5. PlanInv(rt') BY <1>1, <1>4, HandQuiet
<1>6. rt' \in Memory /\ rt'.active = rt.active /\ rt'.obj = rt.obj /\ rt'.list = rt.list
  BY <1>4 DEF Handed, SameTables
<1>7. /\ cm_pc' \in {"wait", "run"} /\ cm_signal' \in {"update", "process", "unknown"}
      /\ wake_at' \in 0..Never
  BY <1>1, <1>3, EndOfRoundFacts DEF TypeOK
<1>8. tx' \subseteq Bundle \X Contact BY <1>1, <1>3 DEF TypeOK, HandedOver
<1>9. TypeOK' BY <1>1, <1>3, <1>6, <1>7, <1>8 DEF TypeOK
<1>10. rem' = <<>> BY <1>3 DEF Inv
<1> QED BY <1>3, <1>5, <1>6, <1>9, <1>10 DEF Inv

\* Ended contacts are reported last one first.
LEMMA ReverseFacts ==
  ASSUME NEW s \in Seq(Contact), NEW r, r = Reverse(s)
  PROVE  /\ r \in Seq(Contact) /\ ToSet(r) = ToSet(s)
         /\ IsInjective(s) => IsInjective(r)
<1>1. PICK n \in Nat : n = Len(s) OBVIOUS
<1>2. DOMAIN s = 1..n /\ \A i \in 1..n : s[i] \in Contact BY <1>1
<1>3. r = [i \in 1..n |-> s[(n - i) + 1]] BY <1>1 DEF Reverse
<1>4. \A i \in 1..n : (n - i) + 1 \in 1..n BY <1>1
<1>5. DOMAIN r = 1..n /\ \A i \in 1..n : r[i] = s[(n - i) + 1] /\ r[(n - i) + 1] = s[i]
  <2>1. \A i \in 1..n : (n - ((n - i) + 1)) + 1 = i BY <1>1
  <2> QED BY <1>3, <1>4, <2>1
<1>6. r \in [1..n -> Contact] BY <1>2, <1>3, <1>4
<1>7. r \in Seq(Contact) BY <1>1, <1>6
<1>8. ToSet(r) = ToSet(s) BY <1>2, <1>4, <1>5 DEF ToSet
<1>9. ASSUME IsInjective(s) PROVE IsInjective(r)
  <2> SUFFICES ASSUME NEW i \in 1..n, NEW j \in 1..n, r[i] = r[j] PROVE i = j
    BY <1>5 DEF IsInjective
  <2>1. (n - i) + 1 = (n - j) + 1 BY <1>2, <1>4, <1>5, <1>9 DEF IsInjective
  <2> QED BY <1>1, <2>1
<1> QED BY <1>7, <1>8, <1>9

\* manage_contacts hands over before and after contacts are started.
HandedTwice ==
  \E before, h, started, added :
    /\ Handed(rt, before, h)
    /\ started \in Memory /\ started.bundles = h.bundles /\ started.at_bp = h.at_bp
    /\ Handed(started, added, rt')
    /\ tx' = tx \cup HandedOver(rt, before) \cup HandedOver(started, added)

\* The check of the contact manager: the marks of ended contacts go, contacts of the
\* plan that have not ended get one, and only marked contacts are held.
LEMMA ManageContactsInv == ASSUME Inv, ManageContacts PROVE Inv' /\ HandedTwice
<1>1. /\ TypeOK /\ PlanInv(rt) /\ ToSet(current) \subseteq rt.active
      /\ CommandsOK(rq, rt.obj) /\ ReportsOK(rq, rem, rt.active, now)
  BY DEF Inv
<1>2. /\ rt \in Memory /\ current \in Seq(Contact) /\ Len(current) <= MaxConcurrent
      /\ IsInjective(current) /\ now \in 0..MaxTime
  BY <1>1 DEF TypeOK
<1>3. PICK before : before = IF cm_signal = "unknown" THEN current ELSE <<>> OBVIOUS
<1>4. PICK kept : kept = SubList(current, {c \in Contact : To[c] > now}) OBVIOUS
<1>5. PICK h : h = hand_over_contact_bundles(rt, before) OBVIOUS
<1>6. PICK r : r = remove_expired_contacts(h) OBVIOUS
<1>7. PICK due : due = SubList(r.list, {c \in Contact : From[c] <= now /\ To[c] > now}) OBVIOUS
<1>8. PICK up : up = Started(kept, r, due) OBVIOUS
<1>9. PICK started : started = [r EXCEPT !.active = up.active] OBVIOUS
<1>10. PICK added : added = SubList(up.current, Contact \ ToSet(kept)) OBVIOUS
<1>11. /\ current' = up.current /\ rt' = hand_over_contact_bundles(started, added)
       /\ tx' = tx \cup HandedOver(rt, before) \cup HandedOver(started, added)
       /\ rem' = Reverse(Expired) /\ next_contact_time' = UpcomingTime(rt)
  BY <1>3, <1>4, <1>5, <1>6, <1>7, <1>8, <1>9, <1>10 DEF ManageContacts, process_upcoming_list
<1>12. /\ cm_pc' = "inform" /\ now' = now /\ rq' = rq /\ wake_at' = wake_at /\ control' = control
       /\ cm_signal' = cm_signal /\ link' = link /\ gone' = gone
  BY DEF ManageContacts, env
<1>13. PICK E : E = ToSet(Expired) OBVIOUS
<1>14. /\ Thinned(current, {c \in Contact : To[c] > now}, kept)
       /\ Thinned(current, {c \in Contact : To[c] <= now}, Expired)
  BY <1>2, <1>4, SubListFacts DEF Expired
<1>15. Handed(rt, before, h) BY <1>2, <1>5, HandFacts
<1>16. PlanInv(h) BY <1>1, <1>15, HandQuiet
<1>17. /\ r \in Memory /\ SameTables(h, r) /\ r.list = h.list /\ r.active = h.active \ E
       /\ r.bundles = h.bundles /\ r.faults = h.faults /\ r.at_bp = h.at_bp
  BY <1>6, <1>13, <1>15 DEF remove_expired_contacts, Memory, Handed, SameTables
<1>18. /\ kept \in Seq(Contact) /\ Len(kept) <= MaxConcurrent /\ IsInjective(kept)
       /\ ToSet(kept) \subseteq r.active
  <2>1. /\ kept \in Seq(Contact) /\ Len(kept) <= Len(current) /\ IsInjective(kept)
        /\ ToSet(kept) = ToSet(current) \cap {c \in Contact : To[c] > now}
    BY <1>2, <1>14 DEF Thinned
  <2>2. Len(kept) <= MaxConcurrent
    <3>1. Len(kept) \in Nat /\ Len(current) \in Nat /\ MaxConcurrent \in Nat
      BY <1>2, <2>1, PlanAssumption
    <3> QED BY <1>2, <2>1, <3>1
  <2>3. E \subseteq {c \in Contact : To[c] <= now} BY <1>13, <1>14 DEF Thinned
  <2>4. \A c \in Contact : To[c] \in Nat BY PlanAssumption
  <2>5. \A c \in E : c \notin ToSet(kept) BY <1>2, <2>1, <2>3, <2>4
  <2>6. h.active = rt.active BY <1>15 DEF Handed
  <2> QED BY <1>1, <1>17, <2>1, <2>2, <2>5, <2>6
<1>19. Thinned(r.list, {c \in Contact : From[c] <= now /\ To[c] > now}, due)
  <2>1. r.list \in Seq(Contact) BY <1>17 DEF Memory
  <2> QED BY <1>7, <2>1, SubListFacts
<1>20. StartedOK(kept, r.active, ToSet(due), up)
  <2>1. due \in Seq(Contact) BY <1>19 DEF Thinned
  <2> QED BY <1>8, <1>17, <1>18, <2>1, StartedFacts
<1>21. \A c \in ToSet(due) : c \in Contact /\ c \in ToSet(rt.list) /\ To[c] > now
  <2>1. r.list = rt.list BY <1>15, <1>17 DEF Handed
  <2> QED BY <1>19, <2>1 DEF Thinned
<1>22. \A c \in ToSet(due) : rt.obj[c] = "live"
  <2>1. Listed(rt) /\ Owned(rt) /\ rt.known \subseteq Node BY <1>1, <1>2 DEF PlanInv, PlanOK, Memory
  <2> QED BY <1>21, <2>1 DEF Listed, Owned, OfKnownNode
<1>23. up.active \subseteq rt.active \cup ToSet(due) /\ up.active \cap E \subseteq ToSet(due)
  BY <1>15, <1>17, <1>20 DEF StartedOK, Handed
<1>24. /\ started \in Memory /\ SameTables(r, started) /\ started.list = r.list
       /\ started.active = up.active /\ started.bundles = r.bundles /\ started.at_bp = r.at_bp
  <2>1. up.active \subseteq Contact
    <3>1. r.active \subseteq Contact BY <1>17 DEF Memory
    <3> QED BY <1>20, <1>21, <3>1 DEF StartedOK
  <2> QED BY <1>9, <1>17, <2>1 DEF Memory, SameTables
<1>25. PlanInv(started)
  <2>1. Marked(h) BY <1>16 DEF PlanInv, PlanOK
  <2>2. h.obj = rt.obj /\ h.active = rt.active BY <1>15 DEF Handed, SameTables
  <2>3. Quiet(h, started) BY <1>17, <1>22, <1>23, <1>24, <2>1, <2>2 DEF Quiet, SameTables, Marked
  <2> QED BY <1>16, <2>3, QuietInv
<1>26. Handed(started, added, rt') BY <1>11, <1>24, HandFacts
<1>27. PlanInv(rt') BY <1>25, <1>26, HandQuiet
<1>28. /\ rt' \in Memory /\ rt'.active = up.active /\ rt'.list = rt.list /\ rt'.obj = rt.obj
  BY <1>15, <1>17, <1>24, <1>26 DEF Handed, SameTables
<1>29. /\ rem' \in Seq(Contact) /\ ToSet(rem') = E /\ IsInjective(rem')
  <2>1. Expired \in Seq(Contact) /\ IsInjective(Expired) BY <1>2, <1>14 DEF Thinned
  <2> QED BY <1>11, <1>13, <2>1, ReverseFacts
<1>30. /\ current' \in Seq(Contact) /\ Len(current') <= MaxConcurrent /\ IsInjective(current')
       /\ ToSet(current') \subseteq up.active
  BY <1>11, <1>20 DEF StartedOK
<1>31. TypeOK'
  <2>1. next_contact_time' \in 0..Never BY <1>2, <1>11, UpcomingFacts
  <2>2. tx' \subseteq Bundle \X Contact BY <1>1, <1>11 DEF TypeOK, HandedOver
  <2>3. IsInjective(rt'.list) BY <1>1, <1>28 DEF TypeOK
  <2> QED BY <1>1, <1>12, <1>28, <1>29, <1>30, <2>1, <2>2, <2>3 DEF TypeOK
<1>32. E \subseteq ToSet(current) /\ E \subseteq {c \in Contact : To[c] <= now}
  BY <1>13, <1>14 DEF Thinned
<1>33. \A c \in Contact : To[c] <= now => c \notin ToSet(due)
  <2>1. \A c \in Contact : To[c] \in Nat BY PlanAssumption
  <2> QED BY <1>2, <1>21, <2>1
<1>34. ReportsOK(rq, rem', up.active, now)
  <2>1. \A c \in ToSet(rem') : To[c] <= now /\ c \notin up.active
    BY <1>23, <1>29, <1>32, <1>33
  <2>2. \A c \in Contact : \A i \in DOMAIN rq : Reports(rq, i, c) =>
           /\ To[c] <= now /\ c \notin rt.active
           /\ \A j \in DOMAIN rq : Reports(rq, j, c) => j = i
    BY <1>1 DEF ReportsOK
  <2>3. \A c \in Contact : To[c] <= now /\ c \notin rt.active => c \notin up.active /\ c \notin ToSet(rem')
    BY <1>1, <1>23, <1>29, <1>32, <1>33
  <2> QED BY <1>29, <2>1, <2>2, <2>3 DEF ReportsOK
<1>35. HandedTwice
  <2>1. started.bundles = h.bundles /\ started.at_bp = h.at_bp BY <1>17, <1>24
  <2> QED BY <1>11, <1>15, <1>24, <1>26, <2>1 DEF HandedTwice
<1> QED BY <1>1, <1>11, <1>12, <1>27, <1>28, <1>30, <1>31, <1>34, <1>35 DEF Inv

\* A report moves to the router's queue.
LEMMA TailFacts ==
  ASSUME NEW s \in Seq(Contact), s # <<>>
  PROVE  /\ Tail(s) \in Seq(Contact) /\ Head(s) \in Contact
         /\ 1 \in DOMAIN s /\ s[1] = Head(s)
         /\ \A i \in DOMAIN Tail(s) : i + 1 \in DOMAIN s /\ Tail(s)[i] = s[i + 1] /\ i \in Nat /\ i >= 1
OBVIOUS

\* inform_router pushes the first of the contacts that are over.
LEMMA ReportPush ==
  ASSUME NEW q \in Seq(Signal), NEW rm \in Seq(Contact), rm # <<>>,
         NEW sig \in Signal, sig.type = "contact_over", sig.contact = Head(rm),
         NEW obj, NEW act, NEW t, CommandsOK(q, obj), ReportsOK(q, rm, act, t)
  PROVE  CommandsOK(Append(q, sig), obj) /\ ReportsOK(Append(q, sig), Tail(rm), act, t)
<1> DEFINE p == Append(q, sig)
           d == Head(rm)
           l == Tail(rm)
<1>1. d \in Contact /\ l \in Seq(Contact) BY TailFacts
<1>2. sig.type = "contact_over" /\ sig.contact = d OBVIOUS
<1>4. /\ \A i \in DOMAIN l : i + 1 \in DOMAIN rm /\ l[i] = rm[i + 1] /\ i \in Nat /\ i >= 1
      /\ 1 \in DOMAIN rm /\ rm[1] = d
  BY TailFacts
<1>5. IsInjective(rm) BY DEF ReportsOK
<1>6. IsInjective(l)
  <2> SUFFICES ASSUME NEW i \in DOMAIN l, NEW j \in DOMAIN l, l[i] = l[j] PROVE i = j
    BY DEF IsInjective
  <2>1. i + 1 = j + 1 BY <1>4, <1>5 DEF IsInjective
  <2>2. i \in Nat /\ j \in Nat BY <1>4
  <2> QED BY <2>1, <2>2
<1>7. ToSet(l) \subseteq ToSet(rm) /\ d \in ToSet(rm) BY <1>4 DEF ToSet
<1>8. d \notin ToSet(l)
  <2>1. ASSUME NEW i \in DOMAIN l, l[i] = d PROVE FALSE
    <3>1. i + 1 = 1 BY <1>4, <1>5, <2>1 DEF IsInjective
    <3> QED BY <1>4, <3>1
  <2> QED BY <2>1 DEF ToSet
<1>9. /\ DOMAIN p = 1..(Len(q) + 1) /\ p[Len(q) + 1] = sig
      /\ \A i \in DOMAIN q : i \in DOMAIN p /\ p[i] = q[i]
      /\ DOMAIN q = 1..Len(q) /\ Len(q) \in Nat
  BY PushFacts
<1> HIDE DEF p, d, l
<1>10. \A i \in DOMAIN p : (i \in DOMAIN q /\ p[i] = q[i]) \/ i = Len(q) + 1 BY <1>9
<1>11. CommandsOK(p, obj)
  <2>1. NewContacts(sig) = {} BY <1>2 DEF NewContacts
  <2> QED BY <1>9, <1>10, <2>1 DEF CommandsOK
<1>12. \A c \in Contact : \A i \in DOMAIN q : Reports(q, i, c) =>
         /\ To[c] <= t /\ c \notin act /\ c \notin ToSet(rm)
         /\ \A j \in DOMAIN q : Reports(q, j, c) => j = i
  BY DEF ReportsOK
<1>13. \A c \in ToSet(rm) : To[c] <= t /\ c \notin act BY DEF ReportsOK
<1>14. ASSUME NEW c \in Contact, NEW i \in DOMAIN p, Reports(p, i, c)
       PROVE  /\ To[c] <= t /\ c \notin act /\ c \notin ToSet(l)
              /\ \A j \in DOMAIN p : Reports(p, j, c) => j = i
  <2>1. CASE i \in DOMAIN q
    <3>1. Reports(q, i, c) BY <1>9, <1>14, <2>1 DEF Reports
    <3>2. c # d BY <1>7, <1>12, <2>1, <3>1
    <3>3. \A j \in DOMAIN p : Reports(p, j, c) => j \in DOMAIN q /\ Reports(q, j, c)
      BY <1>2, <1>9, <1>10, <3>2 DEF Reports
    <3> QED BY <1>7, <1>12, <2>1, <3>1, <3>3
  <2>2. CASE i = Len(q) + 1
    <3>1. c = d BY <1>2, <1>9, <1>14, <2>2 DEF Reports
    <3>2. \A j \in DOMAIN q : ~Reports(q, j, c) BY <1>7, <1>12, <3>1
    <3>3. \A j \in DOMAIN p : Reports(p, j, c) => j = Len(q) + 1 BY <1>9, <1>10, <3>2 DEF Reports
    <3> QED BY <1>7, <1>8, <1>13, <2>2, <3>1, <3>3
  <2> QED BY <1>10, <2>1, <2>2
<1>15. ReportsOK(p, l, act, t) BY <1>6, <1>7, <1>13, <1>14 DEF ReportsOK
<1> QED BY <1>11, <1>15 DEF p, l

\* The report of ended contacts keeps the invariant.
LEMMA InformRouterInv == ASSUME Inv, InformRouter PROVE Inv'
<1>1. /\ TypeOK /\ PlanInv(rt) /\ ToSet(current) \subseteq rt.active
      /\ CommandsOK(rq, rt.obj) /\ ReportsOK(rq, rem, rt.active, now)
  BY DEF Inv
<1>2. /\ cm_pc = "inform" /\ next_contact_time' = next_contact_time
      /\ now' = now /\ rt' = rt /\ current' = current /\ control' = control
      /\ link' = link /\ tx' = tx /\ gone' = gone
  BY DEF InformRouter, env
<1>3. rq \in Seq(Signal) /\ rem \in Seq(Contact) BY <1>1 DEF TypeOK
<1>4. CASE /\ rem # <<>> /\ Enqueue([type |-> "contact_over", contact |-> Head(rem)])
           /\ rem' = Tail(rem) /\ UNCHANGED <<cm_pc, cm_signal, wake_at>>
  <2>1. PICK sig : sig = [type |-> "contact_over", contact |-> Head(rem)] OBVIOUS
  <2>2. rq' = Append(rq, sig) /\ Len(rq) < QueueLength /\ rem # <<>> BY <1>4, <2>1 DEF Enqueue
  <2>7. sig \in Signal /\ sig.type = "contact_over" /\ sig.contact = Head(rem)
    BY <1>3, <2>1, <2>2, TailFacts, SignalFacts
  <2>8. CommandsOK(Append(rq, sig), rt.obj) /\ ReportsOK(Append(rq, sig), Tail(rem), rt.active, now)
    BY <1>1, <1>3, <2>2, <2>7, ReportPush
  <2>3. CommandsOK(rq', rt.obj) /\ ReportsOK(rq', rem', rt.active, now) /\ sig \in Signal
    BY <1>4, <2>2, <2>7, <2>8
  <2>4. rq' \in Seq(Signal) /\ Len(rq') <= QueueLength
    BY <1>3, <2>2, <2>3, PushFacts, PlanAssumption
  <2>5. rem' \in Seq(Contact) BY <1>3, <1>4
  <2>6. TypeOK' BY <1>1, <1>2, <1>4, <2>4, <2>5 DEF TypeOK
  <2> QED BY <1>1, <1>2, <1>4, <2>3, <2>6 DEF Inv
<1>5. CASE rem = <<>> /\ EndOfRound /\ UNCHANGED <<rq, rem>>
  <2>1. /\ cm_pc' \in {"wait", "run"} /\ cm_signal' \in {"update", "process", "unknown"}
        /\ wake_at' \in 0..Never
    BY <1>1, <1>2, <1>5, EndOfRoundFacts DEF TypeOK
  <2>2. TypeOK' BY <1>1, <1>2, <1>5, <2>1 DEF TypeOK
  <2> QED BY <1>1, <1>2, <1>5, <2>2 DEF Inv
<1> QED BY <1>4, <1>5 DEF InformRouter

\* The contact manager wakes up: a control signal or its timeout.
LEMMA ControlInv == ASSUME Inv, ReceiveControl \/ ControlTimeout PROVE Inv'
<1>1. /\ TypeOK /\ cm_pc = "wait" /\ rem = <<>> BY DEF Inv, ReceiveControl, ControlTimeout
<1>2. /\ now' = now /\ rt' = rt /\ rq' = rq /\ current' = current /\ rem' = rem
      /\ next_contact_time' = next_contact_time /\ wake_at' = wake_at /\ cm_pc' = "run"
      /\ link' = link /\ tx' = tx /\ gone' = gone
      /\ control' \in {control, "none"} /\ cm_signal' \in {control, "unknown"}
      /\ (control = "none" => cm_signal' = "unknown")
  BY DEF ReceiveControl, ControlTimeout, cm, env
<1>3. TypeOK' BY <1>1, <1>2 DEF TypeOK
<1> QED BY <1>1, <1>2, <1>3 DEF Inv

-----------------------------------------------------------------------------
\* A TX task reports on a bundle, or uses a contact that is gone.
LEMMA TxInv ==
  ASSUME NEW b \in Bundle, NEW c \in Contact, Inv, TxSend(b, c) \/ TxDrain(b, c) PROVE Inv'
<1>1. /\ TypeOK /\ PlanInv(rt) /\ CommandsOK(rq, rt.obj) /\ ReportsOK(rq, rem, rt.active, now)
  BY DEF Inv
<1>2. /\ tx' = tx \ {<<b, c>>} /\ now' = now /\ current' = current /\ rem' = rem
      /\ next_contact_time' = next_contact_time /\ wake_at' = wake_at /\ control' = control
      /\ cm_pc' = cm_pc /\ cm_signal' = cm_signal /\ link' = link /\ gone' = gone
  BY DEF TxSend, TxDrain, cm, cmctl, env
<1>3. CASE rt' = Faulty(rt, c) /\ rq' = rq
  <2>1. PlanOK(rt) BY <1>1 DEF PlanInv
  <2>2. /\ PlanOK(rt') /\ rt'.obj = rt.obj /\ rt'.active = rt.active
        /\ rt'.list = rt.list /\ rt'.node = rt.node
    BY <1>3, <2>1, FaultFacts
  <2>3. PlanInv(rt') BY <1>1, <2>2 DEF PlanInv
  <2>4. rt' \in Memory BY <2>2 DEF PlanOK
  <2>5. TypeOK' BY <1>1, <1>2, <1>3, <2>2, <2>4 DEF TypeOK
  <2> QED BY <1>2, <1>3, <2>2, <2>3, <2>5 DEF Inv
<1>4. CASE rt' = rt /\ \E y \in {"success", "failure"} : Enqueue([type |-> y, bundle |-> b])
  <2>1. PICK y \in {"success", "failure"} : Enqueue([type |-> y, bundle |-> b]) BY <1>4
  <2>2. PICK sig : sig = [type |-> y, bundle |-> b] OBVIOUS
  <2>3. sig \in Signal /\ Plain(sig) BY <2>2, SignalFacts
  <2>4. Len(rq) < QueueLength /\ rq' = Append(rq, sig) /\ rq \in Seq(Signal)
    BY <1>1, <2>1, <2>2 DEF Enqueue, TypeOK
  <2>5. CommandsOK(rq', rt.obj) /\ ReportsOK(rq', rem, rt.active, now)
    BY <1>1, <2>3, <2>4, PlainPush
  <2>6. rq' \in Seq(Signal) /\ Len(rq') <= QueueLength
    BY <2>3, <2>4, PushFacts, PlanAssumption
  <2>7. TypeOK' BY <1>1, <1>2, <1>4, <2>6 DEF TypeOK
  <2> QED BY <1>2, <1>4, <2>5, <2>7 DEF Inv
<1>5. CASE TxSend(b, c)
  <2>1. CASE rt.obj[c] # "live" \/ rt.node[c] \notin Node BY <1>3, <1>5, <2>1 DEF TxSend, Faulty
  <2>2. CASE ~(rt.obj[c] # "live" \/ rt.node[c] \notin Node) BY <1>4, <1>5, <2>2 DEF TxSend
  <2> QED BY <2>1, <2>2
<1>6. CASE TxDrain(b, c) BY <1>4, <1>6 DEF TxDrain
<1> QED BY <1>5, <1>6

\* Inv is inductive.
LEMMA NextInv == Inv /\ [Next]_vars => Inv'
<1> SUFFICES ASSUME Inv, [Next]_vars PROVE Inv' OBVIOUS
<1>1. CASE UNCHANGED vars
  <2>1. /\ now' = now /\ rt' = rt /\ rq' = rq /\ current' = current
        /\ next_contact_time' = next_contact_time /\ wake_at' = wake_at /\ control' = control
        /\ cm_pc' = cm_pc /\ cm_signal' = cm_signal /\ rem' = rem /\ link' = link
        /\ tx' = tx /\ gone' = gone
    BY <1>1 DEF vars
  <2>2. TypeOK' BY <2>1 DEF Inv, TypeOK
  <2> QED BY <2>1, <2>2 DEF Inv
<1>2. CASE Tick BY <1>2, TickInv
<1>3. CASE SendCommand BY <1>3, SendCommandInv
<1>4. CASE Bp BY <1>4, BpRouteInv, BpDropInv DEF Bp
<1>5. CASE Links BY <1>5, LinkUpInv, LinkDownInv DEF Links
<1>6. CASE Router
  BY <1>6, RouterCommandInv, RouterRouteInv, RouterContactOverInv, RouterTransmissionInv,
     RouterNewLinkInv DEF Router
<1>7. CASE ContactManager
  BY <1>7, ManageBundlesInv, ManageContactsInv, InformRouterInv, ControlInv DEF ContactManager
<1>8. CASE Tx BY <1>8, TxInv DEF Tx
<1> QED BY <1>1, <1>2, <1>3, <1>4, <1>5, <1>6, <1>7, <1>8 DEF Next, Stopped

\* The invariant always holds.
LEMMA InvHolds == Spec => []Inv
<1>1. Init => Inv BY InitInv
<1>2. Inv /\ [Next]_vars => Inv' BY NextInv
<1> QED BY <1>1, <1>2, PTL DEF Spec

-----------------------------------------------------------------------------
(***************************************************************************)
(* The theorems                                                            *)
(***************************************************************************)
\* Types, with the limits of the router's queue and of current_contacts.
THEOREM TypeCorrect == Spec => []TypeOK
<1>1. Inv => TypeOK BY DEF Inv
<1> QED BY <1>1, InvHolds, PTL

\* However commands, ends of contacts and the contact manager interleave, no pointer
\* to a contact or a node outlives it: what the mark of an active contact is for.
THEOREM PointersValid == Spec => []NoDanglingPointers
<1>1. Inv => NoDanglingPointers
  <2> SUFFICES ASSUME Inv PROVE NoDanglingPointers OBVIOUS
  <2>1. Owned(rt) /\ Listed(rt) /\ Marked(rt) /\ ToSet(current) \subseteq rt.active
    BY DEF Inv, PlanInv, PlanOK
  <2> QED BY <2>1 DEF NoDanglingPointers, Owned, Listed, OfKnownNode, Marked
<1> QED BY <1>1, InvHolds, PTL

\* The loops over the contact list may stop at the first contact that starts too late.
THEOREM ListStaysOrdered == Spec => []ListOrdered
<1>1. Inv => ListOrdered BY DEF Inv, PlanInv, PlanOK, Sorted, ListOrdered
<1> QED BY <1>1, InvHolds, PTL

\* Merging, replacing and deleting contacts keeps the schedule feasible, if the counter
\* of check_for_invalid_overlaps cannot wrap.
THEOREM ScheduleStaysFeasible == ASSUME FewContacts PROVE Spec => []ScheduleFeasible
<1>1. Inv => ScheduleFeasible
  <2> SUFFICES ASSUME Inv PROVE ScheduleFeasible OBVIOUS
  <2>1. Feasible(rt.list, rt.node) BY DEF Inv, PlanInv
  <2> QED BY <2>1 DEF Feasible, Open, ScheduleFeasible
<1> QED BY <1>1, InvHolds, PTL

\* The router learns of the end of a contact once, though the contact manager does not
\* hold cm_semaphore while it reports.
THEOREM OverOnce == Spec => []ContactOverOnce
<1>1. Inv => ContactOverOnce
  <2> SUFFICES ASSUME Inv, NEW c \in Contact
               PROVE  Cardinality({i \in DOMAIN rem : rem[i] = c})
                        + Cardinality({i \in DOMAIN rq : rq[i].type = "contact_over" /\ rq[i].contact = c})
                        <= IF c \in ToSet(current) THEN 0 ELSE 1
    BY DEF ContactOverOnce
  <2> DEFINE R == {i \in DOMAIN rem : rem[i] = c}
             Q == {i \in DOMAIN rq : rq[i].type = "contact_over" /\ rq[i].contact = c}
  <2>1. ReportsOK(rq, rem, rt.active, now) /\ ToSet(current) \subseteq rt.active BY DEF Inv
  <2>2. \A i, j \in R : i = j BY <2>1 DEF ReportsOK, IsInjective
  <2>3. \A i, j \in Q : i = j BY <2>1 DEF ReportsOK, Reports
  <2>4. R # {} => c \in ToSet(rem) /\ c \notin rt.active
    <3>1. R # {} => c \in ToSet(rem) BY DEF ToSet
    <3> QED BY <2>1, <3>1 DEF ReportsOK
  <2>5. Q # {} => c \notin ToSet(rem) /\ c \notin rt.active BY <2>1 DEF ReportsOK, Reports
  <2> HIDE DEF R, Q
  <2>6. R = {} \/ \E i : R = {i}
    <3> SUFFICES ASSUME NEW i \in R PROVE R = {i} OBVIOUS
    <3> QED BY <2>2
  <2>7. Q = {} \/ \E i : Q = {i}
    <3> SUFFICES ASSUME NEW i \in Q PROVE Q = {i} OBVIOUS
    <3> QED BY <2>3
  <2>8. /\ R = {} => Cardinality(R) = 0
        /\ R # {} => Cardinality(R) = 1
    BY <2>6, FS_EmptySet, FS_Singleton
  <2>9. /\ Q = {} => Cardinality(Q) = 0
        /\ Q # {} => Cardinality(Q) = 1
    BY <2>7, FS_EmptySet, FS_Singleton
  <2>10. R = {} \/ Q = {} BY <2>4, <2>5
  <2>11. c \in ToSet(current) => R = {} /\ Q = {} BY <2>1, <2>4, <2>5
  <2>12. Cardinality(R) + Cardinality(Q) <= IF c \in ToSet(current) THEN 0 ELSE 1
    BY <2>8, <2>9, <2>10, <2>11
  <2> QED BY <2>12 DEF R, Q
<1> QED BY <1>1, InvHolds, PTL

-----------------------------------------------------------------------------
(***************************************************************************)
(* Where the bundles are                                                   *)
(***************************************************************************)
\* The places of Places, for a memory r, what is gone g, a queue q and the commands of
\* the TX tasks t: of kind k, at v.
Carries(sig, b) == sig.type \in {"route", "success", "failure"} /\ sig.bundle = b
AtPlace(b, k, v, r, g, q, t) ==
  \/ k = "bp" /\ v = b /\ b \in r.at_bp
  \/ k = "gone" /\ v = b /\ b \in g
  \/ k = "rq" /\ v \in DOMAIN q /\ Carries(q[v], b)
  \/ k = "contact" /\ v \in Contact /\ b \in r.bundles[v]
  \/ k = "tx" /\ v \in Contact /\ <<b, v>> \in t
One(b, r, g, q, t) ==
  \E k, v : /\ AtPlace(b, k, v, r, g, q, t)
            /\ \A m, w : AtPlace(b, m, w, r, g, q, t) => m = k /\ w = v

\* A bundle in one place and in no other.
LEMMA OneIs ==
  ASSUME NEW b, NEW r, NEW g, NEW q, NEW t, NEW k, NEW v, AtPlace(b, k, v, r, g, q, t),
         \A m, w : AtPlace(b, m, w, r, g, q, t) => m = k /\ w = v
  PROVE  One(b, r, g, q, t)
BY DEF One

\* Signals that other tasks push or the router pops leave it where it is.
Aside(q, p, b) == \/ p = q
                  \/ \E sig \in Signal : p = Append(q, sig) /\ ~Carries(sig, b)
                  \/ q # <<>> /\ p = Tail(q) /\ ~Carries(Head(q), b)

\* A change of the queue that is about other bundles.
LEMMA OneAside ==
  ASSUME NEW b, NEW r, NEW g, NEW q \in Seq(Signal), NEW t, One(b, r, g, q, t),
         NEW p, Aside(q, p, b)
  PROVE  One(b, r, g, p, t)
<1>1. CASE p = q BY <1>1
<1>2. CASE \E sig \in Signal : p = Append(q, sig) /\ ~Carries(sig, b)
  <2>1. PICK sig \in Signal : p = Append(q, sig) /\ ~Carries(sig, b) BY <1>2
  <2>2. /\ DOMAIN p = 1..(Len(q) + 1) /\ p[Len(q) + 1] = sig
        /\ \A i \in DOMAIN q : i \in DOMAIN p /\ p[i] = q[i]
        /\ DOMAIN q = 1..Len(q) /\ Len(q) \in Nat
    BY <2>1, PushFacts
  <2>3. \A i : i \in DOMAIN p /\ Carries(p[i], b) <=> i \in DOMAIN q /\ Carries(q[i], b)
    BY <2>1, <2>2
  <2>4. \A k, v : AtPlace(b, k, v, r, g, p, t) <=> AtPlace(b, k, v, r, g, q, t)
    BY <2>3 DEF AtPlace
  <2> QED BY <2>4 DEF One
<1>3. CASE q # <<>> /\ p = Tail(q) /\ ~Carries(Head(q), b)
  <2>1. /\ \A i \in DOMAIN p : i + 1 \in DOMAIN q /\ p[i] = q[i + 1] /\ i \in Nat /\ i >= 1
        /\ Head(q) = q[1]
    BY <1>3, PopFacts
  <2>2. \A i \in DOMAIN q : i # 1 => i - 1 \in DOMAIN p /\ p[i - 1] = q[i] /\ i \in Nat
    BY <1>3
  <2>3. PICK k, v : /\ AtPlace(b, k, v, r, g, q, t)
                    /\ \A m, w : AtPlace(b, m, w, r, g, q, t) => m = k /\ w = v
    BY DEF One
  <2>4. CASE k = "rq"
    <3>1. v \in DOMAIN q /\ Carries(q[v], b) BY <2>3, <2>4 DEF AtPlace
    <3>2. v # 1 BY <1>3, <2>1, <3>1
    <3>3. v - 1 \in DOMAIN p /\ p[v - 1] = q[v] /\ v \in Nat BY <2>2, <3>1, <3>2
    <3>4. AtPlace(b, "rq", v - 1, r, g, p, t) BY <3>1, <3>3 DEF AtPlace
    <3>5. ASSUME NEW m, NEW w, AtPlace(b, m, w, r, g, p, t) PROVE m = "rq" /\ w = v - 1
      <4>1. CASE m = "rq" /\ w \in DOMAIN p /\ Carries(p[w], b)
        <5>1. AtPlace(b, "rq", w + 1, r, g, q, t) BY <2>1, <4>1 DEF AtPlace
        <5>2. w + 1 = v BY <2>3, <5>1
        <5>3. w \in Nat BY <2>1, <4>1
        <5> QED BY <3>3, <4>1, <5>2, <5>3
      <4>2. CASE m # "rq"
        <5>1. AtPlace(b, m, w, r, g, q, t) BY <3>5, <4>2 DEF AtPlace
        <5> QED BY <2>3, <2>4, <4>2, <5>1
      <4> QED BY <3>5, <4>1, <4>2 DEF AtPlace
    <3> QED BY <3>4, <3>5 DEF One
  <2>5. CASE k # "rq"
    <3>1. AtPlace(b, k, v, r, g, p, t) BY <2>3, <2>5 DEF AtPlace
    <3>2. ASSUME NEW m, NEW w, AtPlace(b, m, w, r, g, p, t) PROVE m = k /\ w = v
      <4>1. CASE m = "rq" /\ w \in DOMAIN p /\ Carries(p[w], b)
        <5>1. AtPlace(b, "rq", w + 1, r, g, q, t) BY <2>1, <4>1 DEF AtPlace
        <5> QED BY <2>3, <2>5, <5>1
      <4>2. CASE m # "rq"
        <5>1. AtPlace(b, m, w, r, g, q, t) BY <3>2, <4>2 DEF AtPlace
        <5> QED BY <2>3, <5>1
      <4> QED BY <3>2, <4>1, <4>2 DEF AtPlace
    <3> QED BY <3>1, <3>2 DEF One
  <2> QED BY <2>4, <2>5
<1> QED BY <1>1, <1>2, <1>3 DEF Aside

\* What happens to other bundles does not matter.
LEMMA OneOther ==
  ASSUME NEW b, NEW r, NEW g, NEW q, NEW t, One(b, r, g, q, t), NEW s, NEW h, NEW u,
         b \in s.at_bp <=> b \in r.at_bp, b \in h <=> b \in g,
         \A c \in Contact : b \in s.bundles[c] <=> b \in r.bundles[c],
         \A c \in Contact : <<b, c>> \in u <=> <<b, c>> \in t
  PROVE  One(b, s, h, q, u)
<1>1. \A k, v : AtPlace(b, k, v, s, h, q, u) <=> AtPlace(b, k, v, r, g, q, t) BY DEF AtPlace
<1> QED BY <1>1 DEF One

\* An edit gives the bundles of a contact back to the processor.
LEMMA OneEdit ==
  ASSUME NEW b, NEW r, NEW g, NEW q, NEW t, One(b, r, g, q, t), NEW s, BundlesMoved(r, s)
  PROVE  One(b, s, g, q, t)
<1>1. PICK k, v : /\ AtPlace(b, k, v, r, g, q, t)
                  /\ \A m, w : AtPlace(b, m, w, r, g, q, t) => m = k /\ w = v
  BY DEF One
<1>2. /\ b \in r.at_bp => b \in s.at_bp
      /\ \A c \in Contact : b \in s.bundles[c] => b \in r.bundles[c]
      /\ \A c \in Contact : b \in r.bundles[c] /\ b \notin s.bundles[c] => b \in s.at_bp
      /\ b \in s.at_bp => \/ b \in r.at_bp
                          \/ \E c \in Contact : b \in r.bundles[c] /\ b \notin s.bundles[c]
  BY DEF BundlesMoved
<1>3. CASE k = "contact" /\ b \notin s.bundles[v]
  <2>1. v \in Contact /\ b \in r.bundles[v] BY <1>1, <1>3 DEF AtPlace
  <2>2. AtPlace(b, "bp", b, s, g, q, t) BY <1>2, <1>3, <2>1 DEF AtPlace
  <2>3. ASSUME NEW m, NEW w, AtPlace(b, m, w, s, g, q, t) PROVE m = "bp" /\ w = b
    <3>1. CASE m = "bp" BY <2>3, <3>1 DEF AtPlace
    <3>2. CASE m # "bp"
      <4>1. AtPlace(b, m, w, r, g, q, t) BY <1>2, <2>3, <3>2 DEF AtPlace
      <4>2. m = "contact" /\ w = v BY <1>1, <1>3, <4>1
      <4> QED BY <1>3, <2>3, <4>2 DEF AtPlace
    <3> QED BY <3>1, <3>2
  <2> QED BY <2>2, <2>3 DEF One
<1>4. CASE ~(k = "contact" /\ b \notin s.bundles[v])
  <2>1. AtPlace(b, k, v, s, g, q, t) BY <1>1, <1>2, <1>4 DEF AtPlace
  <2>2. ASSUME NEW m, NEW w, AtPlace(b, m, w, s, g, q, t) PROVE m = k /\ w = v
    <3>1. CASE m = "bp" /\ b \notin r.at_bp
      <4>1. PICK c \in Contact : b \in r.bundles[c] /\ b \notin s.bundles[c]
        BY <1>2, <2>2, <3>1 DEF AtPlace
      <4>2. AtPlace(b, "contact", c, r, g, q, t) BY <4>1 DEF AtPlace
      <4> QED BY <1>1, <1>4, <4>1, <4>2
    <3>2. CASE ~(m = "bp" /\ b \notin r.at_bp)
      <4>1. AtPlace(b, m, w, r, g, q, t) BY <1>2, <2>2, <3>2 DEF AtPlace
      <4> QED BY <1>1, <4>1
    <3> QED BY <3>1, <3>2
  <2> QED BY <2>1, <2>2 DEF One
<1> QED BY <1>3, <1>4

\* hand_over_contact_bundles moves the bundles of a contact to its TX task.
LEMMA OneHanded ==
  ASSUME NEW b \in Bundle, NEW r \in Memory, NEW g, NEW q, NEW t, One(b, r, g, q, t),
         NEW cs, NEW s, Handed(r, cs, s), NEW u, u = t \cup HandedOver(r, cs)
  PROVE  One(b, s, g, q, u)
<1>1. PICK k, v : /\ AtPlace(b, k, v, r, g, q, t)
                  /\ \A m, w : AtPlace(b, m, w, r, g, q, t) => m = k /\ w = v
  BY DEF One
<1>2. /\ s.at_bp = r.at_bp
      /\ \A c \in Contact : b \in s.bundles[c] <=> b \in r.bundles[c] /\ c \notin HandOver(cs)
      /\ \A c \in Contact : <<b, c>> \in u <=> \/ <<b, c>> \in t
                                               \/ b \in r.bundles[c] /\ c \in HandOver(cs)
  <2>1. \A c \in Contact : <<b, c>> \in HandedOver(r, cs) <=> b \in r.bundles[c] /\ c \in HandOver(cs)
    BY DEF HandedOver
  <2>2. \A c \in Contact : s.bundles[c] = IF c \in HandOver(cs) THEN {} ELSE r.bundles[c]
    BY DEF Handed
  <2>3. s.at_bp = r.at_bp BY DEF Handed
  <2> HIDE DEF HandedOver, HandOver
  <2> QED BY <2>1, <2>2, <2>3
<1>3. CASE k = "contact" /\ v \in HandOver(cs)
  <2>1. v \in Contact /\ b \in r.bundles[v] BY <1>1, <1>3 DEF AtPlace
  <2>2. AtPlace(b, "tx", v, s, g, q, u) BY <1>2, <1>3, <2>1 DEF AtPlace
  <2>3. ASSUME NEW m, NEW w, AtPlace(b, m, w, s, g, q, u) PROVE m = "tx" /\ w = v
    <3>1. CASE m = "tx" /\ <<b, w>> \notin t
      <4>1. w \in Contact /\ b \in r.bundles[w] BY <1>2, <2>3, <3>1 DEF AtPlace
      <4>2. AtPlace(b, "contact", w, r, g, q, t) BY <4>1 DEF AtPlace
      <4> QED BY <1>1, <3>1, <4>2
    <3>2. CASE ~(m = "tx" /\ <<b, w>> \notin t)
      <4>1. AtPlace(b, m, w, r, g, q, t) BY <1>2, <2>3, <3>2 DEF AtPlace
      <4>2. m = "contact" /\ w = v BY <1>1, <1>3, <4>1
      <4> QED BY <1>2, <1>3, <2>3, <4>2 DEF AtPlace
    <3> QED BY <3>1, <3>2
  <2>4. \A m, w : AtPlace(b, m, w, s, g, q, u) => m = "tx" /\ w = v BY <2>3
  <2> QED BY <2>2, <2>4, OneIs
<1>4. CASE ~(k = "contact" /\ v \in HandOver(cs))
  <2>1. AtPlace(b, k, v, s, g, q, u) BY <1>1, <1>2, <1>4 DEF AtPlace
  <2>2. ASSUME NEW m, NEW w, AtPlace(b, m, w, s, g, q, u) PROVE m = k /\ w = v
    <3>1. CASE m = "tx" /\ <<b, w>> \notin t
      <4>1. w \in Contact /\ b \in r.bundles[w] /\ w \in HandOver(cs)
        BY <1>2, <2>2, <3>1 DEF AtPlace
      <4>2. AtPlace(b, "contact", w, r, g, q, t) BY <4>1 DEF AtPlace
      <4> QED BY <1>1, <1>4, <4>1, <4>2
    <3>2. CASE ~(m = "tx" /\ <<b, w>> \notin t)
      <4>1. AtPlace(b, m, w, r, g, q, t) BY <1>2, <2>2, <3>2 DEF AtPlace
      <4> QED BY <1>1, <4>1
    <3> QED BY <3>1, <3>2
  <2> QED BY <2>1, <2>2 DEF One
<1> QED BY <1>3, <1>4

\* A bundle that is handled leaves its only place ...
Nowhere(b, r, g, q, t) == \A k, v : ~AtPlace(b, k, v, r, g, q, t)

\* A bundle leaves the router's queue.
LEMMA LeaveQueue ==
  ASSUME NEW b, NEW r, NEW g, NEW q \in Seq(Signal), NEW t, One(b, r, g, q, t),
         q # <<>>, Carries(Head(q), b)
  PROVE  Nowhere(b, r, g, Tail(q), t)
<1>1. PICK p : p = Tail(q) OBVIOUS
<1>2. /\ \A i \in DOMAIN p : i + 1 \in DOMAIN q /\ p[i] = q[i + 1] /\ i \in Nat /\ i >= 1
      /\ Head(q) = q[1] /\ 1 \in DOMAIN q
  BY <1>1, PopFacts
<1>3. AtPlace(b, "rq", 1, r, g, q, t) BY <1>2 DEF AtPlace
<1>4. \A k, v : AtPlace(b, k, v, r, g, q, t) => k = "rq" /\ v = 1 BY <1>3 DEF One
<1>5. ASSUME NEW k, NEW v, AtPlace(b, k, v, r, g, p, t) PROVE FALSE
  <2>1. CASE k = "rq"
    <3>1. v \in DOMAIN p /\ Carries(p[v], b) BY <1>5, <2>1 DEF AtPlace
    <3>2. AtPlace(b, "rq", v + 1, r, g, q, t) BY <1>2, <3>1 DEF AtPlace
    <3>3. v + 1 = 1 /\ v \in Nat /\ v >= 1 BY <1>2, <1>4, <3>1, <3>2
    <3> QED BY <3>3
  <2>2. CASE k # "rq"
    <3>1. AtPlace(b, k, v, r, g, q, t) BY <1>5, <2>2 DEF AtPlace
    <3> QED BY <1>4, <2>2, <3>1
  <2> QED BY <2>1, <2>2
<1> QED BY <1>1, <1>5 DEF Nowhere

\* A bundle leaves the bundle processor.
LEMMA LeaveBp ==
  ASSUME NEW b, NEW r, NEW g, NEW q, NEW t, One(b, r, g, q, t), b \in r.at_bp,
         NEW s, s.bundles = r.bundles, s.at_bp = r.at_bp \ {b}
  PROVE  Nowhere(b, s, g, q, t)
<1>1. AtPlace(b, "bp", b, r, g, q, t) BY DEF AtPlace
<1>2. \A k, v : AtPlace(b, k, v, r, g, q, t) => k = "bp" BY <1>1 DEF One
<1>3. \A k, v : AtPlace(b, k, v, s, g, q, t) => k # "bp" /\ AtPlace(b, k, v, r, g, q, t) BY DEF AtPlace
<1> QED BY <1>2, <1>3 DEF Nowhere

\* A bundle leaves a TX task.
LEMMA LeaveTx ==
  ASSUME NEW b, NEW r, NEW g, NEW q, NEW t, One(b, r, g, q, t),
         NEW c \in Contact, <<b, c>> \in t
  PROVE  Nowhere(b, r, g, q, t \ {<<b, c>>})
<1>1. AtPlace(b, "tx", c, r, g, q, t) BY DEF AtPlace
<1>2. \A k, v : AtPlace(b, k, v, r, g, q, t) => k = "tx" /\ v = c BY <1>1 DEF One
<1>3. PICK u : u = t \ {<<b, c>>} OBVIOUS
<1>4. \A v : <<b, v>> \in u => <<b, v>> \in t /\ v # c BY <1>3
<1>5. \A k, v : AtPlace(b, k, v, r, g, q, u) => AtPlace(b, k, v, r, g, q, t) /\ (k = "tx" => v # c)
  BY <1>4 DEF AtPlace
<1> QED BY <1>2, <1>3, <1>5 DEF Nowhere

\* ... and gets to another.
LEMMA EnterQueue ==
  ASSUME NEW b, NEW r, NEW g, NEW q \in Seq(Signal), NEW t, Nowhere(b, r, g, q, t),
         NEW sig \in Signal, Carries(sig, b)
  PROVE  One(b, r, g, Append(q, sig), t)
<1>1. PICK p : p = Append(q, sig) OBVIOUS
<1>2. /\ DOMAIN p = 1..(Len(q) + 1) /\ p[Len(q) + 1] = sig
      /\ \A i \in DOMAIN q : i \in DOMAIN p /\ p[i] = q[i]
      /\ DOMAIN q = 1..Len(q) /\ Len(q) \in Nat
  BY <1>1, PushFacts
<1>3. \A i \in DOMAIN p : (i \in DOMAIN q /\ p[i] = q[i]) \/ i = Len(q) + 1 BY <1>2
<1>4. PICK n : n = Len(q) + 1 OBVIOUS
<1>5. AtPlace(b, "rq", n, r, g, p, t) BY <1>2, <1>4 DEF AtPlace
<1>6. ASSUME NEW m, NEW w, AtPlace(b, m, w, r, g, p, t) PROVE m = "rq" /\ w = n
  <2>1. ~AtPlace(b, m, w, r, g, q, t) BY DEF Nowhere
  <2> QED BY <1>3, <1>4, <1>6, <2>1 DEF AtPlace
<1>7. One(b, r, g, p, t) BY <1>5, <1>6, OneIs
<1> QED BY <1>1, <1>7

\* A bundle is gone.
LEMMA EnterGone ==
  ASSUME NEW b, NEW r, NEW g, NEW q, NEW t, Nowhere(b, r, g, q, t) PROVE One(b, r, g \cup {b}, q, t)
<1>1. PICK h : h = g \cup {b} OBVIOUS
<1>2. AtPlace(b, "gone", b, r, h, q, t) BY <1>1 DEF AtPlace
<1>3. ASSUME NEW m, NEW w, AtPlace(b, m, w, r, h, q, t) PROVE m = "gone" /\ w = b
  <2>1. ~AtPlace(b, m, w, r, g, q, t) BY DEF Nowhere
  <2> QED BY <1>3, <2>1 DEF AtPlace
<1>4. One(b, r, h, q, t) BY <1>2, <1>3, OneIs
<1> QED BY <1>1, <1>4

\* A bundle is put on a contact.
LEMMA EnterContact ==
  ASSUME NEW b, NEW r \in Memory, NEW g, NEW q, NEW t, Nowhere(b, r, g, q, t),
         NEW c \in Contact, NEW s, s.at_bp = r.at_bp,
         s.bundles = [r.bundles EXCEPT ![c] = @ \cup {b}]
  PROVE  One(b, s, g, q, t)
<1>1. r.bundles \in [Contact -> SUBSET Bundle] BY DEF Memory
<1>2. b \in s.bundles[c] /\ \A d \in Contact : d # c => s.bundles[d] = r.bundles[d] BY <1>1
<1>3. AtPlace(b, "contact", c, s, g, q, t) BY <1>2 DEF AtPlace
<1>4. ASSUME NEW m, NEW w, AtPlace(b, m, w, s, g, q, t) PROVE m = "contact" /\ w = c
  <2>1. ~AtPlace(b, m, w, r, g, q, t) BY DEF Nowhere
  <2> QED BY <1>2, <1>4, <2>1 DEF AtPlace
<1> QED BY <1>3, <1>4, OneIs

\* While the program runs, every bundle is in one place.
OnePlace == ~Crashed => \A b \in Bundle : One(b, rt, gone, rq, tx)

Kept(b) == One(b, rt, gone, rq, tx)'

\* The steps that leave the bundle where it is, or that push or pop another signal.
LEMMA KeptAside ==
  ASSUME TypeOK, NEW b \in Bundle, One(b, rt, gone, rq, tx), Aside(rq, rq', b),
         b \in rt'.at_bp <=> b \in rt.at_bp, b \in gone' <=> b \in gone,
         \A c \in Contact : b \in rt'.bundles[c] <=> b \in rt.bundles[c],
         \A c \in Contact : <<b, c>> \in tx' <=> <<b, c>> \in tx
  PROVE  Kept(b)
<1>1. rq \in Seq(Signal) BY DEF TypeOK
<1>2. PICK p : p = rq' OBVIOUS
<1>3. One(b, rt, gone, p, tx) BY <1>1, <1>2, OneAside
<1>4. PICK s, h, u : s = rt' /\ h = gone' /\ u = tx' OBVIOUS
<1>5. One(b, s, h, p, u) BY <1>3, <1>4, OneOther
<1> QED BY <1>2, <1>4, <1>5 DEF Kept

\* The clock moves no bundle.
LEMMA TickKept ==
  ASSUME Inv, NEW b \in Bundle, One(b, rt, gone, rq, tx),
         Tick \/ ReceiveControl \/ ControlTimeout \/ UNCHANGED vars \/ \E n \in Node : LinkDown(n)
  PROVE  Kept(b)
<1>1. rt' = rt /\ gone' = gone /\ rq' = rq /\ tx' = tx
  BY DEF Tick, ReceiveControl, ControlTimeout, vars, LinkDown
<1> QED BY <1>1 DEF Kept

\* A command in the queue moves no bundle.
LEMMA SendCommandKept ==
  ASSUME Inv, NEW b \in Bundle, One(b, rt, gone, rq, tx), SendCommand PROVE Kept(b)
<1>9. PICK cmd \in Commands :
        LET new == IF cmd.type \in {"add", "update"} THEN cmd.contacts ELSE {}
        IN /\ Enqueue([type |-> "command", cmd |-> cmd])
           /\ rt' = [rt EXCEPT !.obj = [c \in Contact |->
                        IF c \in new THEN "in_command" ELSE @[c]]]
  BY DEF SendCommand
<1>1. /\ rq' = Append(rq, [type |-> "command", cmd |-> cmd])
      /\ \E o : rt' = [rt EXCEPT !.obj = o]
  BY <1>9 DEF Enqueue
<1>2. TypeOK /\ rt \in Memory BY DEF Inv, TypeOK
<1>3. rt'.at_bp = rt.at_bp /\ rt'.bundles = rt.bundles BY <1>1, <1>2 DEF Memory
<1>4. gone' = gone /\ tx' = tx BY DEF SendCommand
<1>5. PICK sig : sig = [type |-> "command", cmd |-> cmd] OBVIOUS
<1>6. sig \in Signal /\ sig.type = "command" BY <1>5, PlanAssumption, SignalFacts
<1>7. ~Carries(sig, b) BY <1>6 DEF Carries
<1>8. Aside(rq, rq', b) BY <1>1, <1>5, <1>6, <1>7 DEF Aside
<1> QED BY <1>2, <1>3, <1>4, <1>8, KeptAside

\* A bundle goes from the processor to the router's queue.
LEMMA BpRouteKept ==
  ASSUME Inv, NEW b \in Bundle, One(b, rt, gone, rq, tx), NEW a \in Bundle, BpRoute(a)
  PROVE  Kept(b)
<1>1. PICK sig : sig = [type |-> "route", bundle |-> a] OBVIOUS
<1>2. /\ a \in rt.at_bp /\ rq' = Append(rq, sig) /\ rt' = [rt EXCEPT !.at_bp = @ \ {a}]
      /\ tx' = tx /\ gone' = gone
  BY <1>1 DEF BpRoute, Enqueue
<1>3. sig \in Signal /\ sig.type = "route" /\ sig.bundle = a BY <1>1, SignalFacts
<1>4. TypeOK /\ rt \in Memory /\ rq \in Seq(Signal) BY DEF Inv, TypeOK
<1>5. rt'.at_bp = rt.at_bp \ {a} /\ rt'.bundles = rt.bundles BY <1>2, <1>4 DEF Memory
<1>6. CASE b = a
  <2>1. PICK s : s = rt' OBVIOUS
  <2>2. Nowhere(b, s, gone, rq, tx) BY <1>2, <1>5, <1>6, <2>1, LeaveBp
  <2>3. Carries(sig, b) BY <1>3, <1>6 DEF Carries
  <2>4. One(b, s, gone, Append(rq, sig), tx) BY <1>3, <1>4, <2>2, <2>3, EnterQueue
  <2> QED BY <1>2, <2>1, <2>4 DEF Kept
<1>7. CASE b # a
  <2>1. ~Carries(sig, b) BY <1>3, <1>7 DEF Carries
  <2>2. Aside(rq, rq', b) BY <1>2, <1>3, <2>1 DEF Aside
  <2> QED BY <1>2, <1>4, <1>5, <1>7, <2>2, KeptAside
<1> QED BY <1>6, <1>7

\* A bundle is dropped by the processor.
LEMMA BpDropKept ==
  ASSUME Inv, NEW b \in Bundle, One(b, rt, gone, rq, tx), NEW a \in Bundle, BpDrop(a)
  PROVE  Kept(b)
<1>1. /\ a \in rt.at_bp /\ rt' = [rt EXCEPT !.at_bp = @ \ {a}] /\ gone' = gone \cup {a}
      /\ rq' = rq /\ tx' = tx
  BY DEF BpDrop
<1>2. TypeOK /\ rt \in Memory BY DEF Inv, TypeOK
<1>3. rt'.at_bp = rt.at_bp \ {a} /\ rt'.bundles = rt.bundles BY <1>1, <1>2 DEF Memory
<1>4. CASE b = a
  <2>1. PICK s : s = rt' OBVIOUS
  <2>2. Nowhere(b, s, gone, rq, tx) BY <1>1, <1>3, <1>4, <2>1, LeaveBp
  <2>3. One(b, s, gone \cup {b}, rq, tx) BY <2>2, EnterGone
  <2> QED BY <1>1, <1>4, <2>1, <2>3 DEF Kept
<1>5. CASE b # a
  <2>1. Aside(rq, rq', b) BY <1>1 DEF Aside
  <2> QED BY <1>1, <1>2, <1>3, <1>5, <2>1, KeptAside
<1> QED BY <1>4, <1>5

\* A link that comes up moves no bundle.
LEMMA LinkUpKept ==
  ASSUME Inv, NEW b \in Bundle, One(b, rt, gone, rq, tx), NEW n \in Node, LinkUp(n)
  PROVE  Kept(b)
<1>1. PICK sig : sig = [type |-> "new_link"] OBVIOUS
<1>2. rq' = Append(rq, sig) /\ rt' = rt /\ tx' = tx /\ gone' = gone
  BY <1>1 DEF LinkUp, Enqueue
<1>3. sig \in Signal /\ ~Carries(sig, b) BY <1>1, SignalFacts DEF Carries
<1>4. Aside(rq, rq', b) BY <1>2, <1>3 DEF Aside
<1>5. TypeOK BY DEF Inv
<1> QED BY <1>2, <1>4, <1>5, KeptAside

\* The router's steps: a bundle whose signal it takes is scheduled, or goes.
LEMMA EditKept ==
  ASSUME TypeOK, NEW b \in Bundle, One(b, rt, gone, rq, tx), BundlesMoved(rt, rt'),
         rq # <<>>, rq' = Tail(rq), ~Carries(Head(rq), b), gone' = gone, tx' = tx
  PROVE  Kept(b)
<1>1. PICK s : s = rt' OBVIOUS
<1>2. One(b, s, gone, rq, tx) BY <1>1, OneEdit
<1>3. PICK p : p = rq' OBVIOUS
<1>4. rq \in Seq(Signal) /\ Aside(rq, p, b) BY <1>3 DEF TypeOK, Aside
<1>5. One(b, s, gone, p, tx) BY <1>2, <1>4, OneAside
<1> QED BY <1>1, <1>3, <1>5 DEF Kept

\* Commands and ended contacts move the bundles of contacts they take to the
\* processor.
LEMMA RouterEditKept ==
  ASSUME Inv, NEW b \in Bundle, One(b, rt, gone, rq, tx), RouterCommand \/ RouterContactOver,
         ~Crashed'
  PROVE  Kept(b)
<1>1. TypeOK /\ PlanInv(rt) /\ ReportsOK(rq, rem, rt.active, now) BY DEF Inv
<1>2. rq \in Seq(Signal) BY <1>1 DEF TypeOK
<1>3. CASE RouterCommand
  <2>1. rq # <<>> /\ rq' = Tail(rq) /\ Head(rq).type = "command" /\ gone' = gone /\ tx' = tx
    BY <1>3 DEF RouterCommand, NextSignal
  <2>2. \E D : Edited(rt, rt', D) BY <1>3, RouterCommandFacts
  <2>3. BundlesMoved(rt, rt') BY <2>2 DEF Edited, Edit
  <2>4. ~Carries(Head(rq), b) BY <2>1 DEF Carries
  <2> QED BY <1>1, <2>1, <2>3, <2>4, EditKept
<1>4. CASE RouterContactOver
  <2>1. /\ rq # <<>> /\ rq' = Tail(rq) /\ Head(rq).type = "contact_over" /\ gone' = gone
        /\ tx' = tx /\ rt' = routing_table_contact_passed(rt, Head(rq).contact)
    BY <1>4 DEF RouterContactOver, NextSignal
  <2>2. Head(rq) \in Signal /\ Head(rq) = rq[1] /\ 1 \in DOMAIN rq BY <1>2, <2>1, PopFacts
  <2>3. PICK c \in Contact : c = Head(rq).contact BY <2>1, <2>2 DEF Signal
  <2>4. c \notin rt.active BY <1>1, <2>1, <2>2, <2>3 DEF ReportsOK, Reports
  <2>5. PlanOK(rt) BY <1>1 DEF PlanInv
  <2>6. rt' = Faulty(rt, c) \/ Edited(rt, rt', {}) BY <2>1, <2>3, <2>4, <2>5, PassedFacts
  <2>7. rt' # Faulty(rt, c) BY <2>5, FaultFacts DEF Crashed
  <2>8. BundlesMoved(rt, rt') BY <2>6, <2>7 DEF Edited, Edit
  <2>9. ~Carries(Head(rq), b) BY <2>1 DEF Carries
  <2> QED BY <1>1, <2>1, <2>8, <2>9, EditKept
<1> QED BY <1>3, <1>4

\* The other signals of the router keep each bundle in one place.
LEMMA RouterOtherKept ==
  ASSUME Inv, NEW b \in Bundle, One(b, rt, gone, rq, tx),
         RouterRoute \/ RouterTransmission \/ RouterNewLink
  PROVE  Kept(b)
<1>1. TypeOK /\ rt \in Memory /\ rq \in Seq(Signal) BY DEF Inv, TypeOK
<1>2. /\ rq # <<>> /\ rq' = Tail(rq) /\ tx' = tx
      /\ Head(rq).type \in {"route", "success", "failure", "new_link"}
  BY DEF RouterRoute, RouterTransmission, RouterNewLink, NextSignal
<1>3. /\ rt' = rt \/ \E c \in Contact : rt' = [rt EXCEPT !.bundles[c] = @ \cup {Head(rq).bundle}]
      /\ gone' = gone \/ gone' = gone \cup {Head(rq).bundle}
      /\ Head(rq).type = "new_link" => rt' = rt /\ gone' = gone
      /\ Head(rq).type # "new_link" =>
           \/ rt' = rt /\ gone' = gone \cup {Head(rq).bundle}
           \/ /\ \E c \in Contact : rt' = [rt EXCEPT !.bundles[c] = @ \cup {Head(rq).bundle}]
              /\ gone' = gone
  <2>1. ToSet(rt.list) \subseteq Contact BY <1>1 DEF Memory, ToSet
  <2> QED BY <2>1 DEF RouterRoute, RouterTransmission, RouterNewLink, NextSignal, router_get_first_route
<1>4. CASE ~Carries(Head(rq), b)
  <2>1. Aside(rq, rq', b) BY <1>2, <1>4 DEF Aside
  <2>2. CASE Head(rq).type = "new_link" BY <1>1, <1>2, <1>3, <2>1, <2>2, KeptAside
  <2>3. CASE Head(rq).type # "new_link"
    <3>1. Head(rq).bundle # b BY <1>2, <1>4, <2>3 DEF Carries
    <3>2. b \in gone' <=> b \in gone BY <1>3, <3>1
    <3>3. CASE rt' = rt BY <1>1, <1>2, <2>1, <3>2, <3>3, KeptAside
    <3>4. CASE \E c \in Contact : rt' = [rt EXCEPT !.bundles[c] = @ \cup {Head(rq).bundle}]
      <4>1. PICK c \in Contact : rt' = [rt EXCEPT !.bundles[c] = @ \cup {Head(rq).bundle}] BY <3>4
      <4>2. rt'.at_bp = rt.at_bp /\ rt'.bundles = [rt.bundles EXCEPT ![c] = @ \cup {Head(rq).bundle}]
        BY <1>1, <4>1 DEF Memory
      <4>3. \A d \in Contact : b \in rt'.bundles[d] <=> b \in rt.bundles[d]
        BY <1>1, <3>1, <4>2 DEF Memory
      <4> QED BY <1>1, <1>2, <2>1, <3>2, <4>2, <4>3, KeptAside
    <3> QED BY <1>3, <3>3, <3>4
  <2> QED BY <2>2, <2>3
<1>5. CASE Carries(Head(rq), b)
  <2>1. Head(rq).bundle = b /\ Head(rq).type # "new_link" BY <1>5 DEF Carries
  <2>2. PICK p : p = Tail(rq) OBVIOUS
  <2>3. Nowhere(b, rt, gone, p, tx) BY <1>1, <1>2, <1>5, <2>2, LeaveQueue
  <2>4. CASE rt' = rt /\ gone' = gone \cup {b}
    <3>1. One(b, rt, gone \cup {b}, p, tx) BY <2>3, EnterGone
    <3> QED BY <1>2, <2>2, <2>4, <3>1 DEF Kept
  <2>5. CASE gone' = gone /\ \E c \in Contact : rt' = [rt EXCEPT !.bundles[c] = @ \cup {b}]
    <3>1. PICK c \in Contact : rt' = [rt EXCEPT !.bundles[c] = @ \cup {b}] BY <2>5
    <3>2. PICK s : s = rt' OBVIOUS
    <3>3. s.at_bp = rt.at_bp /\ s.bundles = [rt.bundles EXCEPT ![c] = @ \cup {b}]
      BY <1>1, <3>1, <3>2 DEF Memory
    <3>4. One(b, s, gone, p, tx) BY <1>1, <2>3, <3>3, EnterContact
    <3> QED BY <1>2, <2>2, <2>5, <3>2, <3>4 DEF Kept
  <2> QED BY <1>3, <2>1, <2>4, <2>5
<1> QED BY <1>4, <1>5

\* The contact manager's steps hand bundles over to the TX tasks.
LEMMA ManagerKept ==
  ASSUME Inv, NEW b \in Bundle, One(b, rt, gone, rq, tx),
         ManageBundles \/ ManageContacts \/ InformRouter
  PROVE  Kept(b)
<1>1. TypeOK /\ rt \in Memory /\ rq \in Seq(Signal) /\ rem \in Seq(Contact) BY DEF Inv, TypeOK
<1>2. PICK s, u : s = rt' /\ u = tx' OBVIOUS
<1>3. CASE ManageBundles
  <2>1. /\ s = hand_over_contact_bundles(rt, current) /\ u = tx \cup HandedOver(rt, current)
        /\ rq' = rq /\ gone' = gone
    BY <1>2, <1>3 DEF ManageBundles
  <2>2. Handed(rt, current, s) BY <1>1, <2>1, HandFacts
  <2>3. One(b, s, gone, rq, u) BY <1>1, <2>1, <2>2, OneHanded
  <2> QED BY <1>2, <2>1, <2>3 DEF Kept
<1>4. CASE ManageContacts
  <2>1. HandedTwice BY <1>4, ManageContactsInv
  <2>2. PICK before, h, started, added :
          /\ Handed(rt, before, h)
          /\ started \in Memory /\ started.bundles = h.bundles /\ started.at_bp = h.at_bp
          /\ Handed(started, added, s)
          /\ u = tx \cup HandedOver(rt, before) \cup HandedOver(started, added)
    BY <1>2, <2>1 DEF HandedTwice
  <2>3. PICK t : t = tx \cup HandedOver(rt, before) OBVIOUS
  <2>4. One(b, h, gone, rq, t) BY <1>1, <2>2, <2>3, OneHanded
  <2>5. One(b, started, gone, rq, t) BY <2>2, <2>4, OneOther
  <2>6. One(b, s, gone, rq, u) BY <2>2, <2>3, <2>5, OneHanded
  <2>7. rq' = rq /\ gone' = gone BY <1>4 DEF ManageContacts
  <2> QED BY <1>2, <2>6, <2>7 DEF Kept
<1>5. CASE InformRouter
  <2>1. rt' = rt /\ tx' = tx /\ gone' = gone BY <1>5 DEF InformRouter
  <2>2. Aside(rq, rq', b)
    <3>1. CASE rem # <<>> /\ Enqueue([type |-> "contact_over", contact |-> Head(rem)])
      <4>1. PICK sig : sig = [type |-> "contact_over", contact |-> Head(rem)] OBVIOUS
      <4>2. Head(rem) \in Contact BY <1>1, <3>1, TailFacts
      <4>3. sig \in Signal /\ sig.type = "contact_over" BY <4>1, <4>2, SignalFacts
      <4>4. rq' = Append(rq, sig) BY <3>1, <4>1 DEF Enqueue
      <4> QED BY <4>3, <4>4 DEF Aside, Carries
    <3>2. CASE rq' = rq BY <3>2 DEF Aside
    <3> QED BY <1>5, <3>1, <3>2 DEF InformRouter
  <2> QED BY <1>1, <2>1, <2>2, KeptAside
<1> QED BY <1>3, <1>4, <1>5

\* The TX task sends a bundle or gives it back.
LEMMA TxKept ==
  ASSUME Inv, NEW b \in Bundle, One(b, rt, gone, rq, tx), ~Crashed',
         NEW a \in Bundle, NEW c \in Contact, TxSend(a, c) \/ TxDrain(a, c)
  PROVE  Kept(b)
<1>1. TypeOK /\ PlanOK(rt) /\ rq \in Seq(Signal) BY DEF Inv, TypeOK, PlanInv
<1>2. <<a, c>> \in tx /\ tx' = tx \ {<<a, c>>} /\ gone' = gone BY DEF TxSend, TxDrain
<1>3. rt' # Faulty(rt, c) BY <1>1, FaultFacts DEF Crashed
<1>4. rt' = rt /\ \E y \in {"success", "failure"} : Enqueue([type |-> y, bundle |-> a])
  BY <1>3 DEF TxSend, TxDrain, Faulty
<1>5. PICK y \in {"success", "failure"} : rq' = Append(rq, [type |-> y, bundle |-> a])
  BY <1>4 DEF Enqueue
<1>6. PICK sig : sig = [type |-> y, bundle |-> a] OBVIOUS
<1>7. sig \in Signal /\ sig.type = y /\ sig.bundle = a BY <1>6, SignalFacts
<1>8. CASE b = a
  <2>1. PICK u : u = tx' OBVIOUS
  <2>2. Nowhere(b, rt, gone, rq, tx \ {<<b, c>>}) BY <1>2, <1>8, LeaveTx
  <2>3. Carries(sig, b) BY <1>7, <1>8 DEF Carries
  <2>4. One(b, rt, gone, Append(rq, sig), u)
    <3>1. Nowhere(b, rt, gone, rq, u) BY <1>2, <1>8, <2>1, <2>2
    <3> QED BY <1>1, <1>7, <2>3, <3>1, EnterQueue
  <2> QED BY <1>2, <1>4, <1>5, <1>6, <2>1, <2>4 DEF Kept
<1>9. CASE b # a
  <2>1. ~Carries(sig, b) BY <1>7, <1>9 DEF Carries
  <2>2. Aside(rq, rq', b) BY <1>5, <1>6, <1>7, <2>1 DEF Aside
  <2>3. \A d \in Contact : <<b, d>> \in tx' <=> <<b, d>> \in tx BY <1>2, <1>9
  <2> QED BY <1>1, <1>2, <1>4, <2>2, <2>3, KeptAside
<1> QED BY <1>8, <1>9

\* Every step keeps each bundle in one place.
LEMMA NextPlace == Inv /\ OnePlace /\ [Next]_vars => OnePlace'
<1> SUFFICES ASSUME Inv, OnePlace, [Next]_vars, ~Crashed', NEW b \in Bundle PROVE Kept(b)
  BY DEF OnePlace, Kept
<1>1. ~Crashed
  <2> SUFFICES ASSUME Crashed PROVE FALSE OBVIOUS
  <2>1. UNCHANGED vars BY DEF Next, Stopped
  <2>2. rt' = rt BY <2>1 DEF vars
  <2> QED BY <2>2 DEF Crashed
<1>2. One(b, rt, gone, rq, tx) BY <1>1 DEF OnePlace
<1>3. CASE Tick \/ UNCHANGED vars BY <1>2, <1>3, TickKept
<1>4. CASE SendCommand BY <1>2, <1>4, SendCommandKept
<1>5. CASE Bp BY <1>2, <1>5, BpRouteKept, BpDropKept DEF Bp
<1>6. CASE Links
  <2>1. PICK n \in Node : LinkUp(n) \/ LinkDown(n) BY <1>6 DEF Links
  <2>2. CASE LinkUp(n) BY <1>2, <2>2, LinkUpKept
  <2>3. CASE LinkDown(n) BY <1>2, <2>3, TickKept
  <2> QED BY <2>1, <2>2, <2>3
<1>7. CASE Router BY <1>2, <1>7, RouterEditKept, RouterOtherKept DEF Router
<1>8. CASE ContactManager
  <2>1. CASE ManageBundles \/ ManageContacts \/ InformRouter BY <1>2, <2>1, ManagerKept
  <2>2. CASE ReceiveControl \/ ControlTimeout BY <1>2, <2>2, TickKept
  <2> QED BY <1>8, <2>1, <2>2 DEF ContactManager
<1>9. CASE Tx BY <1>2, <1>9, TxKept DEF Tx
<1> QED BY <1>3, <1>4, <1>5, <1>6, <1>7, <1>8, <1>9 DEF Next, Stopped

\* The places of NoBundleLost are those of One.
LEMMA PlacesAre ==
  ASSUME TypeOK, NEW b \in Bundle, One(b, rt, gone, rq, tx) PROVE \E x : Places(b) = {x}
<1>1. PICK k, v : /\ AtPlace(b, k, v, rt, gone, rq, tx)
                  /\ \A m, w : AtPlace(b, m, w, rt, gone, rq, tx) => m = k /\ w = v
  BY DEF One
<1>2. ASSUME NEW m, NEW w, AtPlace(b, m, w, rt, gone, rq, tx) PROVE <<m, w>> \in Places(b)
  <2>1. CASE m = "bp" /\ w = b /\ b \in rt.at_bp BY <2>1 DEF Places
  <2>2. CASE m = "gone" /\ w = b /\ b \in gone BY <2>2 DEF Places
  <2>3. CASE m = "rq" /\ w \in DOMAIN rq /\ Carries(rq[w], b) BY <2>3 DEF Places, Carries
  <2>4. CASE m = "contact" /\ w \in Contact /\ b \in rt.bundles[w] BY <2>4 DEF Places
  <2>5. CASE m = "tx" /\ w \in Contact /\ <<b, w>> \in tx
    <3>1. PICK p \in tx : p[1] = b /\ p[2] = w BY <2>5
    <3> QED BY <2>5, <3>1 DEF Places
  <2> QED BY <1>2, <2>1, <2>2, <2>3, <2>4, <2>5 DEF AtPlace
<1>3. ASSUME NEW y \in Places(b)
      PROVE  \E m, w : y = <<m, w>> /\ AtPlace(b, m, w, rt, gone, rq, tx)
  <2>1. CASE y = <<"bp", b>> /\ b \in rt.at_bp BY <2>1 DEF AtPlace
  <2>2. CASE y = <<"gone", b>> /\ b \in gone BY <2>2 DEF AtPlace
  <2>3. CASE \E i \in DOMAIN rq : y = <<"rq", i>> /\ Carries(rq[i], b) BY <2>3 DEF AtPlace
  <2>4. CASE \E c \in Contact : y = <<"contact", c>> /\ b \in rt.bundles[c] BY <2>4 DEF AtPlace
  <2>5. CASE \E p \in tx : y = <<"tx", p[2]>> /\ p[1] = b
    <3>1. PICK p \in tx : y = <<"tx", p[2]>> /\ p[1] = b BY <2>5
    <3>2. p \in Bundle \X Contact BY DEF TypeOK
    <3>3. p = <<b, p[2]>> /\ p[2] \in Contact BY <3>1, <3>2
    <3> QED BY <3>1, <3>3 DEF AtPlace
  <2> QED BY <1>3, <2>1, <2>2, <2>3, <2>4, <2>5 DEF Places, Carries
<1>4. <<k, v>> \in Places(b) BY <1>1, <1>2
<1>5. \A y \in Places(b) : y = <<k, v>> BY <1>1, <1>3
<1>6. Places(b) = {<<k, v>>} BY <1>4, <1>5
<1> QED BY <1>6

\* Until a stale pointer is used, no interleaving of commands, ends of contacts, link
\* changes and scheduling loses or duplicates a bundle, or leaves it on a contact
\* that was freed or taken from its node.
THEOREM BundlesKept == Spec => []NoBundleLost
<1>1. Init => OnePlace
  <2> SUFFICES ASSUME Init, NEW b \in Bundle PROVE One(b, rt, gone, rq, tx) BY DEF OnePlace
  <2>1. /\ b \in rt.at_bp /\ gone = {} /\ rq = <<>> /\ tx = {}
        /\ \A c \in Contact : rt.bundles[c] = {}
    BY DEF Init
  <2>2. \A k, v : AtPlace(b, k, v, rt, gone, rq, tx) <=> k = "bp" /\ v = b BY <2>1 DEF AtPlace
  <2> QED BY <2>2 DEF One
<1>2. Inv /\ OnePlace => NoBundleLost
  <2> SUFFICES ASSUME Inv, OnePlace, ~Crashed, NEW b \in Bundle
               PROVE  /\ Cardinality(Places(b)) = 1
                      /\ \A c \in Contact : b \in rt.bundles[c] =>
                           rt.obj[c] = "live" /\ rt.node[c] \in rt.known
    BY DEF NoBundleLost
  <2>1. TypeOK /\ One(b, rt, gone, rq, tx) BY DEF Inv, OnePlace
  <2>2. PICK x : Places(b) = {x} BY <2>1, PlacesAre
  <2>3. Cardinality(Places(b)) = 1 BY <2>2, FS_Singleton
  <2>4. Owned(rt) /\ Loaded(rt) /\ rt.known \subseteq Node BY DEF Inv, PlanInv, PlanOK, Memory
  <2>5. \A c \in Contact : b \in rt.bundles[c] => OfKnownNode(rt, c) BY <2>4 DEF Loaded
  <2> QED BY <2>3, <2>4, <2>5 DEF OfKnownNode, Owned
<1> QED BY <1>1, <1>2, NextPlace, InvHolds, PTL DEF Spec
=============================================================================
