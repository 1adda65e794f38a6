-------------------------- MODULE ReassemblyProofs --------------------------
(***************************************************************************)
(* Reassembly delivers what was sent, once, and forgets no fragment: the   *)
(* invariants of Reassembly for ADUs of any length and any number of       *)
(* fragments, cut, overlapped, repeated and reordered in any way.          *)
(***************************************************************************)
EXTENDS Reassembly, SeqLemmas

Known == [adu : Adu, offset : Positions, length : 1..AduLength]
Intact == [p \in Positions |-> p]
Parcel == [adu : Adu, payload : {Intact}]

\* The slots of a list hold the fragments of held, those of fs with one ADU in
\* one slot.
SlotsOK(list, fs, held) ==
  /\ \A j \in DOMAIN list : list[j] # <<>> /\ IsInjective(list[j]) /\ ToSet(list[j]) \subseteq held
  /\ \A i \in held : \E j \in DOMAIN list : i \in ToSet(list[j])
  /\ \A j, h \in DOMAIN list : \A x \in ToSet(list[j]), y \in ToSet(list[h]) :
       fs[x].adu = fs[y].adu <=> j = h

Inv == /\ arrivals \in 0..MaxArrivals /\ info \in Seq(Fragment) /\ Len(info) = arrivals
       /\ stored \subseteq 1..arrivals
       /\ reassembly_list \in Seq(Seq(1..arrivals))
       /\ SlotsOK(reassembly_list, info, stored)
       /\ known \subseteq Known
       /\ delivered \in Seq(Parcel)
       /\ \A j \in DOMAIN delivered : Whole(delivered[j].adu) \in known
       /\ AduOnce

\* Sequences and what they contain.
LEMMA SlotFacts ==
  ASSUME NEW S, NEW s \in Seq(S), s # <<>>
  PROVE  s[1] \in ToSet(s) /\ 1 \in DOMAIN s /\ ToSet(s) \subseteq S
BY DEF ToSet

-----------------------------------------------------------------------------
(***************************************************************************)
(* The payload                                                             *)
(***************************************************************************)
\* Between two rounds of the copy the bytes before pos are in place.
CopyState == {a \in [pos : 0..AduLength, payload : [Positions -> 0..AduLength]] :
                \A p \in Positions : p < a.pos => a.payload[p] = p}

\* One round of the copy: a fragment that begins at or before pos_in_bundle moves
\* it to its end, unless it is there already.
LEMMA CopyFacts ==
  ASSUME NEW a \in CopyState, NEW f \in Fragment, f.offset <= a.pos
  PROVE  /\ Copy(a, f) \in CopyState
         /\ Copy(a, f).pos >= a.pos /\ Copy(a, f).pos >= f.offset + f.length
<1>1. AduLength \in Nat BY FragmentAssumption
<1>2. a.pos \in 0..AduLength /\ a.payload \in [Positions -> 0..AduLength]
      /\ \A p \in Positions : p < a.pos => a.payload[p] = p BY DEF CopyState
<1>3. f.offset \in Nat /\ f.length \in Nat /\ f.offset + f.length <= AduLength
  BY <1>1, FragmentAssumption
<1> DEFINE skip == a.pos - f.offset
<1>4. skip \in Nat /\ f.offset + skip = a.pos BY <1>1, <1>2, <1>3
<1>5. CASE skip >= f.length
  <2>1. Copy(a, f) = a BY <1>5 DEF Copy
  <2>2. a.pos >= f.offset + f.length BY <1>1, <1>2, <1>3, <1>5
  <2> QED BY <1>1, <1>2, <2>1, <2>2
<1>6. CASE ~(skip >= f.length)
  <2> DEFINE n == LesserOf(f.length - skip, AduLength - a.pos)
             q == Filled(a.payload, a.pos, a.pos + n, f, skip)
  <2>1. n = f.length - skip /\ n \in Nat /\ a.pos + n = f.offset + f.length /\ a.pos + n <= AduLength
    BY <1>1, <1>2, <1>3, <1>4, <1>6 DEF LesserOf
  <2>2. Copy(a, f) = [pos |-> a.pos + n, payload |-> q] BY <1>6 DEF Copy
  <2>3. \A p \in Positions : q[p] = IF p >= a.pos /\ p < a.pos + n
                                    THEN f.offset + skip + (p - a.pos) ELSE a.payload[p]
    BY DEF Filled
  <2>4. \A p \in Positions : p >= a.pos => f.offset + skip + (p - a.pos) = p
    BY <1>1, <1>2, <1>3, <1>4 DEF Positions
  <2>5. \A p \in Positions : p \in 0..AduLength BY <1>1 DEF Positions
  <2>6. q \in [Positions -> 0..AduLength]
    <3>1. q = [p \in Positions |-> q[p]] BY DEF Filled
    <3>2. \A p \in Positions : q[p] \in 0..AduLength
      <4> HIDE DEF q, skip, n
      <4> QED BY <1>2, <2>3, <2>4, <2>5
    <3> HIDE DEF q
    <3> QED BY <3>1, <3>2
  <2>7. \A p \in Positions : p < a.pos + n => q[p] = p
    <3> SUFFICES ASSUME NEW p \in Positions, p < a.pos + n PROVE q[p] = p OBVIOUS
    <3>1. p \in Nat BY <1>1 DEF Positions
    <3>2. p < a.pos \/ p >= a.pos BY <1>2, <3>1
    <3> HIDE DEF q, skip, n
    <3> QED BY <1>2, <2>3, <2>4, <3>1, <3>2
  <2>8. a.pos + n \in 0..AduLength BY <1>1, <1>2, <2>1
  <2>9. [pos |-> a.pos + n, payload |-> q] \in CopyState
    <3> HIDE DEF q, n
    <3> QED BY <2>6, <2>7, <2>8 DEF CopyState
  <2>10. a.pos + n >= a.pos BY <1>2, <2>1
  <2> HIDE DEF q, n
  <2> QED BY <1>1, <1>3, <2>1, <2>2, <2>8, <2>9, <2>10
<1> QED BY <1>5, <1>6

\* If the check found no gap before the end of the ADU, the copy yields its bytes.
\* Where the check went back to the end of a nested fragment, the copy did not.
LEMMA PayloadRight ==
  ASSUME NEW fs \in Seq(Fragment), NEW slot \in Seq(1..Len(fs)), CanReassemble(slot, fs)
  PROVE  Payload(slot, fs) = Intact
<1> DEFINE Blank == [pos |-> 0, payload |-> [p \in Positions |-> Uninitialised]]
           Is(f) == f = [n \in 0..Len(slot) |-> IF n = 0 THEN Blank
                                                ELSE Copy(f[n - 1], fs[slot[n]])]
           after == CHOOSE f : Is(f)
<1>1. Payload(slot, fs) = after[Len(slot)].payload BY DEF Payload
<1>2. PICK N \in Nat : N = Len(slot) OBVIOUS
<1>3. \A n \in 1..N : fs[slot[n]] \in Fragment BY <1>2
<1>4. AduLength \in Nat /\ AduLength > 0 BY FragmentAssumption
<1>5. PICK m \in 1..N : /\ EndOf(slot, m, fs) >= AduLength
                        /\ \A h \in 1..m : fs[slot[h]].offset <= EndOf(slot, h - 1, fs)
  BY <1>2 DEF CanReassemble
<1>6. Blank \in CopyState BY <1>4 DEF CopyState, Uninitialised, Positions
<1>7. \A f \in Fragment : f.offset \in 0..AduLength /\ f.length \in Nat BY <1>4, FragmentAssumption
<1>8. ASSUME NEW n \in 0..N PROVE EndOf(slot, n, fs) \in Nat
  <2>1. CASE n = 0 BY <2>1 DEF EndOf
  <2>2. CASE n # 0
    <3>1. n \in 1..N BY <2>2
    <3>2. PICK g \in Fragment : g = fs[slot[n]] BY <1>3, <3>1
    <3>3. g.offset \in Nat /\ g.length \in Nat BY <1>4, <1>7
    <3>4. EndOf(slot, n, fs) = g.offset + g.length BY <2>2, <3>2 DEF EndOf
    <3> QED BY <3>3, <3>4
  <2> QED BY <2>1, <2>2
\* The loop, with a round for a fragment behind a gap left out: there is none.
<1> DEFINE G == [x \in (1..N) \X CopyState |->
                   IF fs[slot[x[1]]].offset <= x[2].pos THEN Copy(x[2], fs[slot[x[1]]]) ELSE x[2]]
<1>9. G \in [(1..N) \X CopyState -> CopyState]
  <2>1. \A x \in (1..N) \X CopyState : fs[slot[x[1]]] \in Fragment /\ x[2] \in CopyState BY <1>3
  <2>2. \A x \in (1..N) \X CopyState :
          (IF fs[slot[x[1]]].offset <= x[2].pos THEN Copy(x[2], fs[slot[x[1]]]) ELSE x[2]) \in CopyState
    BY <2>1, CopyFacts
  <2> QED BY <2>2
<1> HIDE DEF Blank
<1>10. PICK f \in [0..N -> CopyState] : IsRun(f, N, Blank, G)
  <2> HIDE DEF G
  <2> QED BY <1>6, <1>9, RunExists
<1>11. f[0] = Blank /\ \A n \in 1..N :
         f[n] = IF fs[slot[n]].offset <= f[n - 1].pos THEN Copy(f[n - 1], fs[slot[n]]) ELSE f[n - 1]
  <2>1. \A n \in 1..N : n - 1 \in 0..N OBVIOUS
  <2>2. \A n \in 1..N : <<n, f[n - 1]>> \in (1..N) \X CopyState BY <2>1
  <2> QED BY <1>10, <2>2 DEF IsRun
<1>12. f[0].pos = 0 BY <1>11 DEF Blank
\* Up to m the position is at or behind the one of the check; from m on it is at the end.
<1> DEFINE T == {n \in Nat : n <= N => IF n <= m THEN f[n].pos >= EndOf(slot, n, fs)
                                       ELSE f[n].pos = AduLength}
<1>13. 0 \in T BY <1>12 DEF EndOf
<1>14. \A n \in 0..N : f[n] \in CopyState /\ f[n].pos \in 0..AduLength BY <1>10 DEF CopyState
<1>15. f[m].pos >= EndOf(slot, m, fs) => f[m].pos = AduLength
  <2>1. m \in 0..N OBVIOUS
  <2>2. EndOf(slot, m, fs) \in Nat BY <1>8, <2>1
  <2> QED BY <1>4, <1>5, <1>14, <2>1, <2>2
<1>16. ASSUME NEW n \in Nat, n \in T PROVE n + 1 \in T
  <2> SUFFICES ASSUME n + 1 <= N
               PROVE  IF n + 1 <= m THEN f[n + 1].pos >= EndOf(slot, n + 1, fs)
                      ELSE f[n + 1].pos = AduLength
    OBVIOUS
  <2>1. n \in 0..N /\ n + 1 \in 1..N /\ (n + 1) - 1 = n BY <1>2
  <2> DEFINE g == fs[slot[n + 1]]
  <2>2. g \in Fragment /\ g.offset \in 0..AduLength /\ g.length \in Nat BY <1>3, <1>7, <2>1
  <2>3. f[n] \in CopyState /\ f[n].pos \in 0..AduLength BY <1>14, <2>1
  <2>4. f[n + 1] = IF g.offset <= f[n].pos THEN Copy(f[n], g) ELSE f[n] BY <1>11, <2>1
  <2>5. CASE n + 1 <= m
    <3>1. n + 1 \in 1..m /\ n <= m /\ n <= N BY <1>2, <2>5
    <3>2. f[n].pos >= EndOf(slot, n, fs) BY <1>16, <3>1
    <3>3. g.offset <= EndOf(slot, n, fs) BY <1>5, <2>1, <3>1
    <3>4. EndOf(slot, n, fs) \in Nat BY <1>8, <2>1
    <3>5. g.offset <= f[n].pos BY <1>4, <2>2, <2>3, <3>2, <3>3, <3>4
    <3>6. Copy(f[n], g).pos >= g.offset + g.length
      <4> HIDE DEF g
      <4> QED BY <2>2, <2>3, <3>5, CopyFacts
    <3>7. EndOf(slot, n + 1, fs) = g.offset + g.length BY DEF EndOf
    <3> QED BY <2>4, <2>5, <3>5, <3>6, <3>7
  <2>6. CASE ~(n + 1 <= m)
    <3>1. f[n].pos = AduLength
      <4>1. n <= N BY <2>1
      <4>2. CASE n = m
        <5>1. f[n].pos >= EndOf(slot, n, fs) BY <1>16, <4>1, <4>2
        <5> QED BY <1>15, <4>2, <5>1
      <4>3. CASE n # m
        <5>1. ~(n <= m) BY <1>2, <2>6, <4>3
        <5> QED BY <1>16, <4>1, <5>1
      <4> QED BY <4>2, <4>3
    <3>2. g.offset <= f[n].pos BY <1>4, <2>2, <3>1
    <3>3. Copy(f[n], g) \in CopyState /\ Copy(f[n], g).pos >= f[n].pos
      <4> HIDE DEF g
      <4> QED BY <2>2, <2>3, <3>2, CopyFacts
    <3>4. Copy(f[n], g).pos \in 0..AduLength BY <3>3 DEF CopyState
    <3>5. Copy(f[n], g).pos = AduLength BY <1>4, <3>1, <3>3, <3>4
    <3> QED BY <2>4, <2>6, <3>2, <3>5
  <2> QED BY <2>5, <2>6
<1>17. Nat \subseteq T
  <2> HIDE DEF T
  <2> QED BY <1>13, <1>16, NatSet
<1>18. \A n \in 1..N : fs[slot[n]].offset <= f[n - 1].pos
  <2> SUFFICES ASSUME NEW n \in 1..N PROVE fs[slot[n]].offset <= f[n - 1].pos OBVIOUS
  <2>1. n - 1 \in Nat /\ n - 1 \in 0..N /\ n - 1 <= N OBVIOUS
  <2>2. IF n - 1 <= m THEN f[n - 1].pos >= EndOf(slot, n - 1, fs) ELSE f[n - 1].pos = AduLength
    BY <1>17, <2>1
  <2>3. fs[slot[n]].offset \in 0..AduLength BY <1>3, <1>7
  <2>4. f[n - 1].pos \in 0..AduLength BY <1>14, <2>1
  <2>5. CASE n <= m
    <3>1. fs[slot[n]].offset <= EndOf(slot, n - 1, fs) /\ n - 1 <= m BY <1>5, <2>5
    <3>2. EndOf(slot, n - 1, fs) \in Nat BY <1>8, <2>1
    <3> QED BY <1>4, <2>2, <2>3, <2>4, <3>1, <3>2
  <2>6. CASE ~(n <= m)
    <3>1. f[n - 1].pos = AduLength
      <4>1. CASE n - 1 = m BY <1>15, <2>2, <4>1
      <4>2. CASE n - 1 # m
        <5>1. ~(n - 1 <= m) BY <2>6, <4>2
        <5> QED BY <2>2, <5>1
      <4> QED BY <4>1, <4>2
    <3> QED BY <1>4, <2>3, <3>1
  <2> QED BY <2>5, <2>6
<1>19. f[N].pos = AduLength
  <2>1. N \in Nat /\ N <= N /\ N \in T BY <1>17
  <2>2. CASE N = m BY <1>15, <2>1, <2>2
  <2>3. CASE N # m
    <3>1. ~(N <= m) BY <2>3
    <3> QED BY <2>1, <3>1
  <2> QED BY <2>2, <2>3
<1>20. Is(f)
  <2>1. \A n \in 0..N : f[n] = IF n = 0 THEN Blank ELSE Copy(f[n - 1], fs[slot[n]])
    <3>1. \A n \in 0..N : n = 0 \/ n \in 1..N OBVIOUS
    <3> QED BY <1>11, <1>18, <3>1
  <2>2. f = [n \in 0..N |-> f[n]] OBVIOUS
  <2> QED BY <1>2, <2>1, <2>2
\* Another function of that kind is the same one.
<1>21. Is(after)
  <2> HIDE DEF Is
  <2> QED BY <1>20
<1>22. \A n \in 0..N : after[n] = IF n = 0 THEN Blank ELSE Copy(after[n - 1], fs[slot[n]])
  BY <1>2, <1>21
<1> HIDE DEF T, G, after, Is
<1> DEFINE E == {n \in Nat : n <= N => after[n] = f[n]}
<1>23. 0 \in E BY <1>11, <1>22
<1>24. ASSUME NEW n \in Nat, n \in E PROVE n + 1 \in E
  <2> SUFFICES ASSUME n + 1 <= N PROVE after[n + 1] = f[n + 1] OBVIOUS
  <2>1. n + 1 \in 1..N /\ n + 1 \in 0..N /\ n + 1 # 0 /\ (n + 1) - 1 = n /\ n <= N BY <1>2
  <2>2. after[n + 1] = Copy(after[n], fs[slot[n + 1]]) BY <1>22, <2>1
  <2>3. f[n + 1] = Copy(f[n], fs[slot[n + 1]]) BY <1>11, <1>18, <2>1
  <2>4. after[n] = f[n] BY <1>24, <2>1
  <2> QED BY <2>2, <2>3, <2>4
<1>25. Nat \subseteq E
  <2> HIDE DEF E
  <2> QED BY <1>23, <1>24, NatSet
<1>26. after[N] = f[N] BY <1>2, <1>25
<1>27. f[N] \in CopyState BY <1>14
<1>28. f[N].payload = Intact
  <2>1. f[N].payload \in [Positions -> 0..AduLength] BY <1>27 DEF CopyState
  <2>2. \A p \in Positions : p < AduLength BY <1>4 DEF Positions
  <2>3. \A p \in Positions : f[N].payload[p] = p BY <1>19, <1>27, <2>2 DEF CopyState
  <2> QED BY <2>1, <2>3 DEF Intact
<1> QED BY <1>1, <1>2, <1>26, <1>28

-----------------------------------------------------------------------------
(***************************************************************************)
(* The slots                                                               *)
(***************************************************************************)
Added(fs, slot, id, r) == r \in Seq(1..Len(fs)) /\ r # <<>> /\ Joined(slot, id, r)

\* add_to_reassembly_bundle_list adds the fragment at some place.
LEMMA AddFacts ==
  ASSUME NEW fs \in Seq(Fragment), NEW slot \in Seq(1..Len(fs)), NEW id \in 1..Len(fs)
  PROVE  Added(fs, slot, id, add_to_reassembly_bundle_list(slot, id, fs))
<1> DEFINE off == fs[id].offset
           o(h) == fs[slot[h]].offset
           Here(j) == /\ \A h \in 1..(j - 1) : o(h) <= off
                      /\ j <= Len(slot) => o(j) > off
           place == CHOOSE j \in 1..(Len(slot) + 1) : Here(j)
<1>1. Len(slot) \in Nat /\ \A h \in 1..Len(slot) : fs[slot[h]] \in Fragment OBVIOUS
<1>2. \A f \in Fragment : f.offset \in Nat BY FragmentAssumption
<1>3. off \in Nat /\ \A h \in 1..Len(slot) : o(h) \in Nat BY <1>1, <1>2
<1> DEFINE T == {j \in 1..(Len(slot) + 1) : j = Len(slot) + 1 \/ o(j) > off}
<1>4. PICK j \in T : \A h \in T : j <= h
  <2>1. T \in SUBSET Nat /\ Len(slot) + 1 \in T BY <1>1
  <2> HIDE DEF T
  <2> QED BY <2>1, LeastNat
<1>5. j \in 1..(Len(slot) + 1) /\ Here(j)
  <2>1. j \in 1..(Len(slot) + 1) OBVIOUS
  <2>2. ASSUME NEW h \in 1..(j - 1) PROVE o(h) <= off
    <3>1. h \in 1..Len(slot) /\ h < j /\ ~(j <= h) BY <1>1, <2>1
    <3>2. ~(o(h) > off) BY <1>1, <1>4, <3>1
    <3> QED BY <1>3, <3>1, <3>2
  <2>3. j <= Len(slot) => o(j) > off BY <1>1, <2>1
  <2> QED BY <2>1, <2>2, <2>3
<1> HIDE DEF Here
<1>6. place \in 1..(Len(slot) + 1) BY <1>5
<1>7. add_to_reassembly_bundle_list(slot, id, fs) = InsertAt(slot, place, id)
  BY DEF add_to_reassembly_bundle_list, Here
<1> HIDE DEF place
<1>8. PICK r \in Seq(1..Len(fs)) : r = InsertAt(slot, place, id) /\ InsertIs(slot, place, id, r)
  BY <1>6, InsertFacts
<1>9. Joined(slot, id, r) BY <1>6, <1>8, InsertSet
<1>10. r # <<>> BY <1>1, <1>8 DEF InsertIs
<1> QED BY <1>7, <1>8, <1>9, <1>10 DEF Added

\* The list with one more fragment, of the ADU adu, in slot j.
Entered(list, fs, held, j, adu) ==
  /\ list \in Seq(Seq(1..Len(fs))) /\ SlotsOK(list, fs, held)
  /\ j \in DOMAIN list /\ fs[list[j][1]].adu = adu

\* bundle_attempt_reassembly puts a fragment into the slot of its ADU.
LEMMA SlotFound ==
  ASSUME NEW fs \in Seq(Fragment), NEW n \in Nat, Len(fs) = n + 1,
         NEW list \in Seq(Seq(1..n)), NEW held \in SUBSET (1..n), SlotsOK(list, fs, held),
         NEW j \in DOMAIN list, fs[list[j][1]].adu = fs[n + 1].adu
  PROVE  Entered([list EXCEPT ![j] = add_to_reassembly_bundle_list(@, n + 1, fs)],
                 fs, held \cup {n + 1}, j, fs[n + 1].adu)
<1>1. PICK r : r = add_to_reassembly_bundle_list(list[j], n + 1, fs) OBVIOUS
<1>2. PICK new : new = [list EXCEPT ![j] = r] OBVIOUS
<1>3. list[j] \in Seq(1..n) /\ n + 1 \in 1..Len(fs) OBVIOUS
<1>4. \A h \in DOMAIN list : list[h] \in Seq(1..n) /\ ToSet(list[h]) \subseteq 1..n
                             /\ list[h] # <<>> /\ list[h][1] \in ToSet(list[h])
  <2> TAKE h \in DOMAIN list
  <2>1. list[h] \in Seq(1..n) /\ list[h] # <<>> BY DEF SlotsOK
  <2> QED BY <2>1, SlotFacts
<1>5. Seq(1..n) \subseteq Seq(1..(n + 1)) OBVIOUS
<1>6. r \in Seq(1..(n + 1)) /\ r # <<>> /\ ToSet(r) = ToSet(list[j]) \cup {n + 1} /\ IsInjective(r)
  <2>1. list[j] \in Seq(1..Len(fs)) BY <1>3, <1>5
  <2>2. n + 1 \notin ToSet(list[j]) /\ IsInjective(list[j]) BY <1>4 DEF SlotsOK
  <2>3. Added(fs, list[j], n + 1, r) BY <1>1, <1>3, <2>1, AddFacts
  <2> QED BY <2>2, <2>3 DEF Added, Joined
<1>7. /\ new \in Seq(Seq(1..(n + 1))) /\ DOMAIN new = DOMAIN list
      /\ \A h \in DOMAIN list : new[h] = IF h = j THEN r ELSE list[h]
  <2>1. list \in Seq(Seq(1..(n + 1))) BY <1>5
  <2> QED BY <1>2, <1>6, <2>1
<1>8. \A x \in ToSet(list[j]) : fs[x].adu = fs[n + 1].adu BY <1>4 DEF SlotsOK
<1>9. ASSUME NEW g \in DOMAIN list, NEW h \in DOMAIN list, NEW x \in ToSet(new[g]), NEW y \in ToSet(new[h])
      PROVE  fs[x].adu = fs[y].adu <=> g = h
  <2>1. x \in ToSet(list[g]) \/ (g = j /\ x = n + 1) BY <1>6, <1>7
  <2>2. y \in ToSet(list[h]) \/ (h = j /\ y = n + 1) BY <1>6, <1>7
  <2>3. list[j][1] \in ToSet(list[j]) BY <1>4
  <2>4. \A a, b \in DOMAIN list : \A u \in ToSet(list[a]), v \in ToSet(list[b]) :
          fs[u].adu = fs[v].adu <=> a = b BY DEF SlotsOK
  <2>5. PICK u \in ToSet(list[g]) : fs[x].adu = fs[u].adu BY <1>8, <2>1, <2>3
  <2>6. PICK v \in ToSet(list[h]) : fs[y].adu = fs[v].adu BY <1>8, <2>2, <2>3
  <2> QED BY <2>4, <2>5, <2>6
<1>10. SlotsOK(new, fs, held \cup {n + 1})
  <2>1. \A h \in DOMAIN new : new[h] # <<>> /\ IsInjective(new[h]) /\ ToSet(new[h]) \subseteq held \cup {n + 1}
    BY <1>4, <1>6, <1>7 DEF SlotsOK
  <2>2. \A i \in held \cup {n + 1} : \E h \in DOMAIN new : i \in ToSet(new[h])
    BY <1>6, <1>7 DEF SlotsOK
  <2>3. \A g, h \in DOMAIN new : \A x \in ToSet(new[g]), y \in ToSet(new[h]) :
          fs[x].adu = fs[y].adu <=> g = h BY <1>7, <1>9
  <2> QED BY <2>1, <2>2, <2>3 DEF SlotsOK
<1>11. fs[new[j][1]].adu = fs[n + 1].adu
  <2>1. r[1] \in ToSet(r) BY <1>6, SlotFacts
  <2> QED BY <1>6, <1>7, <1>8, <2>1
<1> QED BY <1>1, <1>2, <1>7, <1>10, <1>11 DEF Entered

\* bundle_attempt_reassembly appends a slot for the first fragment of an ADU.
LEMMA SlotAppended ==
  ASSUME NEW fs \in Seq(Fragment), NEW n \in Nat, Len(fs) = n + 1,
         NEW list \in Seq(Seq(1..n)), NEW held \in SUBSET (1..n), SlotsOK(list, fs, held),
         \A h \in DOMAIN list : fs[list[h][1]].adu # fs[n + 1].adu
  PROVE  Entered(Append(list, <<n + 1>>), fs, held \cup {n + 1}, Len(list) + 1, fs[n + 1].adu)
<1>1. PICK new : new = Append(list, <<n + 1>>) OBVIOUS
<1>2. PICK r : r = <<n + 1>> OBVIOUS
<1>3. r \in Seq(1..(n + 1)) /\ r # <<>> /\ ToSet(r) = {n + 1} /\ r[1] = n + 1 /\ IsInjective(r)
  BY <1>2 DEF ToSet, IsInjective
<1>4. \A h \in DOMAIN list : list[h] \in Seq(1..n) /\ ToSet(list[h]) \subseteq 1..n
                             /\ list[h] # <<>> /\ list[h][1] \in ToSet(list[h])
  <2> TAKE h \in DOMAIN list
  <2>1. list[h] \in Seq(1..n) /\ list[h] # <<>> BY DEF SlotsOK
  <2> QED BY <2>1, SlotFacts
<1>5. PICK m \in Nat : m = Len(list) OBVIOUS
<1>6. /\ new \in Seq(Seq(1..(n + 1))) /\ DOMAIN list = 1..m /\ DOMAIN new = 1..(m + 1)
      /\ new[m + 1] = r /\ \A h \in 1..m : new[h] = list[h]
  <2>1. Seq(1..n) \subseteq Seq(1..(n + 1)) OBVIOUS
  <2>2. list \in Seq(Seq(1..(n + 1))) BY <2>1
  <2> QED BY <1>1, <1>2, <1>3, <1>5, <2>2
<1>7. \A h \in 1..(m + 1) : h \in 1..m \/ h = m + 1 OBVIOUS
<1>8. m + 1 \in 1..(m + 1) /\ m + 1 \notin 1..m OBVIOUS
<1>9. \A h \in DOMAIN list : \A x \in ToSet(list[h]) : fs[x].adu # fs[n + 1].adu
  <2>1. \A h \in DOMAIN list : \A x \in ToSet(list[h]) : fs[x].adu = fs[list[h][1]].adu
    BY <1>4 DEF SlotsOK
  <2> QED BY <2>1
<1>10. ASSUME NEW g \in DOMAIN new, NEW h \in DOMAIN new, NEW x \in ToSet(new[g]), NEW y \in ToSet(new[h])
       PROVE  fs[x].adu = fs[y].adu <=> g = h
  <2>1. \/ g \in DOMAIN list /\ x \in ToSet(list[g]) /\ g # m + 1
        \/ g = m + 1 /\ x = n + 1 BY <1>3, <1>6, <1>7, <1>8
  <2>2. \/ h \in DOMAIN list /\ y \in ToSet(list[h]) /\ h # m + 1
        \/ h = m + 1 /\ y = n + 1 BY <1>3, <1>6, <1>7, <1>8
  <2>3. \A a, b \in DOMAIN list : \A u \in ToSet(list[a]), v \in ToSet(list[b]) :
          fs[u].adu = fs[v].adu <=> a = b BY DEF SlotsOK
  <2> QED BY <1>9, <2>1, <2>2, <2>3
<1>11. SlotsOK(new, fs, held \cup {n + 1})
  <2>1. \A h \in DOMAIN new : new[h] # <<>> /\ IsInjective(new[h]) /\ ToSet(new[h]) \subseteq held \cup {n + 1}
    BY <1>3, <1>6, <1>7 DEF SlotsOK
  <2>2. \A i \in held \cup {n + 1} : \E h \in DOMAIN new : i \in ToSet(new[h])
    <3>1. \A h \in 1..m : h \in DOMAIN new BY <1>6
    <3>2. m + 1 \in DOMAIN new /\ n + 1 \in ToSet(new[m + 1]) BY <1>3, <1>6, <1>8
    <3> QED BY <1>6, <3>1, <3>2 DEF SlotsOK
  <2> QED BY <1>10, <2>1, <2>2 DEF SlotsOK
<1> QED BY <1>1, <1>3, <1>5, <1>6, <1>8, <1>11 DEF Entered

\* try_reassemble takes a slot with all its fragments away.
LEMMA SlotRemoved ==
  ASSUME NEW fs \in Seq(Fragment), NEW list, NEW held, NEW j, NEW adu, Entered(list, fs, held, j, adu)
  PROVE  /\ RemoveAt(list, j) \in Seq(Seq(1..Len(fs)))
         /\ SlotsOK(RemoveAt(list, j), fs, held \ ToSet(list[j]))
<1>1. PICK L \in Nat : L = Len(list) BY DEF Entered
<1>2. list \in Seq(Seq(1..Len(fs))) /\ j \in 1..L BY <1>1 DEF Entered
<1>3. PICK r \in Seq(Seq(1..Len(fs))) :
        /\ r = RemoveAt(list, j) /\ Len(r) = L - 1
        /\ \A h \in 1..(L - 1) : r[h] = IF h < j THEN list[h] ELSE list[h + 1]
  BY <1>1, <1>2, RemoveFacts
<1>4. DOMAIN r = 1..(L - 1) /\ DOMAIN list = 1..L
  <2>1. DOMAIN r = 1..Len(r) /\ DOMAIN list = 1..Len(list) BY <1>2
  <2> QED BY <1>1, <1>3, <2>1
<1> DEFINE was == [h \in 1..(L - 1) |-> IF h < j THEN h ELSE h + 1]
<1>5. \A h \in 1..(L - 1) : r[h] = list[was[h]] BY <1>3
<1>6. \A h \in 1..(L - 1) : was[h] \in 1..L /\ was[h] # j BY <1>2
<1>7. \A g, h \in 1..(L - 1) : was[g] = was[h] <=> g = h BY <1>2
<1>8. \A h \in 1..L : h # j => \E g \in 1..(L - 1) : was[g] = h
  <2> SUFFICES ASSUME NEW h \in 1..L, h # j PROVE \E g \in 1..(L - 1) : was[g] = h OBVIOUS
  <2>1. CASE h < j
    <3>1. h \in 1..(L - 1) /\ was[h] = h BY <1>2, <2>1
    <3> QED BY <3>1
  <2>2. CASE h > j
    <3>1. h - 1 \in 1..(L - 1) /\ was[h - 1] = h BY <1>2, <2>2
    <3> QED BY <3>1
  <2> QED BY <1>2, <2>1, <2>2
<1> HIDE DEF was
<1>9. /\ \A h \in 1..L : list[h] # <<>> /\ IsInjective(list[h]) /\ ToSet(list[h]) \subseteq held
      /\ \A i \in held : \E h \in 1..L : i \in ToSet(list[h])
      /\ \A a, b \in 1..L : \A u \in ToSet(list[a]), v \in ToSet(list[b]) :
          fs[u].adu = fs[v].adu <=> a = b
  BY <1>4 DEF Entered, SlotsOK
<1>10. \A h \in 1..L : h # j => ToSet(list[h]) \cap ToSet(list[j]) = {} BY <1>2, <1>9
<1>11. \A h \in DOMAIN r : r[h] # <<>> /\ IsInjective(r[h]) /\ ToSet(r[h]) \subseteq held \ ToSet(list[j])
  <2> TAKE h \in DOMAIN r
  <2>1. r[h] = list[was[h]] /\ was[h] \in 1..L /\ was[h] # j BY <1>4, <1>5, <1>6
  <2>2. ToSet(list[was[h]]) \cap ToSet(list[j]) = {} BY <1>10, <2>1
  <2> QED BY <1>9, <2>1, <2>2
<1>12. \A i \in held \ ToSet(list[j]) : \E h \in DOMAIN r : i \in ToSet(r[h])
  <2> TAKE i \in held \ ToSet(list[j])
  <2>1. PICK h \in 1..L : i \in ToSet(list[h]) BY <1>9
  <2>2. PICK g \in 1..(L - 1) : was[g] = h BY <1>8, <2>1
  <2> QED BY <1>4, <1>5, <2>1, <2>2
<1>13. \A a, b \in DOMAIN r : \A u \in ToSet(r[a]), v \in ToSet(r[b]) : fs[u].adu = fs[v].adu <=> a = b
  <2>1. \A a, b \in 1..(L - 1) : \A u \in ToSet(r[a]), v \in ToSet(r[b]) :
          fs[u].adu = fs[v].adu <=> was[a] = was[b]
    <3> TAKE a, b \in 1..(L - 1)
    <3>1. was[a] \in 1..L /\ was[b] \in 1..L /\ r[a] = list[was[a]] /\ r[b] = list[was[b]] BY <1>5, <1>6
    <3> QED BY <1>9, <3>1
  <2> QED BY <1>4, <1>7, <2>1
<1> QED BY <1>3, <1>11, <1>12, <1>13 DEF SlotsOK

-----------------------------------------------------------------------------
(***************************************************************************)
(* The invariant                                                           *)
(***************************************************************************)
\* No task has received a fragment yet.
LEMMA InitInv == Init => Inv
<1> SUFFICES ASSUME Init PROVE Inv OBVIOUS
<1>1. arrivals \in 0..MaxArrivals BY FragmentAssumption DEF Init
<1>2. SlotsOK(<<>>, <<>>, {}) BY DEF SlotsOK
<1>3. info \in Seq(Fragment) /\ Len(info) = arrivals /\ reassembly_list \in Seq(Seq(1..arrivals)) BY DEF Init
<1>4. delivered \in Seq(Parcel) /\ DOMAIN delivered = {} BY DEF Init
<1> QED BY <1>1, <1>2, <1>3, <1>4 DEF Init, Inv, AduOnce

\* A delivered ADU was not delivered before: it would be known.
LEMMA Delivery ==
  ASSUME Inv, NEW adu \in Adu, Whole(adu) \notin known,
         delivered' = Append(delivered, [adu |-> adu, payload |-> Intact]),
         NEW k, known' = known \cup {k} \cup {Whole(adu)}
  PROVE  /\ delivered' \in Seq(Parcel)
         /\ \A j \in DOMAIN delivered' : Whole(delivered'[j].adu) \in known'
         /\ AduOnce'
<1>1. PICK n \in Nat : n = Len(delivered) BY DEF Inv
<1>2. PICK e \in Parcel : e = [adu |-> adu, payload |-> Intact] BY DEF Parcel
<1>3. e.adu = adu BY <1>2
<1>4. delivered \in Seq(Parcel) /\ DOMAIN delivered = 1..n BY <1>1 DEF Inv
<1>5. /\ delivered' \in Seq(Parcel) /\ DOMAIN delivered' = 1..(n + 1) /\ delivered'[n + 1] = e
      /\ \A j \in 1..n : delivered'[j] = delivered[j]
  BY <1>1, <1>2, <1>4
<1>6. \A j \in 1..(n + 1) : j \in 1..n \/ j = n + 1 OBVIOUS
<1>7. \A j \in 1..n : Whole(delivered[j].adu) \in known BY <1>4 DEF Inv
<1>8. \A j \in 1..(n + 1) : Whole(delivered'[j].adu) \in known' BY <1>3, <1>5, <1>6, <1>7
<1>9. \A j \in 1..n : delivered[j].adu # adu BY <1>7
<1>10. \A j, h \in 1..n : delivered[j].adu = delivered[h].adu => j = h BY <1>4 DEF Inv, AduOnce
<1>11. \A j, h \in 1..(n + 1) : delivered'[j].adu = delivered'[h].adu => j = h
  BY <1>3, <1>5, <1>6, <1>9, <1>10
<1>12. AduOnce' BY <1>5, <1>11 DEF AduOnce
<1> QED BY <1>5, <1>8, <1>12

\* try_reassemble delivers the slot that the fragment went into or leaves it.
LEMMA TryInv ==
  ASSUME Inv, NEW f \in Fragment, NEW fs \in Seq(Fragment), Len(fs) = arrivals + 1,
         arrivals < MaxArrivals, arrivals' = arrivals + 1, info' = fs, Whole(f.adu) \notin known \cup {f},
         NEW list, NEW j, Entered(list, fs, stored \cup {arrivals + 1}, j, f.adu),
         TryReassemble(list, j, fs, known \cup {f}, stored \cup {arrivals + 1})
  PROVE  Inv'
<1> DEFINE held == stored \cup {arrivals + 1}
<1>1. /\ arrivals \in Nat /\ arrivals + 1 \in 0..MaxArrivals /\ stored \subseteq 1..arrivals
      /\ known \subseteq Known
  BY FragmentAssumption DEF Inv
<1>2. held \subseteq 1..(arrivals + 1) BY <1>1
<1>3. list \in Seq(Seq(1..(arrivals + 1))) /\ j \in DOMAIN list /\ SlotsOK(list, fs, held)
      /\ fs[list[j][1]].adu = f.adu
  BY DEF Entered
<1>4. f \in Known /\ f.adu \in Adu /\ Whole(f.adu) \in Known
  BY FragmentAssumption DEF Known, Positions, Whole
<1>5. CASE CanReassemble(list[j], fs)
  <2>1. /\ reassembly_list' = RemoveAt(list, j) /\ stored' = held \ ToSet(list[j])
        /\ known' = known \cup {f} \cup {Whole(f.adu)}
        /\ delivered' = Append(delivered, [adu |-> f.adu, payload |-> Payload(list[j], fs)])
    BY <1>3, <1>5 DEF TryReassemble
  <2>2. Payload(list[j], fs) = Intact
    <3>1. list[j] \in Seq(1..Len(fs)) BY <1>3
    <3> QED BY <1>5, <3>1, PayloadRight
  <2>3. /\ delivered' \in Seq(Parcel)
        /\ \A h \in DOMAIN delivered' : Whole(delivered'[h].adu) \in known'
        /\ AduOnce'
    BY <1>4, <2>1, <2>2, Delivery
  <2>4. reassembly_list' \in Seq(Seq(1..(arrivals + 1))) /\ SlotsOK(reassembly_list', fs, stored')
    BY <2>1, SlotRemoved
  <2>5. stored' \subseteq 1..(arrivals + 1) /\ known' \subseteq Known BY <1>1, <1>2, <1>4, <2>1
  <2> HIDE DEF held
  <2> QED BY <1>1, <2>3, <2>4, <2>5 DEF Inv
<1>6. CASE ~CanReassemble(list[j], fs)
  <2>1. reassembly_list' = list /\ stored' = held /\ known' = known \cup {f} /\ delivered' = delivered
    BY <1>6 DEF TryReassemble
  <2>2. \A h \in DOMAIN delivered : Whole(delivered[h].adu) \in known' BY <2>1 DEF Inv
  <2>3. AduOnce' BY <2>1 DEF Inv, AduOnce
  <2>4. known' \subseteq Known BY <1>1, <1>4, <2>1
  <2>5. delivered \in Seq(Parcel) BY DEF Inv
  <2> HIDE DEF held
  <2> QED BY <1>1, <1>2, <1>3, <2>1, <2>2, <2>3, <2>4, <2>5 DEF Inv
<1> QED BY <1>5, <1>6

\* bundle_deliver_local for one more fragment: known, late, or put into a slot.
LEMMA DeliverInv == ASSUME Inv, NEW f \in Fragment, Deliver(f) PROVE Inv'
<1>1. PICK n \in Nat : n = arrivals BY FragmentAssumption DEF Inv
<1>2. PICK fs : fs = Append(info, f) OBVIOUS
<1>3. /\ info \in Seq(Fragment) /\ Len(info) = n /\ stored \in SUBSET (1..n)
      /\ reassembly_list \in Seq(Seq(1..n)) /\ SlotsOK(reassembly_list, info, stored)
  BY <1>1 DEF Inv
<1>4. fs \in Seq(Fragment) /\ Len(fs) = n + 1 /\ fs[n + 1] = f /\ \A i \in 1..n : fs[i] = info[i]
  BY <1>2, <1>3
<1>5. SlotsOK(reassembly_list, fs, stored)
  <2>1. \A h \in DOMAIN reassembly_list : ToSet(reassembly_list[h]) \subseteq 1..n BY <1>3 DEF SlotsOK
  <2>2. \A h \in DOMAIN reassembly_list : \A x \in ToSet(reassembly_list[h]) : fs[x] = info[x]
    BY <1>4, <2>1
  <2>3. \A a, b \in DOMAIN reassembly_list :
          \A x \in ToSet(reassembly_list[a]), y \in ToSet(reassembly_list[b]) :
            fs[x].adu = fs[y].adu <=> a = b
    <3>1. \A a, b \in DOMAIN reassembly_list :
            \A x \in ToSet(reassembly_list[a]), y \in ToSet(reassembly_list[b]) :
              info[x].adu = info[y].adu <=> a = b BY <1>3 DEF SlotsOK
    <3> QED BY <2>2, <3>1
  <2> QED BY <1>3, <2>3 DEF SlotsOK
<1>6. arrivals' = n + 1 /\ info' = fs /\ arrivals < MaxArrivals /\ n + 1 \in 0..MaxArrivals
  BY <1>1, <1>2, FragmentAssumption DEF Deliver
<1>7. CASE UNCHANGED <<stored, reassembly_list, delivered>> /\ known' \in {known, known \cup {f}}
  <2>1. f \in Known BY FragmentAssumption DEF Known, Positions
  <2>2. known' \subseteq Known /\ known \subseteq known' BY <1>7, <2>1 DEF Inv
  <2>3. Seq(1..n) \subseteq Seq(1..(n + 1)) OBVIOUS
  <2>4. reassembly_list \in Seq(Seq(1..(n + 1))) BY <1>3, <2>3
  <2>5. stored \subseteq 1..(n + 1) BY <1>3
  <2>6. AduOnce' BY <1>7 DEF Inv, AduOnce
  <2>7. delivered \in Seq(Parcel) BY DEF Inv
  <2>8. \A j \in DOMAIN delivered : Whole(delivered[j].adu) \in known' BY <2>2 DEF Inv
  <2> QED BY <1>4, <1>5, <1>6, <1>7, <2>2, <2>4, <2>5, <2>6, <2>7, <2>8 DEF Inv
<1>8. CASE /\ Whole(f.adu) \notin known \cup {f}
           /\ AttemptReassembly(n + 1, fs, known \cup {f}, stored \cup {n + 1})
  <2> DEFINE slots == {j \in DOMAIN reassembly_list : may_reassemble(reassembly_list[j], f, fs)}
             j == CHOOSE h \in slots : \A g \in slots : h <= g
  <2>1. CASE slots # {}
    <3>1. slots \in SUBSET Nat BY <1>3
    <3>2. \E h \in slots : \A g \in slots : h <= g
      <4> HIDE DEF slots
      <4> QED BY <2>1, <3>1, LeastNat
    <3>3. j \in slots
      <4> HIDE DEF slots
      <4> QED BY <3>2
    <3>4. PICK k \in DOMAIN reassembly_list : k = j /\ fs[reassembly_list[k][1]].adu = fs[n + 1].adu
      <4>1. j \in DOMAIN reassembly_list /\ may_reassemble(reassembly_list[j], f, fs)
        <5> HIDE DEF j
        <5> QED BY <3>3
      <4> HIDE DEF j
      <4> QED BY <1>4, <4>1 DEF may_reassemble
    <3>5. PICK new : new = [reassembly_list EXCEPT ![k] = add_to_reassembly_bundle_list(@, n + 1, fs)]
      OBVIOUS
    <3>6. TryReassemble(new, k, fs, known \cup {f}, stored \cup {n + 1})
      BY <1>4, <1>8, <2>1, <3>4, <3>5 DEF AttemptReassembly
    <3>7. Entered(new, fs, stored \cup {n + 1}, k, fs[n + 1].adu)
      BY <1>3, <1>4, <1>5, <3>4, <3>5, SlotFound
    <3> HIDE DEF j, slots
    <3> QED BY <1>1, <1>4, <1>6, <1>8, <3>6, <3>7, TryInv
  <2>2. CASE slots = {}
    <3>1. PICK new : new = Append(reassembly_list, <<n + 1>>) OBVIOUS
    <3>2. TryReassemble(new, Len(reassembly_list) + 1, fs, known \cup {f}, stored \cup {n + 1})
      BY <1>4, <1>8, <2>2, <3>1 DEF AttemptReassembly
    <3>3. \A h \in DOMAIN reassembly_list : fs[reassembly_list[h][1]].adu # fs[n + 1].adu
      BY <1>4, <2>2 DEF may_reassemble
    <3>4. Entered(new, fs, stored \cup {n + 1}, Len(reassembly_list) + 1, fs[n + 1].adu)
      BY <1>3, <1>4, <1>5, <3>1, <3>3, SlotAppended
    <3> HIDE DEF j, slots
    <3> QED BY <1>1, <1>4, <1>6, <1>8, <3>2, <3>4, TryInv
  <2> QED BY <2>1, <2>2
<1> QED BY <1>1, <1>2, <1>7, <1>8 DEF Deliver

\* The invariant holds of every behaviour.
THEOREM ReassemblyInv == Spec => []Inv
<1>1. Inv /\ [Next]_vars => Inv'
  <2> SUFFICES ASSUME Inv, [Next]_vars PROVE Inv' OBVIOUS
  <2>1. CASE Next BY <2>1, DeliverInv DEF Next
  <2>2. CASE UNCHANGED vars BY <2>2 DEF Inv, vars, AduOnce
  <2> QED BY <2>1, <2>2
<1> QED BY InitInv, <1>1, PTL DEF Spec

\* Type correctness of the lists and of what was delivered.
THEOREM ReassemblyTypeOK == Spec => []TypeOK
<1>1. Inv => TypeOK
  <2> SUFFICES ASSUME Inv PROVE TypeOK OBVIOUS
  <2>1. info \in [1..arrivals -> Fragment] BY DEF Inv
  <2>2. \A j \in DOMAIN reassembly_list :
          /\ reassembly_list[j] # <<>> /\ IsInjective(reassembly_list[j])
          /\ \A h \in DOMAIN reassembly_list[j] : reassembly_list[j][h] \in 1..arrivals
    <3> TAKE j \in DOMAIN reassembly_list
    <3>1. reassembly_list[j] \in Seq(1..arrivals) BY DEF Inv
    <3> QED BY <3>1 DEF Inv, SlotsOK
  <2>3. \A j \in DOMAIN delivered : delivered[j].payload \in [Positions -> 0..AduLength]
    <3>1. Intact \in [Positions -> 0..AduLength] BY FragmentAssumption DEF Intact, Positions
    <3>2. \A j \in DOMAIN delivered : delivered[j] \in Parcel BY DEF Inv
    <3>3. \A j \in DOMAIN delivered : delivered[j].payload = Intact BY <3>2 DEF Parcel
    <3> QED BY <3>1, <3>3
  <2> QED BY <2>1, <2>2, <2>3 DEF Inv, TypeOK, Known
<1> QED BY <1>1, ReassemblyInv, PTL

\* However an ADU was cut, overlapped and reordered on the way, try_reassemble gives
\* the agent the bytes that its source sent, each in its place.
THEOREM ReassemblyIntact == Spec => []PayloadIntact
<1>1. Inv => PayloadIntact
  <2> SUFFICES ASSUME Inv, NEW j \in DOMAIN delivered, NEW p \in Positions
               PROVE  delivered[j].payload[p] = p BY DEF PayloadIntact
  <2>1. delivered[j] \in Parcel BY DEF Inv
  <2>2. delivered[j].payload = Intact BY <2>1 DEF Parcel
  <2> QED BY <2>2 DEF Intact
<1> QED BY <1>1, ReassemblyInv, PTL

\* An ADU is delivered once, whatever arrives after bundle_add_reassembled_as_known
\* entered it into the list of known bundles.
THEOREM ReassemblyAduOnce == Spec => []AduOnce
<1>1. Inv => AduOnce BY DEF Inv
<1> QED BY <1>1, ReassemblyInv, PTL

\* The slots and the bundle storage agree: bundle_discard frees no fragment that a
\* slot still holds, and no fragment stays behind when its slot is freed.
THEOREM ReassemblySlots == Spec => []SlotsMatchStorage
<1>1. Inv => SlotsMatchStorage
  <2> SUFFICES ASSUME Inv PROVE SlotsMatchStorage OBVIOUS
  <2>1. \A j \in DOMAIN reassembly_list : /\ reassembly_list[j][1] \in ToSet(reassembly_list[j])
                                          /\ ToSet(reassembly_list[j]) \subseteq stored
    <3> TAKE j \in DOMAIN reassembly_list
    <3>1. reassembly_list[j] \in Seq(1..arrivals) /\ reassembly_list[j] # <<>> BY DEF Inv, SlotsOK
    <3> QED BY <3>1, SlotFacts DEF Inv, SlotsOK
  <2>2. UNION {ToSet(reassembly_list[j]) : j \in DOMAIN reassembly_list} = stored
    <3>1. \A i \in stored : \E j \in DOMAIN reassembly_list : i \in ToSet(reassembly_list[j])
      BY DEF Inv, SlotsOK
    <3> QED BY <2>1, <3>1
  <2>3. \A j, h \in DOMAIN reassembly_list : \A x \in ToSet(reassembly_list[j]), y \in ToSet(reassembly_list[h]) :
          info[x].adu = info[y].adu <=> j = h BY DEF Inv, SlotsOK
  <2> QED BY <2>1, <2>2, <2>3 DEF SlotsMatchStorage
<1> QED BY <1>1, ReassemblyInv, PTL
=============================================================================
