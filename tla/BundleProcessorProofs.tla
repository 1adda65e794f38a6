------------------------ MODULE BundleProcessorProofs -----------------------
(***************************************************************************)
(* No bundle is in two hands, freed in use, dropped with a constraint or   *)
(* delivered twice: the invariants of BundleProcessor, for any bundles,    *)
(* lengths of queues and bounds.                                           *)
(*                                                                         *)
(* OneOwner is not inductive.  A handler that discards a bundle must know  *)
(* that no other task has it, that the bundle still has the constraints    *)
(* that its path removes, and that a signal for a new bundle finds it      *)
(* without any; Inv says so for the five places where an id can be.  For   *)
(* DeliveredOnce the list of known bundles must be sorted and have every   *)
(* delivered bundle that has not expired (KnownOK).                        *)
(***************************************************************************)
EXTENDS BundleProcessor, FiniteSetTheorems, SeqLemmas

-----------------------------------------------------------------------------
(***************************************************************************)
(* What the handlers of the bundle processor do to the bundle of a signal  *)
(* (SignalHandled): whatever the bundle is, a handler makes some reports   *)
(* and then discards the bundle with no retention constraint left, passes  *)
(* it to the router, or keeps it for a custodian.                          *)
(***************************************************************************)
\* Every bundle goes back to one that a peer or an agent sent, with whose
\* identity and deadline.
Origin == {k \in Kind : \E c \in Kinds : c.ident = k.ident /\ c.deadline = k.deadline}
Entry == [ident : Nat, deadline : Nat]
Mem == [info : Seq(Origin), stored : SUBSET (1..MaxId),
        rc : [1..MaxId -> SUBSET Constraint], known : Seq(Entry),
        delivered : Seq(Nat), failed_assert : BOOLEAN]
Push == [id : 1..MaxId, timed : BOOLEAN]
State == [m : Mem, out : Seq(Push)]

\* The handler has not decided about the bundle yet: since memory m and output
\* o it only made reports, new bundles that it pushes in the order of their ids.
Reports(m, o) ==
  {s \in State :
     LET a == Len(m.info)
         b == Len(s.m.info)
     IN /\ a <= b /\ b <= MaxId
        /\ s.m.known = m.known /\ s.m.delivered = m.delivered
        /\ s.m.failed_assert = m.failed_assert
        /\ \A j \in 1..a : s.m.info[j] = m.info[j] /\ s.m.rc[j] = m.rc[j]
        /\ \A j \in (a + 1)..b : s.m.rc[j] \subseteq {"FORWARD", "OWN"}
        /\ s.m.stored = m.stored \cup ((a + 1)..b)
        /\ Len(s.out) = Len(o) + (b - a)
        /\ \A j \in 1..Len(o) : s.out[j] = o[j]
        /\ \A j \in (Len(o) + 1)..Len(s.out) : s.out[j] = Route(a + (j - Len(o)), FALSE)}

\* A sequence with one more element at its end.
LEMMA AppendIs ==
  ASSUME NEW S, NEW q \in Seq(S), NEW e \in S
  PROVE  /\ Append(q, e) \in Seq(S) /\ Len(Append(q, e)) = Len(q) + 1
         /\ \A j \in 1..Len(q) : Append(q, e)[j] = q[j]
         /\ Append(q, e)[Len(q) + 1] = e
  OBVIOUS

\* bundle_storage_add: one more bundle, under the next id; nothing else changes.
LEMMA AddFacts ==
  ASSUME NEW m \in Mem, NEW k \in Origin, NEW c \in SUBSET Constraint, Len(m.info) < MaxId,
         NEW n \in Nat, n = Len(m.info)
  PROVE  /\ bundle_storage_add(m, k, c) \in Mem
         /\ Len(bundle_storage_add(m, k, c).info) = n + 1
         /\ \A j \in 1..n : /\ bundle_storage_add(m, k, c).info[j] = m.info[j]
                            /\ bundle_storage_add(m, k, c).rc[j] = m.rc[j]
         /\ bundle_storage_add(m, k, c).info[n + 1] = k
         /\ bundle_storage_add(m, k, c).rc[n + 1] = c
         /\ bundle_storage_add(m, k, c).stored = m.stored \cup {n + 1}
         /\ bundle_storage_add(m, k, c).known = m.known
         /\ bundle_storage_add(m, k, c).delivered = m.delivered
         /\ bundle_storage_add(m, k, c).failed_assert = m.failed_assert
<1> DEFINE r == bundle_storage_add(m, k, c)
<1>1. n + 1 \in 1..MaxId BY ProcessorAssumption
<1>2. m.info \in Seq(Origin) /\ Append(m.info, k) \in Seq(Origin) BY DEF Mem
<1>3. r = [m EXCEPT !.info = Append(@, k), !.stored = @ \cup {n + 1}, !.rc = [@ EXCEPT ![n + 1] = c]]
  BY DEF bundle_storage_add
<1>4. r \in Mem
  <2>1. [m.rc EXCEPT ![n + 1] = c] \in [1..MaxId -> SUBSET Constraint] BY <1>1 DEF Mem
  <2>2. m.stored \cup {n + 1} \in SUBSET (1..MaxId) BY <1>1 DEF Mem
  <2> QED BY <1>2, <1>3, <2>1, <2>2 DEF Mem
<1>5. /\ r.info = Append(m.info, k) /\ r.stored = m.stored \cup {n + 1}
      /\ r.rc = [m.rc EXCEPT ![n + 1] = c]
      /\ r.known = m.known /\ r.delivered = m.delivered /\ r.failed_assert = m.failed_assert
  BY <1>3 DEF Mem
<1>6. \A j \in 1..MaxId : r.rc[j] = IF j = n + 1 THEN c ELSE m.rc[j]
  BY <1>5, <1>1 DEF Mem
<1>7. Len(r.info) = n + 1 /\ r.info[n + 1] = k /\ \A j \in 1..n : r.info[j] = m.info[j]
  BY <1>5, <1>2
<1> HIDE DEF r
<1>8. \A j \in 1..n : r.rc[j] = m.rc[j]
  <2>1. \A j \in 1..n : j \in 1..MaxId /\ j # n + 1 BY <1>1, ProcessorAssumption
  <2> QED BY <2>1, <1>6
<1> QED BY <1>1, <1>4, <1>5, <1>6, <1>7, <1>8 DEF r

\* A report, or a custody signal, is one more bundle, queued for the router.
LEMMA AddReport ==
  ASSUME NEW m \in Mem, NEW o \in Seq(Push), NEW s \in Reports(m, o), NEW k \in Origin,
         NEW c \in SUBSET {"FORWARD", "OWN"}, Len(s.m.info) # MaxId
  PROVE  [m |-> bundle_storage_add(s.m, k, c), out |-> Append(s.out, Route(Len(s.m.info) + 1, FALSE))]
           \in Reports(m, o)
<1> DEFINE n == Len(s.m.info)
           a == Len(m.info)
           r == bundle_storage_add(s.m, k, c)
           out == Append(s.out, Route(n + 1, FALSE))
<1>1. s \in State /\ s.m \in Mem /\ s.out \in Seq(Push) /\ s.m.info \in Seq(Origin) /\ m.info \in Seq(Origin)
  BY DEF Reports, State, Mem
<1>2. n \in Nat /\ a \in Nat /\ a <= n /\ n < MaxId /\ n + 1 \in 1..MaxId /\ c \in SUBSET Constraint
  BY <1>1, ProcessorAssumption DEF Reports, Constraint
<1>3. /\ r \in Mem /\ Len(r.info) = n + 1
      /\ \A j \in 1..n : r.info[j] = s.m.info[j] /\ r.rc[j] = s.m.rc[j]
      /\ r.info[n + 1] = k /\ r.rc[n + 1] = c
      /\ r.stored = s.m.stored \cup {n + 1}
      /\ r.known = s.m.known /\ r.delivered = s.m.delivered /\ r.failed_assert = s.m.failed_assert
  BY <1>1, <1>2, AddFacts
<1>4. Route(n + 1, FALSE) \in Push BY <1>2 DEF Route, Push
<1>5. /\ out \in Seq(Push) /\ Len(out) = Len(s.out) + 1
      /\ \A j \in 1..Len(s.out) : out[j] = s.out[j]
      /\ out[Len(s.out) + 1] = Route(n + 1, FALSE)
  <2> DEFINE e == Route(n + 1, FALSE)
  <2>1. e \in Push /\ s.out \in Seq(Push) BY <1>1, <1>4
  <2> HIDE DEF e
  <2>2. /\ Append(s.out, e) \in Seq(Push) /\ Len(Append(s.out, e)) = Len(s.out) + 1
        /\ \A j \in 1..Len(s.out) : Append(s.out, e)[j] = s.out[j]
        /\ Append(s.out, e)[Len(s.out) + 1] = e
    BY <2>1, AppendIs
  <2> QED BY <2>2, Zenon DEF e
<1>6. /\ s.m.known = m.known /\ s.m.delivered = m.delivered
      /\ s.m.failed_assert = m.failed_assert
      /\ \A j \in 1..a : s.m.info[j] = m.info[j] /\ s.m.rc[j] = m.rc[j]
      /\ \A j \in (a + 1)..n : s.m.rc[j] \subseteq {"FORWARD", "OWN"}
      /\ s.m.stored = m.stored \cup ((a + 1)..n)
      /\ Len(s.out) = Len(o) + (n - a)
      /\ \A j \in 1..Len(o) : s.out[j] = o[j]
      /\ \A j \in (Len(o) + 1)..Len(s.out) : s.out[j] = Route(a + (j - Len(o)), FALSE)
  BY DEF Reports
<1> HIDE DEF n, a, r, out
<1>7. [m |-> r, out |-> out] \in State BY <1>3, <1>5 DEF State
<1>8. \A j \in 1..a : r.info[j] = m.info[j] /\ r.rc[j] = m.rc[j] BY <1>2, <1>3, <1>6
<1>9. \A j \in (a + 1)..(n + 1) : r.rc[j] \subseteq {"FORWARD", "OWN"}
  <2>1. \A j \in (a + 1)..(n + 1) : j = n + 1 \/ (j \in 1..n /\ j \in (a + 1)..n) BY <1>2
  <2> QED BY <1>3, <1>6, <2>1
<1>10. r.stored = m.stored \cup ((a + 1)..(n + 1)) BY <1>2, <1>3, <1>6
<1>11. Len(o) \in Nat /\ Len(s.out) \in Nat BY <1>1
<1>12. \A j \in 1..Len(o) : out[j] = o[j] BY <1>2, <1>5, <1>6, <1>11
<1>13. \A j \in (Len(o) + 1)..Len(out) : out[j] = Route(a + (j - Len(o)), FALSE)
  <2>1. SUFFICES ASSUME NEW j \in (Len(o) + 1)..Len(out) PROVE out[j] = Route(a + (j - Len(o)), FALSE)
    OBVIOUS
  <2>2. CASE j = Len(s.out) + 1
    <3>1. a + (j - Len(o)) = n + 1 BY <1>2, <1>6, <1>11, <2>2
    <3> QED BY <3>1, <2>2, <1>5
  <2>3. CASE j # Len(s.out) + 1
    <3>1. j \in 1..Len(s.out) /\ j \in (Len(o) + 1)..Len(s.out) BY <1>5, <1>11, <2>3
    <3> QED BY <3>1, <1>5, <1>6
  <2> QED BY <2>2, <2>3
<1>14. Len(out) = Len(o) + ((n + 1) - a) BY <1>2, <1>5, <1>6, <1>11
<1>15. [m |-> r, out |-> out].m = r /\ [m |-> r, out |-> out].out = out OBVIOUS
<1>16. a <= n + 1 /\ n + 1 <= MaxId BY <1>2
<1>17. r.known = m.known /\ r.delivered = m.delivered /\ r.failed_assert = m.failed_assert BY <1>3, <1>6
<1>18. Len(r.info) = n + 1 BY <1>3
<1>19. [m |-> r, out |-> out] \in Reports(m, o)
  BY <1>7, <1>8, <1>9, <1>10, <1>12, <1>13, <1>14, <1>15, <1>16, <1>17, <1>18 DEF Reports, a
<1> QED BY <1>19 DEF r, out, n

\* bundle7_generate_status_report, bundle6_generate_status_report: a report has the
\* identity and the deadline that the model gives it.
LEMMA ReportIsKind == ASSUME NEW k \in Origin PROVE ReportKind(k) \in Origin
<1>1. k \in Kind BY DEF Origin
<1>2. <<{"payload"}>> \in Seq(SUBSET {"payload", "report", "delete", "discard"}) OBVIOUS
<1>3. ReportKind(k) \in Kind BY <1>1, <1>2 DEF ReportKind, Kind
<1>4. ReportKind(k).ident = k.ident /\ ReportKind(k).deadline = k.deadline BY <1>1 DEF ReportKind, Kind
<1> QED BY <1>3, <1>4 DEF Origin

\* send_status_report, send_custody_signal: at most one report is made.
LEMMA StatusReport ==
  ASSUME NEW m \in Mem, NEW o \in Seq(Push), NEW s \in Reports(m, o), NEW i \in 1..Len(m.info)
  PROVE  /\ send_status_report(s, i) \in Reports(m, o)
         /\ send_custody_signal(s, i) \in Reports(m, o)
         /\ \A flag : ReportIf(s, i, flag) \in Reports(m, o)
<1>1. s.m.info \in Seq(Origin) /\ i \in 1..Len(s.m.info) BY DEF Reports, State, Mem
<1>2. s.m.info[i] \in Origin /\ ReportKind(s.m.info[i]) \in Origin BY <1>1, ReportIsKind
<1>3. send_status_report(s, i) \in Reports(m, o)
  BY <1>2, AddReport DEF send_status_report
<1>4. send_custody_signal(s, i) \in Reports(m, o)
  BY <1>2, AddReport DEF send_custody_signal
<1> QED BY <1>3, <1>4 DEF ReportIf

\* handle_blocks, the loop of bundle_receive over the extension blocks, only makes
\* reports, however many blocks the bundle has.  The recursive function exists:
\* its values for the first blocks are built one by one.
LEMMA BlocksReports ==
  ASSUME NEW m \in Mem, NEW o \in Seq(Push), NEW s \in Reports(m, o), NEW i \in 1..Len(m.info)
  PROVE  handle_blocks(s, i).s \in Reports(m, o) /\ handle_blocks(s, i).deleted \in BOOLEAN
<1> DEFINE A == [s : Reports(m, o), deleted : BOOLEAN, skip : BOOLEAN]
           a == [s |-> s, deleted |-> FALSE, skip |-> FALSE]
           bl == s.m.info[i].blocks
           Is(f) == f = [n \in 0..Len(bl) |-> IF n = 0 THEN a
                                               ELSE HandleBlock(f[n - 1], bl[n], i)]
           after == CHOOSE f : Is(f)
<1>1. Len(bl) \in Nat
  <2>1. s.m.info \in Seq(Origin) /\ i \in 1..Len(s.m.info) BY DEF Reports, State, Mem
  <2>2. s.m.info[i] \in Kind BY <2>1 DEF Origin
  <2>3. bl \in Seq(SUBSET {"payload", "report", "delete", "discard"}) BY <2>2 DEF Kind
  <2> HIDE DEF bl
  <2> QED BY <2>3
<1>2. ASSUME NEW x \in A, NEW flags PROVE HandleBlock(x, flags, i) \in A
  <2>1. x.s \in Reports(m, o) /\ x.deleted \in BOOLEAN /\ x.skip \in BOOLEAN OBVIOUS
  <2>2. send_status_report(x.s, i) \in Reports(m, o) BY <2>1, StatusReport
  <2>3. [x EXCEPT !.skip = FALSE] \in A OBVIOUS
  <2>4. \A r \in Reports(m, o), d, k \in BOOLEAN : [s |-> r, deleted |-> d, skip |-> k] \in A OBVIOUS
  <2>5. ("delete" \in flags) \in BOOLEAN /\ ("delete" \notin flags /\ "discard" \in flags) \in BOOLEAN
    OBVIOUS
  <2> DEFINE t == IF "report" \in flags THEN send_status_report(x.s, i) ELSE x.s
  <2>6. t \in Reports(m, o) BY <2>1, <2>2
  <2>7. [s |-> t, deleted |-> "delete" \in flags,
         skip |-> "delete" \notin flags /\ "discard" \in flags] \in A
    <3> HIDE DEF t
    <3> QED BY <2>4, <2>5, <2>6
  <2> HIDE DEF A
  <2> QED BY <2>3, <2>7 DEF HandleBlock
<1>3. a \in A OBVIOUS
<1>4. handle_blocks(s, i) = after[Len(bl)] BY DEF handle_blocks
<1>5. PICK N \in Nat : N = Len(bl) BY <1>1
<1> HIDE DEF A, a, bl, after
<1> DEFINE G == [x \in (1..N) \X A |-> HandleBlock(x[2], bl[x[1]], i)]
<1>6. G \in [(1..N) \X A -> A]
  <2>1. \A x \in (1..N) \X A : HandleBlock(x[2], bl[x[1]], i) \in A BY <1>2
  <2> QED BY <2>1
<1>7. PICK f \in [0..N -> A] : IsRun(f, N, a, G)
  <2> HIDE DEF G
  <2> QED BY <1>3, <1>6, RunExists
<1>8. \A n \in 1..N : <<n, f[n - 1]>> \in (1..N) \X A
  <2>1. \A n \in 1..N : n - 1 \in 0..N OBVIOUS
  <2> QED BY <2>1
<1>9. f[0] = a /\ \A n \in 1..N : f[n] = HandleBlock(f[n - 1], bl[n], i)
  BY <1>7, <1>8 DEF IsRun
<1>10. Is(f)
  <2>1. \A n \in 0..N : n = 0 \/ n \in 1..N OBVIOUS
  <2> QED BY <1>5, <1>9, <2>1
<1>11. Is(after)
  <2> HIDE DEF Is
  <2> QED BY <1>10 DEF after
<1> DEFINE R == {n \in Nat : n <= N => after[n] \in A}
<1>12. 0 \in R
  <2>1. 0 \in 0..N OBVIOUS
  <2>2. after[0] = a BY <1>5, <1>11, <2>1
  <2> QED BY <1>3, <2>2
<1>13. ASSUME NEW n \in Nat, n \in R PROVE n + 1 \in R
  <2>1. SUFFICES ASSUME n + 1 <= N PROVE after[n + 1] \in A OBVIOUS
  <2>2. after[n] \in A BY <1>13, <2>1
  <2>3. n + 1 \in 0..N /\ n + 1 # 0 /\ (n + 1) - 1 = n BY <2>1
  <2>4. after[n + 1] = HandleBlock(after[n], bl[n + 1], i) BY <1>5, <1>11, <2>3
  <2> QED BY <1>2, <2>2, <2>4
<1>14. Nat \subseteq R
  <2> HIDE DEF R
  <2> QED BY <1>12, <1>13, NatSet
<1>15. handle_blocks(s, i) \in A BY <1>4, <1>5, <1>14
<1> QED BY <1>15 DEF A

\* bundle_record_add_and_check_known: the walk stops at the first entry at which it
\* may stop, at the latest behind the list.
LEMMA PlaceFacts ==
  ASSUME NEW q \in Seq(Entry), NEW k \in Kind, NEW j, j = Place(q, k)
  PROVE  /\ j \in 1..(Len(q) + 1)
         /\ Stops(q, k, j)
         /\ \A h \in 1..(j - 1) : ~Stops(q, k, h)
<1> DEFINE T == {h \in 1..(Len(q) + 1) : Stops(q, k, h)}
<1>1. Len(q) + 1 \in T /\ T \in SUBSET Nat BY DEF Stops
<1>2. PICK x \in T : \A y \in T : x <= y
  <2> HIDE DEF T
  <2> QED BY <1>1, LeastNat
<1>3. x \in 1..(Len(q) + 1) /\ Stops(q, k, x) /\ \A h \in 1..(x - 1) : ~Stops(q, k, h) BY <1>2
<1> QED BY <1>3 DEF Place

\* On its way the walk drops the entries at the front that have expired.
LEMMA ExpiredFacts ==
  ASSUME NEW q \in Seq(Entry), now \in Nat, NEW j \in 1..(Len(q) + 1), NEW n, n = Expired(q, j)
  PROVE  /\ n \in 0..(j - 1)
         /\ \A h \in 1..n : q[h].deadline < now
         /\ n < j - 1 => q[n + 1].deadline >= now
<1> DEFINE T == {h \in 0..(j - 1) : h < j - 1 => q[h + 1].deadline >= now}
<1>1. j - 1 \in T /\ T \in SUBSET Nat OBVIOUS
<1>2. PICK x \in T : \A y \in T : x <= y
  <2> HIDE DEF T
  <2> QED BY <1>1, LeastNat
<1>3. ASSUME NEW h \in 1..x PROVE q[h].deadline < now
  <2>1. x \in 0..(j - 1) /\ h - 1 \in Nat /\ h - 1 < x BY <1>2
  <2>2. h - 1 \in 0..(j - 1) /\ h - 1 \notin T /\ (h - 1) + 1 = h
    <3> HIDE DEF T
    <3> QED BY <1>2, <2>1
  <2>3. ~(q[h].deadline >= now) BY <2>2
  <2>4. h \in 1..Len(q) BY <1>2
  <2>5. q[h] \in Entry BY <2>4
  <2>6. q[h].deadline \in Nat BY <2>5 DEF Entry
  <2> QED BY <2>3, <2>6
<1>4. /\ x \in 0..(j - 1)
      /\ \A h \in 1..x : q[h].deadline < now
      /\ x < j - 1 => q[x + 1].deadline >= now
  BY <1>2, <1>3
<1> QED BY <1>4 DEF Expired

Spliced(S, q, e, j, n, c, r) ==
  /\ r \in Seq(S) /\ Len(r) = Len(q) - n + c
  /\ \A h \in 1..((j - 1) - n) : r[h] = q[n + h]
  /\ \A h \in 1..c : r[((j - 1) - n) + h] = e[h]
  /\ \A h \in (((j - 1) - n) + c + 1)..(Len(q) - n + c) : r[h] = q[(h - c) + n]

\* A sequence with its first elements cut off and others put in.
LEMMA Splice ==
  ASSUME NEW S, NEW q \in Seq(S), NEW e \in Seq(S), NEW j \in 1..(Len(q) + 1), NEW n \in 0..(j - 1),
         NEW c \in Nat, c = Len(e)
  PROVE  Spliced(S, q, e, j, n, c, SubSeq(q, n + 1, j - 1) \o e \o SubSeq(q, j, Len(q)))
<1>1. PICK r : r = SubSeq(q, n + 1, j - 1) \o e \o SubSeq(q, j, Len(q)) OBVIOUS
<1> DEFINE x == SubSeq(q, n + 1, j - 1)
           y == SubSeq(q, j, Len(q))
<1>2. /\ x \in Seq(S) /\ Len(x) = (j - 1) - n
      /\ \A h \in 1..((j - 1) - n) : x[h] = q[n + h]
  <2>1. n + 1 \in 1..(Len(q) + 1) /\ j - 1 \in n..Len(q) OBVIOUS
  <2>2. \A h \in 1..((j - 1) - n) : n + h \in 1..Len(q) /\ (n + 1) + h - 1 = n + h OBVIOUS
  <2> QED BY <2>1, <2>2
<1>3. /\ y \in Seq(S) /\ Len(y) = (Len(q) - j) + 1
      /\ \A h \in 1..((Len(q) - j) + 1) : y[h] = q[(j - 1) + h]
  <2>1. \A h \in 1..((Len(q) - j) + 1) : (j - 1) + h \in 1..Len(q) /\ j + h - 1 = (j - 1) + h OBVIOUS
  <2> QED BY <2>1
<1> HIDE DEF x, y
<1>4. r = x \o e \o y BY <1>1 DEF x, y
<1>5. PICK a \in Nat, b \in Nat : a = (j - 1) - n /\ b = (Len(q) - j) + 1
  <2>1. (j - 1) - n \in Nat /\ (Len(q) - j) + 1 \in Nat OBVIOUS
  <2> QED BY <2>1
<1>6. /\ x \o e \in Seq(S) /\ Len(x \o e) = a + c
      /\ \A h \in 1..a : (x \o e)[h] = x[h]
      /\ \A h \in 1..c : (x \o e)[a + h] = e[h]
  <2>1. /\ x \o e \in Seq(S) /\ Len(x \o e) = Len(x) + Len(e)
        /\ \A h \in 1..Len(x) : (x \o e)[h] = x[h]
        /\ \A h \in 1..Len(e) : (x \o e)[Len(x) + h] = e[h]
    <3>1. x \in Seq(S) /\ e \in Seq(S) BY <1>2
    <3>2. x \o e \in Seq(S) /\ Len(x \o e) = Len(x) + Len(e) BY <3>1
    <3>3. ASSUME NEW h \in 1..Len(x) PROVE (x \o e)[h] = x[h] BY <3>1
    <3>4. ASSUME NEW h \in 1..Len(e) PROVE (x \o e)[Len(x) + h] = e[h] BY <3>1
    <3> QED BY <3>2, <3>3, <3>4
  <2>2. Len(x) = a BY <1>2, <1>5
  <2> QED BY <2>1, <2>2
<1> DEFINE z == x \o e
<1> HIDE DEF z
<1>7. /\ z \o y \in Seq(S) /\ Len(z \o y) = (a + c) + b
      /\ \A h \in 1..(a + c) : (z \o y)[h] = z[h]
      /\ \A h \in 1..b : (z \o y)[(a + c) + h] = y[h]
  <2>1. z \in Seq(S) /\ a + c \in Nat /\ a + c = Len(z) BY <1>6 DEF z
  <2>2. /\ z \o y \in Seq(S) /\ Len(z \o y) = Len(z) + Len(y)
        /\ \A h \in 1..Len(z) : (z \o y)[h] = z[h]
        /\ \A h \in 1..Len(y) : (z \o y)[Len(z) + h] = y[h]
    <3>1. z \in Seq(S) /\ y \in Seq(S) BY <2>1, <1>3
    <3>2. z \o y \in Seq(S) /\ Len(z \o y) = Len(z) + Len(y) BY <3>1
    <3>3. ASSUME NEW h \in 1..Len(z) PROVE (z \o y)[h] = z[h] BY <3>1
    <3>4. ASSUME NEW h \in 1..Len(y) PROVE (z \o y)[Len(z) + h] = y[h] BY <3>1
    <3> QED BY <3>2, <3>3, <3>4
  <2>3. Len(y) = b BY <1>3, <1>5
  <2> QED BY <2>1, <2>2, <2>3
<1>8. r = z \o y BY <1>4 DEF z
<1>9. r \in Seq(S) /\ Len(r) = Len(q) - n + c
  <2>1. Len(q) \in Nat OBVIOUS
  <2>2. (a + c) + b = Len(q) - n + c BY <2>1, <1>5
  <2> QED BY <2>2, <1>7, <1>8
<1>10. \A h \in 1..a : r[h] = q[n + h]
  <2>1. \A h \in 1..a : h \in 1..(a + c) OBVIOUS
  <2>2. \A h \in 1..a : r[h] = z[h] /\ z[h] = x[h] BY <2>1, <1>8, <1>6, <1>7 DEF z
  <2> QED BY <2>2, <1>2, <1>5
<1>11. \A h \in 1..c : r[a + h] = e[h]
  <2>1. \A h \in 1..c : a + h \in 1..(a + c) OBVIOUS
  <2>2. \A h \in 1..c : r[a + h] = z[a + h] /\ z[a + h] = e[h]
    BY <2>1, <1>8, <1>6, <1>7 DEF z
  <2> QED BY <2>2
<1>12. ASSUME NEW h \in (a + c + 1)..(Len(q) - n + c) PROVE r[h] = q[(h - c) + n]
  <2>1. PICK g \in 1..b : h = (a + c) + g /\ (j - 1) + g = (h - c) + n
    <3>1. Len(q) \in Nat OBVIOUS
    <3>2. h - (a + c) \in 1..b BY <1>5, <3>1
    <3>3. (j - 1) + (h - (a + c)) = (h - c) + n BY <1>5, <3>1
    <3>4. h = (a + c) + (h - (a + c)) BY <3>1
    <3> QED BY <3>2, <3>3, <3>4
  <2>2. r[h] = y[g]
    <3>1. (z \o y)[(a + c) + g] = y[g] BY <1>7
    <3> QED BY <3>1, <2>1, <1>8
  <2>3. y[g] = q[(j - 1) + g] BY <2>1, <1>3, <1>5
  <2> QED BY <2>1, <2>2, <2>3
<1>13. Spliced(S, q, e, j, n, c, r) BY <1>5, <1>9, <1>10, <1>11, <1>12 DEF Spliced
<1> QED BY <1>1, <1>13

\* The list that bundle_record_add_and_check_known leaves, and what it returns.
Found(q, k) == Place(q, k) <= Len(q) /\ q[Place(q, k)].ident = k.ident
NewEntry(q, k) == IF Found(q, k) THEN <<>> ELSE <<[ident |-> k.ident, deadline |-> k.deadline]>>
Walked(q, k) == SubSeq(q, Expired(q, Place(q, k)) + 1, Place(q, k) - 1) \o NewEntry(q, k)
                \o SubSeq(q, Place(q, k), Len(q))

\* The walk leaves a list of entries.
LEMMA WalkedIsList ==
  ASSUME NEW q \in Seq(Entry), NEW k \in Kind, now \in Nat
  PROVE  Walked(q, k) \in Seq(Entry) /\ NewEntry(q, k) \in Seq(Entry)
<1>1. PICK j \in 1..(Len(q) + 1) : j = Place(q, k) BY PlaceFacts
<1>2. PICK n \in 0..(j - 1) : n = Expired(q, j) BY ExpiredFacts
<1>3. [ident |-> k.ident, deadline |-> k.deadline] \in Entry BY DEF Entry, Kind
<1>4. NewEntry(q, k) \in Seq(Entry) BY <1>3 DEF NewEntry
<1>5. PICK e \in Seq(Entry) : e = NewEntry(q, k) BY <1>4
<1>6. PICK c \in Nat : c = Len(e) OBVIOUS
<1>7. Walked(q, k) = SubSeq(q, n + 1, j - 1) \o e \o SubSeq(q, j, Len(q))
  BY <1>1, <1>2, <1>5 DEF Walked
<1>8. Walked(q, k) \in Seq(Entry)
  <2>1. Spliced(Entry, q, e, j, n, c, SubSeq(q, n + 1, j - 1) \o e \o SubSeq(q, j, Len(q)))
    BY <1>6, Splice
  <2> QED BY <1>7, <2>1 DEF Spliced
<1> QED BY <1>4, <1>8

\* What a handler may do to the list of known bundles and to the agents.
KnownStep(m, n, k) ==
  \/ n.known = m.known /\ n.delivered = m.delivered
  \/ /\ k.deadline >= now /\ n.known = Walked(m.known, k)
     /\ \/ n.delivered = m.delivered
        \/ ~Found(m.known, k) /\ n.delivered = Append(m.delivered, k.ident)

\* The memory n has the bundles of m, of which only i was touched.
Like(m, i) ==
  {n \in Mem : /\ n.info = m.info /\ n.stored = m.stored
               /\ n.failed_assert = m.failed_assert
               /\ \A j \in 1..MaxId : j # i => n.rc[j] = m.rc[j]
               /\ KnownStep(m, n, m.info[i])}

\* A handler is through with bundle i: it is gone, passed to the router, or
\* stays where it is because custody was requested; there may be reports.
Gone(m, o, i, s) ==
  /\ s.m.stored = (m.stored \cup ((Len(m.info) + 1)..Len(s.m.info))) \ {i}
  /\ Len(s.out) = Len(o) + (Len(s.m.info) - Len(m.info))
Passed(m, o, i, s) ==
  /\ s.m.stored = m.stored \cup ((Len(m.info) + 1)..Len(s.m.info))
  /\ Len(s.out) = Len(o) + (Len(s.m.info) - Len(m.info)) + 1
  /\ s.out[Len(s.out)].id = i /\ s.m.rc[i] \subseteq {"FORWARD", "OWN"}
Stuck(m, o, i, s) ==
  /\ s.m.stored = m.stored \cup ((Len(m.info) + 1)..Len(s.m.info))
  /\ Len(s.out) = Len(o) + (Len(s.m.info) - Len(m.info))
  /\ m.info[i].custody /\ m.info[i].acceptable /\ s.m.rc[i] = {"DISPATCH"}

Handled(m, o, i) ==
  {s \in State :
     LET a == Len(m.info)
         b == Len(s.m.info)
     IN /\ a <= b /\ b <= MaxId
        /\ s.m.failed_assert = m.failed_assert
        /\ KnownStep(m, s.m, m.info[i])
        /\ \A j \in 1..a : s.m.info[j] = m.info[j] /\ (j # i => s.m.rc[j] = m.rc[j])
        /\ \A j \in (a + 1)..b : s.m.rc[j] \subseteq {"FORWARD", "OWN"}
        /\ \A j \in 1..Len(o) : s.out[j] = o[j]
        /\ \A j \in (Len(o) + 1)..(Len(o) + (b - a)) : s.out[j] = Route(a + (j - Len(o)), FALSE)
        /\ Gone(m, o, i, s) \/ Passed(m, o, i, s) \/ Stuck(m, o, i, s)}

ReportsIs(n, o, r, a, b) ==
  /\ a <= b /\ b <= MaxId /\ a \in Nat /\ b \in Nat /\ Len(o) \in Nat /\ Len(r.out) \in Nat
  /\ r \in State /\ r.m \in Mem
  /\ r.m.known = n.known /\ r.m.delivered = n.delivered
  /\ r.m.failed_assert = n.failed_assert
  /\ \A j \in 1..a : r.m.info[j] = n.info[j] /\ r.m.rc[j] = n.rc[j]
  /\ \A j \in (a + 1)..b : r.m.rc[j] \subseteq {"FORWARD", "OWN"}
  /\ r.m.stored = n.stored \cup ((a + 1)..b)
  /\ Len(r.out) = Len(o) + (b - a)
  /\ \A j \in 1..Len(o) : r.out[j] = o[j]
  /\ \A j \in (Len(o) + 1)..Len(r.out) : r.out[j] = Route(a + (j - Len(o)), FALSE)

\* The facts that a memory after reports stands for.
LEMMA ReportsFacts ==
  ASSUME NEW n \in Mem, NEW o \in Seq(Push), NEW r \in Reports(n, o)
  PROVE  ReportsIs(n, o, r, Len(n.info), Len(r.m.info))
<1>1. r \in State /\ r.m \in Mem /\ n.info \in Seq(Origin) /\ r.m.info \in Seq(Origin) /\ r.out \in Seq(Push)
  BY DEF Reports, State, Mem
<1>2. Len(n.info) \in Nat /\ Len(r.m.info) \in Nat /\ Len(o) \in Nat /\ Len(r.out) \in Nat BY <1>1
<1> QED BY <1>1, <1>2 DEF Reports, ReportsIs

RcIs(x, y, i, c) ==
  /\ y \in Mem /\ y.info = x.info /\ y.stored = x.stored /\ y.known = x.known
  /\ y.delivered = x.delivered /\ y.failed_assert = x.failed_assert
  /\ y.rc[i] = c /\ \A j \in 1..MaxId : y.rc[j] = IF j = i THEN c ELSE x.rc[j]

\* bundle_add_rc, bundle_rem_rc: the constraints of one bundle change.
LEMMA RcMem ==
  ASSUME NEW x \in Mem, NEW i \in 1..MaxId, NEW c \in SUBSET Constraint
  PROVE  RcIs(x, [x EXCEPT !.rc[i] = c], i, c)
<1> DEFINE y == [x EXCEPT !.rc[i] = c]
<1>1. x.rc \in [1..MaxId -> SUBSET Constraint] BY DEF Mem
<1>2. [x.rc EXCEPT ![i] = c] \in [1..MaxId -> SUBSET Constraint] BY <1>1
<1>3. y = [x EXCEPT !.rc = [x.rc EXCEPT ![i] = c]] BY DEF Mem
<1>4. /\ y \in Mem /\ y.info = x.info /\ y.stored = x.stored /\ y.known = x.known
      /\ y.delivered = x.delivered /\ y.failed_assert = x.failed_assert
      /\ y.rc = [x.rc EXCEPT ![i] = c]
  BY <1>2, <1>3 DEF Mem
<1> HIDE DEF y
<1>5. \A j \in 1..MaxId : y.rc[j] = IF j = i THEN c ELSE x.rc[j] BY <1>1, <1>4
<1>6. RcIs(x, y, i, c) BY <1>4, <1>5 DEF RcIs
<1> QED BY <1>6 DEF y

\* After reports, the decision about bundle i.
Closes(m, i, r, t) ==
  /\ t \in State /\ t.m.info = r.m.info /\ t.m.failed_assert = r.m.failed_assert
  /\ KnownStep(m, t.m, m.info[i])
  /\ \A j \in 1..MaxId : j # i => t.m.rc[j] = r.m.rc[j]
  /\ \A j \in 1..Len(r.out) : t.out[j] = r.out[j]
  /\ \/ t.m.stored = r.m.stored \ {i} /\ Len(t.out) = Len(r.out)
     \/ /\ t.m.stored = r.m.stored /\ Len(t.out) = Len(r.out) + 1
        /\ t.out[Len(r.out) + 1].id = i /\ t.m.rc[i] \subseteq {"FORWARD", "OWN"}
     \/ /\ t.m.stored = r.m.stored /\ Len(t.out) = Len(r.out)
        /\ m.info[i].custody /\ m.info[i].acceptable /\ t.m.rc[i] = {"DISPATCH"}

\* A handler that first makes reports and then decides has handled the bundle.
LEMMA Close ==
  ASSUME NEW m \in Mem, NEW o \in Seq(Push), NEW i \in 1..Len(m.info),
         NEW n \in Like(m, i), NEW r \in Reports(n, o), NEW t, Closes(m, i, r, t)
  PROVE  t \in Handled(m, o, i)
<1> DEFINE a == Len(m.info)
           b == Len(r.m.info)
<1>1. /\ n \in Mem /\ n.info = m.info /\ n.stored = m.stored /\ n.failed_assert = m.failed_assert
      /\ \A j \in 1..MaxId : j # i => n.rc[j] = m.rc[j]
  BY DEF Like
<1>2. r \in State /\ m.info \in Seq(Origin) /\ r.m.info \in Seq(Origin) /\ r.out \in Seq(Push)
  BY DEF Reports, State, Mem
<1>3. a \in Nat /\ b \in Nat /\ Len(o) \in Nat /\ Len(r.out) \in Nat BY <1>2
<1>4. /\ a <= b /\ b <= MaxId
      /\ r.m.failed_assert = m.failed_assert
      /\ \A j \in 1..a : r.m.info[j] = m.info[j] /\ r.m.rc[j] = n.rc[j]
      /\ \A j \in (a + 1)..b : r.m.rc[j] \subseteq {"FORWARD", "OWN"}
      /\ r.m.stored = m.stored \cup ((a + 1)..b)
      /\ Len(r.out) = Len(o) + (b - a)
      /\ \A j \in 1..Len(o) : r.out[j] = o[j]
      /\ \A j \in (Len(o) + 1)..Len(r.out) : r.out[j] = Route(a + (j - Len(o)), FALSE)
  <2>1. ReportsIs(n, o, r, Len(n.info), b) BY <1>1, ReportsFacts
  <2>2. ReportsIs(n, o, r, a, b) BY <1>1, <2>1
  <2> HIDE DEF a, b
  <2> QED BY <1>1, <2>2 DEF ReportsIs
<1>5. Len(t.m.info) = b BY DEF Closes
<1>6. i \in 1..a /\ a \in Nat BY <1>3
<1> HIDE DEF a, b
<1>7. \A j \in 1..a : t.m.info[j] = m.info[j] /\ (j # i => t.m.rc[j] = m.rc[j])
  <2>1. \A j \in 1..a : j \in 1..MaxId BY <1>3, <1>4, ProcessorAssumption
  <2> QED BY <1>1, <1>4, <2>1 DEF Closes
<1>8. \A j \in (a + 1)..b : t.m.rc[j] \subseteq {"FORWARD", "OWN"}
  <2>1. \A j \in (a + 1)..b : j \in 1..MaxId /\ j # i BY <1>3, <1>4, <1>6, ProcessorAssumption
  <2> QED BY <1>4, <2>1 DEF Closes
<1>9. \A j \in 1..Len(o) : t.out[j] = o[j]
  <2>1. \A j \in 1..Len(o) : j \in 1..Len(r.out) BY <1>3, <1>4
  <2> QED BY <1>4, <2>1 DEF Closes
<1>10. \A j \in (Len(o) + 1)..(Len(o) + (b - a)) : t.out[j] = Route(a + (j - Len(o)), FALSE)
  <2>1. \A j \in (Len(o) + 1)..(Len(o) + (b - a)) : j \in 1..Len(r.out) /\ j \in (Len(o) + 1)..Len(r.out)
    BY <1>3, <1>4
  <2> QED BY <1>4, <2>1 DEF Closes
<1>11. Gone(m, o, i, t) \/ Passed(m, o, i, t) \/ Stuck(m, o, i, t)
  <2>1. CASE t.m.stored = r.m.stored \ {i} /\ Len(t.out) = Len(r.out)
    <3>1. Gone(m, o, i, t) BY <1>4, <1>5, <2>1 DEF Gone, a
    <3> QED BY <3>1
  <2>2. CASE /\ t.m.stored = r.m.stored /\ Len(t.out) = Len(r.out) + 1
             /\ t.out[Len(r.out) + 1].id = i /\ t.m.rc[i] \subseteq {"FORWARD", "OWN"}
    <3>1. Passed(m, o, i, t) BY <1>4, <1>5, <2>2 DEF Passed, a
    <3> QED BY <3>1
  <2>3. CASE /\ t.m.stored = r.m.stored /\ Len(t.out) = Len(r.out)
             /\ m.info[i].custody /\ m.info[i].acceptable /\ t.m.rc[i] = {"DISPATCH"}
    <3>1. Stuck(m, o, i, t) BY <1>4, <1>5, <2>3 DEF Stuck, a
    <3> QED BY <3>1
  <2> QED BY <2>1, <2>2, <2>3 DEF Closes
<1>12. a <= b /\ b <= MaxId /\ t.m.failed_assert = m.failed_assert BY <1>4 DEF Closes
<1>13. t \in State /\ KnownStep(m, t.m, m.info[i]) BY DEF Closes
<1> QED BY <1>13, <1>5, <1>7, <1>8, <1>9, <1>10, <1>11, <1>12 DEF Handled, a

\* Reports do not look at the constraints of the bundle or at the known ones.
Touched(m, o, i, n, c, s) ==
  \E n2 \in Like(m, i) : /\ s \in Reports(n2, o)
                         /\ n2.rc[i] = c /\ n2.known = n.known /\ n2.delivered = n.delivered

\* Reports do not look at the constraints of the bundle, so a change of them may as
\* well have come first.
LEMMA TouchReports ==
  ASSUME NEW m \in Mem, NEW o \in Seq(Push), NEW i \in 1..Len(m.info),
         NEW n \in Like(m, i), NEW r \in Reports(n, o), NEW c \in SUBSET Constraint
  PROVE  Touched(m, o, i, n, c, [r EXCEPT !.m.rc[i] = c])
<1>1. n \in Mem /\ n.info = m.info /\ n.info \in Seq(Origin) BY DEF Like, Mem
<1>2. PICK a, b : a = Len(n.info) /\ b = Len(r.m.info) OBVIOUS
<1>3. /\ a <= b /\ b <= MaxId /\ a \in Nat /\ b \in Nat /\ Len(o) \in Nat /\ Len(r.out) \in Nat
      /\ r \in State /\ r.m \in Mem
      /\ r.m.known = n.known /\ r.m.delivered = n.delivered
      /\ r.m.failed_assert = n.failed_assert
      /\ \A j \in 1..a : r.m.info[j] = n.info[j] /\ r.m.rc[j] = n.rc[j]
      /\ \A j \in (a + 1)..b : r.m.rc[j] \subseteq {"FORWARD", "OWN"}
      /\ r.m.stored = n.stored \cup ((a + 1)..b)
      /\ Len(r.out) = Len(o) + (b - a)
      /\ \A j \in 1..Len(o) : r.out[j] = o[j]
      /\ \A j \in (Len(o) + 1)..Len(r.out) : r.out[j] = Route(a + (j - Len(o)), FALSE)
  <2>1. ReportsIs(n, o, r, a, b) BY <1>1, <1>2, ReportsFacts
  <2> QED BY <2>1 DEF ReportsIs
<1>4. i \in 1..a /\ i \in 1..MaxId
  <2>1. i \in 1..a BY <1>1, <1>2
  <2> QED BY <2>1, <1>3, ProcessorAssumption
<1>5. PICK n2 : n2 = [n EXCEPT !.rc[i] = c] OBVIOUS
<1>6. /\ n2 \in Mem /\ n2.info = n.info /\ n2.stored = n.stored /\ n2.known = n.known
      /\ n2.delivered = n.delivered /\ n2.failed_assert = n.failed_assert
      /\ n2.rc[i] = c /\ \A j \in 1..MaxId : n2.rc[j] = IF j = i THEN c ELSE n.rc[j]
  <2>1. RcIs(n, n2, i, c) BY <1>1, <1>4, <1>5, RcMem
  <2> QED BY <2>1 DEF RcIs
<1>7. n2 \in Like(m, i)
  <2>1. KnownStep(m, n2, m.info[i]) BY <1>6 DEF Like, KnownStep
  <2> QED BY <1>6, <2>1 DEF Like
<1>8. PICK x \in Mem : x = r.m BY <1>3
<1>9. PICK y : y = [x EXCEPT !.rc[i] = c] OBVIOUS
<1>10. /\ y \in Mem /\ y.info = x.info /\ y.stored = x.stored /\ y.known = x.known
       /\ y.delivered = x.delivered /\ y.failed_assert = x.failed_assert
       /\ y.rc[i] = c /\ \A j \in 1..MaxId : y.rc[j] = IF j = i THEN c ELSE x.rc[j]
  <2>1. RcIs(x, y, i, c) BY <1>4, <1>9, RcMem
  <2> QED BY <2>1 DEF RcIs
<1>11. PICK r2 : r2 = [r EXCEPT !.m.rc[i] = c] OBVIOUS
<1>12. r2 \in State /\ r2.m = y /\ r2.out = r.out
  <2>1. r2 = [r EXCEPT !.m = y] BY <1>3, <1>8, <1>9, <1>11 DEF State
  <2> QED BY <1>3, <1>10, <2>1 DEF State
<1>13. \A j \in 1..a : y.info[j] = n2.info[j] /\ y.rc[j] = n2.rc[j]
  <2>1. \A j \in 1..a : j \in 1..MaxId BY <1>3, ProcessorAssumption
  <2> QED BY <1>3, <1>6, <1>8, <1>10, <2>1
<1>14. \A j \in (a + 1)..b : y.rc[j] \subseteq {"FORWARD", "OWN"}
  <2>1. \A j \in (a + 1)..b : j \in 1..MaxId /\ j # i BY <1>3, <1>4, ProcessorAssumption
  <2> QED BY <1>3, <1>8, <1>10, <2>1
<1>15. Len(n2.info) = a /\ Len(y.info) = b /\ y.stored = n2.stored \cup ((a + 1)..b)
       /\ y.known = n2.known /\ y.delivered = n2.delivered /\ y.failed_assert = n2.failed_assert
  BY <1>2, <1>3, <1>6, <1>8, <1>10
<1>16. r2 \in Reports(n2, o) BY <1>3, <1>12, <1>13, <1>14, <1>15 DEF Reports
<1>17. Touched(m, o, i, n, c, r2) BY <1>6, <1>7, <1>16 DEF Touched
<1> QED BY <1>11, <1>17

\* bundle_discard
DiscardIs(s, i, t) ==
  /\ t \in State /\ t.out = s.out
  /\ t.m.info = s.m.info /\ t.m.rc = s.m.rc /\ t.m.known = s.m.known
  /\ t.m.delivered = s.m.delivered
  /\ t.m.stored = s.m.stored \ {i}
  /\ s.m.rc[i] = {} => t.m.failed_assert = s.m.failed_assert

\* bundle_discard: the bundle leaves the storage, and the assertion of bundle_drop
\* holds if no constraint is left.
LEMMA DiscardFacts ==
  ASSUME NEW s \in State, NEW i
  PROVE  DiscardIs(s, i, bundle_discard(s, i))
<1> DEFINE t == bundle_discard(s, i)
<1>1. s.m \in Mem /\ s.out \in Seq(Push) BY DEF State
<1> DEFINE y == bundle_storage_delete(s.m, i)
           x == bundle_drop(y, i)
<1>2. t = [s EXCEPT !.m = x]
  BY DEF bundle_discard
<1>3. /\ x \in Mem /\ x.info = s.m.info /\ x.rc = s.m.rc /\ x.known = s.m.known
      /\ x.delivered = s.m.delivered /\ x.stored = s.m.stored \ {i}
      /\ x.failed_assert = (s.m.failed_assert \/ s.m.rc[i] # {})
  <2>1. /\ y \in Mem /\ y.info = s.m.info /\ y.rc = s.m.rc /\ y.known = s.m.known
        /\ y.delivered = s.m.delivered /\ y.stored = s.m.stored \ {i}
        /\ y.failed_assert = s.m.failed_assert
    BY <1>1 DEF Mem, bundle_storage_delete
  <2> HIDE DEF y
  <2> QED BY <2>1 DEF Mem, bundle_drop
<1> HIDE DEF t, x
<1>4. t.m = x /\ t.out = s.out /\ t \in State BY <1>1, <1>2, <1>3 DEF State
<1>5. s.m.failed_assert \in BOOLEAN BY <1>1 DEF Mem
<1>6. DiscardIs(s, i, t) BY <1>3, <1>4, <1>5 DEF DiscardIs
<1> QED BY <1>6 DEF t

\* A bundle without constraints that is discarded is handled.
LEMMA DiscardHandled ==
  ASSUME NEW m \in Mem, NEW o \in Seq(Push), NEW i \in 1..Len(m.info),
         NEW n \in Like(m, i), NEW r \in Reports(n, o), r.m.rc[i] = {}
  PROVE  bundle_discard(r, i) \in Handled(m, o, i)
<1>1. PICK t : t = bundle_discard(r, i) OBVIOUS
<1>2. n \in Mem /\ r \in State BY DEF Like, Reports
<1>3. DiscardIs(r, i, t) BY <1>1, <1>2, DiscardFacts
<1>4. /\ t \in State /\ t.m.info = r.m.info /\ t.m.failed_assert = r.m.failed_assert
      /\ \A j \in 1..MaxId : j # i => t.m.rc[j] = r.m.rc[j]
      /\ \A j \in 1..Len(r.out) : t.out[j] = r.out[j]
      /\ t.m.stored = r.m.stored \ {i} /\ Len(t.out) = Len(r.out)
  BY <1>3 DEF DiscardIs
<1>5. KnownStep(m, t.m, m.info[i])
  <2>1. KnownStep(m, n, m.info[i]) BY DEF Like
  <2>2. t.m.known = r.m.known /\ t.m.delivered = r.m.delivered BY <1>3 DEF DiscardIs
  <2>3. r.m.known = n.known /\ r.m.delivered = n.delivered BY DEF Reports
  <2> QED BY <2>1, <2>2, <2>3 DEF KnownStep
<1>6. Closes(m, i, r, t) BY <1>4, <1>5 DEF Closes
<1>7. t \in Handled(m, o, i) BY <1>6, Close
<1> QED BY <1>1, <1>7

\* bundle_delete clears all constraints before it discards the bundle.
LEMMA DeleteHandled ==
  ASSUME NEW m \in Mem, NEW o \in Seq(Push), NEW i \in 1..Len(m.info),
         NEW n \in Like(m, i), NEW r \in Reports(n, o)
  PROVE  bundle_delete(r, i) \in Handled(m, o, i)
<1>1. n \in Mem /\ n.info = m.info BY DEF Like
<1>2. PICK u \in Reports(n, o) : u = ReportIf(r, i, "deletion") BY <1>1, StatusReport
<1>3. PICK v : v = [u EXCEPT !.m.rc[i] = {}] OBVIOUS
<1>4. PICK n2 \in Like(m, i) : v \in Reports(n2, o) /\ n2.rc[i] = {}
  <2>1. {} \in SUBSET Constraint OBVIOUS
  <2>2. Touched(m, o, i, n, {}, v) BY <1>3, <2>1, TouchReports
  <2> QED BY <2>2 DEF Touched
<1>5. v.m.rc[i] = {}
  <2>1. n2 \in Mem /\ n2.info = m.info BY DEF Like
  <2>2. \A j \in 1..Len(n2.info) : v.m.rc[j] = n2.rc[j] BY <1>4 DEF Reports
  <2> QED BY <1>4, <2>1, <2>2
<1>6. bundle_discard(v, i) \in Handled(m, o, i) BY <1>4, <1>5, DiscardHandled
<1> QED BY <1>2, <1>3, <1>6 DEF bundle_delete

\* bundle_forward: the bundle is passed to the router, or deleted after its last hop.
LEMMA ForwardHandled ==
  ASSUME NEW m \in Mem, NEW o \in Seq(Push), NEW i \in 1..Len(m.info),
         NEW n \in Like(m, i), NEW r \in Reports(n, o)
  PROVE  bundle_forward(r, i) \in Handled(m, o, i)
<1>1. CASE ~r.m.info[i].hops_left
  BY <1>1, DeleteHandled DEF bundle_forward
<1>2. CASE r.m.info[i].hops_left
  <2> DEFINE c == (r.m.rc[i] \cup {"FORWARD"}) \ {"DISPATCH"}
  <2>1. n \in Mem /\ r \in State /\ r.m \in Mem /\ r.out \in Seq(Push) BY DEF Like, Reports, State
  <2>2. i \in 1..MaxId
    <3>1. ReportsIs(n, o, r, Len(n.info), Len(r.m.info)) BY <2>1, ReportsFacts
    <3>2. n.info = m.info BY DEF Like
    <3> QED BY <3>1, <3>2, ProcessorAssumption DEF ReportsIs
  <2>3. c \in SUBSET Constraint /\ c \subseteq {"FORWARD", "OWN"}
    <3>1. r.m.rc[i] \subseteq Constraint BY <2>1, <2>2 DEF Mem
    <3> QED BY <3>1 DEF Constraint
  <2>4. PICK v : v = [r EXCEPT !.m.rc[i] = c] OBVIOUS
  <2>5. PICK n2 \in Like(m, i) : v \in Reports(n2, o) /\ n2.rc[i] = c
    <3> HIDE DEF c
    <3>1. Touched(m, o, i, n, c, v) BY <2>3, <2>4, TouchReports
    <3> QED BY <3>1 DEF Touched
  <2>6. v \in State /\ v.m \in Mem /\ v.out = r.out /\ Route(i, FALSE) \in Push
    <3>1. v \in State /\ v.m \in Mem BY <2>5 DEF Reports, State
    <3>2. v.out = r.out BY <2>1, <2>4 DEF State
    <3> QED BY <3>1, <3>2, <2>2 DEF Route, Push
  <2>7. v.m.rc[i] = c
    <3>1. n2 \in Mem /\ n2.info = m.info BY DEF Like
    <3>2. \A j \in 1..Len(n2.info) : v.m.rc[j] = n2.rc[j] BY <2>5 DEF Reports
    <3> QED BY <2>5, <3>1, <3>2
  <2>8. PICK e \in Push : e = Route(i, FALSE) BY <2>6
  <2>9. PICK t : t = [v EXCEPT !.out = Append(@, e)] OBVIOUS
  <2>10. /\ Append(r.out, e) \in Seq(Push) /\ Len(Append(r.out, e)) = Len(r.out) + 1
         /\ \A j \in 1..Len(r.out) : Append(r.out, e)[j] = r.out[j]
         /\ Append(r.out, e)[Len(r.out) + 1] = e
    BY <2>1, AppendIs
  <2>11. t \in State /\ t.m = v.m /\ t.out = Append(r.out, e) BY <2>6, <2>9, <2>10 DEF State
  <2>12. e.id = i BY <2>8 DEF Route
  <2>13. KnownStep(m, t.m, m.info[i])
    <3>1. KnownStep(m, n2, m.info[i]) BY DEF Like
    <3>2. v.m.known = n2.known /\ v.m.delivered = n2.delivered BY <2>5 DEF Reports
    <3> QED BY <2>11, <3>1, <3>2 DEF KnownStep
  <2>14. t \in Handled(m, o, i)
    <3> HIDE DEF c
    <3>1. Closes(m, i, v, t) BY <2>3, <2>5, <2>6, <2>7, <2>10, <2>11, <2>12, <2>13 DEF Closes
    <3> QED BY <2>5, <3>1, Close
  <2>15. bundle_forward(r, i) = t
    BY <1>2, <2>1, <2>4, <2>6, <2>8, <2>9 DEF bundle_forward, State
  <2> QED BY <2>14, <2>15
<1> QED BY <1>1, <1>2

\* The known bundles change, nothing else does.
Recorded(m, o, i, n, s) ==
  \E n2 \in Like(m, i) : /\ s \in Reports(n2, o) /\ n2.rc = n.rc
                         /\ n2.known = Walked(m.known, m.info[i]) /\ n2.delivered = m.delivered

\* The walk over the known bundles between the change of the constraints and the
\* reports of a handler.
LEMMA RecordReports ==
  ASSUME NEW m \in Mem, NEW o \in Seq(Push), NEW i \in 1..Len(m.info), now \in Nat,
         NEW n \in Like(m, i), n.known = m.known, n.delivered = m.delivered,
         NEW r \in Reports(n, o), m.info[i].deadline >= now
  PROVE  Recorded(m, o, i, n, Record(r, m.info[i]))
<1>1. n \in Mem /\ n.info = m.info /\ m.info \in Seq(Origin) BY DEF Like, Mem
<1>2. PICK k \in Kind : k = m.info[i]
  <2>1. m.info[i] \in Origin BY <1>1
  <2> QED BY <2>1 DEF Origin
<1>3. PICK a, b : a = Len(n.info) /\ b = Len(r.m.info) OBVIOUS
<1>4. ReportsIs(n, o, r, a, b) BY <1>1, <1>3, ReportsFacts
<1>5. r \in State /\ r.m \in Mem /\ r.out \in Seq(Push) BY DEF Reports, State
<1>6. m.known \in Seq(Entry) /\ r.m.known = m.known BY <1>4 DEF Mem, ReportsIs
<1>7. PICK q \in Seq(Entry) : q = Walked(m.known, k) BY <1>2, <1>6, WalkedIsList
<1>8. PICK n2 : n2 = [n EXCEPT !.known = q] OBVIOUS
<1>9. /\ n2 \in Mem /\ n2.info = n.info /\ n2.stored = n.stored /\ n2.rc = n.rc
      /\ n2.known = q /\ n2.delivered = n.delivered /\ n2.failed_assert = n.failed_assert
  BY <1>1, <1>8 DEF Mem
<1>10. n2 \in Like(m, i)
  <2>1. KnownStep(m, n2, m.info[i]) BY <1>2, <1>7, <1>9 DEF KnownStep
  <2> QED BY <1>9, <2>1 DEF Like
<1>11. PICK y : y = [r.m EXCEPT !.known = q] OBVIOUS
<1>12. /\ y \in Mem /\ y.info = r.m.info /\ y.stored = r.m.stored /\ y.rc = r.m.rc
       /\ y.known = q /\ y.delivered = r.m.delivered /\ y.failed_assert = r.m.failed_assert
  BY <1>5, <1>11 DEF Mem
<1>13. PICK r2 : r2 = [r EXCEPT !.m = y] OBVIOUS
<1>14. r2 \in State /\ r2.m = y /\ r2.out = r.out BY <1>5, <1>12, <1>13 DEF State
<1>15. r2 \in Reports(n2, o)
  <2>1. Len(n2.info) = a /\ Len(y.info) = b BY <1>3, <1>9, <1>12
  <2>2. /\ y.known = n2.known /\ y.delivered = n2.delivered /\ y.failed_assert = n2.failed_assert
        /\ y.stored = n2.stored \cup ((a + 1)..b) /\ a <= b /\ b <= MaxId
        /\ \A j \in 1..a : y.info[j] = n2.info[j] /\ y.rc[j] = n2.rc[j]
        /\ \A j \in (a + 1)..b : y.rc[j] \subseteq {"FORWARD", "OWN"}
    BY <1>4, <1>9, <1>12 DEF ReportsIs
  <2>3. /\ Len(r.out) = Len(o) + (b - a)
        /\ \A j \in 1..Len(o) : r.out[j] = o[j]
        /\ \A j \in (Len(o) + 1)..Len(r.out) : r.out[j] = Route(a + (j - Len(o)), FALSE)
    BY <1>4 DEF ReportsIs
  <2> QED BY <1>14, <2>1, <2>2, <2>3 DEF Reports
<1>16. Record(r, k) = r2
  <2>1. Known(r, k) <=> Found(m.known, k) BY <1>6 DEF Known, Found
  <2>2. Record(r, k) = [r EXCEPT !.m.known = Walked(m.known, k)]
    BY <1>6, <2>1 DEF Record, Walked, NewEntry
  <2>3. [r EXCEPT !.m.known = q] = [r EXCEPT !.m = y] BY <1>5, <1>11 DEF State
  <2> QED BY <1>7, <1>13, <2>2, <2>3
<1>17. Recorded(m, o, i, n, r2) BY <1>2, <1>7, <1>9, <1>10, <1>15 DEF Recorded
<1> QED BY <1>2, <1>16, <1>17

\* The constraints of the bundle are the same after reports.
LEMMA ReportsRc ==
  ASSUME NEW m \in Mem, NEW o \in Seq(Push), NEW i \in 1..Len(m.info), NEW n \in Like(m, i),
         NEW r \in Reports(n, o)
  PROVE  r.m.rc[i] = n.rc[i] /\ r.m.info[i] = m.info[i] /\ i \in 1..MaxId /\ r \in State
         /\ n.rc[i] \in SUBSET Constraint /\ r.m.known = n.known /\ r.m.delivered = n.delivered
<1>1. n \in Mem /\ n.info = m.info BY DEF Like
<1>2. ReportsIs(n, o, r, Len(m.info), Len(r.m.info)) BY <1>1, ReportsFacts
<1>3. i \in 1..MaxId BY <1>2, ProcessorAssumption DEF ReportsIs
<1>4. n.rc[i] \in SUBSET Constraint BY <1>1, <1>3 DEF Mem
<1> QED BY <1>1, <1>2, <1>3, <1>4 DEF ReportsIs

\* bundle_deliver_local discards without clearing the constraints: DISPATCH must be
\* the only one, and is removed first.
LEMMA DeliverHandled ==
  ASSUME NEW m \in Mem, NEW o \in Seq(Push), NEW i \in 1..Len(m.info), now \in Nat,
         NEW n \in Like(m, i), n.known = m.known, n.delivered = m.delivered,
         n.rc[i] \subseteq {"DISPATCH"}, NEW r \in Reports(n, o)
  PROVE  bundle_deliver_local(r, i) \in Handled(m, o, i)
<1>1. /\ r.m.rc[i] = n.rc[i] /\ r.m.info[i] = m.info[i] /\ i \in 1..MaxId
      /\ r.m.known = m.known /\ r.m.delivered = m.delivered
  BY ReportsRc
<1>2. PICK k \in Kind : k = m.info[i]
  <2>1. m.info[i] \in Origin BY DEF Mem
  <2> QED BY <2>1 DEF Origin
<1>3. PICK s1 : s1 = rem_rc(r, i, "DISPATCH") OBVIOUS
<1>4. PICK n1 \in Like(m, i) : /\ s1 \in Reports(n1, o) /\ n1.rc[i] = {}
                              /\ n1.known = m.known /\ n1.delivered = m.delivered
  <2>1. n.rc[i] \ {"DISPATCH"} = {} OBVIOUS
  <2>2. s1 = [r EXCEPT !.m.rc[i] = {}] BY <1>1, <1>3, <2>1 DEF rem_rc
  <2>3. {} \in SUBSET Constraint OBVIOUS
  <2>4. Touched(m, o, i, n, {}, s1) BY <2>2, <2>3, TouchReports
  <2> QED BY <2>4 DEF Touched
<1>5. s1.m.rc[i] = {} /\ s1.m.known = m.known BY <1>4, ReportsRc
<1>6. CASE k.deadline < now
  <2>1. bundle_discard(s1, i) \in Handled(m, o, i) BY <1>4, <1>5, DiscardHandled
  <2> QED BY <1>1, <1>2, <1>3, <1>6, <2>1 DEF bundle_deliver_local
<1>7. CASE ~(k.deadline < now)
  <2>1. m.info[i].deadline >= now BY <1>2, <1>7 DEF Kind
  <2>2. PICK s2 : s2 = Record(s1, k) OBVIOUS
  <2>3. Recorded(m, o, i, n1, s2) BY <1>2, <1>4, <2>1, <2>2, RecordReports
  <2>4. PICK n2 \in Like(m, i) : /\ s2 \in Reports(n2, o) /\ n2.rc[i] = {}
                                /\ n2.known = Walked(m.known, k) /\ n2.delivered = m.delivered
    BY <1>2, <1>4, <2>3 DEF Recorded
  <2>5. CASE Known(s1, k)
    <3>1. s2.m.rc[i] = {} BY <2>4, ReportsRc
    <3>2. bundle_discard(s2, i) \in Handled(m, o, i) BY <2>4, <3>1, DiscardHandled
    <3> QED BY <1>1, <1>2, <1>3, <1>7, <2>2, <2>5, <3>2 DEF bundle_deliver_local
  <2>6. CASE ~Known(s1, k)
    <3>1. n2 \in Mem /\ n2.info = m.info BY DEF Like
    <3>2. PICK s3 \in Reports(n2, o) : s3 = ReportIf(s2, i, "delivery") BY <2>4, <3>1, StatusReport
    <3>3. /\ s3.m.rc[i] = {} /\ s3 \in State /\ s3.m.known = Walked(m.known, k)
          /\ s3.m.delivered = m.delivered
      BY <2>4, <3>2, ReportsRc
    <3>4. CASE k.dest = "local"
      <4>1. bundle_delete(s3, i) \in Handled(m, o, i) BY <3>2, DeleteHandled
      <4> QED BY <1>1, <1>2, <1>3, <1>7, <2>2, <2>6, <3>2, <3>4, <4>1 DEF bundle_deliver_local
    <3>5. CASE k.dest # "local"
      <4>1. PICK s4 : s4 = bundle_discard(s3, i) OBVIOUS
      <4>2. DiscardIs(s3, i, s4) BY <3>3, <4>1, DiscardFacts
      <4>3. bundle_deliver_local(r, i) = bundle_deliver_adu(s4, k)
        BY <1>1, <1>2, <1>3, <1>7, <2>2, <2>6, <3>2, <3>5, <4>1 DEF bundle_deliver_local
      <4>4. CASE k.dest = "record"
        <5>1. s4 \in Handled(m, o, i) BY <3>2, <3>3, <4>1, DiscardHandled
        <5> QED BY <4>3, <4>4, <5>1 DEF bundle_deliver_adu
      <4>5. CASE k.dest # "record"
        <5>1. ~Found(m.known, k) BY <1>5, <2>6 DEF Known, Found
        <5>2. k.ident \in Nat BY DEF Kind
        <5>3. PICK d \in Seq(Nat) : d = Append(m.delivered, k.ident)
          <6>1. m.delivered \in Seq(Nat) BY DEF Mem
          <6>2. PICK x \in Nat : x = k.ident BY <5>2
          <6>3. Append(m.delivered, x) \in Seq(Nat) BY <6>1
          <6> QED BY <6>2, <6>3
        <5>4. s4 \in State /\ s4.m \in Mem /\ s4.m.delivered = m.delivered
          BY <3>3, <4>2 DEF DiscardIs, State
        <5>5. PICK y : y = [s4.m EXCEPT !.delivered = d] OBVIOUS
        <5>6. /\ y \in Mem /\ y.info = s4.m.info /\ y.stored = s4.m.stored /\ y.rc = s4.m.rc
              /\ y.known = s4.m.known /\ y.delivered = d /\ y.failed_assert = s4.m.failed_assert
          BY <5>4, <5>5 DEF Mem
        <5>7. PICK t : t = [s4 EXCEPT !.m = y] OBVIOUS
        <5>8. t \in State /\ t.m = y /\ t.out = s4.out BY <5>4, <5>6, <5>7 DEF State
        <5>9. bundle_deliver_adu(s4, k) = t
          BY <4>5, <5>3, <5>4, <5>5, <5>7 DEF bundle_deliver_adu, State
        <5>10. KnownStep(m, t.m, m.info[i])
          <6>1. t.m.known = Walked(m.known, k) /\ t.m.delivered = Append(m.delivered, k.ident)
            BY <3>3, <4>2, <5>3, <5>6, <5>8 DEF DiscardIs
          <6> QED BY <1>2, <2>1, <5>1, <6>1 DEF KnownStep
        <5>11. Closes(m, i, s3, t)
          <6>1. /\ t.m.info = s3.m.info /\ t.m.rc = s3.m.rc /\ t.out = s3.out
                /\ t.m.stored = s3.m.stored \ {i} /\ t.m.failed_assert = s3.m.failed_assert
            BY <3>3, <4>2, <5>6, <5>8 DEF DiscardIs
          <6> QED BY <5>8, <5>10, <6>1 DEF Closes
        <5>12. t \in Handled(m, o, i) BY <3>2, <5>11, Close
        <5> QED BY <4>3, <5>9, <5>12
      <4> QED BY <4>4, <4>5
    <3> QED BY <3>4, <3>5
  <2> QED BY <2>5, <2>6
<1> QED BY <1>6, <1>7

\* A handler begins without reports.
LEMMA BeginReports ==
  ASSUME NEW m \in Mem, Len(m.info) <= MaxId, NEW o \in Seq(Push), NEW i
  PROVE  m \in Like(m, i) /\ [m |-> m, out |-> o] \in Reports(m, o)
<1>1. m \in Like(m, i) BY DEF Like, KnownStep
<1>2. PICK s : s = [m |-> m, out |-> o] OBVIOUS
<1>3. s \in State /\ s.m = m /\ s.out = o BY <1>2 DEF State
<1>4. PICK a \in Nat : a = Len(m.info)
  <2>1. m.info \in Seq(Origin) BY DEF Mem
  <2> QED BY <2>1
<1>5. (a + 1)..a = {} /\ a - a = 0 /\ Len(o) \in Nat BY <1>4
<1>6. (Len(o) + 1)..Len(o) = {} BY <1>5
<1>7. s \in Reports(m, o)
  <2>1. /\ Len(s.m.info) = a /\ a <= a /\ Len(s.out) = Len(o) /\ Len(o) = Len(o) + (a - a)
        /\ s.m.stored = m.stored \cup ((a + 1)..a)
    BY <1>3, <1>4, <1>5
  <2>2. \A j \in (a + 1)..a : FALSE BY <1>5
  <2>3. \A j \in (Len(o) + 1)..Len(s.out) : FALSE BY <1>3, <1>6
  <2> QED BY <1>3, <1>4, <2>1, <2>2, <2>3 DEF Reports
<1> QED BY <1>1, <1>2, <1>7

\* bundle_dispatch: a bundle is forwarded or delivered.
LEMMA DispatchHandled ==
  ASSUME NEW m \in Mem, NEW o \in Seq(Push), NEW i \in 1..Len(m.info), now \in Nat,
         NEW n \in Like(m, i), n.known = m.known, n.delivered = m.delivered,
         n.rc[i] \subseteq {"DISPATCH"}, NEW r \in Reports(n, o)
  PROVE  bundle_dispatch(r, i) \in Handled(m, o, i)
BY ForwardHandled, DeliverHandled DEF bundle_dispatch

\* bundle_receive: every way through the checks of a new bundle ends with the bundle
\* dispatched, deleted, or stored with DISPATCH until a custodian takes it.
LEMMA ReceiveHandled ==
  ASSUME NEW m \in Mem, Len(m.info) <= MaxId, NEW o \in Seq(Push), NEW i \in 1..Len(m.info),
         now \in Nat, m.rc[i] = {}
  PROVE  bundle_receive([m |-> m, out |-> o], i) \in Handled(m, o, i)
<1>1. PICK s \in Reports(m, o) : s = [m |-> m, out |-> o] BY BeginReports
<1>2. m \in Like(m, i) BY BeginReports
<1>3. s.m.rc[i] = {} /\ s.m.info[i] = m.info[i] BY <1>1
<1>4. PICK k \in Kind : k = m.info[i]
  <2>1. m.info[i] \in Origin BY DEF Mem
  <2> QED BY <2>1 DEF Origin
<1>5. PICK s0 : s0 = [s EXCEPT !.m.rc[i] = @ \cup {"DISPATCH"}] OBVIOUS
<1>6. PICK n \in Like(m, i) : /\ s0 \in Reports(n, o) /\ n.rc[i] = {"DISPATCH"}
                             /\ n.known = m.known /\ n.delivered = m.delivered
  <2>1. s0 = [s EXCEPT !.m.rc[i] = {"DISPATCH"}] BY <1>3, <1>5
  <2>2. {"DISPATCH"} \in SUBSET Constraint BY DEF Constraint
  <2>3. Touched(m, o, i, m, {"DISPATCH"}, s0) BY <1>1, <1>2, <2>1, <2>2, TouchReports
  <2> QED BY <2>3 DEF Touched
<1>7. n \in Mem /\ n.info = m.info BY DEF Like
<1>8. PICK s1 \in Reports(n, o) : s1 = ReportIf(s0, i, "reception") BY <1>6, <1>7, StatusReport
<1>9. PICK blocks : blocks = handle_blocks(s1, i) OBVIOUS
<1>10. PICK s2 \in Reports(n, o) : s2 = blocks.s BY <1>7, <1>8, <1>9, BlocksReports
<1>11. bundle_receive(s, i) =
         IF k.deadline < now THEN bundle_delete(s1, i)
         ELSE IF blocks.deleted THEN bundle_delete(s2, i)
         ELSE IF ~(k.custody /\ k.version = 6) THEN bundle_dispatch(s2, i)
         ELSE IF ~k.acceptable THEN bundle_delete(send_custody_signal(s2, i), i)
         ELSE s2
  BY <1>3, <1>4, <1>5, <1>8, <1>9, <1>10 DEF bundle_receive
<1>12. bundle_delete(s1, i) \in Handled(m, o, i) BY <1>8, DeleteHandled
<1>13. bundle_delete(s2, i) \in Handled(m, o, i) BY <1>10, DeleteHandled
<1>14. bundle_dispatch(s2, i) \in Handled(m, o, i)
  <2>1. n.rc[i] \subseteq {"DISPATCH"} BY <1>6
  <2> QED BY <1>6, <1>10, <2>1, DispatchHandled
<1>15. bundle_delete(send_custody_signal(s2, i), i) \in Handled(m, o, i)
  <2>1. send_custody_signal(s2, i) \in Reports(n, o) BY <1>7, <1>10, StatusReport
  <2> QED BY <2>1, DeleteHandled
<1>16. ASSUME k.custody, k.acceptable PROVE s2 \in Handled(m, o, i)
  <2>1. /\ s2 \in State /\ s2.m.rc[i] = {"DISPATCH"}
        /\ s2.m.known = m.known /\ s2.m.delivered = m.delivered
    BY <1>6, <1>10, ReportsRc
  <2>2. KnownStep(m, s2.m, m.info[i]) BY <2>1 DEF KnownStep
  <2>3. Closes(m, i, s2, s2) BY <1>4, <1>16, <2>1, <2>2 DEF Closes
  <2> QED BY <1>10, <2>3, Close
<1>17. bundle_receive(s, i) \in Handled(m, o, i)
  <2>1. k.custody \in BOOLEAN /\ k.acceptable \in BOOLEAN BY DEF Kind
  <2> QED BY <1>11, <1>12, <1>13, <1>14, <1>15, <1>16, <2>1
<1> QED BY <1>1, <1>17

\* bundle_forwarding_success removes FORWARD and OWN and discards the bundle: the
\* router reports nothing about a bundle that still has to be dispatched.
LEMMA SuccessHandled ==
  ASSUME NEW m \in Mem, Len(m.info) <= MaxId, NEW o \in Seq(Push), NEW i \in 1..Len(m.info),
         "DISPATCH" \notin m.rc[i]
  PROVE  bundle_forwarding_success([m |-> m, out |-> o], i) \in Handled(m, o, i)
<1>1. PICK s \in Reports(m, o) : s = [m |-> m, out |-> o] BY BeginReports
<1>2. m \in Like(m, i) BY BeginReports
<1>3. PICK u \in Reports(m, o) : u = ReportIf(s, i, "forwarding") BY <1>1, StatusReport
<1>4. /\ u.m.rc[i] = m.rc[i] /\ m.rc[i] \in SUBSET Constraint
  BY <1>2, <1>3, ReportsRc
<1>5. PICK c \in SUBSET Constraint : c = m.rc[i] \ {"FORWARD"} BY <1>4
<1>6. PICK v : v = rem_rc(u, i, "FORWARD") OBVIOUS
<1>7. PICK n \in Like(m, i) : v \in Reports(n, o) /\ n.rc[i] = c
  <2>1. v = [u EXCEPT !.m.rc[i] = c] BY <1>4, <1>5, <1>6 DEF rem_rc
  <2>2. Touched(m, o, i, m, c, v) BY <1>2, <1>3, <2>1, TouchReports
  <2> QED BY <2>2 DEF Touched
<1>8. v.m.rc[i] = c BY <1>7, ReportsRc
<1>9. c \ {"OWN"} = {} BY <1>5 DEF Constraint
<1>10. PICK w : w = rem_rc(v, i, "OWN") OBVIOUS
<1>11. PICK n2 \in Like(m, i) : w \in Reports(n2, o) /\ n2.rc[i] = {}
  <2>1. w = [v EXCEPT !.m.rc[i] = {}] BY <1>8, <1>9, <1>10 DEF rem_rc
  <2>2. {} \in SUBSET Constraint OBVIOUS
  <2>3. Touched(m, o, i, n, {}, w) BY <1>7, <2>1, <2>2, TouchReports
  <2> QED BY <2>3 DEF Touched
<1>12. w.m.rc[i] = {} BY <1>11, ReportsRc
<1>13. bundle_discard(w, i) \in Handled(m, o, i) BY <1>11, <1>12, DiscardHandled
<1> QED BY <1>1, <1>3, <1>6, <1>10, <1>12, <1>13 DEF bundle_forwarding_success

\* bundle_forwarding_failed, and the deletion after a timeout: the bundle is deleted.
LEMMA FailedHandled ==
  ASSUME NEW m \in Mem, Len(m.info) <= MaxId, NEW o \in Seq(Push), NEW i \in 1..Len(m.info)
  PROVE  /\ bundle_forwarding_failed([m |-> m, out |-> o], i) \in Handled(m, o, i)
         /\ bundle_delete([m |-> m, out |-> o], i) \in Handled(m, o, i)
<1>1. PICK s \in Reports(m, o) : s = [m |-> m, out |-> o] BY BeginReports
<1>2. m \in Like(m, i) BY BeginReports
<1>3. send_custody_signal(s, i) \in Reports(m, o) BY <1>1, StatusReport
<1>4. bundle_delete(s, i) \in Handled(m, o, i) BY <1>1, <1>2, DeleteHandled
<1>5. bundle_delete(send_custody_signal(s, i), i) \in Handled(m, o, i) BY <1>2, <1>3, DeleteHandled
<1> QED BY <1>1, <1>4, <1>5 DEF bundle_forwarding_failed

\* bundle_dangling: what this node made itself is routed again, the rest deleted.
LEMMA DanglingHandled ==
  ASSUME NEW m \in Mem, Len(m.info) <= MaxId, NEW o \in Seq(Push), NEW i \in 1..Len(m.info),
         "DISPATCH" \notin m.rc[i]
  PROVE  bundle_dangling([m |-> m, out |-> o], i) \in Handled(m, o, i)
<1>1. PICK s \in Reports(m, o) : s = [m |-> m, out |-> o] BY BeginReports
<1>2. m \in Like(m, i) BY BeginReports
<1>3. /\ s.m.rc[i] = m.rc[i] /\ m.rc[i] \in SUBSET Constraint /\ i \in 1..MaxId /\ s \in State
  BY <1>1, <1>2, ReportsRc
<1>4. bundle_delete(s, i) \in Handled(m, o, i) BY <1>1, <1>2, DeleteHandled
<1>5. PICK e \in Push : e = Route(i, TRUE) BY <1>3 DEF Route, Push
<1>6. PICK t : t = [s EXCEPT !.out = Append(@, e)] OBVIOUS
<1>7. /\ Append(o, e) \in Seq(Push) /\ Len(Append(o, e)) = Len(o) + 1
      /\ \A j \in 1..Len(o) : Append(o, e)[j] = o[j]
      /\ Append(o, e)[Len(o) + 1] = e
  BY AppendIs
<1>8. t \in State /\ t.m = s.m /\ t.out = Append(o, e) /\ s.out = o /\ s.m = m
  BY <1>1, <1>3, <1>6, <1>7 DEF State
<1>9. e.id = i BY <1>5 DEF Route
<1>10. KnownStep(m, t.m, m.info[i]) BY <1>8 DEF KnownStep
<1>11. m.rc[i] \subseteq {"FORWARD", "OWN"} BY <1>3 DEF Constraint
<1>12. Closes(m, i, s, t) BY <1>7, <1>8, <1>9, <1>10, <1>11 DEF Closes
<1>13. t \in Handled(m, o, i) BY <1>1, <1>2, <1>12, Close
<1> QED BY <1>1, <1>4, <1>5, <1>6, <1>13 DEF bundle_dangling

BpType == {"INCOMING", "LOCAL_DISPATCH", "CONTRAINDICATED", "FAILURE", "RESCHEDULE", "SUCCESS"}

\* handle_signal: each signal but ROUTED has a handler, which is through with the
\* bundle when it returns.
LEMMA SignalHandled ==
  ASSUME NEW m \in Mem, Len(m.info) <= MaxId, NEW i \in 1..Len(m.info), now \in Nat,
         NEW sig, sig.id = i, sig.type \in BpType, i \in m.stored, "DISPATCH" \notin m.rc[i],
         sig.type \in {"INCOMING", "LOCAL_DISPATCH"} => m.rc[i] = {}
  PROVE  handle_signal([m |-> m, out |-> <<>>], sig) \in Handled(m, <<>>, i)
<1>1. PICK o \in Seq(Push) : o = <<>>
  <2>1. <<>> \in Seq(Push) BY EmptySeq
  <2> QED BY <2>1
<1>2. PICK s : s = [m |-> m, out |-> o] OBVIOUS
<1>3. sig.id \in s.m.stored BY <1>2
<1>4. CASE sig.type = "INCOMING"
  <2>1. bundle_receive(s, i) \in Handled(m, o, i) BY <1>2, <1>4, ReceiveHandled
  <2> QED BY <1>1, <1>2, <1>3, <1>4, <2>1 DEF handle_signal
<1>5. CASE sig.type = "LOCAL_DISPATCH"
  <2>1. m \in Like(m, i) /\ s \in Reports(m, o) /\ m.rc[i] \subseteq {"DISPATCH"} BY <1>2, <1>5, BeginReports
  <2>2. bundle_dispatch(s, i) \in Handled(m, o, i) BY <2>1, DispatchHandled
  <2> QED BY <1>1, <1>2, <1>3, <1>5, <2>2 DEF handle_signal
<1>6. CASE sig.type \in {"CONTRAINDICATED", "FAILURE"}
  <2>1. bundle_forwarding_failed(s, i) \in Handled(m, o, i) BY <1>2, FailedHandled
  <2> QED BY <1>1, <1>2, <1>3, <1>6, <2>1 DEF handle_signal
<1>7. CASE sig.type = "RESCHEDULE"
  <2>1. bundle_dangling(s, i) \in Handled(m, o, i) BY <1>2, DanglingHandled
  <2> QED BY <1>1, <1>2, <1>3, <1>7, <2>1 DEF handle_signal
<1>8. CASE sig.type = "SUCCESS"
  <2>1. bundle_forwarding_success(s, i) \in Handled(m, o, i) BY <1>2, SuccessHandled
  <2> QED BY <1>1, <1>2, <1>3, <1>8, <2>1 DEF handle_signal
<1> QED BY <1>4, <1>5, <1>6, <1>7, <1>8 DEF BpType

-----------------------------------------------------------------------------
(***************************************************************************)
(* The inductive invariant                                                 *)
(***************************************************************************)
RouterType == {"CONTRAINDICATED", "FAILURE", "RESCHEDULE", "SUCCESS", "ROUTED"}
QueueType == {"route", "SUCCESS", "FAILURE", "over"}
BSig(n) == [type : BpType \cup {"ROUTED"}, id : 1..n]
RSig(n) == [type : RouterType, id : 1..n]
QSig(n) == [type : QueueType, id : 0..n]
AnySig == [type : BpType \cup {"ROUTED"} \cup QueueType, id : Nat]

\* The ids in a queue whose signal makes its receiver act on the bundle; ids are
\* not 0, the end of a contact has that one.
Carried(q) == {q[j].id : j \in Signals(q)} \ {0}
Single(q) == \A j, h \in Signals(q) : q[j].id = q[h].id /\ q[j].id # 0 => j = h
Pushed(o) == {o[j].id : j \in DOMAIN o}
SinglePush(o) == \A j, h \in DOMAIN o : o[j].id = o[h].id => j = h

Typed ==
  /\ now \in Nat /\ mem \in Mem /\ Len(mem.info) <= MaxId
  /\ mem.stored \subseteq 1..Len(mem.info) /\ sched \subseteq 1..Len(mem.info)
  /\ bq \in Seq(BSig(Len(mem.info)))
  /\ router_out \in Seq(RSig(Len(mem.info)))
  /\ rq \in Seq(QSig(Len(mem.info)))
  /\ \A j \in DOMAIN rq : rq[j].type = "over" <=> rq[j].id = 0
  /\ bp_out \in Seq(Push) /\ \A j \in DOMAIN bp_out : bp_out[j].id <= Len(mem.info)
  /\ Len(bq) <= BpLength /\ Len(rq) <= RouterLength

\* The ids in the five places: no two places have one in common; router and TX
\* tasks have stored ones; what is stored and nowhere waits for a custodian.
Apart(A, B, C, D, E) ==
  /\ A \cap B = {} /\ A \cap C = {} /\ A \cap D = {} /\ A \cap E = {}
  /\ B \cap C = {} /\ B \cap D = {} /\ B \cap E = {}
  /\ C \cap D = {} /\ C \cap E = {} /\ D \cap E = {}
Waits(m, i) == m.info[i].custody /\ m.info[i].acceptable /\ m.rc[i] = {"DISPATCH"}
OwnedBut(A, B, C, D, E, m, X) ==
  /\ Apart(A, B, C, D, E) /\ A \cup B \cup C \cup D \cup E \subseteq 1..Len(m.info)
  /\ B \cup D \cup E \subseteq m.stored
  /\ X \cap (A \cup B \cup C \cup D \cup E) = {}
  /\ \A i \in m.stored \ X : IF i \in A \cup B \cup C \cup D \cup E
                             THEN "DISPATCH" \notin m.rc[i] ELSE Waits(m, i)

Fresh(q, m) == \A j \in DOMAIN q :
  q[j].type \in {"INCOMING", "LOCAL_DISPATCH"} /\ q[j].id \in m.stored => m.rc[q[j].id] = {}

Owned ==
  /\ Single(bq) /\ Single(rq) /\ Single(router_out) /\ SinglePush(bp_out)
  /\ OwnedBut(Carried(bq), Carried(rq), Carried(router_out), Pushed(bp_out), sched, mem, {})
  /\ Fresh(bq, mem)
  /\ mem.failed_assert = FALSE

Inv == Typed /\ Owned

-----------------------------------------------------------------------------
\* A signal at the end of a queue, and one taken from its front.
Weight(e) == IF e.type = "ROUTED" \/ e.id = 0 THEN {} ELSE {e.id}

AppendIsCarried(q, e, r) ==
  Carried(r) = Carried(q) \cup Weight(e) /\ (Weight(e) \cap Carried(q) = {} /\ Single(q) => Single(r))

\* A signal at the end of a queue brings its bundle with it.
LEMMA AppendCarried ==
  ASSUME NEW q \in Seq(AnySig), NEW e \in AnySig
  PROVE  AppendIsCarried(q, e, Append(q, e))
<1>1. PICK n \in Nat : n = Len(q) OBVIOUS
<1>2. PICK r : r = Append(q, e) /\ n = Len(q) BY <1>1
<1>3. /\ DOMAIN r = 1..(n + 1) /\ DOMAIN q = 1..n /\ r[n + 1] = e
      /\ \A j \in 1..n : r[j] = q[j]
  BY <1>2
<1>4. \A j : j \in 1..(n + 1) <=> (j \in 1..n \/ j = n + 1) BY <1>2
<1>5. \A j : j \in Signals(r) <=> (j \in Signals(q) \/ (j = n + 1 /\ e.type # "ROUTED"))
  BY <1>3, <1>4 DEF Signals
<1>6. \A j \in Signals(q) : r[j] = q[j] /\ j # n + 1 BY <1>2, <1>3 DEF Signals
<1>7. Carried(r) = Carried(q) \cup Weight(e)
  BY <1>3, <1>5, <1>6 DEF Carried, Weight
<1>8. ASSUME Weight(e) \cap Carried(q) = {}, Single(q) PROVE Single(r)
  <2>1. SUFFICES ASSUME NEW j \in Signals(r), NEW h \in Signals(r), r[j].id = r[h].id, r[j].id # 0
                 PROVE  j = h
    BY DEF Single
  <2>2. \A x \in Signals(q) : q[x].id # 0 => q[x].id \in Carried(q) BY DEF Carried
  <2>3. CASE j \in Signals(q) /\ h \in Signals(q) BY <1>6, <1>8, <2>1, <2>3 DEF Single
  <2>4. CASE j \in Signals(q) /\ h \notin Signals(q)
    <3>1. h = n + 1 /\ e.type # "ROUTED" /\ r[h] = e BY <1>3, <1>5, <2>4
    <3>2. e.id \in Carried(q) /\ e.id \in Weight(e) BY <1>6, <2>1, <2>2, <2>4, <3>1 DEF Weight
    <3> QED BY <1>8, <3>2
  <2>5. CASE j \notin Signals(q) /\ h \in Signals(q)
    <3>1. j = n + 1 /\ e.type # "ROUTED" /\ r[j] = e BY <1>3, <1>5, <2>5
    <3>2. e.id \in Carried(q) /\ e.id \in Weight(e) BY <1>6, <2>1, <2>2, <2>5, <3>1 DEF Weight
    <3> QED BY <1>8, <3>2
  <2>6. CASE j \notin Signals(q) /\ h \notin Signals(q) BY <1>5, <2>6
  <2> QED BY <2>3, <2>4, <2>5, <2>6
<1>9. AppendIsCarried(q, e, r) BY <1>7, <1>8 DEF AppendIsCarried
<1> QED BY <1>2, <1>9

TailIsCarried(q, r) ==
  Carried(r) = Carried(q) \ Weight(q[1]) /\ Weight(q[1]) \subseteq Carried(q) /\ Single(r)

\* A signal taken from the front of a queue takes its bundle away.
LEMMA TailCarried ==
  ASSUME NEW q \in Seq(AnySig), q # <<>>, Single(q)
  PROVE  TailIsCarried(q, Tail(q)) /\ Head(q) = q[1] /\ 1 \in DOMAIN q
<1>1. PICK n \in Nat : n = Len(q) OBVIOUS
<1>2. PICK r : r = Tail(q) /\ n = Len(q) BY <1>1
<1>3. /\ n >= 1 /\ DOMAIN q = 1..n /\ DOMAIN r = 1..(n - 1) /\ Head(q) = q[1]
      /\ \A j \in 1..(n - 1) : r[j] = q[j + 1]
  BY <1>2
<1>4. 1 \in DOMAIN q BY <1>2, <1>3
<1>5. \A j \in Signals(r) : j + 1 \in Signals(q) /\ r[j] = q[j + 1] /\ j + 1 # 1 /\ j \in Nat
  BY <1>2, <1>3 DEF Signals
<1>6. \A h \in Signals(q) : h = 1 \/ (h - 1 \in Signals(r) /\ r[h - 1] = q[h])
  <2>1. \A h \in 1..n : h = 1 \/ (h - 1 \in 1..(n - 1) /\ (h - 1) + 1 = h) BY <1>2
  <2> QED BY <1>3, <2>1 DEF Signals
<1>7. Weight(q[1]) \subseteq Carried(q) BY <1>4 DEF Weight, Carried, Signals
<1>8. Carried(r) = Carried(q) \ Weight(q[1])
  <2>1. ASSUME NEW x \in Carried(r) PROVE x \in Carried(q) \ Weight(q[1])
    <3>1. PICK j \in Signals(r) : x = r[j].id /\ x # 0 BY DEF Carried
    <3>2. j + 1 \in Signals(q) /\ q[j + 1].id = x /\ j + 1 # 1 BY <1>5, <3>1
    <3>3. ASSUME x \in Weight(q[1]) PROVE FALSE
      <4>1. 1 \in Signals(q) /\ q[1].id = x BY <1>4, <3>3 DEF Weight, Signals
      <4> QED BY <3>1, <3>2, <4>1 DEF Single
    <3> QED BY <3>1, <3>2, <3>3 DEF Carried
  <2>2. ASSUME NEW x \in Carried(q), x \notin Weight(q[1]) PROVE x \in Carried(r)
    <3>1. PICK h \in Signals(q) : x = q[h].id /\ x # 0 BY DEF Carried
    <3>2. h # 1 BY <2>2, <3>1 DEF Weight, Signals
    <3> QED BY <1>6, <3>1, <3>2 DEF Carried
  <2> QED BY <2>1, <2>2
<1>9. Single(r)
  <2>1. SUFFICES ASSUME NEW j \in Signals(r), NEW h \in Signals(r), r[j].id = r[h].id, r[j].id # 0
                 PROVE  j = h
    BY DEF Single
  <2>2. j + 1 = h + 1 BY <1>5, <2>1 DEF Single
  <2> QED BY <1>5, <2>2
<1> QED BY <1>2, <1>3, <1>4, <1>7, <1>8, <1>9 DEF TailIsCarried

-----------------------------------------------------------------------------
(***************************************************************************)
(* The processor's steps                                                   *)
(***************************************************************************)
\* A sequence over a set is one over a larger set.
LEMMA SeqGrows ==
  ASSUME NEW S, NEW T, S \subseteq T, NEW q \in Seq(S)
  PROVE  q \in Seq(T)
OBVIOUS

\* send_bundle takes the first id that the processor has to push.
LEMMA TailPushed ==
  ASSUME NEW o \in Seq(Push), o # <<>>, SinglePush(o)
  PROVE  /\ Tail(o) \in Seq(Push) /\ SinglePush(Tail(o)) /\ Head(o) = o[1] /\ o[1] \in Push
         /\ o[1].id \in Pushed(o) /\ Pushed(Tail(o)) = Pushed(o) \ {o[1].id}
         /\ 1 \in DOMAIN o /\ \A j \in DOMAIN Tail(o) : j + 1 \in DOMAIN o /\ Tail(o)[j] = o[j + 1]
<1>1. PICK n \in Nat : n = Len(o) OBVIOUS
<1>2. PICK r : r = Tail(o) OBVIOUS
<1>3. /\ n >= 1 /\ DOMAIN o = 1..n /\ DOMAIN r = 1..(n - 1) /\ Head(o) = o[1]
      /\ \A j \in 1..(n - 1) : r[j] = o[j + 1]
      /\ r \in Seq(Push)
  BY <1>1, <1>2
<1>4. 1 \in DOMAIN o /\ o[1] \in Push BY <1>1, <1>3
<1>5. \A j \in DOMAIN r : j + 1 \in DOMAIN o /\ r[j] = o[j + 1] /\ j + 1 # 1 /\ j \in Nat BY <1>1, <1>3
<1>6. \A h \in DOMAIN o : h = 1 \/ (h - 1 \in DOMAIN r /\ r[h - 1] = o[h])
  <2>1. \A h \in 1..n : h = 1 \/ (h - 1 \in 1..(n - 1) /\ (h - 1) + 1 = h) BY <1>1
  <2> QED BY <1>3, <2>1
<1>7. SinglePush(r)
  <2>1. SUFFICES ASSUME NEW j \in DOMAIN r, NEW h \in DOMAIN r, r[j].id = r[h].id PROVE j = h
    BY DEF SinglePush
  <2>2. j + 1 = h + 1 BY <1>5, <2>1 DEF SinglePush
  <2> QED BY <1>5, <2>2
<1>8. Pushed(r) = Pushed(o) \ {o[1].id}
  <2>1. ASSUME NEW x \in Pushed(r) PROVE x \in Pushed(o) /\ x # o[1].id
    <3>1. PICK j \in DOMAIN r : x = r[j].id BY DEF Pushed
    <3>2. j + 1 \in DOMAIN o /\ x = o[j + 1].id /\ j + 1 # 1 BY <1>5, <3>1
    <3> QED BY <1>4, <3>2 DEF Pushed, SinglePush
  <2>2. ASSUME NEW x \in Pushed(o), x # o[1].id PROVE x \in Pushed(r)
    <3>1. PICK h \in DOMAIN o : x = o[h].id BY DEF Pushed
    <3> QED BY <1>6, <2>2, <3>1 DEF Pushed
  <2> QED BY <2>1, <2>2
<1>9. o[1].id \in Pushed(o) BY <1>4 DEF Pushed
<1> QED BY <1>2, <1>3, <1>4, <1>5, <1>7, <1>8, <1>9

\* What the handler pushes: what it had to push before, its reports, and the
\* bundle itself, or not.
OutIs(m, o, i, s, P) ==
  /\ SinglePush(s.out)
  /\ Pushed(s.out) = Pushed(o) \cup ((Len(m.info) + 1)..Len(s.m.info)) \cup P
  /\ \A j \in DOMAIN s.out : s.out[j].id <= Len(s.m.info)
  /\ \/ P = {} /\ s.m.stored = (m.stored \cup ((Len(m.info) + 1)..Len(s.m.info))) \ {i}
     \/ /\ P = {i} /\ s.m.stored = m.stored \cup ((Len(m.info) + 1)..Len(s.m.info))
        /\ s.m.rc[i] \subseteq {"FORWARD", "OWN"}
     \/ /\ P = {} /\ s.m.stored = m.stored \cup ((Len(m.info) + 1)..Len(s.m.info))
        /\ Waits(s.m, i)

\* What a handler pushes: what there was to push, its reports, and the bundle itself
\* or not.
LEMMA HandledOut ==
  ASSUME NEW m \in Mem, NEW o \in Seq(Push), NEW i \in 1..Len(m.info), NEW s \in Handled(m, o, i),
         SinglePush(o), \A j \in DOMAIN o : o[j].id <= Len(m.info) /\ o[j].id # i
  PROVE  \E P : OutIs(m, o, i, s, P)
<1>1. s \in State /\ s.out \in Seq(Push) /\ s.m \in Mem BY DEF Handled, State
<1>2. m.info \in Seq(Origin) /\ s.m.info \in Seq(Origin) BY <1>1 DEF Mem
<1>3. PICK a, b, l \in Nat : a = Len(m.info) /\ b = Len(s.m.info) /\ l = Len(o)
  <2>1. Len(m.info) \in Nat /\ Len(s.m.info) \in Nat /\ Len(o) \in Nat BY <1>2
  <2> QED BY <2>1
<1>4. PICK w \in Nat : w = Len(s.out) BY <1>1
<1>5. /\ a <= b /\ \A j \in 1..a : s.m.info[j] = m.info[j]
      /\ \A j \in 1..l : s.out[j] = o[j]
      /\ \A j \in (l + 1)..(l + (b - a)) : s.out[j] = Route(a + (j - l), FALSE)
      /\ Gone(m, o, i, s) \/ Passed(m, o, i, s) \/ Stuck(m, o, i, s)
  BY <1>3 DEF Handled
<1>6. ASSUME NEW j \in (l + 1)..(l + (b - a)) PROVE s.out[j].id = a + (j - l)
  <2>1. s.out[j] = Route(a + (j - l), FALSE) BY <1>5
  <2>2. \A x : Route(x, FALSE).id = x BY DEF Route
  <2> QED BY <2>1, <2>2
<1>7. i \in 1..a /\ DOMAIN o = 1..l /\ DOMAIN s.out = 1..w BY <1>1, <1>3, <1>4
<1>8. \A j \in 1..l : s.out[j].id \in Nat /\ s.out[j].id <= a /\ s.out[j].id # i
  <2>1. \A j \in 1..l : o[j] \in Push BY <1>7
  <2> QED BY <1>3, <1>5, <1>7, <2>1 DEF Push
<1>9. \A j, h \in 1..l : s.out[j].id = s.out[h].id => j = h BY <1>5, <1>7 DEF SinglePush
<1>10. Pushed(o) = {s.out[j].id : j \in 1..l} BY <1>5, <1>7 DEF Pushed
<1>11. (a + 1)..b = {s.out[j].id : j \in (l + 1)..(l + (b - a))}
  <2>1. ASSUME NEW x \in (a + 1)..b
        PROVE  \E j \in (l + 1)..(l + (b - a)) : s.out[j].id = x
    <3>1. x \in Nat /\ l + (x - a) \in (l + 1)..(l + (b - a)) /\ a + ((l + (x - a)) - l) = x BY <1>5
    <3> QED BY <3>1, <1>6
  <2>2. ASSUME NEW j \in (l + 1)..(l + (b - a)) PROVE s.out[j].id \in (a + 1)..b
    <3>1. a + (j - l) \in (a + 1)..b BY <1>5
    <3> QED BY <3>1, <1>6
  <2> QED BY <2>1, <2>2
<1>12. ASSUME w = l + (b - a)
       PROVE  /\ SinglePush(s.out) /\ Pushed(s.out) = Pushed(o) \cup ((a + 1)..b)
              /\ \A j \in DOMAIN s.out : s.out[j].id <= b
  <2>1. \A j \in 1..w : j \in 1..l \/ j \in (l + 1)..(l + (b - a)) BY <1>12, <1>5
  <2>2. \A j \in 1..l, h \in (l + 1)..(l + (b - a)) : s.out[j].id # s.out[h].id
    BY <1>5, <1>6, <1>8
  <2>3. \A j, h \in (l + 1)..(l + (b - a)) : s.out[j].id = s.out[h].id => j = h BY <1>6
  <2>4. SinglePush(s.out) BY <1>7, <1>9, <2>1, <2>2, <2>3 DEF SinglePush
  <2>5. \A j \in 1..l : j \in 1..w BY <1>12, <1>5
  <2>6. \A j \in (l + 1)..(l + (b - a)) : j \in 1..w BY <1>12, <1>5
  <2>7. Pushed(s.out) = Pushed(o) \cup ((a + 1)..b) BY <1>7, <1>10, <1>11, <2>1, <2>5, <2>6 DEF Pushed
  <2>8. ASSUME NEW j \in 1..w PROVE s.out[j].id <= b
    <3>1. CASE j \in 1..l BY <1>5, <1>8, <3>1
    <3>2. CASE j \in (l + 1)..(l + (b - a)) BY <1>5, <1>6, <3>2
    <3> QED BY <2>1, <3>1, <3>2
  <2> QED BY <1>7, <2>4, <2>7, <2>8
<1>13. CASE Gone(m, o, i, s)
  <2>1. w = l + (b - a) /\ s.m.stored = (m.stored \cup ((a + 1)..b)) \ {i} BY <1>3, <1>4, <1>13 DEF Gone
  <2>2. OutIs(m, o, i, s, {}) BY <1>3, <1>12, <2>1 DEF OutIs
  <2> QED BY <2>2
<1>14. CASE Stuck(m, o, i, s)
  <2>1. w = l + (b - a) /\ s.m.stored = m.stored \cup ((a + 1)..b) BY <1>3, <1>4, <1>14 DEF Stuck
  <2>2. Waits(s.m, i) BY <1>5, <1>7, <1>14 DEF Stuck, Waits
  <2>3. OutIs(m, o, i, s, {}) BY <1>3, <1>12, <2>1, <2>2 DEF OutIs
  <2> QED BY <2>3
<1>15. CASE Passed(m, o, i, s)
  <2>1. /\ w = l + (b - a) + 1 /\ s.m.stored = m.stored \cup ((a + 1)..b)
        /\ s.out[w].id = i /\ s.m.rc[i] \subseteq {"FORWARD", "OWN"}
    BY <1>3, <1>4, <1>15 DEF Passed
  <2>2. \A j \in 1..w : j \in 1..l \/ j \in (l + 1)..(l + (b - a)) \/ j = w BY <2>1, <1>5
  <2>3. \A j \in 1..l, h \in (l + 1)..(l + (b - a)) : s.out[j].id # s.out[h].id
    BY <1>5, <1>6, <1>8
  <2>4. \A j, h \in (l + 1)..(l + (b - a)) : s.out[j].id = s.out[h].id => j = h BY <1>6
  <2>5. \A j \in (l + 1)..(l + (b - a)) : s.out[j].id # i BY <1>3, <1>6, <1>7
  <2>6. SinglePush(s.out) BY <1>7, <1>8, <1>9, <2>1, <2>2, <2>3, <2>4, <2>5 DEF SinglePush
  <2>7. \A j \in 1..l : j \in 1..w BY <2>1, <1>5
  <2>8. \A j \in (l + 1)..(l + (b - a)) : j \in 1..w BY <2>1, <1>5
  <2>9. w \in 1..w BY <2>1, <1>5
  <2>10. Pushed(s.out) = Pushed(o) \cup ((a + 1)..b) \cup {i}
    BY <1>7, <1>10, <1>11, <2>1, <2>2, <2>7, <2>8, <2>9 DEF Pushed
  <2>11. ASSUME NEW j \in 1..w PROVE s.out[j].id <= b
    <3>1. CASE j \in 1..l BY <1>5, <1>8, <3>1
    <3>2. CASE j \in (l + 1)..(l + (b - a)) BY <1>5, <1>6, <3>2
    <3>3. CASE j = w BY <1>5, <1>7, <2>1, <3>3
    <3> QED BY <2>2, <3>1, <3>2, <3>3
  <2>12. OutIs(m, o, i, s, {i}) BY <1>3, <1>7, <2>1, <2>6, <2>10, <2>11 DEF OutIs
  <2> QED BY <2>12
<1> QED BY <1>5, <1>13, <1>14, <1>15

\* After a handler each bundle is in one place, if it was before and the one of the
\* signal was in none: that one is with the router, waits, or is gone.
LEMMA HandledOwned ==
  ASSUME NEW m \in Mem, NEW o \in Seq(Push), NEW i \in m.stored, NEW s \in Handled(m, o, i), NEW P,
         m.stored \subseteq 1..Len(m.info), OutIs(m, o, i, s, P), NEW A, NEW B, NEW C, NEW E,
         OwnedBut(A, B, C, Pushed(o), E, m, {i})
  PROVE  OwnedBut(A, B, C, Pushed(s.out), E, s.m, {}) /\ s.m.stored \subseteq 1..Len(s.m.info)
<1>1. s \in State /\ s.m \in Mem BY DEF Handled, State
<1>2. m.info \in Seq(Origin) /\ s.m.info \in Seq(Origin) BY <1>1 DEF Mem
<1>3. PICK a, b \in Nat : a = Len(m.info) /\ b = Len(s.m.info)
  <2>1. Len(m.info) \in Nat /\ Len(s.m.info) \in Nat BY <1>2
  <2> QED BY <2>1
<1>4. /\ a <= b
      /\ \A j \in 1..a : s.m.info[j] = m.info[j] /\ (j # i => s.m.rc[j] = m.rc[j])
      /\ \A j \in (a + 1)..b : s.m.rc[j] \subseteq {"FORWARD", "OWN"}
  BY <1>3 DEF Handled
<1>5. PICK N : N = (a + 1)..b OBVIOUS
<1>6. PICK D, DD : D = Pushed(o) /\ DD = Pushed(s.out) /\ DD = D \cup N \cup P BY <1>3, <1>5 DEF OutIs
<1>7. /\ Apart(A, B, C, D, E) /\ A \cup B \cup C \cup D \cup E \subseteq 1..a
      /\ B \cup D \cup E \subseteq m.stored
      /\ i \notin A \cup B \cup C \cup D \cup E
      /\ \A j \in m.stored \ {i} : IF j \in A \cup B \cup C \cup D \cup E
                                  THEN "DISPATCH" \notin m.rc[j] ELSE Waits(m, j)
  BY <1>3, <1>6 DEF OwnedBut
<1>8. N \cap 1..a = {} /\ N \subseteq 1..b /\ 1..a \subseteq 1..b /\ i \in 1..a
  BY <1>3, <1>4, <1>5
<1>9. P \subseteq {i} /\ s.m.stored \cup {i} = m.stored \cup N BY <1>3, <1>5, <1>8 DEF OutIs
<1>10. Apart(A, B, C, DD, E) BY <1>6, <1>7, <1>8, <1>9 DEF Apart
<1>11. A \cup B \cup C \cup DD \cup E \subseteq 1..b BY <1>6, <1>7, <1>8, <1>9
<1>12. B \cup DD \cup E \subseteq s.m.stored
  <2>1. P \subseteq s.m.stored BY <1>3, <1>5 DEF OutIs
  <2>2. i \notin B \cup D \cup E \cup N BY <1>7, <1>8
  <2>3. (m.stored \cup N) \ {i} \subseteq s.m.stored BY <1>9
  <2>4. B \cup D \cup E \cup N \subseteq s.m.stored BY <1>7, <2>2, <2>3
  <2> QED BY <1>6, <2>1, <2>4
<1>13. ASSUME NEW j \in s.m.stored
       PROVE  IF j \in A \cup B \cup C \cup DD \cup E THEN "DISPATCH" \notin s.m.rc[j] ELSE Waits(s.m, j)
  <2>1. CASE j \in N
    <3>1. s.m.rc[j] \subseteq {"FORWARD", "OWN"} /\ j \in DD BY <1>4, <1>5, <1>6, <2>1
    <3> QED BY <3>1
  <2>2. CASE j = i
    <3>1. i \in s.m.stored /\ i \notin N BY <1>8, <2>2
    <3>2. CASE P = {i}
      <4>1. s.m.rc[i] \subseteq {"FORWARD", "OWN"} /\ i \in DD BY <1>6, <3>2 DEF OutIs
      <4> QED BY <2>2, <4>1
    <3>3. CASE P # {i}
      <4>1. P = {} /\ Waits(s.m, i) BY <3>1, <3>3 DEF OutIs
      <4>2. i \notin A \cup B \cup C \cup DD \cup E BY <1>6, <1>7, <3>1, <4>1
      <4> QED BY <2>2, <4>1, <4>2
    <3> QED BY <3>2, <3>3
  <2>3. CASE j \notin N /\ j # i
    <3>1. j \in m.stored \ {i} /\ j \in 1..a BY <1>3, <1>9, <2>3
    <3>2. s.m.info[j] = m.info[j] /\ s.m.rc[j] = m.rc[j] BY <1>4, <2>3, <3>1
    <3>3. j \in DD <=> j \in D BY <1>6, <1>9, <2>3
    <3> QED BY <1>7, <3>1, <3>2, <3>3 DEF Waits
  <2> QED BY <2>1, <2>2, <2>3
<1>14. s.m.stored \subseteq 1..b BY <1>3, <1>8, <1>9
<1> QED BY <1>3, <1>6, <1>10, <1>11, <1>12, <1>13, <1>14 DEF OwnedBut

\* A signal for a bundle stays one when more bundles are stored.
LEMMA SigGrows ==
  ASSUME NEW a \in Nat, NEW b \in Nat, a <= b
  PROVE  /\ \A q \in Seq(BSig(a)) : q \in Seq(BSig(b))
         /\ \A q \in Seq(RSig(a)) : q \in Seq(RSig(b))
         /\ \A q \in Seq(QSig(a)) : q \in Seq(QSig(b))
<1>1. 1..a \subseteq 1..b /\ 0..a \subseteq 0..b OBVIOUS
<1>2. BSig(a) \subseteq BSig(b) /\ RSig(a) \subseteq RSig(b) /\ QSig(a) \subseteq QSig(b)
  BY <1>1 DEF BSig, RSig, QSig
<1> QED BY <1>2, SeqGrows

\* A handler keeps the invariant.
LEMMA HandledInv ==
  ASSUME Inv, NEW o \in Seq(Push), NEW i \in mem.stored, NEW s \in Handled(mem, o, i),
         SinglePush(o), \A j \in DOMAIN o : o[j].id <= Len(mem.info) /\ o[j].id # i,
         mem' = s.m, bp_out' = s.out, UNCHANGED <<now, rq, router_out, sched>>,
         NEW q \in Seq(BSig(Len(mem.info))), q = bq',
         Len(q) <= BpLength, Single(q), Fresh(q, mem),
         OwnedBut(Carried(q), Carried(rq), Carried(router_out), Pushed(o), sched, mem, {i})
  PROVE  Inv'
<1>1. mem \in Mem /\ mem.stored \subseteq 1..Len(mem.info) BY DEF Inv, Typed
<1>2. s \in State /\ s.m \in Mem /\ s.out \in Seq(Push) BY DEF Handled, State
<1>3. PICK a, b \in Nat : a = Len(mem.info) /\ b = Len(s.m.info)
  <2>1. mem.info \in Seq(Origin) /\ s.m.info \in Seq(Origin) BY <1>1, <1>2 DEF Mem
  <2>2. Len(mem.info) \in Nat /\ Len(s.m.info) \in Nat BY <2>1
  <2> QED BY <2>2
<1>4. /\ a <= b /\ b <= MaxId /\ s.m.failed_assert = mem.failed_assert
      /\ \A j \in 1..a : s.m.info[j] = mem.info[j] /\ (j # i => s.m.rc[j] = mem.rc[j])
  BY <1>3 DEF Handled
<1>5. i \in 1..Len(mem.info) BY <1>1
<1>6. PICK P : OutIs(mem, o, i, s, P) BY <1>1, <1>5, HandledOut
<1>7. OwnedBut(Carried(q), Carried(rq), Carried(router_out), Pushed(s.out), sched, s.m, {})
      /\ s.m.stored \subseteq 1..Len(s.m.info)
  BY <1>1, <1>6, HandledOwned
<1>8. 1..a \subseteq 1..b /\ 0..a \subseteq 0..b BY <1>3, <1>4
<1>9. q \in Seq(BSig(b)) /\ router_out \in Seq(RSig(b)) /\ rq \in Seq(QSig(b))
  <2>1. q \in Seq(BSig(a)) /\ router_out \in Seq(RSig(a)) /\ rq \in Seq(QSig(a)) BY <1>3 DEF Inv, Typed
  <2> QED BY <1>3, <1>4, <2>1, SigGrows
<1>10. sched \subseteq 1..b BY <1>3, <1>8 DEF Inv, Typed
<1>11. \A j \in DOMAIN s.out : s.out[j].id <= b BY <1>3, <1>6 DEF OutIs
<1>12. Typed'
  BY <1>2, <1>3, <1>4, <1>7, <1>9, <1>10, <1>11 DEF Inv, Typed
<1>13. Fresh(q, s.m)
  <2>1. SUFFICES ASSUME NEW j \in DOMAIN q, q[j].type \in {"INCOMING", "LOCAL_DISPATCH"},
                        q[j].id \in s.m.stored
                 PROVE  s.m.rc[q[j].id] = {}
    BY DEF Fresh
  <2>2. PICK x \in 1..a : x = q[j].id
    <3>1. q[j] \in BSig(a) BY <1>3
    <3> QED BY <3>1 DEF BSig
  <2>3. x \in Carried(q)
    <3>1. q[j].type # "ROUTED" /\ x # 0 BY <1>3, <2>1, <2>2
    <3> QED BY <2>2, <3>1 DEF Carried, Signals
  <2>4. x # i BY <2>3 DEF OwnedBut
  <2>5. x \in mem.stored
    <3>1. x \notin (a + 1)..b BY <1>3, <2>2
    <3> QED BY <1>3, <1>6, <2>1, <2>2, <3>1 DEF OutIs
  <2>6. mem.rc[x] = {} BY <2>1, <2>2, <2>5 DEF Fresh
  <2> QED BY <1>4, <2>2, <2>4, <2>6
<1>14. SinglePush(s.out) BY <1>6 DEF OutIs
<1>15. Owned' BY <1>4, <1>7, <1>13, <1>14 DEF Inv, Owned
<1> QED BY <1>12, <1>15 DEF Inv

\* What the queues hold are signals.
LEMMA QueueTypes ==
  ASSUME Inv
  PROVE  bq \in Seq(AnySig) /\ rq \in Seq(AnySig) /\ router_out \in Seq(AnySig)
<1>1. PICK a \in Nat : a = Len(mem.info)
  <2>1. mem.info \in Seq(Origin) BY DEF Inv, Typed, Mem
  <2> QED BY <2>1
<1>2. BSig(a) \subseteq AnySig /\ RSig(a) \subseteq AnySig /\ QSig(a) \subseteq AnySig
  BY DEF AnySig, BSig, RSig, QSig, BpType, RouterType, QueueType
<1>3. bq \in Seq(BSig(a)) /\ router_out \in Seq(RSig(a)) /\ rq \in Seq(QSig(a))
  BY <1>1 DEF Inv, Typed
<1> QED BY <1>2, <1>3, SeqGrows

\* The rest of a queue of the processor, after its first signal.
LEMMA TailFresh ==
  ASSUME NEW S, NEW q \in Seq(S), q # <<>>, NEW m, Fresh(q, m)
  PROVE  Fresh(Tail(q), m) /\ Tail(q) \in Seq(S) /\ Len(Tail(q)) <= Len(q) /\ q[1] \in S
<1>1. /\ Tail(q) \in Seq(S) /\ Len(Tail(q)) <= Len(q) /\ q[1] \in S
      /\ \A j \in DOMAIN Tail(q) : j + 1 \in DOMAIN q /\ Tail(q)[j] = q[j + 1]
  OBVIOUS
<1> QED BY <1>1 DEF Fresh

\* Handle, bundle_processor_task: the bundle of the signal is in no other place, so
\* that the handler alone decides about it.
LEMMA HandleInv == ASSUME Inv, Handle PROVE Inv'
<1>1. PICK a \in Nat : a = Len(mem.info)
  <2>1. mem.info \in Seq(Origin) BY DEF Inv, Typed, Mem
  <2> QED BY <2>1
<1>2. bq \in Seq(AnySig) /\ bq \in Seq(BSig(a)) /\ bq # <<>> /\ Single(bq) /\ bp_out = <<>>
  BY <1>1, QueueTypes DEF Inv, Typed, Owned, Handle
<1>3. TailIsCarried(bq, Tail(bq)) /\ Head(bq) = bq[1] /\ 1 \in DOMAIN bq BY <1>2, TailCarried
<1>4. PICK sig \in BSig(a) : sig = bq[1] BY <1>2
<1>5. PICK q \in Seq(BSig(a)) : q = Tail(bq)
  <2>1. Fresh(bq, mem) BY DEF Inv, Owned
  <2>2. Tail(bq) \in Seq(BSig(a)) BY <1>2, <2>1, TailFresh
  <2> QED BY <2>2
<1>6. Fresh(q, mem) /\ Len(q) <= BpLength
  <2>1. Len(q) <= Len(bq) /\ Fresh(q, mem) BY <1>2, <1>5, TailFresh DEF Inv, Owned
  <2>2. Len(bq) \in Nat /\ Len(q) \in Nat /\ Len(bq) <= BpLength BY <1>2, <1>5 DEF Inv, Typed
  <2> QED BY <2>1, <2>2, ProcessorAssumption
<1>7. PICK A, B, C, E : A = Carried(bq) /\ B = Carried(rq) /\ C = Carried(router_out) /\ E = sched
  OBVIOUS
<1>8. OwnedBut(A, B, C, {}, E, mem, {})
  <2>1. Pushed(bp_out) = {} BY <1>2 DEF Pushed
  <2> QED BY <1>7, <2>1 DEF Inv, Owned
<1>9. Carried(q) = A \ Weight(sig) /\ Weight(sig) \subseteq A /\ Single(q)
  BY <1>3, <1>4, <1>5, <1>7 DEF TailIsCarried
<1>10. PICK s : s = handle_signal([m |-> mem, out |-> <<>>], sig) OBVIOUS
<1>11. /\ mem' = s.m /\ bp_out' = s.out /\ bq' = q
       /\ UNCHANGED <<now, rq, router_out, sched>>
  BY <1>3, <1>4, <1>5, <1>10 DEF Handle
<1>12. sig.id \in 1..a /\ sig.type \in BpType \cup {"ROUTED"} BY <1>4 DEF BSig
<1>13. CASE sig.type = "ROUTED" \/ sig.id \notin mem.stored
  <2>1. s = [m |-> mem, out |-> <<>>] BY <1>10, <1>13 DEF handle_signal
  <2>2. mem' = mem /\ bp_out' = <<>> BY <1>11, <2>1
  <2>3. Weight(sig) \cap mem.stored = {} BY <1>13 DEF Weight
  <2>4. OwnedBut(A \ Weight(sig), B, C, {}, E, mem, {}) BY <1>8, <2>3 DEF OwnedBut, Apart
  <2>5. Typed'
    <3>1. q \in Seq(BSig(Len(mem.info))) BY <1>1, <1>5
    <3> QED BY <1>2, <1>6, <1>11, <2>2, <3>1 DEF Inv, Typed
  <2>6. Owned'
    <3>1. Pushed(<<>>) = {} /\ SinglePush(<<>>) BY DEF Pushed, SinglePush
    <3> QED BY <1>6, <1>7, <1>9, <1>11, <2>2, <2>4, <3>1 DEF Inv, Owned
  <2> QED BY <2>5, <2>6 DEF Inv
<1>14. CASE sig.type # "ROUTED" /\ sig.id \in mem.stored
  <2>1. PICK i \in 1..a : i = sig.id BY <1>12
  <2>2. Weight(sig) = {i} /\ i \in A /\ i \in mem.stored BY <1>9, <1>14, <2>1 DEF Weight
  <2>3. "DISPATCH" \notin mem.rc[i] BY <1>8, <2>2 DEF OwnedBut
  <2>4. sig.type \in {"INCOMING", "LOCAL_DISPATCH"} => mem.rc[i] = {}
    BY <1>3, <1>4, <2>1, <2>2 DEF Inv, Owned, Fresh
  <2>5. mem \in Mem /\ Len(mem.info) <= MaxId /\ now \in Nat /\ i \in 1..Len(mem.info)
    BY <1>1 DEF Inv, Typed
  <2>6. s \in Handled(mem, <<>>, i)
    BY <1>10, <1>12, <1>14, <2>1, <2>2, <2>3, <2>4, <2>5, SignalHandled
  <2>7. OwnedBut(A \ {i}, B, C, {}, E, mem, {i}) BY <1>8, <2>2 DEF OwnedBut, Apart
  <2>8. PICK o \in Seq(Push) : o = <<>>
    <3>1. <<>> \in Seq(Push) BY EmptySeq
    <3> QED BY <3>1
  <2>9. Pushed(o) = {} /\ SinglePush(o) /\ \A j \in DOMAIN o : FALSE BY <2>8 DEF Pushed, SinglePush
  <2>10. OwnedBut(Carried(q), Carried(rq), Carried(router_out), Pushed(o), sched, mem, {i})
    BY <1>7, <1>9, <2>2, <2>7, <2>9
  <2>11. q \in Seq(BSig(Len(mem.info))) BY <1>1
  <2> QED BY <1>6, <1>9, <1>11, <2>2, <2>6, <2>8, <2>9, <2>10, <2>11, HandledInv
<1> QED BY <1>13, <1>14

\* SendTimeout: the bundle that found no room in the queue of the router is in no
\* other place either.
LEMMA SendTimeoutInv == ASSUME Inv, SendTimeout PROVE Inv'
<1>1. PICK a \in Nat : a = Len(mem.info)
  <2>1. mem.info \in Seq(Origin) BY DEF Inv, Typed, Mem
  <2> QED BY <2>1
<1>2. bp_out \in Seq(Push) /\ bp_out # <<>> /\ SinglePush(bp_out) BY DEF Inv, Typed, Owned, SendTimeout
<1>3. /\ Tail(bp_out) \in Seq(Push) /\ SinglePush(Tail(bp_out)) /\ Head(bp_out) = bp_out[1]
      /\ bp_out[1] \in Push /\ bp_out[1].id \in Pushed(bp_out)
      /\ Pushed(Tail(bp_out)) = Pushed(bp_out) \ {bp_out[1].id} /\ 1 \in DOMAIN bp_out
      /\ \A j \in DOMAIN Tail(bp_out) : j + 1 \in DOMAIN bp_out /\ Tail(bp_out)[j] = bp_out[j + 1]
  BY <1>2, TailPushed
<1>4. PICK o \in Seq(Push) : o = Tail(bp_out) BY <1>3
<1>5. PICK i : i = bp_out[1].id OBVIOUS
<1>6. PICK A, B, C, D, E : /\ A = Carried(bq) /\ B = Carried(rq) /\ C = Carried(router_out)
                          /\ D = Pushed(bp_out) /\ E = sched
  OBVIOUS
<1>7. OwnedBut(A, B, C, D, E, mem, {}) BY <1>6 DEF Inv, Owned
<1>8. i \in D /\ i \in mem.stored /\ Pushed(o) = D \ {i} BY <1>3, <1>4, <1>5, <1>6, <1>7 DEF OwnedBut
<1>9. mem \in Mem /\ Len(mem.info) <= MaxId /\ mem.stored \subseteq 1..Len(mem.info) BY DEF Inv, Typed
<1>10. i \in 1..Len(mem.info) BY <1>8, <1>9
<1>11. PICK s : s = bundle_delete([m |-> mem, out |-> o], i) OBVIOUS
<1>12. /\ mem' = s.m /\ bp_out' = s.out /\ bq' = bq
       /\ UNCHANGED <<now, rq, router_out, sched>>
  BY <1>3, <1>4, <1>5, <1>11 DEF SendTimeout
<1>13. s \in Handled(mem, o, i) BY <1>9, <1>10, <1>11, FailedHandled
<1>14. OwnedBut(A, B, C, D \ {i}, E, mem, {i}) BY <1>7, <1>8 DEF OwnedBut, Apart
<1>15. \A j \in DOMAIN o : o[j].id <= Len(mem.info) /\ o[j].id # i
  <2>1. \A j \in DOMAIN o : o[j].id \in Pushed(o) BY DEF Pushed
  <2>2. \A j \in DOMAIN o : o[j].id <= Len(mem.info) BY <1>3, <1>4 DEF Inv, Typed
  <2> QED BY <1>8, <2>1, <2>2
<1>16. PICK q \in Seq(BSig(Len(mem.info))) : q = bq BY DEF Inv, Typed
<1>17. Len(q) <= BpLength /\ Single(q) /\ Fresh(q, mem) BY <1>16 DEF Inv, Typed, Owned
<1>18. OwnedBut(Carried(q), Carried(rq), Carried(router_out), Pushed(o), sched, mem, {i})
  BY <1>6, <1>8, <1>14, <1>16
<1>19. SinglePush(o) BY <1>3, <1>4
<1> QED BY <1>8, <1>12, <1>13, <1>15, <1>16, <1>17, <1>18, <1>19, HandledInv

\* SendBundle: the id goes from the hands of the processor to the queue of the router.
LEMMA SendBundleInv == ASSUME Inv, SendBundle PROVE Inv'
<1>1. PICK a \in Nat : a = Len(mem.info)
  <2>1. mem.info \in Seq(Origin) BY DEF Inv, Typed, Mem
  <2> QED BY <2>1
<1>2. bp_out \in Seq(Push) /\ bp_out # <<>> /\ SinglePush(bp_out) BY DEF Inv, Typed, Owned, SendBundle
<1>3. /\ Tail(bp_out) \in Seq(Push) /\ SinglePush(Tail(bp_out)) /\ Head(bp_out) = bp_out[1]
      /\ bp_out[1] \in Push /\ bp_out[1].id \in Pushed(bp_out)
      /\ Pushed(Tail(bp_out)) = Pushed(bp_out) \ {bp_out[1].id} /\ 1 \in DOMAIN bp_out
      /\ \A j \in DOMAIN Tail(bp_out) : j + 1 \in DOMAIN bp_out /\ Tail(bp_out)[j] = bp_out[j + 1]
  BY <1>2, TailPushed
<1>4. PICK i : i = bp_out[1].id OBVIOUS
<1>5. PICK A, B, C, D, E : /\ A = Carried(bq) /\ B = Carried(rq) /\ C = Carried(router_out)
                          /\ D = Pushed(bp_out) /\ E = sched
  OBVIOUS
<1>6. OwnedBut(A, B, C, D, E, mem, {}) BY <1>5 DEF Inv, Owned
<1>7. i \in D /\ i \in 1..a BY <1>1, <1>3, <1>4, <1>5, <1>6 DEF OwnedBut
<1>8. PICK e : e = Sig("route", i) OBVIOUS
<1>9. e \in QSig(a) /\ e \in AnySig /\ e.type = "route" /\ e.id = i /\ i # 0 /\ Weight(e) = {i}
  BY <1>7, <1>8 DEF Sig, QSig, AnySig, QueueType, Weight
<1>10. rq \in Seq(AnySig) /\ rq \in Seq(QSig(a)) BY <1>1, QueueTypes DEF Inv, Typed
<1>11. AppendIsCarried(rq, e, Append(rq, e)) BY <1>9, <1>10, AppendCarried
<1>12. {i} \cap B = {} BY <1>6, <1>7 DEF OwnedBut, Apart
<1>13. Carried(Append(rq, e)) = B \cup {i} /\ Single(Append(rq, e))
  BY <1>5, <1>9, <1>11, <1>12 DEF AppendIsCarried, Inv, Owned
<1>14. OwnedBut(A, B \cup {i}, C, D \ {i}, E, mem, {}) BY <1>6, <1>7 DEF OwnedBut, Apart
<1>15. /\ rq' = Append(rq, e) /\ bp_out' = Tail(bp_out)
       /\ UNCHANGED <<now, mem, bq, router_out, sched>>
  BY <1>3, <1>4, <1>8 DEF SendBundle
<1>16. /\ Append(rq, e) \in Seq(QSig(a)) /\ Len(Append(rq, e)) = Len(rq) + 1
       /\ \A j \in 1..Len(rq) : Append(rq, e)[j] = rq[j]
       /\ Append(rq, e)[Len(rq) + 1] = e
  BY <1>9, <1>10, AppendIs
<1>17. Len(Append(rq, e)) <= RouterLength
  <2>1. Len(rq) \in Nat /\ Len(rq) < RouterLength BY <1>10 DEF SendBundle
  <2> QED BY <1>16, <2>1, ProcessorAssumption
<1>18. \A j \in DOMAIN Append(rq, e) : Append(rq, e)[j].type = "over" <=> Append(rq, e)[j].id = 0
  <2>1. \A j \in DOMAIN Append(rq, e) : j \in DOMAIN rq \/ j = Len(rq) + 1 BY <1>10
  <2>2. \A j \in DOMAIN rq : Append(rq, e)[j] = rq[j] BY <1>10, <1>16
  <2> QED BY <1>9, <1>16, <2>1, <2>2 DEF Inv, Typed
<1>19. Typed'
  <2>1. \A j \in DOMAIN Tail(bp_out) : Tail(bp_out)[j].id <= Len(mem.info) BY <1>3 DEF Inv, Typed
  <2>2. Append(rq, e) \in Seq(QSig(Len(mem.info))) BY <1>1, <1>16
  <2> QED BY <1>3, <1>15, <1>17, <1>18, <2>1, <2>2 DEF Inv, Typed
<1>20. Owned'
  <2>1. Pushed(Tail(bp_out)) = D \ {i} BY <1>3, <1>4, <1>5
  <2> QED BY <1>3, <1>5, <1>13, <1>14, <1>15, <2>1 DEF Inv, Owned
<1> QED BY <1>19, <1>20 DEF Inv

-----------------------------------------------------------------------------
(***************************************************************************)
(* The router's steps                                                      *)
(***************************************************************************)
OverIsZero(q) == \A j \in DOMAIN q : q[j].type = "over" <=> q[j].id = 0

\* The router's task holds e, the rest q of its queue waits.
Taken(a, t, e, q) ==
  /\ e = Head(rq) /\ e \in QSig(a) /\ e.type = t /\ (t = "over" <=> e.id = 0)
  /\ q = rq' /\ q \in Seq(QSig(a)) /\ Len(q) <= RouterLength /\ OverIsZero(q)
  /\ Single(q) /\ Carried(q) = Carried(rq) \ Weight(e) /\ Weight(e) \subseteq Carried(rq)
  /\ Carried(router_out) = {}

\* The router task takes the first signal of its queue.
LEMMA TakeSignal ==
  ASSUME Inv, NEW t, NextSignal(t)
  PROVE  \E a, e, q : a \in Nat /\ a = Len(mem.info) /\ Taken(a, t, e, q)
<1>1. PICK a \in Nat : a = Len(mem.info)
  <2>1. mem.info \in Seq(Origin) BY DEF Inv, Typed, Mem
  <2> QED BY <2>1
<1>2. /\ rq \in Seq(AnySig) /\ rq \in Seq(QSig(a)) /\ rq # <<>> /\ Single(rq)
      /\ router_out = <<>> /\ OverIsZero(rq) /\ Len(rq) <= RouterLength
  BY <1>1, QueueTypes DEF Inv, Typed, Owned, NextSignal, OverIsZero
<1>3. TailIsCarried(rq, Tail(rq)) /\ Head(rq) = rq[1] /\ 1 \in DOMAIN rq BY <1>2, TailCarried
<1>4. /\ Tail(rq) \in Seq(QSig(a)) /\ Len(Tail(rq)) <= Len(rq) /\ Len(rq) \in Nat
      /\ Len(Tail(rq)) \in Nat
      /\ rq[1] \in QSig(a)
      /\ \A j \in DOMAIN Tail(rq) : j + 1 \in DOMAIN rq /\ Tail(rq)[j] = rq[j + 1]
  BY <1>2
<1>5. PICK q : q = Tail(rq) OBVIOUS
<1>6. PICK e : e = rq[1] OBVIOUS
<1>7. rq' = q /\ e.type = t BY <1>3, <1>5, <1>6 DEF NextSignal
<1>8. OverIsZero(q) BY <1>2, <1>4, <1>5 DEF OverIsZero
<1>9. t = "over" <=> e.id = 0 BY <1>2, <1>3, <1>6, <1>7 DEF OverIsZero
<1>10. Len(q) <= RouterLength BY <1>2, <1>4, <1>5, ProcessorAssumption
<1>11. Carried(q) = Carried(rq) \ Weight(e) /\ Weight(e) \subseteq Carried(rq) /\ Single(q)
  BY <1>3, <1>5, <1>6 DEF TailIsCarried
<1>12. Carried(router_out) = {} BY <1>2 DEF Carried, Signals
<1>13. q \in Seq(QSig(a)) /\ e \in QSig(a) /\ e = Head(rq) BY <1>3, <1>4, <1>5, <1>6
<1>14. Taken(a, t, e, q) BY <1>7, <1>8, <1>9, <1>10, <1>11, <1>12, <1>13 DEF Taken
<1> QED BY <1>1, <1>14

\* A single signal carries its own bundle.
LEMMA OneSignal ==
  ASSUME NEW e \in AnySig
  PROVE  Carried(<<e>>) = Weight(e) /\ Single(<<e>>)
<1>1. PICK q : q = <<e>> OBVIOUS
<1>2. DOMAIN q = {1} /\ q[1] = e BY <1>1
<1>3. Signals(q) = {j \in {1} : e.type # "ROUTED"} BY <1>2 DEF Signals
<1>4. Single(q) BY <1>3 DEF Single
<1>5. Carried(q) = Weight(e) BY <1>2, <1>3 DEF Carried, Weight
<1> QED BY <1>1, <1>4, <1>5

\* The router's handler leaves memory n, signals w and schedule E.
Routed(a, q, n, w, E) ==
  /\ n \in Mem /\ a <= Len(n.info) /\ Len(n.info) <= MaxId /\ n.stored \subseteq 1..Len(n.info)
  /\ E \subseteq 1..Len(n.info) /\ n.failed_assert = mem.failed_assert
  /\ w \in Seq(RSig(Len(n.info))) /\ Single(w)
  /\ Fresh(bq, n)
  /\ OwnedBut(Carried(bq), Carried(q), Carried(w), Pushed(bp_out), E, n, {})

\* A step of the router keeps the invariant if what it leaves does.
LEMMA RoutedInv ==
  ASSUME Inv, NEW a \in Nat, a = Len(mem.info), NEW t, NEW e, NEW q, Taken(a, t, e, q),
         Routed(a, q, mem', router_out', sched'), UNCHANGED <<now, bq, bp_out>>
  PROVE  Inv'
<1>1. PICK n, w, E : n = mem' /\ w = router_out' /\ E = sched' OBVIOUS
<1>2. Routed(a, q, n, w, E) BY <1>1
<1>3. PICK b \in Nat : b = Len(n.info) /\ a <= b
  <2>1. n.info \in Seq(Origin) BY <1>2 DEF Routed, Mem
  <2> QED BY <1>2, <2>1 DEF Routed
<1>4. q \in Seq(QSig(a)) /\ bq \in Seq(BSig(a)) BY DEF Taken, Inv, Typed
<1>5. q \in Seq(QSig(b)) /\ bq \in Seq(BSig(b)) BY <1>3, <1>4, SigGrows
<1>6. \A j \in DOMAIN bp_out : bp_out[j].id <= b
  <2>1. bp_out \in Seq(Push) /\ \A j \in DOMAIN bp_out : bp_out[j].id <= a BY DEF Inv, Typed
  <2>2. \A x \in Push : x.id \in Nat BY DEF Push
  <2>3. \A j \in DOMAIN bp_out : bp_out[j] \in Push BY <2>1
  <2> QED BY <1>3, <2>1, <2>2, <2>3
<1>7. /\ rq' = q /\ Len(q) <= RouterLength /\ Single(q)
      /\ \A j \in DOMAIN q : q[j].type = "over" <=> q[j].id = 0
  BY DEF Taken, OverIsZero
<1>8. Typed' BY <1>1, <1>2, <1>3, <1>5, <1>6, <1>7 DEF Routed, Inv, Typed
<1>9. Owned' BY <1>1, <1>2, <1>7 DEF Routed, Inv, Owned
<1> QED BY <1>8, <1>9 DEF Inv

\* A signal back to the processor is all that is left of the work of the router.
LEMMA ReportedInv ==
  ASSUME Inv, NEW a \in Nat, a = Len(mem.info), NEW t, NEW e, NEW q, Taken(a, t, e, q),
         t # "over", NEW n \in Mem, n.info = mem.info, n.rc = mem.rc,
         n.failed_assert = mem.failed_assert,
         n.stored = mem.stored \/ n.stored = mem.stored \ {e.id},
         NEW u \in RouterType \ {"ROUTED"}, mem' = n, router_out' = <<Sig(u, e.id)>>,
         UNCHANGED <<now, bq, bp_out, sched>>
  PROVE  Inv'
<1>1. PICK i \in 1..a : i = e.id
  <2>1. e.id \in 0..a /\ e.id # 0 BY DEF Taken, QSig
  <2> QED BY <2>1
<1>2. PICK f : f = Sig(u, i) OBVIOUS
<1>3. f.type = u /\ f.id = i /\ f \in AnySig /\ f \in RSig(a) /\ i # 0
  BY <1>1, <1>2 DEF Sig, AnySig, RSig, RouterType, BpType
<1>4. Weight(f) = {i} /\ Weight(e) = {i}
  <2>1. e.type # "ROUTED" BY DEF Taken, QSig, QueueType
  <2> QED BY <1>1, <1>3, <2>1 DEF Weight
<1>5. Carried(<<f>>) = {i} /\ Single(<<f>>) BY <1>3, <1>4, OneSignal
<1>6. PICK A, B, D, E : /\ A = Carried(bq) /\ B = Carried(rq)
                        /\ D = Pushed(bp_out) /\ E = sched
  OBVIOUS
<1>7. OwnedBut(A, B, {}, D, E, mem, {}) BY <1>6 DEF Inv, Owned, Taken
<1>8. Carried(q) = B \ {i} /\ i \in B BY <1>4, <1>6 DEF Taken
<1>9. OwnedBut(A, B \ {i}, {i}, D, E, n, {}) BY <1>1, <1>7, <1>8 DEF OwnedBut, Apart, Waits
<1>10. Fresh(bq, n) BY DEF Inv, Owned, Fresh
<1>11. <<f>> \in Seq(RSig(a)) BY <1>3
<1>12. Routed(a, q, n, <<f>>, sched)
  <2>1. <<f>> \in Seq(RSig(Len(n.info))) BY <1>11
  <2>2. /\ a <= Len(n.info) /\ Len(n.info) <= MaxId
        /\ n.stored \subseteq 1..Len(n.info) /\ sched \subseteq 1..Len(n.info)
    BY DEF Inv, Typed
  <2>3. OwnedBut(Carried(bq), Carried(q), Carried(<<f>>), Pushed(bp_out), sched, n, {})
    BY <1>5, <1>6, <1>8, <1>9
  <2> QED BY <1>5, <1>10, <2>1, <2>2, <2>3 DEF Routed
<1>13. router_out' = <<f>> BY <1>1, <1>2
<1> QED BY <1>12, <1>13, RoutedInv

\* bundle_storage_delete changes the set of stored bundles only.
LEMMA NoRouteMem ==
  ASSUME NEW m \in Mem, NEW i
  PROVE  /\ bundle_storage_delete(m, i) \in Mem
         /\ bundle_storage_delete(m, i).info = m.info /\ bundle_storage_delete(m, i).rc = m.rc
         /\ bundle_storage_delete(m, i).failed_assert = m.failed_assert
         /\ bundle_storage_delete(m, i).stored = m.stored \ {i}
         /\ bundle_storage_delete(m, i).known = m.known
         /\ bundle_storage_delete(m, i).delivered = m.delivered
BY DEF bundle_storage_delete, Mem

\* Transmitted: the result of a transmission is passed on to the processor.
LEMMA TransmittedInv == ASSUME Inv, Transmitted PROVE Inv'
<1>1. PICK t \in {"SUCCESS", "FAILURE"} : NextSignal(t) /\ router_out' = <<Sig(t, Head(rq).id)>>
  BY DEF Transmitted
<1>2. PICK a, e, q : a \in Nat /\ a = Len(mem.info) /\ Taken(a, t, e, q) BY <1>1, TakeSignal
<1>3. e = Head(rq) BY <1>2 DEF Taken
<1>4. mem \in Mem BY DEF Inv, Typed
<1>5. UNCHANGED <<now, mem, bq, bp_out, sched>> BY DEF Transmitted
<1>6. t \in RouterType \ {"ROUTED"} /\ t # "over" BY DEF RouterType
<1> QED BY <1>1, <1>2, <1>3, <1>4, <1>5, <1>6, ReportedInv

\* Scheduled: the bundle goes from the signal to a contact.
LEMMA ScheduledInv ==
  ASSUME Inv, NEW a \in Nat, a = Len(mem.info), NEW e, NEW q, Taken(a, "route", e, q),
         Scheduled(e.id), UNCHANGED <<now, bq, bp_out>>
  PROVE  Inv'
<1>1. PICK i \in 1..a : i = e.id
  <2>1. e.id \in 0..a /\ e.id # 0 BY DEF Taken, QSig
  <2> QED BY <2>1
<1>2. PICK f : f = Sig("ROUTED", i) OBVIOUS
<1>3. f \in AnySig /\ f \in RSig(a) /\ Weight(f) = {}
  BY <1>1, <1>2 DEF Sig, AnySig, RSig, RouterType, Weight
<1>4. Weight(e) = {i}
  <2>1. e.type # "ROUTED" /\ i # 0 BY <1>1 DEF Taken
  <2> QED BY <1>1, <2>1 DEF Weight
<1>5. Carried(<<f>>) = {} /\ Single(<<f>>) BY <1>3, OneSignal
<1>6. PICK A, B, D, E : /\ A = Carried(bq) /\ B = Carried(rq)
                        /\ D = Pushed(bp_out) /\ E = sched
  OBVIOUS
<1>7. OwnedBut(A, B, {}, D, E, mem, {}) BY <1>6 DEF Inv, Owned, Taken
<1>8. Carried(q) = B \ {i} /\ i \in B BY <1>4, <1>6 DEF Taken
<1>9. OwnedBut(A, B \ {i}, {}, D, E \cup {i}, mem, {}) BY <1>1, <1>7, <1>8 DEF OwnedBut, Apart
<1>10. <<f>> \in Seq(RSig(a)) BY <1>3
<1>11. Routed(a, q, mem, <<f>>, E \cup {i})
  <2>1. <<f>> \in Seq(RSig(Len(mem.info))) BY <1>10
  <2>2. /\ mem \in Mem /\ a <= Len(mem.info) /\ Len(mem.info) <= MaxId
        /\ mem.stored \subseteq 1..Len(mem.info) /\ E \cup {i} \subseteq 1..Len(mem.info)
    <3>1. /\ mem \in Mem /\ Len(mem.info) <= MaxId
          /\ mem.stored \subseteq 1..Len(mem.info) /\ sched \subseteq 1..Len(mem.info)
      BY DEF Inv, Typed
    <3>2. a <= a OBVIOUS
    <3> QED BY <1>1, <1>6, <3>1, <3>2
  <2>3. OwnedBut(Carried(bq), Carried(q), Carried(<<f>>), Pushed(bp_out), E \cup {i}, mem, {})
    BY <1>5, <1>6, <1>8, <1>9
  <2>4. Fresh(bq, mem) BY DEF Inv, Owned
  <2> QED BY <1>5, <2>1, <2>2, <2>3, <2>4 DEF Routed
<1>12. router_out' = <<f>> /\ sched' = E \cup {i} /\ mem' = mem BY <1>1, <1>2, <1>6 DEF Scheduled
<1> QED BY <1>11, <1>12, RoutedInv

\* Fragmented: the two fragments take the place of the bundle.
Replaced(m, a, i) ==
  \E n \in Mem :
    /\ n = bundle_storage_delete(bundle_storage_add(
             bundle_storage_add(m, m.info[i], m.rc[i]), m.info[i], m.rc[i]), i)
    /\ Len(n.info) = a + 2 /\ n.known = m.known /\ n.delivered = m.delivered
    /\ n.failed_assert = m.failed_assert
    /\ \A j \in 1..a : n.info[j] = m.info[j] /\ n.rc[j] = m.rc[j]
    /\ n.rc[a + 1] = m.rc[i] /\ n.rc[a + 2] = m.rc[i]
    /\ n.stored = (m.stored \cup {a + 1, a + 2}) \ {i}

\* bundlefragmenter: two more bundles with the constraints of the first.
LEMMA FragmentedMem ==
  ASSUME NEW m \in Mem, NEW a \in Nat, a = Len(m.info), a + 2 <= MaxId, NEW i \in 1..a
  PROVE  Replaced(m, a, i)
<1>1. PICK k \in Origin : k = m.info[i] BY DEF Mem
<1>2. PICK c \in SUBSET Constraint : c = m.rc[i]
  <2>1. i \in 1..MaxId BY ProcessorAssumption
  <2> QED BY <2>1 DEF Mem
<1>3. PICK x : x = bundle_storage_add(m, k, c) OBVIOUS
<1>4. /\ x \in Mem /\ Len(x.info) = a + 1
      /\ \A j \in 1..a : x.info[j] = m.info[j] /\ x.rc[j] = m.rc[j]
      /\ x.rc[a + 1] = c /\ x.stored = m.stored \cup {a + 1}
      /\ x.known = m.known /\ x.delivered = m.delivered /\ x.failed_assert = m.failed_assert
  <2>1. Len(m.info) < MaxId BY ProcessorAssumption
  <2> QED BY <1>3, <2>1, AddFacts
<1>5. PICK b \in Nat : b = a + 1 OBVIOUS
<1>6. PICK y : y = bundle_storage_add(x, k, c) OBVIOUS
<1>7. /\ y \in Mem /\ Len(y.info) = b + 1
      /\ \A j \in 1..b : y.info[j] = x.info[j] /\ y.rc[j] = x.rc[j]
      /\ y.rc[b + 1] = c /\ y.stored = x.stored \cup {b + 1}
      /\ y.known = x.known /\ y.delivered = x.delivered /\ y.failed_assert = x.failed_assert
  <2>1. Len(x.info) < MaxId /\ Len(x.info) = b BY <1>4, <1>5, ProcessorAssumption
  <2> QED BY <1>4, <1>6, <2>1, AddFacts
<1>8. PICK n : n = bundle_storage_delete(y, i) OBVIOUS
<1>9. /\ n \in Mem /\ n.info = y.info /\ n.rc = y.rc /\ n.failed_assert = y.failed_assert
      /\ n.stored = y.stored \ {i} /\ n.known = y.known /\ n.delivered = y.delivered
  BY <1>7, <1>8, NoRouteMem
<1>10. \A j \in 1..a : n.info[j] = m.info[j] /\ n.rc[j] = m.rc[j]
  <2>1. \A j \in 1..a : j \in 1..b BY <1>5
  <2> QED BY <1>4, <1>7, <1>9, <2>1
<1>11. n.rc[a + 1] = c /\ n.rc[a + 2] = c
  <2>1. b + 1 = a + 2 /\ a + 1 \in 1..b BY <1>5
  <2> QED BY <1>4, <1>7, <1>9, <2>1
<1>12. Len(n.info) = a + 2 BY <1>5, <1>7, <1>9
<1>13. n.stored = (m.stored \cup {a + 1, a + 2}) \ {i}
  <2>1. b + 1 = a + 2 BY <1>5
  <2> QED BY <1>4, <1>7, <1>9, <2>1
<1>14. n = bundle_storage_delete(bundle_storage_add(
                    bundle_storage_add(m, m.info[i], m.rc[i]), m.info[i], m.rc[i]), i)
  BY <1>1, <1>2, <1>3, <1>6, <1>8
<1> QED BY <1>2, <1>4, <1>7, <1>9, <1>10, <1>11, <1>12, <1>13, <1>14 DEF Replaced

\* Signals that only inform carry no bundle.
LEMMA TwoRouted ==
  ASSUME NEW b \in Nat, NEW i \in 1..b, NEW j \in 1..b
  PROVE  LET w == <<Sig("ROUTED", i), Sig("ROUTED", j)>>
         IN w \in Seq(RSig(b)) /\ Carried(w) = {} /\ Single(w)
<1>1. PICK w : w = <<Sig("ROUTED", i), Sig("ROUTED", j)>> OBVIOUS
<1>2. Sig("ROUTED", i) \in RSig(b) /\ Sig("ROUTED", j) \in RSig(b) BY DEF Sig, RSig, RouterType
<1>3. w \in Seq(RSig(b)) /\ DOMAIN w = {1, 2} BY <1>1, <1>2
<1>4. w[1].type = "ROUTED" /\ w[2].type = "ROUTED" BY <1>1 DEF Sig
<1>5. Signals(w) = {} BY <1>3, <1>4 DEF Signals
<1>6. Carried(w) = {} /\ Single(w) BY <1>5 DEF Carried, Single
<1> QED BY <1>1, <1>3, <1>6

\* Fragmented: two fragments take the place of the bundle.
LEMMA FragmentedInv ==
  ASSUME Inv, NEW a \in Nat, a = Len(mem.info), NEW e, NEW q, Taken(a, "route", e, q),
         Fragmented(e.id), UNCHANGED <<now, bq, bp_out>>
  PROVE  Inv'
<1>1. PICK i \in 1..a : i = e.id
  <2>1. e.id \in 0..a /\ e.id # 0 BY DEF Taken, QSig
  <2> QED BY <2>1
<1>2. Weight(e) = {i}
  <2>1. e.type # "ROUTED" /\ i # 0 BY <1>1 DEF Taken
  <2> QED BY <1>1, <2>1 DEF Weight
<1>3. mem \in Mem /\ a + 2 <= MaxId BY DEF Inv, Typed, Fragmented
<1>4. PICK n \in Mem :
        /\ n = bundle_storage_delete(bundle_storage_add(
                 bundle_storage_add(mem, mem.info[i], mem.rc[i]), mem.info[i], mem.rc[i]), i)
        /\ Len(n.info) = a + 2 /\ n.known = mem.known /\ n.delivered = mem.delivered
        /\ n.failed_assert = mem.failed_assert
        /\ \A j \in 1..a : n.info[j] = mem.info[j] /\ n.rc[j] = mem.rc[j]
        /\ n.rc[a + 1] = mem.rc[i] /\ n.rc[a + 2] = mem.rc[i]
        /\ n.stored = (mem.stored \cup {a + 1, a + 2}) \ {i}
  <2>1. Replaced(mem, a, i) BY <1>3, FragmentedMem
  <2> QED BY <2>1 DEF Replaced
<1>5. PICK w : w = <<Sig("ROUTED", a + 1), Sig("ROUTED", a + 2)>> OBVIOUS
<1>6. w \in Seq(RSig(a + 2)) /\ Carried(w) = {} /\ Single(w)
  <2>1. a + 2 \in Nat /\ a + 1 \in 1..(a + 2) /\ a + 2 \in 1..(a + 2) OBVIOUS
  <2> QED BY <1>5, <2>1, TwoRouted
<1>7. mem' = n /\ router_out' = w /\ sched' = sched \cup {a + 1, a + 2}
  BY <1>1, <1>4, <1>5 DEF Fragmented
<1>8. PICK A, B, D, E : /\ A = Carried(bq) /\ B = Carried(rq)
                        /\ D = Pushed(bp_out) /\ E = sched
  OBVIOUS
<1>9. OwnedBut(A, B, {}, D, E, mem, {}) BY <1>8 DEF Inv, Owned, Taken
<1>10. Carried(q) = B \ {i} /\ i \in B BY <1>2, <1>8 DEF Taken
<1>11. PICK x, y : x = a + 1 /\ y = a + 2 OBVIOUS
<1>12. /\ x \notin 1..a /\ y \notin 1..a /\ x \in 1..(a + 2) /\ y \in 1..(a + 2)
       /\ 1..a \subseteq 1..(a + 2) /\ mem.stored \subseteq 1..a
  <2>1. mem.stored \subseteq 1..a BY DEF Inv, Typed
  <2> QED BY <1>11, <2>1
<1>13. /\ Apart(A, B, {}, D, E) /\ A \cup B \cup D \cup E \subseteq 1..a
       /\ B \cup D \cup E \subseteq mem.stored
       /\ \A j \in mem.stored : IF j \in A \cup B \cup D \cup E
                                THEN "DISPATCH" \notin mem.rc[j] ELSE Waits(mem, j)
  BY <1>9 DEF OwnedBut
<1>14. "DISPATCH" \notin mem.rc[i] BY <1>10, <1>13
<1>15. Apart(A, B \ {i}, {}, D, E \cup {x, y}) BY <1>12, <1>13 DEF Apart
<1>16. n.stored = (mem.stored \cup {x, y}) \ {i} BY <1>4, <1>11
<1>17. (B \ {i}) \cup D \cup (E \cup {x, y}) \subseteq n.stored
  <2>1. i \notin D /\ i \notin E BY <1>10, <1>13 DEF Apart
  <2> QED BY <1>12, <1>13, <1>16, <2>1
<1>18. ASSUME NEW j \in n.stored
       PROVE  IF j \in A \cup (B \ {i}) \cup {} \cup D \cup (E \cup {x, y})
              THEN "DISPATCH" \notin n.rc[j] ELSE Waits(n, j)
  <2>1. CASE j \in {x, y}
    <3>1. n.rc[j] = mem.rc[i] BY <1>4, <1>11, <2>1
    <3> QED BY <1>14, <2>1, <3>1
  <2>2. CASE j \notin {x, y}
    <3>1. j \in mem.stored /\ j # i /\ j \in 1..a BY <1>12, <1>16, <2>2
    <3>2. n.info[j] = mem.info[j] /\ n.rc[j] = mem.rc[j] BY <1>4, <3>1
    <3> QED BY <1>13, <2>2, <3>1, <3>2 DEF Waits
  <2> QED BY <2>1, <2>2
<1>19. OwnedBut(A, B \ {i}, {}, D, E \cup {x, y}, n, {})
  <2>1. A \cup (B \ {i}) \cup {} \cup D \cup (E \cup {x, y}) \subseteq 1..(a + 2) BY <1>12, <1>13
  <2> QED BY <1>4, <1>15, <1>17, <1>18, <2>1 DEF OwnedBut
<1>20. Fresh(bq, n)
  <2>1. \A s \in BSig(a) : s.id \in 1..a BY DEF BSig
  <2>2. bq \in Seq(BSig(a)) BY DEF Inv, Typed
  <2>3. \A j \in DOMAIN bq : bq[j].id \in 1..a BY <2>1, <2>2
  <2>4. \A j \in DOMAIN bq : bq[j].id \in n.stored => bq[j].id \in mem.stored BY <1>12, <1>16, <2>3
  <2> QED BY <1>4, <2>3, <2>4 DEF Inv, Owned, Fresh
<1>21. Routed(a, q, n, w, E \cup {x, y})
  <2>1. w \in Seq(RSig(Len(n.info))) BY <1>4, <1>6
  <2>2. a <= Len(n.info) /\ Len(n.info) <= MaxId BY <1>3, <1>4
  <2>3. n.stored \subseteq 1..Len(n.info) /\ E \cup {x, y} \subseteq 1..Len(n.info)
    BY <1>4, <1>12, <1>13, <1>16
  <2>4. OwnedBut(Carried(bq), Carried(q), Carried(w), Pushed(bp_out), E \cup {x, y}, n, {})
    BY <1>6, <1>8, <1>10, <1>19
  <2> QED BY <1>4, <1>6, <1>20, <2>1, <2>2, <2>3, <2>4 DEF Routed
<1>22. sched' = E \cup {x, y} BY <1>7, <1>8, <1>11
<1> QED BY <1>7, <1>21, <1>22, RoutedInv

\* RouteBundle: the router has the bundle of the signal for itself, and passes it
\* back, to the contacts, or replaces it.
LEMMA RouteBundleInv == ASSUME Inv, RouteBundle PROVE Inv'
<1>1. NextSignal("route") /\ UNCHANGED <<now, bq, bp_out>> BY DEF RouteBundle
<1>2. PICK a, e, q : a \in Nat /\ a = Len(mem.info) /\ Taken(a, "route", e, q) BY <1>1, TakeSignal
<1>3. e = Head(rq) BY <1>2 DEF Taken
<1>4. NoRoute(e.id) \/ Scheduled(e.id) \/ Fragmented(e.id) \/ Refused(e.id)
  BY <1>3 DEF RouteBundle
<1>5. mem \in Mem /\ "CONTRAINDICATED" \in RouterType \ {"ROUTED"} BY DEF Inv, Typed, RouterType
<1>6. CASE NoRoute(e.id)
  <2>1. PICK n : n = bundle_storage_delete(mem, e.id) OBVIOUS
  <2>2. /\ n \in Mem /\ n.info = mem.info /\ n.rc = mem.rc
        /\ n.failed_assert = mem.failed_assert /\ n.stored = mem.stored \ {e.id}
    BY <1>5, <2>1, NoRouteMem
  <2>3. mem' = n /\ router_out' = <<Sig("CONTRAINDICATED", e.id)>> /\ UNCHANGED sched
    BY <1>6, <2>1 DEF NoRoute
  <2> QED BY <1>1, <1>2, <1>5, <2>2, <2>3, ReportedInv
<1>7. CASE Refused(e.id)
  <2>1. mem' = mem /\ router_out' = <<Sig("CONTRAINDICATED", e.id)>> /\ UNCHANGED sched
    BY <1>7 DEF Refused
  <2> QED BY <1>1, <1>2, <1>5, <2>1, ReportedInv
<1>8. CASE Scheduled(e.id) BY <1>1, <1>2, <1>8, ScheduledInv
<1>9. CASE Fragmented(e.id) BY <1>1, <1>2, <1>9, FragmentedInv
<1> QED BY <1>4, <1>6, <1>7, <1>8, <1>9

\* ContactOver, reschedule_bundles: what was left on the contact is in no queue.
LEMMA ContactOverInv == ASSUME Inv, ContactOver PROVE Inv'
<1>1. NextSignal("over") /\ UNCHANGED <<now, mem, bq, bp_out>> BY DEF ContactOver
<1>2. PICK a, e, q : a \in Nat /\ a = Len(mem.info) /\ Taken(a, "over", e, q) BY <1>1, TakeSignal
<1>3. PICK n \in 0..Cardinality(sched) : \E left \in [1..n -> sched] :
        /\ IsInjective(left) /\ sched' = sched \ ToSet(left)
        /\ router_out' = [j \in 1..n |-> Sig("RESCHEDULE", left[j])]
  BY DEF ContactOver
<1>4. PICK left \in [1..n -> sched] :
        /\ IsInjective(left) /\ sched' = sched \ ToSet(left)
        /\ router_out' = [j \in 1..n |-> Sig("RESCHEDULE", left[j])]
  BY <1>3
<1>5. n \in Nat
  <2>1. IsFiniteSet(sched)
    <3>1. sched \subseteq 1..a BY <1>2 DEF Inv, Typed
    <3>2. IsFiniteSet(1..a) BY <1>2, FS_Interval
    <3> QED BY <3>1, <3>2, FS_Subset
  <2>2. Cardinality(sched) \in Nat BY <2>1, FS_CardinalityType
  <2> QED BY <1>3, <2>2
<1>6. PICK w : w = router_out' OBVIOUS
<1>7. DOMAIN w = 1..n /\ \A j \in 1..n : w[j] = Sig("RESCHEDULE", left[j]) BY <1>4, <1>6
<1>8. \A j \in 1..n : w[j].type = "RESCHEDULE" /\ w[j].id = left[j] BY <1>7 DEF Sig
<1>9. \A j \in 1..n : left[j] \in sched /\ left[j] \in 1..a /\ left[j] # 0
  <2>1. \A j \in 1..n : left[j] \in sched BY <1>4
  <2>2. sched \subseteq 1..a BY <1>2 DEF Inv, Typed
  <2>3. \A x \in 1..a : x # 0 BY <1>2
  <2> QED BY <2>1, <2>2, <2>3
<1>10. w \in Seq(RSig(a))
  <2>1. \A x \in 1..a : Sig("RESCHEDULE", x) \in RSig(a) BY DEF Sig, RSig, RouterType
  <2>2. \A j \in 1..n : w[j] \in RSig(a) BY <1>7, <1>9, <2>1
  <2>3. w = [j \in 1..n |-> w[j]] BY <1>4, <1>6
  <2> QED BY <1>5, <2>2, <2>3
<1>11. Signals(w) = 1..n BY <1>7, <1>8 DEF Signals
<1>12. DOMAIN left = 1..n BY <1>4
<1>13. Single(w)
  <2>1. \A j, h \in 1..n : left[j] = left[h] => j = h BY <1>4, <1>12 DEF IsInjective
  <2> QED BY <1>8, <1>11, <2>1 DEF Single
<1>14. Carried(w) = ToSet(left)
  <2>1. ToSet(left) = {left[j] : j \in 1..n} BY <1>12 DEF ToSet
  <2>2. {w[j].id : j \in 1..n} = {left[j] : j \in 1..n} BY <1>8
  <2>3. 0 \notin {left[j] : j \in 1..n} BY <1>9
  <2> QED BY <1>11, <2>1, <2>2, <2>3 DEF Carried
<1>15. ToSet(left) \subseteq sched
  <2>1. ToSet(left) = {left[j] : j \in 1..n} BY <1>12 DEF ToSet
  <2> QED BY <1>9, <2>1
<1>16. PICK A, B, D, E, L : /\ A = Carried(bq) /\ B = Carried(rq) /\ L = ToSet(left)
                            /\ D = Pushed(bp_out) /\ E = sched
  OBVIOUS
<1>17. OwnedBut(A, B, {}, D, E, mem, {}) BY <1>2, <1>16 DEF Inv, Owned, Taken
<1>18. Carried(q) = B
  <2>1. Weight(e) = {} BY <1>2 DEF Taken, Weight
  <2> QED BY <1>2, <1>16, <2>1 DEF Taken
<1>19. OwnedBut(A, B, L, D, E \ L, mem, {}) BY <1>15, <1>16, <1>17 DEF OwnedBut, Apart
<1>20. Routed(a, q, mem, w, E \ L)
  <2>1. w \in Seq(RSig(Len(mem.info))) BY <1>2, <1>10
  <2>2. /\ mem \in Mem /\ a <= Len(mem.info) /\ Len(mem.info) <= MaxId
        /\ mem.stored \subseteq 1..Len(mem.info) /\ E \ L \subseteq 1..Len(mem.info)
    <3>1. /\ mem \in Mem /\ Len(mem.info) <= MaxId
          /\ mem.stored \subseteq 1..Len(mem.info) /\ sched \subseteq 1..Len(mem.info)
      BY DEF Inv, Typed
    <3>2. a <= a BY <1>2
    <3> QED BY <1>2, <1>16, <3>1, <3>2
  <2>3. OwnedBut(Carried(bq), Carried(q), Carried(w), Pushed(bp_out), E \ L, mem, {})
    BY <1>14, <1>16, <1>18, <1>19
  <2>4. Fresh(bq, mem) BY DEF Inv, Owned
  <2> QED BY <1>13, <2>1, <2>2, <2>3, <2>4 DEF Routed
<1>21. mem' = mem /\ router_out' = w /\ sched' = E \ L BY <1>1, <1>4, <1>6, <1>16
<1> QED BY <1>1, <1>2, <1>20, <1>21, RoutedInv

-----------------------------------------------------------------------------
(***************************************************************************)
(* Signals to the processor, TX tasks, contact manager, time               *)
(***************************************************************************)
\* A signal at the end of the queue of the processor is no new bundle, or one
\* without constraints.
LEMMA AppendFresh ==
  ASSUME NEW S, NEW q \in Seq(S), NEW e \in S, NEW m, Fresh(q, m),
         e.type \in {"INCOMING", "LOCAL_DISPATCH"} => m.rc[e.id] = {}
  PROVE  Fresh(Append(q, e), m)
<1>1. PICK n \in Nat : n = Len(q) OBVIOUS
<1>2. PICK r : r = Append(q, e) OBVIOUS
<1>3. DOMAIN r = 1..(n + 1) /\ DOMAIN q = 1..n /\ r[n + 1] = e /\ \A j \in 1..n : r[j] = q[j]
  BY <1>1, <1>2
<1>4. \A j \in 1..(n + 1) : j \in 1..n \/ j = n + 1 BY <1>1
<1>5. Fresh(r, m) BY <1>3, <1>4 DEF Fresh
<1> QED BY <1>2, <1>5

\* Inform, bundle_processor_inform: a signal goes from the hands of the router to the
\* queue of the processor.
LEMMA InformInv == ASSUME Inv, Inform PROVE Inv'
<1>1. PICK a \in Nat : a = Len(mem.info)
  <2>1. mem.info \in Seq(Origin) BY DEF Inv, Typed, Mem
  <2> QED BY <2>1
<1>2. /\ router_out \in Seq(AnySig) /\ router_out \in Seq(RSig(a)) /\ router_out # <<>>
      /\ Single(router_out) /\ bq \in Seq(AnySig) /\ bq \in Seq(BSig(a)) /\ Single(bq)
  BY <1>1, QueueTypes DEF Inv, Typed, Owned, Inform
<1>3. TailIsCarried(router_out, Tail(router_out)) /\ Head(router_out) = router_out[1] BY <1>2, TailCarried
<1>4. PICK e : e = router_out[1] OBVIOUS
<1>5. e \in RSig(a) /\ Tail(router_out) \in Seq(RSig(a)) BY <1>2, <1>4
<1>6. e \in BSig(a) /\ e \in AnySig /\ e.type \in RouterType
  BY <1>5 DEF RSig, BSig, AnySig, RouterType, BpType
<1>7. AppendIsCarried(bq, e, Append(bq, e)) BY <1>2, <1>6, AppendCarried
<1>8. PICK A, B, C, D, E : /\ A = Carried(bq) /\ B = Carried(rq) /\ C = Carried(router_out)
                          /\ D = Pushed(bp_out) /\ E = sched
  OBVIOUS
<1>9. OwnedBut(A, B, C, D, E, mem, {}) BY <1>8 DEF Inv, Owned
<1>10. PICK W : W = Weight(e) OBVIOUS
<1>11. Carried(Tail(router_out)) = C \ W /\ W \subseteq C /\ Single(Tail(router_out))
  BY <1>3, <1>4, <1>8, <1>10 DEF TailIsCarried
<1>12. W \cap A = {} BY <1>9, <1>11 DEF OwnedBut, Apart
<1>13. Carried(Append(bq, e)) = A \cup W /\ Single(Append(bq, e))
  BY <1>2, <1>7, <1>8, <1>10, <1>12 DEF AppendIsCarried
<1>14. OwnedBut(A \cup W, B, C \ W, D, E, mem, {}) BY <1>9, <1>11 DEF OwnedBut, Apart
<1>15. /\ bq' = Append(bq, e) /\ router_out' = Tail(router_out)
       /\ UNCHANGED <<now, mem, rq, bp_out, sched>>
  BY <1>3, <1>4 DEF Inform
<1>16. Append(bq, e) \in Seq(BSig(a)) /\ Len(Append(bq, e)) = Len(bq) + 1 BY <1>2, <1>6, AppendIs
<1>17. Len(Append(bq, e)) <= BpLength
  <2>1. Len(bq) \in Nat /\ Len(bq) < BpLength BY <1>2 DEF Inform
  <2> QED BY <1>16, <2>1, ProcessorAssumption
<1>18. Fresh(Append(bq, e), mem)
  <2>1. e.type \notin {"INCOMING", "LOCAL_DISPATCH"} BY <1>6 DEF RouterType
  <2>2. Fresh(bq, mem) BY DEF Inv, Owned
  <2> QED BY <1>2, <1>6, <2>1, <2>2, AppendFresh
<1>19. Typed'
  <2>1. Append(bq, e) \in Seq(BSig(Len(mem.info))) /\ Tail(router_out) \in Seq(RSig(Len(mem.info)))
    BY <1>1, <1>5, <1>16
  <2> QED BY <1>15, <1>17, <2>1 DEF Inv, Typed
<1>20. Owned' BY <1>8, <1>11, <1>13, <1>14, <1>15, <1>18 DEF Inv, Owned
<1> QED BY <1>19, <1>20 DEF Inv

\* Receive and AgentSend: the new bundle is under an id that nobody has.
LEMMA StoreInv ==
  ASSUME Inv, NEW t \in {"INCOMING", "LOCAL_DISPATCH"}, NEW k \in Kinds, Store(t, k)
  PROVE  Inv'
<1>1. PICK a \in Nat : a = Len(mem.info)
  <2>1. mem.info \in Seq(Origin) BY DEF Inv, Typed, Mem
  <2> QED BY <2>1
<1>2. k \in Origin BY ProcessorAssumption DEF Origin
<1>3. PICK n : n = bundle_storage_add(mem, k, {}) OBVIOUS
<1>4. /\ n \in Mem /\ Len(n.info) = a + 1
      /\ \A j \in 1..a : n.info[j] = mem.info[j] /\ n.rc[j] = mem.rc[j]
      /\ n.rc[a + 1] = {} /\ n.stored = mem.stored \cup {a + 1}
      /\ n.failed_assert = mem.failed_assert
  <2>1. mem \in Mem /\ Len(mem.info) < MaxId BY DEF Inv, Typed, Store
  <2>2. {} \in SUBSET Constraint OBVIOUS
  <2> QED BY <1>1, <1>2, <1>3, <2>1, <2>2, AddFacts
<1>5. PICK b \in Nat : b = a + 1 OBVIOUS
<1>6. PICK x : x = b OBVIOUS
<1>7. /\ x \notin 1..a /\ x \in 1..b /\ x # 0 /\ 1..a \subseteq 1..b /\ a <= b /\ b <= MaxId
      /\ mem.stored \subseteq 1..a /\ sched \subseteq 1..a
  <2>1. mem.stored \subseteq 1..a /\ sched \subseteq 1..a /\ a < MaxId BY <1>1 DEF Inv, Typed, Store
  <2> QED BY <1>5, <1>6, <2>1, ProcessorAssumption
<1>8. PICK e : e = Sig(t, x) OBVIOUS
<1>9. e \in BSig(b) /\ e \in AnySig /\ Weight(e) = {x} /\ e.id = x
  BY <1>5, <1>6, <1>7, <1>8 DEF Sig, BSig, AnySig, BpType, Weight
<1>10. bq \in Seq(BSig(a)) /\ bq \in Seq(AnySig) /\ Single(bq)
  BY <1>1, QueueTypes DEF Inv, Typed, Owned
<1>11. bq \in Seq(BSig(b)) /\ router_out \in Seq(RSig(b)) /\ rq \in Seq(QSig(b))
  <2>1. router_out \in Seq(RSig(a)) /\ rq \in Seq(QSig(a)) BY <1>1 DEF Inv, Typed
  <2> QED BY <1>7, <1>10, <2>1, SigGrows
<1>12. AppendIsCarried(bq, e, Append(bq, e)) BY <1>9, <1>10, AppendCarried
<1>13. PICK A, B, C, D, E : /\ A = Carried(bq) /\ B = Carried(rq) /\ C = Carried(router_out)
                           /\ D = Pushed(bp_out) /\ E = sched
  OBVIOUS
<1>14. /\ Apart(A, B, C, D, E) /\ A \cup B \cup C \cup D \cup E \subseteq 1..a
       /\ B \cup D \cup E \subseteq mem.stored
       /\ \A j \in mem.stored : IF j \in A \cup B \cup C \cup D \cup E
                                THEN "DISPATCH" \notin mem.rc[j] ELSE Waits(mem, j)
  BY <1>1, <1>13 DEF Inv, Owned, OwnedBut
<1>15. {x} \cap A = {} BY <1>7, <1>14
<1>16. Carried(Append(bq, e)) = A \cup {x} /\ Single(Append(bq, e))
  BY <1>9, <1>10, <1>12, <1>13, <1>15 DEF AppendIsCarried
<1>17. n.stored = mem.stored \cup {x} /\ n.rc[x] = {} BY <1>4, <1>5, <1>6
<1>18. ASSUME NEW j \in n.stored
       PROVE  IF j \in (A \cup {x}) \cup B \cup C \cup D \cup E
              THEN "DISPATCH" \notin n.rc[j] ELSE Waits(n, j)
  <2>1. CASE j = x BY <1>17, <2>1
  <2>2. CASE j # x
    <3>1. j \in mem.stored /\ j \in 1..a BY <1>7, <1>17, <2>2
    <3>2. n.info[j] = mem.info[j] /\ n.rc[j] = mem.rc[j] BY <1>4, <3>1
    <3> QED BY <1>14, <2>2, <3>1, <3>2 DEF Waits
  <2> QED BY <2>1, <2>2
<1>19. OwnedBut(A \cup {x}, B, C, D, E, n, {})
  <2>1. Apart(A \cup {x}, B, C, D, E) BY <1>7, <1>14 DEF Apart
  <2>2. (A \cup {x}) \cup B \cup C \cup D \cup E \subseteq 1..b BY <1>7, <1>14
  <2>3. Len(n.info) = b BY <1>4, <1>5
  <2> QED BY <1>14, <1>17, <1>18, <2>1, <2>2, <2>3 DEF OwnedBut
<1>20. Fresh(bq, n)
  <2>1. \A s \in BSig(a) : s.id \in 1..a BY DEF BSig
  <2>2. \A j \in DOMAIN bq : bq[j].id \in 1..a BY <1>10, <2>1
  <2>3. \A j \in DOMAIN bq : bq[j].id \in n.stored => bq[j].id \in mem.stored BY <1>7, <1>17, <2>2
  <2> QED BY <1>4, <2>2, <2>3 DEF Inv, Owned, Fresh
<1>21. Fresh(Append(bq, e), n) BY <1>9, <1>11, <1>17, <1>20, AppendFresh
<1>22. /\ mem' = n /\ bq' = Append(bq, e) /\ UNCHANGED <<now, rq, bp_out, router_out, sched>>
  BY <1>1, <1>3, <1>5, <1>6, <1>8 DEF Store
<1>23. Append(bq, e) \in Seq(BSig(b)) /\ Len(Append(bq, e)) = Len(bq) + 1 BY <1>9, <1>11, AppendIs
<1>24. Len(Append(bq, e)) <= BpLength
  <2>1. Len(bq) \in Nat /\ Len(bq) < BpLength BY <1>10 DEF Store
  <2> QED BY <1>23, <2>1, ProcessorAssumption
<1>25. \A j \in DOMAIN bp_out : bp_out[j].id <= b
  <2>1. bp_out \in Seq(Push) /\ \A j \in DOMAIN bp_out : bp_out[j].id <= a BY <1>1 DEF Inv, Typed
  <2>2. \A y \in Push : y.id \in Nat BY DEF Push
  <2>3. \A j \in DOMAIN bp_out : bp_out[j] \in Push BY <2>1
  <2> QED BY <1>7, <2>1, <2>2, <2>3
<1>26. Typed'
  <2>1. n.stored \subseteq 1..b /\ sched \subseteq 1..b /\ Len(n.info) = b BY <1>4, <1>5, <1>7, <1>17
  <2> QED BY <1>4, <1>7, <1>11, <1>22, <1>23, <1>24, <1>25, <2>1 DEF Inv, Typed
<1>27. Owned' BY <1>4, <1>13, <1>16, <1>19, <1>21, <1>22 DEF Inv, Owned
<1> QED BY <1>26, <1>27 DEF Inv

\* A signal at the end of the queue of the router.
LEMMA RqAppend ==
  ASSUME Inv, NEW a \in Nat, a = Len(mem.info), NEW e \in QSig(a), Len(rq) < RouterLength,
         e.type = "over" <=> e.id = 0
  PROVE  /\ Append(rq, e) \in Seq(QSig(Len(mem.info))) /\ Len(Append(rq, e)) <= RouterLength
         /\ OverIsZero(Append(rq, e)) /\ AppendIsCarried(rq, e, Append(rq, e))
<1>1. rq \in Seq(AnySig) /\ rq \in Seq(QSig(a)) /\ OverIsZero(rq) BY QueueTypes DEF Inv, Typed, OverIsZero
<1>2. e \in AnySig BY DEF QSig, AnySig
<1>3. PICK n \in Nat : n = Len(rq) BY <1>1
<1>4. PICK r : r = Append(rq, e) OBVIOUS
<1>5. /\ DOMAIN r = 1..(n + 1) /\ DOMAIN rq = 1..n /\ r[n + 1] = e /\ \A j \in 1..n : r[j] = rq[j]
      /\ r \in Seq(QSig(a)) /\ Len(r) = n + 1
  BY <1>1, <1>3, <1>4
<1>6. \A j \in 1..(n + 1) : j \in 1..n \/ j = n + 1 BY <1>3
<1>7. OverIsZero(r) BY <1>1, <1>5, <1>6 DEF OverIsZero
<1>8. Len(r) <= RouterLength BY <1>3, <1>5, ProcessorAssumption
<1>9. AppendIsCarried(rq, e, Append(rq, e)) BY <1>1, <1>2, AppendCarried
<1> QED BY <1>4, <1>5, <1>7, <1>8, <1>9

\* TxReport: the TX task gives its bundle back with the result.
LEMMA TxReportInv == ASSUME Inv, NEW i \in sched, TxReport(i) PROVE Inv'
<1>1. PICK a \in Nat : a = Len(mem.info)
  <2>1. mem.info \in Seq(Origin) BY DEF Inv, Typed, Mem
  <2> QED BY <2>1
<1>2. PICK t \in {"SUCCESS", "FAILURE"} : rq' = Append(rq, Sig(t, i)) BY DEF TxReport
<1>3. PICK e : e = Sig(t, i) OBVIOUS
<1>4. i \in 1..a BY <1>1 DEF Inv, Typed
<1>5. e \in QSig(a) /\ (e.type = "over" <=> e.id = 0) /\ Weight(e) = {i}
  BY <1>3, <1>4 DEF Sig, QSig, QueueType, Weight
<1>6. /\ Append(rq, e) \in Seq(QSig(Len(mem.info))) /\ Len(Append(rq, e)) <= RouterLength
      /\ OverIsZero(Append(rq, e)) /\ AppendIsCarried(rq, e, Append(rq, e))
  BY <1>1, <1>5, RqAppend DEF TxReport
<1>7. PICK A, B, C, D, E : /\ A = Carried(bq) /\ B = Carried(rq) /\ C = Carried(router_out)
                          /\ D = Pushed(bp_out) /\ E = sched
  OBVIOUS
<1>8. OwnedBut(A, B, C, D, E, mem, {}) /\ Single(rq) BY <1>7 DEF Inv, Owned
<1>9. {i} \cap B = {} /\ i \in E BY <1>7, <1>8 DEF OwnedBut, Apart
<1>10. Carried(Append(rq, e)) = B \cup {i} /\ Single(Append(rq, e))
  BY <1>5, <1>6, <1>7, <1>8, <1>9 DEF AppendIsCarried
<1>11. OwnedBut(A, B \cup {i}, C, D, E \ {i}, mem, {}) BY <1>8, <1>9 DEF OwnedBut, Apart
<1>12. /\ rq' = Append(rq, e) /\ sched' = E \ {i}
       /\ UNCHANGED <<now, mem, bq, bp_out, router_out>>
  BY <1>2, <1>3, <1>7 DEF TxReport
<1>13. Typed'
  <2>1. E \ {i} \subseteq 1..Len(mem.info) BY <1>7 DEF Inv, Typed
  <2> QED BY <1>6, <1>12, <2>1 DEF Inv, Typed, OverIsZero
<1>14. Owned' BY <1>7, <1>10, <1>11, <1>12 DEF Inv, Owned
<1> QED BY <1>13, <1>14 DEF Inv

\* DropContact: the signal for the end of a contact has no bundle.
LEMMA DropContactInv == ASSUME Inv, DropContact PROVE Inv'
<1>1. PICK a \in Nat : a = Len(mem.info)
  <2>1. mem.info \in Seq(Origin) BY DEF Inv, Typed, Mem
  <2> QED BY <2>1
<1>2. PICK e : e = Sig("over", 0) OBVIOUS
<1>3. e \in QSig(a) /\ (e.type = "over" <=> e.id = 0) /\ Weight(e) = {}
  BY <1>2 DEF Sig, QSig, QueueType, Weight
<1>4. /\ Append(rq, e) \in Seq(QSig(Len(mem.info))) /\ Len(Append(rq, e)) <= RouterLength
      /\ OverIsZero(Append(rq, e)) /\ AppendIsCarried(rq, e, Append(rq, e))
  BY <1>1, <1>3, RqAppend DEF DropContact
<1>5. Single(rq) BY DEF Inv, Owned
<1>6. Carried(Append(rq, e)) = Carried(rq) /\ Single(Append(rq, e))
  BY <1>3, <1>4, <1>5 DEF AppendIsCarried
<1>7. /\ rq' = Append(rq, e) /\ UNCHANGED <<now, mem, bq, bp_out, router_out, sched>>
  BY <1>2 DEF DropContact
<1>8. Typed' BY <1>4, <1>7 DEF Inv, Typed, OverIsZero
<1>9. Owned' BY <1>6, <1>7 DEF Inv, Owned
<1> QED BY <1>8, <1>9 DEF Inv

-----------------------------------------------------------------------------
(***************************************************************************)
(* The specification keeps the invariant                                   *)
(***************************************************************************)
\* Nothing is stored at the start.
LEMMA InitInv == ASSUME Init PROVE Inv
<1>1. PICK m : m = Empty OBVIOUS
<1>2. /\ m.info = <<>> /\ m.stored = {} /\ m.rc = [i \in 1..MaxId |-> {}] /\ m.known = <<>>
      /\ m.delivered = <<>> /\ m.failed_assert = FALSE
  BY <1>1 DEF Empty
<1>3. m \in Mem
  <2>1. \A S : <<>> \in Seq(S) BY EmptySeq
  <2>2. [i \in 1..MaxId |-> {}] \in [1..MaxId -> SUBSET Constraint] OBVIOUS
  <2> QED BY <1>1, <2>1, <2>2 DEF Empty, Mem
<1>4. /\ now = 0 /\ mem = m /\ sched = {}
      /\ bq = <<>> /\ rq = <<>> /\ bp_out = <<>> /\ router_out = <<>>
  BY <1>1 DEF Init
<1>5. \A S : <<>> \in Seq(S) BY EmptySeq
<1>6. Len(<<>>) = 0 /\ DOMAIN <<>> = {} OBVIOUS
<1>7. Typed BY <1>2, <1>3, <1>4, <1>5, <1>6, ProcessorAssumption DEF Typed
<1>8. /\ Carried(<<>>) = {} /\ Pushed(<<>>) = {} /\ Single(<<>>) /\ SinglePush(<<>>)
      /\ Fresh(<<>>, m)
  BY <1>6 DEF Carried, Pushed, Single, SinglePush, Signals, Fresh
<1>9. OwnedBut({}, {}, {}, {}, {}, m, {}) BY <1>2 DEF OwnedBut, Apart
<1>10. Owned BY <1>2, <1>4, <1>8, <1>9 DEF Owned
<1> QED BY <1>7, <1>10 DEF Inv

\* Every step keeps the invariant.
LEMMA StepInv == ASSUME Inv, [Next]_vars PROVE Inv'
<1>1. CASE Handle BY <1>1, HandleInv
<1>2. CASE SendBundle BY <1>2, SendBundleInv
<1>3. CASE SendTimeout BY <1>3, SendTimeoutInv
<1>4. CASE RouteBundle BY <1>4, RouteBundleInv
<1>5. CASE Transmitted BY <1>5, TransmittedInv
<1>6. CASE ContactOver BY <1>6, ContactOverInv
<1>7. CASE Inform BY <1>7, InformInv
<1>8. CASE Receive BY <1>8, StoreInv DEF Receive
<1>9. CASE AgentSend BY <1>9, StoreInv DEF AgentSend
<1>10. CASE DropContact BY <1>10, DropContactInv
<1>11. CASE Tick
  <2>1. now' = now + 1 /\ UNCHANGED <<mem, bq, rq, bp_out, router_out, sched>> BY <1>11 DEF Tick
  <2>2. now' \in Nat BY <2>1 DEF Inv, Typed
  <2>3. Typed' BY <2>1, <2>2 DEF Inv, Typed
  <2>4. Owned' BY <2>1 DEF Inv, Owned
  <2> QED BY <2>3, <2>4 DEF Inv
<1>12. CASE \E i \in sched : TxReport(i) BY <1>12, TxReportInv
<1>13. CASE UNCHANGED vars
  <2>1. UNCHANGED <<now, mem, bq, rq, bp_out, router_out, sched>> BY <1>13 DEF vars
  <2> QED BY <2>1 DEF Inv, Typed, Owned
<1> QED BY <1>1, <1>2, <1>3, <1>4, <1>5, <1>6, <1>7, <1>8, <1>9, <1>10, <1>11, <1>12, <1>13
        DEF Next, Bp, Router

\* The inductive invariant: what the queues and the hands of the tasks hold are ids
\* of bundles that were stored, no bundle is in two places, the router and the TX
\* tasks have stored bundles only, and a bundle that waits for its first handler
\* has no retention constraint.
THEOREM InvAlways == Spec => []Inv
<1>1. Init => Inv BY InitInv
<1>2. Inv /\ [Next]_vars => Inv' BY StepInv
<1> QED BY <1>1, <1>2, PTL DEF Spec

\* The invariant has the types in it.
LEMMA InvTypeOK == ASSUME Inv PROVE TypeOK
<1>1. PICK a \in Nat : a = Len(mem.info)
  <2>1. mem.info \in Seq(Origin) BY DEF Inv, Typed, Mem
  <2> QED BY <2>1
<1>2. DOMAIN mem.info = 1..a
  <2>1. mem.info \in Seq(Origin) BY DEF Inv, Typed, Mem
  <2> QED BY <1>1, <2>1
<1>3. mem.stored \subseteq DOMAIN mem.info /\ sched \subseteq DOMAIN mem.info /\ Len(mem.info) <= MaxId
  BY <1>1, <1>2 DEF Inv, Typed
<1>4. mem.rc \in [1..MaxId -> SUBSET Constraint] BY DEF Inv, Typed, Mem
<1>5. \A i \in DOMAIN mem.known : DOMAIN mem.known[i] = {"ident", "deadline"}
  <2>1. mem.known \in Seq(Entry) BY DEF Inv, Typed, Mem
  <2>2. \A x \in Entry : DOMAIN x = {"ident", "deadline"} BY DEF Entry
  <2> QED BY <2>1, <2>2
<1>6. \A i \in DOMAIN bq : bq[i].id \in DOMAIN mem.info
  <2>1. bq \in Seq(BSig(a)) BY <1>1 DEF Inv, Typed
  <2>2. \A x \in BSig(a) : x.id \in 1..a BY DEF BSig
  <2> QED BY <1>2, <2>1, <2>2
<1>7. Len(bq) <= BpLength /\ Len(rq) <= RouterLength BY DEF Inv, Typed
<1> QED BY <1>3, <1>4, <1>5, <1>6, <1>7 DEF TypeOK

\* The variables keep their types, the two queues their lengths, and every signal to
\* the processor is for a bundle that was stored at some time, for any number of
\* bundles and any lengths of the queues.
THEOREM ProcessorTypeOK == Spec => []TypeOK
<1>1. Inv => TypeOK BY InvTypeOK
<1> QED BY <1>1, InvAlways, PTL

\* The assertion of bundle_drop (bundle.c:87) never fails: on every path on which a
\* bundle is discarded its retention constraints were removed before.
THEOREM ProcessorDropAsserts == Spec => []DropAssertHolds
<1>1. Inv => DropAssertHolds BY DEF Inv, Owned, DropAssertHolds
<1> QED BY <1>1, InvAlways, PTL

\* The invariant says where stored bundles are needed.
LEMMA InvStored == ASSUME Inv PROVE InUseIsStored
<1>1. /\ Carried(rq) \subseteq mem.stored /\ Pushed(bp_out) \subseteq mem.stored
      /\ sched \subseteq mem.stored
  BY DEF Inv, Owned, OwnedBut
<1>2. PICK a \in Nat : a = Len(mem.info)
  <2>1. mem.info \in Seq(Origin) BY DEF Inv, Typed, Mem
  <2> QED BY <2>1
<1>3. ASSUME NEW j \in DOMAIN rq, rq[j].type # "over" PROVE rq[j].id \in mem.stored
  <2>1. rq \in Seq(QSig(a)) /\ rq[j].id # 0 BY <1>2, <1>3 DEF Inv, Typed
  <2>2. rq[j] \in QSig(a) BY <2>1
  <2>3. rq[j].type # "ROUTED" BY <2>2 DEF QSig, QueueType
  <2>4. rq[j].id \in Carried(rq) BY <2>1, <2>3 DEF Carried, Signals
  <2> QED BY <1>1, <2>4
<1>4. \A j \in DOMAIN bp_out : bp_out[j].id \in mem.stored BY <1>1 DEF Pushed
<1> QED BY <1>1, <1>3, <1>4 DEF InUseIsStored

\* What the router finds in its queue, what the processor is about to push there and
\* what a TX task may be sending has not been freed by bundle_discard meanwhile.
THEOREM ProcessorInUseIsStored == Spec => []InUseIsStored
<1>1. Inv => InUseIsStored BY InvStored
<1> QED BY <1>1, InvAlways, PTL

At(q, i) == {h \in Signals(q) : q[h].id = i}
AtPush(o, i) == {h \in DOMAIN o : o[h].id = i}

\* At most one signal of a queue is for the bundle.
LEMMA AtFacts ==
  ASSUME NEW q, NEW i, i # 0, Single(q)
  PROVE  /\ i \in Carried(q) => \E j : At(q, i) = {j}
         /\ i \notin Carried(q) => At(q, i) = {}
<1>1. ASSUME i \in Carried(q) PROVE \E j : At(q, i) = {j}
  <2>1. PICK j \in Signals(q) : q[j].id = i BY <1>1 DEF Carried
  <2>2. \A h \in Signals(q) : q[h].id = i => h = j BY <2>1 DEF Single
  <2>3. At(q, i) = {j} BY <2>1, <2>2 DEF At
  <2> QED BY <2>3
<1>2. ASSUME i \notin Carried(q) PROVE At(q, i) = {} BY <1>2 DEF Carried, At
<1> QED BY <1>1, <1>2

\* At most one of the ids to push is that of the bundle.
LEMMA AtPushFacts ==
  ASSUME NEW o, NEW i, SinglePush(o)
  PROVE  /\ i \in Pushed(o) => \E j : AtPush(o, i) = {j}
         /\ i \notin Pushed(o) => AtPush(o, i) = {}
<1>1. ASSUME i \in Pushed(o) PROVE \E j : AtPush(o, i) = {j}
  <2>1. PICK j \in DOMAIN o : o[j].id = i BY <1>1 DEF Pushed
  <2>2. \A h \in DOMAIN o : o[h].id = i => h = j BY <2>1 DEF SinglePush
  <2>3. AtPush(o, i) = {j} BY <2>1, <2>2 DEF AtPush
  <2> QED BY <2>3
<1>2. ASSUME i \notin Pushed(o) PROVE AtPush(o, i) = {} BY <1>2 DEF Pushed, AtPush
<1> QED BY <1>1, <1>2

Places(a, b, c, d, e) ==
  {<<"bq", j>> : j \in a} \cup {<<"rq", j>> : j \in b} \cup {<<"router", j>> : j \in c}
  \cup {<<"bp", j>> : j \in d} \cup {<<"sched", j>> : j \in e}

\* Of the five kinds of places exactly one has the bundle, in one position.
LEMMA InvOneOwner == ASSUME Inv PROVE OneOwner
<1>1. SUFFICES ASSUME NEW i \in mem.stored
               PROVE  \/ Cardinality(Owners(i)) = 1
                      \/ Owners(i) = {} /\ Waits(mem, i)
  BY DEF OneOwner, Waits
<1>2. i # 0
  <2>1. mem.stored \subseteq 1..MaxId BY DEF Inv, Typed, Mem
  <2> QED BY <2>1, ProcessorAssumption
<1>3. PICK a, b, c, d, e : /\ a = At(bq, i) /\ b = At(rq, i) /\ c = At(router_out, i)
                           /\ d = AtPush(bp_out, i) /\ e = sched \cap {i}
  OBVIOUS
<1>4. Owners(i) = Places(a, b, c, d, e) BY <1>3 DEF Owners, Places, At, AtPush
<1>5. PICK A, B, C, D, E : /\ A = Carried(bq) /\ B = Carried(rq) /\ C = Carried(router_out)
                          /\ D = Pushed(bp_out) /\ E = sched
  OBVIOUS
<1>6. /\ Apart(A, B, C, D, E)
      /\ i \in A \cup B \cup C \cup D \cup E \/ Waits(mem, i)
  BY <1>5 DEF Inv, Owned, OwnedBut
<1>7. /\ i \in A => \E j : a = {j}
      /\ i \notin A => a = {}
  BY <1>2, <1>3, <1>5, AtFacts DEF Inv, Owned
<1>8. /\ i \in B => \E j : b = {j}
      /\ i \notin B => b = {}
  BY <1>2, <1>3, <1>5, AtFacts DEF Inv, Owned
<1>9. /\ i \in C => \E j : c = {j}
      /\ i \notin C => c = {}
  BY <1>2, <1>3, <1>5, AtFacts DEF Inv, Owned
<1>10. /\ i \in D => \E j : d = {j}
       /\ i \notin D => d = {}
  BY <1>3, <1>5, AtPushFacts DEF Inv, Owned
<1>11. (i \in E => e = {i}) /\ (i \notin E => e = {}) BY <1>3, <1>5
<1>12. \A x : Cardinality({x}) = 1 BY FS_Singleton
<1>13. CASE i \in A
  <2>1. PICK j : a = {j} BY <1>7, <1>13
  <2>2. b = {} /\ c = {} /\ d = {} /\ e = {} BY <1>6, <1>8, <1>9, <1>10, <1>11, <1>13 DEF Apart
  <2>3. Places(a, b, c, d, e) = {<<"bq", j>>} BY <2>1, <2>2 DEF Places
  <2> QED BY <1>4, <1>12, <2>3
<1>14. CASE i \in B
  <2>1. PICK j : b = {j} BY <1>8, <1>14
  <2>2. a = {} /\ c = {} /\ d = {} /\ e = {} BY <1>6, <1>7, <1>9, <1>10, <1>11, <1>14 DEF Apart
  <2>3. Places(a, b, c, d, e) = {<<"rq", j>>} BY <2>1, <2>2 DEF Places
  <2> QED BY <1>4, <1>12, <2>3
<1>15. CASE i \in C
  <2>1. PICK j : c = {j} BY <1>9, <1>15
  <2>2. a = {} /\ b = {} /\ d = {} /\ e = {} BY <1>6, <1>7, <1>8, <1>10, <1>11, <1>15 DEF Apart
  <2>3. Places(a, b, c, d, e) = {<<"router", j>>} BY <2>1, <2>2 DEF Places
  <2> QED BY <1>4, <1>12, <2>3
<1>16. CASE i \in D
  <2>1. PICK j : d = {j} BY <1>10, <1>16
  <2>2. a = {} /\ b = {} /\ c = {} /\ e = {} BY <1>6, <1>7, <1>8, <1>9, <1>11, <1>16 DEF Apart
  <2>3. Places(a, b, c, d, e) = {<<"bp", j>>} BY <2>1, <2>2 DEF Places
  <2> QED BY <1>4, <1>12, <2>3
<1>17. CASE i \in E
  <2>1. e = {i} BY <1>11, <1>17
  <2>2. a = {} /\ b = {} /\ c = {} /\ d = {} BY <1>6, <1>7, <1>8, <1>9, <1>10, <1>17 DEF Apart
  <2>3. Places(a, b, c, d, e) = {<<"sched", i>>} BY <2>1, <2>2 DEF Places
  <2> QED BY <1>4, <1>12, <2>3
<1>18. CASE i \notin A \cup B \cup C \cup D \cup E
  <2>1. a = {} /\ b = {} /\ c = {} /\ d = {} /\ e = {} BY <1>7, <1>8, <1>9, <1>10, <1>11, <1>18
  <2>2. Places(a, b, c, d, e) = {} BY <2>1 DEF Places
  <2>3. Waits(mem, i) BY <1>6, <1>18
  <2> QED BY <1>4, <2>2, <2>3
<1> QED BY <1>13, <1>14, <1>15, <1>16, <1>17, <1>18

\* Every stored bundle is in the hands of exactly one task, queue or contact, which is
\* what lets processor, router and TX tasks use it without a lock; or it waits for
\* a custodian in vain, as an acceptable bundle that requests custody does.
THEOREM ProcessorOneOwner == Spec => []OneOwner
<1>1. Inv => OneOwner BY InvOneOwner
<1> QED BY <1>1, InvAlways, PTL

Sorted(q) == \A h, j \in DOMAIN q : h <= j => q[h].deadline <= q[j].deadline

\* x is on the list, unless its deadline is over.
Remembered(q, x, t) ==
  \A c \in Kinds : c.ident = x => \/ c.deadline < t
                                  \/ \E j \in DOMAIN q : q[j].ident = x /\ q[j].deadline = c.deadline

KnownOK(m, t) ==
  /\ Sorted(m.known) /\ IsInjective(m.delivered)
  /\ \A i \in DOMAIN m.delivered : Remembered(m.known, m.delivered[i], t)

\* A handler touches the list as bundle_record_add_and_check_known does, or not
\* at all.
MemStep == \/ mem'.known = mem.known /\ mem'.delivered = mem.delivered
           \/ \E k \in Origin : KnownStep(mem, mem', k)

-----------------------------------------------------------------------------
WalkIs(q, k, r, p, n, c) ==
  /\ p \in 1..(Len(q) + 1) /\ Stops(q, k, p) /\ \A h \in 1..(p - 1) : ~Stops(q, k, h)
  /\ n \in 0..(p - 1) /\ \A h \in 1..n : q[h].deadline < now
  /\ c = (IF Found(q, k) THEN 0 ELSE 1)
  /\ r \in Seq(Entry) /\ Len(r) = Len(q) - n + c
  /\ \A h \in 1..((p - 1) - n) : r[h] = q[n + h]
  /\ c = 1 => r[((p - 1) - n) + 1] = [ident |-> k.ident, deadline |-> k.deadline]
  /\ \A h \in (((p - 1) - n) + c + 1)..(Len(q) - n + c) : r[h] = q[(h - c) + n]

\* bundle_record_add_and_check_known, entry by entry: the front is cut off, the bundle
\* entered at the place where the walk stopped unless it was found.
LEMMA WalkFacts ==
  ASSUME NEW q \in Seq(Entry), NEW k \in Kind, now \in Nat
  PROVE  \E n, c \in Nat : WalkIs(q, k, Walked(q, k), Place(q, k), n, c)
<1>1. PICK p : p = Place(q, k) OBVIOUS
<1>2. p \in 1..(Len(q) + 1) /\ Stops(q, k, p) /\ \A h \in 1..(p - 1) : ~Stops(q, k, h)
  BY <1>1, PlaceFacts
<1>3. PICK n : n = Expired(q, p) OBVIOUS
<1>4. n \in 0..(p - 1) /\ \A h \in 1..n : q[h].deadline < now BY <1>2, <1>3, ExpiredFacts
<1>5. PICK e \in Seq(Entry) : e = NewEntry(q, k) BY WalkedIsList
<1>6. PICK c \in Nat : c = Len(e) BY <1>5
<1>7. PICK r : r = SubSeq(q, n + 1, p - 1) \o e \o SubSeq(q, p, Len(q)) OBVIOUS
<1>8. r = Walked(q, k) BY <1>1, <1>3, <1>5, <1>7 DEF Walked
<1>9. /\ r \in Seq(Entry) /\ Len(r) = Len(q) - n + c
      /\ \A h \in 1..((p - 1) - n) : r[h] = q[n + h]
      /\ \A h \in 1..c : r[((p - 1) - n) + h] = e[h]
      /\ \A h \in (((p - 1) - n) + c + 1)..(Len(q) - n + c) : r[h] = q[(h - c) + n]
  <2>1. p \in 1..(Len(q) + 1) /\ n \in 0..(p - 1) BY <1>2, <1>4
  <2>2. Spliced(Entry, q, e, p, n, c, SubSeq(q, n + 1, p - 1) \o e \o SubSeq(q, p, Len(q)))
    BY <1>6, <2>1, Splice
  <2> QED BY <1>7, <2>2 DEF Spliced
<1>10. c = (IF Found(q, k) THEN 0 ELSE 1) BY <1>5, <1>6 DEF NewEntry
<1>11. c = 1 => e[1] = [ident |-> k.ident, deadline |-> k.deadline] BY <1>5, <1>10 DEF NewEntry
<1>12. c = 1 => r[((p - 1) - n) + 1] = [ident |-> k.ident, deadline |-> k.deadline]
  BY <1>9, <1>11
<1>13. WalkIs(q, k, r, p, n, c) BY <1>2, <1>4, <1>9, <1>10, <1>12 DEF WalkIs
<1>14. n \in Nat
  <2>1. Len(q) \in Nat OBVIOUS
  <2> QED BY <1>2, <1>4, <2>1
<1> QED BY <1>1, <1>8, <1>13, <1>14

\* The deadlines in the list are times.
LEMMA EntryFacts ==
  ASSUME NEW q \in Seq(Entry)
  PROVE  \A j \in 1..Len(q) : q[j].deadline \in Nat
<1>1. \A x \in Entry : x.deadline \in Nat BY DEF Entry
<1>2. \A j \in 1..Len(q) : q[j] \in Entry OBVIOUS
<1> QED BY <1>1, <1>2

\* Where the walk stops it has met what expires no later than the bundle, and the rest
\* expires later.
LEMMA Around ==
  ASSUME NEW q \in Seq(Entry), Sorted(q), NEW k \in Kind, now \in Nat, k.deadline >= now,
         NEW l \in Nat, l = Len(q), NEW p \in 1..(l + 1), Stops(q, k, p),
         \A h \in 1..(p - 1) : ~Stops(q, k, h), ~Found(q, k), p = Place(q, k)
  PROVE  /\ \A h \in 1..(p - 1) : q[h].deadline <= k.deadline /\ q[h].ident # k.ident
         /\ \A h \in p..l : q[h].deadline > k.deadline
<1>1. k.deadline \in Nat BY DEF Kind
<1>2. \A j \in 1..l : q[j].deadline \in Nat BY EntryFacts
<1>3. ASSUME NEW h \in 1..(p - 1) PROVE q[h].deadline <= k.deadline /\ q[h].ident # k.ident
  <2>1. h \in 1..l OBVIOUS
  <2>2. ~Stops(q, k, h) OBVIOUS
  <2>3. q[h].ident # k.ident /\ ~(q[h].deadline >= now /\ q[h].deadline > k.deadline) BY <2>2 DEF Stops
  <2>4. q[h].deadline \in Nat BY <1>2, <2>1
  <2> QED BY <1>1, <2>3, <2>4
<1>4. ASSUME NEW h \in p..l PROVE q[h].deadline > k.deadline
  <2>1. p \in 1..l /\ h \in 1..l /\ p <= h OBVIOUS
  <2>2. q[p].ident # k.ident BY <2>1 DEF Found
  <2>3. q[p].deadline > k.deadline
    <3>1. p # Len(q) + 1 BY <2>1
    <3> QED BY <2>2, <3>1 DEF Stops
  <2>4. q[p].deadline <= q[h].deadline BY <2>1 DEF Sorted
  <2>5. q[p].deadline \in Nat /\ q[h].deadline \in Nat BY <1>2, <2>1
  <2> QED BY <1>1, <2>3, <2>4, <2>5
<1> QED BY <1>3, <1>4

\* The list stays ordered by deadline.
LEMMA WalkSorted ==
  ASSUME NEW q \in Seq(Entry), Sorted(q), NEW k \in Kind, now \in Nat, k.deadline >= now
  PROVE  Sorted(Walked(q, k))
<1>1. PICK n, c \in Nat : WalkIs(q, k, Walked(q, k), Place(q, k), n, c) BY WalkFacts
<1>2. PICK l \in Nat : l = Len(q) OBVIOUS
<1>3. PICK p, r : p = Place(q, k) /\ r = Walked(q, k) OBVIOUS
<1>4. /\ p \in 1..(l + 1) /\ Stops(q, k, p) /\ \A h \in 1..(p - 1) : ~Stops(q, k, h)
      /\ n <= p - 1 /\ c = (IF Found(q, k) THEN 0 ELSE 1)
      /\ r \in Seq(Entry) /\ Len(r) = l - n + c
      /\ \A h \in 1..((p - 1) - n) : r[h] = q[n + h]
      /\ c = 1 => r[((p - 1) - n) + 1] = [ident |-> k.ident, deadline |-> k.deadline]
      /\ \A h \in (((p - 1) - n) + c + 1)..(l - n + c) : r[h] = q[(h - c) + n]
  BY <1>1, <1>2, <1>3 DEF WalkIs
<1>5. PICK u \in Nat : u = (p - 1) - n BY <1>4
<1>6. k.deadline \in Nat BY DEF Kind
<1>7. \A j \in 1..l : q[j].deadline \in Nat BY <1>2, EntryFacts
<1>8. \A h, j \in 1..l : h <= j => q[h].deadline <= q[j].deadline BY <1>2 DEF Sorted
<1>9. SUFFICES ASSUME NEW h \in 1..(l - n + c), NEW j \in 1..(l - n + c), h <= j
               PROVE  r[h].deadline <= r[j].deadline
  <2>1. DOMAIN r = 1..(l - n + c) BY <1>4
  <2> QED BY <1>3, <2>1 DEF Sorted
<1>10. CASE h \in 1..u /\ j \in 1..u
  <2>1. r[h] = q[n + h] /\ r[j] = q[n + j] BY <1>4, <1>5, <1>10
  <2>2. n + h \in 1..l /\ n + j \in 1..l /\ n + h <= n + j BY <1>4, <1>5, <1>9, <1>10
  <2> QED BY <1>8, <2>1, <2>2
<1>11. CASE h \in (u + c + 1)..(l - n + c)
  <2>1. j \in (u + c + 1)..(l - n + c) BY <1>9, <1>11
  <2>2. r[h] = q[(h - c) + n] /\ r[j] = q[(j - c) + n] BY <1>4, <1>5, <1>11, <2>1
  <2>3. (h - c) + n \in 1..l /\ (j - c) + n \in 1..l /\ (h - c) + n <= (j - c) + n
    BY <1>4, <1>5, <1>9, <1>11, <2>1
  <2> QED BY <1>8, <2>2, <2>3
<1>12. CASE h \in 1..u /\ j \in (u + c + 1)..(l - n + c)
  <2>1. r[h] = q[n + h] /\ r[j] = q[(j - c) + n] BY <1>4, <1>5, <1>12
  <2>2. n + h \in 1..l /\ (j - c) + n \in 1..l /\ n + h <= (j - c) + n BY <1>4, <1>5, <1>12
  <2> QED BY <1>8, <2>1, <2>2
<1>13. CASE c = 1 /\ (h = u + 1 \/ j = u + 1)
  <2>1. ~Found(q, k) BY <1>4, <1>13
  <2>2. /\ \A x \in 1..(p - 1) : q[x].deadline <= k.deadline
        /\ \A x \in p..l : q[x].deadline > k.deadline
    BY <1>2, <1>3, <1>4, <2>1, Around
  <2>3. r[u + 1].deadline = k.deadline BY <1>4, <1>5, <1>13
  <2>4. CASE h = u + 1 /\ j = u + 1 BY <1>6, <2>3, <2>4
  <2>5. CASE h = u + 1 /\ j # u + 1
    <3>1. j \in (u + c + 1)..(l - n + c) BY <1>9, <1>13, <2>5
    <3>2. r[j] = q[(j - c) + n] /\ (j - c) + n \in p..l /\ (j - c) + n \in 1..l BY <1>4, <1>5, <1>13, <3>1
    <3>3. q[(j - c) + n].deadline > k.deadline /\ q[(j - c) + n].deadline \in Nat BY <1>7, <2>2, <3>2
    <3> QED BY <1>6, <2>3, <2>5, <3>2, <3>3
  <2>6. CASE h # u + 1 /\ j = u + 1
    <3>1. h \in 1..u BY <1>9, <2>6
    <3>2. r[h] = q[n + h] /\ n + h \in 1..(p - 1) BY <1>4, <1>5, <3>1
    <3> QED BY <2>2, <2>3, <2>6, <3>2
  <2> QED BY <1>13, <2>4, <2>5, <2>6
<1>14. c = 0 \/ c = 1 BY <1>4
<1>15. \A x \in 1..(l - n + c) : x \in 1..u \/ (c = 1 /\ x = u + 1) \/ x \in (u + c + 1)..(l - n + c)
  BY <1>4, <1>5, <1>14
<1> QED BY <1>9, <1>10, <1>11, <1>12, <1>13, <1>15

\* The walk forgets only what has expired.
LEMMA WalkRemembers ==
  ASSUME NEW q \in Seq(Entry), NEW k \in Kind, now \in Nat, NEW x, Remembered(q, x, now)
  PROVE  Remembered(Walked(q, k), x, now)
<1>1. PICK n, c \in Nat : WalkIs(q, k, Walked(q, k), Place(q, k), n, c) BY WalkFacts
<1>2. PICK l \in Nat : l = Len(q) OBVIOUS
<1>3. PICK p, r : p = Place(q, k) /\ r = Walked(q, k) OBVIOUS
<1>4. /\ p \in 1..(l + 1) /\ n <= p - 1 /\ c \in 0..1
      /\ \A h \in 1..n : q[h].deadline < now
      /\ r \in Seq(Entry) /\ Len(r) = l - n + c
      /\ \A h \in 1..((p - 1) - n) : r[h] = q[n + h]
      /\ \A h \in (((p - 1) - n) + c + 1)..(l - n + c) : r[h] = q[(h - c) + n]
  BY <1>1, <1>2, <1>3 DEF WalkIs
<1>5. DOMAIN r = 1..(l - n + c) /\ DOMAIN q = 1..l BY <1>2, <1>4
<1>6. SUFFICES ASSUME NEW d \in Kinds, d.ident = x, ~(d.deadline < now)
               PROVE  \E j \in DOMAIN r : r[j].ident = x /\ r[j].deadline = d.deadline
  BY <1>3 DEF Remembered
<1>7. PICK j \in 1..l : q[j].ident = x /\ q[j].deadline = d.deadline
  BY <1>5, <1>6 DEF Remembered
<1>8. j > n BY <1>2, <1>4, <1>6, <1>7
<1>9. CASE j < p
  <2>1. j - n \in 1..((p - 1) - n) /\ n + (j - n) = j /\ j - n \in 1..(l - n + c) BY <1>4, <1>8, <1>9
  <2>2. r[j - n] = q[j] BY <1>4, <2>1
  <2> QED BY <1>5, <1>7, <2>1, <2>2
<1>10. CASE j >= p
  <2>1. PICK h \in Nat : h = (j - n) + c BY <1>8
  <2>2. /\ h \in (((p - 1) - n) + c + 1)..(l - n + c) /\ (h - c) + n = j
        /\ h \in 1..(l - n + c)
    BY <1>4, <1>8, <1>10, <2>1
  <2>3. r[h] = q[j] BY <1>4, <2>2
  <2> QED BY <1>5, <1>7, <2>2, <2>3
<1> QED BY <1>4, <1>9, <1>10

\* A bundle that is not found is in the list afterwards.
LEMMA WalkEnters ==
  ASSUME NEW q \in Seq(Entry), NEW k \in Kind, now \in Nat, ~Found(q, k)
  PROVE  \E j \in DOMAIN Walked(q, k) : /\ Walked(q, k)[j].ident = k.ident
                                        /\ Walked(q, k)[j].deadline = k.deadline
<1>1. PICK n, c \in Nat : WalkIs(q, k, Walked(q, k), Place(q, k), n, c) BY WalkFacts
<1>2. PICK l \in Nat : l = Len(q) OBVIOUS
<1>3. PICK p, r : p = Place(q, k) /\ r = Walked(q, k) OBVIOUS
<1>4. /\ p \in 1..(l + 1) /\ n <= p - 1 /\ c = 1
      /\ r \in Seq(Entry) /\ Len(r) = l - n + c
      /\ r[((p - 1) - n) + 1] = [ident |-> k.ident, deadline |-> k.deadline]
  BY <1>1, <1>2, <1>3 DEF WalkIs
<1>5. DOMAIN r = 1..(l - n + c) BY <1>4
<1>6. ((p - 1) - n) + 1 \in 1..(l - n + c) BY <1>4
<1> QED BY <1>3, <1>4, <1>5, <1>6

\* A bundle that was delivered before and has not expired is found: the walk cannot
\* stop ahead of it, because its copies have the same deadline.
LEMMA DeliveredIsFound ==
  ASSUME CopiesAgree, NEW q \in Seq(Entry), Sorted(q), NEW k \in Origin, now \in Nat,
         k.deadline >= now, Remembered(q, k.ident, now)
  PROVE  Found(q, k)
<1>1. SUFFICES ASSUME ~Found(q, k) PROVE FALSE OBVIOUS
<1>2. k \in Kind /\ k.deadline \in Nat BY DEF Origin, Kind
<1>3. PICK d \in Kinds : d.ident = k.ident /\ d.deadline = k.deadline BY DEF Origin
<1>4. PICK l \in Nat : l = Len(q) OBVIOUS
<1>5. PICK j \in 1..l : q[j].ident = k.ident /\ q[j].deadline = k.deadline
  <2>1. ~(d.deadline < now) BY <1>2, <1>3
  <2> QED BY <1>3, <1>4, <2>1 DEF Remembered
<1>6. PICK p : p = Place(q, k) OBVIOUS
<1>7. p \in 1..(l + 1) /\ Stops(q, k, p) /\ \A h \in 1..(p - 1) : ~Stops(q, k, h)
  BY <1>2, <1>4, <1>6, PlaceFacts
<1>8. /\ \A h \in 1..(p - 1) : q[h].ident # k.ident
      /\ \A h \in p..l : q[h].deadline > k.deadline
  BY <1>1, <1>2, <1>4, <1>6, <1>7, Around
<1>9. CASE j < p
  <2>1. j \in 1..(p - 1) BY <1>7, <1>9
  <2> QED BY <1>5, <1>8, <2>1
<1>10. CASE j >= p
  <2>1. j \in p..l BY <1>7, <1>10
  <2>2. k.deadline > k.deadline BY <1>5, <1>8, <2>1
  <2> QED BY <1>2, <2>2
<1> QED BY <1>7, <1>9, <1>10

-----------------------------------------------------------------------------

\* One identity more, which was not there.
LEMMA InjectiveMore ==
  ASSUME NEW q \in Seq(Nat), NEW x \in Nat, IsInjective(q), \A h \in DOMAIN q : q[h] # x
  PROVE  IsInjective(Append(q, x))
<1>1. PICK n \in Nat : n = Len(q) OBVIOUS
<1>2. PICK r : r = Append(q, x) OBVIOUS
<1>3. DOMAIN r = 1..(n + 1) /\ DOMAIN q = 1..n /\ r[n + 1] = x /\ \A j \in 1..n : r[j] = q[j]
  BY <1>1, <1>2
<1>4. \A j \in 1..(n + 1) : j \in 1..n \/ j = n + 1 BY <1>1
<1>5. \A i, j \in 1..n : q[i] = q[j] => i = j BY <1>3 DEF IsInjective
<1>6. \A j \in 1..n : r[j] # r[n + 1] BY <1>3
<1>7. \A i, j \in 1..(n + 1) : r[i] = r[j] => i = j BY <1>3, <1>4, <1>5, <1>6
<1>8. IsInjective(r) BY <1>3, <1>7 DEF IsInjective
<1>9. IsInjective(Append(q, x)) BY <1>2, <1>8
<1> QED BY <1>9

-----------------------------------------------------------------------------

\* Handle: one handler runs, for the bundle of the signal.
LEMMA HandleMem == ASSUME Inv, Handle PROVE MemStep
<1>1. PICK a \in Nat : a = Len(mem.info)
  <2>1. mem.info \in Seq(Origin) BY DEF Inv, Typed, Mem
  <2> QED BY <2>1
<1>2. bq \in Seq(AnySig) /\ bq \in Seq(BSig(a)) /\ bq # <<>> /\ Single(bq)
  BY <1>1, QueueTypes DEF Inv, Typed, Owned, Handle
<1>3. TailIsCarried(bq, Tail(bq)) /\ Head(bq) = bq[1] /\ 1 \in DOMAIN bq BY <1>2, TailCarried
<1>4. PICK sig \in BSig(a) : sig = bq[1] BY <1>2
<1>5. PICK s : s = handle_signal([m |-> mem, out |-> <<>>], sig) OBVIOUS
<1>6. mem' = s.m BY <1>3, <1>4, <1>5 DEF Handle
<1>7. sig.id \in 1..a /\ sig.type \in BpType \cup {"ROUTED"} BY <1>4 DEF BSig
<1>8. CASE sig.type = "ROUTED" \/ sig.id \notin mem.stored
  <2>1. s = [m |-> mem, out |-> <<>>] BY <1>5, <1>8 DEF handle_signal
  <2> QED BY <1>6, <2>1 DEF MemStep
<1>9. CASE sig.type # "ROUTED" /\ sig.id \in mem.stored
  <2>1. PICK i \in 1..a : i = sig.id BY <1>7
  <2>2. i \in Carried(bq) /\ i \in mem.stored BY <1>3, <1>4, <1>7, <1>9, <2>1 DEF TailIsCarried, Weight
  <2>3. "DISPATCH" \notin mem.rc[i] BY <2>2 DEF Inv, Owned, OwnedBut
  <2>4. sig.type \in {"INCOMING", "LOCAL_DISPATCH"} => mem.rc[i] = {}
    BY <1>3, <1>4, <2>1, <2>2 DEF Inv, Owned, Fresh
  <2>5. mem \in Mem /\ Len(mem.info) <= MaxId /\ now \in Nat /\ i \in 1..Len(mem.info)
    BY <1>1 DEF Inv, Typed
  <2>6. s \in Handled(mem, <<>>, i)
    BY <1>5, <1>7, <1>9, <2>1, <2>2, <2>3, <2>4, <2>5, SignalHandled
  <2>7. KnownStep(mem, s.m, mem.info[i]) BY <2>6 DEF Handled
  <2>8. mem.info[i] \in Origin BY <2>5 DEF Mem
  <2> QED BY <1>6, <2>7, <2>8 DEF MemStep
<1> QED BY <1>8, <1>9

\* SendTimeout: the bundle is deleted, which is not in the list of known bundles.
LEMMA SendTimeoutMem == ASSUME Inv, SendTimeout PROVE MemStep
<1>1. bp_out \in Seq(Push) /\ bp_out # <<>> /\ SinglePush(bp_out) BY DEF Inv, Typed, Owned, SendTimeout
<1>2. /\ Tail(bp_out) \in Seq(Push) /\ Head(bp_out) = bp_out[1] /\ bp_out[1].id \in Pushed(bp_out)
  BY <1>1, TailPushed
<1>3. PICK o \in Seq(Push) : o = Tail(bp_out) BY <1>2
<1>4. PICK i : i = bp_out[1].id OBVIOUS
<1>5. mem \in Mem /\ Len(mem.info) <= MaxId /\ mem.stored \subseteq 1..Len(mem.info) BY DEF Inv, Typed
<1>6. i \in mem.stored BY <1>2, <1>4 DEF Inv, Owned, OwnedBut
<1>7. i \in 1..Len(mem.info) BY <1>5, <1>6
<1>8. PICK s : s = bundle_delete([m |-> mem, out |-> o], i) OBVIOUS
<1>9. mem' = s.m BY <1>2, <1>3, <1>4, <1>8 DEF SendTimeout
<1>10. s \in Handled(mem, o, i) BY <1>5, <1>7, <1>8, FailedHandled
<1>11. KnownStep(mem, s.m, mem.info[i]) BY <1>10 DEF Handled
<1>12. mem.info[i] \in Origin BY <1>5, <1>7 DEF Mem
<1> QED BY <1>9, <1>11, <1>12 DEF MemStep

\* Fragmented: the router does not touch the list of known bundles.
LEMMA FragmentedStep ==
  ASSUME Inv, NEW a \in Nat, a = Len(mem.info), NEW i \in 1..a, Fragmented(i)
  PROVE  MemStep
<1>1. mem \in Mem /\ a + 2 <= MaxId BY DEF Inv, Typed, Fragmented
<1>2. Replaced(mem, a, i) BY <1>1, FragmentedMem
<1>3. mem'.known = mem.known /\ mem'.delivered = mem.delivered BY <1>2 DEF Replaced, Fragmented
<1> QED BY <1>3 DEF MemStep

\* RouteBundle: neither do its other outcomes.
LEMMA RouteBundleMem == ASSUME Inv, RouteBundle PROVE MemStep
<1>1. NextSignal("route") BY DEF RouteBundle
<1>2. PICK a, e, q : a \in Nat /\ a = Len(mem.info) /\ Taken(a, "route", e, q) BY <1>1, TakeSignal
<1>3. e = Head(rq) BY <1>2 DEF Taken
<1>4. PICK i \in 1..a : i = Head(rq).id
  <2>1. e.id \in 0..a /\ e.id # 0 BY <1>2 DEF Taken, QSig
  <2> QED BY <1>3, <2>1
<1>5. NoRoute(i) \/ Scheduled(i) \/ Fragmented(i) \/ Refused(i) BY <1>4 DEF RouteBundle
<1>6. mem \in Mem BY DEF Inv, Typed
<1>7. CASE NoRoute(i)
  <2>1. mem' = bundle_storage_delete(mem, i) BY <1>7 DEF NoRoute
  <2> QED BY <1>6, <2>1, NoRouteMem DEF MemStep
<1>8. CASE Fragmented(i) BY <1>2, <1>8, FragmentedStep
<1>9. CASE Scheduled(i) \/ Refused(i) BY <1>9 DEF Scheduled, Refused, MemStep
<1> QED BY <1>5, <1>7, <1>8, <1>9

\* Receive and AgentSend: a bundle is not known before it is delivered.
LEMMA StoreMem ==
  ASSUME Inv, NEW t, NEW k \in Kinds, Store(t, k)
  PROVE  MemStep
<1>1. PICK a \in Nat : a = Len(mem.info)
  <2>1. mem.info \in Seq(Origin) BY DEF Inv, Typed, Mem
  <2> QED BY <2>1
<1>2. k \in Origin BY ProcessorAssumption DEF Origin
<1>3. mem \in Mem /\ Len(mem.info) < MaxId /\ {} \in SUBSET Constraint BY DEF Inv, Typed, Store
<1>4. PICK n : n = bundle_storage_add(mem, k, {}) OBVIOUS
<1>5. n.known = mem.known /\ n.delivered = mem.delivered BY <1>1, <1>2, <1>3, <1>4, AddFacts
<1>6. mem' = n BY <1>4 DEF Store
<1> QED BY <1>5, <1>6 DEF MemStep

\* Every step leaves the list and the agents alone, or is one walk; time does not go
\* back.
LEMMA StepMem ==
  ASSUME Inv, [Next]_vars
  PROVE  MemStep /\ now' \in Nat /\ now' >= now
<1>1. now \in Nat BY DEF Inv, Typed
<1>2. CASE Handle BY <1>1, <1>2, HandleMem DEF Handle
<1>3. CASE SendTimeout BY <1>1, <1>3, SendTimeoutMem DEF SendTimeout
<1>4. CASE RouteBundle BY <1>1, <1>4, RouteBundleMem DEF RouteBundle
<1>5. CASE Receive BY <1>1, <1>5, StoreMem DEF Receive, Store
<1>6. CASE AgentSend BY <1>1, <1>6, StoreMem DEF AgentSend, Store
<1>7. CASE SendBundle \/ Transmitted \/ ContactOver \/ Inform \/ DropContact
  BY <1>1, <1>7 DEF SendBundle, Transmitted, ContactOver, Inform, DropContact, MemStep
<1>8. CASE Tick
  <2>1. now' = now + 1 /\ mem' = mem BY <1>8 DEF Tick
  <2> QED BY <1>1, <2>1 DEF MemStep
<1>9. CASE \E i \in sched : TxReport(i) BY <1>1, <1>9 DEF TxReport, MemStep
<1>10. CASE UNCHANGED vars BY <1>1, <1>10 DEF vars, MemStep
<1> QED BY <1>2, <1>3, <1>4, <1>5, <1>6, <1>7, <1>8, <1>9, <1>10 DEF Next, Bp, Router

\* A bundle that is in the list or over stays so as time passes.
LEMMA RemembersLater ==
  ASSUME NEW q, NEW x, NEW t \in Nat, NEW u \in Nat, t <= u, Remembered(q, x, t)
  PROVE  Remembered(q, x, u)
<1>1. \A c \in Kinds : c.deadline \in Nat BY ProcessorAssumption DEF Kind
<1>2. \A d \in Nat : d < t => d < u OBVIOUS
<1> QED BY <1>1, <1>2 DEF Remembered

\* Nothing is known or delivered at the start.
LEMMA KnownInit == ASSUME Init PROVE KnownOK(mem, now)
<1>1. mem.known = <<>> /\ mem.delivered = <<>> BY DEF Init, Empty
<1>2. DOMAIN <<>> = {} OBVIOUS
<1> QED BY <1>1, <1>2 DEF KnownOK, Sorted, IsInjective

\* What is delivered was not found, hence not delivered before, and is entered.
LEMMA KnownNext ==
  ASSUME CopiesAgree, Inv, KnownOK(mem, now), [Next]_vars
  PROVE  KnownOK(mem, now)'
<1>1. MemStep /\ now' \in Nat /\ now' >= now /\ now \in Nat BY StepMem DEF Inv, Typed
<1>2. PICK q \in Seq(Entry), d \in Seq(Nat) : q = mem.known /\ d = mem.delivered
  BY DEF Inv, Typed, Mem
<1>3. PICK r, f, t : r = mem'.known /\ f = mem'.delivered /\ t = now' OBVIOUS
<1>4. Sorted(q) /\ IsInjective(d) /\ \A i \in DOMAIN d : Remembered(q, d[i], now)
  BY <1>2 DEF KnownOK
<1>5. SUFFICES Sorted(r) /\ IsInjective(f) /\ \A i \in DOMAIN f : Remembered(r, f[i], now)
  <2>1. ASSUME \A i \in DOMAIN f : Remembered(r, f[i], now)
        PROVE  \A i \in DOMAIN f : Remembered(r, f[i], t)
    BY <1>1, <1>3, <2>1, RemembersLater
  <2> QED BY <1>3, <2>1 DEF KnownOK
<1>6. CASE r = q /\ f = d BY <1>4, <1>6
<1>7. CASE \E k \in Origin : KnownStep(mem, mem', k)
  <2>1. PICK k \in Origin : KnownStep(mem, mem', k) BY <1>7
  <2>2. CASE r = q /\ f = d BY <1>4, <2>2
  <2>3. CASE k.deadline >= now /\ r = Walked(q, k) /\ (f = d \/ (~Found(q, k) /\ f = Append(d, k.ident)))
    <3>1. k \in Kind /\ k.ident \in Nat BY DEF Origin, Kind
    <3>2. Sorted(r) BY <1>1, <1>4, <2>3, <3>1, WalkSorted
    <3>3. \A i \in DOMAIN d : Remembered(r, d[i], now) BY <1>1, <1>4, <2>3, <3>1, WalkRemembers
    <3>4. CASE f = d BY <1>4, <3>2, <3>3, <3>4
    <3>5. CASE ~Found(q, k) /\ f = Append(d, k.ident)
      <4>1. \A i \in DOMAIN d : d[i] # k.ident BY <1>1, <1>4, <2>3, <3>5, DeliveredIsFound
      <4>2. IsInjective(f) BY <1>4, <3>1, <3>5, <4>1, InjectiveMore
      <4>3. Remembered(r, k.ident, now)
        <5>1. PICK j \in DOMAIN r : r[j].ident = k.ident /\ r[j].deadline = k.deadline
          BY <1>1, <2>3, <3>1, <3>5, WalkEnters
        <5>2. PICK c \in Kinds : c.ident = k.ident /\ c.deadline = k.deadline BY DEF Origin
        <5>3. \A b \in Kinds : b.ident = k.ident => b.deadline = k.deadline BY <5>2 DEF CopiesAgree
        <5> QED BY <5>1, <5>3 DEF Remembered
      <4>4. \A i \in DOMAIN f : (i \in DOMAIN d /\ f[i] = d[i]) \/ f[i] = k.ident
        <5>1. PICK n \in Nat : n = Len(d) OBVIOUS
        <5>2. DOMAIN f = 1..(n + 1) /\ DOMAIN d = 1..n /\ f[n + 1] = k.ident
              /\ \A j \in 1..n : f[j] = d[j]
          BY <3>1, <3>5, <5>1
        <5>3. \A j \in 1..(n + 1) : j \in 1..n \/ j = n + 1 BY <5>1
        <5> QED BY <5>2, <5>3
      <4> QED BY <3>2, <3>3, <4>2, <4>3, <4>4
    <3> QED BY <2>3, <3>4, <3>5
  <2> QED BY <1>2, <1>3, <2>1, <2>2, <2>3 DEF KnownStep
<1> QED BY <1>1, <1>2, <1>3, <1>6, <1>7 DEF MemStep

\* No agent gets a bundle twice, however many copies arrive, in whatever order and
\* whatever else expires meanwhile, if the copies of a bundle expire together.
\* Copies that did not would break it: the walk of
\* bundle_record_add_and_check_known stops at the first entry that expires later
\* than the copy at hand, and the entry it looks for may be behind that one.
THEOREM ProcessorDeliversOnce == ASSUME CopiesAgree PROVE Spec => []DeliveredOnce
<1>1. Init => KnownOK(mem, now) BY KnownInit
<1>2. Inv /\ KnownOK(mem, now) /\ [Next]_vars => KnownOK(mem, now)' BY KnownNext
<1>3. KnownOK(mem, now) => DeliveredOnce BY DEF KnownOK, DeliveredOnce
<1> QED BY <1>1, <1>2, <1>3, InvAlways, PTL DEF Spec
=============================================================================
