----------------------------- MODULE Reassembly -----------------------------
(***************************************************************************)
(* Local delivery of fragments by the bundle processor                     *)
(* (bundle_processor.c, bundle_deliver_local to try_reassemble).  Fragments*)
(* of an ADU come in any order, over several paths and cut in different    *)
(* ways; they are kept in a list of slots, one per ADU, until they cover   *)
(* it.  Byte p of an ADU is represented by its position p.  All fragments  *)
(* are within their lifetime; expiry of the list of known bundles is in    *)
(* BundleProcessor.                                                        *)
(***************************************************************************)
EXTENDS Naturals, Sequences, FiniteSets, SequencesExt

CONSTANTS Adu,          \* bundles before they were fragmented
          AduLength,    \* total_adu_length
          Fragment,     \* [adu, offset, length] that may arrive
          MaxArrivals   \* bound: fragments that arrive

ASSUME FragmentAssumption ==
  /\ AduLength \in Nat \ {0} /\ MaxArrivals \in Nat
  /\ Fragment \subseteq [adu : Adu, offset : 0..(AduLength - 1), length : 1..AduLength]
  /\ \A f \in Fragment : f.offset + f.length <= AduLength

VARIABLES
  arrivals,         \* number of fragments so far, also the id of the last one
  info,             \* id -> fragment
  stored,           \* ids in the bundle storage
  reassembly_list,  \* slots, each a sequence of ids ordered by offset
  known,            \* known_bundle_list, as a set of [adu, offset, length]
  delivered,        \* ADUs handed over, [adu, payload]
  crashed           \* freed memory was used

vars == <<arrivals, info, stored, reassembly_list, known, delivered, crashed>>

Uninitialised == AduLength   \* a byte of malloc memory that was not written
Positions == 0..(AduLength - 1)

TypeOK == /\ arrivals \in 0..MaxArrivals
          /\ info \in [1..arrivals -> Fragment]
          /\ stored \subseteq 1..arrivals
          /\ \A j \in DOMAIN reassembly_list :
               /\ reassembly_list[j] # <<>> /\ IsInjective(reassembly_list[j])
               /\ \A h \in DOMAIN reassembly_list[j] : reassembly_list[j][h] \in 1..arrivals
          /\ known \subseteq [adu : Adu, offset : Positions, length : 1..AduLength]
          /\ \A j \in DOMAIN delivered :
               delivered[j].payload \in [Positions -> 0..AduLength]

Init == /\ arrivals = 0 /\ info = <<>> /\ stored = {}
        /\ reassembly_list = <<>> /\ known = {} /\ delivered = <<>>
        /\ crashed = FALSE

-----------------------------------------------------------------------------
\* Mutant: a fragment goes into the first slot.
AnySlot(slot, f, fs) == TRUE

\* may_reassemble, for a slot and a new fragment
may_reassemble(slot, f, fs) == fs[slot[1]].adu = f.adu

\* add_to_reassembly_bundle_list walks to the first entry with a larger offset.
add_to_reassembly_bundle_list(slot, id, fs) ==
  LET place == CHOOSE j \in 1..(Len(slot) + 1) :
                 /\ \A h \in 1..(j - 1) : fs[slot[h]].offset <= fs[id].offset
                 /\ j <= Len(slot) => fs[slot[j]].offset > fs[id].offset
  IN InsertAt(slot, place, id)

\* The check of try_reassemble: pos_in_bundle moves to the end of each fragment
\* in turn, also backwards when a fragment lies within the one before it, until
\* there is a gap or the end of the ADU.
EndOf(slot, n, fs) == IF n = 0 THEN 0 ELSE fs[slot[n]].offset + fs[slot[n]].length
CanReassemble(slot, fs) ==
  \E n \in DOMAIN slot : /\ EndOf(slot, n, fs) >= AduLength
                        /\ \A h \in 1..n : fs[slot[h]].offset <= EndOf(slot, h - 1, fs)

\* Bytes [from, to) of the payload come from fragment f, where they are from
\* offset_in_bundle on.
Filled(payload, from, to, f, offset_in_bundle) ==
  [p \in Positions |-> IF p >= from /\ p < to
                       THEN f.offset + offset_in_bundle + (p - from) ELSE payload[p]]
LesserOf(a, b) == IF a <= b THEN a ELSE b

\* Mutant: what a fragment repeats is not skipped.
CopyWithOverlaps(a, f) ==
  LET n == LesserOf(f.length, AduLength - a.pos)
  IN [pos |-> a.pos + n, payload |-> Filled(a.payload, a.pos, a.pos + n, f, 0)]

\* The copy of try_reassemble: of each fragment, what is behind pos_in_bundle.
Copy(a, f) ==
  LET skip == a.pos - f.offset
      n == LesserOf(f.length - skip, AduLength - a.pos)
  IN IF skip >= f.length THEN a
     ELSE [pos |-> a.pos + n, payload |-> Filled(a.payload, a.pos, a.pos + n, f, skip)]
Payload(slot, fs) ==
  LET after[n \in 0..Len(slot)] ==
        IF n = 0 THEN [pos |-> 0, payload |-> [p \in Positions |-> Uninitialised]]
        ELSE Copy(after[n - 1], fs[slot[n]])
  IN after[Len(slot)].payload

Whole(adu) == [adu |-> adu, offset |-> 0, length |-> AduLength]

\* Mutants: the ADU is not entered as known; its slot is emptied, not removed.
DeliverUnrecorded(list, j, fs, known_now, held) ==
  IF CanReassemble(list[j], fs)
  THEN /\ reassembly_list' = RemoveAt(list, j)
       /\ stored' = held \ ToSet(list[j])
       /\ known' = known_now
       /\ delivered' = Append(delivered, [adu |-> fs[list[j][1]].adu,
                                          payload |-> Payload(list[j], fs)])
  ELSE /\ reassembly_list' = list /\ stored' = held /\ known' = known_now
       /\ UNCHANGED delivered
DeliverKeepingSlot(list, j, fs, known_now, held) ==
  /\ reassembly_list' = IF CanReassemble(list[j], fs) THEN [list EXCEPT ![j] = <<>>]
                        ELSE list
  /\ stored' = held /\ known' = known_now /\ UNCHANGED delivered

\* try_reassemble on slot j of the list: deliver it, or leave it there.
TryReassemble(list, j, fs, known_now, held) ==
  IF CanReassemble(list[j], fs)
  THEN /\ reassembly_list' = RemoveAt(list, j)
       /\ stored' = held \ ToSet(list[j])
       /\ known' = known_now \cup {Whole(fs[list[j][1]].adu)}
       /\ delivered' = Append(delivered, [adu |-> fs[list[j][1]].adu,
                                          payload |-> Payload(list[j], fs)])
  ELSE /\ reassembly_list' = list /\ stored' = held /\ known' = known_now
       /\ UNCHANGED delivered

\* bundle_attempt_reassembly, for a fragment that was not seen before
AttemptReassembly(id, fs, known_now, held) ==
  LET f == fs[id]
      slots == {j \in DOMAIN reassembly_list : may_reassemble(reassembly_list[j], f, fs)}
      j == CHOOSE h \in slots : \A g \in slots : h <= g
  IN IF slots # {}
     THEN TryReassemble([reassembly_list EXCEPT
                           ![j] = add_to_reassembly_bundle_list(@, id, fs)],
                        j, fs, known_now, held)
     ELSE TryReassemble(Append(reassembly_list, <<id>>), Len(reassembly_list) + 1,
                        fs, known_now, held)

\* bundle_deliver_local for one more fragment.  Without a return behind the
\* discard of a late fragment, its freed memory goes into a slot.
Deliver(f) ==
  LET id == arrivals + 1
      fs == Append(info, f)
  IN /\ arrivals < MaxArrivals /\ ~crashed
     /\ arrivals' = id /\ info' = fs
     /\ IF f \in known
        THEN UNCHANGED <<stored, reassembly_list, known, delivered, crashed>>
        ELSE IF Whole(f.adu) \in known \cup {f}
        THEN /\ crashed' = TRUE
             /\ known' = known \cup {f}
             /\ UNCHANGED <<stored, reassembly_list, delivered>>
        ELSE /\ AttemptReassembly(id, fs, known \cup {f}, stored \cup {id})
             /\ UNCHANGED crashed

Next == \E f \in Fragment : Deliver(f)

Spec == Init /\ [][Next]_vars

-----------------------------------------------------------------------------
(***************************************************************************)
(* Properties                                                              *)
(***************************************************************************)
Held(adu) == {id \in stored : info[id].adu = adu}
Covered(ids) == UNION {info[id].offset..(info[id].offset + info[id].length - 1) : id \in ids}

\* However an ADU was cut, overlapped and reordered on the way, its agent gets
\* the bytes its source sent, every one in its place (bundle_processor.c:480).
PayloadIntact ==
  \A j \in DOMAIN delivered : \A p \in Positions : delivered[j].payload[p] = p

\* An ADU is delivered once, whatever comes in after it was complete
\* (bundle_processor.c:564).
AduOnce == \A j, h \in DOMAIN delivered : delivered[j].adu = delivered[h].adu => j = h

\* Each stored fragment waits in the one slot of its ADU and nowhere else:
\* none is freed while a slot points to it, none is left behind when the slot
\* goes (bundle_processor.c:543).
SlotsMatchStorage ==
  /\ UNION {ToSet(reassembly_list[j]) : j \in DOMAIN reassembly_list} = stored
  /\ \A j, h \in DOMAIN reassembly_list :
       info[reassembly_list[j][1]].adu = info[reassembly_list[h][1]].adu => j = h
  /\ \A j \in DOMAIN reassembly_list, h \in 1..arrivals :
       h \in ToSet(reassembly_list[j]) => info[h].adu = info[reassembly_list[j][1]].adu

\* Fragments are only kept waiting because something is missing
\* (bundle_processor.c:494, "cannot reassemble, has gaps").
WaitsForGap == \A adu \in Adu : Covered(Held(adu)) # Positions
=============================================================================
