--------------------------- MODULE BundleProcessor ---------------------------
(***************************************************************************)
(* The life of a bundle between the tasks that hold its id: RX tasks and   *)
(* application agents that store it, the bundle processor                  *)
(* (bundle_processor.c), the router task (router_task.c) and the TX tasks. *)
(* They exchange ids over two bounded queues; the bundle itself lives in   *)
(* the bundle storage until somebody discards it.                          *)
(*                                                                         *)
(* custody_manager_accept has no reachable caller, bundle_receive does not *)
(* dispatch the bundles it would be called for, so accepted_bundles stays  *)
(* empty and no bundle is redundant.  Fragments for local delivery are in  *)
(* Reassembly; the contact plan behind "scheduled" is in ContactPlan.      *)
(***************************************************************************)
EXTENDS Naturals, Sequences, FiniteSets, SequencesExt

CONSTANTS Kinds,         \* bundles that peers and agents send
          BpLength,      \* BUNDLE_QUEUE_LENGTH
          RouterLength,  \* ROUTER_QUEUE_LENGTH
          MaxInputs,     \* bound: bundles received or created
          MaxId,         \* bound: bundles stored, reports and fragments included
          MaxDrops,      \* bound: contacts that end with bundles on them
          MaxTime        \* bound: the clock

\* What the processor can tell about a bundle.  "local" is the EID of this
\* node without an agent id, "record" an administrative record for it.
Kind == [ident : Nat, dest : {"agent", "local", "record", "remote"},
         version : {6, 7}, custody : BOOLEAN, acceptable : BOOLEAN,
         wants : SUBSET {"reception", "forwarding", "delivery", "deletion"},
         hops_left : BOOLEAN, deadline : Nat,
         blocks : Seq(SUBSET {"payload", "report", "delete", "discard"})]

ASSUME ProcessorAssumption ==
  /\ Kinds \subseteq Kind
  /\ BpLength \in Nat \ {0} /\ RouterLength \in Nat \ {0}
  /\ MaxId \in Nat /\ MaxInputs \in Nat /\ MaxDrops \in Nat /\ MaxTime \in Nat

VARIABLES
  now,
  mem,        \* bundle storage and the processor's own lists
  bq, rq,     \* signalling queues of bundle processor and router
  bp_out,     \* ids the processor still has to push, in the running handler
  router_out, \* signals the router still has to push, in the running handler
  sched,      \* ids scheduled on contacts or with a TX task
  inputs, drops

vars == <<now, mem, bq, rq, bp_out, router_out, sched, inputs, drops>>

Constraint == {"DISPATCH", "FORWARD", "OWN"}

\* info[i] describes the bundle with id i; ids are not reused.
Memory == [info : Seq(Kind),
           stored : SUBSET (1..MaxId),
           rc : [1..MaxId -> SUBSET Constraint],
           known : Seq([ident : Nat, deadline : Nat]),
           delivered : Seq(Nat),      \* identities handed to agents
           failed_assert : BOOLEAN]

Empty == [info |-> <<>>, stored |-> {}, rc |-> [i \in 1..MaxId |-> {}],
          known |-> <<>>, delivered |-> <<>>, failed_assert |-> FALSE]

Init == /\ now = 0 /\ mem = Empty
        /\ bq = <<>> /\ rq = <<>> /\ bp_out = <<>> /\ router_out = <<>>
        /\ sched = {} /\ inputs = 0 /\ drops = 0

Sig(t, i) == [type |-> t, id |-> i]
Route(i, timed) == [id |-> i, timed |-> timed]

TypeOK ==
  /\ mem.stored \subseteq DOMAIN mem.info /\ Len(mem.info) <= MaxId
  /\ mem.rc \in [1..MaxId -> SUBSET Constraint]
  /\ \A i \in DOMAIN mem.known : DOMAIN mem.known[i] = {"ident", "deadline"}
  /\ Len(bq) <= BpLength /\ Len(rq) <= RouterLength
  /\ \A i \in DOMAIN bq : bq[i].id \in DOMAIN mem.info
  /\ sched \subseteq DOMAIN mem.info

-----------------------------------------------------------------------------
(***************************************************************************)
(* Bundle processor: a handler maps [m, out], the memory and the ids it    *)
(* pushes to the router, to the same                                       *)
(***************************************************************************)
\* bundle_storage_add; the new bundle has the id Len(info).
bundle_storage_add(m, k, constraints) ==
  LET i == Len(m.info) + 1
  IN [m EXCEPT !.info = Append(@, k), !.stored = @ \cup {i}, !.rc[i] = constraints]

bundle_storage_delete(m, i) == [m EXCEPT !.stored = @ \ {i}]

\* bundle_drop asserts that no constraint is left.
bundle_drop(m, i) == [m EXCEPT !.failed_assert = @ \/ m.rc[i] # {}]

bundle_discard(s, i) == [s EXCEPT !.m = bundle_drop(bundle_storage_delete(@, i), i)]

rem_rc(s, i, c) == [s EXCEPT !.m.rc[i] = @ \ {c}]

\* A status report about b, or none when it would have no lifetime or memory
\* is short; bundle_forward queues it for the router at once.
ReportKind(k) == [k EXCEPT !.dest = "remote", !.custody = FALSE, !.wants = {},
                           !.hops_left = TRUE, !.blocks = <<{"payload"}>>]
send_status_report(s, i) ==
  LET k == s.m.info[i]
      own == IF k.version = 6 THEN {"OWN"} ELSE {}
  IN IF k.dest \in {"local", "record"} \/ k.deadline < now \/ Len(s.m.info) = MaxId THEN s
     ELSE [m |-> bundle_storage_add(s.m, ReportKind(k), own \cup {"FORWARD"}),
           out |-> Append(s.out, Route(Len(s.m.info) + 1, FALSE))]

ReportIf(s, i, flag) == IF flag \in s.m.info[i].wants
                        THEN send_status_report(s, i) ELSE s

\* send_custody_signal, for which the same limits hold; RFC 5050 only.
send_custody_signal(s, i) ==
  IF s.m.info[i].version # 6 \/ s.m.info[i].deadline < now \/ Len(s.m.info) = MaxId THEN s
  ELSE [m |-> bundle_storage_add(s.m, ReportKind(s.m.info[i]), {"OWN", "FORWARD"}),
        out |-> Append(s.out, Route(Len(s.m.info) + 1, FALSE))]

bundle_delete(s, i) ==
  bundle_discard([ReportIf(s, i, "deletion") EXCEPT !.m.rc[i] = {}], i)

bundle_forward(s, i) ==
  IF ~s.m.info[i].hops_left THEN bundle_delete(s, i)
  ELSE [s EXCEPT !.m.rc[i] = (@ \cup {"FORWARD"}) \ {"DISPATCH"},
                 !.out = Append(@, Route(i, FALSE))]

\* bundle_record_add_and_check_known walks the list, which is ordered by
\* deadline, to the bundle or to the place where it has to be entered, and
\* drops on the way what has expired.
Stops(q, k, j) == \/ j = Len(q) + 1
                  \/ q[j].ident = k.ident
                  \/ q[j].deadline >= now /\ q[j].deadline > k.deadline
Place(q, k) == CHOOSE j \in 1..(Len(q) + 1) :
                 Stops(q, k, j) /\ \A h \in 1..(j - 1) : ~Stops(q, k, h)
Expired(q, j) == CHOOSE n \in 0..(j - 1) :
                   /\ \A h \in 1..n : q[h].deadline < now
                   /\ n < j - 1 => q[n + 1].deadline >= now
Known(s, k) == LET j == Place(s.m.known, k)
               IN j <= Len(s.m.known) /\ s.m.known[j].ident = k.ident
\* Mutant: the list is kept, but what was delivered is not entered.
NeverRecorded(s, k) == s
Record(s, k) ==
  LET q == s.m.known
      j == Place(q, k)
      entry == IF Known(s, k) THEN <<>>
               ELSE <<[ident |-> k.ident, deadline |-> k.deadline]>>
  IN [s EXCEPT !.m.known = SubSeq(q, Expired(q, j) + 1, j - 1) \o entry
                           \o SubSeq(q, j, Len(q))]

bundle_deliver_adu(s, k) ==
  IF k.dest = "record" THEN s   \* no custody signal finds a bundle
  ELSE [s EXCEPT !.m.delivered = Append(@, k.ident)]

\* The delivery report goes out before the agent id is looked at.
bundle_deliver_local(s, i) ==
  LET k == s.m.info[i]
      s1 == rem_rc(s, i, "DISPATCH")
      s2 == ReportIf(Record(s1, k), i, "delivery")
  IN IF k.deadline < now THEN bundle_discard(s1, i)
     ELSE IF Known(s1, k) THEN bundle_discard(Record(s1, k), i)
     ELSE IF k.dest = "local" THEN bundle_delete(s2, i)
     ELSE bundle_deliver_adu(bundle_discard(s2, i), k)

bundle_dispatch(s, i) == IF s.m.info[i].dest = "remote" THEN bundle_forward(s, i)
                                                         ELSE bundle_deliver_local(s, i)

\* 5.6-3: after a discarded block the loop steps over the one behind it.
HandleBlock(a, flags, i) ==
  IF a.skip THEN [a EXCEPT !.skip = FALSE]
  ELSE IF a.deleted \/ "payload" \in flags THEN a
  ELSE [s |-> IF "report" \in flags THEN send_status_report(a.s, i) ELSE a.s,
        deleted |-> "delete" \in flags,
        skip |-> "delete" \notin flags /\ "discard" \in flags]
handle_blocks(s, i) ==
  LET blocks == s.m.info[i].blocks
      after[n \in 0..Len(blocks)] ==
        IF n = 0 THEN [s |-> s, deleted |-> FALSE, skip |-> FALSE]
        ELSE HandleBlock(after[n - 1], blocks[n], i)
  IN after[Len(blocks)]

bundle_receive(s, i) ==
  LET k == s.m.info[i]
      s1 == ReportIf([s EXCEPT !.m.rc[i] = @ \cup {"DISPATCH"}], i, "reception")
      blocks == handle_blocks(s1, i)
  IN IF k.deadline < now THEN bundle_delete(s1, i)
     ELSE IF blocks.deleted THEN bundle_delete(blocks.s, i)
     ELSE IF ~(k.custody /\ k.version = 6) THEN bundle_dispatch(blocks.s, i)
     ELSE IF ~k.acceptable THEN bundle_delete(send_custody_signal(blocks.s, i), i)
     ELSE blocks.s

\* Mutant: the bundles uPCN created itself keep their mark.
SuccessKeepingOwn(s, i) ==
  bundle_discard(rem_rc(ReportIf(s, i, "forwarding"), i, "FORWARD"), i)

bundle_forwarding_success(s, i) ==
  LET s1 == rem_rc(rem_rc(ReportIf(s, i, "forwarding"), i, "FORWARD"), i, "OWN")
  IN IF s1.m.rc[i] = {} THEN bundle_discard(s1, i) ELSE s1

bundle_forwarding_failed(s, i) ==
  bundle_delete(IF s.m.info[i].custody THEN send_custody_signal(s, i) ELSE s, i)

\* Mutant: a bundle is sent to the router again whatever happens to it here.
DanglingBoth(s, i) ==
  [bundle_delete(s, i) EXCEPT !.out = Append(@, Route(i, TRUE))]

\* FAILED_FORWARD_POLICY is POLICY_DROP_IF_NO_CUSTODY.
bundle_dangling(s, i) ==
  IF "OWN" \in s.m.rc[i] THEN [s EXCEPT !.out = Append(@, Route(i, TRUE))]
  ELSE bundle_delete(s, i)

\* handle_signal; a signal for an id that is not stored is ignored.
handle_signal(s, sig) ==
  IF sig.id \notin s.m.stored THEN s
  ELSE CASE sig.type = "INCOMING" -> bundle_receive(s, sig.id)
         [] sig.type = "LOCAL_DISPATCH" -> bundle_dispatch(s, sig.id)
         [] sig.type = "ROUTED" -> s
         [] sig.type \in {"CONTRAINDICATED", "FAILURE"} ->
              bundle_forwarding_failed(s, sig.id)
         [] sig.type = "RESCHEDULE" -> bundle_dangling(s, sig.id)
         [] sig.type = "SUCCESS" -> bundle_forwarding_success(s, sig.id)

\* bundle_processor_task receives a signal and runs its handler up to the
\* first push.
Handle == /\ bq # <<>> /\ bp_out = <<>>
          /\ LET s == handle_signal([m |-> mem, out |-> <<>>], Head(bq))
             IN mem' = s.m /\ bp_out' = s.out
          /\ bq' = Tail(bq)
          /\ UNCHANGED <<now, rq, router_out, sched, inputs, drops>>

\* send_bundle waits for room in the router's queue, with a timeout only when
\* it reschedules.
SendBundle == /\ bp_out # <<>> /\ Len(rq) < RouterLength
              /\ rq' = Append(rq, Sig("route", Head(bp_out).id))
              /\ bp_out' = Tail(bp_out)
              /\ UNCHANGED <<now, mem, bq, router_out, sched, inputs, drops>>

SendTimeout == /\ bp_out # <<>> /\ Head(bp_out).timed /\ Len(rq) = RouterLength
               /\ LET s == bundle_delete([m |-> mem, out |-> Tail(bp_out)],
                                         Head(bp_out).id)
                  IN mem' = s.m /\ bp_out' = s.out
               /\ UNCHANGED <<now, bq, rq, router_out, sched, inputs, drops>>

-----------------------------------------------------------------------------
(***************************************************************************)
(* Router task, as far as it handles bundles                               *)
(***************************************************************************)
NextSignal(type) == /\ rq # <<>> /\ router_out = <<>>
                    /\ Head(rq).type = type /\ rq' = Tail(rq)

\* apply_fragmentation without a route: the bundle is removed, as after
\* success, and forwarding is contraindicated.
NoRoute(i) == /\ mem' = bundle_storage_delete(mem, i)
              /\ router_out' = <<Sig("CONTRAINDICATED", i)>>
              /\ UNCHANGED sched

\* One route, which needs no memory beyond what is at hand ...
Scheduled(i) == /\ sched' = sched \cup {i}
                /\ router_out' = <<Sig("ROUTED", i)>>
                /\ UNCHANGED mem

\* Mutant: the router keeps the bundle it replaced by fragments.
FragmentedKept(i) ==
  LET n == Len(mem.info)
      k == mem.info[i]
  IN /\ n + 2 <= MaxId
     /\ mem' = bundle_storage_add(bundle_storage_add(mem, k, mem.rc[i]), k, mem.rc[i])
     /\ sched' = sched \cup {n + 1, n + 2}
     /\ router_out' = <<Sig("ROUTED", n + 1), Sig("ROUTED", n + 2)>>

\* ... or two fragments, which replace the bundle ...
Fragmented(i) ==
  LET n == Len(mem.info)
      k == mem.info[i]
      m == bundle_storage_add(bundle_storage_add(mem, k, mem.rc[i]), k, mem.rc[i])
  IN /\ n + 2 <= MaxId
     /\ mem' = bundle_storage_delete(m, i)
     /\ sched' = sched \cup {n + 1, n + 2}
     /\ router_out' = <<Sig("ROUTED", n + 1), Sig("ROUTED", n + 2)>>

\* ... or no memory for either, or a bundle that is not stored.
Refused(i) == /\ router_out' = <<Sig("CONTRAINDICATED", i)>>
              /\ UNCHANGED <<mem, sched>>

RouteBundle ==
  /\ NextSignal("route")
  /\ LET i == Head(rq).id
     IN IF i \in mem.stored
        THEN NoRoute(i) \/ Scheduled(i) \/ Fragmented(i) \/ Refused(i)
        ELSE Refused(i)
  /\ UNCHANGED <<now, bq, bp_out, inputs, drops>>

\* ROUTER_SIGNAL_TRANSMISSION_SUCCESS and _FAILURE.
Transmitted == /\ \E result \in {"SUCCESS", "FAILURE"} :
                    /\ NextSignal(result)
                    /\ router_out' = <<Sig(result, Head(rq).id)>>
               /\ UNCHANGED <<now, mem, bq, bp_out, sched, inputs, drops>>

\* reschedule_bundles, for the bundles left on a contact that is over or that
\* a command removed, in the order of its list.
ContactOver == /\ NextSignal("over")
               /\ \E n \in 0..Cardinality(sched) : \E left \in [1..n -> sched] :
                    /\ IsInjective(left)
                    /\ sched' = sched \ ToSet(left)
                    /\ router_out' = [j \in 1..n |-> Sig("RESCHEDULE", left[j])]
               /\ UNCHANGED <<now, mem, bq, bp_out, inputs, drops>>

\* Mutant: the signal is stored without a free slot.
InformOverfull == /\ router_out # <<>>
                  /\ bq' = Append(bq, Head(router_out))
                  /\ router_out' = Tail(router_out)
                  /\ UNCHANGED <<now, mem, rq, bp_out, sched, inputs, drops>>

\* bundle_processor_inform waits for room in the processor's queue.
Inform == /\ router_out # <<>> /\ Len(bq) < BpLength
          /\ bq' = Append(bq, Head(router_out))
          /\ router_out' = Tail(router_out)
          /\ UNCHANGED <<now, mem, rq, bp_out, sched, inputs, drops>>

-----------------------------------------------------------------------------
(***************************************************************************)
(* RX tasks, application agents, TX tasks, contact manager, time           *)
(***************************************************************************)
\* bundle_send of an RX task and create_forward_bundle of an agent: the bundles
\* of agents have no flags and no extension blocks.
Store(type, k) == /\ inputs < MaxInputs /\ Len(mem.info) < MaxId
                  /\ Len(bq) < BpLength
                  /\ mem' = bundle_storage_add(mem, k, {})
                  /\ bq' = Append(bq, Sig(type, Len(mem.info) + 1))
                  /\ inputs' = inputs + 1
                  /\ UNCHANGED <<now, rq, bp_out, router_out, sched, drops>>

Receive == \E k \in Kinds : Store("INCOMING", k)
AgentSend == \E k \in Kinds : /\ ~k.custody /\ k.wants = {} /\ k.dest # "record"
                               /\ k.hops_left /\ Len(k.blocks) = 1
                               /\ Store("LOCAL_DISPATCH", k)

TxReport(i) == /\ i \in sched /\ Len(rq) < RouterLength
               /\ sched' = sched \ {i}
               /\ \E result \in {"SUCCESS", "FAILURE"} : rq' = Append(rq, Sig(result, i))
               /\ UNCHANGED <<now, mem, bq, bp_out, router_out, inputs, drops>>

DropContact == /\ drops < MaxDrops /\ Len(rq) < RouterLength
               /\ rq' = Append(rq, Sig("over", 0))
               /\ drops' = drops + 1
               /\ UNCHANGED <<now, mem, bq, bp_out, router_out, sched, inputs>>

Tick == /\ now < MaxTime
        /\ now' = now + 1
        /\ UNCHANGED <<mem, bq, rq, bp_out, router_out, sched, inputs, drops>>

Bp == Handle \/ SendBundle \/ SendTimeout
Router == RouteBundle \/ Transmitted \/ ContactOver \/ Inform

Next == \/ Bp \/ Router
        \/ Receive \/ AgentSend \/ DropContact \/ Tick
        \/ \E i \in sched : TxReport(i)

\* The properties are about what may happen, no task is assumed to run.
Spec == Init /\ [][Next]_vars

-----------------------------------------------------------------------------
(***************************************************************************)
(* Properties                                                              *)
(***************************************************************************)
\* Who will act on a stored bundle next: a signal in a queue or in the hands
\* of the task that pushes it, or the contact it is scheduled on.  A ROUTED
\* signal is for information.
Signals(q) == {j \in DOMAIN q : q[j].type # "ROUTED"}
Owners(i) ==
  {<<"bq", j>> : j \in {h \in Signals(bq) : bq[h].id = i}}
  \cup {<<"rq", j>> : j \in {h \in Signals(rq) : rq[h].id = i}}
  \cup {<<"router", j>> : j \in {h \in Signals(router_out) : router_out[h].id = i}}
  \cup {<<"bp", j>> : j \in {h \in DOMAIN bp_out : bp_out[h].id = i}}
  \cup {<<"sched", j>> : j \in sched \cap {i}}

\* Processor, router and TX tasks use a bundle without a lock; that is safe
\* because it is only ever in the hands of one of them.  Two would mean a
\* bundle freed in use, none a bundle that stays in the storage forever, which
\* happens to bundles that request custody and are acceptable only.
OneOwner ==
  \A i \in mem.stored :
    \/ Cardinality(Owners(i)) = 1
    \/ /\ Owners(i) = {}
       /\ mem.info[i].custody /\ mem.info[i].acceptable /\ mem.rc[i] = {"DISPATCH"}

\* What the router or a TX task is about to look at is still stored, so that
\* neither gets the pointer of a bundle the processor frees meanwhile.
InUseIsStored ==
  /\ sched \subseteq mem.stored
  /\ \A j \in DOMAIN rq : rq[j].type # "over" => rq[j].id \in mem.stored
  /\ \A j \in DOMAIN bp_out : bp_out[j].id \in mem.stored

\* What the next property needs: the copies of a bundle have the primary block
\* that its source gave it, with creation time and lifetime, and expire together.
CopiesAgree == \A c, d \in Kinds : c.ident = d.ident => c.deadline = d.deadline

\* Copies of a bundle that arrive over several paths reach the agent once, also
\* when entries of the list of known bundles expire (bundle_processor.c:917).
DeliveredOnce == IsInjective(mem.delivered)

\* Every path on which a bundle leaves the storage has released its retention
\* constraints: the assertion of bundle_drop (bundle.c:87) holds.
DropAssertHolds == ~mem.failed_assert

\* Whoever is told that forwarding is contraindicated can declare the failure
\* (bundle_processor.c:275): the bundle is still there.
ContraindicatedIsStored ==
  \A j \in DOMAIN bq : bq[j].type = "CONTRAINDICATED" => bq[j].id \in mem.stored

\* Processor and router do not wait for each other's queue: only a push with an
\* infinite delay could deadlock (config.h:68).
NoDeadlock == ~(/\ bp_out # <<>> /\ ~Head(bp_out).timed /\ Len(rq) = RouterLength
                /\ router_out # <<>> /\ Len(bq) = BpLength)
=============================================================================
