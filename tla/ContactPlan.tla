---------------------------- MODULE ContactPlan -----------------------------
(***************************************************************************)
(* The contact plan of a uPCN node and the tasks that share it: the router *)
(* task (router_task.c) that edits it on command and schedules bundles on  *)
(* it, the contact manager (contact_manager.c) that starts and ends the    *)
(* contacts, and the TX tasks that send what the contact manager handed    *)
(* them.  routing_table.c and node.c keep the plan itself.                 *)
(*                                                                         *)
(* A contact is a heap object: it is allocated with the command that adds  *)
(* it, and pointers to it are held by its node, by the global contact      *)
(* list, by the contact manager's array, by the signals in the router's    *)
(* queue and by the commands of the TX tasks.  Every section the code runs *)
(* under cm_semaphore is one action.  A bundle is scheduled on one contact *)
(* (deterministic routing); its list entry and its routed_bundle are       *)
(* identified with it.                                                     *)
(***************************************************************************)
EXTENDS Naturals, Sequences, FiniteSets, SequencesExt, FiniteSetsExt

CONSTANTS Contact,          \* contact objects, each allocated at most once
          Node,             \* EIDs of neighbours
          NodeOf, From, To, \* functions on Contact
          Bundle,
          MaxConcurrent,    \* MAX_CONCURRENT_CONTACTS
          QueueLength,      \* ROUTER_QUEUE_LENGTH
          MaxPeriod,        \* CONTACT_CHECKING_MAX_PERIOD
          Unreachable,      \* nodes whose CLA address names no configured CLA
          Commands,         \* what the configuration agent may send
          MaxTime,          \* bound: the clock stops here
          MaxCommands,      \* bound: router commands sent
          MaxLinkUps,       \* bound: links established
          NULL, Dangling    \* values of contact->node other than a node

\* A deletion describes existing contacts by their periods; delete_endpoints
\* names endpoints of contacts, the contacts stay.
Command == [type : {"add", "update", "delete", "delete_endpoints"},
            node : Node, contacts : SUBSET Contact]

ASSUME PlanAssumption ==
  /\ IsFiniteSet(Contact) /\ NodeOf \in [Contact -> Node] /\ MaxTime \in Nat
  /\ From \in [Contact -> Nat] /\ To \in [Contact -> Nat]
  /\ \A c \in Contact : From[c] < To[c] /\ To[c] <= MaxTime
  /\ MaxConcurrent \in Nat \ {0} /\ QueueLength \in Nat \ {0}
  /\ MaxPeriod \in Nat \ {0} /\ Unreachable \subseteq Node
  /\ Commands \subseteq {cmd \in Command : \A c \in cmd.contacts : NodeOf[c] = cmd.node}
  /\ NULL \notin Node /\ Dangling \notin Node /\ NULL # Dangling

VARIABLES
  now,               \* hal_time_get_timestamp_s
  rt,                \* routing table, contact objects, bundles at the processor
  rq,                \* the router's signalling queue
  current,           \* current_contacts
  next_contact_time,
  wake_at,           \* when hal_queue_receive of the contact manager times out
  control,           \* the contact manager's control queue (one element)
  cm_pc, cm_signal,  \* contact manager task
  rem,               \* ended contacts it still has to report to the router
  link,              \* neighbours with an established CLA link
  tx,                \* <<bundle, contact>> handed to a TX task
  gone,              \* bundles that left the system or were destroyed
  commands, link_ups \* events of the environment so far

cm == <<current, next_contact_time, wake_at, rem>>
cmctl == <<control, cm_pc, cm_signal>>
env == <<link, commands, link_ups>>
vars == <<now, rt, rq, current, next_contact_time, wake_at, control, cm_pc,
          cm_signal, rem, link, tx, gone, commands, link_ups>>

Never == MaxTime + MaxPeriod + 1   \* UINT64_MAX

\* What the memory holds: obj, node, active (those with the mark) and bundles are
\* fields of the contact objects; known, contacts, list the tables; at_bp the
\* bundles in the hands of the bundle processor (BP_SIGNAL_RESCHEDULE_BUNDLE
\* moves them there); faults the contacts on which an ASSERT failed or that were
\* used after they, or their node, were freed.
Memory == [obj : [Contact -> {"unborn", "in_command", "live", "freed"}],
           node : [Contact -> Node \cup {NULL, Dangling}],
           active : SUBSET Contact,
           bundles : [Contact -> SUBSET Bundle],
           known : SUBSET Node,
           contacts : [Node -> SUBSET Contact],
           at_bp : SUBSET Bundle,
           list : Seq(Contact),
           faults : SUBSET Contact]

Signal == [type : {"command"}, cmd : Command]
          \cup [type : {"route", "success", "failure"}, bundle : Bundle]
          \cup [type : {"contact_over"}, contact : Contact]
          \cup [type : {"new_link"}]

TypeOK == /\ now \in 0..MaxTime
          /\ rt \in Memory /\ IsInjective(rt.list)
          /\ rq \in Seq(Signal) /\ Len(rq) <= QueueLength
          /\ current \in Seq(Contact) /\ Len(current) <= MaxConcurrent
          /\ IsInjective(current) /\ rem \in Seq(Contact)
          /\ next_contact_time \in 0..Never /\ wake_at \in 0..Never
          /\ control \in {"none", "update", "process", "unknown"}
          /\ cm_pc \in {"wait", "run", "inform"}
          /\ cm_signal \in {"update", "process", "unknown"}
          /\ tx \subseteq Bundle \X Contact
          /\ link \subseteq Node /\ gone \subseteq Bundle

Init == /\ now = 0
        /\ rt = [obj |-> [c \in Contact |-> "unborn"],
                 node |-> [c \in Contact |-> NULL],
                 active |-> {},
                 bundles |-> [c \in Contact |-> {}],
                 known |-> {},
                 contacts |-> [n \in Node |-> {}],
                 at_bp |-> Bundle,
                 list |-> <<>>,
                 faults |-> {}]
        /\ rq = <<>> /\ current = <<>> /\ rem = <<>>
        /\ next_contact_time = Never /\ wake_at = MaxPeriod
        /\ control = "none" /\ cm_pc = "wait" /\ cm_signal = "unknown"
        /\ link = {} /\ tx = {} /\ gone = {}
        /\ commands = 0 /\ link_ups = 0

-----------------------------------------------------------------------------
(***************************************************************************)
(* node.c and routing_table.c, as functions on the memory r                *)
(***************************************************************************)
\* The elements of a list that are in S.
SubList(s, S) ==
  LET upto[i \in 0..Len(s)] ==
        IF i = 0 THEN <<>>
        ELSE IF s[i] \in S THEN Append(upto[i - 1], s[i]) ELSE upto[i - 1]
  IN upto[Len(s)]

\* The listed contacts that intersect [From, To) of c.
Overlaps(list, c) == {x \in ToSet(list) : To[x] > From[c] /\ From[x] < To[c]}

\* Mutant: the number of contacts is all that is checked.
OverlapsCounted(list, node, c) == Cardinality(Overlaps(list, c)) % 256 >= MaxConcurrent

\* check_for_invalid_overlaps: the contact list is ordered by From, so the
\* loop counts exactly the contacts that intersect, in a uint8_t.
check_for_invalid_overlaps(list, node, c) ==
  \/ \E x \in Overlaps(list, c) : node[x] = node[c]
  \/ Cardinality(Overlaps(list, c)) % 256 >= MaxConcurrent

\* Mutant: a new contact goes to the end of the list.
AppendToList(list, c) == IF c \in ToSet(list) THEN list ELSE Append(list, c)

\* The walk ends at the first contact that starts later.
add_contact_to_ordered_list(list, c) ==
  LET place == CHOOSE j \in 1..(Len(list) + 1) :
                 /\ \A h \in 1..(j - 1) : From[list[h]] <= From[c]
                 /\ j <= Len(list) => From[list[j]] > From[c]
  IN IF c \in ToSet(list) THEN list ELSE InsertAt(list, place, c)

\* The contacts of a node are in a list of this order.
ByFrom(S) == CHOOSE s \in [1..Cardinality(S) -> S] :
               /\ ToSet(s) = S
               /\ \A i, j \in DOMAIN s : i < j => From[s[i]] <= From[s[j]]

AddContact(list, node, c) ==
  IF check_for_invalid_overlaps(list, node, c) THEN list
  ELSE add_contact_to_ordered_list(list, c)

add_node_to_tables(r, n) ==
  LET s == ByFrom(r.contacts[n])
      after[i \in 0..Len(s)] == IF i = 0 THEN r.list
                                ELSE AddContact(after[i - 1], r.node, s[i])
  IN [r EXCEPT !.list = after[Len(s)]]

\* RESCHEDULE signals for all bundles of the contacts in C.
reschedule_bundles(r, C) ==
  [r EXCEPT !.at_bp = @ \cup UNION {r.bundles[c] : c \in C},
            !.bundles = [c \in Contact |-> IF c \in C THEN {} ELSE @[c]]]

free_contacts(r, C) ==
  [r EXCEPT !.obj = [c \in Contact |-> IF c \in C THEN "freed" ELSE @[c]],
            !.bundles = [c \in Contact |-> IF c \in C THEN {} ELSE @[c]],
            !.faults = @ \cup (C \cap r.active)]

\* free_node with the contacts it still owns; contacts that point to the
\* node and are not in its list keep a dangling pointer.
free_node(r, n) ==
  [free_contacts(r, r.contacts[n]) EXCEPT
     !.contacts[n] = {},
     !.node = [c \in Contact |->
                 IF @[c] = n /\ c \notin r.contacts[n] THEN Dangling ELSE @[c]]]

\* drop_contacts = false
unlist_node(r, n) ==
  [r EXCEPT !.list = SubList(@, Contact \ r.contacts[n])]

\* Mutant: the active contacts stay with the node that is about to be freed.
RemoveKeepingActive(r, n) ==
  reschedule_bundles(unlist_node(r, n), r.contacts[n])

\* drop_contacts = true: active contacts are un-associated.
remove_node_from_tables(r, n) ==
  LET dropped == reschedule_bundles(unlist_node(r, n), r.contacts[n])
      active == r.contacts[n] \cap r.active
  IN [dropped EXCEPT
        !.node = [c \in Contact |-> IF c \in active THEN NULL ELSE @[c]],
        !.contacts[n] = @ \ active]

\* The new node object takes over the contacts of the command.
install_node(r, n, C) ==
  add_node_to_tables(
    [r EXCEPT !.known = @ \cup {n},
              !.contacts[n] = C,
              !.obj = [c \in Contact |-> IF c \in C THEN "live" ELSE @[c]],
              !.node = [c \in Contact |-> IF c \in C THEN n ELSE @[c]]], n)

SamePeriod(x, y) == From[x] = From[y] /\ To[x] = To[y]

\* A new contact that starts when an old one does is redundant.
contact_list_union(a, b) == a \cup {c \in b : \A x \in a : From[x] # From[c]}

\* The contacts of a that b describes, to be deleted or modified.
contact_list_difference(a, b) == {x \in a : \E c \in b : SamePeriod(x, c)}

\* over are the merged contacts whose new bitrate left them overbooked.
routing_table_add_node(r, n, C, over) ==
  IF n \notin r.known THEN install_node(r, n, C)
  ELSE LET all == contact_list_union(r.contacts[n], C)
           united == [r EXCEPT
             !.contacts[n] = all,
             !.obj = [c \in Contact |-> IF c \in C \ all THEN "freed"
                                        ELSE IF c \in C THEN "live" ELSE @[c]],
             !.node = [c \in Contact |-> IF c \in all THEN n ELSE @[c]]]
       IN add_node_to_tables(reschedule_bundles(united, over), n)

routing_table_replace_node(r, n, C) ==
  IF n \notin r.known THEN install_node(r, n, C)
  ELSE install_node(free_node(remove_node_from_tables(r, n), n), n, C)

\* Only the periods of the contacts in the command matter.
routing_table_delete_node(r, n, C, endpoints) ==
  LET named == contact_list_difference(r.contacts[n], C)
      kept == IF endpoints THEN {} ELSE named
      idle == kept \ r.active
      shrunk == [reschedule_bundles(unlist_node(r, n), named) EXCEPT
                   !.contacts[n] = @ \ kept]
  IN IF C = {} THEN [free_node(remove_node_from_tables(r, n), n) EXCEPT
                       !.known = @ \ {n}]
     ELSE add_node_to_tables(free_contacts(shrunk, idle), n)

routing_table_delete_contact(r, c) ==
  LET owner == r.node[c]
      unlinked == [r EXCEPT
        !.list = SubList(@, Contact \ {c}),
        !.contacts = [n \in Node |-> IF n = owner THEN @[n] \ {c} ELSE @[n]],
        !.faults = IF r.bundles[c] # {} THEN @ \cup {c} ELSE @]
  IN free_contacts(unlinked, {c})

\* The router dereferences the pointer it was sent.
routing_table_contact_passed(r, c) ==
  IF r.obj[c] # "live" \/ r.node[c] = Dangling
  THEN [r EXCEPT !.faults = @ \cup {c}]
  ELSE routing_table_delete_contact(
         IF r.node[c] # NULL THEN reschedule_bundles(r, {c}) ELSE r, c)

\* contacts_overlap, and node_prepare_and_verify on the contacts of a command.
contacts_overlap(a, b) == \/ From[a] >= From[b] /\ From[a] <= To[b]
                          \/ To[a] >= From[b] /\ To[a] <= To[b]

node_prepare_and_verify(C) ==
  LET s == ByFrom(C)
  IN \A i, j \in DOMAIN s : i < j => ~contacts_overlap(s[i], s[j])

-----------------------------------------------------------------------------
(***************************************************************************)
(* Environment: time, configuration, bundle processor, CLA links           *)
(***************************************************************************)
Enqueue(sig) == Len(rq) < QueueLength /\ rq' = Append(rq, sig)

Tick == /\ now < MaxTime
        /\ now' = now + 1
        /\ UNCHANGED <<rt, rq, cm, cmctl, env, tx, gone>>

\* The configuration agent parsed a command and pushes it.  The contacts it
\* adds are new objects.
SendCommand ==
  /\ commands < MaxCommands
  /\ \E cmd \in Commands :
       LET new == IF cmd.type \in {"add", "update"} THEN cmd.contacts ELSE {}
       IN /\ \A c \in new : rt.obj[c] = "unborn"
          /\ Enqueue([type |-> "command", cmd |-> cmd])
          /\ rt' = [rt EXCEPT !.obj = [c \in Contact |->
                       IF c \in new THEN "in_command" ELSE @[c]]]
  /\ commands' = commands + 1
  /\ UNCHANGED <<now, cm, cmctl, link, link_ups, tx, gone>>

\* bundle_forward or bundle_dangling: ROUTER_SIGNAL_ROUTE_BUNDLE.
BpRoute(b) == /\ b \in rt.at_bp
              /\ Enqueue([type |-> "route", bundle |-> b])
              /\ rt' = [rt EXCEPT !.at_bp = @ \ {b}]
              /\ UNCHANGED <<now, cm, cmctl, env, tx, gone>>

\* bundle_delete by FAILED_FORWARD_POLICY or after expiration.
BpDrop(b) == /\ b \in rt.at_bp
             /\ rt' = [rt EXCEPT !.at_bp = @ \ {b}]
             /\ gone' = gone \cup {b}
             /\ UNCHANGED <<now, rq, cm, cmctl, env, tx>>

\* A CLA establishes a link and signals NEW_LINK_ESTABLISHED.
LinkUp(n) == /\ n \notin link /\ link_ups < MaxLinkUps
             /\ link' = link \cup {n}
             /\ link_ups' = link_ups + 1
             /\ Enqueue([type |-> "new_link"])
             /\ UNCHANGED <<now, rt, cm, cmctl, commands, tx, gone>>

LinkDown(n) == /\ n \in link
               /\ link' = link \ {n}
               /\ UNCHANGED <<now, rt, rq, cm, cmctl, commands, link_ups, tx, gone>>

-----------------------------------------------------------------------------
(***************************************************************************)
(* Router task: one action per signal                                      *)
(***************************************************************************)
\* wake_up_contact_manager.  If the queue of one element is full, the new
\* signal replaces it; or, see HalQueue, the contact manager has taken the
\* element after sem_trywait failed and the replacement is lost.
Wake(sig) ==
  \/ control = "none" /\ control' = sig /\ UNCHANGED <<cm_pc, cm_signal>>
  \/ control # "none" /\ control' = "unknown" /\ UNCHANGED <<cm_pc, cm_signal>>
  \/ /\ control # "none" /\ cm_pc = "wait"
     /\ cm_pc' = "run" /\ cm_signal' = control /\ control' = "none"

NextSignal(type) == rq # <<>> /\ Head(rq).type = type /\ rq' = Tail(rq)

RouterCommand ==
  /\ NextSignal("command")
  /\ LET cmd == Head(rq).cmd
         n == cmd.node
         C == cmd.contacts
         merged == contact_list_difference(rt.contacts[n], C)
     IN \/ /\ ~node_prepare_and_verify(C)
           /\ rt' = IF cmd.type \in {"add", "update"} THEN free_contacts(rt, C)
                                                     ELSE rt
           /\ UNCHANGED cmctl
        \/ /\ node_prepare_and_verify(C) /\ cmd.type = "add"
           /\ \E over \in SUBSET merged :
                rt' = routing_table_add_node(rt, n, C, over)
           /\ Wake("update")
        \/ /\ node_prepare_and_verify(C) /\ cmd.type = "update"
           /\ rt' = routing_table_replace_node(rt, n, C)
           /\ Wake("update")
        \/ /\ node_prepare_and_verify(C) /\ n \in rt.known
           /\ cmd.type \in {"delete", "delete_endpoints"}
           /\ rt' = routing_table_delete_node(rt, n, C, cmd.type = "delete_endpoints")
           /\ Wake("update")
        \/ /\ node_prepare_and_verify(C) /\ n \notin rt.known
           /\ cmd.type \in {"delete", "delete_endpoints"}
           /\ UNCHANGED <<rt, cmctl>>
  /\ UNCHANGED <<now, cm, env, tx, gone>>

\* The contacts a route may use: not over, any of them may be the one with
\* capacity.  Destinations, sizes and probabilities are left out.
router_get_first_route(r) == {c \in ToSet(r.list) : To[c] > now}

\* Without a route apply_fragmentation destroys the bundle.
RouterRoute ==
  /\ NextSignal("route")
  /\ LET b == Head(rq).bundle
     IN \/ /\ \E c \in router_get_first_route(rt) : rt' = [rt EXCEPT !.bundles[c] = @ \cup {b}]
           /\ Wake("process")
           /\ UNCHANGED gone
        \/ gone' = gone \cup {b} /\ UNCHANGED <<rt, cmctl>>
  /\ UNCHANGED <<now, cm, env, tx>>

RouterContactOver ==
  /\ NextSignal("contact_over")
  /\ rt' = routing_table_contact_passed(rt, Head(rq).contact)
  /\ UNCHANGED <<now, cm, cmctl, env, tx, gone>>

\* The processor discards the bundle after success and deletes it after
\* failure.
RouterTransmission ==
  /\ NextSignal("success") \/ NextSignal("failure")
  /\ gone' = gone \cup {Head(rq).bundle}
  /\ UNCHANGED <<now, rt, cm, cmctl, env, tx>>

RouterNewLink == /\ NextSignal("new_link")
                 /\ Wake("process")
                 /\ UNCHANGED <<now, rt, cm, env, tx, gone>>

Router == RouterCommand \/ RouterRoute \/ RouterContactOver
          \/ RouterTransmission \/ RouterNewLink

-----------------------------------------------------------------------------
(***************************************************************************)
(* Contact manager                                                         *)
(***************************************************************************)
\* Mutant: no look at the capacity of the array.
CheckUpcomingUnbounded(a, node, c) ==
  IF c \in ToSet(a.current) THEN a
  ELSE [current |-> Append(a.current, c), active |-> a.active \cup {c}]

\* check_upcoming: the contact is marked active before its CLA is looked up.
check_upcoming(a, node, c) ==
  IF c \in ToSet(a.current) \/ Len(a.current) >= MaxConcurrent THEN a
  ELSE [current |-> IF node[c] \in Unreachable THEN a.current ELSE Append(a.current, c),
        active |-> a.active \cup {c}]

\* Array and marks after the contacts of due were looked at one by one.
Started(cur, r, due) ==
  LET after[i \in 0..Len(due)] == IF i = 0 THEN [current |-> cur, active |-> r.active]
                                  ELSE check_upcoming(after[i - 1], r.node, due[i])
  IN after[Len(due)]

\* Mutant: a contact still counts at the second in which it ends.
UpcomingAtEnd(cur, r) ==
  Started(cur, r, SubList(r.list, {c \in Contact : From[c] <= now /\ To[c] >= now}))

process_upcoming_list(cur, r) ==
  Started(cur, r, SubList(r.list, {c \in Contact : From[c] <= now /\ To[c] > now}))

UpcomingTime(r) ==
  Min({Never} \cup {To[c] : c \in {x \in ToSet(r.list) : From[x] <= now /\ To[x] > now}}
              \cup {From[c] : c \in {x \in ToSet(r.list) : From[x] > now}})

\* hand_over_contact_bundles for the contacts of a sequence.
HandOver(cs) == {c \in ToSet(cs) : NodeOf[c] \in link}
\* Mutant: the list is detached before the TX queue is known to exist.
DetachAnyway(r, cs) ==
  [r EXCEPT !.bundles = [c \in Contact |-> IF c \in ToSet(cs) THEN {} ELSE @[c]]]

hand_over_contact_bundles(r, cs) ==
  [r EXCEPT !.bundles = [c \in Contact |->
                           IF c \in HandOver(cs) THEN {} ELSE @[c]]]
HandedOver(r, cs) == {p \in Bundle \X Contact :
                        p[2] \in HandOver(cs) /\ p[1] \in r.bundles[p[2]]}

EndOfRound == IF next_contact_time' <= now
              THEN cm_pc' = "run" /\ cm_signal' = "unknown" /\ UNCHANGED wake_at
              ELSE /\ cm_pc' = "wait" /\ UNCHANGED cm_signal
                   /\ wake_at' = Min({next_contact_time', now + MaxPeriod})

\* manage_contacts, the part under cm_semaphore, for a new bundle only.
ManageBundles ==
  /\ cm_pc = "run" /\ cm_signal = "process"
  /\ tx' = tx \cup HandedOver(rt, current)
  /\ rt' = hand_over_contact_bundles(rt, current)
  /\ UNCHANGED next_contact_time
  /\ EndOfRound
  /\ UNCHANGED <<now, rq, current, rem, control, env, gone>>

\* remove_expired_contacts takes the active mark off the contacts that are
\* over, last one first.
Expired == SubList(current, {c \in Contact : To[c] <= now})
remove_expired_contacts(r) == [r EXCEPT !.active = @ \ ToSet(Expired)]

\* manage_contacts with check_for_contacts: expired contacts lose their
\* active mark, due ones are started, and what they carry is handed over.
ManageContacts ==
  /\ cm_pc = "run" /\ cm_signal # "process"
  /\ LET before == IF cm_signal = "unknown" THEN current ELSE <<>>
         kept == SubList(current, {c \in Contact : To[c] > now})
         r == remove_expired_contacts(hand_over_contact_bundles(rt, before))
     IN \E up \in {process_upcoming_list(kept, r)} :
          LET started == [r EXCEPT !.active = up.active]
              added == SubList(up.current, Contact \ ToSet(kept))
          IN /\ current' = up.current
             /\ rt' = hand_over_contact_bundles(started, added)
             /\ tx' = tx \cup HandedOver(rt, before) \cup HandedOver(started, added)
  /\ rem' = Reverse(Expired)
  /\ next_contact_time' = UpcomingTime(rt)
  /\ cm_pc' = "inform"
  /\ UNCHANGED <<now, rq, wake_at, control, cm_signal, env, gone>>

\* Mutant: the contact manager does not wait for room in the router's queue.
InformIfRoom ==
  /\ cm_pc = "inform"
  /\ UNCHANGED next_contact_time
  /\ \/ /\ rem # <<>>
        /\ \/ Enqueue([type |-> "contact_over", contact |-> Head(rem)])
           \/ Len(rq) = QueueLength /\ UNCHANGED rq
        /\ rem' = Tail(rem)
        /\ UNCHANGED <<cm_pc, cm_signal, wake_at>>
     \/ rem = <<>> /\ EndOfRound /\ UNCHANGED <<rq, rem>>
  /\ UNCHANGED <<now, rt, current, control, env, tx, gone>>

\* inform_router for each ended contact, after cm_semaphore was released.
InformRouter ==
  /\ cm_pc = "inform"
  /\ UNCHANGED next_contact_time
  /\ \/ /\ rem # <<>>
        /\ Enqueue([type |-> "contact_over", contact |-> Head(rem)])
        /\ rem' = Tail(rem)
        /\ UNCHANGED <<cm_pc, cm_signal, wake_at>>
     \/ rem = <<>> /\ EndOfRound /\ UNCHANGED <<rq, rem>>
  /\ UNCHANGED <<now, rt, current, control, env, tx, gone>>

ReceiveControl == /\ cm_pc = "wait" /\ control # "none"
                  /\ cm_signal' = control /\ control' = "none"
                  /\ cm_pc' = "run"
                  /\ UNCHANGED <<now, rt, rq, cm, env, tx, gone>>

\* The clock of the model stops at MaxTime, the wait still ends.
ControlTimeout == /\ cm_pc = "wait" /\ control = "none"
                  /\ now >= wake_at \/ now = MaxTime
                  /\ cm_signal' = "unknown"
                  /\ cm_pc' = "run"
                  /\ UNCHANGED <<now, rt, rq, cm, control, env, tx, gone>>

ContactManager == ManageBundles \/ ManageContacts \/ InformRouter
                  \/ ReceiveControl \/ ControlTimeout

-----------------------------------------------------------------------------
(***************************************************************************)
(* TX tasks                                                                *)
(***************************************************************************)
\* Sending reads cmd.contact->node->cla_addr.
TxSend(b, c) ==
  /\ <<b, c>> \in tx /\ NodeOf[c] \in link
  /\ tx' = tx \ {<<b, c>>}
  /\ IF rt.obj[c] # "live" \/ rt.node[c] \notin Node
     THEN rt' = [rt EXCEPT !.faults = @ \cup {c}] /\ UNCHANGED rq
     ELSE /\ UNCHANGED rt
          /\ \E result \in {"success", "failure"} :
               Enqueue([type |-> result, bundle |-> b])
  /\ UNCHANGED <<now, cm, cmctl, env, gone>>

\* The TX task of a broken link empties its queue.
TxDrain(b, c) ==
  /\ <<b, c>> \in tx /\ NodeOf[c] \notin link
  /\ tx' = tx \ {<<b, c>>}
  /\ Enqueue([type |-> "failure", bundle |-> b])
  /\ UNCHANGED <<now, rt, cm, cmctl, env, gone>>

Tx == \E b \in Bundle, c \in Contact : TxSend(b, c) \/ TxDrain(b, c)

-----------------------------------------------------------------------------
Bp == \E b \in Bundle : BpRoute(b) \/ BpDrop(b)
Links == \E n \in Node : LinkUp(n) \/ LinkDown(n)

\* After a crash the process is gone.
Crashed == rt.faults # {}
Stopped == Crashed /\ UNCHANGED vars

Next == \/ /\ ~Crashed
           /\ Tick \/ SendCommand \/ Bp \/ Links \/ Router \/ ContactManager \/ Tx
        \/ Stopped

\* Time passes and every task that can run does; commands, bundles and links
\* are up to the environment.
Fairness == /\ WF_vars(~Crashed /\ Tick)
            /\ WF_vars(~Crashed /\ Router)
            /\ WF_vars(~Crashed /\ ContactManager)
            /\ WF_vars(~Crashed /\ Tx)

Spec == Init /\ [][Next]_vars /\ Fairness

-----------------------------------------------------------------------------
(***************************************************************************)
(* Properties                                                              *)
(***************************************************************************)
\* No pointer of the routing table or of the contact manager outlives what it
\* points to: a listed contact belongs to a known node, and the contacts the
\* contact manager holds stay allocated however the plan is edited meanwhile
\* (the active mark of contact_manager.c:90 is what protects them).
NoDanglingPointers ==
  /\ \A c \in ToSet(rt.list) : /\ rt.node[c] \in rt.known
                              /\ c \in rt.contacts[rt.node[c]]
  /\ \A n \in Node : /\ n \notin rt.known => rt.contacts[n] = {}
                     /\ \A c \in rt.contacts[n] : rt.obj[c] = "live" /\ rt.node[c] = n
  /\ \A c \in ToSet(current) : rt.obj[c] = "live" /\ c \in rt.active

\* Where a bundle is: with the processor, in the router's queue, scheduled on
\* contacts, or with a TX task.
Places(b) ==
  {<<"bp", b>> : x \in rt.at_bp \cap {b}}
  \cup {<<"gone", b>> : x \in gone \cap {b}}
  \cup {<<"rq", i>> : i \in {j \in DOMAIN rq : rq[j].type \in {"route", "success", "failure"}
                                             /\ rq[j].bundle = b}}
  \cup {<<"contact", c>> : c \in {d \in Contact : b \in rt.bundles[d]}}
  \cup {<<"tx", p[2]>> : p \in {q \in tx : q[1] = b}}

\* Commands, contact changes and link changes neither lose nor duplicate a
\* bundle: it is always in one place, and never on a contact that was freed or
\* taken from its node (nothing would reschedule it, routing_table.c:492).
NoBundleLost ==
  ~Crashed => \A b \in Bundle :
    /\ Cardinality(Places(b)) = 1
    /\ \A c \in Contact : b \in rt.bundles[c] => rt.obj[c] = "live" /\ rt.node[c] \in rt.known

\* Whatever was merged, replaced and deleted, the contact list can be served:
\* a node has one contact at a time, and no instant needs more than
\* MAX_CONCURRENT_CONTACTS (routing_table.c:417).
ScheduleFeasible ==
  \A t \in 0..MaxTime :
    LET open == {c \in ToSet(rt.list) : From[c] <= t /\ t < To[c]}
    IN /\ Cardinality(open) <= MaxConcurrent
       /\ \A c, d \in open : rt.node[c] = rt.node[d] => c = d

\* ... if the uint8_t that counts overlaps (routing_table.c:419) cannot wrap.
FewContacts == Cardinality(Contact) < 256

\* The contact list stays ordered by the start of the contacts: the walks of
\* check_for_invalid_overlaps and process_upcoming_list stop at the first contact
\* that starts too late (contact_manager.c:147).
ListOrdered == \A i, j \in DOMAIN rt.list : i < j => From[rt.list[i]] <= From[rt.list[j]]

\* The end of a contact is reported to the router once: it frees the contact
\* when it gets the report (router_task.c:201).
ContactOverOnce ==
  \A c \in Contact :
    Cardinality({i \in DOMAIN rem : rem[i] = c})
      + Cardinality({i \in DOMAIN rq : rq[i].type = "contact_over" /\ rq[i].contact = c})
      <= IF c \in ToSet(current) THEN 0 ELSE 1

\* A bundle scheduled on a started contact does not stay there: it is handed
\* to the TX task or, when the contact ends, comes back for rescheduling
\* (contact_manager.c:178).
ActiveContactDrains ==
  []~Crashed =>
    \A b \in Bundle, c \in Contact :
      (c \in ToSet(current) /\ b \in rt.bundles[c]) ~> (b \notin rt.bundles[c])

\* A contact that the router will be told about is still allocated; the
\* intention of routing_table.c:359, where an active contact is un-associated
\* instead of freed.
ContactOverTargetLive ==
  /\ \A i \in DOMAIN rem : rt.obj[rem[i]] = "live"
  /\ \A i \in DOMAIN rq : rq[i].type = "contact_over" => rt.obj[rq[i].contact] = "live"
=============================================================================
