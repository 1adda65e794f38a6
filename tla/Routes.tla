------------------------------- MODULE Routes -------------------------------
(***************************************************************************)
(* How bundles are scheduled on contacts.  The router task                 *)
(* (router_task.c, router.c) looks for a route, cuts the bundle when no    *)
(* single contact takes it, and puts routed_bundle objects on the lists of *)
(* contacts with a limited capacity; the optimizer task                    *)
(* (router_optimizer.c) moves bundles to make room for those with a higher *)
(* priority; TX tasks report what they sent, and contacts end              *)
(* (routing_table.c).  All but the TX tasks run under cm_semaphore, so     *)
(* what they do is one step.  The interleavings of the contact manager and *)
(* the edits of the plan are in ContactPlan, which has one contact per     *)
(* bundle and no capacities.                                               *)
(*                                                                         *)
(* A routed_bundle may be on several lists (opportunistic routing).  It is *)
(* an object of its own: a freed one stays where pointers to it stay.      *)
(* Reliabilities and probabilities are in thousandths.                     *)
(***************************************************************************)
EXTENDS Fragments, FiniteSets

CONSTANTS
  Contact, From, To, \* contacts and functions on them
  Bitrate,           \* the bitrate a contact has in the beginning
  Reach,             \* the destinations of a contact, associated with p = 1
  Reliability,       \* of the node of a contact
  Mbs,               \* cla_mbs_get of its CLA; 0 if there is no such CLA
  Plans,             \* [contacts, bundles]: contacts in the plan and a sequence
                     \* of [bundle, own, dest]; one of them is what happens
  Updates,           \* <<contact, bitrate>> that a command may bring
  MaxFragments, MaxContacts,           \* ROUTER_MAX_FRAGMENTS, _CONTACTS
  FragmentMinPayload, MinProbability,
  MinOpportunistic, MinDeterministic,  \* min_node_confidence_...
  OptMinTime, OptMaxBundles, OptMaxPreBundles, OptMaxPreBundlesContact,
  MaxTime,           \* bound: the clock stops here
  MaxRoutings,       \* bound: routings of bundles
  MaxEvents          \* bound: bitrate changes and failing allocations

Prio == 0..2

ASSUME RoutesAssumption ==
  /\ From \in [Contact -> Nat] /\ To \in [Contact -> Nat] /\ Bitrate \in [Contact -> Nat]
  /\ \A c \in Contact : From[c] < To[c]
  /\ IsFiniteSet(Contact) /\ Reach \in [Contact -> SUBSET STRING]
  /\ Reliability \in [Contact -> 0..1000] /\ Mbs \in [Contact -> Nat]
  /\ 0 < MinOpportunistic /\ MinOpportunistic <= MinDeterministic
  /\ 0 < MinProbability /\ MinProbability <= MinDeterministic /\ MinDeterministic <= 1000
  /\ OptMaxBundles > 0 /\ OptMaxPreBundlesContact <= OptMaxPreBundles
  /\ Updates \subseteq Contact \X Nat
  /\ Plans \subseteq [contacts : SUBSET Contact,
                     bundles : Seq([bundle : Bundles, own : BOOLEAN, dest : STRING])]
  /\ {MinProbability, MinOpportunistic, MinDeterministic, MaxFragments, MaxContacts,
      FragmentMinPayload, OptMaxBundles, OptMaxPreBundles, OptMaxPreBundlesContact, OptMinTime,
      MaxTime, MaxRoutings, MaxEvents} \subseteq Nat

VARIABLES
  now,
  m,        \* what the tasks share, see Memory
  active,   \* contacts that have begun
  sent,     \* of the entries handed over on a contact, how many are sent
  opt_sem,  \* p->opt_semaphore: the POSIX one counts
  opt_pc,   \* the optimizer task
  routings, events

vars == <<now, m, active, sent, opt_sem, opt_pc, routings, events>>
bounds == <<routings, events>>

\* rate, total, left (remaining_capacity_p0, _p1, _p2), bundles are fields of
\* the contacts; handed are the entries that went to a TX task; over the
\* contacts that are not in the plan any more.  rb are the routed_bundle objects, store the
\* bundles by their id, rq the signals of TX tasks and optimizer to the
\* router.  fault is a failed assertion or an access to freed memory.
TypeOK ==
  /\ now \in 0..MaxTime /\ opt_sem \in Nat /\ opt_pc \in {"wait", "run", "poll"}
  /\ active \subseteq Contact /\ m.over \subseteq Contact
  /\ m.total \in [Contact -> Nat] /\ m.left \in [Contact -> [Prio -> Int]]
  /\ \A c \in Contact : /\ \A s \in {m.bundles[c], m.handed[c]} : ToSet(s) \subseteq DOMAIN m.rb
                        /\ sent[c] \in 0..Len(m.handed[c])
  /\ \A x \in DOMAIN m.rb : /\ Len(m.rb[x].contacts) <= MaxContacts
                            /\ ToSet(m.rb[x].contacts) \subseteq Contact
                            /\ m.rb[x].id \in DOMAIN m.store
  /\ \A i \in DOMAIN m.store :
       m.store[i].status \in {"bp", "routed", "replaced", "refused", "lost", "gone"}

Total(c, rate) == rate * (To[c] - From[c])

Init ==
  /\ now = 0 /\ active = {} /\ sent = [c \in Contact |-> 0]
  /\ \E plan \in Plans :
     m = [rate |-> Bitrate,
          total |-> [c \in Contact |-> Total(c, Bitrate[c])],
          left |-> [c \in Contact |-> [k \in Prio |-> Total(c, Bitrate[c])]],
          bundles |-> [c \in Contact |-> <<>>], handed |-> [c \in Contact |-> <<>>],
          over |-> Contact \ plan.contacts, rb |-> <<>>, rq |-> <<>>, fault |-> "none",
          store |-> [i \in DOMAIN plan.bundles |->
                      [bundle |-> plan.bundles[i].bundle, own |-> plan.bundles[i].own,
                       dest |-> plan.bundles[i].dest, of |-> 0, status |-> "bp"]]]
  /\ opt_sem = 0 /\ opt_pc = "wait"
  /\ routings = 0 /\ events = 0

Fault(mem, what) == [mem EXCEPT !.fault = what]

\* The memory after op(mem, x) for each x of s, or up to the first fault.
ForEach(mem, s, op(_, _)) ==
  FoldLeft(LAMBDA a, x : IF a.fault # "none" THEN a ELSE op(a, x), mem, s)

-----------------------------------------------------------------------------
(***************************************************************************)
(* Capacities and the contacts to a destination (node.c, router.c)         *)
(***************************************************************************)
\* A negative capacity is read as an unsigned number, larger than any size.
U32(n) == IF n < 0 THEN Huge + n ELSE n

recalculate_contact_capacity(mem, c, rate) ==
  LET new == Total(c, rate)
  IN  [mem EXCEPT !.rate[c] = rate, !.total[c] = new,
                  !.left[c] = [k \in Prio |-> @[k] + new - mem.total[c]]]

contact_get_cur_remaining_capacity(mem, c, prio) ==
  IF now >= To[c] THEN 0
  ELSE IF now <= From[c] THEN mem.left[c][prio]
  ELSE Min({(mem.total[c] * (To[c] - now)) \div (To[c] - From[c]), mem.left[c][prio]})

\* Those that end together are in any order.
router_lookup_destination(mem, dest) ==
  StableSort(SetToSeq({c \in Contact \ mem.over : dest \in Reach[c]}), To)

\* A contact joins the decision d: alone if it is reliable enough, together
\* with others if it is not, P(A u B) = P(A) + P(B) - P(A n B).
Join(d, c) ==
  LET conf == Reliability[c]
  IN  IF conf >= MinDeterministic THEN [d EXCEPT !.contacts = <<c>>, !.probability = conf]
      ELSE IF conf >= MinOpportunistic
      THEN [d EXCEPT !.contacts = Append(@, c),
                     !.probability = @ + conf - (@ * conf) \div 1000]
      ELSE d

\* Mutant: the array of ROUTER_MAX_CONTACTS pointers has no end.
UndecidedForever(d) == d.probability < MinProbability

Undecided(d) == d.probability < MinProbability /\ Len(d.contacts) # MaxContacts
Feasible(d) == d.probability >= MinProbability

-----------------------------------------------------------------------------
(***************************************************************************)
(* The route of a bundle (router.c)                                        *)
(***************************************************************************)
\* The largest fragment that fits into each of the contacts needed, 0 when
\* all of them together are too small.
router_get_max_reasonable_fragment_size(mem, contacts, full, min_size, payload, prio) ==
  LET usable(c, cap) == /\ U32(cap) >= payload \div MaxFragments + min_size
                        /\ Mbs[c] # 0
                        /\ cap - min_size > FragmentMinPayload
                        /\ Reliability[c] >= MinOpportunistic
      det(c) == Reliability[c] >= MinDeterministic
      pay(c, cap) == IF det(c) THEN cap - min_size
                     ELSE (Reliability[c] * (cap - min_size)) \div 1000
      step(a, c) ==
        With(contact_get_cur_remaining_capacity(mem, c, prio), LAMBDA cap :
          IF a.done \/ a.capacity >= payload \/ ~usable(c, cap) THEN a
          ELSE [capacity |-> a.capacity + pay(c, cap),
                size |-> Min({a.size, cap, Mbs[c]}),
                done |-> det(c) /\ cap >= full])
  IN  With(FoldLeft(step, [capacity |-> 0, size |-> Huge, done |-> FALSE], contacts),
           LAMBDA a : IF a.capacity < payload THEN 0 ELSE a.size)

\* `skip' bytes of the capacity are taken by fragments routed before.  They
\* are counted from the first contact on, whether it was used or not.
router_calculate_fragment_route(mem, size, contacts, skip, prio, excluded) ==
  LET cap(c, k) == contact_get_cur_remaining_capacity(mem, c, k)
      better(r, c) == IF U32(cap(c, prio) - r.skip) >= size THEN 1 ELSE 0
      step(r, c) ==
        IF ~Undecided(r) \/ c \in excluded \/ To[c] <= now THEN r
        ELSE With(U32(cap(c, 0)), LAMBDA full :
          IF r.skip # 0 /\ r.skip >= full THEN [r EXCEPT !.skip = @ - full]
          ELSE IF full - r.skip < size
          THEN [r EXCEPT !.skip = 0, !.improved = @ + better(r, c)]
          ELSE Join([r EXCEPT !.skip = 0], c))
  IN  FoldLeft(step, [contacts |-> <<>>, probability |-> 0, improved |-> 0, payload |-> 0,
                      skip |-> skip], contacts)

router_get_first_route_nonfrag(mem, contacts, b, prio) ==
  With(router_calculate_fragment_route(mem, bundle_get_serialized_size(b), contacts, 0, prio, {}),
       LAMBDA r : IF Feasible(r) THEN <<r>> ELSE <<>>)

\* The payload of each fragment, none when MaxFragments of them do not do.
FragmentPayloads(payload, max, first, mid, last) ==
  LET step(a, i) ==
        IF a.left = 0 \/ a.failed THEN a
        ELSE IF max - a.head < Min({a.left, FragmentMinPayload}) THEN [a EXCEPT !.failed = TRUE]
        ELSE LET n == IF a.left <= max - last THEN a.left ELSE Min({a.left, max - a.head})
             IN  [left |-> a.left - n, head |-> mid, failed |-> FALSE,
                  sizes |-> Append(a.sizes, n)]
  IN  With(FoldLeft(step, [left |-> payload, head |-> first, failed |-> FALSE, sizes |-> <<>>],
                    [i \in 1..MaxFragments |-> i]),
           LAMBDA a : IF a.left # 0 THEN <<>> ELSE a.sizes)

router_get_first_route_frag(mem, contacts, b, prio, max) ==
  LET first == bundle_get_first_fragment_min_size(b)
      mid   == bundle_get_mid_fragment_min_size(b)
      last  == bundle_get_last_fragment_min_size(b)
      head(i, n) == IF i = 1 THEN first ELSE IF i = n THEN last ELSE mid
      route(a, i, sizes) ==
        LET size == head(i, Len(sizes)) + sizes[i]
        IN  [routes |-> Append(a.routes,
                          [router_calculate_fragment_route(mem, size, contacts, a.processed, prio, {})
                             EXCEPT !.payload = sizes[i]]),
             processed |-> a.processed + size]
  IN  IF first > max \/ last > max THEN <<>>
      ELSE With(FragmentPayloads(Len(Payload(b)), max, first, mid, last), LAMBDA sizes :
             With(FoldLeft(LAMBDA a, i : route(a, i, sizes),
                           [routes |-> <<>>, processed |-> 0], [i \in DOMAIN sizes |-> i]).routes,
                  LAMBDA rs : IF \A i \in DOMAIN rs : Feasible(rs[i]) THEN rs ELSE <<>>))

\* The routes of the fragments; of the bundle itself if it is only one.
router_get_first_route(mem, entry) ==
  LET b        == entry.bundle
      contacts == router_lookup_destination(mem, entry.dest)
      prio     == bundle_get_routing_priority(b, entry.own)
      size     == bundle_get_serialized_size(b)
      min_size == Max({bundle_get_first_fragment_min_size(b), bundle_get_last_fragment_min_size(b)})
  IN  IF contacts = <<>> THEN <<>>
      ELSE With(router_get_max_reasonable_fragment_size(mem, contacts, size, min_size,
                                                        Len(Payload(b)), prio), LAMBDA max :
             IF max = 0 THEN <<>>
             ELSE IF bundle_must_not_fragment(b) \/ size <= max
             THEN router_get_first_route_nonfrag(mem, contacts, b, prio)
             ELSE router_get_first_route_frag(mem, contacts, b, prio, max))

-----------------------------------------------------------------------------
(***************************************************************************)
(* routed_bundle objects on the lists of contacts (router.c)               *)
(***************************************************************************)
\* Mutant: the capacity for normal priority is not touched.
ReserveExtremes(left, x, sign) ==
  [k \in Prio |-> IF k <= x.prio /\ k # 1 THEN left[k] + sign * x.size ELSE left[k]]

\* A bundle takes its size from the capacity of its own and lower priorities.
Reserve(left, x, sign) ==
  [k \in Prio |-> IF k <= x.prio THEN left[k] + sign * x.size ELSE left[k]]

\* `fails': no memory for the list entry.
router_add_bundle_to_contact(mem, c, x, fails) ==
  IF c \in mem.over THEN Fault(mem, "freed")
  ELSE IF mem.left[c][0] <= 0 THEN Fault(mem, "remaining_capacity_p0")
  ELSE IF fails THEN mem
  ELSE [mem EXCEPT !.bundles[c] = Append(@, x), !.left[c] = Reserve(@, mem.rb[x], -1)]

\* The entry is found by the id of its bundle.
router_remove_bundle_from_contact(mem, c, id) ==
  LET list == mem.bundles[c]
      hits == {i \in DOMAIN list : mem.rb[list[i]].id = id \/ ~mem.rb[list[i]].live}
  IN  IF c \in mem.over THEN Fault(mem, "freed")
      ELSE IF hits = {} THEN mem
      ELSE LET x == list[Min(hits)]
           IN  IF ~mem.rb[x].live THEN Fault(mem, "freed")
               ELSE [mem EXCEPT !.bundles[c] = RemoveAt(@, Min(hits)),
                                !.left[c] = Reserve(@, mem.rb[x], 1)]

\* The loops over the contacts of an object.  The entry for the first contact
\* may fail.
AddToContacts(mem, x, contacts, fails) ==
  ForEach(mem, contacts,
          LAMBDA a, c : router_add_bundle_to_contact(a, c, x, fails /\ c = Head(contacts)))
RemoveFromContacts(mem, contacts, id) ==
  ForEach(mem, contacts, LAMBDA a, c : router_remove_bundle_from_contact(a, c, id))

\* Without any entry the object ends up with no contacts.
router_update_routed_bundle(mem, route, x, fails) ==
  LET added == IF fails THEN Tail(route.contacts) ELSE route.contacts
  IN  AddToContacts([mem EXCEPT !.rb[x] = [@ EXCEPT !.improved = route.improved,
                                                    !.contacts = added, !.serialized = 0]],
                    x, route.contacts, fails)

Unrouted(mem, x) == mem.rb[x].contacts = <<>>
Free(mem, x) == [mem EXCEPT !.rb[x].live = FALSE]
Drop(mem, x) == [mem EXCEPT !.rb[x] = [@ EXCEPT !.live = FALSE, !.contacts = <<>>]]

\* The new object is the last one; when it cannot be scheduled it is freed.
router_add_bundle_to_route(mem, route, id, fails) ==
  LET e == mem.store[id]
      x == Len(mem.rb) + 1
      rb == [live |-> TRUE, id |-> id, dest |-> e.dest, contacts |-> <<>>, improved |-> 0,
             prio |-> bundle_get_routing_priority(e.bundle, e.own),
             size |-> bundle_get_serialized_size(e.bundle), serialized |-> 0]
  IN  With(router_update_routed_bundle([mem EXCEPT !.rb = Append(@, rb)], route, x, fails),
           LAMBDA a : IF Unrouted(a, x) THEN Drop(a, x)
                      ELSE [a EXCEPT !.store[id].status = "routed"])

\* With free_rb set: the object that was found on one of the lists is freed.
router_remove_bundle_from_route(mem, contacts, id) ==
  LET xs == {x \in DOMAIN mem.rb : /\ mem.rb[x].id = id
                                   /\ \E i \in DOMAIN contacts : x \in ToSet(mem.bundles[contacts[i]])}
  IN  With(RemoveFromContacts(mem, contacts, id), LAMBDA a :
        [a EXCEPT !.rb = [x \in DOMAIN @ |-> IF x \in xs /\ a.fault = "none"
                                             THEN [@[x] EXCEPT !.live = FALSE] ELSE @[x]]])

\* reschedule_bundles of routing_table.c, and what BP_SIGNAL_RESCHEDULE_BUNDLE
\* does to a bundle.
BackToProcessor(mem, id) == [mem EXCEPT !.store[id].status = "bp"]

reschedule_bundles(mem, c) ==
  LET one(a, i) ==
        LET rb == a.rb[Head(a.bundles[c])]
        IN  IF a.bundles[c] = <<>> THEN a
            ELSE IF ~rb.live THEN Fault(a, "freed")
            ELSE BackToProcessor(router_remove_bundle_from_route(a, rb.contacts, rb.id), rb.id)
  IN  ForEach(mem, mem.bundles[c], one)

\* routing_table_contact_passed: every object on the list is freed, wherever
\* else it may be.
routing_table_contact_passed(mem, c) ==
  LET one(a, x) == IF ~a.rb[x].live THEN Fault(a, "freed")
                   ELSE BackToProcessor(Free(a, x), a.rb[x].id)
  IN  [ForEach(mem, mem.bundles[c], one) EXCEPT !.over = @ \cup {c}, !.bundles[c] = <<>>]

-----------------------------------------------------------------------------
(***************************************************************************)
(* process_bundle of the router task.  `fails' is the fragment for which   *)
(* an allocation fails, 0 for none.                                        *)
(***************************************************************************)
\* The fragments for the routes, or what kept them from being made.
CutBundle(b, routes) ==
  LET head(f) == IF f = 1 THEN bundle_get_first_fragment_min_size(b)
                 ELSE bundle_get_mid_fragment_min_size(b)
      cut(a, f) == IF a.result # "cut" THEN a
                   ELSE With(bundlefragmenter_fragment_bundle(a.rest, head(f) + routes[f].payload),
                             LAMBDA r : [result |-> r.result, rest |-> r.rest,
                                         frags |-> Append(a.frags, r.first)])
  IN  FoldLeft(cut, [result |-> "cut", frags |-> <<>>,
                     rest |-> bundlefragmenter_initialize_first_fragment(b)],
               [f \in 1..(Len(routes) - 1) |-> f])

Refuse(mem, id) == [mem EXCEPT !.store[id].status = "refused"]

\* Mutant: the loop ends one fragment too early.
TakeBackAllButOne(mem, base, routes, count) ==
  LET undo(a, f) == [router_remove_bundle_from_route(a, routes[f].contacts, base + f)
                       EXCEPT !.store[base + f].status = "gone"]
  IN  ForEach(mem, [f \in 1..(count - 1) |-> f], undo)

\* The first `count' fragments leave their contacts and the storage again.
TakeBack(mem, base, routes, count) ==
  LET undo(a, f) == [router_remove_bundle_from_route(a, routes[f].contacts, base + f)
                       EXCEPT !.store[base + f].status = "gone"]
  IN  ForEach(mem, [f \in 1..count |-> f], undo)

\* bundle_storage_add, and the fragments that were added before are taken
\* back when one of them cannot be scheduled.
AddFragments(mem, id, frags, routes, fails) ==
  LET base == Len(mem.store)
      stored == mem.store \o [f \in DOMAIN frags |->
                  [mem.store[id] EXCEPT !.bundle = frags[f], !.of = id, !.status = "gone"]]
      add(a, f) == router_add_bundle_to_route(a, routes[f], base + f, FALSE)
      upto(n) == ForEach([mem EXCEPT !.store = stored], [f \in 1..n |-> f], add)
  IN  IF fails = 0 THEN [upto(Len(frags)) EXCEPT !.store[id].status = "replaced"]
      ELSE With(router_add_bundle_to_route(upto(fails - 1), routes[fails], base + fails, TRUE),
                LAMBDA a : IF a.store[base + fails].status = "routed"
                           THEN [ForEach(a, [f \in 1..(Len(frags) - fails) |-> fails + f], add)
                                   EXCEPT !.store[id].status = "replaced"]
                           ELSE Refuse(TakeBack(a, base, routes, fails - 1), id))

\* Without a route (no fragments) the bundle is removed like one that was
\* replaced by its fragments.
apply_fragmentation(mem, id, routes, fails) ==
  IF routes = <<>> THEN [mem EXCEPT !.store[id].status = "lost"]
  ELSE With(CutBundle(mem.store[id].bundle, routes), LAMBDA a :
         CASE a.result = "cut"  -> AddFragments(mem, id, Append(a.frags, a.rest), routes, fails)
           [] a.result = "null" -> Refuse(mem, id)
           [] OTHER             -> Fault(mem, a.result))

process_bundle(mem, id, routes, fails) ==
  IF Len(routes) # 1 THEN apply_fragmentation(mem, id, routes, fails)
  ELSE With(router_add_bundle_to_route(mem, routes[1], id, fails = 1), LAMBDA a :
         IF a.fault = "none" /\ a.store[id].status # "routed" THEN Refuse(a, id) ELSE a)

-----------------------------------------------------------------------------
(***************************************************************************)
(* The optimizer (router_optimizer.c)                                      *)
(***************************************************************************)
get_less_prio_bundle_list(mem, c, prio) ==
  OnlyThose(mem.bundles[c], {x \in ToSet(mem.bundles[c]) : mem.rb[x].prio < prio})

\* Lowest priority first, and among equal ones the largest.
PreemptionOrder(mem, list) ==
  LET large_first == StableSort(list, [x \in ToSet(list) |-> -mem.rb[x].size])
  IN  StableSort(large_first, [x \in ToSet(list) |-> mem.rb[x].prio])

\* The decision d with what has to leave contact c for a bundle of this size;
\* ok is FALSE and d as before when that is too much.
do_preemption(mem, c, prio, size, d) ==
  LET all == PreemptionOrder(mem, get_less_prio_bundle_list(mem, c, prio))
      take(a, x) == IF \/ a.target <= 0 \/ a.count >= OptMaxPreBundlesContact
                       \/ Len(d.preempted) + a.count >= OptMaxPreBundles
                    THEN a ELSE [target |-> a.target - mem.rb[x].size, count |-> a.count + 1]
  IN  With(FoldLeft(take, [target |-> size - contact_get_cur_remaining_capacity(mem, c, 0),
                           count |-> 0], all), LAMBDA a :
        [d EXCEPT !.ok = a.target <= 0,
                  !.preempted = IF a.target > 0 THEN @ ELSE @ \o SubSeq(all, 1, a.count)])

\* Mutant: every contact that can be made free is taken, none is kept.
DecideOnLast(mem, contacts, prio, size) ==
  LET cap(c, k) == contact_get_cur_remaining_capacity(mem, c, k)
      fits(c) == cap(c, prio) >= size /\ To[c] > now
      step(d, c) == IF ~fits(c) \/ Len(d.contacts) = MaxContacts THEN d
                    ELSE IF cap(c, 0) >= size THEN Join(d, c)
                    ELSE With(do_preemption(mem, c, prio, size, d), LAMBDA p :
                           IF p.ok THEN Join(p, c) ELSE p)
  IN  FoldLeft(step, [contacts |-> <<>>, probability |-> 0, preempted |-> <<>>, ok |-> TRUE],
               contacts)

try_calculate_new_decision(mem, contacts, prio, size) ==
  LET cap(c, k) == contact_get_cur_remaining_capacity(mem, c, k)
      fits(c) == cap(c, prio) >= size /\ To[c] > now
      step(d, c) == IF ~Undecided(d) \/ ~fits(c) THEN d
                    ELSE IF cap(c, 0) >= size THEN Join(d, c)
                    ELSE With(do_preemption(mem, c, prio, size, d), LAMBDA p :
                           IF p.ok THEN Join(p, c) ELSE p)
  IN  FoldLeft(step, [contacts |-> <<>>, probability |-> 0, preempted |-> <<>>, ok |-> TRUE],
               contacts)

TakeOff(mem, x) ==
  IF Unrouted(mem, x) THEN Fault(mem, "null")
  ELSE RemoveFromContacts(mem, mem.rb[x].contacts, mem.rb[x].id)

\* New routes for all preempted bundles are computed before one is applied.
re_route_preempted_fragments(mem, preempted, ignored, fails) ==
  LET route(x) ==
        With(mem.rb[x], LAMBDA rb :
          router_calculate_fragment_route(mem, rb.size, router_lookup_destination(mem, rb.dest),
                                          0, rb.prio, ignored))
      apply(froutes, a, i) ==
        LET x == preempted[i]
        IN  With(TakeOff(a, x), LAMBDA r :
              IF r.fault # "none" THEN r
              ELSE With(router_update_routed_bundle(r, froutes[i], x, fails /\ i = 1), LAMBDA u :
                     IF u.fault = "none" /\ Unrouted(u, x)
                     THEN [u EXCEPT !.rq = Append(@, [type |-> "optimization_drop", rb |-> x])]
                     ELSE u))
  IN  With([i \in DOMAIN preempted |-> route(preempted[i])], LAMBDA froutes :
        IF \A i \in DOMAIN froutes : Feasible(froutes[i])
        THEN [success |-> TRUE, mem |-> ForEach(mem, [i \in DOMAIN preempted |-> i],
                                                LAMBDA a, i : apply(froutes, a, i))]
        ELSE [success |-> FALSE, mem |-> mem])

\* The new contacts of object x, if what they displace finds another place.
NewDecision(mem, x, contacts, fails) ==
  With(try_calculate_new_decision(mem, contacts, mem.rb[x].prio, mem.rb[x].size), LAMBDA d :
    IF ~Feasible(d) THEN mem
    ELSE IF d.preempted = <<>> THEN Fault(mem, "preempted_count")
    ELSE IF \E i \in DOMAIN d.preempted : ~mem.rb[d.preempted[i]].live THEN Fault(mem, "freed")
    ELSE With(re_route_preempted_fragments(mem, d.preempted, ToSet(d.contacts), fails), LAMBDA r :
           IF r.success THEN [r.mem EXCEPT !.rb[x].contacts = d.contacts] ELSE r.mem))

\* Mutant: the bundle stays where it was.
KeepOldEntries(mem, x, fails) ==
  LET contacts == router_lookup_destination(mem, mem.rb[x].dest)
      decided(a) == NewDecision([a EXCEPT !.rb[x].improved = 0], x, contacts, fails)
  IN  With(IF contacts = <<>> THEN mem ELSE decided(mem), LAMBDA a :
        IF a.rb[x].contacts = mem.rb[x].contacts THEN a
        ELSE AddToContacts(a, x, a.rb[x].contacts, FALSE))

try_optimize_decision_preempt(mem, x, fails) ==
  LET contacts == router_lookup_destination(mem, mem.rb[x].dest)
      decided(a) == NewDecision([a EXCEPT !.rb[x].improved = 0], x, contacts, fails)
  IN  With(TakeOff(mem, x), LAMBDA a :
        IF a.fault # "none" THEN a
        ELSE With(IF contacts = <<>> THEN a ELSE decided(a), LAMBDA b :
               AddToContacts(b, x, b.rb[x].contacts, FALSE)))

\* The first contact with bundles to optimize; lists on the way are sorted.
router_run_optimization(mem, fails) ==
  LET clist == StableSort(SetToSeq(Contact \ mem.over), From)
      unsorted(a, c) == \E i \in 2..Len(a.bundles[c]) :
                          a.rb[a.bundles[c][i]].prio > a.rb[a.bundles[c][i - 1]].prio
      waiting(a, c) == {x \in ToSet(a.bundles[c]) : a.rb[x].improved # 0 /\ a.rb[x].serialized = 0}
      popt(a, c) == With(OnlyThose(a.bundles[c], waiting(a, c)),
                         LAMBDA s : SubSeq(s, 1, Min({OptMaxBundles, Len(s)})))
      sorted(a, c) == [a EXCEPT !.bundles[c] = StableSort(@, [x \in ToSet(@) |-> -a.rb[x].prio])]
      optimized(a, s) == ForEach(a, [i \in DOMAIN s |-> i],
                                 LAMBDA b, i : try_optimize_decision_preempt(b, s[i], fails /\ i = 1))
      step(r, c) ==
        IF r.done \/ r.mem.fault # "none" THEN r
        ELSE IF \E x \in ToSet(r.mem.bundles[c]) : ~r.mem.rb[x].live
        THEN [r EXCEPT !.mem = Fault(@, "freed")]
        ELSE With(popt(r.mem, c), LAMBDA s :
             With(optimized(r.mem, s), LAMBDA a :
               [mem |-> IF unsorted(r.mem, c) THEN sorted(a, c) ELSE a,
                done |-> s # <<>>,
                opt |-> r.opt \/ s # <<>> \/ unsorted(r.mem, c)]))
  IN  FoldLeft(step, [mem |-> mem, done |-> FALSE, opt |-> FALSE], clist)

-----------------------------------------------------------------------------
(***************************************************************************)
(* The tasks                                                               *)
(***************************************************************************)
Running == m.fault = "none"

\* ROUTER_SIGNAL_ROUTE_BUNDLE
RouteBundle ==
  /\ Running /\ routings < MaxRoutings
  /\ \E id \in {i \in DOMAIN m.store : m.store[i].status = "bp"} :
     \E routes \in {router_get_first_route(m, m.store[id])} :
     \E fails \in 0..(IF events < MaxEvents THEN Len(routes) ELSE 0) :
       /\ m' = process_bundle(m, id, routes, fails)
       /\ events' = events + (IF fails = 0 THEN 0 ELSE 1)
  /\ opt_sem' = opt_sem + 1 /\ routings' = routings + 1
  /\ UNCHANGED <<now, active, sent, opt_pc>>

\* ROUTER_SIGNAL_PROCESS_COMMAND with a contact that differs in its bitrate:
\* merge_contacts, and routing_table_add_node when too much is scheduled.
UpdateBitrate ==
  /\ Running /\ events < MaxEvents
  /\ \E u \in Updates :
       /\ u[1] \notin m.over /\ m.rate[u[1]] # u[2]
       /\ m' = With(recalculate_contact_capacity(m, u[1], u[2]), LAMBDA a :
                  IF a.left[u[1]][0] < 0 THEN reschedule_bundles(a, u[1]) ELSE a)
  /\ opt_sem' = opt_sem + 1 /\ events' = events + 1
  /\ UNCHANGED <<now, active, sent, opt_pc, routings>>

\* The contact manager starts a contact, and hands over the bundles on its
\* list whenever there is a link.
StartContact ==
  /\ Running
  /\ \E c \in Contact \ (m.over \cup active) :
       From[c] <= now /\ now < To[c] /\ active' = active \cup {c}
  /\ UNCHANGED <<now, m, sent, opt_sem, opt_pc, bounds>>

hand_over_contact_bundles ==
  /\ Running
  /\ \E c \in active :
       /\ m.bundles[c] # <<>>
       /\ m' = [m EXCEPT !.handed[c] = @ \o m.bundles[c], !.bundles[c] = <<>>]
  /\ UNCHANGED <<now, active, sent, opt_sem, opt_pc, bounds>>

\* A TX task with the next entry of what was handed over on contact c.  That
\* the bundle was sent or not only decides what the processor is told.
TxTask ==
  /\ Running
  /\ \E c \in Contact :
       /\ sent[c] < Len(m.handed[c])
       /\ sent' = [sent EXCEPT ![c] = @ + 1]
       /\ \E x \in {m.handed[c][sent[c] + 1]} :
            m' = IF ~m.rb[x].live THEN Fault(m, "freed")
                 ELSE [m EXCEPT !.rb[x].serialized = @ + 1,
                                !.rq = Append(@, [type |-> "transmission", rb |-> x])]
  /\ UNCHANGED <<now, active, opt_sem, opt_pc, bounds>>

\* ROUTER_SIGNAL_TRANSMISSION_SUCCESS and _FAILURE: the last report frees the
\* object.  ROUTER_SIGNAL_OPTIMIZATION_DROP.
RouterReport ==
  /\ Running /\ m.rq # <<>>
  /\ \E s \in {Head(m.rq)} : \E rb \in {m.rb[s.rb]} :
       m' = IF ~rb.live THEN Fault(m, "freed")
            ELSE IF s.type = "optimization_drop" \/ rb.serialized = Len(rb.contacts)
            THEN [Free(m, s.rb) EXCEPT !.rq = Tail(@), !.store[rb.id].status = "gone"]
            ELSE [m EXCEPT !.rq = Tail(@)]
  /\ UNCHANGED <<now, active, sent, opt_sem, opt_pc, bounds>>

\* ROUTER_SIGNAL_CONTACT_OVER
EndContact ==
  /\ Running
  /\ \E c \in active : /\ To[c] <= now /\ active' = active \ {c}
                         /\ m' = routing_table_contact_passed(m, c)
  /\ UNCHANGED <<now, sent, opt_sem, opt_pc, bounds>>

\* contact_manager_in_contact and contact_manager_get_next_contact_time, which
\* is -1 as a signed number when no contact comes.
router_optimization_affordable ==
  LET upcoming == Contact \ (m.over \cup active)
  IN  /\ active = {} /\ upcoming # {}
      /\ Min({From[c] : c \in upcoming}) - now >= OptMinTime

\* The check is made before the lists are locked.
OptimizerCheck ==
  /\ Running /\ opt_pc = "wait" /\ opt_sem > 0 /\ router_optimization_affordable
  /\ opt_pc' = "run"
  /\ UNCHANGED <<now, m, active, sent, opt_sem, bounds>>

OptimizerRun ==
  /\ Running /\ opt_pc = "run"
  /\ \E fails \in (IF events < MaxEvents THEN BOOLEAN ELSE {FALSE}) :
     \E r \in {router_run_optimization(m, fails)} :
       /\ m' = r.mem /\ opt_pc' = IF r.opt THEN "wait" ELSE "poll"
       /\ events' = events + (IF fails THEN 1 ELSE 0)
  /\ UNCHANGED <<now, active, sent, opt_sem, routings>>

OptimizerPoll ==
  /\ Running /\ opt_pc = "poll" /\ opt_pc' = "wait" /\ opt_sem' = opt_sem - 1
  /\ UNCHANGED <<now, m, active, sent, bounds>>

Tick ==
  /\ Running /\ now < MaxTime /\ now' = now + 1
  /\ UNCHANGED <<m, active, sent, opt_sem, opt_pc, bounds>>

Next == \/ RouteBundle \/ UpdateBitrate \/ StartContact \/ hand_over_contact_bundles
        \/ TxTask \/ RouterReport \/ EndContact
        \/ OptimizerCheck \/ OptimizerRun \/ OptimizerPoll \/ Tick

Spec == Init /\ [][Next]_vars

-----------------------------------------------------------------------------
(***************************************************************************)
(* Properties                                                              *)
(***************************************************************************)
Size(list, k) == FoldLeft(LAMBDA n, x : n + (IF m.rb[x].prio >= k THEN m.rb[x].size ELSE 0), 0, list)

\* The capacity left for a priority is the contact's total less what bundles
\* of this or a higher priority take, on the list or handed over: no routing,
\* failed allocation, preemption, change of the bitrate or rescheduling
\* leaks capacity (remaining_capacity_p0.._p2 of struct contact).
CapacityBalance ==
  Running => \A c \in Contact \ m.over, k \in Prio :
               m.total[c] - m.left[c][k] = Size(m.bundles[c] \o m.handed[c], k)

\* rb->contacts and the lists of the contacts agree: a live object is on the
\* list of each of its contacts, or was handed over there, and is on no other
\* list; after the optimizer has moved it as well.
ListsMatchRoutes ==
  Running =>
    /\ \A c \in Contact : IsInjective(m.bundles[c])
    /\ \A x \in {y \in DOMAIN m.rb : m.rb[y].live} : \A c \in Contact \ m.over :
         /\ c \in ToSet(m.rb[x].contacts) => x \in ToSet(m.bundles[c] \o m.handed[c])
         /\ x \in ToSet(m.bundles[c]) => c \in ToSet(m.rb[x].contacts)

\* A bundle is routed by exactly one routed_bundle object, and there is none
\* for a bundle that the bundle processor has to deal with; a fragment is
\* routed only in place of its bundle: rescheduling leaves nothing behind, a
\* failed fragmentation is taken back completely (apply_fragmentation).
OneRoute ==
  Running => \A i \in DOMAIN m.store :
               LET e == m.store[i]
               IN  /\ Cardinality({x \in DOMAIN m.rb : m.rb[x].live /\ m.rb[x].id = i})
                        = IF e.status = "routed" THEN 1 ELSE 0
                   /\ e.status = "routed" /\ e.of # 0 => m.store[e.of].status = "replaced"

\* The entries of the fragments of bundle i, in their order, and the fragments.
PartsOf(store, i) == OnlyThose([k \in DOMAIN store |-> k], {k \in DOMAIN store : store[k].of = i})
FragmentsOf(store, i) ==
  LET parts == PartsOf(store, i) IN [k \in DOMAIN parts |-> store[parts[k]].bundle]

\* What a copy of a block shares with it, and the copies of e among blocks.
Content(block) == <<block.type, block.flags, block.data>>
Copies(blocks, e) == Cardinality({k \in DOMAIN blocks : Content(blocks[k]) = e})

\* The payloads of some bundles, one after the other, and all their blocks.
Payloads(f) == FlattenSeq([k \in DOMAIN f |-> Payload(f[k])])
BlocksOf(f) == FlattenSeq([k \in DOMAIN f |-> f[k].blocks])

\* The fragments f carry the payload of b without gap or overlap, at the right
\* offsets and with the right total length.  Of each extension block, all of
\* them have as many copies as b if it has to be replicated, and one of them
\* has it otherwise.  No fragment has other blocks.
Tile(b, f) ==
  /\ Payloads(f) = Payload(b)
  /\ \A k \in DOMAIN f :
       /\ IsFragment(f[k].proc_flags)
       /\ f[k].total_adu_length = (IF IsFragment(b.proc_flags) THEN b.total_adu_length
                                   ELSE Len(Payload(b)))
       /\ f[k].fragment_offset = b.fragment_offset + Len(Payloads(SubSeq(f, 1, k - 1)))
  /\ \A x \in ToSet(b.blocks \o BlocksOf(f)) : Extension(x) =>
       LET e == Content(x)
       IN  IF bundle_block_must_be_replicated(x)
           THEN \A k \in DOMAIN f : Copies(f[k].blocks, e) = Copies(b.blocks, e)
           ELSE Copies(BlocksOf(f), e) = Copies(b.blocks, e)

\* What the next property needs: bundles have one payload block, as both
\* protocols want.  The BPv7 parser ends a bundle at its payload; the BPv6 parser
\* does not count payload blocks and keeps a pointer to the last.
OnePayloadEach ==
  \A plan \in Plans : \A i \in DOMAIN plan.bundles : OnePayload(plan.bundles[i].bundle)

\* The fragments that replace a bundle are the bundle (bundle6_fragment_bundle,
\* bundle7_fragment_bundle, CutBundle's loop over the rest).
FragmentsTile ==
  Running => \A i \in DOMAIN m.store :
               m.store[i].status = "replaced" => Tile(m.store[i].bundle, FragmentsOf(m.store, i))

\* "We won't get worse results": optimization never delays a bundle of the
\* highest priority, which nothing can preempt.
LastEnd(mem, x) == Max({To[c] : c \in ToSet(mem.rb[x].contacts)})
OptimizedNotLater ==
  [][opt_pc = "run" /\ opt_pc' # "run" /\ m'.fault = "none" =>
       \A x \in DOMAIN m.rb : m.rb[x].live /\ m.rb[x].prio = 2 => LastEnd(m', x) <= LastEnd(m, x)]_vars

\* re_route_preempted_fragments: ASSERT(preempted_count > 0).  A new decision
\* for a bundle that preemption might improve preempts another one.
PreemptionNeeded == m.fault # "preempted_count"
=============================================================================
