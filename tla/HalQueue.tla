------------------------------ MODULE HalQueue ------------------------------
(***************************************************************************)
(* The message queue of the POSIX port, simple_queue.c, one action per     *)
(* semaphore operation: the ring buffer with its two lazily wrapped        *)
(* pointers, the mutex `semaphore' and the counting semaphores sem_pop     *)
(* (items) and sem_push (free slots).  Three kinds of tasks use it:        *)
(* Pushers (hal_queue_push_to_back, hal_queue_try_push_to_back), Wakers    *)
(* (wake_up_contact_manager: a try, then hal_queue_override_to_back) and   *)
(* Poppers (hal_queue_receive).  A task in Timed passes a timeout >= 0.    *)
(***************************************************************************)
EXTENDS Naturals, Sequences, FiniteSets

CONSTANTS Length,     \* queue_length of queueCreate
          Item,       \* payloads
          Recheck,    \* the item a waker overrides with (UPDATE | PROCESS)
          Pusher, Waker, Popper,
          Timed

Thread == Pusher \cup Waker \cup Popper

\* queueCreate exits the process for a length of zero.
ASSUME LengthAssumption == Length \in Nat \ {0}
ASSUME ThreadAssumption == /\ IsFiniteSet(Thread)
                           /\ Timed \subseteq Pusher \cup Popper
                           /\ Popper \cap (Pusher \cup Waker) = {}
                           /\ Pusher \cap Waker = {}
ASSUME ItemAssumption == Recheck \in Item

VARIABLES semaphore,      \* mutex
          sem_pop,        \* items that may be popped
          sem_push,       \* slots that may be filled
          slots,          \* the item memory
          current_start,  \* read pointer, in items from abs_start
          current_end,    \* write pointer, in items from abs_start
          pc,             \* where each task is inside queuePush/queuePop
          item,           \* the item a task is pushing
          buffer          \* targetBuffer of each task's last queuePop

sems == <<semaphore, sem_pop, sem_push>>
ring == <<slots, current_start, current_end>>
vars == <<semaphore, sem_pop, sem_push, slots, current_start, current_end,
          pc, item, buffer>>

PC == {"idle", "push_wait", "force", "push_lock", "push_store", "push_post",
       "over_lock", "over_store", "pop_wait", "pop_lock", "pop_read",
       "pop_post", "unlock"}

TypeOK == /\ semaphore \in 0..1
          /\ sem_pop \in 0..Length
          /\ sem_push \in 0..Length
          /\ slots \in [0..(Length - 1) -> Item]
          /\ current_start \in 0..Length
          /\ current_end \in 0..Length
          /\ pc \in [Thread -> PC]
          /\ item \in [Thread -> Item]
          /\ buffer \in [Thread -> Item]

Goto(t, where) == pc' = [pc EXCEPT ![t] = where]

(***************************************************************************)
(* Pointer arithmetic.  increment() wraps only past abs_end, so a pointer  *)
(* may rest on abs_end = Length until the next use folds it to the start.  *)
(***************************************************************************)
increment(p) == IF p + 1 > Length THEN 0 ELSE p + 1
decrement(p) == IF p < 1 THEN Length - 1 ELSE p - 1
Fold(p) == IF p >= Length THEN 0 ELSE p

\* queueCreate; the memory is uninitialised.
Init == /\ semaphore = 1
        /\ sem_pop = 0
        /\ sem_push = Length
        /\ slots \in [0..(Length - 1) -> Item]
        /\ current_start = 0
        /\ current_end = 0
        /\ pc = [t \in Thread |-> "idle"]
        /\ item \in [Thread -> {Recheck}]
        /\ buffer \in [Thread -> {Recheck}]

(***************************************************************************)
(* queuePush                                                               *)
(***************************************************************************)
BeginPush(t) == /\ t \in Pusher \cup Waker
                /\ pc[t] = "idle"
                /\ \E x \in Item : item' = [item EXCEPT ![t] = x]
                /\ Goto(t, "push_wait")
                /\ UNCHANGED <<sems, ring, buffer>>

\* sem_wait / sem_timedwait on sem_push succeeds.
TakePush(t) == /\ pc[t] = "push_wait"
               /\ sem_push > 0
               /\ sem_push' = sem_push - 1
               /\ Goto(t, "push_lock")
               /\ UNCHANGED <<semaphore, sem_pop, ring, item, buffer>>

\* ETIMEDOUT: the call returns EXIT_FAILURE and a pusher gives up.
PushTimeout(t) == /\ t \in Timed
                  /\ pc[t] = "push_wait"
                  /\ sem_push = 0
                  /\ Goto(t, "idle")
                  /\ UNCHANGED <<sems, ring, item, buffer>>

\* wake_up_contact_manager after its try with timeout 0 has failed.
FallBackToOverride(t) == /\ t \in Waker
                         /\ pc[t] = "push_wait"
                         /\ sem_push = 0
                         /\ item' = [item EXCEPT ![t] = Recheck]
                         /\ Goto(t, "force")
                         /\ UNCHANGED <<sems, ring, buffer>>

\* Mutant: the token is not taken.
TryForceWithoutToken(t) == /\ pc[t] = "force"
                           /\ Goto(t, "push_lock")
                           /\ UNCHANGED <<sems, ring, item, buffer>>

\* force: sem_trywait decides between an ordinary push and an override.
TryForce(t) == /\ pc[t] = "force"
               /\ IF sem_push > 0
                  THEN sem_push' = sem_push - 1 /\ Goto(t, "push_lock")
                  ELSE UNCHANGED sem_push /\ Goto(t, "over_lock")
               /\ UNCHANGED <<semaphore, sem_pop, ring, item, buffer>>

\* memcpy and increment, under the mutex.
PushStore(t) == /\ pc[t] = "push_store"
                /\ slots' = [slots EXCEPT ![Fold(current_end)] = item[t]]
                /\ current_end' = increment(Fold(current_end))
                /\ Goto(t, "push_post")
                /\ UNCHANGED <<sems, current_start, item, buffer>>

PushPost(t) == /\ pc[t] = "push_post"
               /\ sem_pop' = sem_pop + 1
               /\ Goto(t, "unlock")
               /\ UNCHANGED <<semaphore, sem_push, ring, item, buffer>>

\* Mutants: the override counts as a new item, moves the write pointer, or
\* writes at the write pointer instead of before it.
OverStoreAndPost(t) == /\ pc[t] = "over_store"
                       /\ slots' = [slots EXCEPT ![decrement(current_end)] = item[t]]
                       /\ sem_pop' = sem_pop + 1
                       /\ Goto(t, "unlock")
                       /\ UNCHANGED <<semaphore, sem_push, current_start,
                                      current_end, item, buffer>>
OverStoreAndAdvance(t) == /\ pc[t] = "over_store"
                          /\ slots' = [slots EXCEPT ![Fold(current_end)] = item[t]]
                          /\ current_end' = increment(Fold(current_end))
                          /\ Goto(t, "unlock")
                          /\ UNCHANGED <<sems, current_start, item, buffer>>
OverStoreAtEnd(t) == /\ pc[t] = "over_store"
                     /\ slots' = [slots EXCEPT ![Fold(current_end)] = item[t]]
                     /\ Goto(t, "unlock")
                     /\ UNCHANGED <<sems, current_start, current_end, item, buffer>>

\* The override writes the slot before current_end, whatever it holds now.
OverStore(t) == /\ pc[t] = "over_store"
                /\ slots' = [slots EXCEPT ![decrement(current_end)] = item[t]]
                /\ Goto(t, "unlock")
                /\ UNCHANGED <<sems, current_start, current_end, item, buffer>>

(***************************************************************************)
(* queuePop                                                                *)
(***************************************************************************)
BeginPop(t) == /\ t \in Popper
               /\ pc[t] = "idle"
               /\ Goto(t, "pop_wait")
               /\ UNCHANGED <<sems, ring, item, buffer>>

TakePop(t) == /\ pc[t] = "pop_wait"
              /\ sem_pop > 0
              /\ sem_pop' = sem_pop - 1
              /\ Goto(t, "pop_lock")
              /\ UNCHANGED <<semaphore, sem_push, ring, item, buffer>>

PopTimeout(t) == /\ t \in Timed
                 /\ pc[t] = "pop_wait"
                 /\ sem_pop = 0
                 /\ Goto(t, "idle")
                 /\ UNCHANGED <<sems, ring, item, buffer>>

PopRead(t) == /\ pc[t] = "pop_read"
              /\ buffer' = [buffer EXCEPT ![t] = slots[Fold(current_start)]]
              /\ current_start' = increment(Fold(current_start))
              /\ Goto(t, "pop_post")
              /\ UNCHANGED <<sems, slots, current_end, item>>

\* Mutant: the freed slot is not announced.
PopWithoutPost(t) == /\ pc[t] = "pop_post"
                     /\ Goto(t, "unlock")
                     /\ UNCHANGED <<sems, ring, item, buffer>>

PopPost(t) == /\ pc[t] = "pop_post"
              /\ sem_push' = sem_push + 1
              /\ Goto(t, "unlock")
              /\ UNCHANGED <<semaphore, sem_pop, ring, item, buffer>>

(***************************************************************************)
(* The mutex                                                               *)
(***************************************************************************)
AfterLock == [push_lock |-> "push_store", over_lock |-> "over_store",
              pop_lock |-> "pop_read"]

\* Mutant: the mutex is not waited for.
LockAnyway(t) == /\ pc[t] \in DOMAIN AfterLock
                 /\ semaphore' = 0
                 /\ Goto(t, AfterLock[pc[t]])
                 /\ UNCHANGED <<sem_pop, sem_push, ring, item, buffer>>

Lock(t) == /\ pc[t] \in DOMAIN AfterLock
           /\ semaphore = 1
           /\ semaphore' = 0
           /\ Goto(t, AfterLock[pc[t]])
           /\ UNCHANGED <<sem_pop, sem_push, ring, item, buffer>>

Unlock(t) == /\ pc[t] = "unlock"
             /\ semaphore' = semaphore + 1
             /\ Goto(t, "idle")
             /\ UNCHANGED <<sem_pop, sem_push, ring, item, buffer>>

Step(t) == \/ TakePush(t) \/ PushTimeout(t) \/ FallBackToOverride(t)
           \/ TryForce(t) \/ PushStore(t) \/ PushPost(t) \/ OverStore(t)
           \/ BeginPop(t) \/ TakePop(t) \/ PopTimeout(t)
           \/ PopRead(t) \/ PopPost(t)
           \/ Lock(t) \/ Unlock(t)

Next == \E t \in Thread : BeginPush(t) \/ Step(t)

(***************************************************************************)
(* Every task that is inside a queue operation keeps running, a popper     *)
(* calls hal_queue_receive again and again (all receivers are endless      *)
(* loops), and no task waits for the mutex for ever: critical sections are *)
(* finite and a waiter of sem_wait is woken by sem_post.  Nothing is       *)
(* assumed about which task gets a free slot, nor that anybody pushes.     *)
(***************************************************************************)
Fairness == \A t \in Thread : WF_vars(Step(t)) /\ SF_vars(Lock(t))

Spec == Init /\ [][Next]_vars /\ Fairness

-----------------------------------------------------------------------------
(***************************************************************************)
(* Properties                                                              *)
(***************************************************************************)
At(places) == {t \in Thread : pc[t] \in places}

CriticalSection == {"push_store", "push_post", "over_store", "pop_read",
                    "pop_post", "unlock"}

\* A task here holds a token taken from one counting semaphore and not yet
\* handed to the other.
InFlight == {"push_lock", "push_store", "push_post",
             "pop_lock", "pop_read", "pop_post"}

\* A task here stands for an item that is in memory and not in sem_pop.
Uncounted == {"push_post", "pop_lock", "pop_read"}

\* Items that are in memory and not yet read.
Stored == sem_pop + Cardinality(At(Uncounted))

\* The slot of the i-th item counted from a read pointer.
Place(start, i) == IF Fold(start) + i - 1 >= Length
                   THEN Fold(start) + i - 1 - Length
                   ELSE Fold(start) + i - 1

(* The mutex of simple_queue.c excludes: at most one task is between       *)
(* sem_wait(semaphore) and sem_post(semaphore), and the semaphore is 0     *)
(* exactly then.                                                           *)
MutexHeld == semaphore + Cardinality(At(CriticalSection)) = 1

(* Every slot is accounted for by exactly one token: free (sem_push),      *)
(* filled (sem_pop) or in the hands of one task inside queuePush/queuePop, *)
(* through every interleaving of blocking, timed out and overriding calls. *)
TokensConserved == sem_push + sem_pop + Cardinality(At(InFlight)) = Length

(* The distance between the two ring pointers of simple_queue.c is the     *)
(* number of stored items, although the pointers wrap lazily and rest on   *)
(* abs_end: a pop reads the oldest item and a push never lands on an       *)
(* unread one.                                                             *)
RingConsistent ==
  /\ Stored <= Length
  /\ Fold(current_end) = Place(current_start, Stored + 1)

\* The abstract queue a state stands for.
Contents == [i \in 1..Stored |-> slots[Place(current_start, i)]]

Abstract == INSTANCE BoundedQueue WITH q <- Contents

(* simple_queue.c implements the bounded FIFO of BoundedQueue: items       *)
(* leave in the order they entered, once each.                             *)
ImplementsBoundedQueue == Abstract!Spec

(* As long as an item is in the queue some receive returns one, and as     *)
(* long as a blocking push waits some push completes: the counting         *)
(* semaphores of simple_queue.c never strand an item or a waiting task.    *)
NoStall == /\ []<>(Stored = 0) \/ []<><<\E t \in Popper : PopRead(t)>>_vars
           /\ \A t \in Pusher :
                []<>(pc[t] # "push_wait")
                  \/ []<><<\E u \in Thread : PushStore(u)>>_vars

(* What hal_queue.h says of hal_queue_override_to_back: the item is        *)
(* attached to the back of the queue, "per functionality of this function  *)
(* always".                                                                *)
OverrideArrives ==
  [][\A t \in Waker : OverStore(t) =>
        /\ Contents' # <<>>
        /\ Contents'[Len(Contents')] = item[t]]_vars
=============================================================================
