------------------------------ MODULE ClaLink -------------------------------
(***************************************************************************)
(* A link of a convergence layer (struct cla_link, cla.c) and the two      *)
(* tasks it owns: the RX task (cla_contact_rx_task.c) that reads from the  *)
(* socket, and the TX task (cla_contact_tx_task.c) that sends the bundles  *)
(* the contact manager put into the link's queue.  What the RX task reads  *)
(* is the subject of RxStream; who creates and destroys links, and who     *)
(* finds them, of TcpLinks.                                                *)
(***************************************************************************)
EXTENDS Naturals, Sequences, SequencesExt

CONSTANTS Conn,           \* memory of links, each allocated at most once
          Bundle,
          TxQueueLength   \* CONTACT_TX_TASK_QUEUE_LENGTH

ASSUME LinkAssumption == TxQueueLength \in Nat \ {0}

VARIABLES
  link,      \* the links
  sock,      \* connection_socket: "none", "open", or "broken" by the peer
  outcome,   \* what the TX tasks reported of each bundle to the router
  fault      \* an access to invalid memory or a failed ASSERT, ends the run

linkvars == <<link, sock, outcome, fault>>

\* rx and tx are the program counters of the tasks; a task at "done" has
\* released the semaphore cla_link_wait_cleanup waits for.  A command in
\* the queue is the list of its bundles, FINALIZE is the empty one.  sem is
\* tx_queue_sem, which exists like the queue from the initialization of the
\* link to its cleanup; handle tells whether tx_queue_handle is set.
FINALIZE == <<>>

Link == [active : BOOLEAN,
         rx : {"off", "loop", "read", "request_exit", "done"},
         tx : {"off", "loop", "receive", "send", "sending", "request_exit", "lock", "drain", "done"},
         batch : Seq(Bundle),
         queue : Seq(Seq(Bundle)),
         handle : BOOLEAN,
         exists : BOOLEAN,
         sem : 0..2]

NoLink == [active |-> FALSE, rx |-> "off", tx |-> "off", batch |-> <<>>,
           queue |-> <<>>, handle |-> FALSE, exists |-> FALSE, sem |-> 0]

LinkInit == /\ link = [c \in Conn |-> NoLink]
            /\ sock = [c \in Conn |-> "none"]
            /\ outcome = [b \in Bundle |-> "none"]
            /\ fault = "none"

-----------------------------------------------------------------------------
\* cla_link_init: semaphores and queue are created, then the tasks start.
cla_link_init(l, c) ==
  [l EXCEPT ![c] = [active |-> TRUE, rx |-> "loop", tx |-> "loop", batch |-> <<>>,
                    queue |-> <<>>, handle |-> TRUE, exists |-> TRUE,
                    sem |-> 1]]

Room(c) == Len(link[c].queue) < TxQueueLength

(***************************************************************************)
(* RX task                                                                 *)
(***************************************************************************)
RxLoop(c) ==
  /\ link[c].rx = "loop"
  /\ link' = [link EXCEPT ![c].rx = IF link[c].active THEN "read" ELSE "done"]
  /\ UNCHANGED <<sock, outcome, fault>>

\* cla_tcp_read returned data, see RxStream.
RxData(c) ==
  /\ link[c].rx = "read" /\ sock[c] = "open"
  /\ link' = [link EXCEPT ![c].rx = "loop"]
  /\ UNCHANGED <<sock, outcome, fault>>

\* recv failed or returned 0: cla_generic_disconnect_handler.
RxBroken(c) ==
  /\ link[c].rx = "read" /\ sock[c] = "broken"
  /\ link' = [link EXCEPT ![c].active = FALSE, ![c].rx = "request_exit"]
  /\ fault' = IF link[c].handle THEN fault ELSE "assert"
  /\ UNCHANGED <<sock, outcome>>

\* cla_contact_tx_task_request_exit waits for room in the queue.
RxRequestExit(c) ==
  /\ link[c].rx = "request_exit" /\ Room(c)
  /\ link' = [link EXCEPT ![c].queue = Append(@, FINALIZE), ![c].rx = "loop"]
  /\ UNCHANGED <<sock, outcome, fault>>

(***************************************************************************)
(* TX task                                                                 *)
(***************************************************************************)
TxLoop(c) ==
  /\ link[c].tx = "loop"
  /\ link' = [link EXCEPT ![c].tx = IF link[c].active THEN "receive" ELSE "lock"]
  /\ UNCHANGED <<sock, outcome, fault>>

TxReceive(c) ==
  /\ link[c].tx = "receive" /\ link[c].queue # <<>>
  /\ LET cmd == Head(link[c].queue)
     IN link' = [link EXCEPT ![c].queue = Tail(@), ![c].batch = cmd,
                             ![c].tx = IF cmd = FINALIZE THEN "lock" ELSE "send"]
  /\ UNCHANGED <<sock, outcome, fault>>

\* report_bundle, and on to the next bundle of the command.  A bundle counts
\* as transmitted when it was serialized, whatever became of the bytes.
Report(c, result) ==
  /\ link' = [link EXCEPT ![c].batch = Tail(@),
                          ![c].tx = IF Len(link[c].batch) = 1 THEN "loop" ELSE "send"]
  /\ outcome' = [outcome EXCEPT ![Head(link[c].batch)] = result]

\* A bundle that left the storage is reported as failed.  A packet that is
\* begun on an inactive link is dropped without a word.
TxBegin(c) ==
  /\ link[c].tx = "send"
  /\ \/ Report(c, "failure")
     \/ ~link[c].active /\ Report(c, "success")
     \/ /\ link[c].active
        /\ link' = [link EXCEPT ![c].tx = "sending"]
        /\ UNCHANGED outcome
  /\ UNCHANGED <<sock, fault>>

\* tcp_send_all returned -1.
SendFails(c) == sock[c] = "broken"

TxSend(c) ==
  /\ link[c].tx = "sending"
  /\ \/ Report(c, "success") /\ UNCHANGED fault
     \/ /\ SendFails(c)
        /\ link' = [link EXCEPT ![c].active = FALSE, ![c].tx = "request_exit"]
        /\ fault' = IF link[c].handle THEN fault ELSE "assert"
        /\ UNCHANGED outcome
  /\ UNCHANGED sock

\* The send functions call the disconnect handler in the TX task itself.
TxRequestExit(c) ==
  /\ link[c].tx = "request_exit" /\ Room(c)
  /\ link' = [link EXCEPT ![c].queue = Append(@, FINALIZE), ![c].tx = "send"]
  /\ UNCHANGED <<sock, outcome, fault>>

\* Mutant: the queue is emptied without locking it.
DrainUnlocked(c) ==
  /\ link[c].tx = "lock"
  /\ link' = [link EXCEPT ![c].tx = "drain"]
  /\ UNCHANGED <<sock, outcome, fault>>

TxLock(c) ==
  /\ link[c].tx = "lock" /\ link[c].sem > 0
  /\ link' = [link EXCEPT ![c].sem = @ - 1, ![c].tx = "drain"]
  /\ UNCHANGED <<sock, outcome, fault>>

\* The rest of the queue is reported as failed, command by command.
TxDrain(c) ==
  /\ link[c].tx = "drain"
  /\ IF link[c].queue = <<>>
     THEN link' = [link EXCEPT ![c].tx = "done"] /\ UNCHANGED outcome
     ELSE /\ link' = [link EXCEPT ![c].queue = Tail(@)]
          /\ outcome' = [b \in Bundle |-> IF b \in ToSet(Head(link[c].queue))
                                          THEN "failure" ELSE outcome[b]]
  /\ UNCHANGED <<sock, fault>>

(***************************************************************************)
(* cla_link_wait_cleanup, in the task that manages the link                *)
(***************************************************************************)
\* Both tasks have ended; the queue is invalidated for those who wait for it.
WaitTasks(c) ==
  /\ link[c].rx = "done" /\ link[c].tx = "done" /\ link[c].handle
  /\ link' = [link EXCEPT ![c].handle = FALSE]

\* while (hal_semaphore_try_take(...) != UPCN_OK) hal_semaphore_release(...)
UnblockWaiters(c) ==
  /\ link[c].rx = "done" /\ ~link[c].handle /\ link[c].sem = 0
  /\ link' = [link EXCEPT ![c].sem = 1]

DeleteQueue(c) ==
  /\ link[c].rx = "done" /\ ~link[c].handle /\ link[c].sem > 0
  /\ link' = [link EXCEPT ![c] = NoLink]

\* The peer closes the connection, or the network does.
PeerBreaks(c) ==
  /\ sock[c] = "open"
  /\ sock' = [sock EXCEPT ![c] = "broken"]
  /\ UNCHANGED <<link, outcome, fault>>
=============================================================================
