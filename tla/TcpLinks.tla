------------------------------ MODULE TcpLinks ------------------------------
(***************************************************************************)
(* The TCP convergence layers: who creates links, keeps them connected for *)
(* a contact, hands their queue to the contact manager and destroys them.  *)
(*                                                                         *)
(*   "tcpclv3"  cla_tcpclv3.c: one management task per connection, a table *)
(*              of primary connections by the EID of the neighbour         *)
(*   "mtcp"     cla_mtcp.c: the same with a table by address               *)
(*   "single"   cla_tcp_common.c for smtcp and tcpspp in passive mode: one *)
(*              connection at a time, served by the listener task          *)
(*                                                                         *)
(* Sections under param_htab_sem are one action each; the reads the code   *)
(* makes outside of it are actions of their own.                           *)
(***************************************************************************)
EXTENDS ClaLink

CONSTANTS Key,          \* EIDs (tcpclv3) or addresses (mtcp) of neighbours
          Kinds,        \* the convergence layers to look at
          PeerName(_),  \* the EIDs a peer may announce where a key is expected
          MaxTries,     \* CLA_TCP_MAX_RETRY_ATTEMPTS
          MaxStarts,    \* bound: contacts started per neighbour
          NULL

ASSUME TcpAssumption ==
  /\ Kinds \subseteq {"tcpclv3", "mtcp", "single"}
  /\ \A k \in Key : PeerName(k) \subseteq Key
  /\ MaxTries \in Nat /\ MaxStarts \in Nat
  /\ NULL \notin Key \cup Conn

VARIABLES
  kind,          \* the convergence layer, never changes
  conn,          \* struct tcpclv3_contact_parameters, mtcp_contact_parameters
  table,         \* param_htab, or config->link
  table_sem,     \* param_htab_sem: held by the contact manager?
  contact,       \* is a scheduled contact with the neighbour going on
  starts,
  pending,       \* contact->contact_bundles
  scheduled,     \* bundles the router put on a contact so far
  cm             \* contact manager: where it is, for whom, on which link

mgmtvars == <<conn, table, table_sem>>
cmvars == <<contact, starts, pending, scheduled, cm>>
vars == <<linkvars, kind, mgmtvars, cmvars>>

\* planned is !opportunistic or in_contact; state is TCPCLV3_STATE, and the
\* flag connected of mtcp as "connected".  pc is the management task.
Params == [mem : {"unborn", "live", "freed"},
           pc : {"none", "loop", "connect", "handshake", "establish", "link_init",
                 "wait", "down", "after", "remove"},
           state : {"connecting", "connected", "established"},
           planned : BOOLEAN, addr : BOOLEAN,
           name : Key \cup {NULL},
           tries : 0..MaxTries + 1]

NoEntry == [k \in Key |-> NULL]

Unborn == [mem |-> "unborn", pc |-> "none", state |-> "connecting",
           planned |-> FALSE, addr |-> FALSE, name |-> NULL, tries |-> 0]

\* Every variable has its type, and a TX queue never holds more commands than
\* cla_link_init made room for.
TypeOK == /\ conn \in [Conn -> Params]
          /\ link \in [Conn -> Link]
          /\ \A c \in Conn : Len(link[c].queue) <= TxQueueLength
          /\ sock \in [Conn -> {"none", "open", "broken"}]
          /\ table \in [Key -> Conn \cup {NULL}]
          /\ outcome \in [Bundle -> {"none", "success", "failure"}]
          /\ cm.pc \in {"idle", "take", "check", "stale", "push"}
          /\ fault \in {"none", "uninitialized", "freed", "not locked", "assert"}

Init == /\ LinkInit
        /\ kind \in Kinds
        /\ conn = [c \in Conn |-> Unborn]
        /\ table = NoEntry
        /\ table_sem = 1
        /\ contact = [k \in Key |-> FALSE]
        /\ starts = [k \in Key |-> 0]
        /\ pending = [k \in Key |-> <<>>]
        /\ scheduled = {}
        /\ cm = [pc |-> "idle", key |-> NULL, conn |-> NULL]

-----------------------------------------------------------------------------
(***************************************************************************)
(* Creation of connections                                                 *)
(***************************************************************************)
\* Hash tables of connections; htab_add does nothing for a key that exists.
htab_get(t, k) == t[k]
htab_add(t, k, c) == IF htab_get(t, k) = NULL THEN [t EXCEPT ![k] = c] ELSE t
htab_remove(t, k) == [t EXCEPT ![k] = NULL]

\* cla_tcp_accept_from_socket
Accepted(c) == conn[c].mem = "unborn" /\ sock' = [sock EXCEPT ![c] = "open"]

\* launch_connection_management_task of tcpclv3: for an incoming connection
\* (k = NULL) the neighbour is unknown before the handshake.
TcpclLaunch(k, c) ==
  /\ conn[c].mem = "unborn"
  /\ conn' = [conn EXCEPT ![c] =
                [mem |-> "live", pc |-> "loop",
                 state |-> IF k = NULL THEN "connected" ELSE "connecting",
                 planned |-> k # NULL, addr |-> k # NULL, name |-> k, tries |-> 0]]
  /\ table' = IF k = NULL THEN table ELSE htab_add(table, k, c)

\* The same of mtcp: for an address in the table it fails.
MtcpLaunch(k, c, incoming) ==
  /\ conn[c].mem = "unborn"
  /\ conn' = [conn EXCEPT ![c] =
                IF htab_get(table, k) # NULL THEN [Unborn EXCEPT !.mem = "freed"]
                ELSE [mem |-> "live", pc |-> "loop",
                      state |-> IF incoming THEN "connected" ELSE "connecting",
                      planned |-> ~incoming, addr |-> TRUE, name |-> k, tries |-> 0]]
  /\ table' = htab_add(table, k, c)

tcpclv3_listener_task(c) ==
  /\ kind = "tcpclv3" /\ Accepted(c) /\ TcpclLaunch(NULL, c)
  /\ UNCHANGED <<link, outcome, fault, kind, table_sem, cmvars>>

mtcp_listener_task(c, k) ==
  /\ kind = "mtcp" /\ table_sem = 1 /\ Accepted(c) /\ MtcpLaunch(k, c, TRUE)
  /\ UNCHANGED <<link, outcome, fault, kind, table_sem, cmvars>>

\* The listener is busy until the link is down; config->link is set before
\* the link is initialized.
cla_tcp_single_listen_task(c) ==
  /\ kind = "single" /\ Accepted(c)
  /\ \A d \in Conn : conn[d].mem # "live"
  /\ conn' = [conn EXCEPT ![c].mem = "live", ![c].pc = "link_init", ![c].state = "connected"]
  /\ fault' = IF table = NoEntry THEN fault ELSE "assert"
  /\ table' = [k \in Key |-> c]
  /\ UNCHANGED <<link, outcome, kind, table_sem, cmvars>>

-----------------------------------------------------------------------------
(***************************************************************************)
(* Management tasks                                                        *)
(***************************************************************************)
Goto(c, pc) == conn' = [conn EXCEPT ![c].pc = pc]

\* !(param->opportunistic || !param->cla_addr), read without the lock.
Keep(c) == conn[c].planned /\ conn[c].addr

\* The loop of tcpclv3_link_management_task.
TcpclLoop(c) ==
  /\ kind = "tcpclv3" /\ conn[c].pc = "loop"
  /\ fault' = IF \/ conn[c].state = "established"
                 \/ conn[c].state = "connected" /\ sock[c] = "none"
              THEN "assert" ELSE fault
  /\ \/ conn[c].state = "connecting" /\ Keep(c) /\ Goto(c, "connect")
     \/ conn[c].state = "connecting" /\ ~Keep(c) /\ Goto(c, "remove")
     \/ conn[c].state = "connected" /\ Goto(c, "handshake")
  /\ UNCHANGED <<link, sock, outcome, kind, table, table_sem, cmvars>>

\* The loop of mtcp_link_management_task, which ends at the bottom.
MtcpLoop(c) ==
  /\ kind = "mtcp" /\ conn[c].pc = "loop"
  /\ fault' = IF (conn[c].state = "connected") # (sock[c] # "none") THEN "assert" ELSE fault
  /\ Goto(c, IF conn[c].state = "connected" THEN "link_init" ELSE "connect")
  /\ UNCHANGED <<link, sock, outcome, kind, table, table_sem, cmvars>>

InContact(c) == IF kind = "tcpclv3" \/ conn[c].planned THEN "loop" ELSE "remove"

\* cla_tcp_connect_to_cla_addr returned no socket.
ConnectFails(c) ==
  /\ conn[c].pc = "connect"
  /\ conn' = [conn EXCEPT ![c].tries = @ + 1,
                          ![c].pc = IF conn[c].tries + 1 > MaxTries THEN "remove"
                                    ELSE InContact(c)]
  /\ UNCHANGED <<linkvars, kind, table, table_sem, cmvars>>

ConnectSucceeds(c) ==
  /\ conn[c].pc = "connect"
  /\ sock' = [sock EXCEPT ![c] = "open"]
  /\ conn' = [conn EXCEPT ![c].state = "connected", ![c].pc = InContact(c)]
  /\ UNCHANGED <<link, outcome, fault, kind, table, table_sem, cmvars>>

\* cla_tcpclv3_perform_handshake; the name the peer announces replaces the
\* name the contact was started with.
HandshakeFails(c) ==
  /\ conn[c].pc = "handshake"
  /\ Goto(c, "after")
  /\ UNCHANGED <<linkvars, kind, table, table_sem, cmvars>>

HandshakeSucceeds(c) ==
  /\ conn[c].pc = "handshake" /\ sock[c] = "open"
  /\ \E k \in Key :
       /\ conn[c].name = NULL \/ k \in PeerName(conn[c].name)
       /\ conn' = [conn EXCEPT ![c].name = k, ![c].pc = "establish"]
  /\ UNCHANGED <<linkvars, kind, table, table_sem, cmvars>>

\* Mutant: the planned status stays with the connection that is given up.
TakeOverWithoutPlan(p, c, other) == p

\* handle_established_connection takes the planned status, and the address
\* if it has none, from the connection it replaces ...
take_over(p, c, other) ==
  IF ~p[other].planned THEN p
  ELSE LET q == [p EXCEPT ![other].planned = FALSE]
           r == [q EXCEPT ![c].planned = TRUE]
       IN IF p[c].addr THEN r
          ELSE [r EXCEPT ![c].addr = p[other].addr, ![other].addr = FALSE]

\* ... or gives them to the established one it finds.
give_over(p, c, other) ==
  IF ~p[c].planned THEN p
  ELSE LET r == [p EXCEPT ![other].planned = TRUE, ![c].planned = FALSE]
       IN IF p[other].addr THEN r
          ELSE [r EXCEPT ![other].addr = p[c].addr, ![c].addr = FALSE]

\* A connection the table still points to after it was freed is a fault.
Dangling(c) == c # NULL /\ conn[c].mem = "freed"

\* The connection found in the table is replaced unless it is established
\* and active; active of a link that is not initialized has any value.
Replaced(other) == conn[other].state # "established" \/ ~link[other].active
Left(other) == /\ conn[other].state = "established"
               /\ link[other].active \/ conn[other].pc = "link_init"

Establish(c) ==
  /\ conn[c].pc = "establish" /\ table_sem = 1
  /\ LET k == conn[c].name
         other == table[k]
         established(p) == [p EXCEPT ![c].state = "established", ![c].pc = "link_init"]
     IN /\ fault' = IF Dangling(other) THEN "freed" ELSE fault
        /\ \/ /\ other = NULL
              /\ conn' = established(conn)
              /\ table' = htab_add(table, k, c)
           \/ /\ other # NULL /\ Replaced(other)
              /\ conn' = established(take_over(conn, c, other))
              /\ table' = htab_add(htab_remove(table, k), k, c)
           \/ /\ other # NULL /\ Left(other)
              /\ conn' = established(give_over(conn, c, other))
              /\ table' = htab_add(table, k, c)
  /\ UNCHANGED <<link, sock, outcome, kind, table_sem, cmvars>>

\* cla_tcp_link_init, and ROUTER_SIGNAL_NEW_LINK_ESTABLISHED.
LinkInitialized(c) ==
  /\ conn[c].pc = "link_init"
  /\ link' = cla_link_init(link, c)
  /\ Goto(c, "wait")
  /\ UNCHANGED <<sock, outcome, fault, kind, table, table_sem, cmvars>>

WaitCleanup(c) ==
  /\ conn[c].pc = "wait"
  /\ WaitTasks(c) \/ UnblockWaiters(c)
  /\ UNCHANGED <<sock, outcome, fault, kind, mgmtvars, cmvars>>

Cleanup(c) ==
  /\ conn[c].pc = "wait" /\ DeleteQueue(c)
  /\ Goto(c, "down")
  /\ cm' = IF cm.pc = "check" /\ cm.conn = c THEN [cm EXCEPT !.pc = "stale"] ELSE cm
  /\ UNCHANGED <<sock, outcome, fault, kind, table, table_sem,
                 contact, starts, pending, scheduled>>

\* The rest of handle_established_connection of tcpclv3.
TcpclDown(c) ==
  /\ kind = "tcpclv3" /\ conn[c].pc = "down"
  /\ conn' = [conn EXCEPT ![c].state = "connecting", ![c].pc = "after"]
  /\ UNCHANGED <<linkvars, kind, table, table_sem, cmvars>>

\* The end of the branch for TCPCLV3_CONNECTED.
After(c) ==
  /\ conn[c].pc = "after"
  /\ conn' = IF Keep(c)
             THEN [conn EXCEPT ![c].state = "connecting", ![c].tries = 0, ![c].pc = "loop"]
             ELSE [conn EXCEPT ![c].pc = "remove"]
  /\ sock' = [sock EXCEPT ![c] = "none"]
  /\ UNCHANGED <<link, outcome, fault, kind, table, table_sem, cmvars>>

\* Mutant: mtcp keeps the socket of the connection that is gone.
MtcpDownWithSocket(c) ==
  /\ kind = "mtcp" /\ conn[c].pc = "down"
  /\ conn' = [conn EXCEPT ![c].state = "connecting", ![c].tries = 0, ![c].pc = InContact(c)]
  /\ UNCHANGED <<linkvars, kind, table, table_sem, cmvars>>

\* mtcp: the connection is over.
MtcpDown(c) ==
  /\ kind = "mtcp" /\ conn[c].pc = "down"
  /\ conn' = [conn EXCEPT ![c].state = "connecting", ![c].tries = 0, ![c].pc = InContact(c)]
  /\ sock' = [sock EXCEPT ![c] = "none"]
  /\ UNCHANGED <<link, outcome, fault, kind, table, table_sem, cmvars>>

FreeParams(c) == /\ conn' = [conn EXCEPT ![c] = [Unborn EXCEPT !.mem = "freed"]]
                 /\ sock' = [sock EXCEPT ![c] = "none"]

\* The rest of cla_tcp_establish_socket_link.
SingleDown(c) ==
  /\ kind = "single" /\ conn[c].pc = "down"
  /\ table' = NoEntry
  /\ FreeParams(c)
  /\ UNCHANGED <<link, outcome, fault, kind, table_sem, cmvars>>

\* Mutant: a management task that ends leaves its entry behind.
LeaveEntry(c) ==
  /\ kind = "tcpclv3" /\ conn[c].pc = "remove" /\ table_sem = 1
  /\ FreeParams(c)
  /\ UNCHANGED <<link, outcome, fault, kind, table, table_sem, cmvars>>

\* The ends of the management tasks.  tcpclv3 removes the entry of the table
\* only if it is its own ...
TcpclRemove(c) ==
  /\ kind = "tcpclv3" /\ conn[c].pc = "remove" /\ table_sem = 1
  /\ LET k == conn[c].name
     IN table' = IF k # NULL /\ htab_get(table, k) = c THEN htab_remove(table, k) ELSE table
  /\ FreeParams(c)
  /\ UNCHANGED <<link, outcome, fault, kind, table_sem, cmvars>>

\* ... mtcp whatever it is.
MtcpRemove(c) ==
  /\ kind = "mtcp" /\ conn[c].pc = "remove" /\ table_sem = 1
  /\ table' = htab_remove(table, conn[c].name)
  /\ FreeParams(c)
  /\ UNCHANGED <<link, outcome, fault, kind, table_sem, cmvars>>

-----------------------------------------------------------------------------
(***************************************************************************)
(* The contact manager                                                     *)
(***************************************************************************)
Associate(c) == conn' = [conn EXCEPT ![c].planned = TRUE, ![c].addr = TRUE] /\ UNCHANGED table

tcpclv3_start_scheduled_contact(k) ==
  /\ kind = "tcpclv3" /\ table_sem = 1
  /\ IF htab_get(table, k) # NULL THEN Associate(htab_get(table, k))
     ELSE \E c \in Conn : TcpclLaunch(k, c)

mtcp_start_scheduled_contact(k) ==
  /\ kind = "mtcp" /\ table_sem = 1
  /\ IF htab_get(table, k) # NULL THEN Associate(htab_get(table, k))
     ELSE \E c \in Conn : MtcpLaunch(k, c, FALSE)

cla_tcp_single_start_scheduled_contact == kind = "single" /\ UNCHANGED <<conn, table>>

StartContact(k) ==
  /\ cm.pc = "idle" /\ ~contact[k] /\ starts[k] < MaxStarts
  /\ contact' = [contact EXCEPT ![k] = TRUE]
  /\ starts' = [starts EXCEPT ![k] = @ + 1]
  /\ fault' = IF Dangling(table[k]) THEN "freed" ELSE fault
  /\ \/ tcpclv3_start_scheduled_contact(k)
     \/ mtcp_start_scheduled_contact(k)
     \/ cla_tcp_single_start_scheduled_contact
  /\ UNCHANGED <<link, sock, outcome, kind, table_sem, pending, scheduled, cm>>

\* The connection is left open.
NotPlanned(k) == conn' = IF htab_get(table, k) = NULL THEN conn
                         ELSE [conn EXCEPT ![htab_get(table, k)].planned = FALSE]

tcpclv3_end_scheduled_contact(k) == kind = "tcpclv3" /\ table_sem = 1 /\ NotPlanned(k)
mtcp_end_scheduled_contact(k) == kind = "mtcp" /\ table_sem = 1 /\ NotPlanned(k)
cla_tcp_single_end_scheduled_contact == kind = "single" /\ UNCHANGED conn

EndContact(k) ==
  /\ cm.pc = "idle" /\ contact[k]
  /\ contact' = [contact EXCEPT ![k] = FALSE]
  /\ fault' = IF Dangling(table[k]) THEN "freed" ELSE fault
  /\ \/ tcpclv3_end_scheduled_contact(k)
     \/ mtcp_end_scheduled_contact(k)
     \/ cla_tcp_single_end_scheduled_contact
  /\ UNCHANGED <<link, sock, outcome, kind, table, table_sem, starts, pending, scheduled, cm>>

\* The router schedules a bundle for the contact.
Schedule(b, k) ==
  /\ contact[k] /\ b \notin scheduled
  /\ scheduled' = scheduled \cup {b}
  /\ pending' = [pending EXCEPT ![k] = Append(@, b)]
  /\ UNCHANGED <<linkvars, kind, mgmtvars, contact, starts, cm>>

\* cla_get_tx_queue: the link has to be up; the table stays locked, there is
\* no lock for config->link.
tcpclv3_get_tx_queue(c) == /\ kind = "tcpclv3" /\ table_sem = 1
                           /\ conn[c].state = "established"
                           /\ table_sem' = 0

mtcp_get_tx_queue(c) == /\ kind = "mtcp" /\ table_sem = 1
                        /\ conn[c].state = "connected"
                        /\ table_sem' = 0

cla_tcp_single_get_tx_queue == kind = "single" /\ UNCHANGED table_sem

\* hand_over_contact_bundles asks for the queue.
Lookup(k) ==
  /\ cm.pc = "idle" /\ contact[k] /\ pending[k] # <<>> /\ table[k] # NULL
  /\ \/ tcpclv3_get_tx_queue(table[k])
     \/ mtcp_get_tx_queue(table[k])
     \/ cla_tcp_single_get_tx_queue
  /\ fault' = IF Dangling(table[k]) THEN "freed" ELSE fault
  /\ cm' = [pc |-> "take", key |-> k, conn |-> table[k]]
  /\ UNCHANGED <<link, sock, outcome, kind, conn, table, contact, starts, pending, scheduled>>

\* hal_semaphore_take_blocking(tx_queue_sem) of a link that may not exist
\* yet or any more.
TakeQueue ==
  /\ cm.pc = "take"
  /\ link[cm.conn].exists => link[cm.conn].sem > 0
  /\ fault' = IF Dangling(cm.conn) THEN "freed"
              ELSE IF ~link[cm.conn].exists THEN "uninitialized" ELSE fault
  /\ link' = IF link[cm.conn].exists THEN [link EXCEPT ![cm.conn].sem = @ - 1] ELSE link
  /\ cm' = [cm EXCEPT !.pc = "check"]
  /\ table_sem' = 1
  /\ UNCHANGED <<sock, outcome, kind, conn, table, contact, starts, pending, scheduled>>

Idle == [pc |-> "idle", key |-> NULL, conn |-> NULL]

\* "Freed while trying to obtain it": by now the parameters may be gone, or
\* the link initialized anew, with a queue that is not locked.
CheckQueue ==
  /\ cm.pc \in {"check", "stale"}
  /\ fault' = IF Dangling(cm.conn) THEN "freed"
              ELSE IF cm.pc = "stale" /\ link[cm.conn].handle THEN "not locked"
              ELSE fault
  /\ cm' = IF link[cm.conn].handle THEN [cm EXCEPT !.pc = "push"] ELSE Idle
  /\ UNCHANGED <<link, sock, outcome, kind, mgmtvars, contact, starts, pending, scheduled>>

\* Mutant: the command is put into the queue without waiting for room.
PushWithoutRoom ==
  /\ cm.pc = "push"
  /\ link' = [link EXCEPT ![cm.conn].queue = Append(@, pending[cm.key]),
                          ![cm.conn].sem = @ + 1]
  /\ pending' = [pending EXCEPT ![cm.key] = <<>>]
  /\ cm' = Idle
  /\ UNCHANGED <<sock, outcome, fault, kind, mgmtvars, contact, starts, scheduled>>

\* The bundles leave the contact, wait for room and release the queue.
PushBundles ==
  /\ cm.pc = "push" /\ Room(cm.conn)
  /\ link' = [link EXCEPT ![cm.conn].queue = Append(@, pending[cm.key]),
                          ![cm.conn].sem = @ + 1]
  /\ pending' = [pending EXCEPT ![cm.key] = <<>>]
  /\ cm' = Idle
  /\ UNCHANGED <<sock, outcome, fault, kind, mgmtvars, contact, starts, scheduled>>

-----------------------------------------------------------------------------
(***************************************************************************)
(* Composition                                                             *)
(***************************************************************************)
\* cla_tcp_single_disconnect_handler also forgets the link.
Forget(c) == table' = IF kind = "single" THEN NoEntry ELSE table

RxTask(c) ==
  \/ (RxLoop(c) \/ RxData(c) \/ RxBroken(c)) /\ UNCHANGED <<kind, mgmtvars, cmvars>>
  \/ RxRequestExit(c) /\ Forget(c) /\ UNCHANGED <<kind, conn, table_sem, cmvars>>

TxTask(c) ==
  \/ /\ \/ TxLoop(c) \/ TxReceive(c) \/ TxBegin(c) \/ TxSend(c) \/ TxLock(c) \/ TxDrain(c)
     /\ UNCHANGED <<kind, mgmtvars, cmvars>>
  \/ TxRequestExit(c) /\ Forget(c) /\ UNCHANGED <<kind, conn, table_sem, cmvars>>

Peer(c) == PeerBreaks(c) /\ UNCHANGED <<kind, mgmtvars, cmvars>>

Accept(c) == \/ tcpclv3_listener_task(c)
             \/ \E k \in Key : mtcp_listener_task(c, k)
             \/ cla_tcp_single_listen_task(c)

Manage(c) == \/ TcpclLoop(c) \/ MtcpLoop(c) \/ ConnectFails(c) \/ ConnectSucceeds(c)
             \/ HandshakeFails(c) \/ HandshakeSucceeds(c) \/ Establish(c)
             \/ LinkInitialized(c) \/ WaitCleanup(c) \/ Cleanup(c)
             \/ TcpclDown(c) \/ After(c) \/ MtcpDown(c) \/ SingleDown(c)
             \/ TcpclRemove(c) \/ MtcpRemove(c)

HandOver == (\E k \in Key : Lookup(k)) \/ TakeQueue \/ CheckQueue \/ PushBundles

Next == /\ fault = "none"
        /\ \/ \E c \in Conn : Accept(c) \/ Peer(c) \/ Manage(c) \/ RxTask(c) \/ TxTask(c)
           \/ \E k \in Key : StartContact(k) \/ EndContact(k)
           \/ \E b \in Bundle, k \in Key : Schedule(b, k)
           \/ HandOver

Spec == Init /\ [][Next]_vars

\* Every task is scheduled; a task that waits for room or for a semaphore
\* waits without a timeout.
FairSpec == /\ Spec
            /\ \A c \in Conn : /\ WF_vars(fault = "none" /\ RxTask(c))
                               /\ WF_vars(fault = "none" /\ TxTask(c))
                               /\ WF_vars(fault = "none" /\ Manage(c))
            /\ WF_vars(fault = "none" /\ HandOver)

-----------------------------------------------------------------------------
(***************************************************************************)
(* Properties                                                              *)
(***************************************************************************)
\* No ASSERT of the CLA code fails: the disconnect handlers find a queue to
\* push to (cla_contact_tx_task_request_exit), a management task that goes
\* around its loop has a socket exactly when it believes to be connected and
\* never believes to be established, and a single-connection CLA has no link
\* when it accepts the next one.  A TX task of tcpclv3 only sends while the
\* connection is established (tcpclv3_begin_packet, tcpclv3_send_packet_data).
AssertsHold ==
  /\ fault # "assert"
  /\ \A c \in Conn : kind = "tcpclv3" /\ link[c].tx \in {"send", "sending", "request_exit"}
                      => conn[c].state = "established"

\* What the next two properties need: every peer announces the EID it is
\* configured with.  cla_tcpclv3.c lets the name of the handshake replace the
\* one the contact was started with.
SameNames == \A k \in Key : PeerName(k) \subseteq {k}

\* The tables hand out memory that is still allocated: whichever connection
\* ends, in which state and after whatever takeover, it is not found by
\* htab_get or through config->link once its management task freed it.
TableIsLive == \A k \in Key : ~Dangling(table[k])

\* A connection that belongs to a planned contact is the one the table hands
\* out.  Only the connection in the table is told of the end of the contact,
\* so any other one would reconnect for ever; takeovers, incoming
\* connections and removals have to keep the two in step.
PlannedIsPrimary ==
  \A c \in Conn : conn[c].mem = "live" /\ conn[c].planned
                   => conn[c].name # NULL /\ table[conn[c].name] = c

\* Where a bundle the router gave to a contact is.
Places(b) ==
  [where : {"pending"}, of : {k \in Key : b \in ToSet(pending[k])}]
  \cup [where : {"batch"}, of : {c \in Conn : b \in ToSet(link[c].batch)}]
  \cup [where : {"queue"}, of : {c \in Conn : \E i \in DOMAIN link[c].queue :
                                               b \in ToSet(link[c].queue[i])}]
  \cup [where : {"reported"}, of : {outcome[b]} \ {"none"}]

\* A scheduled bundle is at one place at any time: with its contact, in the
\* queue of one link, in the hands of one TX task, or reported back to the
\* router with one result.  The queue of a link is deleted while the contact
\* manager may want to push to it, and no bundle goes down with it.
NoBundleStranded == \A b \in scheduled : \E p \in Places(b) : Places(b) = {p}

\* What cla_generic_disconnect_handler says of itself: its caller sets the
\* link inactive and asks the TX task to exit, "the termination of the tasks
\* means cla_link_wait_cleanup returns".  It does not hold: with a full
\* queue, the contact manager that waits for room in it owns the semaphore
\* the TX task wants before it empties the queue, and a TX task whose own
\* send fails waits for room in the queue only it empties.
DisconnectCompletes ==
  \A c \in Conn : link[c].exists /\ ~link[c].active ~> ~link[c].exists \/ fault # "none"
=============================================================================
