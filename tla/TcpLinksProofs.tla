--------------------------- MODULE TcpLinksProofs ---------------------------
(***************************************************************************)
(* What TLC checks of TcpLinks for two connections and two bundles, proved *)
(* for any number of neighbours, connections, bundles and retries and any  *)
(* length of the TX queues.                                                *)
(*                                                                         *)
(* Safe is the inductive invariant.  It ties together what the code keeps  *)
(* in different tasks and never compares: where a management task is, what *)
(* it believes of its connection and of its socket (MgmtOK); whether the   *)
(* link exists and where its two tasks are (LinkOK); who owns the          *)
(* semaphore of the TX queue (SemOK) and what the contact manager may      *)
(* assume while it owns it (CmOK).  TypeOK and AssertsHold follow.         *)
(*                                                                         *)
(* Named adds what holds of the tables of connections if every peer        *)
(* announces the name it is configured with (SameNames); TableIsLive and   *)
(* PlannedIsPrimary follow.  Kept, at the end, is about the bundles;       *)
(* NoBundleStranded follows.                                               *)
(***************************************************************************)
EXTENDS TcpLinks, Integers, SequenceTheorems, TLAPS

\* What TypeOK leaves out: the variables the contact manager keeps.
MoreTypes == /\ kind \in Kinds
             /\ table_sem \in {0, 1}
             /\ contact \in [Key -> BOOLEAN]
             /\ starts \in [Key -> Nat]
             /\ pending \in [Key -> Seq(Bundle)]
             /\ scheduled \in SUBSET Bundle
             /\ cm \in [pc : {"idle", "take", "check", "stale", "push"},
                        key : Key \cup {NULL}, conn : Conn \cup {NULL}]
             /\ cm.pc # "idle" => cm.key \in Key /\ cm.conn \in Conn

\* What the management tasks believe, for parameters p and socket s.
TcpclOK(p, s) ==
  /\ p.pc = "loop" => /\ p.state # "established"
                      /\ p.state = "connected" => s # "none"
  /\ p.pc = "connect" => p.state = "connecting"
  /\ p.pc \in {"handshake", "establish"} => p.state = "connected"
  /\ p.pc \in {"link_init", "wait", "down"} => p.state = "established"
  /\ p.pc = "establish" => p.name # NULL

MtcpOK(p, s) ==
  /\ p.pc \in {"none", "loop", "connect", "link_init", "wait", "down", "remove"}
  /\ p.mem = "live" => p.name # NULL /\ (p.state = "connected" <=> s # "none")

SingleOK(p) == p.pc \in {"none", "link_init", "wait", "down"} /\ ~p.planned

ParamsOK(p, s) == /\ (p.mem = "live") <=> (p.pc # "none")
                  /\ p.mem = "unborn" => s = "none"
                  /\ p.pc # "remove" => p.tries <= MaxTries
                  /\ kind = "tcpclv3" => TcpclOK(p, s)
                  /\ kind = "mtcp" => MtcpOK(p, s)
                  /\ kind = "single" => SingleOK(p)

MgmtOK == \A c \in Conn : ParamsOK(conn[c], sock[c])

Sending == {"send", "sending", "request_exit"}

\* A link exists exactly while its management task waits for its cleanup; the
\* queue handle is taken away only after both tasks have ended; a TX task has
\* bundles in its hands exactly while it sends; it ends with an empty queue,
\* into which only the RX task may still put a FINALIZE.
LinkFine(l, pc) ==
  /\ (pc = "wait") <=> l.exists
  /\ ~l.exists => l = NoLink
  /\ l.exists => l.rx # "off" /\ l.tx # "off"
  /\ l.exists /\ ~l.handle => l.rx = "done" /\ l.tx = "done"
  /\ (l.tx \in Sending) <=> (l.batch # <<>>)
  /\ l.tx = "done" => \A i \in DOMAIN l.queue : l.queue[i] = <<>>

LinkOK == \A c \in Conn : LinkFine(link[c], conn[c].pc)

\* tx_queue_sem is a mutex between the contact manager and the TX task, as
\* long as the queue has a handle.
CmHolds(c) == cm.pc \in {"check", "push"} /\ cm.conn = c
TxHolds(l) == l.tx \in {"drain", "done"}

SemFine(l, c) == l.handle => /\ l.sem \in {0, 1}
                             /\ (l.sem = 0) <=> (CmHolds(c) \/ TxHolds(l))
                             /\ ~(CmHolds(c) /\ TxHolds(l))

SemOK == fault = "none" => \A c \in Conn : SemFine(link[c], c)

CmOK == fault = "none" => /\ cm.pc = "check" => link[cm.conn].exists
                          /\ cm.pc = "push" => link[cm.conn].handle

\* config->link of a single-connection CLA points to the connection served.
SingleTable == kind = "single" => \A k \in Key : table[k] # NULL => conn[table[k]].mem = "live"

Safe == /\ TypeOK /\ MoreTypes /\ MgmtOK /\ LinkOK /\ SemOK /\ CmOK /\ SingleTable
        /\ fault # "assert"

\* What a link l that takes the place of link[c] has to satisfy.
Fits(l, c) == /\ l \in Link
              /\ Len(l.queue) <= TxQueueLength
              /\ LinkFine(l, conn[c].pc)
              /\ SemFine(l, c)
              /\ cm.pc = "check" /\ cm.conn = c => l.exists
              /\ cm.pc = "push" /\ cm.conn = c => l.handle

-----------------------------------------------------------------------------
\* No connection exists at the start.
LEMMA InitSafe == Init => Safe
<1> SUFFICES ASSUME Init PROVE Safe OBVIOUS
<1> USE LinkAssumption, TcpAssumption
<1>1. NoLink \in Link BY DEF Link, NoLink
<1>2. Unborn \in Params BY DEF Params, Unborn
<1>3. TypeOK BY <1>1, <1>2 DEF Init, LinkInit, TypeOK, NoEntry, NoLink
<1>4. MoreTypes BY DEF Init, MoreTypes
<1>5. MgmtOK BY DEF Init, LinkInit, MgmtOK, ParamsOK, TcpclOK, MtcpOK, SingleOK, Unborn
<1>6. LinkOK BY DEF Init, LinkInit, LinkOK, LinkFine, NoLink, Unborn, Sending
<1>7. SemOK /\ CmOK BY DEF Init, LinkInit, SemOK, SemFine, CmOK, NoLink
<1>8. SingleTable BY DEF Init, SingleTable, NoEntry
<1> QED BY <1>3, <1>4, <1>5, <1>6, <1>7, <1>8 DEF Safe, Init, LinkInit

\* A step that changes nothing keeps the invariant.
LEMMA StutterSafe == Safe /\ UNCHANGED vars => Safe'
<1> USE DEF vars, linkvars, mgmtvars, cmvars
<1> SUFFICES ASSUME Safe, UNCHANGED vars PROVE Safe' OBVIOUS
<1>1. TypeOK' BY DEF Safe, TypeOK
<1>2. MoreTypes' BY DEF Safe, MoreTypes
<1>3. MgmtOK' BY DEF Safe, MgmtOK, ParamsOK, TcpclOK, MtcpOK, SingleOK
<1>4. LinkOK' BY DEF Safe, LinkOK, LinkFine
<1>5. SemOK' /\ CmOK' BY DEF Safe, SemOK, SemFine, CmHolds, CmOK
<1>6. SingleTable' BY DEF Safe, SingleTable
<1> QED BY <1>1, <1>2, <1>3, <1>4, <1>5, <1>6 DEF Safe

\* A step of one task of a link: it is enough that the new link fits.
LEMMA LinkStep ==
  ASSUME Safe, fault' = fault, NEW c \in Conn, NEW l, Fits(l, c),
         link' = [link EXCEPT ![c] = l],
         outcome' \in [Bundle -> {"none", "success", "failure"}],
         table' = table \/ (kind = "single" /\ table' = NoEntry),
         UNCHANGED <<sock, kind, conn, table_sem, cmvars>>
  PROVE  Safe'
<1> USE DEF cmvars
<1>1. link \in [Conn -> Link] /\ l \in Link BY DEF Safe, TypeOK, Fits
<1>2. /\ link' \in [Conn -> Link] /\ link'[c] = l
      /\ \A d \in Conn : d # c => link'[d] = link[d]
  BY <1>1
<1>3. table' \in [Key -> Conn \cup {NULL}] BY DEF Safe, TypeOK, NoEntry
<1>4. TypeOK' BY <1>2, <1>3 DEF Safe, TypeOK, Fits
<1>5. MoreTypes' BY DEF Safe, MoreTypes
<1>6. MgmtOK' BY DEF Safe, MgmtOK, ParamsOK, TcpclOK, MtcpOK, SingleOK
<1>7. LinkOK' BY <1>2 DEF Fits, Safe, LinkOK, LinkFine
<1>8. SemOK' BY <1>2 DEF Fits, Safe, SemOK, SemFine, CmHolds, TxHolds
<1>9. CmOK'
  <2>1. cm.pc # "idle" => cm.conn \in Conn BY DEF Safe, MoreTypes
  <2> QED BY <1>2, <2>1 DEF Fits, Safe, CmOK
<1>10. SingleTable' BY DEF Safe, SingleTable, NoEntry
<1> QED BY <1>4, <1>5, <1>6, <1>7, <1>8, <1>9, <1>10 DEF Safe

\* A step of the management tasks or the contact manager that leaves the
\* links alone: it is enough that every connection is as it should be, and
\* that none begins or ends to wait for its link.
LEMMA ConnStep ==
  ASSUME Safe,
         conn' \in [Conn -> Params],
         sock' \in [Conn -> {"none", "open", "broken"}],
         table' \in [Key -> Conn \cup {NULL}],
         table_sem' \in {0, 1},
         fault' \in {"none", "freed"} \/ fault' = fault,
         \A d \in Conn : /\ ParamsOK(conn'[d], sock'[d])
                         /\ (conn'[d].pc = "wait") <=> (conn[d].pc = "wait"),
         kind = "single" => \A k \in Key : table'[k] # NULL => conn'[table'[k]].mem = "live",
         UNCHANGED <<link, outcome, kind, pending, scheduled, cm>>,
         contact' \in [Key -> BOOLEAN],
         starts' \in [Key -> Nat],
         fault = "none"
  PROVE  Safe'
<1>1. TypeOK' BY DEF Safe, TypeOK
<1>2. MoreTypes' BY DEF Safe, MoreTypes
<1>3. MgmtOK' BY DEF MgmtOK, ParamsOK, TcpclOK, MtcpOK, SingleOK
<1>4. LinkOK' BY DEF Safe, LinkOK, LinkFine
<1>5. SemOK' BY DEF Safe, SemOK, SemFine, CmHolds, TxHolds
<1>6. CmOK' BY DEF Safe, CmOK
<1>7. SingleTable' BY DEF SingleTable
<1> QED BY <1>1, <1>2, <1>3, <1>4, <1>5, <1>6, <1>7 DEF Safe

\* The invariant, as the steps of one link need it.
LEMMA LinkFacts ==
  ASSUME Safe, fault = "none", NEW c \in Conn
  PROVE  /\ link \in [Conn -> Link] /\ Fits(link[c], c)
         /\ outcome \in [Bundle -> {"none", "success", "failure"}]
BY DEF Safe, TypeOK, LinkOK, SemOK, CmOK, Fits

\* The RX task goes around its loop.
LEMMA RxLoopSafe ==
  ASSUME Safe, fault = "none", NEW c \in Conn, RxLoop(c),
         UNCHANGED <<kind, mgmtvars, cmvars>>
  PROVE  Safe'
<1> DEFINE l == [link[c] EXCEPT !.rx = IF link[c].active THEN "read" ELSE "done"]
<1>1. link \in [Conn -> Link] /\ link[c] \in Link /\ Fits(link[c], c) BY LinkFacts
<1>2. link' = [link EXCEPT ![c] = l] BY <1>1 DEF RxLoop, Fits
<1>3. l \in Link BY <1>1 DEF Link
<1>4. Len(l.queue) <= TxQueueLength BY <1>1, LinkAssumption DEF RxLoop, Fits, Link
<1>5. LinkFine(l, conn[c].pc)
  BY <1>1 DEF RxLoop, Fits, Link, LinkFine, NoLink
<1>6. SemFine(l, c) BY <1>1 DEF RxLoop, Fits, Link, SemFine, TxHolds
<1>7. l.exists = link[c].exists /\ l.handle = link[c].handle BY <1>1 DEF Fits, Link
<1>8. Fits(l, c) BY <1>1, <1>3, <1>4, <1>5, <1>6, <1>7 DEF Fits
<1> HIDE DEF l
<1> QED BY <1>2, <1>8, LinkFacts, LinkStep DEF RxLoop, mgmtvars

\* The RX task got data.
LEMMA RxDataSafe ==
  ASSUME Safe, fault = "none", NEW c \in Conn, RxData(c),
         UNCHANGED <<kind, mgmtvars, cmvars>>
  PROVE  Safe'
<1> DEFINE l == [link[c] EXCEPT !.rx = "loop"]
<1>1. link \in [Conn -> Link] /\ link[c] \in Link /\ Fits(link[c], c) BY LinkFacts
<1>2. link' = [link EXCEPT ![c] = l] BY <1>1 DEF RxData, Fits
<1>3. l \in Link BY <1>1 DEF Link
<1>4. Len(l.queue) <= TxQueueLength BY <1>1, LinkAssumption DEF RxData, Fits, Link
<1>5. LinkFine(l, conn[c].pc)
  BY <1>1 DEF RxData, Fits, Link, LinkFine, NoLink
<1>6. SemFine(l, c) BY <1>1 DEF RxData, Fits, Link, SemFine, TxHolds
<1>7. l.exists = link[c].exists /\ l.handle = link[c].handle BY <1>1 DEF Fits, Link
<1>8. Fits(l, c) BY <1>1, <1>3, <1>4, <1>5, <1>6, <1>7 DEF Fits
<1> HIDE DEF l
<1> QED BY <1>2, <1>8, LinkFacts, LinkStep DEF RxData, mgmtvars

\* The RX task finds the connection broken: the queue has a handle for as
\* long as the task runs, so the ASSERT of the disconnect handler holds.
LEMMA RxBrokenSafe ==
  ASSUME Safe, fault = "none", NEW c \in Conn, RxBroken(c),
         UNCHANGED <<kind, mgmtvars, cmvars>>
  PROVE  Safe'
<1> DEFINE l == [link[c] EXCEPT !.active = FALSE, !.rx = "request_exit"]
<1>1. link \in [Conn -> Link] /\ link[c] \in Link /\ Fits(link[c], c) BY LinkFacts
<1>2. link' = [link EXCEPT ![c] = l] BY <1>1 DEF RxBroken, Fits
<1>3. l \in Link BY <1>1 DEF Link
<1>4. Len(l.queue) <= TxQueueLength BY <1>1, LinkAssumption DEF RxBroken, Fits, Link
<1>5. LinkFine(l, conn[c].pc)
  BY <1>1 DEF RxBroken, Fits, Link, LinkFine, NoLink
<1>6. SemFine(l, c) BY <1>1 DEF RxBroken, Fits, Link, SemFine, TxHolds
<1>7. l.exists = link[c].exists /\ l.handle = link[c].handle BY <1>1 DEF Fits, Link
<1>8. link[c].handle BY <1>1 DEF RxBroken, Fits, LinkFine, NoLink
<1>9. Fits(l, c) BY <1>1, <1>3, <1>4, <1>5, <1>6, <1>7 DEF Fits
<1> HIDE DEF l
<1> QED BY <1>2, <1>8, <1>9, LinkFacts, LinkStep DEF RxBroken, mgmtvars

\* The RX task pushes FINALIZE into a queue with room.
LEMMA RxRequestExitSafe ==
  ASSUME Safe, fault = "none", NEW c \in Conn, RxRequestExit(c),
         Forget(c), UNCHANGED <<kind, conn, table_sem, cmvars>>
  PROVE  Safe'
<1> DEFINE l == [link[c] EXCEPT !.queue = Append(@, FINALIZE), !.rx = "loop"]
<1>1. link \in [Conn -> Link] /\ link[c] \in Link /\ Fits(link[c], c) BY LinkFacts
<1>2. FINALIZE \in Seq(Bundle) /\ link[c].queue \in Seq(Seq(Bundle)) BY <1>1 DEF FINALIZE, Link
<1>3. Append(link[c].queue, FINALIZE) \in Seq(Seq(Bundle)) BY <1>2
<1>4. link' = [link EXCEPT ![c] = l] BY <1>1 DEF RxRequestExit, Fits
<1>5. l \in Link BY <1>1, <1>2, <1>3 DEF Link
<1>6. Len(l.queue) <= TxQueueLength BY <1>1, <1>2, LinkAssumption DEF RxRequestExit, Fits, Link, Room
<1>7. LinkFine(l, conn[c].pc)
  BY <1>1, <1>2 DEF RxRequestExit, Fits, Link, LinkFine, NoLink, FINALIZE
<1>8. SemFine(l, c) BY <1>1 DEF RxRequestExit, Fits, Link, SemFine, TxHolds
<1>9. l.exists = link[c].exists /\ l.handle = link[c].handle BY <1>1 DEF Fits, Link
<1>10. Fits(l, c) BY <1>1, <1>5, <1>6, <1>7, <1>8, <1>9 DEF Fits
<1> HIDE DEF l
<1> QED BY <1>4, <1>10, LinkFacts, LinkStep DEF RxRequestExit, mgmtvars, Forget

\* The TX task goes around its loop.
LEMMA TxLoopSafe ==
  ASSUME Safe, fault = "none", NEW c \in Conn, TxLoop(c),
         UNCHANGED <<kind, mgmtvars, cmvars>>
  PROVE  Safe'
<1> DEFINE l == [link[c] EXCEPT !.tx = IF link[c].active THEN "receive" ELSE "lock"]
<1>1. link \in [Conn -> Link] /\ link[c] \in Link /\ Fits(link[c], c) BY LinkFacts
<1>2. link' = [link EXCEPT ![c] = l] BY <1>1 DEF TxLoop, Fits
<1>3. l \in Link BY <1>1 DEF Link
<1>4. Len(l.queue) <= TxQueueLength BY <1>1, LinkAssumption DEF TxLoop, Fits, Link
<1>5. LinkFine(l, conn[c].pc)
  BY <1>1 DEF TxLoop, Fits, Link, LinkFine, Sending, NoLink
<1>6. SemFine(l, c) BY <1>1 DEF TxLoop, Fits, Link, SemFine, TxHolds
<1>7. l.exists = link[c].exists /\ l.handle = link[c].handle BY <1>1 DEF Fits, Link
<1>8. Fits(l, c) BY <1>1, <1>3, <1>4, <1>5, <1>6, <1>7 DEF Fits
<1> HIDE DEF l
<1> QED BY <1>2, <1>8, LinkFacts, LinkStep DEF TxLoop, mgmtvars

\* The TX task pushes FINALIZE into its own queue.
LEMMA TxRequestExitSafe ==
  ASSUME Safe, fault = "none", NEW c \in Conn, TxRequestExit(c),
         Forget(c), UNCHANGED <<kind, conn, table_sem, cmvars>>
  PROVE  Safe'
<1> DEFINE l == [link[c] EXCEPT !.queue = Append(@, FINALIZE), !.tx = "send"]
<1>1. link \in [Conn -> Link] /\ link[c] \in Link /\ Fits(link[c], c) BY LinkFacts
<1>2. FINALIZE \in Seq(Bundle) /\ link[c].queue \in Seq(Seq(Bundle)) BY <1>1 DEF FINALIZE, Link
<1>3. Append(link[c].queue, FINALIZE) \in Seq(Seq(Bundle)) BY <1>2
<1>4. link' = [link EXCEPT ![c] = l] BY <1>1 DEF TxRequestExit, Fits
<1>5. l \in Link BY <1>1, <1>2, <1>3 DEF Link
<1>6. Len(l.queue) <= TxQueueLength BY <1>1, <1>2, LinkAssumption DEF TxRequestExit, Fits, Link, Room
<1>7. LinkFine(l, conn[c].pc)
  BY <1>1, <1>2 DEF TxRequestExit, Fits, Link, LinkFine, Sending, NoLink, FINALIZE
<1>8. SemFine(l, c) BY <1>1 DEF TxRequestExit, Fits, Link, SemFine, TxHolds
<1>9. l.exists = link[c].exists /\ l.handle = link[c].handle BY <1>1 DEF Fits, Link
<1>10. Fits(l, c) BY <1>1, <1>5, <1>6, <1>7, <1>8, <1>9 DEF Fits
<1> HIDE DEF l
<1> QED BY <1>4, <1>10, LinkFacts, LinkStep DEF TxRequestExit, mgmtvars, Forget

\* The TX task locks the queue, so the contact manager does not own it.
LEMMA TxLockSafe ==
  ASSUME Safe, fault = "none", NEW c \in Conn, TxLock(c),
         UNCHANGED <<kind, mgmtvars, cmvars>>
  PROVE  Safe'
<1> DEFINE l == [link[c] EXCEPT !.sem = @ - 1, !.tx = "drain"]
<1>1. link \in [Conn -> Link] /\ link[c] \in Link /\ Fits(link[c], c) BY LinkFacts
<1>2. link' = [link EXCEPT ![c] = l] BY <1>1 DEF TxLock, Fits
<1>3. l \in Link BY <1>1 DEF TxLock, Fits, Link
<1>4. Len(l.queue) <= TxQueueLength BY <1>1, LinkAssumption DEF TxLock, Fits, Link
<1>5. LinkFine(l, conn[c].pc)
  BY <1>1 DEF TxLock, Fits, Link, LinkFine, Sending, NoLink
<1>6. SemFine(l, c) BY <1>1 DEF TxLock, Fits, Link, SemFine, TxHolds
<1>7. l.exists = link[c].exists /\ l.handle = link[c].handle BY <1>1 DEF Fits, Link
<1>8. Fits(l, c) BY <1>1, <1>3, <1>4, <1>5, <1>6, <1>7 DEF Fits
<1> HIDE DEF l
<1> QED BY <1>2, <1>8, LinkFacts, LinkStep DEF TxLock, mgmtvars

\* The TX task takes a command off its queue.
LEMMA TxReceiveSafe ==
  ASSUME Safe, fault = "none", NEW c \in Conn, TxReceive(c), UNCHANGED <<kind, mgmtvars, cmvars>>
  PROVE  Safe'
<1> DEFINE cmd == Head(link[c].queue)
           l == [link[c] EXCEPT !.queue = Tail(@), !.batch = cmd,
                                !.tx = IF cmd = FINALIZE THEN "lock" ELSE "send"]
<1>1. link \in [Conn -> Link] /\ link[c] \in Link /\ Fits(link[c], c) BY LinkFacts
<1>2. link[c].queue \in Seq(Seq(Bundle)) /\ link[c].queue # <<>> BY <1>1 DEF TxReceive, Link
<1>3. /\ cmd \in Seq(Bundle) /\ Tail(link[c].queue) \in Seq(Seq(Bundle))
      /\ Len(Tail(link[c].queue)) = Len(link[c].queue) - 1
  BY <1>2
<1>4. link' = [link EXCEPT ![c] = l] BY <1>1 DEF TxReceive
<1> HIDE DEF cmd
<1>5. l \in Link BY <1>1, <1>3 DEF Link
<1>6. Len(l.queue) <= TxQueueLength BY <1>1, <1>2, <1>3, LinkAssumption DEF Fits, Link
<1>7. LinkFine(l, conn[c].pc)
  BY <1>1, <1>3 DEF TxReceive, Fits, Link, LinkFine, Sending, NoLink, FINALIZE
<1>8. SemFine(l, c) BY <1>1 DEF TxReceive, Fits, Link, SemFine, TxHolds
<1>9. l.exists = link[c].exists /\ l.handle = link[c].handle BY <1>1 DEF Link
<1>10. Fits(l, c) BY <1>1, <1>5, <1>6, <1>7, <1>8, <1>9 DEF Fits
<1> HIDE DEF l
<1> QED BY <1>4, <1>10, LinkFacts, LinkStep DEF TxReceive, mgmtvars

\* The TX task reports a bundle of its command.
LEMMA ReportSafe ==
  ASSUME Safe, fault = "none", NEW c \in Conn, NEW result \in {"success", "failure"},
         link[c].tx \in {"send", "sending"}, Report(c, result),
         UNCHANGED <<sock, fault, kind, mgmtvars, cmvars>>
  PROVE  Safe'
<1> DEFINE l == [link[c] EXCEPT !.batch = Tail(@),
                                !.tx = IF Len(link[c].batch) = 1 THEN "loop" ELSE "send"]
<1>1. link \in [Conn -> Link] /\ link[c] \in Link /\ Fits(link[c], c) BY LinkFacts
<1>2. link[c].batch \in Seq(Bundle) /\ link[c].batch # <<>>
  BY <1>1 DEF Fits, LinkFine, Sending, Link
<1>3. /\ Tail(link[c].batch) \in Seq(Bundle) /\ Head(link[c].batch) \in Bundle
      /\ (Len(link[c].batch) = 1) <=> (Tail(link[c].batch) = <<>>)
  <2> DEFINE s == link[c].batch
  <2>1. s \in Seq(Bundle) /\ s # <<>> BY <1>2
  <2> HIDE DEF s
  <2>2. Tail(s) \in Seq(Bundle) /\ Head(s) \in Bundle /\ Len(Tail(s)) = Len(s) - 1 BY <2>1
  <2>3. (Len(Tail(s)) = 0) <=> (Tail(s) = <<>>) BY <2>2, EmptySeq
  <2>4. (Len(s) = 1) <=> (Tail(s) = <<>>) BY <2>1, <2>2, <2>3
  <2> QED BY <2>2, <2>4 DEF s
<1>4. link' = [link EXCEPT ![c] = l] BY <1>1 DEF Report
<1>5. l \in Link BY <1>1, <1>3 DEF Link
<1>6. Len(l.queue) <= TxQueueLength BY <1>1 DEF Fits, Link
<1>7. LinkFine(l, conn[c].pc)
  BY <1>1, <1>3 DEF Fits, Link, LinkFine, Sending, NoLink
<1>8. SemFine(l, c) BY <1>1 DEF Fits, Link, SemFine, TxHolds
<1>9. l.exists = link[c].exists /\ l.handle = link[c].handle BY <1>1 DEF Link
<1>10. Fits(l, c) BY <1>1, <1>5, <1>6, <1>7, <1>8, <1>9 DEF Fits
<1>11. outcome' \in [Bundle -> {"none", "success", "failure"}] BY <1>3, LinkFacts DEF Report
<1> HIDE DEF l
<1> QED BY <1>4, <1>10, <1>11, LinkStep DEF mgmtvars

\* The TX task begins a bundle.
LEMMA TxBeginSafe ==
  ASSUME Safe, fault = "none", NEW c \in Conn, TxBegin(c), UNCHANGED <<kind, mgmtvars, cmvars>>
  PROVE  Safe'
<1> DEFINE l == [link[c] EXCEPT !.tx = "sending"]
<1>1. link \in [Conn -> Link] /\ link[c] \in Link /\ Fits(link[c], c) BY LinkFacts
<1>2. CASE Report(c, "failure") \/ Report(c, "success") BY <1>2, ReportSafe DEF TxBegin
<1>3. CASE link' = [link EXCEPT ![c].tx = "sending"] /\ UNCHANGED outcome
  <2>1. link' = [link EXCEPT ![c] = l] BY <1>1, <1>3
  <2>2. l \in Link BY <1>1 DEF Link
  <2>3. Len(l.queue) <= TxQueueLength BY <1>1 DEF Fits, Link
  <2>4. LinkFine(l, conn[c].pc) BY <1>1 DEF TxBegin, Fits, Link, LinkFine, Sending, NoLink
  <2>5. SemFine(l, c) BY <1>1 DEF TxBegin, Fits, Link, SemFine, TxHolds
  <2>6. l.exists = link[c].exists /\ l.handle = link[c].handle BY <1>1 DEF Link
  <2>7. Fits(l, c) BY <1>1, <2>2, <2>3, <2>4, <2>5, <2>6 DEF Fits
  <2> HIDE DEF l
  <2> QED BY <1>3, <2>1, <2>7, LinkFacts, LinkStep DEF TxBegin, mgmtvars
<1> QED BY <1>2, <1>3 DEF TxBegin

\* The TX task sends: the ASSERT of the disconnect handler holds here too.
LEMMA TxSendSafe ==
  ASSUME Safe, fault = "none", NEW c \in Conn, TxSend(c), UNCHANGED <<kind, mgmtvars, cmvars>>
  PROVE  Safe'
<1> DEFINE l == [link[c] EXCEPT !.active = FALSE, !.tx = "request_exit"]
<1>1. link \in [Conn -> Link] /\ link[c] \in Link /\ Fits(link[c], c) BY LinkFacts
<1>2. CASE Report(c, "success") /\ UNCHANGED fault BY <1>2, ReportSafe DEF TxSend
<1>3. CASE /\ link' = [link EXCEPT ![c].active = FALSE, ![c].tx = "request_exit"]
           /\ fault' = IF link[c].handle THEN fault ELSE "assert"
           /\ UNCHANGED outcome
  <2>1. link' = [link EXCEPT ![c] = l] BY <1>1, <1>3
  <2>2. l \in Link BY <1>1 DEF Link
  <2>3. Len(l.queue) <= TxQueueLength BY <1>1 DEF Fits, Link
  <2>4. LinkFine(l, conn[c].pc) BY <1>1 DEF TxSend, Fits, Link, LinkFine, Sending, NoLink
  <2>5. SemFine(l, c) BY <1>1 DEF TxSend, Fits, Link, SemFine, TxHolds
  <2>6. l.exists = link[c].exists /\ l.handle = link[c].handle BY <1>1 DEF Link
  <2>7. Fits(l, c) BY <1>1, <2>2, <2>3, <2>4, <2>5, <2>6 DEF Fits
  <2>8. link[c].handle BY <1>1 DEF TxSend, Fits, LinkFine, NoLink
  <2> HIDE DEF l
  <2> QED BY <1>3, <2>1, <2>7, <2>8, LinkFacts, LinkStep DEF TxSend, mgmtvars
<1> QED BY <1>2, <1>3 DEF TxSend

\* The TX task empties the queue it has locked.
LEMMA TxDrainSafe ==
  ASSUME Safe, fault = "none", NEW c \in Conn, TxDrain(c), UNCHANGED <<kind, mgmtvars, cmvars>>
  PROVE  Safe'
<1>1. link \in [Conn -> Link] /\ link[c] \in Link /\ Fits(link[c], c) BY LinkFacts
<1>2. CASE link[c].queue = <<>>
  <2> DEFINE l == [link[c] EXCEPT !.tx = "done"]
  <2>1. link' = [link EXCEPT ![c] = l] BY <1>1, <1>2 DEF TxDrain
  <2>2. l \in Link BY <1>1 DEF Link
  <2>3. Len(l.queue) <= TxQueueLength BY <1>1 DEF Fits, Link
  <2>4. LinkFine(l, conn[c].pc) BY <1>1, <1>2 DEF TxDrain, Fits, Link, LinkFine, Sending, NoLink
  <2>5. SemFine(l, c) BY <1>1 DEF TxDrain, Fits, Link, SemFine, TxHolds
  <2>6. l.exists = link[c].exists /\ l.handle = link[c].handle BY <1>1 DEF Link
  <2>7. Fits(l, c) BY <1>1, <2>2, <2>3, <2>4, <2>5, <2>6 DEF Fits
  <2> HIDE DEF l
  <2> QED BY <1>2, <2>1, <2>7, LinkFacts, LinkStep DEF TxDrain, mgmtvars
<1>3. CASE link[c].queue # <<>>
  <2> DEFINE l == [link[c] EXCEPT !.queue = Tail(@)]
  <2>1. link[c].queue \in Seq(Seq(Bundle)) BY <1>1 DEF Link
  <2>2. link' = [link EXCEPT ![c] = l] BY <1>1, <1>3 DEF TxDrain
  <2>3. /\ Tail(link[c].queue) \in Seq(Seq(Bundle))
        /\ Len(Tail(link[c].queue)) = Len(link[c].queue) - 1
    BY <1>3, <2>1
  <2>4. l \in Link BY <1>1, <2>3 DEF Link
  <2>5. Len(l.queue) <= TxQueueLength BY <1>1, <2>1, <2>3, LinkAssumption DEF Fits, Link
  <2>6. LinkFine(l, conn[c].pc) BY <1>1 DEF TxDrain, Fits, Link, LinkFine, Sending, NoLink
  <2>7. SemFine(l, c) BY <1>1 DEF TxDrain, Fits, Link, SemFine, TxHolds
  <2>8. l.exists = link[c].exists /\ l.handle = link[c].handle BY <1>1 DEF Link
  <2>9. Fits(l, c) BY <1>1, <2>4, <2>5, <2>6, <2>7, <2>8 DEF Fits
  <2>10. outcome' \in [Bundle -> {"none", "success", "failure"}] BY <1>3, LinkFacts DEF TxDrain
  <2> HIDE DEF l
  <2> QED BY <2>2, <2>9, <2>10, LinkStep DEF TxDrain, mgmtvars
<1> QED BY <1>2, <1>3

\* cla_link_wait_cleanup takes the handle away when both tasks have ended,
\* and then nobody is pushing.
LEMMA WaitCleanupSafe ==
  ASSUME Safe, fault = "none", NEW c \in Conn, WaitCleanup(c)
  PROVE  Safe'
<1>1. link \in [Conn -> Link] /\ link[c] \in Link /\ Fits(link[c], c) BY LinkFacts
<1>2. CASE WaitTasks(c)
  <2> DEFINE l == [link[c] EXCEPT !.handle = FALSE]
  <2>1. link' = [link EXCEPT ![c] = l] BY <1>1, <1>2 DEF WaitTasks
  <2>2. l \in Link BY <1>1 DEF Link
  <2>3. Len(l.queue) <= TxQueueLength BY <1>1 DEF Fits, Link
  <2>4. LinkFine(l, conn[c].pc) BY <1>1, <1>2 DEF WaitTasks, Fits, Link, LinkFine, Sending, NoLink
  <2>5. SemFine(l, c) BY <1>1 DEF Link, SemFine
  <2>6. ~CmHolds(c)
    <3>1. link[c].handle /\ TxHolds(link[c]) BY <1>2 DEF WaitTasks, TxHolds
    <3> QED BY <1>1, <3>1, Zenon DEF Fits, SemFine
  <2>7. Fits(l, c) BY <2>2, <2>3, <2>4, <2>5, <2>6 DEF Fits, CmHolds
  <2> HIDE DEF l
  <2> QED BY <2>1, <2>7, LinkFacts, LinkStep DEF WaitCleanup, mgmtvars
<1>3. CASE UnblockWaiters(c)
  <2> DEFINE l == [link[c] EXCEPT !.sem = 1]
  <2>1. link' = [link EXCEPT ![c] = l] BY <1>1, <1>3 DEF UnblockWaiters
  <2>2. l \in Link
    <3>1. 1 \in 0..2 OBVIOUS
    <3> QED BY <1>1, <3>1 DEF Link
  <2>3. Len(l.queue) <= TxQueueLength BY <1>1 DEF Fits, Link
  <2>4. LinkFine(l, conn[c].pc) BY <1>1, <1>3 DEF UnblockWaiters, Fits, Link, LinkFine, Sending, NoLink
  <2>5. SemFine(l, c) BY <1>1, <1>3 DEF UnblockWaiters, Link, SemFine
  <2>6. l.exists = link[c].exists /\ l.handle = link[c].handle BY <1>1 DEF Link
  <2>7. Fits(l, c) BY <1>1, <2>2, <2>3, <2>4, <2>5, <2>6 DEF Fits
  <2> HIDE DEF l
  <2> QED BY <2>1, <2>7, LinkFacts, LinkStep DEF WaitCleanup, mgmtvars
<1> QED BY <1>2, <1>3 DEF WaitCleanup

\* The invariant, as the steps of one management task need it.
LEMMA ConnFacts ==
  ASSUME Safe, NEW c \in Conn
  PROVE  /\ conn \in [Conn -> Params] /\ conn[c] \in Params
         /\ sock \in [Conn -> {"none", "open", "broken"}]
         /\ table \in [Key -> Conn \cup {NULL}] /\ table_sem \in {0, 1}
         /\ ParamsOK(conn[c], sock[c])
BY DEF Safe, TypeOK, MoreTypes, MgmtOK

\* What the parameters of a connection look like once they are freed.
LEMMA FreedFacts ==
  LET p == [Unborn EXCEPT !.mem = "freed"]
  IN /\ p \in Params
     /\ p.mem = "freed" /\ p.pc = "none" /\ ~p.planned
     /\ \A s : ParamsOK(p, s)
<1> DEFINE p == [Unborn EXCEPT !.mem = "freed"]
<1>1. 0 \in 0..MaxTries + 1 /\ 0 <= MaxTries BY TcpAssumption
<1>2. p \in Params BY <1>1 DEF Params, Unborn
<1>3. p.mem = "freed" /\ p.pc = "none" /\ ~p.planned /\ p.tries = 0 BY DEF Unborn
<1> HIDE DEF p
<1>4. \A s : ParamsOK(p, s) BY <1>1, <1>3 DEF ParamsOK, TcpclOK, MtcpOK, SingleOK
<1> QED BY <1>2, <1>3, <1>4 DEF p

\* A step of one management task.
LEMMA OneConnStep ==
  ASSUME Safe, fault = "none", NEW c \in Conn, NEW p \in Params,
         NEW s \in {"none", "open", "broken"},
         conn' = [conn EXCEPT ![c] = p], sock' = [sock EXCEPT ![c] = s],
         ParamsOK(p, s), (p.pc = "wait") <=> (conn[c].pc = "wait"),
         table' \in [Key -> Conn \cup {NULL}],
         kind = "single" => \A k \in Key : /\ table'[k] = c => p.mem = "live"
                                           /\ table'[k] \notin {c, NULL} => table'[k] = table[k],
         fault' = fault,
         UNCHANGED <<link, outcome, kind, table_sem, cmvars>>
  PROVE  Safe'
<1>1. /\ conn \in [Conn -> Params] /\ sock \in [Conn -> {"none", "open", "broken"}]
      /\ table_sem \in {0, 1}
  BY ConnFacts
<1>2. /\ conn' \in [Conn -> Params] /\ sock' \in [Conn -> {"none", "open", "broken"}]
      /\ conn'[c] = p /\ sock'[c] = s
      /\ \A d \in Conn : d # c => conn'[d] = conn[d] /\ sock'[d] = sock[d]
  BY <1>1
<1>3. \A d \in Conn : /\ ParamsOK(conn'[d], sock'[d])
                      /\ (conn'[d].pc = "wait") <=> (conn[d].pc = "wait")
  BY <1>2 DEF Safe, MgmtOK
<1>4. kind = "single" => \A k \in Key : table'[k] # NULL => conn'[table'[k]].mem = "live"
  BY <1>2, ConnFacts DEF Safe, SingleTable
<1>5. /\ contact' \in [Key -> BOOLEAN] /\ starts' \in [Key -> Nat]
      /\ UNCHANGED <<link, outcome, kind, pending, scheduled, cm>>
  BY DEF Safe, MoreTypes, cmvars
<1> QED BY <1>1, <1>2, <1>3, <1>4, <1>5, ConnStep

\* tcpclv3 accepts a connection.
LEMMA TcpclListenerSafe ==
  ASSUME Safe, fault = "none", NEW c \in Conn, tcpclv3_listener_task(c)
  PROVE  Safe'
<1> DEFINE p == [mem |-> "live", pc |-> "loop", state |-> "connected", planned |-> FALSE,
                 addr |-> FALSE, name |-> NULL, tries |-> 0]
<1>1. p \in Params BY TcpAssumption DEF Params
<1>2. /\ conn' = [conn EXCEPT ![c] = p] /\ sock' = [sock EXCEPT ![c] = "open"]
      /\ table' = table /\ kind = "tcpclv3" /\ conn[c].mem = "unborn"
  BY DEF tcpclv3_listener_task, Accepted, TcpclLaunch
<1>3. ParamsOK(p, "open") BY <1>2, TcpAssumption DEF ParamsOK, TcpclOK
<1>4. p.pc # "wait" /\ conn[c].pc # "wait" BY <1>2, ConnFacts DEF ParamsOK
<1> HIDE DEF p
<1> QED BY <1>1, <1>2, <1>3, <1>4, ConnFacts, OneConnStep DEF tcpclv3_listener_task

\* mtcp accepts a connection; for an address it knows it frees it at once.
LEMMA MtcpListenerSafe ==
  ASSUME Safe, fault = "none", NEW c \in Conn, NEW k \in Key, mtcp_listener_task(c, k)
  PROVE  Safe'
<1> DEFINE p == IF table[k] # NULL THEN [Unborn EXCEPT !.mem = "freed"]
                ELSE [mem |-> "live", pc |-> "loop", state |-> "connected", planned |-> FALSE,
                      addr |-> TRUE, name |-> k, tries |-> 0]
<1>1. k \in Key \cup {NULL} /\ 0 \in 0..MaxTries + 1 BY TcpAssumption
<1>2. p \in Params
  <2>1. [mem |-> "live", pc |-> "loop", state |-> "connected", planned |-> FALSE,
         addr |-> TRUE, name |-> k, tries |-> 0] \in Params
    BY <1>1 DEF Params
  <2> QED BY <2>1, FreedFacts
<1>3. /\ conn' = [conn EXCEPT ![c] = p] /\ sock' = [sock EXCEPT ![c] = "open"]
      /\ kind = "mtcp" /\ conn[c].mem = "unborn"
  BY DEF mtcp_listener_task, Accepted, MtcpLaunch, htab_get
<1>4. ParamsOK(p, "open") BY <1>3, TcpAssumption DEF ParamsOK, MtcpOK, Unborn
<1>5. p.pc # "wait" /\ conn[c].pc # "wait" BY <1>3, ConnFacts DEF ParamsOK, Unborn
<1>6. table' \in [Key -> Conn \cup {NULL}]
  BY ConnFacts DEF mtcp_listener_task, MtcpLaunch, htab_add, htab_get
<1> HIDE DEF p
<1> QED BY <1>2, <1>3, <1>4, <1>5, <1>6, OneConnStep DEF mtcp_listener_task

\* A single-connection CLA accepts the next connection when the last one is
\* gone, and config->link with it: the ASSERT holds.
LEMMA SingleListenerSafe ==
  ASSUME Safe, fault = "none", NEW c \in Conn, cla_tcp_single_listen_task(c)
  PROVE  Safe'
<1> DEFINE p == [conn[c] EXCEPT !.mem = "live", !.pc = "link_init", !.state = "connected"]
<1>1. conn[c] \in Params /\ conn \in [Conn -> Params] /\ ParamsOK(conn[c], sock[c]) BY ConnFacts
<1>2. p \in Params BY <1>1 DEF Params
<1>3. /\ conn' = [conn EXCEPT ![c] = p] /\ sock' = [sock EXCEPT ![c] = "open"]
      /\ kind = "single" /\ conn[c].mem = "unborn" /\ table' = [k \in Key |-> c]
  BY <1>1 DEF cla_tcp_single_listen_task, Accepted
<1>4. ParamsOK(p, "open") BY <1>1, <1>3, TcpAssumption DEF ParamsOK, SingleOK, Params
<1>5. p.pc # "wait" /\ conn[c].pc # "wait" /\ p.mem = "live" BY <1>1, <1>3 DEF ParamsOK, Params
<1>6. table = NoEntry
  <2>1. \A k \in Key : table[k] = NULL
    BY <1>3, ConnFacts DEF Safe, SingleTable, cla_tcp_single_listen_task
  <2> QED BY <2>1, ConnFacts DEF NoEntry
<1>7. table' \in [Key -> Conn \cup {NULL}] /\ \A k \in Key : table'[k] = c BY <1>3
<1> HIDE DEF p
<1> QED BY <1>2, <1>3, <1>4, <1>5, <1>6, <1>7, OneConnStep DEF cla_tcp_single_listen_task

\* The peer closes the connection.
LEMMA PeerSafe ==
  ASSUME Safe, fault = "none", NEW c \in Conn, Peer(c)
  PROVE  Safe'
<1> DEFINE p == conn[c]
<1>1. p \in Params /\ conn \in [Conn -> Params] /\ ParamsOK(p, sock[c]) BY ConnFacts
<1>2. conn' = [conn EXCEPT ![c] = p] BY <1>1 DEF Peer, mgmtvars
<1>3. ParamsOK(p, "broken") BY <1>1 DEF Peer, PeerBreaks, ParamsOK, TcpclOK, MtcpOK
<1>4. kind = "single" => \A k \in Key : table[k] = c => p.mem = "live"
  BY TcpAssumption DEF Safe, SingleTable
<1> HIDE DEF p
<1> QED BY <1>1, <1>2, <1>3, <1>4, ConnFacts, OneConnStep DEF Peer, PeerBreaks, mgmtvars, p

\* The ASSERTs of the loop of tcpclv3_link_management_task hold.
LEMMA TcpclLoopSafe ==
  ASSUME Safe, fault = "none", NEW c \in Conn, TcpclLoop(c)
  PROVE  Safe'
<1>1. /\ conn[c] \in Params /\ conn \in [Conn -> Params] /\ ParamsOK(conn[c], sock[c])
      /\ sock \in [Conn -> {"none", "open", "broken"}]
  BY ConnFacts
<1>2. PICK pc \in {"connect", "remove", "handshake"} :
        /\ conn' = [conn EXCEPT ![c].pc = pc]
        /\ pc = "connect" => conn[c].state = "connecting"
        /\ pc = "handshake" => conn[c].state = "connected"
  BY DEF TcpclLoop, Goto
<1> DEFINE p == [conn[c] EXCEPT !.pc = pc]
<1>3. p \in Params BY <1>1 DEF Params
<1>4. /\ conn' = [conn EXCEPT ![c] = p] /\ sock' = [sock EXCEPT ![c] = sock[c]]
      /\ kind = "tcpclv3" /\ table' = table
  BY <1>1, <1>2 DEF TcpclLoop
<1>5. ParamsOK(p, sock[c]) BY <1>1, <1>2, <1>4 DEF TcpclLoop, ParamsOK, TcpclOK, Params
<1>6. p.pc # "wait" /\ conn[c].pc # "wait" BY <1>1 DEF TcpclLoop, Params
<1>7. fault' = fault BY <1>1, <1>4 DEF TcpclLoop, ParamsOK, TcpclOK
<1>8. /\ UNCHANGED <<fault, link, outcome, kind, table_sem, cmvars>>
      /\ table' \in [Key -> Conn \cup {NULL}] /\ sock[c] \in {"none", "open", "broken"}
  BY <1>1, <1>7, ConnFacts DEF TcpclLoop
<1> HIDE DEF p
<1> QED BY <1>3, <1>4, <1>5, <1>6, <1>7, <1>8, OneConnStep

\* The ASSERTs of the loop of mtcp_link_management_task hold.
LEMMA MtcpLoopSafe ==
  ASSUME Safe, fault = "none", NEW c \in Conn, MtcpLoop(c)
  PROVE  Safe'
<1>1. /\ conn[c] \in Params /\ conn \in [Conn -> Params] /\ ParamsOK(conn[c], sock[c])
      /\ sock \in [Conn -> {"none", "open", "broken"}]
  BY ConnFacts
<1> DEFINE p == [conn[c] EXCEPT !.pc = IF conn[c].state = "connected" THEN "link_init" ELSE "connect"]
<1>2. p \in Params BY <1>1 DEF Params
<1>3. /\ conn' = [conn EXCEPT ![c] = p] /\ sock' = [sock EXCEPT ![c] = sock[c]]
      /\ kind = "mtcp" /\ table' = table
  BY <1>1 DEF MtcpLoop, Goto
<1>4. ParamsOK(p, sock[c]) BY <1>1, <1>3 DEF MtcpLoop, ParamsOK, MtcpOK, Params
<1>5. p.pc # "wait" /\ conn[c].pc # "wait" BY <1>1 DEF MtcpLoop, Params
<1>6. fault' = fault BY <1>1, <1>3 DEF MtcpLoop, ParamsOK, MtcpOK
<1>7. /\ UNCHANGED <<fault, link, outcome, kind, table_sem, cmvars>>
      /\ table' \in [Key -> Conn \cup {NULL}] /\ sock[c] \in {"none", "open", "broken"}
  BY <1>1, <1>6, ConnFacts DEF MtcpLoop
<1> HIDE DEF p
<1> QED BY <1>2, <1>3, <1>4, <1>5, <1>6, <1>7, OneConnStep

\* A failed attempt to connect is counted up to the limit.
LEMMA ConnectFailsSafe ==
  ASSUME Safe, fault = "none", NEW c \in Conn, ConnectFails(c)
  PROVE  Safe'
<1>1. /\ conn[c] \in Params /\ conn \in [Conn -> Params] /\ ParamsOK(conn[c], sock[c])
      /\ sock \in [Conn -> {"none", "open", "broken"}]
  BY ConnFacts
<1>2. PICK pc \in {"loop", "remove"} :
        /\ conn' = [conn EXCEPT ![c].tries = @ + 1, ![c].pc = pc]
        /\ conn[c].tries + 1 > MaxTries => pc = "remove"
  BY DEF ConnectFails, InContact
<1> DEFINE p == [conn[c] EXCEPT !.tries = @ + 1, !.pc = pc]
<1>3. conn[c].tries \in Nat /\ conn[c].tries <= MaxTries
  BY <1>1, TcpAssumption DEF ConnectFails, ParamsOK, Params
<1>4. conn[c].tries + 1 \in 0..MaxTries + 1 BY <1>3, TcpAssumption
<1>5. p \in Params BY <1>1, <1>4 DEF Params
<1>6. /\ conn' = [conn EXCEPT ![c] = p] /\ sock' = [sock EXCEPT ![c] = sock[c]]
      /\ kind # "single" /\ table' = table
  BY <1>1, <1>2 DEF ConnectFails, linkvars, ParamsOK, SingleOK
<1>7. ParamsOK(p, sock[c])
  <2>1. /\ p.tries = conn[c].tries + 1 /\ p.pc = pc
        /\ p.mem = conn[c].mem /\ p.state = conn[c].state /\ p.name = conn[c].name
    BY <1>1 DEF Params
  <2>2. p.pc # "remove" => p.tries <= MaxTries BY <1>2, <1>3, <2>1, TcpAssumption
  <2> QED BY <1>1, <1>6, <2>1, <2>2 DEF ConnectFails, ParamsOK, TcpclOK, MtcpOK
<1>8. p.pc # "wait" /\ conn[c].pc # "wait" BY <1>1 DEF ConnectFails, Params
<1>9. /\ UNCHANGED <<fault, link, outcome, kind, table_sem, cmvars>>
      /\ table' \in [Key -> Conn \cup {NULL}] /\ sock[c] \in {"none", "open", "broken"}
  BY <1>1, ConnFacts DEF ConnectFails, linkvars
<1> HIDE DEF p
<1> QED BY <1>5, <1>6, <1>7, <1>8, <1>9, OneConnStep

\* A successful attempt to connect.
LEMMA ConnectSucceedsSafe ==
  ASSUME Safe, fault = "none", NEW c \in Conn, ConnectSucceeds(c)
  PROVE  Safe'
<1>1. /\ conn[c] \in Params /\ conn \in [Conn -> Params] /\ ParamsOK(conn[c], sock[c])
      /\ sock \in [Conn -> {"none", "open", "broken"}]
  BY ConnFacts
<1>2. PICK pc \in {"loop", "remove"} :
        conn' = [conn EXCEPT ![c].state = "connected", ![c].pc = pc]
  BY DEF ConnectSucceeds, InContact
<1> DEFINE p == [conn[c] EXCEPT !.state = "connected", !.pc = pc]
<1>3. p \in Params BY <1>1 DEF Params
<1>4. /\ conn' = [conn EXCEPT ![c] = p] /\ sock' = [sock EXCEPT ![c] = "open"]
      /\ kind # "single" /\ table' = table
  BY <1>1, <1>2 DEF ConnectSucceeds, ParamsOK, SingleOK
<1>5. ParamsOK(p, "open") BY <1>1, <1>4 DEF ConnectSucceeds, ParamsOK, TcpclOK, MtcpOK, Params
<1>6. p.pc # "wait" /\ conn[c].pc # "wait" BY <1>1 DEF ConnectSucceeds, Params
<1>7. /\ UNCHANGED <<fault, link, outcome, kind, table_sem, cmvars>>
      /\ table' \in [Key -> Conn \cup {NULL}] /\ sock[c] \in {"none", "open", "broken"}
  BY <1>1, ConnFacts DEF ConnectSucceeds
<1> HIDE DEF p
<1> QED BY <1>3, <1>4, <1>5, <1>6, <1>7, OneConnStep

\* The handshake of tcpclv3 fails.
LEMMA HandshakeFailsSafe ==
  ASSUME Safe, fault = "none", NEW c \in Conn, HandshakeFails(c)
  PROVE  Safe'
<1>1. /\ conn[c] \in Params /\ conn \in [Conn -> Params] /\ ParamsOK(conn[c], sock[c])
      /\ sock \in [Conn -> {"none", "open", "broken"}]
  BY ConnFacts
<1> DEFINE p == [conn[c] EXCEPT !.pc = "after"]
<1>2. p \in Params BY <1>1 DEF Params
<1>3. /\ conn' = [conn EXCEPT ![c] = p] /\ sock' = [sock EXCEPT ![c] = sock[c]]
      /\ kind \notin {"mtcp", "single"} /\ table' = table
  BY <1>1 DEF HandshakeFails, Goto, linkvars, ParamsOK, MtcpOK, SingleOK
<1>4. ParamsOK(p, sock[c]) BY <1>1, <1>3 DEF HandshakeFails, ParamsOK, TcpclOK, Params
<1>5. p.pc # "wait" /\ conn[c].pc # "wait" BY <1>1 DEF HandshakeFails, Params
<1>6. /\ UNCHANGED <<fault, link, outcome, kind, table_sem, cmvars>>
      /\ table' \in [Key -> Conn \cup {NULL}] /\ sock[c] \in {"none", "open", "broken"}
  BY <1>1, ConnFacts DEF HandshakeFails, linkvars
<1> HIDE DEF p
<1> QED BY <1>2, <1>3, <1>4, <1>5, <1>6, OneConnStep

\* The handshake of tcpclv3 succeeds.
LEMMA HandshakeSucceedsSafe ==
  ASSUME Safe, fault = "none", NEW c \in Conn, HandshakeSucceeds(c)
  PROVE  Safe'
<1>1. /\ conn[c] \in Params /\ conn \in [Conn -> Params] /\ ParamsOK(conn[c], sock[c])
      /\ sock \in [Conn -> {"none", "open", "broken"}]
  BY ConnFacts
<1>2. PICK k \in Key : conn' = [conn EXCEPT ![c].name = k, ![c].pc = "establish"]
  BY DEF HandshakeSucceeds
<1> DEFINE p == [conn[c] EXCEPT !.name = k, !.pc = "establish"]
<1>3. p \in Params BY <1>1 DEF Params
<1>4. /\ conn' = [conn EXCEPT ![c] = p] /\ sock' = [sock EXCEPT ![c] = sock[c]]
      /\ kind \notin {"mtcp", "single"} /\ table' = table
  BY <1>1, <1>2 DEF HandshakeSucceeds, linkvars, ParamsOK, MtcpOK, SingleOK
<1>5. ParamsOK(p, sock[c])
  BY <1>1, <1>4, TcpAssumption DEF HandshakeSucceeds, ParamsOK, TcpclOK, Params
<1>6. p.pc # "wait" /\ conn[c].pc # "wait" BY <1>1 DEF HandshakeSucceeds, Params
<1>7. /\ UNCHANGED <<fault, link, outcome, kind, table_sem, cmvars>>
      /\ table' \in [Key -> Conn \cup {NULL}] /\ sock[c] \in {"none", "open", "broken"}
  BY <1>1, ConnFacts DEF HandshakeSucceeds, linkvars
<1> HIDE DEF p
<1> QED BY <1>3, <1>4, <1>5, <1>6, <1>7, OneConnStep

\* The end of an established connection of tcpclv3.
LEMMA TcpclDownSafe ==
  ASSUME Safe, fault = "none", NEW c \in Conn, TcpclDown(c)
  PROVE  Safe'
<1>1. /\ conn[c] \in Params /\ conn \in [Conn -> Params] /\ ParamsOK(conn[c], sock[c])
      /\ sock \in [Conn -> {"none", "open", "broken"}]
  BY ConnFacts
<1> DEFINE p == [conn[c] EXCEPT !.state = "connecting", !.pc = "after"]
<1>2. p \in Params BY <1>1 DEF Params
<1>3. /\ conn' = [conn EXCEPT ![c] = p] /\ sock' = [sock EXCEPT ![c] = sock[c]]
      /\ kind = "tcpclv3" /\ table' = table
  BY <1>1 DEF TcpclDown, linkvars
<1>4. ParamsOK(p, sock[c]) BY <1>1, <1>3 DEF TcpclDown, ParamsOK, TcpclOK, Params
<1>5. p.pc # "wait" /\ conn[c].pc # "wait" BY <1>1 DEF TcpclDown, Params
<1>6. /\ UNCHANGED <<fault, link, outcome, kind, table_sem, cmvars>>
      /\ table' \in [Key -> Conn \cup {NULL}] /\ sock[c] \in {"none", "open", "broken"}
  BY <1>1, ConnFacts DEF TcpclDown, linkvars
<1> HIDE DEF p
<1> QED BY <1>2, <1>3, <1>4, <1>5, <1>6, OneConnStep

\* tcpclv3 tries again or gives up.
LEMMA AfterSafe ==
  ASSUME Safe, fault = "none", NEW c \in Conn, After(c)
  PROVE  Safe'
<1>1. /\ conn[c] \in Params /\ conn \in [Conn -> Params] /\ ParamsOK(conn[c], sock[c])
      /\ sock \in [Conn -> {"none", "open", "broken"}]
  BY ConnFacts
<1>2. kind \notin {"mtcp", "single"} /\ table' = table /\ sock' = [sock EXCEPT ![c] = "none"]
  BY <1>1 DEF After, ParamsOK, MtcpOK, SingleOK
<1>3. CASE Keep(c)
  <2> DEFINE p == [conn[c] EXCEPT !.state = "connecting", !.tries = 0, !.pc = "loop"]
  <2>1. 0 \in 0..MaxTries + 1 /\ 0 <= MaxTries BY TcpAssumption
  <2>2. p \in Params BY <1>1, <2>1 DEF Params
  <2>3. conn' = [conn EXCEPT ![c] = p] BY <1>1, <1>3 DEF After
  <2>4. ParamsOK(p, "none") BY <1>1, <1>2, <2>1 DEF After, ParamsOK, TcpclOK, Params
  <2>5. p.pc # "wait" /\ conn[c].pc # "wait" BY <1>1 DEF After, Params
  <2> HIDE DEF p
  <2> QED BY <1>2, <2>2, <2>3, <2>4, <2>5, ConnFacts, OneConnStep DEF After
<1>4. CASE ~Keep(c)
  <2> DEFINE p == [conn[c] EXCEPT !.pc = "remove"]
  <2>1. p \in Params BY <1>1 DEF Params
  <2>2. conn' = [conn EXCEPT ![c] = p] BY <1>1, <1>4 DEF After
  <2>3. ParamsOK(p, "none") BY <1>1, <1>2 DEF After, ParamsOK, TcpclOK, Params
  <2>4. p.pc # "wait" /\ conn[c].pc # "wait" BY <1>1 DEF After, Params
  <2> HIDE DEF p
  <2> QED BY <1>2, <2>1, <2>2, <2>3, <2>4, ConnFacts, OneConnStep DEF After
<1> QED BY <1>3, <1>4

\* The end of a connection of mtcp.
LEMMA MtcpDownSafe ==
  ASSUME Safe, fault = "none", NEW c \in Conn, MtcpDown(c)
  PROVE  Safe'
<1>1. /\ conn[c] \in Params /\ conn \in [Conn -> Params] /\ ParamsOK(conn[c], sock[c])
      /\ sock \in [Conn -> {"none", "open", "broken"}]
  BY ConnFacts
<1>2. PICK pc \in {"loop", "remove"} :
        conn' = [conn EXCEPT ![c].state = "connecting", ![c].tries = 0, ![c].pc = pc]
  BY DEF MtcpDown, InContact
<1> DEFINE p == [conn[c] EXCEPT !.state = "connecting", !.tries = 0, !.pc = pc]
<1>3. 0 \in 0..MaxTries + 1 /\ 0 <= MaxTries BY TcpAssumption
<1>4. p \in Params BY <1>1, <1>3 DEF Params
<1>5. /\ conn' = [conn EXCEPT ![c] = p] /\ sock' = [sock EXCEPT ![c] = "none"]
      /\ kind = "mtcp" /\ table' = table
  BY <1>1, <1>2 DEF MtcpDown
<1>6. ParamsOK(p, "none") BY <1>1, <1>3, <1>5 DEF MtcpDown, ParamsOK, MtcpOK, Params
<1>7. p.pc # "wait" /\ conn[c].pc # "wait" BY <1>1 DEF MtcpDown, Params
<1>8. /\ UNCHANGED <<fault, link, outcome, kind, table_sem, cmvars>>
      /\ table' \in [Key -> Conn \cup {NULL}] /\ sock[c] \in {"none", "open", "broken"}
  BY <1>1, ConnFacts DEF MtcpDown
<1> HIDE DEF p
<1> QED BY <1>4, <1>5, <1>6, <1>7, <1>8, OneConnStep

\* A management task ends.
LEMMA RemoveSafe ==
  ASSUME Safe, fault = "none", NEW c \in Conn, TcpclRemove(c) \/ MtcpRemove(c) \/ SingleDown(c)
  PROVE  Safe'
<1> DEFINE p == [Unborn EXCEPT !.mem = "freed"]
<1>1. p \in Params /\ p.pc = "none" /\ ParamsOK(p, "none") BY FreedFacts
<1>2. /\ conn' = [conn EXCEPT ![c] = p] /\ sock' = [sock EXCEPT ![c] = "none"]
      /\ fault' = fault /\ UNCHANGED <<link, outcome, kind, table_sem, cmvars>>
  BY DEF TcpclRemove, MtcpRemove, SingleDown, FreeParams
<1>3. conn[c].pc # "wait" BY DEF TcpclRemove, MtcpRemove, SingleDown
<1>4. table' \in [Key -> Conn \cup {NULL}]
  BY ConnFacts DEF TcpclRemove, MtcpRemove, SingleDown, NoEntry, htab_remove, htab_get
<1>5. kind = "single" => table' = NoEntry BY DEF TcpclRemove, MtcpRemove, SingleDown
<1>6. kind = "single" => \A k \in Key : table'[k] = NULL /\ NULL # c
  BY <1>5, TcpAssumption DEF NoEntry
<1> HIDE DEF p
<1> QED BY <1>1, <1>2, <1>3, <1>4, <1>6, OneConnStep

\* Only the flags planned and addr differ.
SamePlace(p, q) == \A d \in Conn : /\ q[d].mem = p[d].mem /\ q[d].pc = p[d].pc
                                   /\ q[d].state = p[d].state /\ q[d].name = p[d].name
                                   /\ q[d].tries = p[d].tries

\* Changing the flags of a connection keeps the type, and nothing but the flags.
LEMMA FlagTypes ==
  ASSUME NEW p \in [Conn -> Params], NEW c \in Conn, NEW a \in BOOLEAN
  PROVE  /\ [p EXCEPT ![c].planned = a] \in [Conn -> Params]
         /\ [p EXCEPT ![c].addr = a] \in [Conn -> Params]
         /\ SamePlace(p, [p EXCEPT ![c].planned = a]) /\ SamePlace(p, [p EXCEPT ![c].addr = a])
<1>1. p[c] \in Params OBVIOUS
<1>2. [p[c] EXCEPT !.planned = a] \in Params /\ [p[c] EXCEPT !.addr = a] \in Params
  BY <1>1 DEF Params
<1>3. SamePlace(p, [p EXCEPT ![c].planned = a]) /\ SamePlace(p, [p EXCEPT ![c].addr = a])
  BY <1>1 DEF SamePlace, Params
<1> QED BY <1>2, <1>3

\* One change of flags after another.
LEMMA SamePlaceTrans ==
  ASSUME NEW p, NEW q, NEW r, SamePlace(p, q), SamePlace(q, r)
  PROVE  SamePlace(p, r)
BY DEF SamePlace

\* Taking over the planned status touches nothing but the flags.
LEMMA OverFacts ==
  ASSUME NEW p \in [Conn -> Params], NEW c \in Conn, NEW other \in Conn
  PROVE  /\ take_over(p, c, other) \in [Conn -> Params] /\ SamePlace(p, take_over(p, c, other))
         /\ give_over(p, c, other) \in [Conn -> Params] /\ SamePlace(p, give_over(p, c, other))
<1>1. \A d \in Conn : p[d] \in Params OBVIOUS
<1>2. \A d \in Conn : p[d].addr \in BOOLEAN BY <1>1 DEF Params
<1>3. take_over(p, c, other) \in [Conn -> Params] /\ SamePlace(p, take_over(p, c, other))
  <2> DEFINE q == [p EXCEPT ![other].planned = FALSE]
             r == [q EXCEPT ![c].planned = TRUE]
             s == [r EXCEPT ![c].addr = p[other].addr]
             t == [s EXCEPT ![other].addr = FALSE]
  <2>1. take_over(p, c, other) \in {p, r, t} BY DEF take_over
  <2> HIDE DEF t
  <2>2. q \in [Conn -> Params] /\ SamePlace(p, q) BY FlagTypes
  <2> HIDE DEF q
  <2>3. r \in [Conn -> Params] /\ SamePlace(q, r) BY <2>2, FlagTypes
  <2> HIDE DEF r
  <2>4. s \in [Conn -> Params] /\ SamePlace(r, s) BY <1>2, <2>3, FlagTypes
  <2> HIDE DEF s
  <2>5. t \in [Conn -> Params] /\ SamePlace(s, t) BY <2>4, FlagTypes DEF t
  <2>6. SamePlace(p, p) BY DEF SamePlace
  <2>7. SamePlace(p, r) BY <2>2, <2>3, SamePlaceTrans
  <2>8. SamePlace(p, s) BY <2>4, <2>7, SamePlaceTrans
  <2>9. SamePlace(p, t) BY <2>5, <2>8, SamePlaceTrans
  <2> QED BY <2>1, <2>3, <2>5, <2>6, <2>7, <2>9
<1>4. give_over(p, c, other) \in [Conn -> Params] /\ SamePlace(p, give_over(p, c, other))
  <2> DEFINE q == [p EXCEPT ![other].planned = TRUE]
             r == [q EXCEPT ![c].planned = FALSE]
             s == [r EXCEPT ![other].addr = p[c].addr]
             t == [s EXCEPT ![c].addr = FALSE]
  <2>1. give_over(p, c, other) \in {p, r, t} BY DEF give_over
  <2> HIDE DEF t
  <2>2. q \in [Conn -> Params] /\ SamePlace(p, q) BY FlagTypes
  <2> HIDE DEF q
  <2>3. r \in [Conn -> Params] /\ SamePlace(q, r) BY <2>2, FlagTypes
  <2> HIDE DEF r
  <2>4. s \in [Conn -> Params] /\ SamePlace(r, s) BY <1>2, <2>3, FlagTypes
  <2> HIDE DEF s
  <2>5. t \in [Conn -> Params] /\ SamePlace(s, t) BY <2>4, FlagTypes DEF t
  <2>6. SamePlace(p, p) BY DEF SamePlace
  <2>7. SamePlace(p, r) BY <2>2, <2>3, SamePlaceTrans
  <2>8. SamePlace(p, s) BY <2>4, <2>7, SamePlaceTrans
  <2>9. SamePlace(p, t) BY <2>5, <2>8, SamePlaceTrans
  <2> QED BY <2>1, <2>3, <2>5, <2>6, <2>7, <2>9
<1> QED BY <1>3, <1>4

\* A connection of tcpclv3 is established, whichever other one it replaces.
LEMMA EstablishSafe ==
  ASSUME Safe, fault = "none", NEW c \in Conn, Establish(c)
  PROVE  Safe'
<1>1. /\ conn[c] \in Params /\ conn \in [Conn -> Params] /\ ParamsOK(conn[c], sock[c])
      /\ sock \in [Conn -> {"none", "open", "broken"}]
      /\ table \in [Key -> Conn \cup {NULL}] /\ table_sem \in {0, 1}
      /\ \A d \in Conn : ParamsOK(conn[d], sock[d])
  BY ConnFacts DEF Safe, MgmtOK
<1>2. kind = "tcpclv3" /\ conn[c].name \in Key
  <2>1. kind \notin {"mtcp", "single"} /\ kind \in {"tcpclv3", "mtcp", "single"}
    BY <1>1, TcpAssumption DEF Establish, ParamsOK, MtcpOK, SingleOK, Safe, MoreTypes
  <2> QED BY <1>1, <2>1 DEF Establish, ParamsOK, TcpclOK, Params
<1>3. table' \in [Key -> Conn \cup {NULL}]
  BY <1>1, <1>2 DEF Establish, htab_add, htab_remove, htab_get
<1>4. PICK q \in [Conn -> Params] :
        /\ SamePlace(conn, q)
        /\ conn' = [q EXCEPT ![c].state = "established", ![c].pc = "link_init"]
  <2>1. CASE conn' = [conn EXCEPT ![c].state = "established", ![c].pc = "link_init"]
    BY <1>1, <2>1 DEF SamePlace
  <2>2. CASE table[conn[c].name] # NULL
    <3>1. table[conn[c].name] \in Conn BY <1>1, <1>2, <2>2
    <3> QED BY <1>1, <2>2, <3>1, OverFacts DEF Establish
  <2> QED BY <2>1, <2>2 DEF Establish
<1> DEFINE p == [q[c] EXCEPT !.state = "established", !.pc = "link_init"]
<1>5. /\ p \in Params /\ p.mem = q[c].mem /\ p.pc = "link_init" /\ p.state = "established"
      /\ p.tries = q[c].tries /\ p.name = q[c].name
  <2>1. q[c] \in Params OBVIOUS
  <2> QED BY <2>1 DEF Params
<1>6. conn' = [q EXCEPT ![c] = p] BY <1>4
<1> HIDE DEF p
<1>7. /\ conn' \in [Conn -> Params] /\ conn'[c] = p
      /\ \A d \in Conn : d # c => conn'[d] = q[d]
  BY <1>4, <1>5, <1>6
<1>8. \A d \in Conn : /\ ParamsOK(conn'[d], sock[d])
                      /\ (conn'[d].pc = "wait") <=> (conn[d].pc = "wait")
  <2> SUFFICES ASSUME NEW d \in Conn
               PROVE  /\ ParamsOK(conn'[d], sock[d])
                      /\ (conn'[d].pc = "wait") <=> (conn[d].pc = "wait")
    OBVIOUS
  <2>1. CASE d = c
    <3>1. /\ conn[c].pc = "establish" /\ kind = "tcpclv3" /\ conn'[d] = p
          /\ ParamsOK(conn[c], sock[c])
      BY <1>1, <1>2, <1>7, <2>1 DEF Establish
    <3>2. p.mem = conn[c].mem /\ p.tries = conn[c].tries /\ p.name = conn[c].name
      BY <1>4, <1>5 DEF SamePlace
    <3> QED BY <1>1, <1>2, <1>5, <2>1, <3>1, <3>2 DEF ParamsOK, TcpclOK
  <2>2. CASE d # c BY <1>1, <1>2, <1>4, <1>7, <2>2 DEF SamePlace, ParamsOK, TcpclOK
  <2> QED BY <2>1, <2>2
<1>9. /\ UNCHANGED <<link, sock, outcome, kind, table_sem, pending, scheduled, cm>>
      /\ contact' \in [Key -> BOOLEAN] /\ starts' \in [Key -> Nat]
      /\ fault' \in {"none", "freed"}
  BY DEF Establish, cmvars, Safe, MoreTypes
<1> QED BY <1>1, <1>2, <1>3, <1>7, <1>8, <1>9, ConnStep

\* Telling a connection of a contact touches nothing but its flags.
LEMMA AssociateFacts ==
  ASSUME Safe, NEW c \in Conn, kind # "single"
  PROVE  LET q == [conn EXCEPT ![c].planned = TRUE, ![c].addr = TRUE]
         IN  /\ q \in [Conn -> Params]
             /\ \A d \in Conn : ParamsOK(q[d], sock[d]) /\ q[d].pc = conn[d].pc
<1> DEFINE q == [conn EXCEPT ![c].planned = TRUE, ![c].addr = TRUE]
<1>1. conn \in [Conn -> Params] /\ \A d \in Conn : conn[d] \in Params BY ConnFacts
<1>2. q \in [Conn -> Params]
  <2> DEFINE r == [conn EXCEPT ![c].planned = TRUE]
  <2>1. r \in [Conn -> Params] BY <1>1, FlagTypes
  <2>2. q = [r EXCEPT ![c].addr = TRUE] OBVIOUS
  <2> HIDE DEF q, r
  <2> QED BY <2>1, <2>2, FlagTypes
<1>3. SamePlace(conn, q) BY <1>1 DEF SamePlace, Params
<1> HIDE DEF q
<1>4. \A d \in Conn : ParamsOK(q[d], sock[d]) /\ q[d].pc = conn[d].pc
  BY <1>2, <1>3 DEF Safe, MgmtOK, SamePlace, ParamsOK, TcpclOK, MtcpOK
<1> QED BY <1>2, <1>4 DEF q

\* A connection that only learns whether a contact is planned on it.
LEMMA PlannedFacts ==
  ASSUME Safe, NEW c \in Conn, kind # "single", NEW a \in BOOLEAN
  PROVE  LET q == [conn EXCEPT ![c].planned = a]
         IN  /\ q \in [Conn -> Params]
             /\ \A d \in Conn : ParamsOK(q[d], sock[d]) /\ q[d].pc = conn[d].pc
<1> DEFINE q == [conn EXCEPT ![c].planned = a]
<1>1. conn \in [Conn -> Params] /\ \A d \in Conn : conn[d] \in Params BY ConnFacts
<1>2. q \in [Conn -> Params] BY <1>1, FlagTypes
<1>3. SamePlace(conn, q) BY <1>1 DEF SamePlace, Params
<1> HIDE DEF q
<1>4. \A d \in Conn : ParamsOK(q[d], sock[d]) /\ q[d].pc = conn[d].pc
  BY <1>2, <1>3 DEF Safe, MgmtOK, SamePlace, ParamsOK, TcpclOK, MtcpOK
<1> QED BY <1>2, <1>4 DEF q

\* A connection launched for a contact.
LEMMA LaunchFacts ==
  ASSUME Safe, NEW c \in Conn, NEW k \in Key, htab_get(table, k) = NULL,
         \/ kind = "tcpclv3" /\ TcpclLaunch(k, c)
         \/ kind = "mtcp" /\ MtcpLaunch(k, c, FALSE)
  PROVE  /\ conn' \in [Conn -> Params]
         /\ table' \in [Key -> Conn \cup {NULL}]
         /\ \A d \in Conn : /\ ParamsOK(conn'[d], sock[d])
                            /\ (conn'[d].pc = "wait") <=> (conn[d].pc = "wait")
<1> DEFINE p == [mem |-> "live", pc |-> "loop", state |-> "connecting", planned |-> TRUE,
                 addr |-> TRUE, name |-> k, tries |-> 0]
<1>1. /\ conn \in [Conn -> Params] /\ \A d \in Conn : ParamsOK(conn[d], sock[d])
      /\ table \in [Key -> Conn \cup {NULL}]
  BY ConnFacts
<1>2. conn' = [conn EXCEPT ![c] = p] /\ conn[c].mem = "unborn" /\ kind # "single"
  BY TcpAssumption DEF TcpclLaunch, MtcpLaunch
<1>3. table' \in [Key -> Conn \cup {NULL}]
  BY <1>1, TcpAssumption DEF TcpclLaunch, MtcpLaunch, htab_add, htab_get
<1>4. p \in Params
  <2>1. k \in Key \cup {NULL} /\ 0 \in 0..MaxTries + 1 BY TcpAssumption
  <2> QED BY <2>1 DEF Params
<1>5. ParamsOK(p, sock[c]) /\ p.pc # "wait" /\ conn[c].pc # "wait"
  BY <1>1, <1>2, TcpAssumption DEF ParamsOK, TcpclOK, MtcpOK
<1> HIDE DEF p
<1>6. /\ conn' \in [Conn -> Params] /\ conn'[c] = p
      /\ \A d \in Conn : d # c => conn'[d] = conn[d]
  BY <1>1, <1>2, <1>4
<1> QED BY <1>1, <1>3, <1>5, <1>6

\* A contact starts.
LEMMA StartContactSafe ==
  ASSUME Safe, fault = "none", NEW k \in Key, StartContact(k)
  PROVE  Safe'
<1>1. /\ conn \in [Conn -> Params] /\ \A d \in Conn : ParamsOK(conn[d], sock[d])
      /\ table \in [Key -> Conn \cup {NULL}] /\ table_sem \in {0, 1}
      /\ sock \in [Conn -> {"none", "open", "broken"}]
  BY DEF Safe, TypeOK, MoreTypes, MgmtOK
<1>2. /\ UNCHANGED <<link, sock, outcome, kind, table_sem, pending, scheduled, cm>>
      /\ contact' \in [Key -> BOOLEAN] /\ starts' \in [Key -> Nat]
      /\ fault' \in {"none", "freed"}
  BY DEF StartContact, Safe, MoreTypes
<1>3. CASE kind = "single" /\ UNCHANGED <<conn, table>>
  BY <1>1, <1>2, <1>3, ConnStep DEF Safe, SingleTable
<1>4. CASE kind # "single" /\ htab_get(table, k) # NULL
  <2>1. PICK c \in Conn : c = htab_get(table, k) BY <1>1, <1>4 DEF htab_get
  <2>2. conn' = [conn EXCEPT ![c].planned = TRUE, ![c].addr = TRUE] /\ table' = table
    BY <1>4, <2>1 DEF StartContact, tcpclv3_start_scheduled_contact, mtcp_start_scheduled_contact,
                cla_tcp_single_start_scheduled_contact, Associate
  <2>3. /\ conn' \in [Conn -> Params]
        /\ \A d \in Conn : ParamsOK(conn'[d], sock[d]) /\ conn'[d].pc = conn[d].pc
    BY <1>4, <2>2, AssociateFacts
  <2> QED BY <1>1, <1>2, <1>4, <2>2, <2>3, ConnStep
<1>5. CASE kind # "single" /\ htab_get(table, k) = NULL
  <2>1. PICK c \in Conn : \/ kind = "tcpclv3" /\ TcpclLaunch(k, c)
                          \/ kind = "mtcp" /\ MtcpLaunch(k, c, FALSE)
    BY <1>5 DEF StartContact, tcpclv3_start_scheduled_contact, mtcp_start_scheduled_contact,
                cla_tcp_single_start_scheduled_contact
  <2>2. /\ conn' \in [Conn -> Params]
        /\ table' \in [Key -> Conn \cup {NULL}]
        /\ \A d \in Conn : /\ ParamsOK(conn'[d], sock[d])
                           /\ (conn'[d].pc = "wait") <=> (conn[d].pc = "wait")
    BY <1>5, <2>1, LaunchFacts
  <2> QED BY <1>1, <1>2, <1>5, <2>2, ConnStep
<1> QED BY <1>3, <1>4, <1>5 DEF StartContact, tcpclv3_start_scheduled_contact,
           mtcp_start_scheduled_contact, cla_tcp_single_start_scheduled_contact

\* A contact ends.
LEMMA EndContactSafe ==
  ASSUME Safe, fault = "none", NEW k \in Key, EndContact(k)
  PROVE  Safe'
<1>1. /\ conn \in [Conn -> Params] /\ \A d \in Conn : ParamsOK(conn[d], sock[d])
      /\ table \in [Key -> Conn \cup {NULL}] /\ table_sem \in {0, 1}
      /\ sock \in [Conn -> {"none", "open", "broken"}]
  BY DEF Safe, TypeOK, MoreTypes, MgmtOK
<1>2. /\ UNCHANGED <<link, sock, outcome, kind, table, table_sem, pending, scheduled, cm>>
      /\ contact' \in [Key -> BOOLEAN] /\ starts' \in [Key -> Nat]
      /\ fault' \in {"none", "freed"}
  BY DEF EndContact, Safe, MoreTypes
<1>3. CASE UNCHANGED conn BY <1>1, <1>2, <1>3, ConnStep DEF Safe, SingleTable
<1>4. CASE kind # "single" /\ htab_get(table, k) # NULL
  <2>1. htab_get(table, k) \in Conn BY <1>1, <1>4 DEF htab_get
  <2>2. conn' = [conn EXCEPT ![htab_get(table, k)].planned = FALSE]
    BY <1>4 DEF EndContact, tcpclv3_end_scheduled_contact, mtcp_end_scheduled_contact,
                cla_tcp_single_end_scheduled_contact, NotPlanned
  <2>3. /\ conn' \in [Conn -> Params]
        /\ \A d \in Conn : ParamsOK(conn'[d], sock[d]) /\ conn'[d].pc = conn[d].pc
    BY <1>4, <2>1, <2>2, PlannedFacts
  <2> QED BY <1>1, <1>2, <1>4, <2>3, ConnStep
<1> QED BY <1>3, <1>4 DEF EndContact, tcpclv3_end_scheduled_contact, mtcp_end_scheduled_contact,
                          cla_tcp_single_end_scheduled_contact, NotPlanned

\* The router schedules a bundle.
LEMMA ScheduleSafe ==
  ASSUME Safe, fault = "none", NEW b \in Bundle, NEW k \in Key, Schedule(b, k)
  PROVE  Safe'
<1> USE DEF linkvars, mgmtvars
<1>1. pending' \in [Key -> Seq(Bundle)] /\ scheduled' \in SUBSET Bundle
  BY DEF Schedule, Safe, MoreTypes
<1>2. TypeOK' BY DEF Schedule, Safe, TypeOK
<1>3. MoreTypes' BY <1>1 DEF Schedule, Safe, MoreTypes
<1>4. MgmtOK' BY DEF Schedule, Safe, MgmtOK, ParamsOK, TcpclOK, MtcpOK, SingleOK
<1>5. LinkOK' BY DEF Schedule, Safe, LinkOK, LinkFine
<1>6. SemOK' /\ CmOK' BY DEF Schedule, Safe, SemOK, SemFine, CmHolds, TxHolds, CmOK
<1>7. SingleTable' BY DEF Schedule, Safe, SingleTable
<1> QED BY <1>2, <1>3, <1>4, <1>5, <1>6, <1>7 DEF Schedule, Safe

\* A link begins: nobody owns the new semaphore.
LEMMA LinkInitializedSafe ==
  ASSUME Safe, fault = "none", NEW c \in Conn, LinkInitialized(c)
  PROVE  Safe'
<1> DEFINE l == [active |-> TRUE, rx |-> "loop", tx |-> "loop", batch |-> <<>>,
                 queue |-> <<>>, handle |-> TRUE, exists |-> TRUE, sem |-> 1]
           p == [conn[c] EXCEPT !.pc = "wait"]
<1>1. /\ link \in [Conn -> Link] /\ link[c] = NoLink
      /\ conn \in [Conn -> Params] /\ conn[c] \in Params /\ ParamsOK(conn[c], sock[c])
  BY LinkFacts, ConnFacts DEF LinkInitialized, Fits, LinkFine
<1>2. ~CmHolds(c)
  BY <1>1 DEF Safe, CmOK, CmHolds, NoLink
<1>3. link' = [link EXCEPT ![c] = l] /\ conn' = [conn EXCEPT ![c] = p]
  BY <1>1 DEF LinkInitialized, cla_link_init, Goto
<1>4. l \in Link /\ Len(l.queue) <= TxQueueLength
  <2>1. 1 \in 0..2 /\ Len(<<>>) = 0 OBVIOUS
  <2> QED BY <2>1, LinkAssumption DEF Link
<1>5. p \in Params /\ p.pc = "wait" /\ p.mem = conn[c].mem BY <1>1 DEF Params
<1>6. ParamsOK(p, sock[c]) BY <1>1 DEF LinkInitialized, ParamsOK, TcpclOK, MtcpOK, SingleOK, Params
<1>7. LinkFine(l, "wait") BY DEF LinkFine, Sending
<1>8. l.handle /\ l.exists /\ l.sem = 1 /\ ~TxHolds(l) BY DEF TxHolds
<1> HIDE DEF l, p
<1>9. /\ link' \in [Conn -> Link] /\ link'[c] = l
      /\ conn' \in [Conn -> Params] /\ conn'[c] = p
      /\ \A d \in Conn : d # c => link'[d] = link[d] /\ conn'[d] = conn[d]
  BY <1>1, <1>3, <1>4, <1>5
<1>10. UNCHANGED <<sock, outcome, fault, kind, table, table_sem, contact, starts, pending, scheduled, cm>>
  BY DEF LinkInitialized, cmvars
<1>11. TypeOK' BY <1>4, <1>9, <1>10 DEF Safe, TypeOK
<1>12. MoreTypes' BY <1>10 DEF Safe, MoreTypes
<1>13. MgmtOK'
  <2>1. \A d \in Conn : ParamsOK(conn'[d], sock[d]) BY <1>6, <1>9 DEF Safe, MgmtOK
  <2> QED BY <1>10, <2>1 DEF MgmtOK, ParamsOK, TcpclOK, MtcpOK, SingleOK
<1>14. LinkOK' BY <1>5, <1>7, <1>9 DEF Safe, LinkOK, LinkFine
<1>15. SemOK' BY <1>2, <1>8, <1>9, <1>10 DEF Safe, SemOK, SemFine, CmHolds, TxHolds
<1>16. CmOK'
  <2>1. cm.pc # "idle" => cm.conn \in Conn BY DEF Safe, MoreTypes
  <2> QED BY <1>8, <1>9, <1>10, <2>1 DEF Safe, CmOK
<1>17. SingleTable' BY <1>5, <1>9, <1>10 DEF Safe, TypeOK, SingleTable
<1> QED BY <1>10, <1>11, <1>12, <1>13, <1>14, <1>15, <1>16, <1>17 DEF Safe

\* A link ends: a contact manager that has taken the semaphore and has not
\* looked at the handle yet is left with a stale pointer.
LEMMA CleanupSafe ==
  ASSUME Safe, fault = "none", NEW c \in Conn, Cleanup(c)
  PROVE  Safe'
<1> DEFINE p == [conn[c] EXCEPT !.pc = "down"]
<1>1. /\ link \in [Conn -> Link] /\ Fits(link[c], c)
      /\ conn \in [Conn -> Params] /\ conn[c] \in Params /\ ParamsOK(conn[c], sock[c])
  BY LinkFacts, ConnFacts
<1>2. link' = [link EXCEPT ![c] = NoLink] /\ conn' = [conn EXCEPT ![c] = p]
  BY <1>1 DEF Cleanup, DeleteQueue, Goto
<1>3. /\ NoLink \in Link /\ Len(NoLink.queue) <= TxQueueLength /\ LinkFine(NoLink, "down")
      /\ ~NoLink.handle
  <2>1. Len(<<>>) = 0 OBVIOUS
  <2> QED BY <2>1, LinkAssumption DEF NoLink, Link, LinkFine, Sending
<1>4. p \in Params /\ p.pc = "down" /\ p.mem = conn[c].mem BY <1>1 DEF Params
<1>5. ParamsOK(p, sock[c])
  BY <1>1 DEF Cleanup, ParamsOK, TcpclOK, MtcpOK, SingleOK, Params
<1>6. ~(cm.pc = "push" /\ cm.conn = c) BY <1>1 DEF Cleanup, DeleteQueue, Fits
<1> HIDE DEF p
<1>7. /\ link' \in [Conn -> Link] /\ link'[c] = NoLink
      /\ conn' \in [Conn -> Params] /\ conn'[c] = p
      /\ \A d \in Conn : d # c => link'[d] = link[d] /\ conn'[d] = conn[d]
  BY <1>1, <1>2, <1>3, <1>4
<1>8. UNCHANGED <<sock, outcome, fault, kind, table, table_sem, contact, starts, pending, scheduled>>
  BY DEF Cleanup
<1>9. /\ cm' \in [pc : {"idle", "take", "check", "stale", "push"},
                  key : Key \cup {NULL}, conn : Conn \cup {NULL}]
      /\ cm'.key = cm.key /\ cm'.conn = cm.conn
      /\ cm'.pc = IF cm.pc = "check" /\ cm.conn = c THEN "stale" ELSE cm.pc
  BY DEF Cleanup, Safe, MoreTypes
<1>10. TypeOK' BY <1>3, <1>7, <1>8, <1>9 DEF Safe, TypeOK
<1>11. MoreTypes' BY <1>8, <1>9 DEF Safe, MoreTypes
<1>12. MgmtOK'
  <2>1. \A d \in Conn : ParamsOK(conn'[d], sock[d]) BY <1>5, <1>7 DEF Safe, MgmtOK
  <2> QED BY <1>8, <2>1 DEF MgmtOK, ParamsOK, TcpclOK, MtcpOK, SingleOK
<1>13. LinkOK' BY <1>3, <1>4, <1>7 DEF Safe, LinkOK, LinkFine
<1>14. SemOK' BY <1>3, <1>7, <1>8, <1>9 DEF Safe, SemOK, SemFine, CmHolds, TxHolds
<1>15. CmOK'
  <2>1. cm.pc # "idle" => cm.conn \in Conn BY DEF Safe, MoreTypes
  <2> QED BY <1>6, <1>7, <1>8, <1>9, <2>1 DEF Safe, CmOK
<1>16. SingleTable' BY <1>4, <1>7, <1>8 DEF Safe, TypeOK, SingleTable
<1> QED BY <1>8, <1>10, <1>11, <1>12, <1>13, <1>14, <1>15, <1>16 DEF Safe

\* A step of the contact manager.
LEMMA CmStep ==
  ASSUME Safe, fault = "none",
         link' \in [Conn -> Link],
         \A c \in Conn : /\ Len(link'[c].queue) <= TxQueueLength
                         /\ LinkFine(link'[c], conn[c].pc),
         pending' \in [Key -> Seq(Bundle)], table_sem' \in {0, 1},
         cm' \in [pc : {"idle", "take", "check", "stale", "push"},
                  key : Key \cup {NULL}, conn : Conn \cup {NULL}],
         cm'.pc # "idle" => cm'.key \in Key /\ cm'.conn \in Conn,
         fault' \in {"none", "uninitialized", "freed", "not locked"},
         SemOK', CmOK',
         UNCHANGED <<sock, outcome, kind, conn, table, contact, starts, scheduled>>
  PROVE  Safe'
<1>1. TypeOK' BY DEF Safe, TypeOK
<1>2. MoreTypes' BY DEF Safe, MoreTypes
<1>3. MgmtOK'
  <2>1. ASSUME NEW c \in Conn, ParamsOK(conn[c], sock[c]) PROVE ParamsOK(conn[c], sock[c])'
    BY <2>1 DEF ParamsOK, TcpclOK, MtcpOK, SingleOK
  <2> QED BY <2>1 DEF Safe, MgmtOK
<1>4. LinkOK' BY DEF LinkOK
<1>5. SingleTable' BY DEF Safe, SingleTable
<1> QED BY <1>1, <1>2, <1>3, <1>4, <1>5 DEF Safe

\* The contact manager finds the link of a contact.
LEMMA LookupSafe ==
  ASSUME Safe, fault = "none", NEW k \in Key, Lookup(k)
  PROVE  Safe'
<1>1. /\ link' \in [Conn -> Link] /\ link' = link
      /\ \A c \in Conn : /\ Len(link'[c].queue) <= TxQueueLength
                         /\ LinkFine(link'[c], conn[c].pc)
  BY DEF Lookup, Safe, TypeOK, LinkOK
<1>2. table[k] \in Conn BY DEF Lookup, Safe, TypeOK
<1>3. /\ cm' = [pc |-> "take", key |-> k, conn |-> table[k]] /\ cm.pc = "idle"
      /\ fault' \in {"none", "freed"} /\ table_sem' \in {0, 1}
      /\ UNCHANGED <<sock, outcome, kind, conn, table, contact, starts, pending, scheduled>>
  BY DEF Lookup, tcpclv3_get_tx_queue, mtcp_get_tx_queue, cla_tcp_single_get_tx_queue,
         Safe, MoreTypes
<1>4. SemOK' /\ CmOK' BY <1>1, <1>3 DEF Safe, SemOK, SemFine, CmHolds, TxHolds, CmOK
<1>5. pending' \in [Key -> Seq(Bundle)] BY <1>3 DEF Safe, MoreTypes
<1> QED BY <1>1, <1>2, <1>3, <1>4, <1>5, CmStep

\* The contact manager takes the semaphore of the queue: of a link that
\* exists it owns it from here on.
LEMMA TakeQueueSafe ==
  ASSUME Safe, fault = "none", TakeQueue
  PROVE  Safe'
<1>1. PICK c \in Conn : c = cm.conn /\ cm.key \in Key BY DEF TakeQueue, Safe, MoreTypes
<1> DEFINE l == [link[c] EXCEPT !.sem = @ - 1]
<1>2. link \in [Conn -> Link] /\ link[c] \in Link /\ Fits(link[c], c) BY <1>1, LinkFacts
<1>3. /\ cm' \in [pc : {"idle", "take", "check", "stale", "push"},
                  key : Key \cup {NULL}, conn : Conn \cup {NULL}]
      /\ cm'.pc = "check" /\ cm'.conn = c /\ cm'.key = cm.key
      /\ table_sem' \in {0, 1} /\ cm.pc = "take"
      /\ UNCHANGED <<sock, outcome, kind, conn, table, contact, starts, pending, scheduled>>
  BY <1>1 DEF TakeQueue, Safe, MoreTypes
<1>4. fault' \in {"none", "uninitialized", "freed"} /\ (fault' = "none" => link[c].exists)
  BY <1>1 DEF TakeQueue
<1>5. pending' \in [Key -> Seq(Bundle)] BY <1>3 DEF Safe, MoreTypes
<1>6. CASE link[c].exists
  <2>1. link' = [link EXCEPT ![c] = l] /\ link[c].sem > 0 BY <1>1, <1>2, <1>6 DEF TakeQueue
  <2>2. l \in Link /\ l.queue = link[c].queue
    <3>1. link[c].sem - 1 \in 0..2 BY <1>2, <2>1 DEF Link
    <3> QED BY <1>2, <3>1 DEF Link
  <2>3. LinkFine(l, conn[c].pc) BY <1>2, <1>6 DEF Fits, Link, LinkFine, NoLink
  <2>4. /\ l.exists /\ l.handle = link[c].handle /\ l.sem = link[c].sem - 1 /\ l.tx = link[c].tx
    BY <1>2, <1>6 DEF Link
  <2> HIDE DEF l
  <2>5. /\ link' \in [Conn -> Link] /\ link'[c] = l
        /\ \A d \in Conn : d # c => link'[d] = link[d]
    BY <1>1, <1>2, <2>1, <2>2
  <2>6. \A d \in Conn : /\ Len(link'[d].queue) <= TxQueueLength
                        /\ LinkFine(link'[d], conn[d].pc)
    BY <2>2, <2>3, <2>5, <1>2 DEF Fits, Safe, TypeOK, LinkOK
  <2>7. SemOK'
    <3>1. \A d \in Conn : d # c => SemFine(link[d], d)'
      BY <1>3, <2>5 DEF Safe, SemOK, SemFine, CmHolds, TxHolds
    <3>2. SemFine(link[c], c)'
      <4>1. CASE ~link[c].handle BY <2>4, <2>5, <4>1 DEF SemFine
      <4>2. CASE link[c].handle
        <5>1. link[c].sem = 1 BY <1>2, <2>1, <4>2 DEF Fits, SemFine
        <5>2. ~TxHolds(link[c]) BY <1>2, <4>2, <5>1 DEF Fits, SemFine, CmHolds, TxHolds
        <5> QED BY <1>3, <2>4, <2>5, <5>1, <5>2 DEF SemFine, CmHolds, TxHolds
      <4> QED BY <4>1, <4>2
    <3> QED BY <3>1, <3>2 DEF SemOK
  <2>8. CmOK' BY <1>3, <2>4, <2>5 DEF CmOK
  <2> QED BY <1>1, <1>3, <1>4, <1>5, <2>5, <2>6, <2>7, <2>8, CmStep
<1>7. CASE ~link[c].exists
  <2>1. link' = link BY <1>1, <1>7 DEF TakeQueue
  <2>2. \A d \in Conn : /\ Len(link'[d].queue) <= TxQueueLength
                        /\ LinkFine(link'[d], conn[d].pc)
    BY <2>1 DEF Safe, TypeOK, LinkOK
  <2>3. SemOK' /\ CmOK' BY <1>4, <1>7 DEF SemOK, CmOK
  <2> QED BY <1>1, <1>2, <1>3, <1>4, <1>5, <2>1, <2>2, <2>3, CmStep
<1> QED BY <1>6, <1>7

\* The contact manager looks at the handle.
LEMMA CheckQueueSafe ==
  ASSUME Safe, fault = "none", CheckQueue
  PROVE  Safe'
<1>1. PICK c \in Conn : c = cm.conn /\ cm.key \in Key BY DEF CheckQueue, Safe, MoreTypes
<1>2. /\ link' \in [Conn -> Link] /\ link' = link
      /\ \A d \in Conn : /\ Len(link'[d].queue) <= TxQueueLength
                         /\ LinkFine(link'[d], conn[d].pc)
  BY DEF CheckQueue, Safe, TypeOK, LinkOK
<1>3. /\ table_sem' \in {0, 1} /\ pending' \in [Key -> Seq(Bundle)]
      /\ UNCHANGED <<sock, outcome, kind, conn, table, contact, starts, scheduled>>
  BY DEF CheckQueue, mgmtvars, Safe, MoreTypes
<1>4. /\ fault' \in {"none", "freed", "not locked"} 
      /\ fault' = "none" => cm.pc = "check" \/ ~link[c].handle
  BY <1>1 DEF CheckQueue
<1>5. /\ cm' \in [pc : {"idle", "take", "check", "stale", "push"},
                  key : Key \cup {NULL}, conn : Conn \cup {NULL}]
      /\ link[c].handle => cm'.pc = "push" /\ cm'.conn = c /\ cm'.key = cm.key
      /\ ~link[c].handle => cm'.pc = "idle"
  BY <1>1 DEF CheckQueue, Safe, MoreTypes, Idle
<1>6. CmOK' BY <1>2, <1>5 DEF CmOK
<1>7. SemOK'
  <2> SUFFICES ASSUME fault' = "none", NEW d \in Conn PROVE SemFine(link[d], d)' BY DEF SemOK
  <2>1. SemFine(link[d], d) BY DEF Safe, SemOK
  <2>2. link[d].handle => (CmHolds(d) <=> CmHolds(d)')
    BY <1>1, <1>4, <1>5 DEF CmHolds, CheckQueue
  <2> QED BY <1>2, <2>1, <2>2 DEF SemFine, TxHolds
<1> QED BY <1>1, <1>2, <1>3, <1>4, <1>5, <1>6, <1>7, CmStep

\* The contact manager pushes the bundles and releases the semaphore.
LEMMA PushBundlesSafe ==
  ASSUME Safe, fault = "none", PushBundles
  PROVE  Safe'
<1>1. PICK c \in Conn : c = cm.conn /\ cm.key \in Key /\ cm.pc = "push"
  BY DEF PushBundles, Safe, MoreTypes
<1> DEFINE cmd == pending[cm.key]
           l == [link[c] EXCEPT !.queue = Append(@, cmd), !.sem = @ + 1]
<1>2. cmd \in Seq(Bundle) /\ link' = [link EXCEPT ![c] = l]
  BY <1>1 DEF PushBundles, Safe, TypeOK, MoreTypes
<1> HIDE DEF cmd
<1>3. link[c].handle /\ CmHolds(c) BY <1>1 DEF Safe, CmOK, CmHolds
<1>4. /\ table_sem' \in {0, 1} /\ pending' \in [Key -> Seq(Bundle)]
      /\ cm' = Idle /\ fault' = fault /\ Room(c)
      /\ UNCHANGED <<sock, outcome, kind, conn, table, contact, starts, scheduled>>
  BY <1>1 DEF PushBundles, mgmtvars, Safe, MoreTypes
<1>5. link \in [Conn -> Link] /\ link[c] \in Link /\ Fits(link[c], c) BY <1>1, LinkFacts
<1>6. link[c].sem = 0 /\ ~TxHolds(link[c])
  <2>1. link[c].sem \in {0, 1} /\ (link[c].sem = 0 <=> (CmHolds(c) \/ TxHolds(link[c])))
         /\ ~(CmHolds(c) /\ TxHolds(link[c]))
    BY <1>3, <1>5, Zenon DEF Fits, SemFine
  <2> QED BY <1>3, <2>1, Zenon
<1>7. /\ link[c].queue \in Seq(Seq(Bundle)) 
      /\ Append(link[c].queue, cmd) \in Seq(Seq(Bundle))
      /\ Len(Append(link[c].queue, cmd)) = Len(link[c].queue) + 1
  BY <1>2, <1>5 DEF Link
<1>8. l \in Link
  <2>1. link[c].sem + 1 \in 0..2 BY <1>6
  <2> QED BY <1>5, <1>7, <2>1 DEF Link
<1>9. Len(l.queue) <= TxQueueLength BY <1>4, <1>5, <1>7, LinkAssumption DEF Room, Link
<1>10. l.handle /\ l.sem = 1 /\ l.tx = link[c].tx BY <1>3, <1>5, <1>6 DEF Link
<1>11. LinkFine(l, conn[c].pc)
  BY <1>3, <1>5, <1>6 DEF Fits, Link, LinkFine, NoLink, TxHolds
<1> HIDE DEF l
<1>12. /\ link' \in [Conn -> Link] /\ link'[c] = l
       /\ \A d \in Conn : d # c => link'[d] = link[d]
  BY <1>1, <1>2, <1>5, <1>8
<1>13. \A d \in Conn : /\ Len(link'[d].queue) <= TxQueueLength
                       /\ LinkFine(link'[d], conn[d].pc)
  BY <1>9, <1>11, <1>12 DEF Safe, TypeOK, LinkOK
<1>14. CmOK' BY <1>4 DEF CmOK, Idle
<1>15. SemOK'
  <2>1. \A d \in Conn : ~CmHolds(d)' BY <1>4 DEF CmHolds, Idle
  <2>2. \A d \in Conn : d # c => ~CmHolds(d) BY <1>1 DEF CmHolds
  <2>3. SemFine(link[c], c)' BY <1>6, <1>10, <1>12, <2>1 DEF SemFine, TxHolds
  <2>4. ASSUME NEW d \in Conn, d # c PROVE SemFine(link[d], d)'
    <3>1. SemFine(link[d], d) BY DEF Safe, SemOK
    <3> QED BY <1>12, <2>1, <2>2, <2>4, <3>1 DEF SemFine, TxHolds
  <2> QED BY <2>3, <2>4 DEF SemOK
<1>16. /\ cm' \in [pc : {"idle", "take", "check", "stale", "push"},
                   key : Key \cup {NULL}, conn : Conn \cup {NULL}]
       /\ cm'.pc = "idle"
  BY <1>4 DEF Idle
<1> QED BY <1>4, <1>12, <1>13, <1>14, <1>15, <1>16, CmStep

\* Every step keeps the invariant.
LEMMA NextSafe == Safe /\ Next => Safe'
<1> SUFFICES ASSUME Safe, Next PROVE Safe' OBVIOUS
<1>1. fault = "none" BY DEF Next
<1>2. ASSUME NEW c \in Conn, Accept(c) PROVE Safe'
  BY <1>1, <1>2, TcpclListenerSafe, MtcpListenerSafe, SingleListenerSafe DEF Accept
<1>3. ASSUME NEW c \in Conn, Peer(c) PROVE Safe' BY <1>1, <1>3, PeerSafe
<1>4. ASSUME NEW c \in Conn, Manage(c) PROVE Safe'
  <2>1. CASE TcpclLoop(c) \/ MtcpLoop(c) BY <1>1, <2>1, TcpclLoopSafe, MtcpLoopSafe
  <2>2. CASE ConnectFails(c) \/ ConnectSucceeds(c)
    BY <1>1, <2>2, ConnectFailsSafe, ConnectSucceedsSafe
  <2>3. CASE HandshakeFails(c) \/ HandshakeSucceeds(c) \/ Establish(c)
    BY <1>1, <2>3, HandshakeFailsSafe, HandshakeSucceedsSafe, EstablishSafe
  <2>4. CASE LinkInitialized(c) \/ WaitCleanup(c) \/ Cleanup(c)
    BY <1>1, <2>4, LinkInitializedSafe, WaitCleanupSafe, CleanupSafe
  <2>5. CASE TcpclDown(c) \/ After(c) \/ MtcpDown(c)
    BY <1>1, <2>5, TcpclDownSafe, AfterSafe, MtcpDownSafe
  <2>6. CASE SingleDown(c) \/ TcpclRemove(c) \/ MtcpRemove(c) BY <1>1, <2>6, RemoveSafe
  <2> QED BY <1>4, <2>1, <2>2, <2>3, <2>4, <2>5, <2>6 DEF Manage
<1>5. ASSUME NEW c \in Conn, RxTask(c) PROVE Safe'
  BY <1>1, <1>5, RxLoopSafe, RxDataSafe, RxBrokenSafe, RxRequestExitSafe DEF RxTask
<1>6. ASSUME NEW c \in Conn, TxTask(c) PROVE Safe'
  BY <1>1, <1>6, TxLoopSafe, TxReceiveSafe, TxBeginSafe, TxSendSafe, TxLockSafe, TxDrainSafe,
     TxRequestExitSafe DEF TxTask
<1>7. ASSUME NEW k \in Key, StartContact(k) \/ EndContact(k) PROVE Safe'
  BY <1>1, <1>7, StartContactSafe, EndContactSafe
<1>8. ASSUME NEW b \in Bundle, NEW k \in Key, Schedule(b, k) PROVE Safe'
  BY <1>1, <1>8, ScheduleSafe
<1>9. CASE HandOver
  BY <1>1, <1>9, LookupSafe, TakeQueueSafe, CheckQueueSafe, PushBundlesSafe DEF HandOver
<1> QED BY <1>2, <1>3, <1>4, <1>5, <1>6, <1>7, <1>8, <1>9 DEF Next

\* The inductive invariant holds in every reachable state: of the beliefs of
\* the management tasks, the life of the links, the owner of each tx_queue_sem
\* and the place of the contact manager in hand_over_contact_bundles.
THEOREM SafeAlways == Spec => []Safe
<1>1. Safe /\ [Next]_vars => Safe' BY NextSafe, StutterSafe
<1> QED BY InitSafe, <1>1, PTL DEF Spec

\* Every variable has its type, and no TX queue ever holds more commands than
\* cla_link_init made room for.
THEOREM TcpTypeOK == Spec => []TypeOK
<1>1. Safe => TypeOK BY DEF Safe
<1> QED BY <1>1, SafeAlways, PTL

\* No ASSERT of the CLA code fails, whatever the order in which peers
\* connect, break and come back, contacts start and end and links are taken
\* over, and a TX task of tcpclv3 only sends on an established connection.
THEOREM TcpAsserts == Spec => []AssertsHold
<1>1. Safe => AssertsHold
  <2> SUFFICES ASSUME Safe, NEW c \in Conn, kind = "tcpclv3",
                      link[c].tx \in {"send", "sending", "request_exit"}
               PROVE  conn[c].state = "established"
    BY DEF Safe, AssertsHold
  <2>1. conn[c].pc = "wait" BY DEF Safe, LinkOK, LinkFine, NoLink
  <2> QED BY <2>1 DEF Safe, MgmtOK, ParamsOK, TcpclOK
<1> QED BY <1>1, SafeAlways, PTL

-----------------------------------------------------------------------------
(***************************************************************************)
(* The tables of connections                                               *)
(***************************************************************************)
\* An entry of the table is alive and has the key for its name; a connection
\* of mtcp that is alive is in the table.
TableOK == \A k \in Key : table[k] # NULL =>
             /\ conn[table[k]].mem = "live"
             /\ kind # "single" => conn[table[k]].name = k

MtcpPrimary == kind = "mtcp" => \A c \in Conn : conn[c].mem = "live" => table[conn[c].name] = c

Named == TableOK /\ MtcpPrimary /\ PlannedIsPrimary

\* No connection is born, freed, renamed or planned.
SameOwner == \A d \in Conn : /\ conn'[d].mem = conn[d].mem /\ conn'[d].name = conn[d].name
                             /\ conn'[d].planned => conn[d].planned

\* A step that changes neither who is who nor who is in the table.
LEMMA OwnerStep ==
  ASSUME Safe, Named, table' = table, kind' = kind, SameOwner
  PROVE  Named'
<1>1. table \in [Key -> Conn \cup {NULL}] BY DEF Safe, TypeOK
<1>2. TableOK' BY <1>1 DEF Named, TableOK, SameOwner
<1>3. MtcpPrimary' BY DEF Named, MtcpPrimary, SameOwner
<1>4. PlannedIsPrimary' BY DEF Named, PlannedIsPrimary, SameOwner
<1> QED BY <1>2, <1>3, <1>4 DEF Named

\* A step that leaves the connections alone.
LEMMA ConnSameNamed ==
  ASSUME Safe, Named, kind' = kind, conn' = conn,
         table' = table \/ (kind = "single" /\ table' = NoEntry)
  PROVE  Named'
<1>1. CASE table' = table BY <1>1, OwnerStep DEF SameOwner
<1>2. CASE kind = "single" /\ table' = NoEntry
  BY <1>2 DEF Safe, MgmtOK, ParamsOK, SingleOK, Named, TableOK, MtcpPrimary, PlannedIsPrimary, NoEntry
<1> QED BY <1>1, <1>2

\* Most steps of a management task change only where it is.
LEMMA ManageSameNamed ==
  ASSUME Safe, Named, NEW c \in Conn,
         \/ TcpclLoop(c) \/ MtcpLoop(c) \/ ConnectFails(c) \/ ConnectSucceeds(c)
         \/ HandshakeFails(c) \/ LinkInitialized(c) \/ Cleanup(c)
         \/ TcpclDown(c) \/ After(c) \/ MtcpDown(c)
  PROVE  Named'
<1>1. conn \in [Conn -> Params] /\ \A d \in Conn : conn[d] \in Params BY DEF Safe, TypeOK
<1>2. table' = table /\ kind' = kind
  BY DEF TcpclLoop, MtcpLoop, ConnectFails, ConnectSucceeds, HandshakeFails, LinkInitialized,
         Cleanup, TcpclDown, After, MtcpDown
<1>3. SameOwner
  <2>1. CASE TcpclLoop(c) \/ MtcpLoop(c) \/ HandshakeFails(c) \/ LinkInitialized(c) \/ Cleanup(c)
    <3>1. PICK pc : conn' = [conn EXCEPT ![c].pc = pc]
      BY <2>1 DEF TcpclLoop, MtcpLoop, HandshakeFails, LinkInitialized, Cleanup, Goto
    <3> QED BY <1>1, <3>1 DEF SameOwner, Params
  <2>2. CASE ConnectFails(c)
    <3>1. PICK pc : conn' = [conn EXCEPT ![c].tries = @ + 1, ![c].pc = pc]
      BY <2>2 DEF ConnectFails
    <3> QED BY <1>1, <3>1 DEF SameOwner, Params
  <2>3. CASE ConnectSucceeds(c) \/ TcpclDown(c)
    <3>1. PICK st, pc : conn' = [conn EXCEPT ![c].state = st, ![c].pc = pc]
      BY <2>3 DEF ConnectSucceeds, TcpclDown
    <3> QED BY <1>1, <3>1 DEF SameOwner, Params
  <2>4. CASE After(c) \/ MtcpDown(c)
    <3>1. \/ \E pc : conn' = [conn EXCEPT ![c].state = "connecting", ![c].tries = 0, ![c].pc = pc]
          \/ conn' = [conn EXCEPT ![c].pc = "remove"]
      BY <2>4 DEF After, MtcpDown
    <3> QED BY <1>1, <3>1 DEF SameOwner, Params
  <2> QED BY <2>1, <2>2, <2>3, <2>4
<1> QED BY <1>2, <1>3, OwnerStep

\* A peer announces the name it was configured with, or the name of an
\* incoming connection, which is not in the table yet.
LEMMA HandshakeNamed ==
  ASSUME SameNames, Safe, Named, NEW c \in Conn, HandshakeSucceeds(c)
  PROVE  Named'
<1>1. /\ conn \in [Conn -> Params] /\ conn[c] \in Params /\ ParamsOK(conn[c], sock[c])
      /\ table \in [Key -> Conn \cup {NULL}]
  BY ConnFacts
<1>2. PICK k \in Key : /\ conn[c].name = NULL \/ k = conn[c].name
                       /\ conn' = [conn EXCEPT ![c].name = k, ![c].pc = "establish"]
  <2>1. conn[c].name \in Key \cup {NULL} BY <1>1 DEF Params
  <2>2. PICK k \in Key : /\ conn[c].name = NULL \/ k \in PeerName(conn[c].name)
                         /\ conn' = [conn EXCEPT ![c].name = k, ![c].pc = "establish"]
    BY DEF HandshakeSucceeds
  <2>3. conn[c].name = NULL \/ k = conn[c].name BY <2>1, <2>2 DEF SameNames
  <2> QED BY <2>2, <2>3
<1>3. /\ conn'[c].name = k /\ conn'[c].mem = conn[c].mem /\ conn'[c].planned = conn[c].planned
      /\ \A d \in Conn : d # c => conn'[d] = conn[d]
  BY <1>1, <1>2 DEF Params
<1>4. kind \notin {"mtcp", "single"} /\ table' = table /\ kind' = kind
  BY <1>1 DEF HandshakeSucceeds, ParamsOK, MtcpOK, SingleOK
<1>5. TableOK' BY <1>1, <1>2, <1>3, <1>4, TcpAssumption DEF Named, TableOK
<1>6. MtcpPrimary' BY <1>4 DEF MtcpPrimary
<1>7. PlannedIsPrimary' BY <1>1, <1>2, <1>3, <1>4, TcpAssumption DEF Named, PlannedIsPrimary
<1> QED BY <1>5, <1>6, <1>7 DEF Named

\* A new connection is not in the table.
LEMMA ListenerNamed ==
  ASSUME Safe, Named, NEW c \in Conn, Accept(c)
  PROVE  Named'
<1>1. /\ conn \in [Conn -> Params] /\ conn[c] \in Params /\ ParamsOK(conn[c], sock[c])
      /\ table \in [Key -> Conn \cup {NULL}]
  BY ConnFacts
<1>2. conn[c].mem = "unborn" BY DEF Accept, tcpclv3_listener_task, mtcp_listener_task,
                                    cla_tcp_single_listen_task, Accepted
<1>3. \A k \in Key : table[k] # c BY <1>2, TcpAssumption DEF Named, TableOK
<1>4. CASE tcpclv3_listener_task(c)
  <2>1. /\ kind = "tcpclv3" /\ kind' = kind /\ table' = table
        /\ conn'[c].mem = "live" /\ ~conn'[c].planned
        /\ \A d \in Conn : d # c => conn'[d] = conn[d]
    BY <1>1, <1>4 DEF tcpclv3_listener_task, TcpclLaunch
  <2> QED BY <1>1, <1>3, <2>1 DEF Named, TableOK, MtcpPrimary, PlannedIsPrimary
<1>5. ASSUME NEW k \in Key, mtcp_listener_task(c, k) PROVE Named'
  <2>1. kind = "mtcp" /\ kind' = kind BY <1>5 DEF mtcp_listener_task
  <2>2. CASE table[k] = NULL
    <3>1. /\ table'[k] = c /\ \A h \in Key : h # k => table'[h] = table[h]
          /\ conn'[c].mem = "live" /\ ~conn'[c].planned /\ conn'[c].name = k
          /\ \A d \in Conn : d # c => conn'[d] = conn[d]
      BY <1>1, <1>5, <2>2 DEF mtcp_listener_task, MtcpLaunch, htab_add, htab_get
    <3>2. \A d \in Conn : conn[d].mem = "live" => conn[d].name # k /\ conn[d].name \in Key
      BY <1>1, <2>1, <2>2, TcpAssumption DEF Named, MtcpPrimary, Safe, MgmtOK, ParamsOK, MtcpOK, Params
    <3>3. TableOK' BY <1>1, <1>3, <2>1, <3>1 DEF Named, TableOK
    <3>4. MtcpPrimary' BY <2>1, <3>1, <3>2 DEF Named, MtcpPrimary
    <3>5. PlannedIsPrimary' BY <3>1, <3>2 DEF Named, PlannedIsPrimary
    <3> QED BY <3>3, <3>4, <3>5 DEF Named
  <2>3. CASE table[k] # NULL
    <3>1. /\ table' = table
          /\ conn'[c].mem = "freed" /\ ~conn'[c].planned
          /\ \A d \in Conn : d # c => conn'[d] = conn[d]
      BY <1>1, <1>5, <2>3, FreedFacts DEF mtcp_listener_task, MtcpLaunch, htab_add, htab_get
    <3> QED BY <1>1, <1>3, <2>1, <3>1 DEF Named, TableOK, MtcpPrimary, PlannedIsPrimary
  <2> QED BY <2>2, <2>3
<1>6. CASE cla_tcp_single_listen_task(c)
  <2>1. /\ kind = "single" /\ kind' = kind /\ table' = [k \in Key |-> c]
        /\ conn'[c].mem = "live" /\ conn'[c].planned = conn[c].planned
        /\ \A d \in Conn : d # c => conn'[d] = conn[d]
    BY <1>1, <1>6 DEF cla_tcp_single_listen_task, Params
  <2>2. \A d \in Conn : ~conn[d].planned BY <2>1 DEF Safe, MgmtOK, ParamsOK, SingleOK
  <2> QED BY <2>1, <2>2 DEF Named, TableOK, MtcpPrimary, PlannedIsPrimary
<1> QED BY <1>4, <1>5, <1>6 DEF Accept

\* The connection that is freed leaves the table, and only it.
LEMMA RemoveNamed ==
  ASSUME Safe, Named, NEW c \in Conn, TcpclRemove(c) \/ MtcpRemove(c) \/ SingleDown(c)
  PROVE  Named'
<1>1. /\ conn \in [Conn -> Params] /\ conn[c] \in Params /\ ParamsOK(conn[c], sock[c])
      /\ table \in [Key -> Conn \cup {NULL}]
  BY ConnFacts
<1>2. /\ kind' = kind /\ conn'[c].mem = "freed" /\ ~conn'[c].planned
      /\ \A d \in Conn : d # c => conn'[d] = conn[d]
  BY <1>1, FreedFacts DEF TcpclRemove, MtcpRemove, SingleDown, FreeParams
<1>3. CASE kind # "single"
  <2>1. conn[c].mem = "live" BY <1>1, <1>3 DEF TcpclRemove, MtcpRemove, SingleDown, ParamsOK
  <2>2. \A k \in Key : table'[k] = IF table[k] = c THEN NULL ELSE table[k]
    <3>1. CASE TcpclRemove(c)
      BY <1>1, <1>3, <3>1, TcpAssumption DEF TcpclRemove, htab_remove, htab_get, Named, TableOK, Params
    <3>2. CASE MtcpRemove(c)
      <4>1. kind = "mtcp" /\ conn[c].name \in Key /\ table[conn[c].name] = c
        BY <1>1, <2>1, <3>2 DEF MtcpRemove, ParamsOK, MtcpOK, Named, MtcpPrimary, Params
      <4> QED BY <1>1, <3>2, <4>1, TcpAssumption DEF MtcpRemove, htab_remove, Named, TableOK
    <3> QED BY <1>3, <3>1, <3>2 DEF SingleDown
  <2>3. TableOK' BY <1>1, <1>2, <2>2 DEF Named, TableOK
  <2>4. MtcpPrimary'
    <3>1. kind = "mtcp" => \A d \in Conn : conn[d].mem = "live" => conn[d].name \in Key
      BY DEF Safe, TypeOK, MgmtOK, ParamsOK, MtcpOK, Params
    <3> QED BY <1>2, <2>2, <3>1 DEF Named, MtcpPrimary
  <2>5. PlannedIsPrimary'
    <3>1. \A d \in Conn : conn[d].name \in Key \cup {NULL} BY DEF Safe, TypeOK, Params
    <3> QED BY <1>2, <2>2, <3>1 DEF Named, PlannedIsPrimary
  <2> QED BY <2>3, <2>4, <2>5 DEF Named
<1>4. CASE kind = "single"
  <2>1. table' = NoEntry BY <1>4 DEF TcpclRemove, MtcpRemove, SingleDown
  <2>2. \A d \in Conn : ~conn[d].planned BY <1>4 DEF Safe, MgmtOK, ParamsOK, SingleOK
  <2> QED BY <1>2, <1>4, <2>1, <2>2 DEF NoEntry, Named, TableOK, MtcpPrimary, PlannedIsPrimary
<1> QED BY <1>3, <1>4

\* The connection that is given up is not planned any more.
LEMMA TakeOverPlans ==
  ASSUME NEW p \in [Conn -> Params], NEW c \in Conn, NEW other \in Conn
  PROVE  LET q == take_over(p, c, other)
         IN /\ other # c => ~q[other].planned
            /\ \A d \in Conn : d \notin {c, other} => q[d].planned = p[d].planned
BY DEF take_over, Params

\* A connection that is not planned has nothing to give.
LEMMA GiveOverPlans ==
  ASSUME NEW p \in [Conn -> Params], NEW c \in Conn, NEW other \in Conn, ~p[c].planned
  PROVE  give_over(p, c, other) = p
BY DEF give_over

\* Whichever connection handle_established_connection decides for is in the
\* table and has the planned status.
LEMMA EstablishNamed ==
  ASSUME Safe, Named, NEW c \in Conn, Establish(c)
  PROVE  Named'
<1>1. /\ conn \in [Conn -> Params] /\ conn[c] \in Params /\ ParamsOK(conn[c], sock[c])
      /\ table \in [Key -> Conn \cup {NULL}]
  BY ConnFacts
<1>2. /\ kind = "tcpclv3" /\ kind' = kind /\ conn[c].name \in Key /\ conn[c].mem = "live"
      /\ conn[c].state = "connected"
  <2>1. kind \notin {"mtcp", "single"} /\ kind \in {"tcpclv3", "mtcp", "single"} /\ kind' = kind
    BY <1>1, TcpAssumption DEF Establish, ParamsOK, MtcpOK, SingleOK, Safe, MoreTypes
  <2> QED BY <1>1, <2>1 DEF Establish, ParamsOK, TcpclOK, Params
<1>3. PICK k \in Key : k = conn[c].name BY <1>2
<1>4. PICK other \in Conn \cup {NULL} : other = table[k] BY <1>1
<1>5. ASSUME NEW q \in [Conn -> Params], SamePlace(conn, q),
             conn' = [q EXCEPT ![c].state = "established", ![c].pc = "link_init"]
      PROVE  /\ \A d \in Conn : /\ conn'[d].mem = conn[d].mem /\ conn'[d].name = conn[d].name
                                /\ conn'[d].planned = q[d].planned
  <2>1. \A d \in Conn : q[d] \in Params OBVIOUS
  <2> QED BY <1>5, <2>1 DEF SamePlace, Params
<1>6. CASE other = NULL
  <2>1. /\ table'[k] = c /\ \A h \in Key : h # k => table'[h] = table[h]
        /\ conn' = [conn EXCEPT ![c].state = "established", ![c].pc = "link_init"]
    BY <1>1, <1>3, <1>4, <1>6 DEF Establish, htab_add, htab_get
  <2>2. \A d \in Conn : /\ conn'[d].mem = conn[d].mem /\ conn'[d].name = conn[d].name
                        /\ conn'[d].planned = conn[d].planned
    BY <1>1, <1>5, <2>1 DEF SamePlace
  <2>3. \A d \in Conn : conn[d].name \in Key \cup {NULL} BY DEF Safe, TypeOK, Params
  <2>4. TableOK' BY <1>1, <1>2, <1>3, <2>1, <2>2, TcpAssumption DEF Named, TableOK
  <2>5. MtcpPrimary' BY <1>2 DEF MtcpPrimary
  <2>6. PlannedIsPrimary'
    <3> SUFFICES ASSUME NEW d \in Conn, conn[d].mem = "live", conn[d].planned
                 PROVE  conn[d].name # NULL /\ table'[conn[d].name] = d
      BY <2>2 DEF PlannedIsPrimary
    <3>1. conn[d].name # NULL /\ table[conn[d].name] = d BY DEF Named, PlannedIsPrimary
    <3>2. conn[d].name # k BY <1>4, <1>6, <3>1, TcpAssumption
    <3> QED BY <2>1, <2>3, <3>1, <3>2
  <2> QED BY <2>4, <2>5, <2>6 DEF Named
<1>7. CASE other # NULL /\ table' = htab_add(htab_remove(table, k), k, c)
           /\ conn' = [take_over(conn, c, other) EXCEPT ![c].state = "established", ![c].pc = "link_init"]
  <2>1. other \in Conn BY <1>7
  <2> DEFINE q == take_over(conn, c, other)
  <2>2. /\ q \in [Conn -> Params] /\ SamePlace(conn, q)
        /\ other # c => ~q[other].planned
        /\ \A d \in Conn : d \notin {c, other} => q[d].planned = conn[d].planned
    BY <1>1, <2>1, OverFacts, TakeOverPlans
  <2>3. conn' = [q EXCEPT ![c].state = "established", ![c].pc = "link_init"] BY <1>7
  <2> HIDE DEF q
  <2>4. \A d \in Conn : /\ conn'[d].mem = conn[d].mem /\ conn'[d].name = conn[d].name
                        /\ conn'[d].planned = q[d].planned
    BY <1>5, <2>2, <2>3
  <2>5. table'[k] = c /\ \A h \in Key : h # k => table'[h] = table[h]
    BY <1>1, <1>7 DEF htab_add, htab_get, htab_remove
  <2>6. TableOK' BY <1>1, <1>2, <1>3, <2>4, <2>5, TcpAssumption DEF Named, TableOK
  <2>7. MtcpPrimary' BY <1>2 DEF MtcpPrimary
  <2>8. PlannedIsPrimary'
    <3> SUFFICES ASSUME NEW d \in Conn, conn'[d].mem = "live", conn'[d].planned
                 PROVE  conn'[d].name # NULL /\ table'[conn'[d].name] = d
      BY DEF PlannedIsPrimary
    <3>1. CASE d = c BY <1>2, <1>3, <2>4, <2>5, <3>1, TcpAssumption
    <3>2. CASE d # c
      <4>1. d # other BY <2>2, <2>4, <3>2
      <4>2. conn[d].planned /\ conn[d].mem = "live" BY <2>2, <2>4, <3>2, <4>1
      <4>3. conn[d].name # NULL /\ table[conn[d].name] = d BY <4>2 DEF Named, PlannedIsPrimary
      <4>4. conn[d].name \in Key BY <4>3 DEF Safe, TypeOK, Params
      <4> QED BY <1>4, <2>4, <2>5, <4>1, <4>3, <4>4
    <3> QED BY <3>1, <3>2
  <2> QED BY <2>6, <2>7, <2>8 DEF Named
<1>8. CASE other # NULL /\ Left(other) /\ table' = htab_add(table, k, c)
           /\ conn' = [give_over(conn, c, other) EXCEPT ![c].state = "established", ![c].pc = "link_init"]
  <2>1. other \in Conn /\ other # c BY <1>2, <1>8 DEF Left
  <2>2. ~conn[c].planned BY <1>2, <1>3, <1>4, <2>1 DEF Named, PlannedIsPrimary
  <2>3. conn' = [conn EXCEPT ![c].state = "established", ![c].pc = "link_init"]
    BY <1>1, <1>8, <2>1, <2>2, GiveOverPlans
  <2>4. SameOwner BY <1>1, <1>5, <2>3 DEF SamePlace, SameOwner
  <2>5. table' = table BY <1>4, <1>8 DEF htab_add, htab_get
  <2> QED BY <1>2, <2>4, <2>5, OwnerStep
<1> QED BY <1>3, <1>4, <1>6, <1>7, <1>8 DEF Establish

\* A contact is told to the connection in the table, or to a new one.
LEMMA StartContactNamed ==
  ASSUME Safe, Named, NEW k \in Key, StartContact(k)
  PROVE  Named'
<1>1. /\ conn \in [Conn -> Params] /\ \A d \in Conn : conn[d] \in Params
      /\ table \in [Key -> Conn \cup {NULL}] /\ kind' = kind
  BY DEF Safe, TypeOK, StartContact
<1>2. CASE kind = "single" /\ UNCHANGED <<conn, table>> BY <1>1, <1>2, ConnSameNamed
<1>3. CASE kind # "single" /\ htab_get(table, k) # NULL
  <2>1. PICK c \in Conn : c = table[k] BY <1>1, <1>3 DEF htab_get
  <2>2. /\ conn' = [conn EXCEPT ![c].planned = TRUE, ![c].addr = TRUE] /\ table' = table
    BY <1>3, <2>1 DEF StartContact, tcpclv3_start_scheduled_contact, mtcp_start_scheduled_contact,
                cla_tcp_single_start_scheduled_contact, Associate, htab_get
  <2>3. /\ conn'[c].mem = conn[c].mem /\ conn'[c].name = conn[c].name
        /\ \A d \in Conn : d # c => conn'[d] = conn[d]
    BY <1>1, <2>2 DEF Params
  <2>4. conn[c].name = k BY <1>3, <2>1, TcpAssumption DEF Named, TableOK
  <2> QED BY <1>1, <2>1, <2>2, <2>3, <2>4, TcpAssumption
          DEF Named, TableOK, MtcpPrimary, PlannedIsPrimary
<1>4. CASE kind # "single" /\ htab_get(table, k) = NULL
  <2>1. PICK c \in Conn : \/ kind = "tcpclv3" /\ TcpclLaunch(k, c)
                          \/ kind = "mtcp" /\ MtcpLaunch(k, c, FALSE)
    BY <1>4 DEF StartContact, tcpclv3_start_scheduled_contact, mtcp_start_scheduled_contact,
                cla_tcp_single_start_scheduled_contact
  <2>2. /\ table'[k] = c /\ \A h \in Key : h # k => table'[h] = table[h]
        /\ conn'[c].mem = "live" /\ conn'[c].name = k
        /\ \A d \in Conn : d # c => conn'[d] = conn[d]
        /\ conn[c].mem = "unborn"
    BY <1>1, <1>4, <2>1, TcpAssumption DEF TcpclLaunch, MtcpLaunch, htab_add, htab_get
  <2>3. \A h \in Key : table[h] # c BY <2>2, TcpAssumption DEF Named, TableOK
  <2>4. table[k] = NULL BY <1>4 DEF htab_get
  <2>5. TableOK' BY <1>1, <2>2, <2>3, TcpAssumption DEF Named, TableOK
  <2>6. MtcpPrimary'
    <3>1. kind = "mtcp" => \A d \in Conn : conn[d].mem = "live" => conn[d].name \in Key
      BY DEF Safe, TypeOK, MgmtOK, ParamsOK, MtcpOK, Params
    <3> QED BY <1>1, <2>2, <2>4, <3>1, TcpAssumption DEF Named, MtcpPrimary
  <2>7. PlannedIsPrimary'
    <3>1. \A d \in Conn : conn[d].name \in Key \cup {NULL} BY <1>1 DEF Params
    <3> QED BY <2>2, <2>4, <3>1, TcpAssumption DEF Named, PlannedIsPrimary
  <2> QED BY <2>5, <2>6, <2>7 DEF Named
<1> QED BY <1>2, <1>3, <1>4 DEF StartContact, tcpclv3_start_scheduled_contact,
           mtcp_start_scheduled_contact, cla_tcp_single_start_scheduled_contact

\* The connection in the table is told that the contact is over.
LEMMA EndContactNamed ==
  ASSUME Safe, Named, NEW k \in Key, EndContact(k)
  PROVE  Named'
<1>1. /\ conn \in [Conn -> Params] /\ \A d \in Conn : conn[d] \in Params
      /\ table \in [Key -> Conn \cup {NULL}] /\ kind' = kind /\ table' = table
  BY DEF Safe, TypeOK, EndContact
<1>2. SameOwner
  <2>1. CASE UNCHANGED conn BY <2>1 DEF SameOwner
  <2>2. CASE htab_get(table, k) # NULL /\ conn' = [conn EXCEPT ![htab_get(table, k)].planned = FALSE]
    <3>1. htab_get(table, k) \in Conn BY <1>1, <2>2 DEF htab_get
    <3> QED BY <1>1, <2>2, <3>1 DEF SameOwner, Params
  <2> QED BY <2>1, <2>2 DEF EndContact, tcpclv3_end_scheduled_contact, mtcp_end_scheduled_contact,
                            cla_tcp_single_end_scheduled_contact, NotPlanned
<1> QED BY <1>1, <1>2, OwnerStep

\* Every step keeps the tables in order.
LEMMA NextNamed == ASSUME SameNames, Safe, Named, Next PROVE Named'
<1>1. ASSUME NEW c \in Conn, Accept(c) PROVE Named' BY <1>1, ListenerNamed
<1>2. ASSUME NEW c \in Conn, Peer(c) PROVE Named'
  BY <1>2, ConnSameNamed DEF Peer, mgmtvars
<1>3. ASSUME NEW c \in Conn, Manage(c) PROVE Named'
  <2>1. CASE \/ TcpclLoop(c) \/ MtcpLoop(c) \/ ConnectFails(c) \/ ConnectSucceeds(c)
             \/ HandshakeFails(c) \/ LinkInitialized(c) \/ Cleanup(c)
             \/ TcpclDown(c) \/ After(c) \/ MtcpDown(c)
    BY <2>1, ManageSameNamed
  <2>2. CASE HandshakeSucceeds(c) BY <2>2, HandshakeNamed
  <2>3. CASE Establish(c) BY <2>3, EstablishNamed
  <2>4. CASE WaitCleanup(c) BY <2>4, ConnSameNamed DEF WaitCleanup, mgmtvars
  <2>5. CASE SingleDown(c) \/ TcpclRemove(c) \/ MtcpRemove(c) BY <2>5, RemoveNamed
  <2> QED BY <1>3, <2>1, <2>2, <2>3, <2>4, <2>5 DEF Manage
<1>4. ASSUME NEW c \in Conn, RxTask(c) \/ TxTask(c) PROVE Named'
  BY <1>4, ConnSameNamed DEF RxTask, TxTask, Forget, mgmtvars
<1>5. ASSUME NEW k \in Key, StartContact(k) PROVE Named' BY <1>5, StartContactNamed
<1>6. ASSUME NEW k \in Key, EndContact(k) PROVE Named' BY <1>6, EndContactNamed
<1>7. ASSUME NEW b \in Bundle, NEW k \in Key, Schedule(b, k) PROVE Named'
  BY <1>7, ConnSameNamed DEF Schedule, mgmtvars
<1>8. CASE HandOver
  BY <1>8, ConnSameNamed DEF HandOver, Lookup, TakeQueue, CheckQueue, PushBundles, mgmtvars
<1> QED BY <1>1, <1>2, <1>3, <1>4, <1>5, <1>6, <1>7, <1>8 DEF Next

\* If every peer announces the name it is configured with, the tables are
\* always in order.
LEMMA NamedAlways == ASSUME SameNames PROVE Spec => []Named
<1>1. Init => Named
  BY DEF Init, Named, TableOK, MtcpPrimary, PlannedIsPrimary, NoEntry, Unborn
<1>2. Safe /\ Named /\ [Next]_vars => Named'
  <2>1. Safe /\ Named /\ UNCHANGED vars => Named' BY ConnSameNamed DEF vars, mgmtvars
  <2> QED BY <2>1, NextNamed
<1> QED BY <1>1, <1>2, SafeAlways, PTL DEF Spec

\* The tables hand out memory that is still allocated: no connection is found
\* by htab_get or through config->link after its management task freed it, if
\* every peer announces the EID it is configured with.
THEOREM TcpTableIsLive == ASSUME SameNames PROVE Spec => []TableIsLive
<1>1. Named => TableIsLive BY DEF Named, TableOK, TableIsLive, Dangling
<1> QED BY <1>1, NamedAlways, PTL

\* A connection with the planned status is the one in the table, the only one
\* that tcpclv3_end_scheduled_contact and mtcp_end_scheduled_contact reach, if
\* every peer announces the EID it is configured with.
THEOREM TcpPlannedIsPrimary == ASSUME SameNames PROVE Spec => []PlannedIsPrimary
<1>1. Named => PlannedIsPrimary BY DEF Named
<1> QED BY <1>1, NamedAlways, PTL

-----------------------------------------------------------------------------
(***************************************************************************)
(* No bundle that the router gave to a contact is lost or duplicated by    *)
(* the convergence layers.                                                 *)
(*                                                                         *)
(* That each bundle is at one place is not inductive: a list could hold it *)
(* twice.  Kept says that it is at one spot, a position of one list.       *)
(***************************************************************************)
\* The spots: position i of the list of contact k, of the command in the hands
\* of the TX task of c, of command g of its queue.
Pend(b, k, i) == i \in DOMAIN pending[k] /\ pending[k][i] = b
Held(b, c, i) == i \in DOMAIN link[c].batch /\ link[c].batch[i] = b
Queued(b, c, g, i) == /\ g \in DOMAIN link[c].queue /\ i \in DOMAIN link[c].queue[g]
                      /\ link[c].queue[g][i] = b

IsPend(b) == \E k \in Key, i \in Nat : Pend(b, k, i)
IsHeld(b) == \E c \in Conn, i \in Nat : Held(b, c, i)
IsQueued(b) == \E c \in Conn, g, i \in Nat : Queued(b, c, g, i)
IsReported(b) == outcome[b] # "none"

\* The bundle is at one spot, if it is scheduled, and at none otherwise.
Once(b) ==
  /\ \A k, h \in Key, i, j \in Nat : Pend(b, k, i) /\ Pend(b, h, j) => k = h /\ i = j
  /\ \A c, d \in Conn, i, j \in Nat : Held(b, c, i) /\ Held(b, d, j) => c = d /\ i = j
  /\ \A c, d \in Conn, g, h, i, j \in Nat :
       Queued(b, c, g, i) /\ Queued(b, d, h, j) => c = d /\ g = h /\ i = j
  /\ ~(IsPend(b) /\ IsHeld(b)) /\ ~(IsPend(b) /\ IsQueued(b)) /\ ~(IsPend(b) /\ IsReported(b))
  /\ ~(IsHeld(b) /\ IsQueued(b)) /\ ~(IsHeld(b) /\ IsReported(b))
  /\ ~(IsQueued(b) /\ IsReported(b))
  /\ (b \in scheduled) <=> (IsPend(b) \/ IsHeld(b) \/ IsQueued(b) \/ IsReported(b))

Kept == \A b \in Bundle : Once(b)

\* A bundle that is at one spot is at one place.
LEMMA KeptStranded == Safe /\ Kept => NoBundleStranded
<1> SUFFICES ASSUME Safe, Kept, NEW b \in scheduled
             PROVE  \E p \in Places(b) : Places(b) = {p}
  BY DEF NoBundleStranded
<1>1. b \in Bundle /\ Once(b) BY DEF Safe, MoreTypes, Kept
<1>2. \A k \in Key : b \in ToSet(pending[k]) <=> \E i \in Nat : Pend(b, k, i)
  <2>1. \A k \in Key : pending[k] \in Seq(Bundle) BY DEF Safe, MoreTypes
  <2> QED BY <2>1 DEF ToSet, Pend
<1>3. \A c \in Conn : b \in ToSet(link[c].batch) <=> \E i \in Nat : Held(b, c, i)
  <2>1. \A c \in Conn : link[c].batch \in Seq(Bundle) BY DEF Safe, TypeOK, Link
  <2> QED BY <2>1 DEF ToSet, Held
<1>4. \A c \in Conn : (\E g \in DOMAIN link[c].queue : b \in ToSet(link[c].queue[g]))
                      <=> \E g, i \in Nat : Queued(b, c, g, i)
  <2>1. \A c \in Conn : link[c].queue \in Seq(Seq(Bundle)) BY DEF Safe, TypeOK, Link
  <2>2. \A c \in Conn : \A g \in DOMAIN link[c].queue : g \in Nat /\ link[c].queue[g] \in Seq(Bundle)
    BY <2>1
  <2> QED BY <2>2 DEF ToSet, Queued
<1> DEFINE P == {k \in Key : b \in ToSet(pending[k])}
           H == {c \in Conn : b \in ToSet(link[c].batch)}
           Q == {c \in Conn : \E i \in DOMAIN link[c].queue : b \in ToSet(link[c].queue[i])}
           R == {outcome[b]} \ {"none"}
<1>5. /\ P # {} <=> IsPend(b)
      /\ H # {} <=> IsHeld(b)
      /\ Q # {} <=> IsQueued(b)
      /\ R # {} <=> IsReported(b)
  BY <1>2, <1>3, <1>4 DEF IsPend, IsHeld, IsQueued, IsReported
<1>6. /\ \A k, h \in P : k = h
      /\ \A c, d \in H : c = d
      /\ \A c, d \in Q : c = d
      /\ \A r, s \in R : r = s
  BY <1>1, <1>2, <1>3, <1>4 DEF Once
<1>7. Places(b) = [where : {"pending"}, of : P] \cup [where : {"batch"}, of : H]
                  \cup [where : {"queue"}, of : Q] \cup [where : {"reported"}, of : R]
  BY DEF Places
<1> HIDE DEF P, H, Q, R
<1>8. CASE IsPend(b)
  <2>1. PICK k \in P : P = {k} BY <1>5, <1>6, <1>8
  <2>2. H = {} /\ Q = {} /\ R = {} BY <1>1, <1>5, <1>8 DEF Once
  <2>3. Places(b) = {[where |-> "pending", of |-> k]} BY <1>7, <2>1, <2>2
  <2> QED BY <2>3
<1>9. CASE IsHeld(b)
  <2>1. PICK c \in H : H = {c} BY <1>5, <1>6, <1>9
  <2>2. P = {} /\ Q = {} /\ R = {} BY <1>1, <1>5, <1>9 DEF Once
  <2>3. Places(b) = {[where |-> "batch", of |-> c]} BY <1>7, <2>1, <2>2
  <2> QED BY <2>3
<1>10. CASE IsQueued(b)
  <2>1. PICK c \in Q : Q = {c} BY <1>5, <1>6, <1>10
  <2>2. P = {} /\ H = {} /\ R = {} BY <1>1, <1>5, <1>10 DEF Once
  <2>3. Places(b) = {[where |-> "queue", of |-> c]} BY <1>7, <2>1, <2>2
  <2> QED BY <2>3
<1>11. CASE IsReported(b)
  <2>1. PICK r \in R : R = {r} BY <1>5, <1>6, <1>11
  <2>2. P = {} /\ H = {} /\ Q = {} BY <1>1, <1>5, <1>11 DEF Once
  <2>3. Places(b) = {[where |-> "reported", of |-> r]} BY <1>7, <2>1, <2>2
  <2> QED BY <2>3
<1> QED BY <1>1, <1>8, <1>9, <1>10, <1>11 DEF Once

\* The bundles stay where they are.
Stay == /\ \A b \in Bundle :
             /\ \A k \in Key, i \in Nat : Pend(b, k, i)' <=> Pend(b, k, i)
             /\ \A c \in Conn, i \in Nat : Held(b, c, i)' <=> Held(b, c, i)
             /\ \A c \in Conn, g, i \in Nat : Queued(b, c, g, i)' <=> Queued(b, c, g, i)
        /\ outcome' = outcome /\ scheduled' = scheduled

\* A step that moves no bundle.
LEMMA StayKept == Kept /\ Stay => Kept'
<1> SUFFICES ASSUME Kept, Stay, NEW b \in Bundle PROVE Once(b)' BY DEF Kept
<1>1. Once(b) BY DEF Kept
<1>2. /\ (IsPend(b)' <=> IsPend(b)) /\ (IsHeld(b)' <=> IsHeld(b))
      /\ (IsQueued(b)' <=> IsQueued(b)) /\ (IsReported(b)' <=> IsReported(b))
  BY DEF Stay, IsPend, IsHeld, IsQueued, IsReported
<1> QED BY <1>1, <1>2 DEF Stay, Once

\* A step that changes no list of bundles.
LEMMA QuietStep ==
  ASSUME Kept, pending' = pending, outcome' = outcome, scheduled' = scheduled,
         \A c \in Conn : link'[c].batch = link[c].batch /\ link'[c].queue = link[c].queue
  PROVE  Kept'
<1>1. Stay BY DEF Stay, Pend, Held, Queued
<1> QED BY <1>1, StayKept

\* A step of one link that changes neither its queue nor its batch.
LEMMA OneLinkStep ==
  ASSUME Kept, link \in [Conn -> Link], NEW c \in Conn, NEW l, link' = [link EXCEPT ![c] = l],
         l.batch = link[c].batch, l.queue = link[c].queue,
         pending' = pending, outcome' = outcome, scheduled' = scheduled
  PROVE  Kept'
<1>1. \A d \in Conn : link'[d].batch = link[d].batch /\ link'[d].queue = link[d].queue OBVIOUS
<1> QED BY <1>1, QuietStep

\* The router puts a bundle it has not scheduled before on a contact.
LEMMA ScheduleKept ==
  ASSUME Safe, Kept, NEW b0 \in Bundle, NEW k0 \in Key, Schedule(b0, k0)
  PROVE  Kept'
<1>1. pending \in [Key -> Seq(Bundle)] BY DEF Safe, MoreTypes
<1>2. PICK n \in Nat : n = Len(pending[k0]) BY <1>1
<1>3. /\ b0 \notin scheduled /\ scheduled' = scheduled \cup {b0}
      /\ UNCHANGED <<link, outcome>>
      /\ pending' = [pending EXCEPT ![k0] = Append(pending[k0], b0)]
  BY DEF Schedule, linkvars
<1>4. \A b \in Bundle, k \in Key, i \in Nat :
        Pend(b, k, i)' <=> Pend(b, k, i) \/ (b = b0 /\ k = k0 /\ i = n + 1)
  <2>1. \A i \in Nat :
          i \in DOMAIN Append(pending[k0], b0) <=> (i \in DOMAIN pending[k0] \/ i = n + 1)
    BY <1>1, <1>2
  <2>2. /\ \A i \in DOMAIN pending[k0] : Append(pending[k0], b0)[i] = pending[k0][i]
        /\ Append(pending[k0], b0)[n + 1] = b0 /\ n + 1 \notin DOMAIN pending[k0]
    BY <1>1, <1>2
  <2>3. pending'[k0] = Append(pending[k0], b0) /\ \A k \in Key : k # k0 => pending'[k] = pending[k]
    BY <1>1, <1>3
  <2> QED BY <2>1, <2>2, <2>3 DEF Pend
<1> SUFFICES ASSUME NEW b \in Bundle PROVE Once(b)' BY DEF Kept
<1>5. Once(b) /\ Once(b0) BY DEF Kept
<1>6. /\ \A c \in Conn, i \in Nat : Held(b, c, i)' <=> Held(b, c, i)
      /\ \A c \in Conn, g, i \in Nat : Queued(b, c, g, i)' <=> Queued(b, c, g, i)
  BY <1>3 DEF Held, Queued
<1>7. /\ IsHeld(b)' <=> IsHeld(b)
      /\ (IsQueued(b)' <=> IsQueued(b)) /\ (IsReported(b)' <=> IsReported(b))
  BY <1>3, <1>6 DEF IsHeld, IsQueued, IsReported
<1>8. CASE b # b0
  <2>1. \A k \in Key, i \in Nat : Pend(b, k, i)' <=> Pend(b, k, i) BY <1>4, <1>8
  <2>2. IsPend(b)' <=> IsPend(b) BY <2>1 DEF IsPend
  <2>3. b \in scheduled' <=> b \in scheduled BY <1>3, <1>8
  <2> QED BY <1>5, <1>6, <1>7, <2>1, <2>2, <2>3 DEF Once
<1>9. CASE b = b0
  <2>1. ~IsPend(b) /\ ~IsHeld(b) /\ ~IsQueued(b) /\ ~IsReported(b) BY <1>3, <1>5, <1>9 DEF Once
  <2>2. \A k \in Key, i \in Nat : Pend(b, k, i)' <=> (k = k0 /\ i = n + 1)
    BY <1>4, <1>9, <2>1 DEF IsPend
  <2>3. IsPend(b)' BY <2>2 DEF IsPend
  <2> QED BY <1>3, <1>5, <1>6, <1>7, <1>9, <2>1, <2>2, <2>3 DEF Once
<1> QED BY <1>8, <1>9

\* hand_over_contact_bundles: the bundles leave the contact and become the
\* last command of one queue, in the same order.
LEMMA PushKept ==
  ASSUME Safe, Kept, PushBundles
  PROVE  Kept'
<1>1. PICK c0 \in Conn, k0 \in Key : c0 = cm.conn /\ k0 = cm.key
  BY DEF PushBundles, Safe, MoreTypes
<1>2. /\ pending \in [Key -> Seq(Bundle)] /\ link \in [Conn -> Link]
      /\ link[c0] \in Link /\ link[c0].queue \in Seq(Seq(Bundle)) /\ pending[k0] \in Seq(Bundle)
  BY DEF Safe, MoreTypes, TypeOK, Link
<1>3. PICK n \in Nat : n = Len(link[c0].queue) BY <1>2
<1>4. /\ UNCHANGED <<outcome, scheduled>>
      /\ pending' = [pending EXCEPT ![k0] = <<>>]
      /\ link' = [link EXCEPT ![c0].queue = Append(link[c0].queue, pending[k0]), ![c0].sem = @ + 1]
  BY <1>1 DEF PushBundles
<1>5. /\ link'[c0].queue = Append(link[c0].queue, pending[k0]) /\ link'[c0].batch = link[c0].batch
      /\ \A d \in Conn : d # c0 => link'[d] = link[d]
  BY <1>2, <1>4 DEF Link
<1>6. \A b \in Bundle, k \in Key, i \in Nat : Pend(b, k, i)' <=> Pend(b, k, i) /\ k # k0
  BY <1>2, <1>4 DEF Pend
<1>7. \A b \in Bundle, c \in Conn, i \in Nat : Held(b, c, i)' <=> Held(b, c, i)
  BY <1>5 DEF Held
<1>8. \A b \in Bundle, c \in Conn, g, i \in Nat :
        Queued(b, c, g, i)' <=> Queued(b, c, g, i) \/ (c = c0 /\ g = n + 1 /\ Pend(b, k0, i))
  <2> DEFINE q == link[c0].queue
             p == pending[k0]
  <2>1. \A i \in Nat : i \in DOMAIN Append(q, p) <=> (i \in DOMAIN q \/ i = n + 1)
    BY <1>2, <1>3
  <2>2. /\ \A i \in DOMAIN q : Append(q, p)[i] = q[i]
        /\ Append(q, p)[n + 1] = p /\ n + 1 \notin DOMAIN q
    BY <1>2, <1>3
  <2> SUFFICES ASSUME NEW b \in Bundle, NEW c \in Conn, NEW g \in Nat, NEW i \in Nat
               PROVE  Queued(b, c, g, i)'
                        <=> Queued(b, c, g, i) \/ (c = c0 /\ g = n + 1 /\ Pend(b, k0, i))
    OBVIOUS
  <2>3. CASE c # c0 BY <1>5, <2>3 DEF Queued
  <2>4. CASE c = c0
    <3>1. link'[c].queue = Append(q, p) BY <1>5, <2>4
    <3> HIDE DEF q, p
    <3>2. CASE g \in DOMAIN q BY <2>1, <2>2, <2>4, <3>1, <3>2 DEF Queued, q
    <3>3. CASE g = n + 1 BY <2>1, <2>2, <2>4, <3>1, <3>3 DEF Queued, Pend, q, p
    <3>4. CASE g \notin DOMAIN q /\ g # n + 1 BY <2>1, <2>4, <3>1, <3>4 DEF Queued, q
    <3> QED BY <3>2, <3>3, <3>4
  <2> QED BY <2>3, <2>4
<1> SUFFICES ASSUME NEW b \in Bundle PROVE Once(b)' BY DEF Kept
<1>9. Once(b) BY DEF Kept
<1>10. (IsHeld(b)' <=> IsHeld(b)) /\ (IsReported(b)' <=> IsReported(b)) 
  BY <1>4, <1>7 DEF IsHeld, IsReported
<1>11. CASE \E i \in Nat : Pend(b, k0, i)
  <2>1. IsPend(b) /\ ~IsHeld(b) /\ ~IsQueued(b) /\ ~IsReported(b)
    BY <1>9, <1>11 DEF Once, IsPend
  <2>2. \A k \in Key, i \in Nat : ~Pend(b, k, i)' BY <1>6, <1>9, <1>11 DEF Once
  <2>3. ~IsPend(b)' BY <2>2 DEF IsPend
  <2>4. \A c \in Conn, g, i \in Nat :
          Queued(b, c, g, i)' <=> (c = c0 /\ g = n + 1 /\ Pend(b, k0, i))
    BY <1>8, <2>1 DEF IsQueued
  <2>5. IsQueued(b)' BY <1>11, <2>4 DEF IsQueued
  <2> QED BY <1>4, <1>7, <1>9, <1>10, <2>1, <2>2, <2>3, <2>4, <2>5 DEF Once
<1>12. CASE ~\E i \in Nat : Pend(b, k0, i)
  <2>1. /\ \A k \in Key, i \in Nat : Pend(b, k, i)' <=> Pend(b, k, i)
        /\ \A c \in Conn, g, i \in Nat : Queued(b, c, g, i)' <=> Queued(b, c, g, i)
    BY <1>6, <1>8, <1>12
  <2>2. (IsPend(b)' <=> IsPend(b)) /\ (IsQueued(b)' <=> IsQueued(b)) BY <2>1 DEF IsPend, IsQueued
  <2> QED BY <1>4, <1>7, <1>9, <1>10, <2>1, <2>2 DEF Once
<1> QED BY <1>11, <1>12

\* The elements of a sequence with one more at the end.
LEMMA AppendFacts ==
  ASSUME NEW S, NEW s \in Seq(S), NEW e \in S, NEW n \in Nat, n = Len(s)
  PROVE  /\ \A i \in Nat : i \in DOMAIN Append(s, e) <=> (i \in DOMAIN s \/ i = n + 1)
         /\ \A i \in DOMAIN s : Append(s, e)[i] = s[i]
         /\ Append(s, e)[n + 1] = e /\ n + 1 \notin DOMAIN s
  OBVIOUS

\* FINALIZE brings no bundle with it.
LEMMA RequestExitKept ==
  ASSUME Safe, Kept, NEW c0 \in Conn, RxRequestExit(c0) \/ TxRequestExit(c0),
         UNCHANGED <<pending, scheduled>>
  PROVE  Kept'
<1>1. /\ link \in [Conn -> Link] /\ link[c0] \in Link /\ link[c0].queue \in Seq(Seq(Bundle))
  BY DEF Safe, TypeOK, Link
<1>2. /\ link'[c0].queue = Append(link[c0].queue, <<>>) /\ link'[c0].batch = link[c0].batch
      /\ \A d \in Conn : d # c0 => link'[d] = link[d]
      /\ outcome' = outcome
  BY <1>1 DEF RxRequestExit, TxRequestExit, FINALIZE, Link
<1> DEFINE q == link[c0].queue
<1>3. PICK n \in Nat : n = Len(q) BY <1>1
<1>4. /\ \A i \in Nat : i \in DOMAIN Append(q, <<>>) <=> (i \in DOMAIN q \/ i = n + 1)
      /\ \A i \in DOMAIN q : Append(q, <<>>)[i] = q[i]
      /\ Append(q, <<>>)[n + 1] = <<>> /\ n + 1 \notin DOMAIN q
  <2>1. <<>> \in Seq(Bundle) OBVIOUS
  <2> QED BY <1>1, <1>3, <2>1, AppendFacts
<1>5. \A b \in Bundle, c \in Conn, g, i \in Nat : Queued(b, c, g, i)' <=> Queued(b, c, g, i)
  <2> SUFFICES ASSUME NEW b \in Bundle, NEW c \in Conn, NEW g \in Nat, NEW i \in Nat
               PROVE  Queued(b, c, g, i)' <=> Queued(b, c, g, i)
    OBVIOUS
  <2>1. CASE c # c0 BY <1>2, <2>1 DEF Queued
  <2>2. CASE c = c0
    <3>1. link'[c].queue = Append(q, <<>>) BY <1>2, <2>2
    <3> HIDE DEF q
    <3>2. CASE g \in DOMAIN q BY <1>4, <2>2, <3>1, <3>2 DEF Queued, q
    <3>3. CASE g = n + 1
      <4>1. link'[c].queue[g] = <<>> BY <1>4, <3>1, <3>3
      <4> QED BY <1>4, <2>2, <3>3, <4>1 DEF Queued, q
    <3>4. CASE g \notin DOMAIN q /\ g # n + 1 BY <1>4, <2>2, <3>1, <3>4 DEF Queued, q
    <3> QED BY <3>2, <3>3, <3>4
  <2> QED BY <2>1, <2>2
<1>6. Stay BY <1>2, <1>5 DEF Stay, Pend, Held
<1> QED BY <1>6, StayKept

\* The elements of the tail of a sequence.
LEMMA TailFacts ==
  ASSUME NEW S, NEW s \in Seq(S), s # <<>>
  PROVE  /\ Head(s) = s[1] /\ 1 \in DOMAIN s /\ Tail(s) \in Seq(S)
         /\ \A i \in Nat : i \in DOMAIN Tail(s) <=> (i # 0 /\ i + 1 \in DOMAIN s)
         /\ \A i \in DOMAIN Tail(s) : Tail(s)[i] = s[i + 1]
  OBVIOUS

\* The TX task takes a command: its hands were empty.
LEMMA TxReceiveKept ==
  ASSUME Safe, Kept, NEW c0 \in Conn, TxReceive(c0), UNCHANGED <<pending, scheduled>>
  PROVE  Kept'
<1>1. /\ link \in [Conn -> Link] /\ link[c0] \in Link /\ link[c0].queue \in Seq(Seq(Bundle))
      /\ link[c0].queue # <<>> /\ link[c0].batch = <<>>
  BY DEF Safe, TypeOK, Link, LinkOK, LinkFine, TxReceive, Sending
<1> DEFINE q == link[c0].queue
<1>2. /\ link'[c0].queue = Tail(q) /\ link'[c0].batch = Head(q)
      /\ \A d \in Conn : d # c0 => link'[d] = link[d]
      /\ outcome' = outcome
  BY <1>1 DEF TxReceive, Link
<1>3. /\ Head(q) = q[1] /\ 1 \in DOMAIN q
      /\ \A i \in Nat : i \in DOMAIN Tail(q) <=> (i # 0 /\ i + 1 \in DOMAIN q)
      /\ \A i \in DOMAIN Tail(q) : Tail(q)[i] = q[i + 1]
      /\ 0 \notin DOMAIN q
  BY <1>1, TailFacts
<1>4. /\ \A b \in Bundle, i \in Nat : ~Held(b, c0, i) /\ (Held(b, c0, i)' <=> Queued(b, c0, 1, i))
      /\ \A b \in Bundle, g, i \in Nat : Queued(b, c0, g, i)' <=> g # 0 /\ Queued(b, c0, g + 1, i)
      /\ \A b \in Bundle, i \in Nat : ~Queued(b, c0, 0, i)
  <2>1. \A b \in Bundle, i \in Nat : ~Held(b, c0, i) BY <1>1 DEF Held
  <2>2. \A b \in Bundle, i \in Nat : Held(b, c0, i)' <=> Queued(b, c0, 1, i)
    BY <1>2, <1>3 DEF Held, Queued
  <2>3. \A b \in Bundle, g, i \in Nat : Queued(b, c0, g, i)' <=> g # 0 /\ Queued(b, c0, g + 1, i)
    BY <1>2, <1>3 DEF Queued
  <2>4. \A b \in Bundle, i \in Nat : ~Queued(b, c0, 0, i) BY <1>3 DEF Queued
  <2> QED BY <2>1, <2>2, <2>3, <2>4
<1>5. \A b \in Bundle, d \in Conn, g, i \in Nat :
         d # c0 => (Held(b, d, i)' <=> Held(b, d, i)) /\ (Queued(b, d, g, i)' <=> Queued(b, d, g, i))
  BY <1>2 DEF Held, Queued
<1> SUFFICES ASSUME NEW b \in Bundle PROVE Once(b)' BY DEF Kept
<1>6. Once(b) BY DEF Kept
<1>7. /\ \A k \in Key, i \in Nat : Pend(b, k, i)' <=> Pend(b, k, i)
      /\ (IsPend(b)' <=> IsPend(b)) /\ (IsReported(b)' <=> IsReported(b))
  BY <1>2 DEF Pend, IsPend, IsReported
<1>8. CASE \E i \in Nat : Queued(b, c0, 1, i)
  <2>1. ~IsPend(b) /\ ~IsHeld(b) /\ IsQueued(b) /\ ~IsReported(b)
    BY <1>6, <1>8 DEF Once, IsQueued
  <2>2. \A c \in Conn, g, i \in Nat : Queued(b, c, g, i) => c = c0 /\ g = 1
    BY <1>6, <1>8 DEF Once
  <2>3. \A c \in Conn, g, i \in Nat : ~Queued(b, c, g, i)' BY <1>4, <1>5, <2>2
  <2>4. \A c \in Conn, i \in Nat : Held(b, c, i)' <=> c = c0 /\ Queued(b, c0, 1, i)
    BY <1>4, <1>5, <2>1 DEF IsHeld
  <2>5. IsHeld(b)' /\ ~IsQueued(b)' BY <1>8, <2>3, <2>4 DEF IsHeld, IsQueued
  <2> QED BY <1>6, <1>7, <2>1, <2>3, <2>4, <2>5 DEF Once
<1>9. CASE ~\E i \in Nat : Queued(b, c0, 1, i)
  <2>1. \A c \in Conn, i \in Nat : Held(b, c, i)' <=> Held(b, c, i) BY <1>4, <1>5, <1>9
  <2>2. \A c, d \in Conn, g, h, i, j \in Nat :
          Queued(b, c, g, i)' /\ Queued(b, d, h, j)' => c = d /\ g = h /\ i = j
    <3> SUFFICES ASSUME NEW c \in Conn, NEW d \in Conn, NEW g \in Nat, NEW h \in Nat, NEW i \in Nat,
                        NEW j \in Nat, Queued(b, c, g, i)', Queued(b, d, h, j)'
                 PROVE  c = d /\ g = h /\ i = j
      OBVIOUS
    <3>1. /\ Queued(b, c, IF c = c0 THEN g + 1 ELSE g, i)
          /\ Queued(b, d, IF d = c0 THEN h + 1 ELSE h, j)
      <4>1. ASSUME NEW e \in Conn, NEW m \in Nat, NEW n \in Nat, Queued(b, e, m, n)'
            PROVE  Queued(b, e, IF e = c0 THEN m + 1 ELSE m, n)
        <5>1. CASE e = c0 BY <1>4, <4>1, <5>1
        <5>2. CASE e # c0 BY <1>5, <4>1, <5>2
        <5> QED BY <5>1, <5>2
      <4> QED BY <4>1
    <3> QED BY <1>6, <3>1 DEF Once
  <2>3. IsQueued(b)' <=> IsQueued(b)
    <3>1. ASSUME IsQueued(b) PROVE IsQueued(b)'
      <4>1. PICK c \in Conn, g \in Nat, i \in Nat : Queued(b, c, g, i) BY <3>1 DEF IsQueued
      <4>2. CASE c # c0 BY <1>5, <4>1, <4>2 DEF IsQueued
      <4>3. CASE c = c0
        <5>1. g # 0 /\ g # 1 BY <1>4, <1>9, <4>1, <4>3
        <5>2. g - 1 \in Nat /\ g - 1 # 0 /\ (g - 1) + 1 = g BY <5>1
        <5>3. Queued(b, c0, g - 1, i)' BY <1>4, <4>1, <4>3, <5>2
        <5> QED BY <5>2, <5>3 DEF IsQueued
      <4> QED BY <4>2, <4>3
    <3>2. ASSUME IsQueued(b)' PROVE IsQueued(b)
      <4>1. PICK c \in Conn, g \in Nat, i \in Nat : Queued(b, c, g, i)' BY <3>2 DEF IsQueued
      <4>2. Queued(b, c, IF c = c0 THEN g + 1 ELSE g, i) BY <1>4, <1>5, <4>1
      <4> QED BY <4>2 DEF IsQueued
    <3> QED BY <3>1, <3>2
  <2>4. IsHeld(b)' <=> IsHeld(b) BY <2>1 DEF IsHeld
  <2> QED BY <1>6, <1>7, <2>1, <2>2, <2>3, <2>4 DEF Once
<1> QED BY <1>8, <1>9

\* The TX task reports the first bundle of its command, which is nowhere else.
LEMMA ReportKept ==
  ASSUME Safe, Kept, NEW c0 \in Conn, NEW result \in {"success", "failure"},
         link[c0].tx \in {"send", "sending"}, Report(c0, result),
         UNCHANGED <<pending, scheduled>>
  PROVE  Kept'
<1>1. /\ link \in [Conn -> Link] /\ link[c0] \in Link /\ link[c0].batch \in Seq(Bundle)
      /\ link[c0].batch # <<>> /\ outcome \in [Bundle -> {"none", "success", "failure"}]
  BY DEF Safe, TypeOK, Link, LinkOK, LinkFine, Sending
<1> DEFINE s == link[c0].batch
<1>2. PICK b0 \in Bundle : b0 = Head(s) BY <1>1
<1>3. /\ link'[c0].queue = link[c0].queue /\ link'[c0].batch = Tail(s)
      /\ \A d \in Conn : d # c0 => link'[d] = link[d]
      /\ outcome' = [outcome EXCEPT ![b0] = result]
  BY <1>1, <1>2 DEF Report, Link
<1>4. /\ Head(s) = s[1] /\ 1 \in DOMAIN s
      /\ \A i \in Nat : i \in DOMAIN Tail(s) <=> (i # 0 /\ i + 1 \in DOMAIN s)
      /\ \A i \in DOMAIN Tail(s) : Tail(s)[i] = s[i + 1]
      /\ 0 \notin DOMAIN s
  BY <1>1, TailFacts
<1>5. /\ Held(b0, c0, 1)
      /\ \A b \in Bundle : Held(b, c0, 1) => b = b0
      /\ \A b \in Bundle, i \in Nat : Held(b, c0, i)' <=> i # 0 /\ Held(b, c0, i + 1)
      /\ \A b \in Bundle : ~Held(b, c0, 0)
  <2>1. Held(b0, c0, 1) /\ \A b \in Bundle : Held(b, c0, 1) => b = b0 BY <1>2, <1>4 DEF Held
  <2>2. \A b \in Bundle, i \in Nat : Held(b, c0, i)' <=> i # 0 /\ Held(b, c0, i + 1)
    BY <1>3, <1>4 DEF Held
  <2>3. \A b \in Bundle : ~Held(b, c0, 0) BY <1>4 DEF Held
  <2> QED BY <2>1, <2>2, <2>3
<1>6. \A b \in Bundle, d \in Conn, i \in Nat : d # c0 => (Held(b, d, i)' <=> Held(b, d, i))
  BY <1>3 DEF Held
<1> SUFFICES ASSUME NEW b \in Bundle PROVE Once(b)' BY DEF Kept
<1>7. Once(b) BY DEF Kept
<1>8. /\ \A k \in Key, i \in Nat : Pend(b, k, i)' <=> Pend(b, k, i)
      /\ \A c \in Conn, g, i \in Nat : Queued(b, c, g, i)' <=> Queued(b, c, g, i)
  BY <1>3 DEF Pend, Queued
<1>9. (IsPend(b)' <=> IsPend(b)) /\ (IsQueued(b)' <=> IsQueued(b))
  BY <1>8 DEF IsPend, IsQueued
<1>10. CASE b = b0
  <2>1. IsHeld(b) /\ ~IsPend(b) /\ ~IsQueued(b) /\ b \in scheduled
    BY <1>5, <1>7, <1>10 DEF Once, IsHeld
  <2>2. \A c \in Conn, i \in Nat : Held(b, c, i) => c = c0 /\ i = 1 BY <1>5, <1>7, <1>10 DEF Once
  <2>3. \A c \in Conn, i \in Nat : ~Held(b, c, i)' BY <1>5, <1>6, <2>2
  <2>4. ~IsHeld(b)' /\ IsReported(b)' BY <1>1, <1>3, <1>10, <2>3 DEF IsHeld, IsReported
  <2> QED BY <1>7, <1>8, <1>9, <2>1, <2>3, <2>4 DEF Once
<1>11. CASE b # b0
  <2>1. IsReported(b)' <=> IsReported(b) BY <1>1, <1>3, <1>11 DEF IsReported
  <2>2. \A c, d \in Conn, i, j \in Nat : Held(b, c, i)' /\ Held(b, d, j)' => c = d /\ i = j
    <3> SUFFICES ASSUME NEW c \in Conn, NEW d \in Conn, NEW i \in Nat, NEW j \in Nat,
                        Held(b, c, i)', Held(b, d, j)'
                 PROVE  c = d /\ i = j
      OBVIOUS
    <3>1. Held(b, c, IF c = c0 THEN i + 1 ELSE i) /\ Held(b, d, IF d = c0 THEN j + 1 ELSE j)
      BY <1>5, <1>6
    <3> QED BY <1>7, <3>1 DEF Once
  <2>3. IsHeld(b)' <=> IsHeld(b)
    <3>1. ASSUME IsHeld(b) PROVE IsHeld(b)'
      <4>1. PICK c \in Conn, i \in Nat : Held(b, c, i) BY <3>1 DEF IsHeld
      <4>2. CASE c # c0 BY <1>6, <4>1, <4>2 DEF IsHeld
      <4>3. CASE c = c0
        <5>1. i # 0 /\ i # 1 BY <1>5, <1>11, <4>1, <4>3
        <5>2. i - 1 \in Nat /\ i - 1 # 0 /\ (i - 1) + 1 = i BY <5>1
        <5>3. Held(b, c0, i - 1)' BY <1>5, <4>1, <4>3, <5>2
        <5> QED BY <5>2, <5>3 DEF IsHeld
      <4> QED BY <4>2, <4>3
    <3>2. ASSUME IsHeld(b)' PROVE IsHeld(b)
      <4>1. PICK c \in Conn, i \in Nat : Held(b, c, i)' BY <3>2 DEF IsHeld
      <4>2. Held(b, c, IF c = c0 THEN i + 1 ELSE i) BY <1>5, <1>6, <4>1
      <4> QED BY <4>2 DEF IsHeld
    <3> QED BY <3>1, <3>2
  <2> QED BY <1>7, <1>8, <1>9, <2>1, <2>2, <2>3 DEF Once
<1> QED BY <1>10, <1>11

\* The TX task reports the bundles of a command it found when it ended.
LEMMA TxDrainKept ==
  ASSUME Safe, Kept, NEW c0 \in Conn, TxDrain(c0), link[c0].queue # <<>>,
         UNCHANGED <<pending, scheduled>>
  PROVE  Kept'
<1>1. /\ link \in [Conn -> Link] /\ link[c0] \in Link /\ link[c0].queue \in Seq(Seq(Bundle))
      /\ outcome \in [Bundle -> {"none", "success", "failure"}]
  BY DEF Safe, TypeOK, Link
<1> DEFINE q == link[c0].queue
<1>2. /\ link'[c0].queue = Tail(q) /\ link'[c0].batch = link[c0].batch
      /\ \A d \in Conn : d # c0 => link'[d] = link[d]
      /\ outcome' = [b \in Bundle |-> IF b \in ToSet(Head(q)) THEN "failure" ELSE outcome[b]]
  BY <1>1 DEF TxDrain, Link
<1>3. /\ Head(q) = q[1] /\ 1 \in DOMAIN q
      /\ \A i \in Nat : i \in DOMAIN Tail(q) <=> (i # 0 /\ i + 1 \in DOMAIN q)
      /\ \A i \in DOMAIN Tail(q) : Tail(q)[i] = q[i + 1]
      /\ 0 \notin DOMAIN q
  BY <1>1, TailFacts
<1>4. /\ \A b \in Bundle, g, i \in Nat : Queued(b, c0, g, i)' <=> g # 0 /\ Queued(b, c0, g + 1, i)
      /\ \A b \in Bundle, i \in Nat : ~Queued(b, c0, 0, i)
      /\ \A b \in Bundle : b \in ToSet(Head(q)) <=> \E i \in Nat : Queued(b, c0, 1, i)
  <2>1. \A b \in Bundle, g, i \in Nat : Queued(b, c0, g, i)' <=> g # 0 /\ Queued(b, c0, g + 1, i)
    BY <1>2, <1>3 DEF Queued
  <2>2. \A b \in Bundle, i \in Nat : ~Queued(b, c0, 0, i) BY <1>3 DEF Queued
  <2>3. \A b \in Bundle : b \in ToSet(Head(q)) <=> \E i \in Nat : Queued(b, c0, 1, i)
    <3>1. q[1] \in Seq(Bundle) BY <1>1, <1>3
    <3> QED BY <1>3, <3>1 DEF Queued, ToSet
  <2> QED BY <2>1, <2>2, <2>3
<1>5. \A b \in Bundle, d \in Conn, g, i \in Nat :
         d # c0 => (Queued(b, d, g, i)' <=> Queued(b, d, g, i))
  BY <1>2 DEF Queued
<1> HIDE DEF q
<1> SUFFICES ASSUME NEW b \in Bundle PROVE Once(b)' BY DEF Kept
<1>6. Once(b) BY DEF Kept
<1>7. /\ \A k \in Key, i \in Nat : Pend(b, k, i)' <=> Pend(b, k, i)
      /\ \A c \in Conn, i \in Nat : Held(b, c, i)' <=> Held(b, c, i)
  BY <1>2 DEF Pend, Held
<1>8. (IsPend(b)' <=> IsPend(b)) /\ (IsHeld(b)' <=> IsHeld(b)) BY <1>7 DEF IsPend, IsHeld
<1>9. CASE \E i \in Nat : Queued(b, c0, 1, i)
  <2>1. ~IsPend(b) /\ ~IsHeld(b) /\ IsQueued(b) /\ b \in scheduled
    BY <1>6, <1>9 DEF Once, IsQueued
  <2>2. \A c \in Conn, g, i \in Nat : Queued(b, c, g, i) => c = c0 /\ g = 1
    BY <1>6, <1>9 DEF Once
  <2>3. \A c \in Conn, g, i \in Nat : ~Queued(b, c, g, i)' BY <1>4, <1>5, <2>2
  <2>4. IsReported(b)' /\ ~IsQueued(b)' BY <1>2, <1>4, <1>9, <2>3 DEF IsReported, IsQueued
  <2> QED BY <1>6, <1>7, <1>8, <2>1, <2>3, <2>4 DEF Once
<1>10. CASE ~\E i \in Nat : Queued(b, c0, 1, i)
  <2>1. IsReported(b)' <=> IsReported(b) BY <1>2, <1>4, <1>10 DEF IsReported
  <2>2. \A c, d \in Conn, g, h, i, j \in Nat :
          Queued(b, c, g, i)' /\ Queued(b, d, h, j)' => c = d /\ g = h /\ i = j
    <3> SUFFICES ASSUME NEW c \in Conn, NEW d \in Conn, NEW g \in Nat, NEW h \in Nat, NEW i \in Nat,
                        NEW j \in Nat, Queued(b, c, g, i)', Queued(b, d, h, j)'
                 PROVE  c = d /\ g = h /\ i = j
      OBVIOUS
    <3>1. /\ Queued(b, c, IF c = c0 THEN g + 1 ELSE g, i)
          /\ Queued(b, d, IF d = c0 THEN h + 1 ELSE h, j)
      <4>1. ASSUME NEW e \in Conn, NEW m \in Nat, NEW n \in Nat, Queued(b, e, m, n)'
            PROVE  Queued(b, e, IF e = c0 THEN m + 1 ELSE m, n)
        <5>1. CASE e = c0 BY <1>4, <4>1, <5>1
        <5>2. CASE e # c0 BY <1>5, <4>1, <5>2
        <5> QED BY <5>1, <5>2
      <4> QED BY <4>1
    <3> QED BY <1>6, <3>1 DEF Once
  <2>3. IsQueued(b)' <=> IsQueued(b)
    <3>1. ASSUME IsQueued(b) PROVE IsQueued(b)'
      <4>1. PICK c \in Conn, g \in Nat, i \in Nat : Queued(b, c, g, i) BY <3>1 DEF IsQueued
      <4>2. CASE c # c0 BY <1>5, <4>1, <4>2 DEF IsQueued
      <4>3. CASE c = c0
        <5>1. g # 0 /\ g # 1 BY <1>4, <1>10, <4>1, <4>3
        <5>2. g - 1 \in Nat /\ g - 1 # 0 /\ (g - 1) + 1 = g BY <5>1
        <5>3. Queued(b, c0, g - 1, i)' BY <1>4, <4>1, <4>3, <5>2
        <5> QED BY <5>2, <5>3 DEF IsQueued
      <4> QED BY <4>2, <4>3
    <3>2. ASSUME IsQueued(b)' PROVE IsQueued(b)
      <4>1. PICK c \in Conn, g \in Nat, i \in Nat : Queued(b, c, g, i)' BY <3>2 DEF IsQueued
      <4>2. Queued(b, c, IF c = c0 THEN g + 1 ELSE g, i) BY <1>4, <1>5, <4>1
      <4> QED BY <4>2 DEF IsQueued
    <3> QED BY <3>1, <3>2
  <2> QED BY <1>6, <1>7, <1>8, <2>1, <2>2, <2>3 DEF Once
<1> QED BY <1>9, <1>10

\* A link without bundles is reset.
LEMMA EmptiedKept ==
  ASSUME Kept, link \in [Conn -> Link], NEW c \in Conn, NEW l, link' = [link EXCEPT ![c] = l],
         l.batch = <<>>, l.queue = <<>>, link[c].batch = <<>>,
         \A i \in DOMAIN link[c].queue : link[c].queue[i] = <<>>,
         UNCHANGED <<pending, outcome, scheduled>>
  PROVE  Kept'
<1>1. link'[c] = l /\ \A d \in Conn : d # c => link'[d] = link[d] OBVIOUS
<1>2. \A b \in Bundle, d \in Conn, i \in Nat : Held(b, d, i)' <=> Held(b, d, i)
  BY <1>1 DEF Held
<1>3. \A b \in Bundle, d \in Conn, g, i \in Nat : Queued(b, d, g, i)' <=> Queued(b, d, g, i)
  <2>1. \A b \in Bundle, g, i \in Nat : ~Queued(b, c, g, i)' /\ ~Queued(b, c, g, i)
    BY <1>1 DEF Queued
  <2>2. \A b \in Bundle, d \in Conn, g, i \in Nat :
          d # c => (Queued(b, d, g, i)' <=> Queued(b, d, g, i))
    BY <1>1 DEF Queued
  <2> QED BY <2>1, <2>2
<1>4. Stay BY <1>2, <1>3 DEF Stay, Pend
<1> QED BY <1>4, StayKept

\* A step that leaves the links and the contacts alone.
LEMMA LinkUnchangedKept ==
  ASSUME Kept, UNCHANGED <<link, pending, outcome, scheduled>>
  PROVE  Kept'
BY QuietStep

\* The RX task moves no bundle.
LEMMA RxKept ==
  ASSUME Safe, Kept, NEW c \in Conn, RxTask(c)
  PROVE  Kept'
<1>1. link \in [Conn -> Link] /\ link[c] \in Link BY DEF Safe, TypeOK
<1>2. outcome' = outcome /\ pending' = pending /\ scheduled' = scheduled
  BY DEF RxTask, RxLoop, RxData, RxBroken, RxRequestExit, cmvars
<1>3. CASE RxLoop(c) \/ RxData(c)
  <2>1. PICK r : link' = [link EXCEPT ![c].rx = r] BY <1>3 DEF RxLoop, RxData
  <2> DEFINE l == [link[c] EXCEPT !.rx = r]
  <2>2. link' = [link EXCEPT ![c] = l] /\ l.batch = link[c].batch /\ l.queue = link[c].queue
    BY <1>1, <2>1 DEF Link
  <2> HIDE DEF l
  <2> QED BY <1>1, <1>2, <2>2, OneLinkStep
<1>4. CASE RxBroken(c)
  <2> DEFINE l == [link[c] EXCEPT !.active = FALSE, !.rx = "request_exit"]
  <2>1. link' = [link EXCEPT ![c] = l] /\ l.batch = link[c].batch /\ l.queue = link[c].queue
    BY <1>1, <1>4 DEF RxBroken, Link
  <2> HIDE DEF l
  <2> QED BY <1>1, <1>2, <2>1, OneLinkStep
<1>5. CASE RxRequestExit(c) BY <1>2, <1>5, RequestExitKept
<1> QED BY <1>3, <1>4, <1>5 DEF RxTask

\* The steps of the TX task.
LEMMA TxKept ==
  ASSUME Safe, Kept, NEW c \in Conn, TxTask(c)
  PROVE  Kept'
<1>1. link \in [Conn -> Link] /\ link[c] \in Link BY DEF Safe, TypeOK
<1>2. pending' = pending /\ scheduled' = scheduled BY DEF TxTask, cmvars
<1>3. CASE TxLoop(c)
  <2>1. PICK t : link' = [link EXCEPT ![c].tx = t] /\ outcome' = outcome BY <1>3 DEF TxLoop
  <2> DEFINE l == [link[c] EXCEPT !.tx = t]
  <2>2. link' = [link EXCEPT ![c] = l] /\ l.batch = link[c].batch /\ l.queue = link[c].queue
    BY <1>1, <2>1 DEF Link
  <2> HIDE DEF l
  <2> QED BY <1>1, <1>2, <2>1, <2>2, OneLinkStep
<1>4. CASE TxReceive(c) BY <1>2, <1>4, TxReceiveKept
<1>5. CASE TxBegin(c)
  <2>1. CASE Report(c, "failure") \/ Report(c, "success") BY <1>2, <1>5, <2>1, ReportKept DEF TxBegin
  <2>2. CASE link' = [link EXCEPT ![c].tx = "sending"] /\ UNCHANGED outcome
    <3> DEFINE l == [link[c] EXCEPT !.tx = "sending"]
    <3>1. link' = [link EXCEPT ![c] = l] /\ l.batch = link[c].batch /\ l.queue = link[c].queue
      BY <1>1, <2>2 DEF Link
    <3> HIDE DEF l
    <3> QED BY <1>1, <1>2, <2>2, <3>1, OneLinkStep
  <2> QED BY <1>5, <2>1, <2>2 DEF TxBegin
<1>6. CASE TxSend(c)
  <2>1. CASE Report(c, "success") BY <1>2, <1>6, <2>1, ReportKept DEF TxSend
  <2>2. CASE link' = [link EXCEPT ![c].active = FALSE, ![c].tx = "request_exit"] /\ UNCHANGED outcome
    <3> DEFINE l == [link[c] EXCEPT !.active = FALSE, !.tx = "request_exit"]
    <3>1. link' = [link EXCEPT ![c] = l] /\ l.batch = link[c].batch /\ l.queue = link[c].queue
      BY <1>1, <2>2 DEF Link
    <3> HIDE DEF l
    <3> QED BY <1>1, <1>2, <2>2, <3>1, OneLinkStep
  <2> QED BY <1>6, <2>1, <2>2 DEF TxSend
<1>7. CASE TxLock(c)
  <2> DEFINE l == [link[c] EXCEPT !.sem = @ - 1, !.tx = "drain"]
  <2>1. link' = [link EXCEPT ![c] = l] /\ l.batch = link[c].batch /\ l.queue = link[c].queue
    BY <1>1, <1>7 DEF TxLock, Link
  <2> HIDE DEF l
  <2> QED BY <1>1, <1>2, <1>7, <2>1, OneLinkStep DEF TxLock
<1>8. CASE TxDrain(c)
  <2>1. CASE link[c].queue # <<>> BY <1>2, <1>8, <2>1, TxDrainKept
  <2>2. CASE link[c].queue = <<>>
    <3> DEFINE l == [link[c] EXCEPT !.tx = "done"]
    <3>1. /\ link' = [link EXCEPT ![c] = l] /\ l.batch = link[c].batch /\ l.queue = link[c].queue
          /\ outcome' = outcome
      BY <1>1, <1>8, <2>2 DEF TxDrain, Link
    <3> HIDE DEF l
    <3> QED BY <1>1, <1>2, <3>1, OneLinkStep
  <2> QED BY <2>1, <2>2
<1>9. CASE TxRequestExit(c) BY <1>2, <1>9, RequestExitKept
<1> QED BY <1>3, <1>4, <1>5, <1>6, <1>7, <1>8, <1>9 DEF TxTask

\* cla_link_init and cla_link_wait_cleanup: a link is deleted after its TX
\* task ended, so its queue holds nothing but FINALIZE.
LEMMA LinkLifeKept ==
  ASSUME Safe, Kept, NEW c \in Conn, LinkInitialized(c) \/ WaitCleanup(c) \/ Cleanup(c)
  PROVE  Kept'
<1>1. link \in [Conn -> Link] /\ link[c] \in Link /\ LinkFine(link[c], conn[c].pc)
  BY DEF Safe, TypeOK, LinkOK
<1>2. UNCHANGED <<outcome, pending, scheduled>> BY DEF LinkInitialized, WaitCleanup, Cleanup, cmvars
<1>3. CASE LinkInitialized(c)
  <2> DEFINE l == [active |-> TRUE, rx |-> "loop", tx |-> "loop", batch |-> <<>>,
                   queue |-> <<>>, handle |-> TRUE, exists |-> TRUE, sem |-> 1]
  <2>1. link' = [link EXCEPT ![c] = l] BY <1>3 DEF LinkInitialized, cla_link_init
  <2>2. link[c] = NoLink BY <1>1, <1>3 DEF LinkInitialized, LinkFine
  <2>3. l.batch = <<>> /\ l.queue = <<>> OBVIOUS
  <2>4. link[c].batch = <<>> /\ DOMAIN link[c].queue = {} BY <2>2 DEF NoLink
  <2> HIDE DEF l
  <2> QED BY <1>1, <1>2, <2>1, <2>3, <2>4, EmptiedKept
<1>4. CASE WaitTasks(c) \/ UnblockWaiters(c)
  <2>1. PICK h, s : link' = [link EXCEPT ![c] = [link[c] EXCEPT !.handle = h, !.sem = s]]
    <3>1. CASE WaitTasks(c)
      <4>1. link' = [link EXCEPT ![c] = [link[c] EXCEPT !.handle = FALSE, !.sem = link[c].sem]]
        BY <1>1, <3>1 DEF WaitTasks, Link
      <4> QED BY <4>1
    <3>2. CASE UnblockWaiters(c)
      <4>1. link' = [link EXCEPT ![c] = [link[c] EXCEPT !.handle = link[c].handle, !.sem = 1]]
        BY <1>1, <3>2 DEF UnblockWaiters, Link
      <4> QED BY <4>1
    <3> QED BY <1>4, <3>1, <3>2
  <2> DEFINE l == [link[c] EXCEPT !.handle = h, !.sem = s]
  <2>2. link' = [link EXCEPT ![c] = l] /\ l.batch = link[c].batch /\ l.queue = link[c].queue
    BY <1>1, <2>1 DEF Link
  <2> HIDE DEF l
  <2> QED BY <1>1, <1>2, <2>2, OneLinkStep
<1>5. CASE Cleanup(c)
  <2>1. link' = [link EXCEPT ![c] = NoLink] /\ conn[c].pc = "wait" /\ ~link[c].handle
    BY <1>5 DEF Cleanup, DeleteQueue
  <2>2. link[c].tx = "done" BY <1>1, <2>1 DEF LinkFine
  <2>3. link[c].batch = <<>> /\ \A i \in DOMAIN link[c].queue : link[c].queue[i] = <<>>
    BY <1>1, <2>2 DEF LinkFine, Sending
  <2>4. NoLink.batch = <<>> /\ NoLink.queue = <<>> BY DEF NoLink
  <2> QED BY <1>1, <1>2, <2>1, <2>3, <2>4, EmptiedKept
<1> QED BY <1>3, <1>4, <1>5 DEF WaitCleanup

\* The contact manager takes the semaphore.
LEMMA TakeQueueKept ==
  ASSUME Safe, Kept, TakeQueue
  PROVE  Kept'
<1>1. PICK c \in Conn : c = cm.conn BY DEF TakeQueue, Safe, MoreTypes
<1>2. link \in [Conn -> Link] /\ link[c] \in Link BY DEF Safe, TypeOK
<1>3. UNCHANGED <<outcome, pending, scheduled>> BY DEF TakeQueue
<1>4. CASE link[c].exists
  <2> DEFINE l == [link[c] EXCEPT !.sem = @ - 1]
  <2>1. link' = [link EXCEPT ![c] = l] /\ l.batch = link[c].batch /\ l.queue = link[c].queue
    BY <1>1, <1>2, <1>4 DEF TakeQueue, Link
  <2> HIDE DEF l
  <2> QED BY <1>2, <1>3, <2>1, OneLinkStep
<1>5. CASE ~link[c].exists BY <1>1, <1>3, <1>5, LinkUnchangedKept DEF TakeQueue
<1> QED BY <1>4, <1>5

\* Every step keeps each bundle at one spot.
LEMMA NextKept == ASSUME Safe, Kept, Next PROVE Kept'
<1>1. ASSUME NEW c \in Conn, Accept(c) \/ Peer(c) PROVE Kept'
  BY <1>1, LinkUnchangedKept DEF Accept, tcpclv3_listener_task, mtcp_listener_task,
     cla_tcp_single_listen_task, Peer, PeerBreaks, cmvars
<1>2. ASSUME NEW c \in Conn, Manage(c) PROVE Kept'
  <2>1. CASE LinkInitialized(c) \/ WaitCleanup(c) \/ Cleanup(c) BY <2>1, LinkLifeKept
  <2>2. CASE \/ TcpclLoop(c) \/ MtcpLoop(c) \/ ConnectFails(c) \/ ConnectSucceeds(c)
             \/ HandshakeFails(c) \/ HandshakeSucceeds(c) \/ Establish(c)
    BY <2>2, LinkUnchangedKept DEF TcpclLoop, MtcpLoop, ConnectFails, ConnectSucceeds,
       HandshakeFails, HandshakeSucceeds, Establish, linkvars, cmvars
  <2>3. CASE \/ TcpclDown(c) \/ After(c) \/ MtcpDown(c) \/ SingleDown(c)
             \/ TcpclRemove(c) \/ MtcpRemove(c)
    BY <2>3, LinkUnchangedKept DEF TcpclDown, After, MtcpDown, SingleDown,
       TcpclRemove, MtcpRemove, linkvars, cmvars
  <2> QED BY <1>2, <2>1, <2>2, <2>3 DEF Manage
<1>3. ASSUME NEW c \in Conn, RxTask(c) PROVE Kept' BY <1>3, RxKept
<1>4. ASSUME NEW c \in Conn, TxTask(c) PROVE Kept' BY <1>4, TxKept
<1>5. ASSUME NEW k \in Key, StartContact(k) \/ EndContact(k) PROVE Kept'
  BY <1>5, LinkUnchangedKept DEF StartContact, EndContact
<1>6. ASSUME NEW b \in Bundle, NEW k \in Key, Schedule(b, k) PROVE Kept' BY <1>6, ScheduleKept
<1>7. ASSUME NEW k \in Key, Lookup(k) PROVE Kept' BY <1>7, LinkUnchangedKept DEF Lookup
<1>8. CASE CheckQueue BY <1>8, LinkUnchangedKept DEF CheckQueue
<1> QED BY <1>1, <1>2, <1>3, <1>4, <1>5, <1>6, <1>7, <1>8, TakeQueueKept, PushKept
        DEF Next, HandOver

\* A bundle that the router has put on a contact is at one place at any time:
\* with its contact, in the queue of one link, in the hands of one TX task, or
\* reported with one result; the deletion of a queue loses none, whenever it
\* happens.  Nothing is assumed of the names the peers announce, nor of the
\* reads of freed memory that stop the model: up to there no bundle is lost.
THEOREM TcpNoBundleStranded == Spec => []NoBundleStranded
<1>1. Init => Kept
  <2> SUFFICES ASSUME Init, NEW b \in Bundle PROVE Once(b) BY DEF Kept
  <2>1. /\ \A k \in Key, i \in Nat : ~Pend(b, k, i)
        /\ \A c \in Conn, i \in Nat : ~Held(b, c, i)
        /\ \A c \in Conn, g, i \in Nat : ~Queued(b, c, g, i)
        /\ ~IsReported(b) /\ b \notin scheduled
    BY DEF Init, LinkInit, NoLink, Pend, Held, Queued, IsReported
  <2>2. ~IsPend(b) /\ ~IsHeld(b) /\ ~IsQueued(b) BY <2>1 DEF IsPend, IsHeld, IsQueued
  <2> QED BY <2>1, <2>2 DEF Once
<1>2. Safe /\ Kept /\ [Next]_vars => Kept'
  <2>1. Kept /\ UNCHANGED vars => Kept' BY LinkUnchangedKept DEF vars, linkvars, cmvars
  <2> QED BY <2>1, NextKept
<1> QED BY <1>1, <1>2, KeptStranded, SafeAlways, PTL DEF Spec
=============================================================================
