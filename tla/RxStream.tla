------------------------------- MODULE RxStream -------------------------------
(***************************************************************************)
(* The receiving side of a link (src/components/cla/cla_contact_rx_task.c  *)
(* with the three CLAs' parsers): a byte stream that TCP cuts anywhere     *)
(* fills a small buffer, a frame parser finds where bundles begin, a       *)
(* bundle parser takes over, and a payload that is not in the buffer is    *)
(* read directly into its block.  Everything the peer sends was serialized *)
(* and framed by this program.  A connection may break at any byte; the    *)
(* next one begins with the contact's old frame parser.                    *)
(***************************************************************************)
EXTENDS Bundle6, Bundle7, Framing

CONSTANTS
  RxBufferSize,    \* CLA_RX_BUFFER_SIZE
  ChunkSizes,      \* how many bytes a recv() may return
  Kinds,           \* the CLAs: "mtcp", "tcpclv3", "tcpspp"
  Plans            \* what is sent: the sequence of bundles of each connection
ASSUME RxAssumption ==
  /\ RxBufferSize \in Nat \ {0}
  /\ ChunkSizes \subseteq 1..RxBufferSize /\ ChunkSizes # {}
  /\ Kinds \subseteq {"mtcp", "tcpclv3", "tcpspp"}

VARIABLES
  kind,     \* the CLA of the link
  plan,     \* what the peer sends
  conn,     \* the number of the connection
  stream,   \* the bytes of this connection that were not received
  rx        \* the RX task: input buffer, parsers, and what it delivered

vars == <<kind, plan, conn, stream, rx>>

-----------------------------------------------------------------------------
\* The sender: bundle_get_serialized_size, bundle_serialize, the CLA's packet.
Announced(b) == IF b.version = 6 THEN bundle6_get_serialized_size(b) ELSE bundle7_get_serialized_size(b)
Serialized(b) == IF b.version = 6 THEN bundle6_serialize(b) ELSE bundle7_serialize(b)
Packets(k, bundles) ==
  FlattenSeq([i \in DOMAIN bundles |-> Frame(k, Announced(bundles[i]), Serialized(bundles[i]))])

\* What a connection carries are bytes.
ASSUME BytesAssumption ==
  \A p \in Plans : /\ p \in Seq(ToSet(p)) /\ p # <<>>
                   /\ \A i \in DOMAIN p, k \in Kinds : Packets(k, p[i]) \in Seq(0..255)

FrameInit(k) ==
  CASE k = "mtcp" -> mtcp_parser_reset [] k = "tcpclv3" -> tcpclv3_parser_init
    [] k = "tcpspp" -> spp_parser_reset

FrameReset(k, f) ==
  CASE k = "mtcp" -> mtcp_parser_reset [] k = "tcpclv3" -> tcpclv3_parser_reset(f)
    [] k = "tcpspp" -> spp_parser_reset

\* rx_task_data_init.  `parsed' counts the bytes of the buffer that are done,
\* `bulk' is what of a bulk read was received; `cut': the parsers were reset
\* in the middle of a bundle of this connection; `before': what earlier
\* connections delivered.
rx_task_data_init(frame) ==
  [pc |-> "task", buf |-> <<>>, parsed |-> 0, bulk |-> <<>>,
   cur |-> "frame", payload_type |-> "UNKNOWN", frame |-> frame,
   p6 |-> bundle6_parser_init, p7 |-> bundle7_parser_init, crc |-> crc16_parser_init,
   spp_payload |-> "DATA", delivered |-> <<>>, before |-> 0, cut |-> FALSE, fault |-> "none"]

\* cur_parser
CurParser(r) ==
  CASE r.cur = "bundle6" -> r.p6
    [] r.cur = "bundle7" -> r.p7
    [] r.cur = "crc"     -> [status |-> r.crc.status, bulk |-> FALSE, next_bytes |-> 0]
    [] r.cur = "frame"   -> [status |-> r.frame.status, bulk |-> FALSE, next_bytes |-> 0]

\* rx_task_reset_parsers and the CLA's part.  A bundle of which an EID was
\* freed already is freed again.
reset_parsers(r) ==
  [r EXCEPT !.payload_type = "UNKNOWN", !.cur = "frame", !.frame = FrameReset(kind, @),
            !.spp_payload = "DATA",
            !.p6 = bundle6_parser_reset(@), !.p7 = bundle7_parser_init,
            !.fault = IF r.p7.dangling THEN "freed twice" ELSE @]

\* A parser's send_callback, bundle_send.
Took(r, t, type) ==
  LET p == [t.p EXCEPT !.out = <<>>]
      q == [r EXCEPT !.payload_type = type, !.delivered = @ \o t.p.out]
  IN  [r |-> IF type = "BUNDLE6" THEN [q EXCEPT !.cur = "bundle6", !.p6 = p]
             ELSE [q EXCEPT !.cur = "bundle7", !.p7 = p],
       n |-> t.n]

ReadBundle(r, s, type) ==
  With(IF type = "BUNDLE6" THEN bundle6_parser_read(r.p6, s) ELSE bundle7_parser_read(r.p7, s),
       LAMBDA t : Took(r, t, type))

\* The first byte tells the version.
BundleVersion(s) ==
  CASE s # <<>> /\ s[1] = 6   -> "BUNDLE6"
    [] s # <<>> /\ s[1] = 159 -> "BUNDLE7"
    [] OTHER                  -> "UNKNOWN"

select_bundle_parser_version(r, s) ==
  IF r.payload_type # "UNKNOWN" THEN r.payload_type ELSE BundleVersion(s)

\* The switch on the type of the payload.  Nothing parsed of a new bundle
\* resets all parsers, whatever the reason.
NothingParsed(r, t) ==
  IF r.payload_type = "UNKNOWN" /\ t.n = 0 THEN [r |-> [reset_parsers(t.r) EXCEPT !.cut = TRUE], n |-> 0]
  ELSE t

ReadPayload(r, s) ==
  With(IF select_bundle_parser_version(r, s) = "UNKNOWN" THEN [r |-> r, n |-> 0]
       ELSE ReadBundle(r, s, select_bundle_parser_version(r, s)),
       LAMBDA t : NothingParsed(r, t))

\* The bytes are taken from the frame.  More than it has fail an assertion.
Counted(t) ==
  LET left == t.r.frame.left - t.n
      q    == [t.r EXCEPT !.frame.left = left, !.fault = IF left < 0 THEN "assert" ELSE @]
  IN  [r |-> IF left = 0 THEN reset_parsers(q) ELSE q, n |-> t.n]

\* Mutant: the payload is not limited to its frame.
Unbounded(r, s) == With(ReadPayload(r, s), Counted)

\* The part that mtcp_forward_to_specific_parser and
\* tcpclv3_forward_to_specific_parser share.
Bounded(r, s) == With(ReadPayload(r, Bytes(s, 1, Min({Len(s), r.frame.left}))), Counted)

\* The frame parser read something.
FrameRead(r, t) == [r |-> [r EXCEPT !.frame = t.f], n |-> t.n]

mtcp_forward_to_specific_parser(r, s) ==
  IF r.frame.sub THEN Bounded(r, s)
  ELSE With(mtcp_parser_parse(r.frame, s), LAMBDA t : FrameRead(r, t))

tcpclv3_forward_to_specific_parser(r, s) ==
  IF r.frame.sub THEN Bounded(r, s)
  ELSE With(tcpclv3_parser_read(r.frame, s), LAMBDA t : FrameRead(r, t))

\* Mutant: the checksum is taken for the next packet.
NoCrc(r) == r

\* A bundle in a space packet is followed by the checksum.
ThenCrc(r) ==
  IF r.cur \in {"bundle6", "bundle7"} /\ CurParser(r).status = "DONE"
  THEN [r EXCEPT !.spp_payload = "CRC16", !.payload_type = "UNKNOWN",
                 !.cur = "crc", !.crc = crc16_parser_init]
  ELSE r

CrcRead(r, t) ==
  [r |-> [r EXCEPT !.crc = t.c, !.spp_payload = IF t.c.status = "DONE" THEN "DATA" ELSE @], n |-> t.n]
PayloadRead(t) == [r |-> ThenCrc(t.r), n |-> t.n]

tcpspp_forward_to_specific_parser(r, s) ==
  IF ~r.frame.sub THEN With(spp_parser_read(r.frame, s), LAMBDA t : FrameRead(r, t))
  ELSE IF r.payload_type = "UNKNOWN" /\ r.spp_payload = "CRC16"
  THEN With(crc16_parser_read(r.crc, s), LAMBDA t : CrcRead(r, t))
  ELSE With(ReadPayload(r, s), PayloadRead)

Forward(r, s) ==
  CASE kind = "mtcp"    -> mtcp_forward_to_specific_parser(r, s)
    [] kind = "tcpclv3" -> tcpclv3_forward_to_specific_parser(r, s)
    [] kind = "tcpspp"  -> tcpspp_forward_to_specific_parser(r, s)

\* The same with no buffer, after a bulk read of `data'.  Nothing is counted.
ForwardBulk(r, data) ==
  LET p == IF r.cur = "bundle6" THEN bundle6_parser_bulk_done(r.p6, data)
           ELSE bundle7_parser_bulk_done(r.p7, data)
      q == Took(r, [p |-> p, n |-> 0], r.payload_type).r
  IN  IF kind = "tcpspp" THEN ThenCrc(q) ELSE q

-----------------------------------------------------------------------------
Init ==
  /\ kind \in Kinds
  /\ plan \in Plans
  /\ conn = 1
  /\ stream = Packets(kind, plan[1])
  /\ rx = rx_task_data_init(FrameInit(kind))

\* cla_read: the next n bytes.
Receive(n) == n <= Len(stream) /\ stream' = SubSeq(stream, n + 1, Len(stream))

\* Mutant: the chunk may be as large as the buffer.
ChunkReadAll(n) ==
  /\ rx.pc = "task" /\ ~CurParser(rx).bulk
  /\ Receive(n)
  /\ rx' = [rx EXCEPT !.pc = "parse", !.parsed = 0, !.buf = @ \o SubSeq(stream, 1, n)]

\* chunk_read, the receive step.
ChunkRead(n) ==
  /\ rx.pc = "task" /\ ~CurParser(rx).bulk
  /\ Len(rx.buf) + n <= RxBufferSize
  /\ Receive(n)
  /\ rx' = [rx EXCEPT !.pc = "parse", !.parsed = 0, !.buf = @ \o SubSeq(stream, 1, n)]

\* Mutant: a full buffer is kept.
ShiftKeepsFull(r) == [r EXCEPT !.buf = SubSeq(@, r.parsed + 1, Len(@)), !.parsed = 0, !.pc = "task"]

\* The end of a round of cla_contact_rx_task: what was parsed leaves the
\* buffer; a full buffer of which nothing was parsed is thrown away.
Shift(r) ==
  IF r.parsed = 0 /\ Len(r.buf) = RxBufferSize
  THEN [reset_parsers(r) EXCEPT !.buf = <<>>, !.pc = "task", !.cut = TRUE]
  ELSE [r EXCEPT !.buf = SubSeq(@, r.parsed + 1, Len(@)), !.parsed = 0, !.pc = "task"]

\* chunk_read, one round of the parsing step.
ChunkParse ==
  /\ rx.pc = "parse"
  /\ \E t \in {Forward(rx, SubSeq(rx.buf, rx.parsed + 1, Len(rx.buf)))} :
       LET q    == [t.r EXCEPT !.parsed = @ + t.n]
           good == CurParser(t.r).status = "GOOD"
           next == IF good THEN q ELSE reset_parsers(q)
           stop == good /\ (CurParser(t.r).bulk \/ t.n = 0)
       IN  rx' = IF stop \/ next.parsed = Len(next.buf) THEN Shift(next) ELSE next
  /\ UNCHANGED stream

\* The end of bulk_read: the parser is fed; `used' bytes of the buffer are done.
BulkDone(data, used) ==
  \E q \in {ForwardBulk(rx, data)} :
    rx' = Shift([(IF CurParser(q).status # "GOOD" THEN reset_parsers(q) ELSE q)
                 EXCEPT !.parsed = used, !.bulk = <<>>])

\* bulk_read: the bytes are in the buffer, or all of the buffer is copied.
BulkBegin ==
  /\ rx.pc = "task" /\ CurParser(rx).bulk
  /\ LET size == CurParser(rx).next_bytes
     IN  IF size <= Len(rx.buf) THEN BulkDone(Bytes(rx.buf, 1, size), size)
         ELSE rx' = [rx EXCEPT !.pc = "bulk", !.bulk = rx.buf]
  /\ UNCHANGED stream

\* Mutant: the bytes are written to where the buffer was copied.
BulkReadInFront(n) ==
  /\ rx.pc = "bulk"
  /\ Len(rx.bulk) + n <= CurParser(rx).next_bytes
  /\ Receive(n)
  /\ LET data == SubSeq(stream, 1, n) \o rx.bulk
     IN  IF Len(data) = CurParser(rx).next_bytes THEN BulkDone(data, Len(rx.buf))
         ELSE rx' = [rx EXCEPT !.bulk = data]

\* bulk_read, the loop: the rest is read into the block.
BulkRead(n) ==
  /\ rx.pc = "bulk"
  /\ Len(rx.bulk) + n <= CurParser(rx).next_bytes
  /\ Receive(n)
  /\ LET data == rx.bulk \o SubSeq(stream, 1, n)
     IN  IF Len(data) = CurParser(rx).next_bytes THEN BulkDone(data, Len(rx.buf))
         ELSE rx' = [rx EXCEPT !.bulk = data]

\* The connection breaks: cla_read fails, the parsers are reset, the link is
\* torn down and initialized again for the next connection.
ConnectionBreaks ==
  /\ rx.pc \in {"task", "bulk"}
  /\ conn < Len(plan)
  /\ conn' = conn + 1
  /\ stream' = Packets(kind, plan[conn + 1])
  /\ LET r == reset_parsers(rx)
     IN  rx' = [rx_task_data_init(r.frame) EXCEPT !.delivered = r.delivered,
                  !.before = Len(r.delivered), !.fault = r.fault]

Next ==
  /\ rx.fault = "none"
  /\ UNCHANGED <<kind, plan>>
  /\ \/ (\E n \in ChunkSizes : ChunkRead(n)) /\ UNCHANGED conn
     \/ ChunkParse /\ UNCHANGED conn
     \/ BulkBegin /\ UNCHANGED conn
     \/ (\E n \in ChunkSizes : BulkRead(n)) /\ UNCHANGED conn
     \/ ConnectionBreaks

Spec == Init /\ [][Next]_vars

-----------------------------------------------------------------------------
\* The buffer, the counters and the modes of the RX task.
TypeOK ==
  /\ conn \in DOMAIN plan
  /\ rx.pc \in {"task", "parse", "bulk"}
  /\ rx.cur \in {"frame", "bundle6", "bundle7", "crc"}
  /\ rx.payload_type \in {"UNKNOWN", "BUNDLE6", "BUNDLE7"}
  /\ rx.parsed \in 0..Len(rx.buf) /\ Len(rx.buf) <= RxBufferSize
  /\ rx.pc = "bulk" => CurParser(rx).bulk /\ Len(rx.bulk) < CurParser(rx).next_bytes
  /\ rx.before \in 0..Len(rx.delivered)

\* No parser takes more than what is left of the frame
\* (ASSERT(result <= next_bytes) in the forward functions).
AssertsHold == rx.fault # "assert"

\* When the task reads a chunk the buffer has room: a recv() of no bytes
\* returns 0, which cla_tcp_read takes for the end of the connection.
RoomToRead == rx.pc = "task" /\ ~CurParser(rx).bulk => Len(rx.buf) < RxBufferSize

Sent == FlattenSeq(plan)

\* However TCP cuts the stream, and wherever connections break: what enters
\* the bundle storage is what was sent, field by field and byte by byte, in
\* order and at most once.
DeliveredIntact ==
  \E D \in SUBSET DOMAIN Sent :
    rx.delivered = [i \in 1..Cardinality(D) |-> Sent[SetToSortSeq(D, LAMBDA a, b : a < b)[i]]]

\* All bytes arrived and were parsed.
Quiescent == stream = <<>> /\ rx.pc = "task" /\ ~CurParser(rx).bulk

Arrived == SubSeq(rx.delivered, rx.before + 1, Len(rx.delivered))

\* When a connection was received to its end, every bundle sent on it was
\* delivered and nothing is left in the buffer, also when an earlier
\* connection broke in the middle of a frame; except when a reset lost the
\* place in the stream.
ConnectionComplete ==
  Quiescent /\ ~rx.cut /\ rx.fault = "none" => Arrived = plan[conn] /\ rx.buf = <<>>

\* A received bundle that is sent on has the length that is announced for it
\* in the frame.  The size of a BPv6 fragment is too large (bundle6.c counts
\* its two fields twice).
AnnouncedLengthExact ==
  \A i \in DOMAIN rx.delivered :
    LET b == rx.delivered[i]
    IN  (b.version = 6 /\ bundle_is_fragmented(b.proc_flags)) \/ Announced(b) = Len(Serialized(b))

\* "No bytes were parsed -- meaning that there is not enough data in the
\* buffer. Stop parsing and wait for the buffer to be filled": no bundle of a
\* connection that was received to its end is lost because of where TCP cut it.
NothingLost == Quiescent /\ rx.fault = "none" => Arrived = plan[conn]
=============================================================================
