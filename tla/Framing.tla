------------------------------- MODULE Framing -------------------------------
(***************************************************************************)
(* The frames that carry a bundle on a TCP link: the CBOR byte string of   *)
(* MTCP (src/components/cla/mtcp_proto.c), the data segment of TCPCLv3     *)
(* (src/components/cla/posix/cla_tcpclv3_proto.c) and the space packet     *)
(* (src/components/spp/) with its time code and checksum.                  *)
(***************************************************************************)
EXTENDS Wire

-----------------------------------------------------------------------------
\* MTCP.  `sub': PARSER_FLAG_DATA_SUBPARSER, the header was read.
mtcp_parser_reset == [status |-> "GOOD", sub |-> FALSE, left |-> 0]

\* The parser after the bytes s, and how many of them it took.
mtcp_parser_parse(f, s) ==
  LET h == Preparse(s, 1)
  IN  IF h.err = "EOF" THEN [f |-> f, n |-> 0]
      ELSE IF h.err # "none" \/ h.major # CborByteString \/ ~h.known THEN [f |-> f, n |-> 1]
      ELSE [f |-> [f EXCEPT !.sub = TRUE, !.left = h.num], n |-> h.size]

mtcp_encode_header(length) == CborHead(CborByteString, length)

-----------------------------------------------------------------------------
\* TCPCLv3: a byte for type and flags, the size, the bundle.
TCPCLV3_TYPE_DATA_SEGMENT == 16
TCPCLV3_FLAG_S == 2
TCPCLV3_FLAG_E == 1

\* `sdnv' survives the reset, also that for a new connection of the contact.
tcpclv3_parser_reset(f) ==
  [status |-> "GOOD", sub |-> FALSE, left |-> f.left, stage |-> "EXPECT_TYPE_FLAGS", sdnv |-> f.sdnv]

tcpclv3_parser_init ==
  [status |-> "GOOD", sub |-> FALSE, left |-> 0, stage |-> "EXPECT_TYPE_FLAGS", sdnv |-> sdnv_reset]

ReadSize(f, byte) ==
  LET q == sdnv_read(f.sdnv, 32, byte)
  IN  CASE q.status = "IN_PROGRESS" -> [f EXCEPT !.sdnv = q]
        [] q.status = "ERROR" -> [f EXCEPT !.sdnv = sdnv_reset, !.status = "ERROR"]
        [] q.status = "DONE" -> [f EXCEPT !.sdnv = sdnv_reset, !.left = q.value,
                                          !.stage = "FORWARD_BUNDLE", !.sub = TRUE]

tcpclv3_parser_read_byte(f, byte) ==
  CASE f.stage = "EXPECT_TYPE_FLAGS" ->
         IF /\ byte \div 16 = TCPCLV3_TYPE_DATA_SEGMENT \div 16
            /\ HAS_FLAG(byte, TCPCLV3_FLAG_S) /\ HAS_FLAG(byte, TCPCLV3_FLAG_E)
         THEN [f EXCEPT !.stage = "GET_SIZE"] ELSE tcpclv3_parser_reset(f)
    [] f.stage = "GET_SIZE" -> ReadSize(f, byte)

\* One round of the loop of tcpclv3_parser_read: t.n bytes of s are parsed.
ReadTcpclv3Round(t, s) ==
  IF t.n >= Len(s) \/ t.f.status # "GOOD" \/ t.f.sub THEN t
  ELSE [f |-> tcpclv3_parser_read_byte(t.f, s[t.n + 1]), n |-> t.n + 1]

tcpclv3_parser_read(f, s) ==
  LET after[i \in 0..Len(s)] ==
        IF i = 0 THEN [f |-> f, n |-> 0] ELSE ReadTcpclv3Round(after[i - 1], s)
  IN  after[Len(s)]

tcpclv3_begin_packet(length) ==
  <<TCPCLV3_TYPE_DATA_SEGMENT + TCPCLV3_FLAG_S + TCPCLV3_FLAG_E>> \o sdnv_write(length)

-----------------------------------------------------------------------------
\* Space packets.  The time code: its type and the octets of its two parts.
SPP_TC_UNKNOWN == 255
SPP_TC_UNSEGMENTED_CCSDS_EPOCH == 1
UNSEGMENTED == {1, 2}
LONGP_BASE == 4
LONGP_FRACTIONAL == 3

NoFormat == [type |-> SPP_TC_UNKNOWN, base |-> 0, frac |-> 0]

\* The first octet of the P-field.  <<>>: an error.
spp_tc_pfield_parse_first(byte) ==
  IF (byte \div 16) % 8 \notin UNSEGMENTED THEN <<>>
  ELSE <<[type |-> (byte \div 16) % 8, base |-> ((byte \div 4) % 4) + 1, frac |-> byte % 4]>>

\* A further octet adds to both.
spp_tc_pfield_parse_second(format, byte) ==
  [format EXCEPT !.base = @ + ((byte \div 32) % 4), !.frac = @ + ((byte \div 4) % 8)]

HasMore(byte) == byte >= 128

\* The format of a context, from its preamble.
spp_tc_configure_from_preamble(preamble) ==
  LET first == spp_tc_pfield_parse_first(preamble[1])
      used  == 1..(CHOOSE n \in DOMAIN preamble :
                     /\ n = Len(preamble) \/ ~HasMore(preamble[n])
                     /\ \A k \in 1..(n - 1) : HasMore(preamble[k]))
  IN  FoldLeft(spp_tc_pfield_parse_second, first[1], [k \in 1..(Max(used) - 1) |-> preamble[k + 1]])

\* CLA_TCPSPP_TIMESTAMP_FORMAT_PREAMBLE; CLA_TCPSPP_TIMESTAMP_USE_P_FIELD.
SppTimecode == spp_tc_configure_from_preamble(<<28>>)

spp_tc_get_size(tc) ==
  tc.base + tc.frac + (IF tc.base > LONGP_BASE \/ tc.frac > LONGP_FRACTIONAL THEN 2 ELSE 1)

spp_tc_serialize_preamble(tc) ==
  LET more == tc.base > LONGP_BASE \/ tc.frac > LONGP_FRACTIONAL
  IN  <<(IF more THEN 128 ELSE 0) + 16 * tc.type + 4 * (Min({tc.base, LONGP_BASE}) - 1)
        + Min({tc.frac, LONGP_FRACTIONAL})>>
      \o (IF more THEN <<32 * Max({tc.base - LONGP_BASE, 0}) + 4 * Max({tc.frac - LONGP_FRACTIONAL, 0})>>
          ELSE <<>>)

\* The seconds, most significant octet first; the counter of a packet is 0.
serialize_unsegmented(tc, seconds) ==
  [i \in 1..tc.base |-> IF tc.base - i > 3 THEN 0 ELSE (seconds \div 256^(tc.base - i)) % 256]
  \o [i \in 1..tc.frac |-> 0]

CCSDS_EPOCH_TO_DTN_EPOCH == 1325376000

spp_tc_serialize(tc, dtn_timestamp) ==
  spp_tc_serialize_preamble(tc) \o serialize_unsegmented(tc, dtn_timestamp + CCSDS_EPOCH_TO_DTN_EPOCH)

SPP_SEGMENT_UNSEGMENTED == 3
SppSecondaryHeader == 2048

UInt16(n) == <<n \div 256, n % 256>>

spp_serialize_primary_header(apid, data_length) ==
  UInt16(SppSecondaryHeader + apid) \o UInt16(16384 * SPP_SEGMENT_UNSEGMENTED) \o UInt16(data_length - 1)

spp_serialize_header(apid, payload_len, dtn_timestamp) ==
  spp_serialize_primary_header(apid, payload_len + spp_tc_get_size(SppTimecode))
  \o spp_tc_serialize(SppTimecode, dtn_timestamp)

\* The parser of a header.  `read' is the format as far as the P-field was
\* read, `format' is complete.
spp_tc_parser_init ==
  [format |-> NoFormat, read |-> <<>>, base_left |-> 0, frac_left |-> 0, status |-> "GOOD"]

spp_tc_parser_start_from_config(tc, format) ==
  [tc EXCEPT !.format = format, !.base_left = format.base, !.frac_left = format.frac, !.status = "GOOD"]

spp_tc_pfield_feed(tc, byte) ==
  LET read == IF tc.read = <<>> THEN spp_tc_pfield_parse_first(byte)
              ELSE <<spp_tc_pfield_parse_second(tc.read[1], byte)>>
  IN  IF read = <<>> THEN [tc EXCEPT !.status = "ERROR"]
      ELSE IF HasMore(byte) THEN [tc EXCEPT !.read = read, !.status = "GOOD"]
      ELSE spp_tc_parser_start_from_config(tc, read[1])

spp_tc_parser_feed(tc, byte) ==
  IF tc.format.type = SPP_TC_UNKNOWN THEN spp_tc_pfield_feed(tc, byte)
  ELSE IF tc.format.type # SPP_TC_UNSEGMENTED_CCSDS_EPOCH THEN [tc EXCEPT !.status = "ERROR"]
  ELSE LET base == IF tc.base_left > 0 THEN tc.base_left - 1 ELSE 0
           frac == IF tc.base_left > 0 THEN tc.frac_left ELSE tc.frac_left - 1
       IN  [tc EXCEPT !.base_left = base, !.frac_left = frac,
                      !.status = IF base = 0 /\ frac = 0 THEN "DONE" ELSE "GOOD"]

spp_parser_reset ==
  [status |-> "GOOD", sub |-> FALSE, left |-> 0, at |-> 1, secondary |-> FALSE, tc |-> spp_tc_parser_init]

spp_check_first_byte(byte) == byte \div 32 = 0

\* A byte of the header: the parser, and whether it takes the next one.  The
\* six bytes of the primary header are numbered, 7 is the time code.
spp_parse_byte(f, byte) ==
  CASE f.at = 1 ->
         IF spp_check_first_byte(byte)
         THEN [f |-> [f EXCEPT !.at = 2, !.secondary = (byte \div 8) % 2 = 1], more |-> TRUE]
         ELSE [f |-> [spp_parser_reset EXCEPT !.status = "ERROR"], more |-> TRUE]
    [] f.at \in 2..5 -> [f |-> [f EXCEPT !.at = @ + 1], more |-> TRUE]
    [] f.at = 6 ->
         IF f.secondary THEN [f |-> [f EXCEPT !.at = 7, !.tc = spp_tc_parser_init], more |-> TRUE]
         ELSE [f |-> [f EXCEPT !.sub = TRUE], more |-> FALSE]
    [] f.at = 7 ->
         LET tc == spp_tc_parser_feed(f.tc, byte)
         IN  [f |-> [f EXCEPT !.tc = tc, !.sub = tc.status = "DONE"], more |-> tc.status = "GOOD"]

\* One round of the loop of spp_parser_read.
SppByteRead(t, b) == [f |-> b.f, n |-> t.n + 1, more |-> b.more]
ReadSppRound(t, s) ==
  IF t.n >= Len(s) \/ ~t.more THEN t ELSE SppByteRead(t, spp_parse_byte(t.f, s[t.n + 1]))

spp_parser_read(f, s) ==
  LET after[i \in 0..Len(s)] ==
        IF i = 0 THEN [f |-> f, n |-> 0, more |-> TRUE] ELSE ReadSppRound(after[i - 1], s)
  IN  after[Len(s)]

\* The two bytes after the packet's data; nobody compares them.
crc16_parser_init == [status |-> "GOOD", ctr |-> 0]

crc16_parser_read(c, s) ==
  LET consumed == Min({Len(s), 2 - c.ctr})
  IN  [c |-> [ctr |-> c.ctr + consumed, status |-> IF c.ctr + consumed >= 2 THEN "DONE" ELSE c.status],
       n |-> consumed]

-----------------------------------------------------------------------------
\* What each CLA sends for a bundle of `data' that was announced as `length'
\* bytes: begin_packet, send_packet_data, end_packet.  SPP: the application
\* process 1, at second 5; the length and the checksum include the header.
tcpspp_packet(length, data) ==
  LET header == spp_serialize_header(1, length + 2, 5)
  IN  header \o data \o CrcBytes(CrcFeed(CrcInit, header \o data), 2)

Frame(kind, length, data) ==
  CASE kind = "mtcp"    -> mtcp_encode_header(length) \o data
    [] kind = "tcpclv3" -> tcpclv3_begin_packet(length) \o data
    [] kind = "tcpspp"  -> tcpspp_packet(length, data)
=============================================================================
