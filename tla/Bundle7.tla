------------------------------- MODULE Bundle7 -------------------------------
(***************************************************************************)
(* The BPv7 codec: the serializer and the sizes                            *)
(* (src/components/bundle7/serializer.c, bundle7.c, eid.c) and the parser  *)
(* that reads one CBOR item after the other out of whatever part of the    *)
(* bundle is in the buffer (src/components/bundle7/parser.c, eid.c,        *)
(* timestamp.c).  TinyCBOR is modelled by how the parser uses it.  An EID  *)
(* is its scheme number and its specific part: bytes for "dtn", node and   *)
(* service number for "ipn".                                               *)
(***************************************************************************)
EXTENDS Wire

EID_SCHEMA_DTN == 1
EID_SCHEMA_IPN == 2
SspNone == <<110, 111, 110, 101>>

CRC_TYPE_NONE == 0
CRC_TYPE_16 == 1
CRC_TYPE_32 == 2

BP_V7_FLAGS == {2^i : i \in {0, 1, 2, 5, 6, 14, 16, 17, 18}}
BlockFlags == {1, 2, 4, 16}
PayloadType == 1

\* struct bundle and its blocks: what a bundle in the storage can be.
Eid7 == [schema : {EID_SCHEMA_DTN, EID_SCHEMA_IPN}, ssp : Seq(Nat)]
Block7 == [type : Nat, number : Nat, flags : Nat, crc_type : Nat, data : Seq(Nat)]
Bundles7 == [version : {7}, proc_flags : Nat, crc_type : Nat, destination : Eid7, source : Eid7,
             report_to : Eid7, creation_timestamp : Nat, sequence_number : Nat, lifetime : Nat,
             fragment_offset : Nat, total_adu_length : Nat, primary_block_length : Nat,
             blocks : Seq(Block7)]

IsFragment(flags) == HAS_FLAG(flags, 1)

-----------------------------------------------------------------------------
\* The serializer.

bundle7_eid_serialize(eid) ==
  CborHead(CborArray, 2) \o CborHead(CborUint, eid.schema)
  \o (IF eid.schema = EID_SCHEMA_IPN
      THEN CborHead(CborArray, 2) \o CborHead(CborUint, eid.ssp[1]) \o CborHead(CborUint, eid.ssp[2])
      ELSE IF eid.ssp = SspNone THEN CborHead(CborUint, 0)
      ELSE CborHead(CborTextString, Len(eid.ssp)) \o eid.ssp)

primary_block_get_item_count(b) ==
  8 + (IF b.crc_type # CRC_TYPE_NONE THEN 1 ELSE 0) + (IF IsFragment(b.proc_flags) THEN 2 ELSE 0)

block_get_item_count(block) == IF block.crc_type # CRC_TYPE_NONE THEN 6 ELSE 5

CrcSize(type) == IF type = CRC_TYPE_32 THEN 4 ELSE 2

\* The checksum over the block, with the CRC field itself set to zero.
CrcWithZero(crc, type) ==
  CrcFeed(crc, CborHead(CborByteString, CrcSize(type)) \o [i \in 1..CrcSize(type) |-> 0])

write_crc(type, bytes) ==
  IF type = CRC_TYPE_NONE THEN <<>>
  ELSE CborHead(CborByteString, CrcSize(type))
       \o CrcBytes(CrcWithZero(CrcFeed(CrcInit, bytes), type), CrcSize(type))

CborUints(s) == FlattenSeq([i \in DOMAIN s |-> CborHead(CborUint, s[i])])

SerializePrimary(b) ==
  LET fields ==
        CborHead(CborArray, primary_block_get_item_count(b))
        \o CborUints(<<7, Masked(b.proc_flags, BP_V7_FLAGS), b.crc_type>>)
        \o bundle7_eid_serialize(b.destination)
        \o bundle7_eid_serialize(b.source)
        \o bundle7_eid_serialize(b.report_to)
        \o CborHead(CborArray, 2)
        \o CborUints(<<b.creation_timestamp, b.sequence_number, b.lifetime>>)
        \o (IF IsFragment(b.proc_flags)
            THEN CborUints(<<b.fragment_offset, b.total_adu_length>>) ELSE <<>>)
  IN  fields \o write_crc(b.crc_type, fields)

Serialize7Block(block) ==
  LET fields == CborHead(CborArray, block_get_item_count(block))
                \o CborUints(<<block.type, block.number,
                               Masked(block.flags, BlockFlags), block.crc_type>>)
                \o CborHead(CborByteString, Len(block.data)) \o block.data
  IN  fields \o write_crc(block.crc_type, fields)

bundle7_serialize(b) ==
  <<159>> \o SerializePrimary(b)
  \o FlattenSeq([i \in DOMAIN b.blocks |-> Serialize7Block(b.blocks[i])]) \o <<Break>>

\* The sizes that are computed without serializing.
UintSizes(s) == FoldLeft(LAMBDA n, v : n + bundle7_cbor_uint_sizeof(v), 0, s)

CrcFieldSize(type) == IF type = CRC_TYPE_NONE THEN 0 ELSE 1 + CrcSize(type)

bundle7_eid_sizeof(eid) ==
  IF eid.schema = EID_SCHEMA_IPN THEN 3 + UintSizes(eid.ssp)
  ELSE IF eid.ssp = SspNone THEN 3
  ELSE 2 + bundle7_cbor_uint_sizeof(Len(eid.ssp)) + Len(eid.ssp)

bundle7_recalculate_primary_block_length(b) ==
  1 + UintSizes(<<7, b.proc_flags, b.crc_type>>)
  + bundle7_eid_sizeof(b.destination) + bundle7_eid_sizeof(b.source)
  + bundle7_eid_sizeof(b.report_to)
  + 1 + UintSizes(<<b.creation_timestamp, b.sequence_number, b.lifetime>>)
  + (IF IsFragment(b.proc_flags) THEN UintSizes(<<b.fragment_offset, b.total_adu_length>>) ELSE 0)
  + CrcFieldSize(b.crc_type)

bundle7_block_get_serialized_size(block) ==
  1 + UintSizes(<<block.type, block.number, Masked(block.flags, BlockFlags),
                  block.crc_type, Len(block.data)>>)
  + Len(block.data) + CrcFieldSize(block.crc_type)

\* The length that the TX task announces: that of the primary block was set
\* when the bundle was made, or by the parser when it was received.
bundle7_get_serialized_size(b) ==
  FoldLeft(LAMBDA n, block : n + bundle7_block_get_serialized_size(block),
           b.primary_block_length + 2, b.blocks)

-----------------------------------------------------------------------------
\* TinyCBOR's iterator: the item at index i, the last of `rem' items of the
\* container that was entered in this call, or the only one when the parser
\* was initialized at it.

\* Go on to index i.  Inside a container the next item is looked at.
Advance(s, i, rem) ==
  [i |-> i, rem |-> rem - 1, err |-> IF rem = 1 THEN "none" ELSE Preparse(s, i).err]

cbor_value_enter_container(s, i) ==
  LET h == Preparse(s, i)
      j == i + h.size
  IN  CASE h.known /\ h.num = 0 -> [i |-> j, rem |-> 0, err |-> "none"]
        [] ~h.known /\ j <= Len(s) /\ s[j] = Break -> [i |-> j + 1, rem |-> 0, err |-> "none"]
        [] OTHER -> [i |-> j, rem |-> IF h.known THEN h.num ELSE Huge, err |-> Preparse(s, j).err]

\* An array of two numbers.
Pair(s, i) ==
  LET h == Preparse(s, i)
      a == Preparse(s, i + h.size)
      b == Preparse(s, i + h.size + a.size)
  IN  [pair |-> <<a.num, b.num>>,
       i    |-> i + h.size + a.size + b.size,
       err  |-> IF h.major # CborArray THEN "ILLEGAL"
                ELSE IF a.err # "none" THEN a.err
                ELSE IF a.major # CborUint \/ h.num # 2 THEN "ILLEGAL"
                ELSE IF b.err # "none" THEN b.err
                ELSE IF b.major # CborUint THEN "ILLEGAL" ELSE "none"]

\* eid_parse_ipn sizes the string by the number of decimal digits, none for
\* zero: the end of the string is cut off for every number that is zero.  A
\* negative service number stands for one of which nothing is left.
IpnString(pair) ==
  LET digits == IF pair[2] < 10 THEN 1 ELSE IF pair[2] < 100 THEN 2 ELSE 3
      lost   == Len(SelectSeq(pair, LAMBDA n : n = 0))
  IN  <<pair[1], IF lost < digits THEN pair[2] \div 10^lost ELSE digits - lost - 1>>

\* The outcome for an EID: the error, or the EID and the index behind it.
\* `freed': it was allocated and freed again, the bundle still points to it.
EidError(err) == [err |-> err, i |-> 0, freed |-> FALSE, eid |-> [schema |-> 0, ssp |-> <<>>]]
EidRead(i, schema, ssp) ==
  [err |-> "none", i |-> i, freed |-> FALSE, eid |-> [schema |-> schema, ssp |-> ssp]]

\* eid_parse_dtn: zero for "none", or a string that must be in the buffer.
eid_parse_dtn(s, i) ==
  LET h    == Preparse(s, i)
      text == i + h.size
  IN  IF h.err # "none" THEN EidError(h.err)
      ELSE IF h.major = CborUint /\ h.num = 0 THEN EidRead(text, EID_SCHEMA_DTN, SspNone)
      ELSE IF h.major # CborTextString \/ ~h.known THEN EidError("ILLEGAL")
      ELSE IF text + h.num - 1 <= Len(s)
      THEN EidRead(text + h.num, EID_SCHEMA_DTN, Bytes(s, text, h.num))
      ELSE [EidError("EOF") EXCEPT !.freed = i + h.num - 1 <= Len(s)]

eid_parse_ipn(s, i) ==
  LET h == Preparse(s, i)
      n == Pair(s, i)
  IN  IF h.err # "none" THEN EidError(h.err)
      ELSE IF h.major # CborArray \/ ~h.known THEN EidError("ILLEGAL")
      ELSE IF n.err # "none" THEN EidError(n.err)
      ELSE EidRead(n.i, EID_SCHEMA_IPN, IpnString(n.pair))

ParseScheme(s, i) ==
  LET h == Preparse(s, i)
      next == Preparse(s, i + h.size)
  IN  IF h.err # "none" THEN EidError(h.err)
      ELSE IF h.major # CborUint THEN EidError("ILLEGAL")
      ELSE IF next.err # "none" THEN EidError(next.err)
      ELSE IF h.num = EID_SCHEMA_DTN THEN eid_parse_dtn(s, i + h.size)
      ELSE IF h.num = EID_SCHEMA_IPN THEN eid_parse_ipn(s, i + h.size)
      ELSE EidError("ILLEGAL")

\* bundle7_eid_parse_cbor up to the end of the EID's array.
bundle7_eid_parse_cbor(s, i) ==
  LET h == Preparse(s, i)
  IN  IF h.major # CborArray \/ ~h.known \/ h.num # 2 THEN EidError("ILLEGAL")
      ELSE ParseScheme(s, i + h.size)

-----------------------------------------------------------------------------
\* The parser.  `val' holds the numbers read by the handlers that read one.
UintHandlers ==
  {"protocol_version", "primary_proc_flags", "crc_type", "lifetime", "fragment_offset",
   "total_adu_length", "block_type", "block_number", "block_proc_flags", "block_crc_type"}

EidHandlers ==
  [destination_eid |-> "source_eid", source_eid |-> "report_to_eid",
   report_to_eid |-> "creation_timestamp"]

\* A new parser.  bundle7_parser_reset makes the same of an old one, and frees
\* what the unfinished bundle points to: `dangling' says that this is an EID
\* which was freed already.
bundle7_parser_init ==
  [status |-> "GOOD", bulk |-> FALSE, next_bytes |-> 0, parse |-> "bundle_start",
   crc_feed |-> FALSE, crc_invalid |-> FALSE, crc |-> 0, bundle_size |-> 0,
   val |-> [h \in UintHandlers |-> 0], eids |-> <<>>, timestamp |-> <<0, 0>>,
   primary_block_length |-> 0, blocks |-> <<>>, data |-> <<>>,
   dangling |-> FALSE, out |-> <<>>]

Result(it, p) == [err |-> it.err, i |-> it.i, rem |-> it.rem, p |-> p]
Illegal(p) == [err |-> "ILLEGAL", i |-> 0, rem |-> 0, p |-> p]

bundle_start(p, s, i) ==
  LET h == Preparse(s, i)
  IN  IF h.major # CborArray \/ h.known THEN Illegal(p)
      ELSE Result(cbor_value_enter_container(s, i), [p EXCEPT !.parse = "primary_block_start"])

primary_block_start(p, s, i) ==
  LET h == Preparse(s, i)
  IN  IF h.major # CborArray \/ ~h.known THEN Illegal(p)
      ELSE Result(cbor_value_enter_container(s, i),
                  [p EXCEPT !.parse = "protocol_version", !.crc_feed = TRUE, !.crc = CrcInit])

block_start(p, s, i) ==
  IF Preparse(s, i).major # CborArray THEN Illegal(p)
  ELSE Result(cbor_value_enter_container(s, i),
              [p EXCEPT !.parse = "block_type", !.crc_feed = TRUE, !.crc = CrcInit])

\* What follows the lifetime, or the total length of a fragment; `size' is
\* the number of bytes that this last field takes.
AfterPrimary(p, size) ==
  IF p.val.crc_type # CRC_TYPE_NONE THEN [p EXCEPT !.parse = "primary_block_crc"]
  ELSE [p EXCEPT !.parse = "block_start", !.primary_block_length = p.bundle_size - 1 + size]

\* The handlers of a number, after it was stored.
protocol_version(p) == [p EXCEPT !.parse = "primary_proc_flags"]
primary_proc_flags(p) == [p EXCEPT !.parse = "crc_type"]

crc_type(p, num) ==
  [p EXCEPT !.crc_feed = @ /\ num # CRC_TYPE_NONE, !.parse = "destination_eid"]

lifetime(p, size) ==
  IF IsFragment(p.val.primary_proc_flags) THEN [p EXCEPT !.parse = "fragment_offset"]
  ELSE AfterPrimary(p, size)

fragment_offset(p) == [p EXCEPT !.parse = "total_adu_length"]
total_adu_length(p, size) == AfterPrimary(p, size)

block_type(p) == [p EXCEPT !.parse = "block_number"]
block_number(p) == [p EXCEPT !.parse = "block_proc_flags"]
block_proc_flags(p) == [p EXCEPT !.parse = "block_crc_type"]

block_crc_type(p, num) ==
  [p EXCEPT !.crc_feed = @ /\ num # CRC_TYPE_NONE, !.parse = "block_data"]

\* The handler of a number, which was stored, with the head h that it was in.
Stored(q, h) ==
  CASE q.parse = "protocol_version"   -> protocol_version(q)
    [] q.parse = "primary_proc_flags" -> primary_proc_flags(q)
    [] q.parse = "crc_type"           -> crc_type(q, h.num)
    [] q.parse = "lifetime"           -> lifetime(q, h.size)
    [] q.parse = "fragment_offset"    -> fragment_offset(q)
    [] q.parse = "total_adu_length"   -> total_adu_length(q, h.size)
    [] q.parse = "block_type"         -> block_type(q)
    [] q.parse = "block_number"       -> block_number(q)
    [] q.parse = "block_proc_flags"   -> block_proc_flags(q)
    [] q.parse = "block_crc_type"     -> block_crc_type(q, h.num)

\* The check of a number, its value, and its handler.
ParseUint(p, s, i, rem) ==
  LET h == Preparse(s, i)
  IN  IF h.err # "none" \/ h.major # CborUint \/ (p.parse = "crc_type" /\ h.num > CRC_TYPE_32)
      THEN Illegal(p)
      ELSE Result(Advance(s, i + h.size, rem), Stored([p EXCEPT !.val[p.parse] = h.num], h))

\* parse_eid.  An error after the EID was allocated leaves the bundle with a
\* pointer to freed memory.
EidDone(p, a, eid) ==
  IF a.err # "none" THEN Result(a, [p EXCEPT !.dangling = TRUE])
  ELSE Result(a, [p EXCEPT !.eids = Append(@, eid), !.dangling = FALSE, !.parse = EidHandlers[p.parse]])

parse_eid(p, s, i, rem) ==
  With(bundle7_eid_parse_cbor(s, i), LAMBDA e :
    IF e.err # "none" THEN [Illegal([p EXCEPT !.dangling = e.freed]) EXCEPT !.err = e.err]
    ELSE With(Advance(s, e.i, rem), LAMBDA a : EidDone(p, a, e.eid)))

creation_timestamp(p, s, i, rem) ==
  LET t == Pair(s, i)
  IN  IF t.err # "none" THEN [Illegal(p) EXCEPT !.err = t.err]
      ELSE Result(Advance(s, t.i, rem), [p EXCEPT !.timestamp = t.pair, !.parse = "lifetime"])

\* The byte string of a CRC: its length must be that of the checksum.
CrcString(s, i, rem, type) ==
  LET h == Preparse(s, i)
      e == i + h.size + h.num
      a == Advance(s, e, rem)
  IN  IF h.err # "none" \/ h.major # CborByteString \/ ~h.known \/ h.num > 4
      THEN [i |-> e, rem |-> 0, err |-> "ILLEGAL", crc |-> <<>>]
      ELSE IF e - 1 > Len(s) THEN [i |-> e, rem |-> 0, err |-> "EOF", crc |-> <<>>]
      ELSE [i |-> a.i, rem |-> a.rem, crc |-> Bytes(s, i + h.size, h.num),
            err |-> IF a.err # "none" THEN a.err
                    ELSE IF h.num # CrcSize(type) THEN "ILLEGAL" ELSE "none"]

crc_verify(p, crc, type, received) ==
  [p EXCEPT !.crc_feed = FALSE,
            !.crc_invalid = @ \/ CrcBytes(CrcWithZero(crc, type), CrcSize(type)) # received]

PrimaryCrcRead(p, c) ==
  IF c.err # "none" THEN Result(c, p)
  ELSE Result(c, [crc_verify(p, p.crc, p.val.crc_type, c.crc) EXCEPT
                    !.parse = "block_start",
                    !.primary_block_length = p.bundle_size - 1 + CrcFieldSize(p.val.crc_type)])

primary_block_crc(p, s, i, rem) ==
  With(CrcString(s, i, rem, p.val.crc_type), LAMBDA c : PrimaryCrcRead(p, c))

\* block_end: the block enters the list of the bundle.
block_end(p) ==
  [p EXCEPT !.blocks = Append(@, [type |-> p.val.block_type, number |-> p.val.block_number,
                                  flags |-> Masked(p.val.block_proc_flags, BlockFlags),
                                  crc_type |-> p.val.block_crc_type, data |-> p.data]),
            !.parse = IF p.val.block_type = PayloadType THEN "bundle_end" ELSE "block_start"]

BlockCrcRead(p, c) ==
  IF c.err # "none" THEN Result(c, p)
  ELSE Result(c, block_end(crc_verify(p, CrcFeed(p.crc, p.data), p.val.block_crc_type, c.crc)))

block_crc(p, s, i, rem) ==
  With(CrcString(s, i, rem, p.val.block_crc_type), LAMBDA c : BlockCrcRead(p, c))

\* block_data: a bulk read is requested.  What follows the head of the byte
\* string is no CBOR item, and is looked at only to advance.
block_data(p, s, i, rem) ==
  LET h == Preparse(s, i)
  IN  IF h.err # "none" \/ h.major # CborByteString \/ ~h.known THEN Illegal(p)
      ELSE Result([Advance(s, i + h.size, rem) EXCEPT !.err = "none"],
                  [p EXCEPT !.crc_feed = TRUE, !.bulk = TRUE, !.next_bytes = h.num,
                            !.bundle_size = @ + h.num,
                            !.parse = IF p.val.block_crc_type # CRC_TYPE_NONE
                                      THEN "block_crc" ELSE "block_end"])

\* The bundle that state->bundle points to at its end.
ParsedBundle(p) ==
  [version |-> 7, proc_flags |-> Masked(p.val.primary_proc_flags, BP_V7_FLAGS),
   crc_type |-> p.val.crc_type,
   destination |-> p.eids[1], source |-> p.eids[2], report_to |-> p.eids[3],
   creation_timestamp |-> p.timestamp[1], sequence_number |-> p.timestamp[2],
   lifetime |-> p.val.lifetime,
   fragment_offset |-> p.val.fragment_offset, total_adu_length |-> p.val.total_adu_length,
   primary_block_length |-> p.primary_block_length, blocks |-> p.blocks]

\* bundle_end: the bundle is handed over if its checksums are right.
bundle_end(p, s, i) ==
  IF s[i] # Break THEN Illegal(p)
  ELSE Result([i |-> i + 1, rem |-> 1, err |-> "none"],
              [p EXCEPT !.status = "DONE",
                        !.out = IF p.crc_invalid THEN <<>> ELSE <<ParsedBundle(p)>>])

\* state->parse(state, &it)
ParseItem(p, s, i, rem) ==
  CASE p.parse = "bundle_start"        -> bundle_start(p, s, i)
    [] p.parse = "primary_block_start" -> primary_block_start(p, s, i)
    [] p.parse \in UintHandlers        -> ParseUint(p, s, i, rem)
    [] p.parse \in DOMAIN EidHandlers  -> parse_eid(p, s, i, rem)
    [] p.parse = "creation_timestamp"  -> creation_timestamp(p, s, i, rem)
    [] p.parse = "primary_block_crc"   -> primary_block_crc(p, s, i, rem)
    [] p.parse = "block_start"         -> block_start(p, s, i)
    [] p.parse = "block_data"          -> block_data(p, s, i, rem)
    [] p.parse = "block_crc"           -> block_crc(p, s, i, rem)
    [] p.parse = "bundle_end"          -> bundle_end(p, s, i)

FailParser(p) == [p EXCEPT !.status = "ERROR"]

\* The bulk read is over.
bundle7_parser_bulk_done(p, data) ==
  LET q == [p EXCEPT !.bulk = FALSE, !.data = data]
  IN  IF p.parse = "block_end" THEN block_end(q) ELSE q

\* The item was parsed: size, quota, checksum, and the parser is initialized
\* again at the end of a container.
ItemDone(t, s, r) ==
  LET size == r.p.bundle_size + r.i - t.n - 1
      q    == [r.p EXCEPT !.bundle_size = size,
                          !.crc = IF r.p.crc_feed THEN CrcFeed(@, SubSeq(s, t.n + 1, r.i - 1)) ELSE @]
  IN  IF size > Quota THEN [t EXCEPT !.p = FailParser(q), !.stop = TRUE]
      ELSE [t EXCEPT !.p = q, !.n = r.i - 1, !.rem = r.rem, !.init = r.rem = 0]

\* What a handler returned: not enough bytes, an error, or an item.
Handled(t, s, r) ==
  CASE r.err = "none" -> ItemDone(t, s, r)
    [] r.err = "EOF"  -> [t EXCEPT !.stop = TRUE, !.p.dangling = r.p.dangling]
    [] OTHER          -> [t EXCEPT !.stop = TRUE, !.p = FailParser(r.p)]

\* One round of the loop of bundle7_parser_read: t.n bytes of s are parsed.
Read7Round(t, s) ==
  LET err == IF t.init THEN Preparse(s, t.n + 1).err ELSE "none"
  IN  IF t.stop \/ t.n >= Len(s) \/ t.p.status # "GOOD" THEN t
      ELSE IF err = "EOF" THEN [t EXCEPT !.stop = TRUE]
      ELSE IF err = "ILLEGAL" THEN [t EXCEPT !.stop = TRUE, !.p = FailParser(@)]
      ELSE IF t.p.bulk
      THEN IF t.n + t.p.next_bytes > Len(s) THEN [t EXCEPT !.stop = TRUE]
           ELSE [t EXCEPT !.p = bundle7_parser_bulk_done(@, Bytes(s, t.n + 1, @.next_bytes)),
                          !.n = @ + t.p.next_bytes, !.init = TRUE]
      ELSE With(ParseItem(t.p, s, t.n + 1, IF t.init THEN 1 ELSE t.rem),
                LAMBDA r : Handled(t, s, r))

\* A round that does not stop takes an item, or ends a bulk read of no bytes.
bundle7_parser_read(p, s) ==
  LET after[i \in 0..(2 * Len(s))] ==
        IF i = 0 THEN [p |-> p, n |-> 0, init |-> TRUE, rem |-> 1, stop |-> FALSE]
        ELSE Read7Round(after[i - 1], s)
  IN  after[2 * Len(s)]
=============================================================================
