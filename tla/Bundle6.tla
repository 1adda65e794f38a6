------------------------------- MODULE Bundle6 -------------------------------
(***************************************************************************)
(* The RFC 5050 codec: the serializer and the size computation             *)
(* (src/components/bundle6/serializer.c, bundle6.c) and the byte-wise      *)
(* parser (src/components/bundle6/parser.c).  An EID is the pair of its    *)
(* scheme and its scheme-specific part, each a sequence of bytes.  A block *)
(* has EID references exactly when its flag says so.                       *)
(***************************************************************************)
EXTENDS Wire

IS_FRAGMENT == 1
BLOCK_REPLICATE == 1
BLOCK_LAST == 8
BLOCK_HAS_EID_REF == 64
BLOCK_TYPE_PAYLOAD == 1

\* The processing flags that the serializer writes.
RFC5050_FLAGS == {2^i : i \in (0..5) \cup {7, 8} \cup (14..18)}

\* struct bundle and its blocks: what a bundle in the storage can be.
Eid6 == Seq(Nat) \X Seq(Nat)
Block6 == [type : Nat, flags : Nat, eid_refs : Seq(Eid6), data : Seq(Nat)]
Bundles6 == [version : {6}, proc_flags : Nat, destination : Eid6, source : Eid6,
             report_to : Eid6, current_custodian : Eid6, creation_timestamp : Nat,
             sequence_number : Nat, lifetime : Nat, fragment_offset : Nat,
             total_adu_length : Nat, primary_block_length : Nat, blocks : Seq(Block6)]

bundle_is_fragmented(flags) == HAS_FLAG(flags, IS_FRAGMENT)

-----------------------------------------------------------------------------
\* write_eid: the scheme and the specific part, each with its terminator.
write_eid(eid) == eid[1] \o <<0>> \o eid[2] \o <<0>>

BlockRefs(b) == FlattenSeq([i \in DOMAIN b.blocks |-> b.blocks[i].eid_refs])

DictEids(b) == <<b.destination, b.source, b.report_to, b.current_custodian>> \o BlockRefs(b)

bundle6_serialize_dictionary(b) == FlattenSeq([i \in DOMAIN DictEids(b) |-> write_eid(DictEids(b)[i])])

\* The offsets of the i-th EID and of its specific part in the dictionary.
calculate_eid_info(b, i) ==
  LET scheme == Len(FlattenSeq([k \in 1..(i - 1) |-> write_eid(DictEids(b)[k])]))
  IN  <<scheme, scheme + Len(DictEids(b)[i][1]) + 1>>

bundle6_calculate_dict(b) ==
  [info   |-> [i \in DOMAIN DictEids(b) |-> calculate_eid_info(b, i)],
   length |-> Len(bundle6_serialize_dictionary(b))]

FragmentFields(b) ==
  IF bundle_is_fragmented(b.proc_flags) THEN <<b.fragment_offset, b.total_adu_length>> ELSE <<>>

SdnvSizes(s) == FoldLeft(LAMBDA n, v : n + sdnv_get_size(v), 0, s)

\* The length of the primary block, its own size taken from the length that
\* was computed last.
bundle6_recalculate_header_length(b) ==
  LET d == bundle6_calculate_dict(b)
  IN  1 + SdnvSizes(<<b.proc_flags, b.primary_block_length>>)
        + SdnvSizes(FlattenSeq(Bytes(d.info, 1, 4)))
        + SdnvSizes(<<b.creation_timestamp, b.sequence_number, b.lifetime \div 1000000, d.length>>)
        + d.length + SdnvSizes(FragmentFields(b))

\* The blocks that a size is asked for: those that go into every fragment,
\* those up to the payload for the first and those behind it for the last.
\* The payload block itself counts as one before the payload.
block_wanted(b, i, first_fragment, last_fragment) ==
  LET reached == \E k \in 1..(i - 1) : b.blocks[k].type = BLOCK_TYPE_PAYLOAD
  IN  \/ HAS_FLAG(b.blocks[i].flags, BLOCK_REPLICATE)
      \/ first_fragment /\ ~reached
      \/ last_fragment /\ reached

BlockSize(b, i, refs, exclude_payload) ==
  1 + SdnvSizes(<<b.blocks[i].flags, Len(b.blocks[i].data)>>) + refs
  + (IF exclude_payload /\ b.blocks[i].type = BLOCK_TYPE_PAYLOAD THEN 0
     ELSE Len(b.blocks[i].data))

RefsSize(b, i) ==
  LET before == 4 + Len(FlattenSeq([k \in 1..(i - 1) |-> b.blocks[k].eid_refs]))
      refs   == Len(b.blocks[i].eid_refs)
  IN  SdnvSizes(FlattenSeq(Bytes(bundle6_calculate_dict(b).info, before + 1, refs)))
      + sdnv_get_size(refs)

\* Mutant: the number of references is counted for every block.
SizeWithoutFlag(b, exclude_payload, first_fragment, last_fragment) ==
  FoldLeft(LAMBDA n, i : IF block_wanted(b, i, first_fragment, last_fragment)
                         THEN n + BlockSize(b, i, RefsSize(b, i), exclude_payload) ELSE n,
           bundle6_recalculate_header_length(b) + SdnvSizes(FragmentFields(b)),
           [i \in DOMAIN b.blocks |-> i])

\* The two fields of a fragment are counted in the primary block and again.
get_serialized_size(b, exclude_payload, first_fragment, last_fragment) ==
  LET refs(i) == IF HAS_FLAG(b.blocks[i].flags, BLOCK_HAS_EID_REF) THEN RefsSize(b, i) ELSE 0
  IN  FoldLeft(LAMBDA n, i : IF block_wanted(b, i, first_fragment, last_fragment)
                             THEN n + BlockSize(b, i, refs(i), exclude_payload) ELSE n,
               bundle6_recalculate_header_length(b) + SdnvSizes(FragmentFields(b)),
               [i \in DOMAIN b.blocks |-> i])

\* The length that the TX task announces to the CLA.
bundle6_get_serialized_size(b) == get_serialized_size(b, FALSE, TRUE, TRUE)

bundle6_get_first_fragment_min_size(b) == get_serialized_size(b, TRUE, TRUE, FALSE)
bundle6_get_mid_fragment_min_size(b) == get_serialized_size(b, TRUE, FALSE, FALSE)
bundle6_get_last_fragment_min_size(b) == get_serialized_size(b, TRUE, FALSE, TRUE)

Sdnvs(s) == FlattenSeq([i \in DOMAIN s |-> sdnv_write(s[i])])

\* One block.  The references are numbered from the first of the dictionary
\* in every block.
SerializeBlock(b, i) ==
  LET block == b.blocks[i]
      info  == bundle6_calculate_dict(b).info
      refs  == Len(block.eid_refs)
  IN  <<block.type>> \o sdnv_write(block.flags)
      \o (IF HAS_FLAG(block.flags, BLOCK_HAS_EID_REF)
          THEN sdnv_write(refs) \o Sdnvs(FlattenSeq(Bytes(info, 5, refs)))
          ELSE <<>>)
      \o sdnv_write(Len(block.data)) \o block.data

bundle6_serialize(b) ==
  LET d == bundle6_calculate_dict(b)
  IN  <<6>>
      \o Sdnvs(<<Masked(b.proc_flags, RFC5050_FLAGS), bundle6_recalculate_header_length(b)>>)
      \o Sdnvs(FlattenSeq(Bytes(d.info, 1, 4)))
      \o Sdnvs(<<b.creation_timestamp, b.sequence_number, b.lifetime \div 1000000, d.length>>)
      \o bundle6_serialize_dictionary(b)
      \o Sdnvs(FragmentFields(b))
      \o FlattenSeq([i \in DOMAIN b.blocks |-> SerializeBlock(b, i)])

-----------------------------------------------------------------------------
\* The parser.  The stages that read an SDNV: its width and the next stage.
SdnvStages ==
  [PROC_FLAGS             |-> <<32, "BLOCK_LENGTH">>,
   BLOCK_LENGTH           |-> <<16, "DESTINATION_EID_SCHEME">>,
   DESTINATION_EID_SCHEME |-> <<16, "DESTINATION_EID_SSP">>,
   DESTINATION_EID_SSP    |-> <<16, "SOURCE_EID_SCHEME">>,
   SOURCE_EID_SCHEME      |-> <<16, "SOURCE_EID_SSP">>,
   SOURCE_EID_SSP         |-> <<16, "REPORT_EID_SCHEME">>,
   REPORT_EID_SCHEME      |-> <<16, "REPORT_EID_SSP">>,
   REPORT_EID_SSP         |-> <<16, "CUSTODIAN_EID_SCHEME">>,
   CUSTODIAN_EID_SCHEME   |-> <<16, "CUSTODIAN_EID_SSP">>,
   CUSTODIAN_EID_SSP      |-> <<16, "TIMESTAMP">>,
   TIMESTAMP              |-> <<64, "SEQUENCE_NUM">>,
   SEQUENCE_NUM           |-> <<64, "LIFETIME">>,
   LIFETIME               |-> <<64, "DICT_LENGTH">>,
   DICT_LENGTH            |-> <<16, "DICTIONARY">>,
   FRAGMENT_OFFSET        |-> <<32, "ADU_LENGTH">>,
   ADU_LENGTH             |-> <<32, "BLOCK_TYPE">>,
   BLOCK_FLAGS            |-> <<8, "BLOCK_DATA_LENGTH">>,
   BLOCK_EID_REF_CNT      |-> <<32, "BLOCK_EID_REF_SCH">>,
   BLOCK_EID_REF_SCH      |-> <<16, "BLOCK_EID_REF_SSP">>,
   BLOCK_EID_REF_SSP      |-> <<16, "BLOCK_EID_REF_SCH">>,
   BLOCK_DATA_LENGTH      |-> <<32, "BLOCK_DATA">>]

NoBlock == [type |-> 0, flags |-> 0, eid_refs |-> <<>>, data |-> <<>>]

\* A new parser.  `val' is what the SDNV of a stage said.  bundle6_parser_reset
\* leaves the dictionary references of the last bundle behind, which are all
\* read again before they are used: here they are gone.
bundle6_parser_init ==
  [status |-> "GOOD", bulk |-> FALSE, next_bytes |-> 0,
   stage |-> "VERSION", next |-> "VERSION", primary |-> TRUE,
   sdnv |-> sdnv_reset, val |-> [s \in DOMAIN SdnvStages |-> 0],
   primary_bytes_remaining |-> 0, cur_bytes_remaining |-> 0,
   current_index |-> 0, current_size |-> 0, last_block |-> FALSE,
   dict |-> <<>>, eids |-> <<>>, blocks |-> <<>>, block |-> NoBlock, out |-> <<>>]

bundle6_parser_reset(p) ==
  IF p.status = "GOOD" /\ p.stage = "VERSION" THEN p ELSE bundle6_parser_init

bundle6_parser_length_known(p) == p.stage \notin {"VERSION", "PROC_FLAGS", "BLOCK_LENGTH"}

\* bundle6_read_eid: the two strings, or <<>> for NULL.
bundle6_read_eid(dict, ref) ==
  LET string(from) == LET end == CHOOSE e \in (from + 1)..(Len(dict) + 1) :
                                   /\ e = Len(dict) + 1 \/ dict[e] = 0
                                   /\ \A k \in (from + 1)..(e - 1) : dict[k] # 0
                      IN  SubSeq(dict, from + 1, end - 1)
  IN  IF ref[1] >= Len(dict) \/ ref[2] >= Len(dict) \/ Contains(string(ref[1]), 58)
      THEN <<>>
      ELSE <<string(ref[1]), string(ref[2])>>

Fail(p) == [p EXCEPT !.status = "ERROR"]

\* bundle6_parser_send_bundle, for a bundle with a payload block.
bundle6_parser_send_bundle(p) ==
  IF \A i \in DOMAIN p.blocks : p.blocks[i].type # BLOCK_TYPE_PAYLOAD THEN p
  ELSE [p EXCEPT !.out = <<
    [version |-> 6, proc_flags |-> p.val.PROC_FLAGS,
     destination |-> p.eids[1], source |-> p.eids[2],
     report_to |-> p.eids[3], current_custodian |-> p.eids[4],
     creation_timestamp |-> p.val.TIMESTAMP, sequence_number |-> p.val.SEQUENCE_NUM,
     lifetime |-> 1000000 * p.val.LIFETIME,
     fragment_offset |-> p.val.FRAGMENT_OFFSET, total_adu_length |-> p.val.ADU_LENGTH,
     primary_block_length |-> p.val.BLOCK_LENGTH, blocks |-> p.blocks]>>]

\* bundle6_parser_next: what the stage that begins needs.
bundle6_parser_next(p) ==
  LET q == [p EXCEPT !.stage = p.next,
                     !.sdnv = IF p.next \in DOMAIN SdnvStages THEN sdnv_reset ELSE @]
  IN  CASE p.next = "DESTINATION_EID_SCHEME" ->
             [q EXCEPT !.primary_bytes_remaining = p.val.BLOCK_LENGTH]
        [] p.next = "DICTIONARY" ->
             LET size == p.current_size + p.val.DICT_LENGTH + 1
             IN  IF p.val.DICT_LENGTH = 0 THEN Fail(q)
                 ELSE [q EXCEPT !.cur_bytes_remaining = p.val.DICT_LENGTH,
                                !.current_size = size, !.dict = <<>>,
                                !.status = IF size > Quota THEN "ERROR" ELSE @]
        [] p.next = "BLOCK_TYPE" -> [q EXCEPT !.primary = FALSE]
        [] p.next = "BLOCK_DATA" ->
             LET size == p.current_size + p.val.BLOCK_DATA_LENGTH
             IN  [q EXCEPT !.cur_bytes_remaining = 0, !.current_index = 0,
                           !.next_bytes = p.val.BLOCK_DATA_LENGTH, !.current_size = size,
                           !.status = IF size > Quota THEN "ERROR" ELSE @,
                           !.bulk = @ \/ size <= Quota]
        [] p.next = "DONE" -> bundle6_parser_send_bundle([q EXCEPT !.status = "DONE"])
        [] OTHER -> q

\* What follows the last byte of an SDNV.
SdnvDone(p) ==
  LET value == p.sdnv.value
      q == [p EXCEPT !.val[p.stage] = value, !.next = SdnvStages[p.stage][2]]
  IN  CASE p.stage = "BLOCK_FLAGS" ->
             [q EXCEPT !.block.flags = value, !.last_block = HAS_FLAG(value, BLOCK_LAST),
                       !.next = IF HAS_FLAG(value, BLOCK_HAS_EID_REF) THEN "BLOCK_EID_REF_CNT" ELSE @]
        [] p.stage = "BLOCK_EID_REF_CNT" ->
             [q EXCEPT !.current_index = 0, !.current_size = value,
                       !.next = IF value = 0 THEN "BLOCK_DATA_LENGTH" ELSE @]
        [] p.stage = "BLOCK_EID_REF_SSP" ->
             LET eid == bundle6_read_eid(p.dict, <<p.val.BLOCK_EID_REF_SCH, value>>)
             IN  [q EXCEPT !.block.eid_refs = <<eid>> \o @,
                           !.current_index = @ + 1,
                           !.status = IF eid = <<>> THEN "ERROR" ELSE @,
                           !.next = IF p.current_index + 1 = p.current_size
                                    THEN "BLOCK_DATA_LENGTH" ELSE @]
        [] OTHER -> q

\* sdnv_read_* and bundle6_parser_wait_for_sdnv.
bundle6_parser_wait_for_sdnv(p, byte) ==
  LET q == [p EXCEPT !.sdnv = sdnv_read(@, SdnvStages[p.stage][1], byte)]
  IN  CASE q.sdnv.status = "IN_PROGRESS" -> q
        [] q.sdnv.status = "ERROR" -> Fail(q)
        [] q.sdnv.status = "DONE" -> SdnvDone(q)

\* The EIDs of the primary block are made when the dictionary is complete.
ReadDictionary(p, byte) ==
  LET q    == [p EXCEPT !.cur_bytes_remaining = @ - 1, !.dict = Append(@, byte)]
      v    == p.val
      eids == <<bundle6_read_eid(q.dict, <<v.DESTINATION_EID_SCHEME, v.DESTINATION_EID_SSP>>),
                bundle6_read_eid(q.dict, <<v.SOURCE_EID_SCHEME, v.SOURCE_EID_SSP>>),
                bundle6_read_eid(q.dict, <<v.REPORT_EID_SCHEME, v.REPORT_EID_SSP>>),
                bundle6_read_eid(q.dict, <<v.CUSTODIAN_EID_SCHEME, v.CUSTODIAN_EID_SSP>>)>>
  IN  IF q.cur_bytes_remaining > 0 THEN q
      ELSE IF Contains(eids, <<>>) THEN Fail(q)
      ELSE [q EXCEPT !.eids = eids,
                     !.next = IF bundle_is_fragmented(v.PROC_FLAGS)
                              THEN "FRAGMENT_OFFSET" ELSE "BLOCK_TYPE"]

\* bundle6_parser_begin_block and bundle6_parser_end_block.
bundle6_parser_begin_block(p, byte) ==
  [p EXCEPT !.block = [NoBlock EXCEPT !.type = byte], !.next = "BLOCK_FLAGS"]

bundle6_parser_end_block(p) ==
  [p EXCEPT !.blocks = Append(@, p.block),
            !.next = IF p.last_block THEN "DONE" ELSE "BLOCK_TYPE"]

bundle6_parser_read_byte(p, byte) ==
  IF p.primary /\ bundle6_parser_length_known(p) /\ p.primary_bytes_remaining = 0 THEN Fail(p)
  ELSE LET q == IF p.primary
                THEN [p EXCEPT !.primary_bytes_remaining = (@ - 1) % 65536] ELSE p
           r == CASE q.stage = "VERSION" -> [q EXCEPT !.next = "PROC_FLAGS"]
                  [] q.stage \in DOMAIN SdnvStages -> bundle6_parser_wait_for_sdnv(q, byte)
                  [] q.stage = "DICTIONARY" -> ReadDictionary(q, byte)
                  [] q.stage = "BLOCK_TYPE" -> bundle6_parser_begin_block(q, byte)
                  [] q.stage = "BLOCK_DATA" /\ q.cur_bytes_remaining = 0 ->
                       bundle6_parser_end_block(q)
                  [] OTHER -> Fail(q)
       IN  IF r.next # r.stage /\ r.status # "ERROR" THEN bundle6_parser_next(r) ELSE r

\* The bulk read is over: the data is in the block, and a zero byte is fed.
bundle6_parser_bulk_done(p, data) ==
  bundle6_parser_read_byte([p EXCEPT !.bulk = FALSE, !.block.data = data], 0)

\* One round of the loop of bundle6_parser_read: t.n bytes of s are parsed.
Read6Round(t, s) ==
  IF \/ t.n >= Len(s) \/ t.p.status # "GOOD"
     \/ t.p.bulk /\ t.n + t.p.next_bytes > Len(s) THEN t
  ELSE IF t.p.bulk
  THEN [p |-> bundle6_parser_bulk_done(t.p, Bytes(s, t.n + 1, t.p.next_bytes)),
        n |-> t.n + t.p.next_bytes]
  ELSE [p |-> bundle6_parser_read_byte(t.p, s[t.n + 1]), n |-> t.n + 1]

\* A round that does not stop takes a byte, or ends a bulk read of none.
bundle6_parser_read(p, s) ==
  LET after[i \in 0..(2 * Len(s))] ==
        IF i = 0 THEN [p |-> p, n |-> 0] ELSE Read6Round(after[i - 1], s)
  IN  after[2 * Len(s)]
=============================================================================
