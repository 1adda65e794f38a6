----------------------------- MODULE Fragments ------------------------------
(***************************************************************************)
(* How a bundle is cut into fragments (bundle_fragmenter.c,                *)
(* bundle6/fragment.c, bundle7/fragment.c) and the sizes by which the      *)
(* router decides where (bundle.c, bundle6/bundle6.c, bundle7/bundle7.c).  *)
(* Bundles are those of the codecs, with the bytes of their payload.       *)
(***************************************************************************)
EXTENDS Bundle6, Bundle7, Lists

MUST_NOT_BE_FRAGMENTED == 4
EXPEDITED_PRIORITY == 256
NORMAL_PRIORITY == 128

PayloadAt(b) == CHOOSE i \in DOMAIN b.blocks : b.blocks[i].type = BLOCK_TYPE_PAYLOAD
Payload(b) == b.blocks[PayloadAt(b)].data

bundle_must_not_fragment(b) == HAS_FLAG(b.proc_flags, MUST_NOT_BE_FRAGMENTED)
bundle_block_must_be_replicated(block) == HAS_FLAG(block.flags, BLOCK_REPLICATE)
Extension(block) == block.type # BLOCK_TYPE_PAYLOAD

SetFlag(flags, flag) == IF HAS_FLAG(flags, flag) THEN flags ELSE flags + flag
ClearFlag(flags, flag) == IF HAS_FLAG(flags, flag) THEN flags - flag ELSE flags

\* A bundle has a payload block.
Bundles == {b \in Bundles6 \cup Bundles7 : \E i \in DOMAIN b.blocks : ~Extension(b.blocks[i])}
\* It is the only one, the one that the pointer payload_block is for.
OnePayload(b) == \A i \in DOMAIN b.blocks : ~Extension(b.blocks[i]) => i = PayloadAt(b)

\* `own' tells whether the bundle has one of the two retention constraints.
bundle_get_routing_priority(b, own) ==
  IF own \/ (b.version = 6 /\ HAS_FLAG(b.proc_flags, EXPEDITED_PRIORITY)) THEN 2
  ELSE IF b.version = 7 \/ HAS_FLAG(b.proc_flags, NORMAL_PRIORITY) THEN 1 ELSE 0

bundle_recalculate_header_length(b) ==
  [b EXCEPT !.primary_block_length =
     IF b.version = 6 THEN bundle6_recalculate_header_length(b)
     ELSE bundle7_recalculate_primary_block_length(b)]

-----------------------------------------------------------------------------
\* The payload block of a fragment, before its bytes are added.
PayloadHeadSize(block) ==
  1 + UintSizes(<<block.type, block.number, block.flags, block.crc_type, Len(block.data)>>)
  + CrcFieldSize(block.crc_type) + 2

\* The offset and the total length, of a bundle that is a fragment already.
MoreFragmentFields(b) ==
  IF IsFragment(b.proc_flags) THEN bundle7_cbor_uint_sizeof(Len(Payload(b))) + 1 ELSE 0

\* `counted': the extension blocks that go into the fragment.
Sizes7(b, counted) ==
  FoldLeft(LAMBDA n, block : n + (IF ~Extension(block) THEN PayloadHeadSize(block)
                                  ELSE IF block \in counted THEN bundle7_block_get_serialized_size(block)
                                  ELSE 0),
           b.primary_block_length + MoreFragmentFields(b), b.blocks)

bundle7_get_first_fragment_min_size(b) == Sizes7(b, ToSet(b.blocks))
bundle7_get_last_fragment_min_size(b) ==
  Sizes7(b, {block \in ToSet(b.blocks) : bundle_block_must_be_replicated(block)})

bundle_get_serialized_size(b) ==
  IF b.version = 6 THEN bundle6_get_serialized_size(b) ELSE bundle7_get_serialized_size(b)
bundle_get_first_fragment_min_size(b) ==
  IF b.version = 6 THEN bundle6_get_first_fragment_min_size(b)
  ELSE bundle7_get_first_fragment_min_size(b)
bundle_get_mid_fragment_min_size(b) ==
  IF b.version = 6 THEN bundle6_get_mid_fragment_min_size(b)
  ELSE bundle7_get_last_fragment_min_size(b)
bundle_get_last_fragment_min_size(b) ==
  IF b.version = 6 THEN bundle6_get_last_fragment_min_size(b)
  ELSE bundle7_get_last_fragment_min_size(b)

-----------------------------------------------------------------------------
\* bundlefragmenter_create_new_fragment without a payload block
bundlefragmenter_create_new_fragment(prototype) ==
  [prototype EXCEPT
     !.total_adu_length = IF IsFragment(prototype.proc_flags) THEN @ ELSE Len(Payload(prototype)),
     !.proc_flags = SetFlag(@, IS_FRAGMENT),
     !.blocks = <<>>]

\* bundle_block_dup turns the list of EID references round.
bundle_block_dup(block) ==
  IF "eid_refs" \in DOMAIN block THEN [block EXCEPT !.eid_refs = Reverse(@)] ELSE block

bundle_block_list_dup(blocks) == [i \in DOMAIN blocks |-> bundle_block_dup(blocks[i])]

bundlefragmenter_initialize_first_fragment(b) ==
  bundle_recalculate_header_length(
    [bundlefragmenter_create_new_fragment(b) EXCEPT !.blocks = bundle_block_list_dup(b.blocks)])

\* What a cut returns: both parts; "same" when nothing is left for the second
\* one, which then is the first; "null" for a failure.  "crash" is a failed
\* assertion (realloc to no byte returns NULL) or the use of a null pointer.
Cut(first, rest) ==
  [result |-> "cut",
   first |-> bundle_recalculate_header_length(first),
   rest |-> bundle_recalculate_header_length(rest)]
NoCut(result, w) == [result |-> result, first |-> w, rest |-> w]

Shortened(w, n) ==
  [w EXCEPT !.blocks[PayloadAt(w)].data = SubSeq(@, 1, n), !.proc_flags = SetFlag(@, IS_FRAGMENT)]

\* Mutant: the last byte of the first part is repeated.
RestOverlapping(w, n) == SubSeq(Payload(w), n, Len(Payload(w)))

Rest(w, n) == SubSeq(Payload(w), n + 1, Len(Payload(w)))

\* replicate_blocks, for the blocks behind the payload.  The loop for those
\* before it uses the next pointer of the last copy, which is null.
replicate_blocks(first, after) ==
  LET copies == OnlyThose(after, {block \in ToSet(after) : bundle_block_must_be_replicated(block)})
      last   == Len(first.blocks)
  IN  IF copies = <<>> THEN first
      ELSE [first EXCEPT !.blocks = [first.blocks EXCEPT ![last].flags = ClearFlag(@, BLOCK_LAST)]
                                    \o bundle_block_list_dup(copies)]

bundle6_fragment_bundle(w, first_max) ==
  LET n     == first_max - bundle6_get_first_fragment_min_size(w)
      at    == PayloadAt(w)
      after == SubSeq(w.blocks, at + 1, Len(w.blocks))
      short == Shortened(w, n)
      upto  == SubSeq(short.blocks, 1, at)
      first == [short EXCEPT !.blocks = [upto EXCEPT ![at].flags = SetFlag(@, BLOCK_LAST)]]
      pl    == [type |-> BLOCK_TYPE_PAYLOAD, flags |-> w.blocks[at].flags,
                eid_refs |-> <<>>, data |-> Rest(w, n)]
  IN  \* a negative length is a large one
      IF n < 0 \/ n >= Len(Payload(w)) THEN NoCut("same", w)
      ELSE IF n = 0 \/ \E i \in 1..(at - 1) : bundle_block_must_be_replicated(w.blocks[i])
      THEN NoCut("crash", w)
      ELSE Cut(replicate_blocks(first, after),
               [bundlefragmenter_create_new_fragment(w) EXCEPT
                  !.blocks = <<pl>> \o after, !.fragment_offset = @ + n])

\* The payload block of the rest is a new one, without checksum and flags.
bundle7_fragment_bundle(w, first_max) ==
  LET n  == first_max - bundle7_get_first_fragment_min_size(w)
      pl == [type |-> PayloadType, number |-> 1, flags |-> 0, crc_type |-> CRC_TYPE_NONE,
             data |-> Rest(w, n)]
      copied == {block \in ToSet(w.blocks) :
                   Extension(block) /\ bundle_block_must_be_replicated(block)}
  IN  IF n < 0 THEN NoCut("null", w)
      ELSE IF n >= Len(Payload(w)) THEN NoCut("same", w)
      ELSE IF n = 0 THEN NoCut("crash", w)
      ELSE Cut(Shortened(w, n),
               [bundlefragmenter_create_new_fragment(w) EXCEPT
                  !.blocks = bundle_block_list_dup(OnlyThose(w.blocks, copied)) \o <<pl>>,
                  !.fragment_offset = @ + n])

bundlefragmenter_fragment_bundle(w, first_max) ==
  IF w.version = 6 THEN bundle6_fragment_bundle(w, first_max)
  ELSE bundle7_fragment_bundle(w, first_max)
=============================================================================
