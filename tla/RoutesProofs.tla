---------------------------- MODULE RoutesProofs ----------------------------
(***************************************************************************)
(* The lists of the contacts, their capacities and the routed_bundle       *)
(* objects, and the fragments of the bundles, for any plan: proofs of the  *)
(* type invariant and of four invariants of Routes.  First the sizes, what *)
(* sorting, cutting and choosing a route return, then what each operation  *)
(* on the lists does to the inductive invariant, then the actions.         *)
(***************************************************************************)
EXTENDS Routes, FiniteSetTheorems, SeqLemmas

\* ---- Sizes of bundles (Bundle6, Bundle7, Fragments)
\* The sizes of SDNVs and CBOR numbers, and their sums.
LEMMA NumberSizes ==
  ASSUME NEW v PROVE sdnv_get_size(v) \in Nat /\ bundle7_cbor_uint_sizeof(v) \in Nat
BY DEF sdnv_get_size, bundle7_cbor_uint_sizeof

\* The sum of the sizes of some SDNVs.
LEMMA SdnvSizesNat ==
  ASSUME NEW S, NEW s \in Seq(S) PROVE SdnvSizes(s) \in Nat
<1> DEFINE A == Nat
<1>n. PICK N \in Nat : N = Len(s) /\ DOMAIN s = 1..N OBVIOUS
<1>b. 0 \in A OBVIOUS
<1> DEFINE op(v, n) == v + sdnv_get_size(s[n])
    G == [z \in (1..N) \X A |-> op(z[2], z[1])]
    E(h) == h = [x \in SUBSET (DOMAIN s) |-> IF x = {} THEN 0 ELSE op(h[x \ {Max(x)}], Max(x))]
    g == CHOOSE h : E(h)
<1>f1. ASSUME NEW n \in 1..N, NEW v \in A PROVE op(v, n) \in A
  BY <1>f1, NumberSizes
<1>f2. SdnvSizes(s) = g[DOMAIN s] BY DEF SdnvSizes, FoldLeft, MapThenFoldSet
<1> HIDE DEF op, A
<1>f3. G \in [(1..N) \X A -> A] /\ \A n \in 1..N : \A v \in A : G[<<n, v>>] = op(v, n) BY <1>f1
<1> HIDE DEF G
<1>f4. PICK h : Folds(h, N, A, 0, G) BY <1>n, <1>b, <1>f3, FoldThere
<1>f5. E(h) BY <1>n, <1>f3, <1>f4 DEF Folds
<1>f6. E(g) BY <1>f5, Zenon DEF g
<1> HIDE DEF g
<1>f7. FoldOf(g, N, A, 0, G) BY <1>n, <1>f3, <1>f6, Zenon DEF FoldOf, E
<1> HIDE DEF E
<1>f8. SdnvSizes(s) \in A BY <1>n, <1>b, <1>f2, <1>f3, <1>f7, FoldIn
<1> QED BY <1>f8 DEF A

\* The sum of the sizes of some CBOR numbers.
LEMMA UintSizesNat ==
  ASSUME NEW S, NEW s \in Seq(S) PROVE UintSizes(s) \in Nat
<1> DEFINE A == Nat
<1>n. PICK N \in Nat : N = Len(s) /\ DOMAIN s = 1..N OBVIOUS
<1>b. 0 \in A OBVIOUS
<1> DEFINE op(v, n) == v + bundle7_cbor_uint_sizeof(s[n])
    G == [z \in (1..N) \X A |-> op(z[2], z[1])]
    E(h) == h = [x \in SUBSET (DOMAIN s) |-> IF x = {} THEN 0 ELSE op(h[x \ {Max(x)}], Max(x))]
    g == CHOOSE h : E(h)
<1>f1. ASSUME NEW n \in 1..N, NEW v \in A PROVE op(v, n) \in A
  BY <1>f1, NumberSizes
<1>f2. UintSizes(s) = g[DOMAIN s] BY DEF UintSizes, FoldLeft, MapThenFoldSet
<1> HIDE DEF op, A
<1>f3. G \in [(1..N) \X A -> A] /\ \A n \in 1..N : \A v \in A : G[<<n, v>>] = op(v, n) BY <1>f1
<1> HIDE DEF G
<1>f4. PICK h : Folds(h, N, A, 0, G) BY <1>n, <1>b, <1>f3, FoldThere
<1>f5. E(h) BY <1>n, <1>f3, <1>f4 DEF Folds
<1>f6. E(g) BY <1>f5, Zenon DEF g
<1> HIDE DEF g
<1>f7. FoldOf(g, N, A, 0, G) BY <1>n, <1>f3, <1>f6, Zenon DEF FoldOf, E
<1> HIDE DEF E
<1>f8. UintSizes(s) \in A BY <1>n, <1>b, <1>f2, <1>f3, <1>f7, FoldIn
<1> QED BY <1>f8 DEF A

\* bundle6_calculate_dict: the dictionary of a BPv6 bundle, with two offsets
\* for each of its EIDs, and the length of the primary block.
LEMMA Dictionary6 ==
  ASSUME NEW b \in Bundles6
  PROVE  /\ BlockRefs(b) \in Seq(Eid6)
         /\ bundle6_calculate_dict(b).info \in Seq(Seq(Nat))
         /\ Len(bundle6_calculate_dict(b).info) = 4 + Len(BlockRefs(b))
         /\ bundle6_recalculate_header_length(b) \in Nat
<1> DEFINE refs == [i \in DOMAIN b.blocks |-> b.blocks[i].eid_refs]
    first == <<b.destination, b.source, b.report_to, b.current_custodian>>
    eids == DictEids(b)
    bytes == [i \in DOMAIN eids |-> write_eid(eids[i])]
    info == [i \in DOMAIN eids |-> calculate_eid_info(b, i)]
    dict == bundle6_calculate_dict(b)
<1>0. /\ b.blocks \in Seq(Block6)
      /\ b.destination \in Eid6 /\ b.source \in Eid6 /\ b.report_to \in Eid6 /\ b.current_custodian \in Eid6
      /\ b.proc_flags \in Nat /\ b.primary_block_length \in Nat /\ b.creation_timestamp \in Nat
      /\ b.sequence_number \in Nat /\ b.lifetime \in Nat /\ b.fragment_offset \in Nat
      /\ b.total_adu_length \in Nat BY DEF Bundles6
<1>1. refs \in Seq(Seq(Eid6))
  <2>1. \A i \in DOMAIN b.blocks : b.blocks[i] \in Block6 BY <1>0
  <2>2. \A i \in DOMAIN b.blocks : b.blocks[i].eid_refs \in Seq(Eid6) BY <2>1 DEF Block6
  <2>3. DOMAIN b.blocks = 1..Len(b.blocks) /\ Len(b.blocks) \in Nat BY <1>0
  <2> QED BY <2>2, <2>3
<1>2. BlockRefs(b) \in Seq(Eid6)
  <2> HIDE DEF refs
  <2>1. FlattenSeq(refs) \in Seq(Eid6) BY <1>1, FlattenSeqIs
  <2> QED BY <2>1 DEF refs, BlockRefs
<1>3. first \in Seq(Eid6) /\ Len(first) = 4 BY <1>0
<1>4. eids \in Seq(Eid6) /\ Len(eids) = 4 + Len(BlockRefs(b))
  <2>1. eids = first \o BlockRefs(b) BY DEF DictEids
  <2> HIDE DEF first, eids
  <2>2. first \o BlockRefs(b) \in Seq(Eid6) /\ Len(first \o BlockRefs(b)) = Len(first) + Len(BlockRefs(b))
    BY <1>2, <1>3, ConcatProperties
  <2> QED BY <1>3, <2>1, <2>2
<1> HIDE DEF first, refs
<1>5. DOMAIN eids = 1..Len(eids) /\ Len(eids) \in Nat /\ \A i \in 1..Len(eids) : eids[i] \in Eid6 BY <1>4
<1> HIDE DEF eids
<1>6. \A i \in 1..Len(eids) : write_eid(eids[i]) \in Seq(Nat) /\ Len(eids[i][1]) \in Nat
  <2> TAKE i \in 1..Len(eids)
  <2>1. eids[i][1] \in Seq(Nat) /\ eids[i][2] \in Seq(Nat) BY <1>5 DEF Eid6
  <2>2. \A s, t \in Seq(Nat) : s \o <<0>> \o t \o <<0>> \in Seq(Nat) OBVIOUS
  <2> QED BY <2>1, <2>2 DEF write_eid
<1>7. bytes \in Seq(Seq(Nat)) BY <1>5, <1>6
<1>8. Len(FlattenSeq(bytes)) \in Nat
  <2> HIDE DEF bytes
  <2>1. FlattenSeq(bytes) \in Seq(Nat) BY <1>7, FlattenSeqIs
  <2> QED BY <2>1
<1>9. ASSUME NEW i \in 1..Len(eids) PROVE calculate_eid_info(b, i) \in Seq(Nat)
  <2> DEFINE before == [k \in 1..(i - 1) |-> write_eid(eids[k])]
  <2>1. before \in Seq(Seq(Nat))
    <3>1. \A k \in 1..(i - 1) : k \in 1..Len(eids) BY <1>5
    <3>2. i - 1 \in Nat OBVIOUS
    <3> QED BY <1>6, <3>1, <3>2
  <2> HIDE DEF before
  <2>2. FlattenSeq(before) \in Seq(Nat) BY <2>1, FlattenSeqIs
  <2> DEFINE n == Len(FlattenSeq(before))
  <2>3. n \in Nat BY <2>2
  <2>4. calculate_eid_info(b, i) = <<n, n + Len(eids[i][1]) + 1>> BY DEF calculate_eid_info, before, eids
  <2> HIDE DEF n
  <2> QED BY <1>6, <2>3, <2>4
<1>10. info \in Seq(Seq(Nat)) /\ Len(info) = Len(eids) BY <1>5, <1>9
<1>11. dict.info = info /\ dict.length = Len(FlattenSeq(bytes))
  BY DEF bundle6_calculate_dict, bundle6_serialize_dictionary, eids
<1> HIDE DEF info, bytes, dict
<1> DEFINE four == FlattenSeq(Bytes(dict.info, 1, 4))
<1>12. four \in Seq(Nat)
  <2>1. \A i \in 1..4 : info[i] \in Seq(Nat)
    <3>1. Len(BlockRefs(b)) \in Nat BY <1>2
    <3>2. \A i \in 1..4 : i \in 1..Len(info) BY <1>4, <1>10, <3>1
    <3> QED BY <1>10, <3>2
  <2>2. SubSeq(info, 1, 4) \in Seq(Seq(Nat)) BY <2>1, SubSeqProperties
  <2>3. Bytes(dict.info, 1, 4) = SubSeq(info, 1, 4) BY <1>11 DEF Bytes
  <2> QED BY <2>2, <2>3, FlattenSeqIs
<1>13. dict.length \in Nat BY <1>8, <1>11
<1> HIDE DEF four
<1>14. SdnvSizes(<<b.proc_flags, b.primary_block_length>>) \in Nat
  <2>1. <<b.proc_flags, b.primary_block_length>> \in Seq(Nat) BY <1>0
  <2> QED BY <2>1, SdnvSizesNat
<1>15. SdnvSizes(four) \in Nat BY <1>12, SdnvSizesNat
<1> DEFINE time == b.lifetime \div 1000000
<1>20. time \in Nat BY <1>0
<1> HIDE DEF time
<1> DEFINE times == <<b.creation_timestamp, b.sequence_number, time, dict.length>>
<1>21. times \in Seq(Nat) BY <1>0, <1>13, <1>20
<1> HIDE DEF times
<1>16. SdnvSizes(times) \in Nat BY <1>21, SdnvSizesNat
<1>17. SdnvSizes(FragmentFields(b)) \in Nat
  <2>1. FragmentFields(b) \in Seq(Nat) BY <1>0 DEF FragmentFields
  <2> QED BY <2>1, SdnvSizesNat
<1>18. bundle6_recalculate_header_length(b) \in Nat
  <2>1. bundle6_recalculate_header_length(b) =
          1 + SdnvSizes(<<b.proc_flags, b.primary_block_length>>) + SdnvSizes(four)
          + SdnvSizes(times)
          + dict.length + SdnvSizes(FragmentFields(b))
    BY DEF bundle6_recalculate_header_length, four, dict, times, time
  <2> QED BY <1>13, <1>14, <1>15, <1>16, <1>17, <2>1
<1>19. dict.info \in Seq(Seq(Nat)) /\ Len(dict.info) = 4 + Len(BlockRefs(b)) BY <1>4, <1>10, <1>11
<1> QED BY <1>2, <1>18, <1>19 DEF dict

\* get_serialized_size of bundle6.c, for every choice of blocks.
LEMMA Sizes6 ==
  ASSUME NEW b \in Bundles6, NEW e, NEW f, NEW l
  PROVE  get_serialized_size(b, e, f, l) \in Nat
<1> DEFINE A == Nat
    s == [i \in DOMAIN b.blocks |-> i]
    base == bundle6_recalculate_header_length(b) + SdnvSizes(FragmentFields(b))
    info == bundle6_calculate_dict(b).info
    ss == [i \in DOMAIN b.blocks |-> b.blocks[i].eid_refs]
    refs(i) == IF HAS_FLAG(b.blocks[i].flags, BLOCK_HAS_EID_REF) THEN RefsSize(b, i) ELSE 0
<1>0. b.blocks \in Seq(Block6) /\ b.fragment_offset \in Nat /\ b.total_adu_length \in Nat BY DEF Bundles6
<1>n. PICK N \in Nat : N = Len(b.blocks) /\ DOMAIN b.blocks = 1..N BY <1>0
<1>1. /\ BlockRefs(b) \in Seq(Eid6) /\ info \in Seq(Seq(Nat)) /\ Len(info) = 4 + Len(BlockRefs(b))
      /\ bundle6_recalculate_header_length(b) \in Nat BY Dictionary6
<1>b. base \in A
  <2>1. FragmentFields(b) \in Seq(Nat) BY <1>0 DEF FragmentFields
  <2>2. SdnvSizes(FragmentFields(b)) \in Nat BY <2>1, SdnvSizesNat
  <2> QED BY <1>1, <2>2
<1>2. \A i \in 1..N : /\ b.blocks[i].eid_refs \in Seq(Eid6) /\ b.blocks[i].data \in Seq(Nat)
                      /\ b.blocks[i].flags \in Nat
  <2>1. \A i \in 1..N : b.blocks[i] \in Block6 BY <1>0, <1>n
  <2> QED BY <2>1 DEF Block6
<1>3. ss \in Seq(Seq(Eid6)) /\ Len(ss) = N /\ \A i \in 1..N : ss[i] = b.blocks[i].eid_refs BY <1>n, <1>2
<1>4. FlattenSeq(ss) = BlockRefs(b) BY DEF BlockRefs
<1> HIDE DEF info
<1>5. ASSUME NEW i \in 1..N PROVE RefsSize(b, i) \in Nat
  <2> DEFINE p == [k \in 1..(i - 1) |-> ss[k]]
      q == FlattenSeq([k \in 1..(i - 1) |-> b.blocks[k].eid_refs])
      n == Len(b.blocks[i].eid_refs)
      from == 4 + Len(q) + 1
  <2>1. \A k \in 1..(i - 1) : k \in 1..N BY <1>n
  <2>2. [k \in 1..(i - 1) |-> b.blocks[k].eid_refs] = p BY <1>3, <2>1
  <2> HIDE DEF ss, p
  <2>3. FlattenSeq(p) \in Seq(Eid6) /\ Len(FlattenSeq(p)) + Len(ss[i]) <= Len(FlattenSeq(ss)) BY <1>3, FlattenPrefix DEF p
  <2>4. q = FlattenSeq(p) BY <2>2
  <2> HIDE DEF q
  <2>5. Len(q) \in Nat /\ n \in Nat
    <3>1. q \in Seq(Eid6) /\ b.blocks[i].eid_refs \in Seq(Eid6) BY <1>2, <2>3, <2>4
    <3> QED BY <3>1
  <2>6. from \in Nat /\ from + n - 1 <= Len(info)
    <3>1. Len(ss[i]) = n BY <1>3
    <3>2. Len(q) + n <= Len(BlockRefs(b)) BY <1>4, <2>3, <2>4, <3>1
    <3>3. Len(BlockRefs(b)) \in Nat BY <1>1
    <3> HIDE DEF n
    <3> QED BY <1>1, <2>5, <3>2, <3>3
  <2>7. from >= 1 BY <2>5
  <2> HIDE DEF from, n
  <2>8. \A k \in from..(from + n - 1) : k \in 1..Len(info) BY <2>5, <2>6, <2>7
  <2>9. \A k \in from..(from + n - 1) : info[k] \in Seq(Nat) BY <1>1, <2>8
  <2>10. SubSeq(info, from, from + n - 1) \in Seq(Seq(Nat)) BY <2>5, <2>6, <2>9, SubSeqProperties
  <2> DEFINE some == Bytes(info, from, n)
  <2>11. FlattenSeq(some) \in Seq(Nat) BY <2>10, FlattenSeqIs DEF Bytes
  <2>12. SdnvSizes(FlattenSeq(some)) \in Nat BY <2>11, SdnvSizesNat
  <2>13. RefsSize(b, i) = SdnvSizes(FlattenSeq(some)) + sdnv_get_size(n)
    BY DEF RefsSize, from, n, q, info
  <2> HIDE DEF some
  <2> QED BY <2>12, <2>13, NumberSizes
<1>6. ASSUME NEW i \in 1..N PROVE BlockSize(b, i, refs(i), e) \in Nat
  <2>1. refs(i) \in Nat BY <1>5
  <2>2. Len(b.blocks[i].data) \in Nat BY <1>2
  <2>3. <<b.blocks[i].flags, Len(b.blocks[i].data)>> \in Seq(Nat) BY <1>2, <2>2
  <2>4. SdnvSizes(<<b.blocks[i].flags, Len(b.blocks[i].data)>>) \in Nat BY <2>3, SdnvSizesNat
  <2> DEFINE two == SdnvSizes(<<b.blocks[i].flags, Len(b.blocks[i].data)>>)
      ref == refs(i)
      len == Len(b.blocks[i].data)
  <2>5. BlockSize(b, i, refs(i), e) = 1 + two + ref
          + (IF e /\ b.blocks[i].type = BLOCK_TYPE_PAYLOAD THEN 0 ELSE len) BY DEF BlockSize
  <2>6. two \in Nat /\ ref \in Nat /\ len \in Nat BY <2>1, <2>2, <2>4
  <2> DEFINE pay == IF e /\ b.blocks[i].type = BLOCK_TYPE_PAYLOAD THEN 0 ELSE len
  <2>7. pay \in Nat
    <3> HIDE DEF len
    <3> QED BY <2>6
  <2>8. BlockSize(b, i, ref, e) = 1 + two + ref + pay BY <2>5
  <2> HIDE DEF two, ref, pay, len
  <2>9. 1 + two + ref + pay \in Nat BY <2>6, <2>7
  <2>10. BlockSize(b, i, ref, e) \in Nat BY <2>8, <2>9
  <2> QED BY <2>10, Zenon DEF ref
<1>7. DOMAIN s = 1..N /\ \A n \in 1..N : s[n] = n BY <1>n
<1> DEFINE op(v, n) == IF block_wanted(b, s[n], f, l) THEN v + BlockSize(b, s[n], refs(s[n]), e) ELSE v
    G == [z \in (1..N) \X A |-> op(z[2], z[1])]
    E(h) == h = [x \in SUBSET (DOMAIN s) |-> IF x = {} THEN base ELSE op(h[x \ {Max(x)}], Max(x))]
    g == CHOOSE h : E(h)
<1>f1. ASSUME NEW n \in 1..N, NEW v \in A PROVE op(v, n) \in A
  <2> HIDE DEF refs, s
  <2> QED BY <1>6, <1>7, <1>f1
<1>f2. get_serialized_size(b, e, f, l) = g[DOMAIN s] BY DEF get_serialized_size, FoldLeft, MapThenFoldSet
<1> HIDE DEF op, A, s, base, refs
<1>f3. G \in [(1..N) \X A -> A] /\ \A n \in 1..N : \A v \in A : G[<<n, v>>] = op(v, n) BY <1>f1
<1> HIDE DEF G
<1>8. N \in Nat /\ DOMAIN s = 1..N BY <1>n, <1>7
<1>f4. PICK h : Folds(h, N, A, base, G) BY <1>8, <1>b, <1>f3, FoldThere
<1>f5. E(h) BY <1>8, <1>f3, <1>f4 DEF Folds
<1>f6. E(g) BY <1>f5, Zenon DEF g
<1> HIDE DEF g
<1>f7. FoldOf(g, N, A, base, G) BY <1>8, <1>f3, <1>f6, Zenon DEF FoldOf, E
<1> HIDE DEF E
<1>f8. get_serialized_size(b, e, f, l) \in A BY <1>8, <1>b, <1>f2, <1>f3, <1>f7, FoldIn
<1> QED BY <1>f8 DEF A

\* bundle7_eid_sizeof, and the size of the primary block of a BPv7 bundle.
LEMMA Primary7 ==
  ASSUME NEW b \in Bundles7 PROVE bundle7_recalculate_primary_block_length(b) \in Nat
<1>1. \A v, w : <<v, w>> \in Seq({v, w}) OBVIOUS
<1>2. ASSUME NEW eid \in Eid7 PROVE bundle7_eid_sizeof(eid) \in Nat
  <2>1. eid.ssp \in Seq(Nat) BY DEF Eid7
  <2>2. UintSizes(eid.ssp) \in Nat /\ Len(eid.ssp) \in Nat BY <2>1, UintSizesNat
  <2> DEFINE len == Len(eid.ssp)
      all == UintSizes(eid.ssp)
  <2>3. bundle7_cbor_uint_sizeof(len) \in Nat /\ len \in Nat /\ all \in Nat BY <2>2, NumberSizes
  <2>4. bundle7_eid_sizeof(eid) = IF eid.schema = EID_SCHEMA_IPN THEN 3 + all
          ELSE IF eid.ssp = SspNone THEN 3 ELSE 2 + bundle7_cbor_uint_sizeof(len) + len
    BY DEF bundle7_eid_sizeof
  <2> HIDE DEF len, all
  <2> QED BY <2>3, <2>4
<1>3. b.destination \in Eid7 /\ b.source \in Eid7 /\ b.report_to \in Eid7 BY DEF Bundles7
<1>4. bundle7_eid_sizeof(b.destination) \in Nat /\ bundle7_eid_sizeof(b.source) \in Nat
      /\ bundle7_eid_sizeof(b.report_to) \in Nat BY <1>2, <1>3
<1>5. ASSUME NEW u, NEW v, NEW w PROVE UintSizes(<<u, v, w>>) \in Nat
  <2>1. <<u, v, w>> \in Seq({u, v, w}) OBVIOUS
  <2> QED BY <2>1, UintSizesNat
<1>6. UintSizes(<<b.fragment_offset, b.total_adu_length>>) \in Nat BY <1>1, UintSizesNat
<1>7. CrcFieldSize(b.crc_type) \in Nat BY DEF CrcFieldSize, CrcSize
<1> QED BY <1>4, <1>5, <1>6, <1>7 DEF bundle7_recalculate_primary_block_length

\* The sizes of the blocks of a BPv7 bundle, and of its fragments.
LEMMA Block7Sizes ==
  ASSUME NEW x \in Block7
  PROVE  bundle7_block_get_serialized_size(x) \in Nat /\ PayloadHeadSize(x) \in Nat
<1>1. x.data \in Seq(Nat) BY DEF Block7
<1>2. Len(x.data) \in Nat BY <1>1
<1>3. ASSUME NEW u, NEW v, NEW w, NEW y, NEW z PROVE UintSizes(<<u, v, w, y, z>>) \in Nat
  <2>1. <<u, v, w, y, z>> \in Seq({u, v, w, y, z}) OBVIOUS
  <2> QED BY <2>1, UintSizesNat
<1>4. CrcFieldSize(x.crc_type) \in Nat BY DEF CrcFieldSize, CrcSize
<1> DEFINE five == UintSizes(<<x.type, x.number, Masked(x.flags, BlockFlags), x.crc_type, Len(x.data)>>)
    head == UintSizes(<<x.type, x.number, x.flags, x.crc_type, Len(x.data)>>)
    crc == CrcFieldSize(x.crc_type)
    len == Len(x.data)
<1>5. five \in Nat /\ head \in Nat /\ crc \in Nat /\ len \in Nat BY <1>2, <1>3, <1>4
<1>6. /\ bundle7_block_get_serialized_size(x) = 1 + five + len + crc
      /\ PayloadHeadSize(x) = 1 + head + crc + 2
  BY DEF bundle7_block_get_serialized_size, PayloadHeadSize
<1> HIDE DEF five, head, crc, len
<1> QED BY <1>5, <1>6

\* bundle7_get_serialized_size
LEMMA Serialized7 ==
  ASSUME NEW b \in Bundles7 PROVE bundle7_get_serialized_size(b) \in Nat
<1> DEFINE A == Nat
    s == b.blocks
    base == b.primary_block_length + 2
<1>0. b.blocks \in Seq(Block7) /\ b.primary_block_length \in Nat BY DEF Bundles7
<1>n. PICK N \in Nat : N = Len(s) /\ DOMAIN s = 1..N BY <1>0
<1>b. base \in A BY <1>0
<1> DEFINE op(v, n) == v + bundle7_block_get_serialized_size(s[n])
    G == [z \in (1..N) \X A |-> op(z[2], z[1])]
    E(h) == h = [x \in SUBSET (DOMAIN s) |-> IF x = {} THEN base ELSE op(h[x \ {Max(x)}], Max(x))]
    g == CHOOSE h : E(h)
<1>f1. ASSUME NEW n \in 1..N, NEW v \in A PROVE op(v, n) \in A
  <2>1. s[n] \in Block7 BY <1>0, <1>n
  <2> HIDE DEF s
  <2> QED BY <1>f1, <2>1, Block7Sizes
<1>f2. bundle7_get_serialized_size(b) = g[DOMAIN s] BY DEF bundle7_get_serialized_size, FoldLeft, MapThenFoldSet
<1> HIDE DEF op, A, s, base
<1>f3. G \in [(1..N) \X A -> A] /\ \A n \in 1..N : \A v \in A : G[<<n, v>>] = op(v, n) BY <1>f1
<1> HIDE DEF G
<1>f4. PICK h : Folds(h, N, A, base, G) BY <1>n, <1>b, <1>f3, FoldThere
<1>f5. E(h) BY <1>n, <1>f3, <1>f4 DEF Folds
<1>f6. E(g) BY <1>f5, Zenon DEF g
<1> HIDE DEF g
<1>f7. FoldOf(g, N, A, base, G) BY <1>n, <1>f3, <1>f6, Zenon DEF FoldOf, E
<1> HIDE DEF E
<1>f8. bundle7_get_serialized_size(b) \in A BY <1>n, <1>b, <1>f2, <1>f3, <1>f7, FoldIn
<1> QED BY <1>f8 DEF A

\* The sizes by which bundle7.c tells what a fragment needs.
LEMMA Sizes7Nat ==
  ASSUME NEW b \in Bundles7, NEW C, Payload(b) \in Seq(Nat) PROVE Sizes7(b, C) \in Nat
<1> DEFINE A == Nat
    s == b.blocks
    base == b.primary_block_length + MoreFragmentFields(b)
<1>0. b.blocks \in Seq(Block7) /\ b.primary_block_length \in Nat BY DEF Bundles7
<1>n. PICK N \in Nat : N = Len(s) /\ DOMAIN s = 1..N BY <1>0
<1>b. base \in A BY <1>0, NumberSizes DEF MoreFragmentFields
<1> DEFINE op(v, n) == v + (IF ~Extension(s[n]) THEN PayloadHeadSize(s[n]) ELSE IF s[n] \in C THEN bundle7_block_get_serialized_size(s[n]) ELSE 0)
    G == [z \in (1..N) \X A |-> op(z[2], z[1])]
    E(h) == h = [x \in SUBSET (DOMAIN s) |-> IF x = {} THEN base ELSE op(h[x \ {Max(x)}], Max(x))]
    g == CHOOSE h : E(h)
<1>f1. ASSUME NEW n \in 1..N, NEW v \in A PROVE op(v, n) \in A
  <2>1. s[n] \in Block7 BY <1>0, <1>n
  <2> HIDE DEF s
  <2> QED BY <1>f1, <2>1, Block7Sizes
<1>f2. Sizes7(b, C) = g[DOMAIN s] BY DEF Sizes7, FoldLeft, MapThenFoldSet
<1> HIDE DEF op, A, s, base
<1>f3. G \in [(1..N) \X A -> A] /\ \A n \in 1..N : \A v \in A : G[<<n, v>>] = op(v, n) BY <1>f1
<1> HIDE DEF G
<1>f4. PICK h : Folds(h, N, A, base, G) BY <1>n, <1>b, <1>f3, FoldThere
<1>f5. E(h) BY <1>n, <1>f3, <1>f4 DEF Folds
<1>f6. E(g) BY <1>f5, Zenon DEF g
<1> HIDE DEF g
<1>f7. FoldOf(g, N, A, base, G) BY <1>n, <1>f3, <1>f6, Zenon DEF FoldOf, E
<1> HIDE DEF E
<1>f8. Sizes7(b, C) \in A BY <1>n, <1>b, <1>f2, <1>f3, <1>f7, FoldIn
<1> QED BY <1>f8 DEF A

\* The payload of a bundle, and what the sizes are computed from.
LEMMA PayloadIs ==
  ASSUME NEW b \in Bundles
  PROVE  /\ PayloadAt(b) \in DOMAIN b.blocks /\ b.blocks[PayloadAt(b)].type = BLOCK_TYPE_PAYLOAD
         /\ Payload(b) \in Seq(Nat) /\ Len(Payload(b)) \in Nat
<1>1. \E i \in DOMAIN b.blocks : b.blocks[i].type = BLOCK_TYPE_PAYLOAD BY DEF Bundles, Extension
<1>2. PayloadAt(b) \in DOMAIN b.blocks /\ b.blocks[PayloadAt(b)].type = BLOCK_TYPE_PAYLOAD BY <1>1 DEF PayloadAt
<1>3. b \in Bundles6 \/ b \in Bundles7 BY DEF Bundles
<1>4. b.blocks[PayloadAt(b)].data \in Seq(Nat)
  <2>1. CASE b \in Bundles6
    <3>1. b.blocks \in Seq(Block6) BY <2>1 DEF Bundles6
    <3>2. b.blocks[PayloadAt(b)] \in Block6 BY <1>2, <3>1
    <3> QED BY <3>2 DEF Block6
  <2>2. CASE b \in Bundles7
    <3>1. b.blocks \in Seq(Block7) BY <2>2 DEF Bundles7
    <3>2. b.blocks[PayloadAt(b)] \in Block7 BY <1>2, <3>1
    <3> QED BY <3>2 DEF Block7
  <2> QED BY <1>3, <2>1, <2>2
<1>5. Payload(b) \in Seq(Nat) BY <1>4 DEF Payload
<1> QED BY <1>2, <1>5

\* The sizes that the router asks for, of any bundle.
LEMMA SizesNat ==
  ASSUME NEW b \in Bundles
  PROVE  /\ bundle_get_serialized_size(b) \in Nat
         /\ bundle_get_first_fragment_min_size(b) \in Nat
         /\ bundle_get_mid_fragment_min_size(b) \in Nat
         /\ bundle_get_last_fragment_min_size(b) \in Nat
<1>1. CASE b \in Bundles6
  <2>1. b.version = 6 BY <1>1 DEF Bundles6
  <2> QED BY <1>1, <2>1, Sizes6 DEF bundle_get_serialized_size, bundle_get_first_fragment_min_size,
        bundle_get_mid_fragment_min_size, bundle_get_last_fragment_min_size,
        bundle6_get_serialized_size, bundle6_get_first_fragment_min_size,
        bundle6_get_mid_fragment_min_size, bundle6_get_last_fragment_min_size
<1>2. CASE b \in Bundles7
  <2>1. b.version = 7 BY <1>2 DEF Bundles7
  <2>2. Payload(b) \in Seq(Nat) BY PayloadIs
  <2>3. bundle7_get_first_fragment_min_size(b) \in Nat /\ bundle7_get_last_fragment_min_size(b) \in Nat
    BY <1>2, <2>2, Sizes7Nat DEF bundle7_get_first_fragment_min_size, bundle7_get_last_fragment_min_size
  <2> QED BY <1>2, <2>1, <2>3, Serialized7 DEF bundle_get_serialized_size, bundle_get_first_fragment_min_size,
        bundle_get_mid_fragment_min_size, bundle_get_last_fragment_min_size
<1> QED BY <1>1, <1>2 DEF Bundles

\* bundle_get_routing_priority
LEMMA PriorityIs ==
  ASSUME NEW b, NEW own PROVE bundle_get_routing_priority(b, own) \in Prio
BY DEF bundle_get_routing_priority, Prio

\* ---- Fragments are bundles (bundle_fragmenter.c, fragment.c)
\* Flags stay numbers when one of them is set or cleared.
LEMMA FlagsNat ==
  ASSUME NEW f \in Nat
  PROVE  SetFlag(f, IS_FRAGMENT) \in Nat /\ SetFlag(f, BLOCK_LAST) \in Nat /\ ClearFlag(f, BLOCK_LAST) \in Nat
<1>1. f < 8 => f \div 8 = 0 OBVIOUS
<1>2. f < 8 => ~HAS_FLAG(f, 8) BY <1>1 DEF HAS_FLAG
<1> QED BY <1>2 DEF SetFlag, ClearFlag, IS_FRAGMENT, BLOCK_LAST

Either(b) == b \in Bundles6 \/ b \in Bundles7
HasPayload(b) == \E i \in DOMAIN b.blocks : b.blocks[i].type = BLOCK_TYPE_PAYLOAD

\* bundle_recalculate_header_length changes the length only.
LEMMA RecalculateIs ==
  ASSUME NEW b, Either(b), HasPayload(b) PROVE bundle_recalculate_header_length(b) \in Bundles
<1> DEFINE n == IF b.version = 6 THEN bundle6_recalculate_header_length(b)
                ELSE bundle7_recalculate_primary_block_length(b)
    r == [b EXCEPT !.primary_block_length = n]
<1>1. CASE b \in Bundles6
  <2>1. n \in Nat
    <3>1. b.version = 6 BY <1>1 DEF Bundles6
    <3> QED BY <1>1, <3>1, Dictionary6
  <2> HIDE DEF n
  <2>2. r \in Bundles6 /\ r.blocks = b.blocks BY <1>1, <2>1 DEF Bundles6
  <2> HIDE DEF r
  <2>3. r \in Bundles BY <2>2 DEF Bundles, Extension, HasPayload
  <2> QED BY <2>3 DEF r, n, bundle_recalculate_header_length
<1>2. CASE b \in Bundles7
  <2>1. n \in Nat
    <3>1. b.version = 7 BY <1>2 DEF Bundles7
    <3> QED BY <1>2, <3>1, Primary7
  <2> HIDE DEF n
  <2>2. r \in Bundles7 /\ r.blocks = b.blocks BY <1>2, <2>1 DEF Bundles7
  <2> HIDE DEF r
  <2>3. r \in Bundles BY <2>2 DEF Bundles, Extension, HasPayload
  <2> QED BY <2>3 DEF r, n, bundle_recalculate_header_length
<1> QED BY <1>1, <1>2 DEF Either

\* The blocks that a copy of a list of blocks has.
LEMMA DupIs ==
  ASSUME NEW S, S = Block6 \/ S = Block7, NEW s \in Seq(S)
  PROVE  /\ bundle_block_list_dup(s) \in Seq(S) /\ DOMAIN bundle_block_list_dup(s) = DOMAIN s
         /\ \A i \in DOMAIN s : bundle_block_list_dup(s)[i].type = s[i].type
<1>1. ASSUME NEW x \in S PROVE bundle_block_dup(x) \in S /\ bundle_block_dup(x).type = x.type
  <2>1. CASE S = Block6
    <3>1. x.eid_refs \in Seq(Eid6) BY <2>1 DEF Block6
    <3>2. Reverse(x.eid_refs) \in Seq(Eid6) BY <3>1, ReverseIs
    <3> DEFINE y == Reverse(x.eid_refs)
    <3> HIDE DEF y
    <3>3. [x EXCEPT !.eid_refs = y] \in Block6 /\ [x EXCEPT !.eid_refs = y].type = x.type
      BY <2>1, <3>2 DEF Block6, y
    <3> QED BY <2>1, <3>3 DEF bundle_block_dup, y
  <2>2. CASE S = Block7
    <3>1. "eid_refs" \notin DOMAIN x BY <2>2 DEF Block7
    <3> QED BY <3>1 DEF bundle_block_dup
  <2> QED BY <2>1, <2>2
<1>2. PICK N \in Nat : N = Len(s) /\ DOMAIN s = 1..N OBVIOUS
<1>3. \A i \in 1..N : s[i] \in S BY <1>2
<1>4. bundle_block_list_dup(s) = [i \in 1..N |-> bundle_block_dup(s[i])] BY <1>2 DEF bundle_block_list_dup
<1>5. \A i \in 1..N : bundle_block_dup(s[i]) \in S /\ bundle_block_dup(s[i]).type = s[i].type BY <1>1, <1>3
<1> QED BY <1>2, <1>4, <1>5

\* A bundle with other blocks; with those of the rest, n bytes behind; as a
\* fragment; as a fragment without blocks.
WithBlocks(b, s) == [b EXCEPT !.blocks = s]
AsRest(b, s, n) == [b EXCEPT !.blocks = s, !.fragment_offset = @ + n]
AsFirst(b, s, flags) == [b EXCEPT !.blocks = s, !.proc_flags = flags]
AsFragment(b, adu, flags, s) == [b EXCEPT !.total_adu_length = adu, !.proc_flags = flags, !.blocks = s]

\* A bundle stays one when its fields get other values.
LEMMA Fields6 ==
  ASSUME NEW b \in Bundles6, NEW s \in Seq(Block6)
  PROVE  /\ WithBlocks(b, s) \in Bundles6 /\ WithBlocks(b, s).blocks = s
         /\ \A n \in Nat : /\ AsRest(b, s, n) \in Bundles6 /\ AsRest(b, s, n).blocks = s
                           /\ AsFirst(b, s, n) \in Bundles6 /\ AsFirst(b, s, n).blocks = s
         /\ \A adu, flags \in Nat : AsFragment(b, adu, flags, s) \in Bundles6
<1>1. WithBlocks(b, s) \in Bundles6 /\ WithBlocks(b, s).blocks = s BY DEF Bundles6, WithBlocks
<1>2. ASSUME NEW n \in Nat PROVE AsRest(b, s, n) \in Bundles6 /\ AsRest(b, s, n).blocks = s
  <2>1. b.fragment_offset \in Nat BY DEF Bundles6
  <2> DEFINE o == b.fragment_offset + n
  <2>2. o \in Nat BY <2>1
  <2>3. AsRest(b, s, n) = [b EXCEPT !.blocks = s, !.fragment_offset = o] BY DEF Bundles6, AsRest
  <2> HIDE DEF o
  <2> DEFINE c == [b EXCEPT !.blocks = s, !.fragment_offset = o]
  <2>4. c.blocks = s BY DEF Bundles6
  <2>5. c \in Bundles6 BY <2>2 DEF Bundles6
  <2> HIDE DEF c
  <2>6. AsRest(b, s, n) = c BY <2>3 DEF c
  <2> QED BY <2>4, <2>5, <2>6
<1>3. ASSUME NEW n \in Nat PROVE AsFirst(b, s, n) \in Bundles6 /\ AsFirst(b, s, n).blocks = s
  BY DEF Bundles6, AsFirst
<1>4. ASSUME NEW adu \in Nat, NEW flags \in Nat PROVE AsFragment(b, adu, flags, s) \in Bundles6
  BY DEF Bundles6, AsFragment
<1> QED BY <1>1, <1>2, <1>3, <1>4

\* A bundle stays one when its fields get other values.
LEMMA Fields7 ==
  ASSUME NEW b \in Bundles7, NEW s \in Seq(Block7)
  PROVE  /\ WithBlocks(b, s) \in Bundles7 /\ WithBlocks(b, s).blocks = s
         /\ \A n \in Nat : /\ AsRest(b, s, n) \in Bundles7 /\ AsRest(b, s, n).blocks = s
                           /\ AsFirst(b, s, n) \in Bundles7 /\ AsFirst(b, s, n).blocks = s
         /\ \A adu, flags \in Nat : AsFragment(b, adu, flags, s) \in Bundles7
<1>1. WithBlocks(b, s) \in Bundles7 /\ WithBlocks(b, s).blocks = s BY DEF Bundles7, WithBlocks
<1>2. ASSUME NEW n \in Nat PROVE AsRest(b, s, n) \in Bundles7 /\ AsRest(b, s, n).blocks = s
  <2>1. b.fragment_offset \in Nat BY DEF Bundles7
  <2> DEFINE o == b.fragment_offset + n
  <2>2. o \in Nat BY <2>1
  <2>3. AsRest(b, s, n) = [b EXCEPT !.blocks = s, !.fragment_offset = o] BY DEF Bundles7, AsRest
  <2> HIDE DEF o
  <2> DEFINE c == [b EXCEPT !.blocks = s, !.fragment_offset = o]
  <2>4. c.blocks = s BY DEF Bundles7
  <2>5. c \in Bundles7 BY <2>2 DEF Bundles7
  <2> HIDE DEF c
  <2>6. AsRest(b, s, n) = c BY <2>3 DEF c
  <2> QED BY <2>4, <2>5, <2>6
<1>3. ASSUME NEW n \in Nat PROVE AsFirst(b, s, n) \in Bundles7 /\ AsFirst(b, s, n).blocks = s
  BY DEF Bundles7, AsFirst
<1>4. ASSUME NEW adu \in Nat, NEW flags \in Nat PROVE AsFragment(b, adu, flags, s) \in Bundles7
  BY DEF Bundles7, AsFragment
<1> QED BY <1>1, <1>2, <1>3, <1>4

\* A new fragment, which has no blocks yet, with blocks of its kind.
LEMMA NewFragment ==
  ASSUME NEW b \in Bundles, NEW blocks, NEW n \in Nat,
         \/ b \in Bundles6 /\ blocks \in Seq(Block6)
         \/ b \in Bundles7 /\ blocks \in Seq(Block7)
  PROVE  LET f == [bundlefragmenter_create_new_fragment(b) EXCEPT !.blocks = blocks]
             r == [bundlefragmenter_create_new_fragment(b) EXCEPT !.blocks = blocks,
                                                                !.fragment_offset = @ + n]
         IN  Either(f) /\ f.blocks = blocks /\ Either(r) /\ r.blocks = blocks
<1> DEFINE adu == IF IsFragment(b.proc_flags) THEN b.total_adu_length ELSE Len(Payload(b))
    flags == SetFlag(b.proc_flags, IS_FRAGMENT)
    e == <<>>
    f == AsFragment(b, adu, flags, e)
<1>0. b \in Bundles6 \/ b \in Bundles7 BY DEF Bundles
<1>1. b.total_adu_length \in Nat /\ b.proc_flags \in Nat BY <1>0 DEF Bundles6, Bundles7
<1>2. adu \in Nat BY <1>1, PayloadIs
<1>3. flags \in Nat BY <1>1, FlagsNat
<1>4. bundlefragmenter_create_new_fragment(b) = f BY Zenon DEF bundlefragmenter_create_new_fragment, AsFragment
<1>5. e \in Seq(Block6) /\ e \in Seq(Block7) OBVIOUS
<1> HIDE DEF adu, flags, e
<1>6. b \in Bundles6 => f \in Bundles6 BY <1>2, <1>3, <1>5, Fields6
<1>7. b \in Bundles7 => f \in Bundles7 BY <1>2, <1>3, <1>5, Fields7
<1> HIDE DEF f
<1>8. (f \in Bundles6 /\ blocks \in Seq(Block6)) \/ (f \in Bundles7 /\ blocks \in Seq(Block7)) BY <1>6, <1>7
<1> DEFINE u == WithBlocks(f, blocks)
    v == AsRest(f, blocks, n)
<1>9. CASE f \in Bundles6 /\ blocks \in Seq(Block6)
  <2>1. u \in Bundles6 /\ u.blocks = blocks /\ v \in Bundles6 /\ v.blocks = blocks BY <1>9, Fields6
  <2> QED BY <1>4, <2>1, Zenon DEF Either, WithBlocks, AsRest
<1>10. CASE f \in Bundles7 /\ blocks \in Seq(Block7)
  <2>1. u \in Bundles7 /\ u.blocks = blocks /\ v \in Bundles7 /\ v.blocks = blocks BY <1>10, Fields7
  <2> QED BY <1>4, <2>1, Zenon DEF Either, WithBlocks, AsRest
<1> QED BY <1>8, <1>9, <1>10

\* bundlefragmenter_initialize_first_fragment
LEMMA FirstFragmentIs ==
  ASSUME NEW b \in Bundles PROVE bundlefragmenter_initialize_first_fragment(b) \in Bundles
<1> DEFINE blocks == bundle_block_list_dup(b.blocks)
    f == [bundlefragmenter_create_new_fragment(b) EXCEPT !.blocks = blocks]
<1>1. \/ b \in Bundles6 /\ b.blocks \in Seq(Block6)
      \/ b \in Bundles7 /\ b.blocks \in Seq(Block7) BY DEF Bundles, Bundles6, Bundles7
<1>2. /\ \/ b \in Bundles6 /\ blocks \in Seq(Block6)
         \/ b \in Bundles7 /\ blocks \in Seq(Block7)
      /\ DOMAIN blocks = DOMAIN b.blocks /\ \A i \in DOMAIN blocks : blocks[i].type = b.blocks[i].type
  BY <1>1, DupIs
<1>3. PayloadAt(b) \in DOMAIN blocks /\ blocks[PayloadAt(b)].type = BLOCK_TYPE_PAYLOAD BY <1>2, PayloadIs
<1> HIDE DEF blocks
<1>4. Either(f) /\ f.blocks = blocks
  <2>1. 0 \in Nat OBVIOUS
  <2>2. (b \in Bundles6 /\ blocks \in Seq(Block6)) \/ (b \in Bundles7 /\ blocks \in Seq(Block7)) BY <1>2
  <2> QED BY <2>1, <2>2, NewFragment, Zenon
<1>6. HasPayload(f)
  <2> HIDE DEF f
  <2> QED BY <1>3, <1>4 DEF HasPayload
<1> HIDE DEF f
<1>7. bundle_recalculate_header_length(f) \in Bundles BY <1>4, <1>6, RecalculateIs
<1> QED BY <1>7 DEF f, blocks, bundlefragmenter_initialize_first_fragment

\* Both parts of a bundle that was cut.
LEMMA ShortenedIs ==
  ASSUME NEW w \in Bundles, NEW n \in Nat, n <= Len(Payload(w))
  PROVE  /\ w \in Bundles6 => Shortened(w, n) \in Bundles6
         /\ w \in Bundles7 => Shortened(w, n) \in Bundles7
         /\ DOMAIN Shortened(w, n).blocks = DOMAIN w.blocks
         /\ Shortened(w, n).blocks[PayloadAt(w)].type = BLOCK_TYPE_PAYLOAD
<1> DEFINE at == PayloadAt(w)
    x == w.blocks[at]
    data == SubSeq(x.data, 1, n)
    y == [x EXCEPT !.data = data]
    flags == SetFlag(w.proc_flags, IS_FRAGMENT)
    blocks == [w.blocks EXCEPT ![at] = y]
    v == [w EXCEPT !.blocks = blocks, !.proc_flags = flags]
<1>1. at \in DOMAIN w.blocks /\ x.type = BLOCK_TYPE_PAYLOAD /\ x.data \in Seq(Nat) /\ n <= Len(x.data)
  BY PayloadIs DEF Payload
<1>2. data \in Seq(Nat)
  <2>1. PICK s \in Seq(Nat) : s = x.data BY <1>1
  <2>2. \A i \in 1..n : i \in 1..Len(s) BY <1>1, <2>1
  <2>3. \A i \in 1..n : s[i] \in Nat BY <2>2
  <2>4. SubSeq(s, 1, n) \in Seq(Nat) BY <2>3, SubSeqProperties
  <2> QED BY <2>1, <2>4
<1>3. Shortened(w, n) = v BY Zenon DEF Shortened
<1> HIDE DEF data, at
<1>4. w.proc_flags \in Nat BY DEF Bundles, Bundles6, Bundles7
<1>5. flags \in Nat BY <1>4, FlagsNat
<1> HIDE DEF flags
<1>6. ASSUME w \in Bundles6
      PROVE  v \in Bundles6 /\ DOMAIN v.blocks = DOMAIN w.blocks /\ v.blocks[at].type = BLOCK_TYPE_PAYLOAD
  <2>1. w.blocks \in Seq(Block6) BY <1>6 DEF Bundles6
  <2>2. x \in Block6 BY <1>1, <2>1
  <2>3. y \in Block6 /\ y.type = x.type BY <1>2, <2>2 DEF Block6
  <2> HIDE DEF y
  <2>4. blocks \in Seq(Block6) /\ DOMAIN blocks = DOMAIN w.blocks /\ blocks[at] = y BY <1>1, <2>1, <2>3
  <2> HIDE DEF blocks
  <2>5. v \in Bundles6 /\ v.blocks = blocks BY <1>5, <1>6, <2>4 DEF Bundles6
  <2> QED BY <1>1, <2>3, <2>4, <2>5
<1>7. ASSUME w \in Bundles7
      PROVE  v \in Bundles7 /\ DOMAIN v.blocks = DOMAIN w.blocks /\ v.blocks[at].type = BLOCK_TYPE_PAYLOAD
  <2>1. w.blocks \in Seq(Block7) BY <1>7 DEF Bundles7
  <2>2. x \in Block7 BY <1>1, <2>1
  <2>3. y \in Block7 /\ y.type = x.type BY <1>2, <2>2 DEF Block7
  <2> HIDE DEF y
  <2>4. blocks \in Seq(Block7) /\ DOMAIN blocks = DOMAIN w.blocks /\ blocks[at] = y BY <1>1, <2>1, <2>3
  <2> HIDE DEF blocks
  <2>5. v \in Bundles7 /\ v.blocks = blocks BY <1>5, <1>7, <2>4 DEF Bundles7
  <2> QED BY <1>1, <2>3, <2>4, <2>5
<1>8. w \in Bundles6 \/ w \in Bundles7 BY DEF Bundles
<1> HIDE DEF v
<1> QED BY <1>3, <1>6, <1>7, <1>8 DEF at

\* replicate_blocks: copies of blocks are put behind the last one.
LEMMA ReplicateIs ==
  ASSUME NEW v \in Bundles6, NEW after \in Seq(Block6), Len(v.blocks) > 0
  PROVE  LET r == replicate_blocks(v, after)
         IN  /\ r \in Bundles6 /\ DOMAIN v.blocks \subseteq DOMAIN r.blocks
             /\ \A i \in DOMAIN v.blocks : r.blocks[i].type = v.blocks[i].type
<1> DEFINE copies == OnlyThose(after, {block \in ToSet(after) : bundle_block_must_be_replicated(block)})
    last == Len(v.blocks)
    flags == ClearFlag(v.blocks[last].flags, BLOCK_LAST)
    s == [v.blocks EXCEPT ![last].flags = flags]
    blocks == s \o bundle_block_list_dup(copies)
    w == [v EXCEPT !.blocks = blocks]
<1>1. v.blocks \in Seq(Block6) BY DEF Bundles6
<1>2. last \in Nat /\ last \in DOMAIN v.blocks /\ DOMAIN v.blocks = 1..last BY <1>1
<1>3. v.blocks[last] \in Block6 BY <1>1, <1>2
<1>4. flags \in Nat
  <2>1. v.blocks[last].flags \in Nat BY <1>3 DEF Block6
  <2> QED BY <2>1, FlagsNat
<1>5. copies \in Seq(Block6)
  <2> DEFINE T == {block \in ToSet(after) : bundle_block_must_be_replicated(block)}
  <2> HIDE DEF T
  <2>1. OnlyThose(after, T) \in Seq({x \in Block6 : x \in T /\ x \in ToSet(after)}) BY OnlyThoseIs
  <2>2. OnlyThose(after, T) \in Seq(Block6)
    <3> DEFINE U == {x \in Block6 : x \in T /\ x \in ToSet(after)}
    <3>1. \A x \in U : x \in Block6 OBVIOUS
    <3>2. OnlyThose(after, T) \in Seq(U) BY <2>1
    <3> HIDE DEF U
    <3> QED BY <3>1, <3>2
  <2> QED BY <2>2 DEF T
<1>6. replicate_blocks(v, after) = IF copies = <<>> THEN v ELSE w BY Zenon DEF replicate_blocks
<1> HIDE DEF flags, copies, last
<1>7. s \in Seq(Block6) /\ Len(s) = last /\ DOMAIN s = 1..last /\ \A i \in 1..last : s[i].type = v.blocks[i].type
  <2>1. \A i \in 1..last : v.blocks[i] \in Block6 BY <1>1, <1>2
  <2>2. s = [v.blocks EXCEPT ![last] = [v.blocks[last] EXCEPT !.flags = flags]] OBVIOUS
  <2> DEFINE y == [v.blocks[last] EXCEPT !.flags = flags]
  <2>3. y \in Block6 /\ y.type = v.blocks[last].type BY <1>3, <1>4 DEF Block6
  <2> HIDE DEF y, s
  <2>4. s = [v.blocks EXCEPT ![last] = y] BY <2>2 DEF y
  <2>5. s = [i \in 1..last |-> IF i = last THEN y ELSE v.blocks[i]] BY <1>2, <2>4
  <2>6. \A i \in 1..last : (IF i = last THEN y ELSE v.blocks[i]) \in Block6 BY <2>1, <2>3
  <2>7. s \in Seq(Block6) /\ Len(s) = last BY <1>2, <2>5, <2>6
  <2> QED BY <1>2, <2>3, <2>5, <2>7
<1> HIDE DEF s
<1>8. bundle_block_list_dup(copies) \in Seq(Block6) BY <1>5, DupIs
<1>9. blocks \in Seq(Block6) /\ Len(blocks) >= last /\ \A i \in 1..last : blocks[i] = s[i]
  <2> DEFINE d == bundle_block_list_dup(copies)
  <2> HIDE DEF d
  <2>0. d \in Seq(Block6) BY <1>8 DEF d
  <2>1. s \o d \in Seq(Block6) /\ Len(s \o d) = Len(s) + Len(d)
        /\ \A i \in 1..(Len(s) + Len(d)) : (s \o d)[i] = IF i <= Len(s) THEN s[i] ELSE d[i - Len(s)]
    BY <1>7, <2>0, ConcatProperties
  <2>2. Len(d) \in Nat BY <1>8 DEF d
  <2> QED BY <1>2, <1>7, <2>1, <2>2 DEF d
<1> HIDE DEF blocks
<1>10. w \in Bundles6 /\ w.blocks = blocks BY <1>9 DEF Bundles6
<1>11. 1..last \subseteq DOMAIN blocks BY <1>2, <1>9
<1> HIDE DEF w
<1> QED BY <1>2, <1>6, <1>7, <1>9, <1>10, <1>11

\* Where the payload is, and what is behind a number of bytes of it.
LEMMA RestIs ==
  ASSUME NEW w \in Bundles, NEW n \in Nat
  PROVE  Rest(w, n) \in Seq(Nat)
<1>1. PICK s \in Seq(Nat) : s = Payload(w) BY PayloadIs
<1>2. \A i \in (n + 1)..Len(s) : i \in 1..Len(s) OBVIOUS
<1>3. \A i \in (n + 1)..Len(s) : s[i] \in Nat BY <1>2
<1>4. SubSeq(s, n + 1, Len(s)) \in Seq(Nat) BY <1>3, SubSeqProperties
<1> QED BY <1>1, <1>4 DEF Rest

\* What a cut returns: bundles, and those it was given when there is no cut.
Results == {"cut", "null", "same", "crash"}
Cuts(r) == r.first \in Bundles /\ r.rest \in Bundles /\ r.result \in Results

\* bundle6_fragment_bundle
LEMMA Cut6 ==
  ASSUME NEW w \in Bundles, w \in Bundles6, NEW max \in Int
  PROVE  Cuts(bundle6_fragment_bundle(w, max))
<1> DEFINE n == max - bundle6_get_first_fragment_min_size(w)
    at == PayloadAt(w)
    after == SubSeq(w.blocks, at + 1, Len(w.blocks))
    short == Shortened(w, n)
    upto == SubSeq(short.blocks, 1, at)
    blocks == [upto EXCEPT ![at].flags = SetFlag(@, BLOCK_LAST)]
    first == [short EXCEPT !.blocks = [upto EXCEPT ![at].flags = SetFlag(@, BLOCK_LAST)]]
    pl == [type |-> BLOCK_TYPE_PAYLOAD, flags |-> w.blocks[at].flags,
           eid_refs |-> <<>>, data |-> Rest(w, n)]
    list == <<pl>> \o after
    rest == [bundlefragmenter_create_new_fragment(w) EXCEPT
               !.blocks = list, !.fragment_offset = @ + n]
    made == replicate_blocks(first, after)
    none == n < 0 \/ n >= Len(Payload(w))
    dies == n = 0 \/ \E i \in 1..(at - 1) : bundle_block_must_be_replicated(w.blocks[i])
<1>1. bundle6_fragment_bundle(w, max) =
        IF none THEN NoCut("same", w) ELSE IF dies THEN NoCut("crash", w) ELSE Cut(made, rest)
  BY Zenon DEF bundle6_fragment_bundle
<1>2. Cuts(NoCut("same", w)) /\ Cuts(NoCut("crash", w)) BY DEF Cuts, NoCut, Results
<1> HIDE DEF dies
<1>3. n \in Int
  <2>1. w.version = 6 BY DEF Bundles6
  <2>2. bundle_get_first_fragment_min_size(w) \in Nat BY SizesNat
  <2>3. bundle6_get_first_fragment_min_size(w) \in Nat BY <2>1, <2>2 DEF bundle_get_first_fragment_min_size
  <2> QED BY <2>3
<1> HIDE DEF n
<1>4. ASSUME ~none, ~dies PROVE Cuts(Cut(made, rest))
  <2>1. Len(Payload(w)) \in Nat /\ n \in Nat /\ n <= Len(Payload(w))
    <3>1. Payload(w) \in Seq(Nat) BY PayloadIs
    <3>2. Len(Payload(w)) \in Nat BY <3>1
    <3> QED BY <1>3, <1>4, <3>2
  <2> HIDE DEF none
  <2>2. w.blocks \in Seq(Block6) BY DEF Bundles6
  <2>3. at \in DOMAIN w.blocks /\ w.blocks[at].type = BLOCK_TYPE_PAYLOAD BY PayloadIs
  <2>4. short \in Bundles6 /\ DOMAIN short.blocks = DOMAIN w.blocks /\ short.blocks[at].type = BLOCK_TYPE_PAYLOAD
    BY <2>1, ShortenedIs
  <2> HIDE DEF at, short
  <2>5. short.blocks \in Seq(Block6) BY <2>4 DEF Bundles6
  <2>6. at \in Nat /\ at >= 1 /\ at \in 1..Len(w.blocks) /\ at <= Len(short.blocks) BY <2>2, <2>3, <2>4, <2>5
  <2>7. after \in Seq(Block6)
    <3>1. \A i \in (at + 1)..Len(w.blocks) : i \in 1..Len(w.blocks) BY <2>2, <2>6
    <3>2. \A i \in (at + 1)..Len(w.blocks) : w.blocks[i] \in Block6 BY <2>2, <3>1
    <3>3. Len(w.blocks) \in Nat BY <2>2
    <3>4. at + 1 \in Int /\ Len(w.blocks) \in Int BY <2>6, <3>3
    <3> QED BY <3>2, <3>4, SubSeqProperties
  <2> HIDE DEF after
  <2>8. blocks \in Seq(Block6) /\ Len(blocks) = at /\ blocks[at].type = BLOCK_TYPE_PAYLOAD
    <3> DEFINE s == SubSeq(short.blocks, 1, at)
        y == [s[at] EXCEPT !.flags = SetFlag(s[at].flags, BLOCK_LAST)]
    <3>1. s = [i \in 1..at |-> short.blocks[i]]
      <4>1. PICK t \in Seq(Block6) : t = short.blocks BY <2>5
      <4>2. Len(SubSeq(t, 1, at)) = at /\ \A i \in 1..at : SubSeq(t, 1, at)[i] = t[i] BY <2>6, <4>1
      <4>3. SubSeq(t, 1, at) = [i \in 1..at |-> t[i]] BY <2>6, <4>1
      <4> QED BY <4>1, <4>3
    <3>2. \A i \in 1..at : short.blocks[i] \in Block6 BY <2>5, <2>6
    <3> HIDE DEF s
    <3>3. s[at] = short.blocks[at] /\ s[at] \in Block6 BY <2>6, <3>1, <3>2
    <3>4. s[at].flags \in Nat BY <3>3 DEF Block6
    <3>5. SetFlag(s[at].flags, BLOCK_LAST) \in Nat BY <3>4, FlagsNat
    <3>6. y \in Block6 /\ y.type = s[at].type
      <4> DEFINE f == SetFlag(s[at].flags, BLOCK_LAST)
      <4> HIDE DEF f
      <4>1. [s[at] EXCEPT !.flags = f] \in Block6 /\ [s[at] EXCEPT !.flags = f].type = s[at].type
        BY <3>3, <3>5 DEF Block6, f
      <4> QED BY <4>1 DEF f
    <3>7. blocks = [s EXCEPT ![at] = y] BY DEF s
    <3> HIDE DEF y, blocks
    <3>8. blocks = [i \in 1..at |-> IF i = at THEN y ELSE short.blocks[i]] BY <3>1, <3>7
    <3>9. \A i \in 1..at : (IF i = at THEN y ELSE short.blocks[i]) \in Block6 BY <3>2, <3>6
    <3>10. blocks \in Seq(Block6) /\ Len(blocks) = at BY <2>6, <3>8, <3>9
    <3>11. blocks[at] = y BY <2>6, <3>8
    <3> QED BY <2>4, <3>3, <3>6, <3>10, <3>11
  <2> HIDE DEF blocks
  <2>9. first \in Bundles6 /\ first.blocks = blocks
    <3>1. first = WithBlocks(short, blocks) BY Zenon DEF WithBlocks, blocks
    <3> HIDE DEF first
    <3> QED BY <2>4, <2>8, <3>1, Fields6
  <2> HIDE DEF first
  <2>10. made \in Bundles6 /\ HasPayload(made)
    <3>1. Len(first.blocks) > 0 /\ at \in DOMAIN first.blocks /\ first.blocks[at].type = BLOCK_TYPE_PAYLOAD
      BY <2>6, <2>8, <2>9
    <3>2. made \in Bundles6 /\ DOMAIN first.blocks \subseteq DOMAIN made.blocks
          /\ \A i \in DOMAIN first.blocks : made.blocks[i].type = first.blocks[i].type
      BY <2>7, <2>9, <3>1, ReplicateIs
    <3> HIDE DEF made
    <3> QED BY <3>1, <3>2 DEF HasPayload
  <2> HIDE DEF made
  <2>11. pl \in Block6 /\ pl.type = BLOCK_TYPE_PAYLOAD
    <3>1. w.blocks[at] \in Block6 BY <2>2, <2>3
    <3>2. w.blocks[at].flags \in Nat BY <3>1 DEF Block6
    <3>3. Rest(w, n) \in Seq(Nat) BY <2>1, RestIs
    <3>4. <<>> \in Seq(Eid6) OBVIOUS
    <3>5. BLOCK_TYPE_PAYLOAD \in Nat BY DEF BLOCK_TYPE_PAYLOAD
    <3> QED BY <3>2, <3>3, <3>4, <3>5 DEF Block6
  <2> HIDE DEF pl
  <2>12. list \in Seq(Block6) /\ 1 \in DOMAIN list /\ list[1] = pl
    <3>1. <<pl>> \in Seq(Block6) /\ Len(<<pl>>) = 1 /\ <<pl>>[1] = pl BY <2>11
    <3> DEFINE p == <<pl>>
    <3> HIDE DEF p
    <3>2. p \in Seq(Block6) /\ Len(p) = 1 /\ p[1] = pl BY <3>1 DEF p
    <3>3. p \o after \in Seq(Block6) /\ Len(p \o after) = Len(p) + Len(after)
          /\ \A i \in 1..(Len(p) + Len(after)) : (p \o after)[i] = IF i <= Len(p) THEN p[i] ELSE after[i - Len(p)]
      BY <2>7, <3>2, ConcatProperties
    <3>4. Len(after) \in Nat BY <2>7
    <3>5. 1 \in 1..(Len(p) + Len(after)) BY <3>2, <3>4
    <3>6. p \o after \in Seq(Block6) /\ 1 \in DOMAIN (p \o after) /\ (p \o after)[1] = pl BY <3>2, <3>3, <3>5
    <3> QED BY <3>6 DEF p
  <2> HIDE DEF list
  <2>13. Either(rest) /\ rest.blocks = list
    <3>1. (w \in Bundles6 /\ list \in Seq(Block6)) \/ (w \in Bundles7 /\ list \in Seq(Block7)) BY <2>12
    <3> QED BY <2>1, <3>1, NewFragment, Zenon
  <2> HIDE DEF rest
  <2>14. HasPayload(rest) BY <2>11, <2>12, <2>13 DEF HasPayload
  <2>15. Either(made) BY <2>10 DEF Either
  <2>16. bundle_recalculate_header_length(made) \in Bundles /\ bundle_recalculate_header_length(rest) \in Bundles
    BY <2>10, <2>13, <2>14, <2>15, RecalculateIs
  <2> QED BY <2>16 DEF Cut, Cuts, Results
<1> QED BY <1>1, <1>2, <1>4

\* bundle7_fragment_bundle
LEMMA Cut7 ==
  ASSUME NEW w \in Bundles, w \in Bundles7, NEW max \in Int
  PROVE  Cuts(bundle7_fragment_bundle(w, max))
<1> DEFINE n == max - bundle7_get_first_fragment_min_size(w)
    pl == [type |-> PayloadType, number |-> 1, flags |-> 0, crc_type |-> CRC_TYPE_NONE,
           data |-> Rest(w, n)]
    copied == {block \in ToSet(w.blocks) : Extension(block) /\ bundle_block_must_be_replicated(block)}
    list == bundle_block_list_dup(OnlyThose(w.blocks, copied)) \o <<pl>>
    rest == [bundlefragmenter_create_new_fragment(w) EXCEPT
               !.blocks = list, !.fragment_offset = @ + n]
    made == Shortened(w, n)
<1>1. bundle7_fragment_bundle(w, max) =
        IF n < 0 THEN NoCut("null", w) ELSE IF n >= Len(Payload(w)) THEN NoCut("same", w)
        ELSE IF n = 0 THEN NoCut("crash", w) ELSE Cut(made, rest)
  BY Zenon DEF bundle7_fragment_bundle
<1>2. Cuts(NoCut("null", w)) /\ Cuts(NoCut("same", w)) /\ Cuts(NoCut("crash", w)) BY DEF Cuts, NoCut, Results
<1>3. n \in Int
  <2>1. w.version = 7 BY DEF Bundles7
  <2>2. bundle_get_first_fragment_min_size(w) \in Nat BY SizesNat
  <2>3. bundle7_get_first_fragment_min_size(w) \in Nat BY <2>1, <2>2 DEF bundle_get_first_fragment_min_size
  <2> QED BY <2>3
<1> HIDE DEF n
<1>4. ASSUME ~(n < 0), ~(n >= Len(Payload(w))) PROVE Cuts(Cut(made, rest))
  <2>1. n \in Nat /\ n <= Len(Payload(w))
    <3>1. Payload(w) \in Seq(Nat) BY PayloadIs
    <3>2. Len(Payload(w)) \in Nat BY <3>1
    <3> QED BY <1>3, <1>4, <3>2
  <2>2. w.blocks \in Seq(Block7) BY DEF Bundles7
  <2>3. PayloadAt(w) \in DOMAIN w.blocks BY PayloadIs
  <2>4. made \in Bundles7 /\ HasPayload(made)
    <3>1. made \in Bundles7 /\ DOMAIN made.blocks = DOMAIN w.blocks
          /\ made.blocks[PayloadAt(w)].type = BLOCK_TYPE_PAYLOAD BY <2>1, ShortenedIs
    <3> HIDE DEF made
    <3> QED BY <2>3, <3>1 DEF HasPayload
  <2> HIDE DEF made
  <2>5. pl \in Block7 /\ pl.type = BLOCK_TYPE_PAYLOAD
    <3>1. Rest(w, n) \in Seq(Nat) BY <2>1, RestIs
    <3>2. PayloadType \in Nat /\ PayloadType = BLOCK_TYPE_PAYLOAD /\ CRC_TYPE_NONE \in 0..2
      BY DEF BLOCK_TYPE_PAYLOAD, PayloadType, CRC_TYPE_NONE
    <3>3. 1 \in Nat /\ 0 \in Nat OBVIOUS
    <3> QED BY <3>1, <3>2, <3>3 DEF Block7
  <2> HIDE DEF pl
  <2>6. OnlyThose(w.blocks, copied) \in Seq(Block7)
    <3> HIDE DEF copied
    <3> DEFINE U == {x \in Block7 : x \in copied /\ x \in ToSet(w.blocks)}
    <3>1. \A x \in U : x \in Block7 OBVIOUS
    <3>2. OnlyThose(w.blocks, copied) \in Seq(U) BY <2>2, OnlyThoseIs
    <3> HIDE DEF U
    <3> QED BY <3>1, <3>2
  <2>7. bundle_block_list_dup(OnlyThose(w.blocks, copied)) \in Seq(Block7) BY <2>6, DupIs
  <2>8. list \in Seq(Block7) /\ \E i \in DOMAIN list : list[i] = pl
    <3> DEFINE d == bundle_block_list_dup(OnlyThose(w.blocks, copied))
    <3>1. d \in Seq(Block7) BY <2>7
    <3> HIDE DEF d
    <3>2. d \o <<pl>> = Append(d, pl) BY <2>5, <3>1
    <3>3. Append(d, pl) \in Seq(Block7) /\ Len(d) + 1 \in DOMAIN Append(d, pl) /\ Append(d, pl)[Len(d) + 1] = pl
      BY <2>5, <3>1
    <3> QED BY <3>2, <3>3 DEF d
  <2> HIDE DEF list
  <2>9. Either(rest) /\ rest.blocks = list
    <3>1. (w \in Bundles6 /\ list \in Seq(Block6)) \/ (w \in Bundles7 /\ list \in Seq(Block7)) BY <2>8
    <3> QED BY <2>1, <3>1, NewFragment, Zenon
  <2> HIDE DEF rest
  <2>10. HasPayload(rest) BY <2>5, <2>8, <2>9 DEF HasPayload
  <2>11. Either(made) BY <2>4 DEF Either
  <2>12. bundle_recalculate_header_length(made) \in Bundles /\ bundle_recalculate_header_length(rest) \in Bundles
    BY <2>4, <2>9, <2>10, <2>11, RecalculateIs
  <2> QED BY <2>12 DEF Cut, Cuts, Results
<1> QED BY <1>1, <1>2, <1>4

\* bundlefragmenter_fragment_bundle
LEMMA CutIs ==
  ASSUME NEW w \in Bundles, NEW max \in Int
  PROVE  Cuts(bundlefragmenter_fragment_bundle(w, max))
<1>1. CASE w.version = 6
  <2>1. w \in Bundles6 BY <1>1 DEF Bundles, Bundles7
  <2> QED BY <1>1, <2>1, Cut6 DEF bundlefragmenter_fragment_bundle
<1>2. CASE w.version # 6
  <2>1. w \in Bundles7 BY <1>2 DEF Bundles, Bundles6
  <2> QED BY <1>2, <2>1, Cut7 DEF bundlefragmenter_fragment_bundle
<1> QED BY <1>1, <1>2

\* ---- Types of what the tasks share
Status == {"bp", "routed", "replaced", "refused", "lost", "gone"}
Entry == [bundle : Bundles, own : BOOLEAN, dest : STRING, of : Nat, status : Status]
RoutedBundle == [live : BOOLEAN, id : Nat, dest : STRING, contacts : Seq(Contact), improved : Nat,
                 prio : Prio, size : Nat, serialized : Nat]
Faults == {"none", "freed", "remaining_capacity_p0", "null", "preempted_count", "same", "crash"}
Signal == [type : {"transmission", "optimization_drop"}, rb : Nat]
Memory == [rate : [Contact -> Nat], total : [Contact -> Nat], left : [Contact -> [Prio -> Int]],
           bundles : [Contact -> Seq(Nat)], handed : [Contact -> Seq(Nat)], over : SUBSET Contact,
           rb : Seq(RoutedBundle), rq : Seq(Signal), fault : Faults, store : Seq(Entry)]

\* What is on lists and in queues are objects that exist, also freed ones.
MemOK(a) ==
  /\ a \in Memory
  /\ \A c \in Contact : ToSet(a.bundles[c]) \subseteq DOMAIN a.rb /\ ToSet(a.handed[c]) \subseteq DOMAIN a.rb
  /\ \A x \in DOMAIN a.rb : /\ Len(a.rb[x].contacts) <= MaxContacts /\ IsInjective(a.rb[x].contacts)
                            /\ a.rb[x].id \in DOMAIN a.store
  /\ \A i \in DOMAIN a.rq : a.rq[i].rb \in DOMAIN a.rb

\* The types of the constants.
LEMMA Constants ==
  /\ From \in [Contact -> Nat] /\ To \in [Contact -> Nat] /\ Bitrate \in [Contact -> Nat]
  /\ Reliability \in [Contact -> Int] /\ Mbs \in [Contact -> Int]
  /\ MaxContacts \in Nat /\ MaxFragments \in Nat /\ FragmentMinPayload \in Nat
  /\ MinProbability \in Nat /\ MinProbability > 0 /\ OptMaxPreBundles \in Nat
  /\ OptMaxPreBundlesContact \in Nat /\ OptMaxBundles \in Nat
<1>1. /\ From \in [Contact -> Nat] /\ To \in [Contact -> Nat] /\ Bitrate \in [Contact -> Nat]
      /\ MaxContacts \in Nat /\ MaxFragments \in Nat /\ FragmentMinPayload \in Nat
      /\ MinProbability \in Nat /\ MinProbability > 0 /\ OptMaxPreBundles \in Nat
      /\ OptMaxPreBundlesContact \in Nat /\ OptMaxBundles \in Nat
  BY RoutesAssumption
<1> DEFINE T == 0..1000
<1>2. Reliability \in [Contact -> T] /\ Mbs \in [Contact -> Nat]
  <2>1. Reliability \in [Contact -> T] BY ZenonT(60), RoutesAssumption
  <2>2. Mbs \in [Contact -> Nat] BY ZenonT(60), RoutesAssumption
  <2> HIDE DEF T
  <2> QED BY <2>1, <2>2
<1>3. \A x \in T : x \in Int OBVIOUS
<1> HIDE DEF T
<1>4. Reliability \in [Contact -> Int] /\ Mbs \in [Contact -> Int] BY <1>2, <1>3
<1> QED BY <1>1, <1>4

\* The capacity that is left at this time is a number.
LEMMA CapacityInt ==
  ASSUME NEW mem, MemOK(mem), now \in Nat, NEW c \in Contact, NEW k \in Prio
  PROVE  contact_get_cur_remaining_capacity(mem, c, k) \in Int
<1>1. mem.left[c][k] \in Int /\ mem.total[c] \in Int
  <2>1. mem.left \in [Contact -> [Prio -> Int]] /\ mem.total \in [Contact -> Nat] BY DEF MemOK, Memory
  <2> QED BY <2>1
<1>2. From[c] \in Nat /\ To[c] \in Nat /\ From[c] < To[c] BY RoutesAssumption
<1> DEFINE p == mem.total[c] * (To[c] - now)
    q == p \div (To[c] - From[c])
<1>3. p \in Int BY <1>1, <1>2
<1> HIDE DEF p
<1>4. q \in Int BY <1>2, <1>3
<1> HIDE DEF q
<1>5. Min({q, mem.left[c][k]}) \in Int BY <1>1, <1>4, MinOf
<1>6. 0 \in Int OBVIOUS
<1> QED BY <1>1, <1>5, <1>6 DEF contact_get_cur_remaining_capacity, q, p

\* router_lookup_destination: contacts of the plan, each once.
LEMMA LookupIs ==
  ASSUME NEW mem, NEW dest
  PROVE  LET s == router_lookup_destination(mem, dest)
         IN  s \in Seq(Contact) /\ IsInjective(s) /\ ToSet(s) \subseteq Contact \ mem.over
<1> DEFINE S == {c \in Contact \ mem.over : dest \in Reach[c]}
    q == SetToSeq(S)
<1>1. IsFiniteSet(S)
  <2>1. S \subseteq Contact /\ IsFiniteSet(Contact) BY RoutesAssumption
  <2> QED BY <2>1, FS_Subset
<1>2. S \subseteq Contact /\ S \subseteq Contact \ mem.over OBVIOUS
<1> HIDE DEF S
<1>3. q \in Seq(S) /\ IsInjective(q) /\ ToSet(q) = S BY <1>1, SetToSeqFacts
<1> HIDE DEF q
<1>4. \A x \in ToSet(q) : To[x] \in Int
  <2>1. To \in [Contact -> Nat] BY RoutesAssumption
  <2> QED BY <1>2, <1>3, <2>1
<1>5. StableSort(q, To) \in Seq(S) /\ ToSet(StableSort(q, To)) = S /\ IsInjective(StableSort(q, To))
  BY <1>3, <1>4, SortIs
<1>6. StableSort(q, To) \in Seq(Contact)
  <2> DEFINE r == StableSort(q, To)
  <2> HIDE DEF r
  <2>1. r \in Seq(S) BY <1>5 DEF r
  <2>2. r \in Seq(Contact) BY <1>2, <2>1
  <2> QED BY <2>2 DEF r
<1>7. router_lookup_destination(mem, dest) = StableSort(q, To) BY DEF router_lookup_destination, q, S
<1> QED BY <1>2, <1>5, <1>6, <1>7

\* ---- The route of a bundle (router.c)
\* What router_calculate_fragment_route computes: contacts that differ, and
\* none only when the probability is 0.
Route == [contacts : Seq(Contact), probability : Int, improved : Nat, payload : Int, skip : Int]
RouteOK(r) == /\ r \in Route /\ IsInjective(r.contacts) /\ Len(r.contacts) <= MaxContacts
              /\ r.contacts = <<>> => r.probability = 0

\* A contact joins a route.
LEMMA JoinRoute ==
  ASSUME NEW r \in Route, NEW c \in Contact
  PROVE  /\ Join(r, c) \in Route
         /\ RouteOK(r) /\ c \notin ToSet(r.contacts) /\ Undecided(r) =>
              RouteOK(Join(r, c)) /\ ToSet(Join(r, c).contacts) \subseteq ToSet(r.contacts) \cup {c}
<1> DEFINE conf == Reliability[c]
    q == r.probability + conf - (r.probability * conf) \div 1000
    one == [r EXCEPT !.contacts = <<c>>, !.probability = conf]
    more == [r EXCEPT !.contacts = Append(@, c), !.probability = q]
<1>1. r.contacts \in Seq(Contact) /\ r.probability \in Int BY DEF Route
<1>2. conf \in Int BY Constants
<1> HIDE DEF conf
<1>3. q \in Int
  <2> DEFINE p == r.probability * conf
  <2>1. p \in Int BY <1>1, <1>2
  <2> HIDE DEF p
  <2>2. p \div 1000 \in Int BY <2>1
  <2> QED BY <1>1, <1>2, <2>2 DEF p
<1> DEFINE Fit == RouteOK(r) /\ c \notin ToSet(r.contacts) /\ Undecided(r)
<1>4. Fit => Len(r.contacts) < MaxContacts /\ MaxContacts \in Nat /\ Len(r.contacts) \in Nat
  <2>1. MaxContacts \in Nat BY Constants
  <2> QED BY <1>1, <2>1 DEF RouteOK, Undecided
<1>5. Join(r, c) = IF conf >= MinDeterministic THEN one ELSE IF conf >= MinOpportunistic THEN more ELSE r
  BY Zenon DEF Join, conf
<1> HIDE DEF q
<1>6. one \in Route /\ one.contacts = <<c>>
  <2> DEFINE t == <<c>>
  <2>1. t \in Seq(Contact) OBVIOUS
  <2> HIDE DEF t
  <2>2. [r EXCEPT !.contacts = t, !.probability = conf] \in Route
        /\ [r EXCEPT !.contacts = t, !.probability = conf].contacts = t BY <1>1, <1>2, <2>1 DEF Route
  <2> QED BY <2>2 DEF t
<1>7. Fit => RouteOK(one) /\ ToSet(one.contacts) \subseteq ToSet(r.contacts) \cup {c}
  <2>1. <<c>> \in Seq(Contact) /\ Len(<<c>>) = 1 /\ <<c>> # <<>> /\ ToSet(<<c>>) = {c} /\ IsInjective(<<c>>)
    BY DEF ToSet, IsInjective
  <2> HIDE DEF one
  <2> QED BY <1>1, <1>4, <1>6, <2>1 DEF RouteOK
<1>8. more \in Route /\ (Fit => RouteOK(more) /\ ToSet(more.contacts) \subseteq ToSet(r.contacts) \cup {c})
  <2> DEFINE s == Append(r.contacts, c)
  <2>1. s \in Seq(Contact) /\ Len(s) = Len(r.contacts) + 1 /\ s # <<>> BY <1>1
  <2>2. Fit => ToSet(s) = ToSet(r.contacts) \cup {c} /\ IsInjective(s) BY <1>1, SetOfAppend DEF RouteOK
  <2> HIDE DEF s
  <2>3. [r EXCEPT !.contacts = s, !.probability = q] \in Route
        /\ [r EXCEPT !.contacts = s, !.probability = q].contacts = s BY <1>1, <1>3, <2>1 DEF Route
  <2>4. more = [r EXCEPT !.contacts = s, !.probability = q] BY Zenon DEF s
  <2> HIDE DEF more
  <2> QED BY <1>4, <2>1, <2>2, <2>3, <2>4 DEF RouteOK
<1> HIDE DEF one, more
<1>9. Fit => RouteOK(Join(r, c)) /\ ToSet(Join(r, c).contacts) \subseteq ToSet(r.contacts) \cup {c}
  <2>1. ToSet(r.contacts) \subseteq ToSet(r.contacts) \cup {c} OBVIOUS
  <2>2. Fit => RouteOK(r) OBVIOUS
  <2> HIDE DEF Fit
  <2> QED BY <1>5, <1>7, <1>8, <2>1, <2>2
<1> QED BY <1>5, <1>6, <1>8, <1>9

\* Two routes that go to the same contacts.
Alike(r, a) == /\ a \in Route /\ a.contacts = r.contacts /\ a.probability = r.probability
               /\ a.improved \in Nat /\ (RouteOK(r) => RouteOK(a))

\* Capacity that was skipped, a contact that would do after preemption.
Skipped(r, v, n) == [r EXCEPT !.skip = v, !.improved = n]

\* The fields of a route that do not say where it goes.
LEMMA RouteFields ==
  ASSUME NEW r \in Route, NEW v \in Int
  PROVE  /\ Alike(r, [r EXCEPT !.skip = v]) /\ Alike(r, [r EXCEPT !.payload = v])
         /\ \A n \in Nat : Alike(r, Skipped(r, v, n))
<1>1. \A a \in Route : a.contacts = r.contacts /\ a.probability = r.probability => Alike(r, a)
  BY DEF RouteOK, Alike, Route
<1> DEFINE a == [r EXCEPT !.skip = v]
    d == [r EXCEPT !.payload = v]
<1>2. a \in Route /\ a.contacts = r.contacts /\ a.probability = r.probability BY DEF Route
<1>3. d \in Route /\ d.contacts = r.contacts /\ d.probability = r.probability BY DEF Route
<1>4. ASSUME NEW n \in Nat PROVE Alike(r, Skipped(r, v, n))
  <2> DEFINE b == [r EXCEPT !.skip = v, !.improved = n]
  <2>1. b \in Route /\ b.contacts = r.contacts /\ b.probability = r.probability BY DEF Route
  <2> HIDE DEF b
  <2>2. Alike(r, b) BY <1>1, <2>1
  <2> QED BY <2>2 DEF b, Skipped
<1> HIDE DEF a, d
<1>5. Alike(r, a) /\ Alike(r, d) BY <1>1, <1>2, <1>3
<1> QED BY <1>4, <1>5 DEF a, d

\* The route of a bundle or of one of its fragments.
LEMMA RouteIs ==
  ASSUME NEW mem, MemOK(mem), now \in Nat, NEW size \in Int, NEW s \in Seq(Contact), IsInjective(s),
         NEW skip \in Int, NEW k \in Prio, NEW X
  PROVE  RouteOK(router_calculate_fragment_route(mem, size, s, skip, k, X))
<1> DEFINE cap(c, j) == contact_get_cur_remaining_capacity(mem, c, j)
    better(r, c) == IF U32(cap(c, k) - r.skip) >= size THEN 1 ELSE 0
    pass(r, c, full) == IF r.skip # 0 /\ r.skip >= full THEN [r EXCEPT !.skip = @ - full]
                        ELSE IF full - r.skip < size
                        THEN [r EXCEPT !.skip = 0, !.improved = @ + better(r, c)]
                        ELSE Join([r EXCEPT !.skip = 0], c)
    stay(r, c) == ~Undecided(r) \/ c \in X \/ To[c] <= now
    base == [contacts |-> <<>>, probability |-> 0, improved |-> 0, payload |-> 0, skip |-> skip]
    A == Route
    P == [n \in Nat |-> {r \in A : RouteOK(r) /\ \A c \in ToSet(r.contacts) : \E i \in 1..n : s[i] = c}]
<1>n. PICK N \in Nat : N = Len(s) /\ DOMAIN s = 1..N OBVIOUS
<1>0. 0 \in Prio /\ 0 \in Int /\ 0 \in Nat /\ 1 \in Nat BY DEF Prio
<1>b. base \in A
  <2>1. <<>> \in Seq(Contact) OBVIOUS
  <2> QED BY <1>0, <2>1 DEF Route
<1>1. ASSUME NEW c \in Contact PROVE U32(cap(c, 0)) \in Int
  <2>1. cap(c, 0) \in Int BY <1>0, CapacityInt
  <2>2. Huge \in Int BY DEF Huge
  <2> HIDE DEF cap
  <2> QED BY <2>1, <2>2 DEF U32
<1>2. ASSUME NEW c \in Contact, NEW r \in A, NEW full \in Int
      PROVE  /\ pass(r, c, full) \in A
             /\ RouteOK(r) /\ Undecided(r) /\ c \notin ToSet(r.contacts) =>
                  RouteOK(pass(r, c, full)) /\ ToSet(pass(r, c, full).contacts) \subseteq ToSet(r.contacts) \cup {c}
  <2> DEFINE v == r.skip - full
      n == r.improved + better(r, c)
      z == [r EXCEPT !.skip = 0]
  <2>1. v \in Int BY DEF Route
  <2>2. n \in Nat
    <3>1. better(r, c) \in Nat BY <1>0
    <3>2. r.improved \in Nat BY DEF Route
    <3> HIDE DEF better
    <3> QED BY <3>1, <3>2
  <2>3. pass(r, c, full) = IF r.skip # 0 /\ r.skip >= full THEN [r EXCEPT !.skip = v]
                           ELSE IF full - r.skip < size THEN Skipped(r, 0, n)
                           ELSE Join(z, c) BY Zenon DEF Skipped
  <2> HIDE DEF v, n, better
  <2>4. Alike(r, [r EXCEPT !.skip = v]) /\ Alike(r, Skipped(r, 0, n)) /\ Alike(r, z)
    BY <1>0, <2>1, <2>2, RouteFields
  <2> HIDE DEF z
  <2>5. Join(z, c) \in Route
        /\ (RouteOK(r) /\ Undecided(r) /\ c \notin ToSet(r.contacts) =>
              RouteOK(Join(z, c)) /\ ToSet(Join(z, c).contacts) \subseteq ToSet(r.contacts) \cup {c})
    BY <2>4, JoinRoute DEF Alike, Undecided
  <2> DEFINE a == [r EXCEPT !.skip = v]
      b == Skipped(r, 0, n)
      j == Join(z, c)
      w == pass(r, c, full)
  <2>6. w = a \/ w = b \/ w = j BY <2>3
  <2> HIDE DEF a, b, j, w, pass
  <2>7. w \in A /\ (RouteOK(r) /\ Undecided(r) /\ c \notin ToSet(r.contacts) =>
                      RouteOK(w) /\ ToSet(w.contacts) \subseteq ToSet(r.contacts) \cup {c})
    BY <2>4, <2>5, <2>6 DEF Alike, a, b, j
  <2> QED BY <2>7 DEF w
<1> HIDE DEF pass
<1>3. ASSUME NEW r \in A, NEW n \in 1..N
      PROVE  (CHOOSE w \in {pass(r, s[n], full) : full \in {U32(cap(s[n], 0))}} : TRUE)
               = pass(r, s[n], U32(cap(s[n], 0)))
  <2> DEFINE u == U32(cap(s[n], 0))
  <2> HIDE DEF u
  <2>1. {pass(r, s[n], full) : full \in {u}} = {pass(r, s[n], u)} OBVIOUS
  <2> QED BY <2>1, OneValue DEF u
<1>4. \A n \in 1..N : s[n] \in Contact BY <1>n
<1> HIDE DEF cap
<1> DEFINE op(v, n) == IF stay(v, s[n]) THEN v ELSE (CHOOSE w \in {pass(v, s[n], full) : full \in {U32(cap(s[n], 0))}} : TRUE)
    G == [z \in (1..N) \X A |-> op(z[2], z[1])]
    E(h) == h = [x \in SUBSET (DOMAIN s) |-> IF x = {} THEN base ELSE op(h[x \ {Max(x)}], Max(x))]
    g == CHOOSE h : E(h)
<1>f1. ASSUME NEW n \in 1..N, NEW v \in A PROVE op(v, n) \in A
  BY <1>1, <1>2, <1>3, <1>4
<1>f2. router_calculate_fragment_route(mem, size, s, skip, k, X) = g[DOMAIN s] BY DEF router_calculate_fragment_route, With, pass, cap, FoldLeft, MapThenFoldSet
<1> HIDE DEF op, A
<1>f3. G \in [(1..N) \X A -> A] /\ \A n \in 1..N : \A v \in A : G[<<n, v>>] = op(v, n) BY <1>f1
<1> HIDE DEF G
<1>f4. PICK h : Folds(h, N, A, base, G) BY <1>n, <1>b, <1>f3, FoldThere
<1>f5. E(h) BY <1>n, <1>f3, <1>f4 DEF Folds
<1>f6. E(g) BY <1>f5, Zenon DEF g
<1> HIDE DEF g
<1>f7. FoldOf(g, N, A, base, G) BY <1>n, <1>f3, <1>f6, Zenon DEF FoldOf, E
<1> HIDE DEF E
<1>f8. base \in P[0] /\ \A n \in 1..N : \A v \in A : v \in P[n - 1] => G[<<n, v>>] \in P[n]
  <2>1. base \in P[0]
    <3>1. base.contacts = <<>> /\ base.probability = 0 /\ Len(<<>>) = 0 OBVIOUS
    <3>2. ToSet(<<>>) = {} /\ IsInjective(<<>>) BY DEF ToSet, IsInjective
    <3>3. MaxContacts \in Nat BY Constants
    <3> HIDE DEF base
    <3> QED BY <1>0, <1>b, <3>1, <3>2, <3>3 DEF RouteOK, A
  <2>2. ASSUME NEW n \in 1..N, NEW v \in A, v \in P[n - 1] PROVE op(v, n) \in P[n]
    <3>1. n \in Nat /\ n - 1 \in Nat /\ s[n] \in Contact BY <1>4
    <3>2. RouteOK(v) /\ \A c \in ToSet(v.contacts) : \E i \in 1..(n - 1) : s[i] = c BY <2>2, <3>1
    <3>3. s[n] \notin ToSet(v.contacts)
      <4>1. \A i \in 1..(n - 1) : i \in 1..N /\ i # n BY <1>n
      <4> QED BY <1>n, <3>2, <4>1 DEF IsInjective
    <3>4. \A i \in 1..(n - 1) : i \in 1..n BY <3>1
    <3>5. CASE stay(v, s[n])
      <4>1. op(v, n) = v BY <3>5 DEF op
      <4> QED BY <3>1, <3>2, <3>4, <4>1
    <3>6. CASE ~stay(v, s[n])
      <4> DEFINE u == U32(cap(s[n], 0))
          w == pass(v, s[n], u)
      <4>0. u \in Int BY <1>1, <3>1
      <4>1. op(v, n) = w BY <1>3, <3>6 DEF op, A
      <4> HIDE DEF u
      <4>2. Undecided(v) BY <3>6
      <4>3. w \in A /\ RouteOK(w) /\ ToSet(w.contacts) \subseteq ToSet(v.contacts) \cup {s[n]}
        BY <1>2, <3>1, <3>2, <3>3, <4>0, <4>2 DEF A
      <4> HIDE DEF w
      <4>4. n \in 1..n BY <3>1
      <4>5. \A c \in ToSet(w.contacts) : \E i \in 1..n : s[i] = c BY <3>2, <3>4, <4>3, <4>4
      <4> QED BY <3>1, <4>1, <4>3, <4>5
    <3> QED BY <3>5, <3>6
  <2> HIDE DEF P, base
  <2> QED BY <1>f3, <2>1, <2>2
<1> HIDE DEF P
<1>f9. Leads(N, A, base, G, P) BY <1>b, <1>f3, <1>f8 DEF Leads
<1>f10. router_calculate_fragment_route(mem, size, s, skip, k, X) \in A /\ router_calculate_fragment_route(mem, size, s, skip, k, X) \in P[N] BY <1>n, <1>f2, <1>f7, <1>f9, FoldEnds
<1> QED BY <1>n, <1>f10 DEF P

\* The size that fragments may have.
LEMMA MaxFragmentInt ==
  ASSUME NEW mem, MemOK(mem), now \in Nat, NEW s \in Seq(Contact), NEW full \in Int, NEW min_size \in Int,
         NEW payload \in Int, NEW prio \in Prio
  PROVE  router_get_max_reasonable_fragment_size(mem, s, full, min_size, payload, prio) \in Int
<1> DEFINE usable(c, cap) == /\ U32(cap) >= payload \div MaxFragments + min_size
                             /\ Mbs[c] # 0
                             /\ cap - min_size > FragmentMinPayload
                             /\ Reliability[c] >= MinOpportunistic
    det(c) == Reliability[c] >= MinDeterministic
    pay(c, cap) == IF det(c) THEN cap - min_size
                   ELSE (Reliability[c] * (cap - min_size)) \div 1000
    next(a, c, cap) == [capacity |-> a.capacity + pay(c, cap), size |-> Min({a.size, cap, Mbs[c]}),
                        done |-> det(c) /\ cap >= full]
    took(a, c, cap) == IF a.done \/ a.capacity >= payload \/ ~usable(c, cap) THEN a ELSE next(a, c, cap)
    step(a, c) == CHOOSE r \in {took(a, c, cap) : cap \in {contact_get_cur_remaining_capacity(mem, c, prio)}} : TRUE
    base == [capacity |-> 0, size |-> Huge, done |-> FALSE]
    all == FoldLeft(step, base, s)
    F(a) == IF a.capacity < payload THEN 0 ELSE a.size
    A == [capacity : Int, size : Int, done : BOOLEAN]
<1>n. PICK N \in Nat : N = Len(s) /\ DOMAIN s = 1..N OBVIOUS
<1>b. base \in A BY DEF Huge
<1>w1. router_get_max_reasonable_fragment_size(mem, s, full, min_size, payload, prio)
        = CHOOSE r \in {F(x) : x \in {all}} : TRUE BY Zenon DEF router_get_max_reasonable_fragment_size, With
<1>1. ASSUME NEW a \in A, NEW c \in Contact, NEW cap \in Int PROVE took(a, c, cap) \in A
  <2>1. Reliability[c] \in Int /\ Mbs[c] \in Int BY Constants
  <2>2. pay(c, cap) \in Int
    <3> DEFINE p == Reliability[c] * (cap - min_size)
    <3>1. p \in Int BY <2>1
    <3> HIDE DEF p, det
    <3>2. p \div 1000 \in Int /\ cap - min_size \in Int BY <3>1
    <3> QED BY <3>2 DEF p
  <2>3. det(c) \in BOOLEAN OBVIOUS
  <2> HIDE DEF pay, usable, det
  <2>4. Min({a.size, cap, Mbs[c]}) \in Int BY <2>1, MinOfThree
  <2>5. next(a, c, cap) \in A BY <2>2, <2>4
  <2> HIDE DEF next
  <2> QED BY <2>5
<1>2. ASSUME NEW v \in A, NEW n \in 1..N PROVE step(v, s[n]) \in A
  <2> DEFINE u == contact_get_cur_remaining_capacity(mem, s[n], prio)
  <2>1. s[n] \in Contact BY <1>n
  <2>2. u \in Int BY <2>1, CapacityInt
  <2> HIDE DEF u, took
  <2>3. {took(v, s[n], cap) : cap \in {u}} = {took(v, s[n], u)} OBVIOUS
  <2>4. step(v, s[n]) = took(v, s[n], u) BY <2>3, OneValue DEF u
  <2> HIDE DEF step
  <2> QED BY <1>1, <2>1, <2>2, <2>4
<1> HIDE DEF step
<1> DEFINE op(v, n) == step(v, s[n])
    G == [z \in (1..N) \X A |-> op(z[2], z[1])]
    E(h) == h = [x \in SUBSET (DOMAIN s) |-> IF x = {} THEN base ELSE op(h[x \ {Max(x)}], Max(x))]
    g == CHOOSE h : E(h)
<1>f1. ASSUME NEW n \in 1..N, NEW v \in A PROVE op(v, n) \in A
  BY <1>2
<1>f2. all = g[DOMAIN s] BY DEF all, FoldLeft, MapThenFoldSet
<1> HIDE DEF op, A, all
<1>f3. G \in [(1..N) \X A -> A] /\ \A n \in 1..N : \A v \in A : G[<<n, v>>] = op(v, n) BY <1>f1
<1> HIDE DEF G
<1>f4. PICK h : Folds(h, N, A, base, G) BY <1>n, <1>b, <1>f3, FoldThere
<1>f5. E(h) BY <1>n, <1>f3, <1>f4 DEF Folds
<1>f6. E(g) BY <1>f5, Zenon DEF g
<1> HIDE DEF g
<1>f7. FoldOf(g, N, A, base, G) BY <1>n, <1>f3, <1>f6, Zenon DEF FoldOf, E
<1> HIDE DEF E
<1>f8. all \in A BY <1>n, <1>b, <1>f2, <1>f3, <1>f7, FoldIn
<1>w2. {F(x) : x \in {all}} = {F(all)} BY Zenon
<1>w3. F(all) \in Int BY <1>f8 DEF A
<1> HIDE DEF F
<1> QED BY <1>w1, <1>w2, <1>w3, OneValue

\* The payloads of the fragments.
LEMMA PayloadsAre ==
  ASSUME NEW payload \in Int, NEW max \in Int, NEW first \in Int, NEW mid \in Int, NEW last \in Int
  PROVE  FragmentPayloads(payload, max, first, mid, last) \in Seq(Int)
<1> DEFINE room(a) == IF a.left <= max - last THEN a.left ELSE Min({a.left, max - a.head})
    next(a) == [left |-> a.left - room(a), head |-> mid, failed |-> FALSE, sizes |-> Append(a.sizes, room(a))]
    step(a, i) == IF a.left = 0 \/ a.failed THEN a
                  ELSE IF max - a.head < Min({a.left, FragmentMinPayload}) THEN [a EXCEPT !.failed = TRUE]
                  ELSE next(a)
    base == [left |-> payload, head |-> first, failed |-> FALSE, sizes |-> <<>>]
    s == [i \in 1..MaxFragments |-> i]
    all == FoldLeft(step, base, s)
    F(a) == IF a.left # 0 THEN <<>> ELSE a.sizes
    A == [left : Int, head : Int, failed : BOOLEAN, sizes : Seq(Int)]
<1>n. PICK N \in Nat : N = Len(s) /\ DOMAIN s = 1..N BY Constants
<1>w1. FragmentPayloads(payload, max, first, mid, last) = CHOOSE r \in {F(x) : x \in {all}} : TRUE
  BY Zenon DEF FragmentPayloads, With
<1>b. base \in A
  <2>1. <<>> \in Seq(Int) OBVIOUS
  <2> QED BY <2>1
<1>1. ASSUME NEW a \in A, NEW i PROVE step(a, i) \in A
  <2>1. a.left \in Int /\ a.head \in Int /\ a.sizes \in Seq(Int) OBVIOUS
  <2>2. room(a) \in Int
    <3>1. max - a.head \in Int BY <2>1
    <3>2. Min({a.left, max - a.head}) \in Int BY <2>1, <3>1, MinOf
    <3> QED BY <2>1, <3>2
  <2> HIDE DEF room
  <2>3. next(a) \in A
    <3>1. Append(a.sizes, room(a)) \in Seq(Int) /\ a.left - room(a) \in Int BY <2>1, <2>2
    <3> QED BY <3>1
  <2>4. [a EXCEPT !.failed = TRUE] \in A OBVIOUS
  <2> HIDE DEF next
  <2> QED BY <2>3, <2>4
<1> HIDE DEF step
<1> DEFINE op(v, n) == step(v, s[n])
    G == [z \in (1..N) \X A |-> op(z[2], z[1])]
    E(h) == h = [x \in SUBSET (DOMAIN s) |-> IF x = {} THEN base ELSE op(h[x \ {Max(x)}], Max(x))]
    g == CHOOSE h : E(h)
<1>f1. ASSUME NEW n \in 1..N, NEW v \in A PROVE op(v, n) \in A
  BY <1>1
<1>f2. all = g[DOMAIN s] BY DEF all, FoldLeft, MapThenFoldSet
<1> HIDE DEF op, A, s, all
<1>f3. G \in [(1..N) \X A -> A] /\ \A n \in 1..N : \A v \in A : G[<<n, v>>] = op(v, n) BY <1>f1
<1> HIDE DEF G
<1>f4. PICK h : Folds(h, N, A, base, G) BY <1>n, <1>b, <1>f3, FoldThere
<1>f5. E(h) BY <1>n, <1>f3, <1>f4 DEF Folds
<1>f6. E(g) BY <1>f5, Zenon DEF g
<1> HIDE DEF g
<1>f7. FoldOf(g, N, A, base, G) BY <1>n, <1>f3, <1>f6, Zenon DEF FoldOf, E
<1> HIDE DEF E
<1>f8. all \in A BY <1>n, <1>b, <1>f2, <1>f3, <1>f7, FoldIn
<1>w2. {F(x) : x \in {all}} = {F(all)} BY Zenon
<1>w3. F(all) \in Seq(Int)
  <2>1. <<>> \in Seq(Int) OBVIOUS
  <2> QED BY <1>f8, <2>1 DEF A
<1> HIDE DEF F
<1> QED BY <1>w1, <1>w2, <1>w3, OneValue

\* Routes that may be taken.
GoodRoute == {r \in Route : RouteOK(r) /\ Feasible(r)}

\* A route that may be taken has a contact.
LEMMA FeasibleIs ==
  ASSUME NEW r, RouteOK(r), Feasible(r) PROVE r \in GoodRoute /\ r.contacts # <<>>
<1>1. r.probability # 0 BY Constants DEF Feasible
<1> QED BY <1>1 DEF GoodRoute, RouteOK

\* router_get_first_route_nonfrag
LEMMA NonfragIs ==
  ASSUME NEW mem, MemOK(mem), now \in Nat, NEW s \in Seq(Contact), IsInjective(s), NEW b \in Bundles, NEW k \in Prio
  PROVE  router_get_first_route_nonfrag(mem, s, b, k) \in Seq(GoodRoute)
<1> DEFINE r == router_calculate_fragment_route(mem, bundle_get_serialized_size(b), s, 0, k, {})
    F(a) == IF Feasible(a) THEN <<a>> ELSE <<>>
<1>w1. router_get_first_route_nonfrag(mem, s, b, k) = CHOOSE x \in {F(y) : y \in {r}} : TRUE
  BY Zenon DEF router_get_first_route_nonfrag, With
<1>1. bundle_get_serialized_size(b) \in Int /\ 0 \in Int BY SizesNat
<1>2. RouteOK(r) BY <1>1, RouteIs
<1> HIDE DEF r
<1>3. F(r) \in Seq(GoodRoute)
  <2>1. <<>> \in Seq(GoodRoute) OBVIOUS
  <2>2. Feasible(r) => <<r>> \in Seq(GoodRoute) BY <1>2, FeasibleIs
  <2> QED BY <2>1, <2>2
<1> HIDE DEF F
<1>w2. {F(x) : x \in {r}} = {F(r)} BY Zenon
<1> QED BY <1>w1, <1>w2, <1>3, OneValue

\* router_get_first_route_frag: a route for each fragment or none.
LEMMA FragIs ==
  ASSUME NEW mem, MemOK(mem), now \in Nat, NEW q \in Seq(Contact), IsInjective(q), NEW b \in Bundles,
         NEW k \in Prio, NEW max \in Int
  PROVE  router_get_first_route_frag(mem, q, b, k, max) \in Seq(GoodRoute)
<1> DEFINE first == bundle_get_first_fragment_min_size(b)
    mid == bundle_get_mid_fragment_min_size(b)
    last == bundle_get_last_fragment_min_size(b)
    head(i, n) == IF i = 1 THEN first ELSE IF i = n THEN last ELSE mid
    size(i, sizes) == head(i, Len(sizes)) + sizes[i]
    route(a, i, sizes) ==
      [routes |-> Append(a.routes,
         [router_calculate_fragment_route(mem, size(i, sizes), q, a.processed, k, {})
            EXCEPT !.payload = sizes[i]]),
       processed |-> a.processed + size(i, sizes)]
    base == [routes |-> <<>>, processed |-> 0]
    every(sizes) == FoldLeft(LAMBDA a, i : route(a, i, sizes), base, [i \in DOMAIN sizes |-> i])
    all(sizes) == every(sizes).routes
    taken(rs) == IF \A i \in DOMAIN rs : Feasible(rs[i]) THEN rs ELSE <<>>
    H(sizes) == CHOOSE x \in {taken(y) : y \in {all(sizes)}} : TRUE
    pays == FragmentPayloads(Len(Payload(b)), max, first, mid, last)
<1>w1. router_get_first_route_frag(mem, q, b, k, max) =
         IF first > max \/ last > max THEN <<>> ELSE CHOOSE x \in {H(y) : y \in {pays}} : TRUE
  BY Zenon DEF router_get_first_route_frag, With
<1>1. first \in Int /\ mid \in Int /\ last \in Int /\ Len(Payload(b)) \in Int BY SizesNat, PayloadIs
<1> HIDE DEF first, mid, last
<1>2. pays \in Seq(Int) BY <1>1, PayloadsAre
<1> HIDE DEF pays
<1>3. ASSUME NEW t \in Seq(Int) PROVE all(t) \in Seq({r \in Route : RouteOK(r)})
  <2> DEFINE R == {r \in Route : RouteOK(r)}
      A == [routes : Seq(R), processed : Int]
      s == [i \in DOMAIN t |-> i]
  <2>n. PICK N \in Nat : N = Len(s) /\ DOMAIN s = 1..N /\ N = Len(t)
    <3>1. PICK M \in Nat : M = Len(t) /\ DOMAIN t = 1..M OBVIOUS
    <3>2. s = [i \in 1..M |-> i] BY <3>1
    <3> HIDE DEF s
    <3>3. Len(s) = M /\ DOMAIN s = 1..M BY <3>1, <3>2
    <3> QED BY <3>1, <3>3
  <2>b. base \in A
    <3>1. <<>> \in Seq(R) OBVIOUS
    <3> QED BY <3>1
  <2>1. ASSUME NEW v \in A, NEW n \in 1..N PROVE route(v, s[n], t) \in A
    <3>1. s[n] = n /\ t[n] \in Int BY <2>n
    <3> HIDE DEF s
    <3> DEFINE z == size(n, t)
        r == router_calculate_fragment_route(mem, z, q, v.processed, k, {})
        u == [r EXCEPT !.payload = t[n]]
    <3>2. z \in Int BY <1>1, <3>1
    <3> HIDE DEF z
    <3>3. v.processed \in Int /\ v.routes \in Seq(R) OBVIOUS
    <3>4. RouteOK(r) BY <3>2, <3>3, RouteIs
    <3> HIDE DEF r
    <3>5. Alike(r, u)
      <4>1. r \in Route BY <3>4 DEF RouteOK
      <4> QED BY <3>1, <4>1, RouteFields
    <3> HIDE DEF u
    <3>6. u \in R BY <3>4, <3>5 DEF Alike
    <3>7. Append(v.routes, u) \in Seq(R) /\ v.processed + z \in Int BY <3>2, <3>3, <3>6
    <3>8. route(v, n, t) = [routes |-> Append(v.routes, u), processed |-> v.processed + z] BY DEF u, r, z
    <3> HIDE DEF R, route
    <3> QED BY <3>1, <3>7, <3>8
  <2> HIDE DEF route
  <2> DEFINE op(v, n) == route(v, s[n], t)
      G == [z \in (1..N) \X A |-> op(z[2], z[1])]
      E(h) == h = [x \in SUBSET (DOMAIN s) |-> IF x = {} THEN base ELSE op(h[x \ {Max(x)}], Max(x))]
      g == CHOOSE h : E(h)
  <2>f1. ASSUME NEW n \in 1..N, NEW v \in A PROVE op(v, n) \in A
    BY <2>1
  <2>f2. every(t) = g[DOMAIN s] BY DEF every, s, FoldLeft, MapThenFoldSet
  <2> HIDE DEF op, A, s, every
  <2>f3. G \in [(1..N) \X A -> A] /\ \A n \in 1..N : \A v \in A : G[<<n, v>>] = op(v, n) BY <2>f1
  <2> HIDE DEF G
  <2>f4. PICK h : Folds(h, N, A, base, G) BY <2>n, <2>b, <2>f3, FoldThere
  <2>f5. E(h) BY <2>n, <2>f3, <2>f4 DEF Folds
  <2>f6. E(g) BY <2>f5, Zenon DEF g
  <2> HIDE DEF g
  <2>f7. FoldOf(g, N, A, base, G) BY <2>n, <2>f3, <2>f6, Zenon DEF FoldOf, E
  <2> HIDE DEF E
  <2>f8. every(t) \in A BY <2>n, <2>b, <2>f2, <2>f3, <2>f7, FoldIn
  <2> QED BY <2>f8 DEF A
<1> HIDE DEF all
<1>4. ASSUME NEW t \in Seq(Int) PROVE H(t) \in Seq(GoodRoute)
  <2> DEFINE rs == all(t)
      R == {r \in Route : RouteOK(r)}
  <2>1. rs \in Seq(R) BY <1>3
  <2> HIDE DEF rs
  <2>2. taken(rs) \in Seq(GoodRoute)
    <3>1. CASE \A i \in DOMAIN rs : Feasible(rs[i])
      <4>1. DOMAIN rs = 1..Len(rs) /\ \A i \in 1..Len(rs) : rs[i] \in R BY <2>1
      <4>2. \A i \in 1..Len(rs) : rs[i] \in GoodRoute BY <3>1, <4>1 DEF GoodRoute
      <4>4. rs \in Seq(GoodRoute) BY <2>1, <4>2, SeqWithin
      <4> QED BY <3>1, <4>4
    <3>2. CASE ~\A i \in DOMAIN rs : Feasible(rs[i])
      <4>1. <<>> \in Seq(GoodRoute) OBVIOUS
      <4> QED BY <3>2, <4>1
    <3> QED BY <3>1, <3>2
  <2> HIDE DEF taken
  <2>3. {taken(y) : y \in {rs}} = {taken(rs)} BY Zenon
  <2>4. H(t) = taken(rs) BY <2>3, OneValue DEF rs
  <2> QED BY <2>2, <2>4
<1> HIDE DEF H
<1>5. {H(y) : y \in {pays}} = {H(pays)} BY Zenon
<1>6. (CHOOSE x \in {H(y) : y \in {pays}} : TRUE) = H(pays) BY <1>5, OneValue
<1>7. <<>> \in Seq(GoodRoute) OBVIOUS
<1> QED BY <1>w1, <1>2, <1>4, <1>6, <1>7

\* router_get_first_route: routes that may be taken, one of them at least or
\* none.
LEMMA FirstRouteIs ==
  ASSUME NEW mem, MemOK(mem), now \in Nat, NEW e \in Entry
  PROVE  router_get_first_route(mem, e) \in Seq(GoodRoute)
<1> DEFINE b == e.bundle
    q == router_lookup_destination(mem, e.dest)
    k == bundle_get_routing_priority(b, e.own)
    size == bundle_get_serialized_size(b)
    min_size == Max({bundle_get_first_fragment_min_size(b), bundle_get_last_fragment_min_size(b)})
    max == router_get_max_reasonable_fragment_size(mem, q, size, min_size, Len(Payload(b)), k)
    F(x) == IF x = 0 THEN <<>>
            ELSE IF bundle_must_not_fragment(b) \/ size <= x
            THEN router_get_first_route_nonfrag(mem, q, b, k)
            ELSE router_get_first_route_frag(mem, q, b, k, x)
<1>w1. router_get_first_route(mem, e) = IF q = <<>> THEN <<>> ELSE CHOOSE r \in {F(x) : x \in {max}} : TRUE
  BY Zenon DEF router_get_first_route, With
<1>1. b \in Bundles BY DEF Entry
<1>2. k \in Prio BY PriorityIs
<1>3. q \in Seq(Contact) /\ IsInjective(q) BY LookupIs
<1>4. size \in Int /\ Len(Payload(b)) \in Int BY <1>1, SizesNat, PayloadIs
<1>5. min_size \in Int
  <2> DEFINE u == bundle_get_first_fragment_min_size(b)
      v == bundle_get_last_fragment_min_size(b)
      r == IF u >= v THEN u ELSE v
  <2>1. u \in Int /\ v \in Int BY <1>1, SizesNat
  <2> HIDE DEF u, v
  <2>2. r \in {u, v} /\ \A y \in {u, v} : r >= y BY <2>1
  <2>3. Max({u, v}) \in {u, v} BY <2>2 DEF Max
  <2> QED BY <2>1, <2>3 DEF u, v
<1> HIDE DEF b, q, k, size, min_size
<1>6. max \in Int BY <1>2, <1>3, <1>4, <1>5, MaxFragmentInt
<1> HIDE DEF max
<1>7. F(max) \in Seq(GoodRoute)
  <2>1. <<>> \in Seq(GoodRoute) OBVIOUS
  <2>2. router_get_first_route_nonfrag(mem, q, b, k) \in Seq(GoodRoute) BY <1>1, <1>2, <1>3, NonfragIs
  <2>3. router_get_first_route_frag(mem, q, b, k, max) \in Seq(GoodRoute) BY <1>1, <1>2, <1>3, <1>6, FragIs
  <2> QED BY <2>1, <2>2, <2>3
<1> HIDE DEF F
<1>w2. {F(x) : x \in {max}} = {F(max)} BY Zenon
<1>8. <<>> \in Seq(GoodRoute) OBVIOUS
<1> QED BY <1>w1, <1>w2, <1>7, <1>8, OneValue

\* What CutBundle has after some cuts.
CutState == [result : Results, frags : Seq(Bundles), rest : Bundles]

\* ---- Blocks that are chosen and counted, the fragments among the bundles
\* The copies of e among blocks, one more block.
LEMMA CopiesAppend ==
  ASSUME NEW S, NEW e
  PROVE  /\ Copies(<<>>, e) = 0
         /\ \A s \in Seq(S) : \A x \in S :
              /\ Copies(s, e) \in Nat
              /\ Copies(Append(s, x), e) = Copies(s, e) + IF Content(x) = e THEN 1 ELSE 0
<1>1. Copies(<<>>, e) = 0
  <2>1. {k \in DOMAIN <<>> : Content(<<>>[k]) = e} = {} OBVIOUS
  <2> QED BY <2>1, FS_EmptySet DEF Copies
<1>2. ASSUME NEW s \in Seq(S), NEW x \in S
      PROVE  /\ Copies(s, e) \in Nat
             /\ Copies(Append(s, x), e) = Copies(s, e) + IF Content(x) = e THEN 1 ELSE 0
  <2> DEFINE r == Append(s, x)
      C == {k \in DOMAIN s : Content(s[k]) = e}
      D == {k \in DOMAIN r : Content(r[k]) = e}
  <2>1. PICK N \in Nat : N = Len(s) /\ DOMAIN s = 1..N OBVIOUS
  <2>2. DOMAIN r = 1..(N + 1) /\ r[N + 1] = x /\ \A n \in 1..N : r[n] = s[n] BY <2>1
  <2> HIDE DEF r
  <2>3. IsFiniteSet(C) /\ Cardinality(C) \in Nat
    <3>1. IsFiniteSet(1..N) BY <2>1, FS_Interval
    <3>2. C \in SUBSET (1..N) BY <2>1
    <3>3. IsFiniteSet(C) BY <3>1, <3>2, FS_Subset
    <3> QED BY <3>3, FS_CardinalityType
  <2>4. N + 1 \notin C /\ D = IF Content(x) = e THEN C \cup {N + 1} ELSE C
    <3>1. \A k \in 1..(N + 1) : k \in 1..N \/ k = N + 1 OBVIOUS
    <3>2. N + 1 \notin 1..N /\ 1..N \subseteq 1..(N + 1) /\ N + 1 \in 1..(N + 1) OBVIOUS
    <3>3. \A k : k \in D <=> (k \in C \/ (k = N + 1 /\ Content(x) = e)) BY <2>1, <2>2, <3>1, <3>2
    <3>4. N + 1 \notin C BY <2>1, <3>2
    <3> HIDE DEF C, D
    <3> QED BY <3>3, <3>4
  <2>5. Copies(s, e) = Cardinality(C) /\ Copies(r, e) = Cardinality(D) BY DEF Copies
  <2> HIDE DEF C, D
  <2>6. Cardinality(C \cup {N + 1}) = Cardinality(C) + 1 BY <2>3, <2>4, FS_AddElement
  <2> QED BY <2>3, <2>4, <2>5, <2>6 DEF r
<1> QED BY <1>1, <1>2, Zenon

\* Of blocks one behind the other, of one block, of blocks chosen by T.
LEMMA CopiesIs ==
  ASSUME NEW S, NEW s \in Seq(S), NEW e
  PROVE  /\ Copies(s, e) \in Nat
         /\ \A t \in Seq(S) : Copies(s \o t, e) = Copies(s, e) + Copies(t, e)
         /\ (\A k \in DOMAIN s : Content(s[k]) # e) => Copies(s, e) = 0
         /\ \A T : (\A x \in ToSet(s) : Content(x) = e => x \in T) => Copies(OnlyThose(s, T), e) = Copies(s, e)
         /\ \A T : (\A x \in ToSet(s) : Content(x) = e => x \notin T) => Copies(OnlyThose(s, T), e) = 0
<1> DEFINE C(x) == IF Content(x) = e THEN 1 ELSE 0
    More == {r \in Seq(S) : Copies(s \o r, e) = Copies(s, e) + Copies(r, e)}
    All(T) == {r \in Seq(S) : (\A x \in ToSet(r) : Content(x) = e => x \in T) => Copies(OnlyThose(r, T), e) = Copies(r, e)}
    None(T) == {r \in Seq(S) : (\A x \in ToSet(r) : Content(x) = e => x \notin T) => Copies(OnlyThose(r, T), e) = 0}
<1>1. Copies(<<>>, e) = 0 /\ <<>> \in Seq(S) BY CopiesAppend
<1>2. ASSUME NEW r \in Seq(S), NEW x \in S PROVE Copies(r, e) \in Nat /\ Copies(Append(r, x), e) = Copies(r, e) + C(x)
  BY CopiesAppend
<1>3. \A r \in Seq(S) : Copies(r, e) \in Nat
  <2> TAKE r \in Seq(S)
  <2>1. r # <<>> => r[1] \in S BY EmptySeq
  <2> QED BY <1>1, <1>2, <2>1
<1>4. \A x : C(x) \in Nat OBVIOUS
<1>5. Seq(S) \subseteq More
  <2>1. <<>> \in More
    <3>1. s \o <<>> = s OBVIOUS
    <3> QED BY <1>1, <1>3, <3>1
  <2>2. ASSUME NEW r \in Seq(S), NEW x \in S, r \in More PROVE Append(r, x) \in More
    <3>1. s \o Append(r, x) = Append(s \o r, x) /\ s \o r \in Seq(S) /\ Append(r, x) \in Seq(S) OBVIOUS
    <3>2. Copies(Append(s \o r, x), e) = Copies(s \o r, e) + C(x) BY <1>2, <3>1
    <3>3. Copies(Append(r, x), e) = Copies(r, e) + C(x) BY <1>2
    <3>4. Copies(s \o r, e) = Copies(s, e) + Copies(r, e) BY <2>2
    <3>5. Copies(s, e) \in Nat /\ Copies(r, e) \in Nat /\ C(x) \in Nat BY <1>3, <1>4
    <3> HIDE DEF C
    <3>6. Copies(s \o Append(r, x), e) = Copies(s, e) + Copies(Append(r, x), e) BY <3>1, <3>2, <3>3, <3>4, <3>5
    <3> QED BY <3>1, <3>6
  <2> HIDE DEF More
  <2> QED BY <2>1, <2>2, SeqInduction
<1>6. ASSUME \A k \in DOMAIN s : Content(s[k]) # e PROVE Copies(s, e) = 0
  <2>1. {k \in DOMAIN s : Content(s[k]) = e} = {} BY <1>6
  <2> QED BY <2>1, FS_EmptySet DEF Copies
<1>7. ASSUME NEW T, NEW r \in Seq(S), NEW x \in S
      PROVE  /\ Append(r, x) \in Seq(S) /\ ToSet(Append(r, x)) = ToSet(r) \cup {x} /\ OnlyThose(r, T) \in Seq(S)
             /\ OnlyThose(Append(r, x), T) = IF x \in T THEN Append(OnlyThose(r, T), x) ELSE OnlyThose(r, T)
  <2>1. Append(r, x) \in Seq(S) OBVIOUS
  <2>2. ToSet(Append(r, x)) = ToSet(r) \cup {x} BY SetOfAppend
  <2>3. /\ OnlyThose(r, T) \in Seq(S)
        /\ OnlyThose(Append(r, x), T) = IF x \in T THEN Append(OnlyThose(r, T), x) ELSE OnlyThose(r, T)
    BY OnlyThoseAppend, Zenon
  <2> QED BY <2>1, <2>2, <2>3
<1>8. ASSUME NEW T PROVE Seq(S) \subseteq All(T) /\ Seq(S) \subseteq None(T)
  <2> DEFINE A == All(T)
      B == None(T)
  <2>1. <<>> \in A /\ <<>> \in B
    <3>1. OnlyThose(<<>>, T) = <<>> BY OnlyThoseAppend
    <3> QED BY <1>1, <3>1
  <2>2. ASSUME NEW r \in Seq(S), NEW x \in S
        PROVE  Copies(OnlyThose(Append(r, x), T), e) = Copies(OnlyThose(r, T), e) + IF x \in T THEN C(x) ELSE 0
    <3>1. OnlyThose(r, T) \in Seq(S) BY <1>7
    <3>2. Copies(OnlyThose(r, T), e) \in Nat BY <1>3, <3>1
    <3>3. Copies(Append(OnlyThose(r, T), x), e) = Copies(OnlyThose(r, T), e) + C(x) BY <1>2, <3>1
    <3>4. OnlyThose(Append(r, x), T) = IF x \in T THEN Append(OnlyThose(r, T), x) ELSE OnlyThose(r, T) BY <1>7
    <3> QED BY <3>2, <3>3, <3>4
  <2>3. ASSUME NEW r \in Seq(S), NEW x \in S, r \in A PROVE Append(r, x) \in A
    <3>1. ASSUME \A y \in ToSet(Append(r, x)) : Content(y) = e => y \in T
          PROVE  Copies(OnlyThose(Append(r, x), T), e) = Copies(Append(r, x), e)
      <4>0. ToSet(Append(r, x)) = ToSet(r) \cup {x} BY <1>7
      <4>1. (Content(x) = e => x \in T) /\ \A y \in ToSet(r) : Content(y) = e => y \in T BY <3>1, <4>0
      <4>2. Copies(OnlyThose(r, T), e) = Copies(r, e) BY <2>3, <4>1
      <4>3. C(x) = IF x \in T THEN C(x) ELSE 0 BY <4>1
      <4> QED BY <1>2, <2>2, <4>2, <4>3
    <3>2. Append(r, x) \in Seq(S) OBVIOUS
    <3> QED BY <3>1, <3>2
  <2>4. ASSUME NEW r \in Seq(S), NEW x \in S, r \in B PROVE Append(r, x) \in B
    <3>1. ASSUME \A y \in ToSet(Append(r, x)) : Content(y) = e => y \notin T
          PROVE  Copies(OnlyThose(Append(r, x), T), e) = 0
      <4>0. ToSet(Append(r, x)) = ToSet(r) \cup {x} BY <1>7
      <4>1. (Content(x) = e => x \notin T) /\ \A y \in ToSet(r) : Content(y) = e => y \notin T BY <3>1, <4>0
      <4>2. Copies(OnlyThose(r, T), e) = 0 BY <2>4, <4>1
      <4>3. (IF x \in T THEN C(x) ELSE 0) = 0 BY <4>1
      <4> QED BY <2>2, <4>2, <4>3
    <3>2. Append(r, x) \in Seq(S) OBVIOUS
    <3> QED BY <3>1, <3>2
  <2> HIDE DEF A, B
  <2>5. Seq(S) \subseteq A BY <2>1, <2>3, SeqInduction
  <2>6. Seq(S) \subseteq B BY <2>1, <2>4, SeqInduction
  <2> QED BY <2>5, <2>6 DEF A, B
<1>9. (\A t \in Seq(S) : t \in More) /\ \A T : s \in All(T) /\ s \in None(T) BY <1>5, <1>8
<1> QED BY <1>3, <1>6, <1>9

\* Blocks with the same contents are copies of each other.
LEMMA CopiesSame ==
  ASSUME NEW s, NEW t, DOMAIN s = DOMAIN t, \A k \in DOMAIN t : Content(s[k]) = Content(t[k]), NEW e
  PROVE  Copies(s, e) = Copies(t, e)
<1>1. {k \in DOMAIN s : Content(s[k]) = e} = {k \in DOMAIN t : Content(t[k]) = e} OBVIOUS
<1> QED BY <1>1 DEF Copies

\* n fragments of bundle id come behind the entries of s.
Behind(s, r, n, id) == /\ Len(r) = Len(s) + n
                       /\ \A j \in 1..Len(s) : r[j].of = s[j].of
                       /\ \A f \in 1..n : r[Len(s) + f].of = id
PartsBehind(s, r, n, id) ==
  /\ \A i : i # id => PartsOf(r, i) = PartsOf(s, i)
  /\ (\A j \in DOMAIN s : s[j].of # id) => PartsOf(r, id) = [f \in 1..n |-> Len(s) + f]

\* The parts of each bundle then.
LEMMA PartsGrown ==
  ASSUME NEW s \in Seq(Entry), NEW r \in Seq(Entry), NEW n \in Nat, NEW id, Behind(s, r, n, id)
  PROVE  PartsBehind(s, r, n, id)
<1>0. /\ Len(r) = Len(s) + n
      /\ \A j \in 1..Len(s) : r[j].of = s[j].of
      /\ \A f \in 1..n : r[Len(s) + f].of = id
  BY DEF Behind
<1> SUFFICES /\ \A i : i # id => PartsOf(r, i) = PartsOf(s, i)
             /\ (\A j \in DOMAIN s : s[j].of # id) => PartsOf(r, id) = [f \in 1..n |-> Len(s) + f]
  BY DEF PartsBehind
<1> DEFINE l == Len(s)
    u == [k \in 1..l |-> k]
    v == [f \in 1..n |-> l + f]
    w == [k \in 1..(l + n) |-> k]
    T(i) == {k \in DOMAIN r : r[k].of = i}
    V(i) == {k \in DOMAIN s : s[k].of = i}
<1>1. l \in Nat /\ DOMAIN s = 1..l /\ DOMAIN r = 1..(l + n) BY <1>0
<1>2. u \in Seq(Nat) /\ Len(u) = l /\ DOMAIN u = 1..l /\ \A k \in 1..l : u[k] = k BY <1>1
<1>3. v \in Seq(Nat) /\ Len(v) = n /\ DOMAIN v = 1..n /\ \A f \in 1..n : v[f] = l + f BY <1>1
<1>4. u \o v = w BY <1>1, CountOn
<1>5. ToSet(u) = 1..l /\ ToSet(v) = {l + f : f \in 1..n} BY <1>2, <1>3 DEF ToSet
<1>6. \A i : PartsOf(r, i) = OnlyThose(w, T(i)) /\ PartsOf(s, i) = OnlyThose(u, V(i))
  BY <1>1, Zenon DEF PartsOf
<1> HIDE DEF u, v, w, l
<1>7. \A i : \A k \in 1..l : k \in T(i) <=> k \in V(i) BY <1>0, <1>1 DEF l
<1>8. \A i : \A f \in 1..n : l + f \in T(i) <=> i = id
  <2>1. \A f \in 1..n : l + f \in DOMAIN r BY <1>1
  <2>2. \A f \in 1..n : r[l + f].of = id BY <1>0 DEF l
  <2> QED BY <2>1, <2>2
<1> HIDE DEF T, V
<1>9. ASSUME NEW i PROVE PartsOf(r, i) = PartsOf(s, i) \o OnlyThose(v, T(i))
  <2>1. \A x \in ToSet(u) : x \in T(i) <=> x \in V(i) BY <1>5, <1>7
  <2>2. OnlyThose(u, V(i)) = OnlyThose(u, T(i)) BY <1>2, <2>1, OnlyThoseParts
  <2>3. OnlyThose(u \o v, T(i)) = OnlyThose(u, T(i)) \o OnlyThose(v, T(i)) BY <1>2, <1>3, OnlyThoseParts
  <2> QED BY <1>4, <1>6, <2>2, <2>3, Zenon
<1>10. ASSUME NEW i, i # id PROVE PartsOf(r, i) = PartsOf(s, i)
  <2>1. ToSet(v) \cap T(i) = {} BY <1>5, <1>8, <1>10
  <2>2. OnlyThose(v, T(i)) = <<>> BY <1>3, <2>1, OnlyThoseParts
  <2>3. PartsOf(s, i) \in Seq(Nat)
    <3> DEFINE T0 == V(i)
    <3> HIDE DEF T0
    <3>0. u \in Seq(Nat) BY <1>2
    <3>1. OnlyThose(u, T0) \in Seq({x \in Nat : x \in T0 /\ x \in ToSet(u)}) BY <3>0, OnlyThoseIs
    <3> DEFINE U == {x \in Nat : x \in T0 /\ x \in ToSet(u)}
    <3>2. OnlyThose(u, T0) \in Seq(U) /\ \A x \in U : x \in Nat BY <3>1
    <3> HIDE DEF U
    <3>3. OnlyThose(u, T0) \in Seq(Nat) BY <3>2
    <3> QED BY <1>6, <3>3 DEF T0
  <2> DEFINE q == PartsOf(s, i)
  <2> HIDE DEF q
  <2>4. q \o <<>> = q BY <2>3 DEF q
  <2>5. PartsOf(r, i) = q \o <<>> BY <1>9, <2>2 DEF q
  <2> QED BY <2>4, <2>5 DEF q
<1>11. ASSUME \A j \in DOMAIN s : s[j].of # id PROVE PartsOf(r, id) = v
  <2>1. ToSet(v) \subseteq T(id) BY <1>5, <1>8
  <2>2. OnlyThose(v, T(id)) = v BY <1>3, <2>1, OnlyThoseParts
  <2>3. ToSet(u) \cap V(id) = {} BY <1>11 DEF V
  <2>4. OnlyThose(u, V(id)) = <<>> BY <1>2, <2>3, OnlyThoseParts
  <2>5. <<>> \o v = v BY <1>3
  <2>6. PartsOf(s, id) = <<>> BY <1>6, <2>4
  <2> QED BY <1>9, <2>2, <2>5, <2>6
<1> QED BY <1>10, <1>11 DEF v, l

\* What does not change whose fragments the bundles are does not change the parts.
LEMMA PartsSame ==
  ASSUME NEW s, NEW r, DOMAIN r = DOMAIN s, \A j \in DOMAIN s : r[j].of = s[j].of
  PROVE  \A i : PartsOf(r, i) = PartsOf(s, i)
<1>1. \A i : {k \in DOMAIN r : r[k].of = i} = {k \in DOMAIN s : s[k].of = i} OBVIOUS
<1> QED BY <1>1 DEF PartsOf

\* The parts are entries, and the fragments stay the same as long as the parts
\* and their bundles do.
LEMMA FragmentsSame ==
  ASSUME NEW s \in Seq(Entry), NEW r, NEW i, PartsOf(r, i) = PartsOf(s, i),
         \A j \in DOMAIN s : r[j].bundle = s[j].bundle
  PROVE  FragmentsOf(r, i) = FragmentsOf(s, i)
<1> DEFINE d == DOMAIN s
    q == [k \in d |-> k]
    T == {k \in d : s[k].of = i}
    U == {k \in Nat : k \in T /\ k \in ToSet(q)}
    parts == PartsOf(s, i)
<1>1. q \in Seq(Nat)
  <2>1. d = 1..Len(s) /\ Len(s) \in Nat OBVIOUS
  <2> QED BY <2>1
<1>2. parts \in Seq(U)
  <2> HIDE DEF T, q
  <2>1. OnlyThose(q, T) \in Seq({k \in Nat : k \in T /\ k \in ToSet(q)}) BY <1>1, OnlyThoseIs
  <2> QED BY <2>1 DEF PartsOf, q, T
<1>3. U \subseteq d OBVIOUS
<1> HIDE DEF U, parts
<1>4. \A k \in DOMAIN parts : parts[k] \in d BY <1>2, <1>3
<1>5. \A k \in DOMAIN parts : r[parts[k]].bundle = s[parts[k]].bundle BY <1>4
<1>6. FragmentsOf(s, i) = [k \in DOMAIN parts |-> s[parts[k]].bundle] BY DEF FragmentsOf, parts
<1>7. FragmentsOf(r, i) = [k \in DOMAIN parts |-> r[parts[k]].bundle] BY DEF FragmentsOf, parts
<1> QED BY <1>5, <1>6, <1>7

\* ---- The blocks of both parts of a cut
\* The contents e are those of an extension block.
OfExtension(e) == e[1] # BLOCK_TYPE_PAYLOAD
Plain(s) == \A i \in DOMAIN s : Extension(s[i])
\* A bundle with one block of the type of the payload, other blocks before it
\* and behind it.
Parted(r, S, u, p, v) ==
  /\ u \in Seq(S) /\ v \in Seq(S) /\ p \in S /\ Plain(u) /\ Plain(v) /\ p.type = BLOCK_TYPE_PAYLOAD
  /\ r.blocks = Append(u, p) \o v

LEMMA PartedPayload ==
  ASSUME NEW r, NEW S, NEW u, NEW p, NEW v, Parted(r, S, u, p, v)
  PROVE  OnePayload(r) /\ Payload(r) = p.data
<1>0. u \in Seq(S) /\ v \in Seq(S) /\ p \in S /\ Plain(u) /\ Plain(v) /\ p.type = BLOCK_TYPE_PAYLOAD
      /\ r.blocks = Append(u, p) \o v BY DEF Parted
<1> DEFINE a == Append(u, p)
    b == a \o v
    l == Len(u) + 1
<1>1. a \in Seq(S) /\ Len(a) = l /\ l \in Nat /\ l >= 1 /\ a[l] = p /\ \A j \in 1..(l - 1) : a[j] = u[j] /\ j \in DOMAIN u BY <1>0
<1>2. PICK n \in Nat : n = Len(v) /\ DOMAIN v = 1..n BY <1>0
<1> HIDE DEF a, l
<1>3. b \in Seq(S) /\ Concat(a, v, b) BY <1>0, <1>1, ConcatIs
<1>4. r.blocks = b BY <1>0 DEF a
<1> HIDE DEF b
<1>5. /\ DOMAIN b = 1..(l + n)
      /\ \A j \in 1..l : b[j] = a[j]
      /\ \A f \in 1..n : b[l + f] = v[f]
  BY <1>1, <1>2, <1>3 DEF Concat
<1>6. b[l] = p /\ l \in DOMAIN b
  <2>1. l \in 1..l /\ l \in 1..(l + n) BY <1>1, <1>2
  <2> QED BY <1>1, <1>5, <2>1
<1>7. ASSUME NEW j \in DOMAIN b, j # l PROVE Extension(b[j])
  <2>1. j \in 1..(l - 1) \/ (j - l \in 1..n /\ l + (j - l) = j) BY <1>1, <1>2, <1>5, <1>7
  <2>2. CASE j \in 1..(l - 1)
    <3>1. j \in 1..l BY <1>1, <2>2
    <3>2. b[j] = u[j] /\ j \in DOMAIN u BY <1>1, <1>5, <2>2, <3>1
    <3> QED BY <1>0, <3>2 DEF Plain
  <2>3. CASE j - l \in 1..n /\ l + (j - l) = j
    <3>1. b[j] = v[j - l] BY <1>5, <2>3
    <3> QED BY <1>0, <1>2, <2>3, <3>1 DEF Plain
  <2> QED BY <2>1, <2>2, <2>3
<1>8. PayloadAt(r) = l BY <1>0, <1>4, <1>6, <1>7 DEF PayloadAt, Extension
<1> QED BY <1>4, <1>6, <1>7, <1>8 DEF OnePayload, Payload

LEMMA PartedCopies ==
  ASSUME NEW r, NEW S, NEW u, NEW p, NEW v, Parted(r, S, u, p, v), NEW e, OfExtension(e)
  PROVE  Copies(r.blocks, e) = Copies(u, e) + Copies(v, e) /\ Copies(u, e) \in Nat /\ Copies(v, e) \in Nat
<1> DEFINE a == Append(u, p)
<1>0. u \in Seq(S) /\ v \in Seq(S) /\ p \in S /\ p.type = BLOCK_TYPE_PAYLOAD /\ r.blocks = a \o v BY DEF Parted
<1>1. Content(p)[1] = p.type BY DEF Content
<1>2. Content(p) # e BY <1>0, <1>1 DEF OfExtension
<1>3. Copies(u, e) \in Nat /\ Copies(v, e) \in Nat BY <1>0, CopiesIs
<1>4. Copies(a, e) = Copies(u, e)
  <2>1. Copies(Append(u, p), e) = Copies(u, e) + IF Content(p) = e THEN 1 ELSE 0 BY <1>0, CopiesAppend, Zenon
  <2> QED BY <1>2, <1>3, <2>1 DEF a
<1>5. a \in Seq(S) BY <1>0
<1> HIDE DEF a
<1>6. Copies(a \o v, e) = Copies(a, e) + Copies(v, e) BY <1>0, <1>5, CopiesIs
<1> QED BY <1>0, <1>3, <1>4, <1>6

\* The blocks of a bundle with one payload block.
LEMMA BlocksOfBundle ==
  ASSUME NEW S, NEW w, w.blocks \in Seq(S), PayloadAt(w) \in DOMAIN w.blocks, OnePayload(w),
         w.blocks[PayloadAt(w)].type = BLOCK_TYPE_PAYLOAD
  PROVE  LET u == Before(w.blocks, PayloadAt(w))
             v == After(w.blocks, PayloadAt(w))
         IN  /\ u \in Seq(S) /\ v \in Seq(S) /\ Plain(u) /\ Plain(v)
             /\ w.blocks = Append(u, w.blocks[PayloadAt(w)]) \o v
<1> DEFINE at == PayloadAt(w)
<1>1. PICK q \in Seq(S) : q = w.blocks OBVIOUS
<1>2. PICK N \in Nat : N = Len(q) /\ DOMAIN q = 1..N OBVIOUS
<1>3. at \in 1..N /\ at \in 1..Len(q) /\ at \in Nat BY <1>1, <1>2
<1>4. \A i \in DOMAIN q : i # at => Extension(q[i]) BY <1>1 DEF OnePayload
<1>5. q[at] \in S BY <1>2, <1>3
<1> HIDE DEF at
<1> DEFINE u == Before(q, at)
    v == After(q, at)
<1>6. /\ u \in Seq(S) /\ Len(u) = at - 1 /\ \A j \in 1..(at - 1) : u[j] = q[j]
      /\ v \in Seq(S) /\ Len(v) = Len(q) - at /\ \A j \in 1..(Len(q) - at) : v[j] = q[at + j]
  BY <1>3, SplitAt
<1>8. q = Append(u, q[at]) \o v BY <1>3, <1>5, PutAt
<1> HIDE DEF u, v
<1>9. Plain(u)
  <2>1. DOMAIN u = 1..(at - 1) BY <1>3, <1>6
  <2>2. \A j \in 1..(at - 1) : j \in 1..N /\ j # at BY <1>2, <1>3
  <2> QED BY <1>2, <1>4, <1>6, <2>1, <2>2 DEF Plain
<1>10. Plain(v)
  <2>1. DOMAIN v = 1..(N - at) BY <1>2, <1>3, <1>6
  <2>2. \A j \in 1..(N - at) : at + j \in 1..N /\ at + j # at BY <1>2, <1>3
  <2> QED BY <1>2, <1>4, <1>6, <2>1, <2>2 DEF Plain
<1> QED BY <1>1, <1>6, <1>8, <1>9, <1>10 DEF u, v, at

\* The fields of a bundle that tell where a fragment belongs.
Looks(b, flags, adu, offset, blocks) ==
  b.proc_flags = flags /\ b.total_adu_length = adu /\ b.fragment_offset = offset /\ b.blocks = blocks

\* The other fields stay.
LEMMA Looks6 ==
  ASSUME NEW b \in Bundles6, NEW s, NEW n, NEW adu, NEW flags
  PROVE  /\ Looks(WithBlocks(b, s), b.proc_flags, b.total_adu_length, b.fragment_offset, s)
         /\ Looks(AsRest(b, s, n), b.proc_flags, b.total_adu_length, b.fragment_offset + n, s)
         /\ Looks(AsFirst(b, s, flags), flags, b.total_adu_length, b.fragment_offset, s)
         /\ Looks(AsFragment(b, adu, flags, s), flags, adu, b.fragment_offset, s)
         /\ Looks([b EXCEPT !.primary_block_length = n], b.proc_flags, b.total_adu_length, b.fragment_offset, b.blocks)
<1>1. Looks(WithBlocks(b, s), b.proc_flags, b.total_adu_length, b.fragment_offset, s) BY DEF Bundles6, WithBlocks, Looks
<1>2. Looks(AsRest(b, s, n), b.proc_flags, b.total_adu_length, b.fragment_offset + n, s) BY DEF Bundles6, AsRest, Looks
<1>3. Looks(AsFirst(b, s, flags), flags, b.total_adu_length, b.fragment_offset, s) BY DEF Bundles6, AsFirst, Looks
<1>4. Looks(AsFragment(b, adu, flags, s), flags, adu, b.fragment_offset, s) BY DEF Bundles6, AsFragment, Looks
<1>5. Looks([b EXCEPT !.primary_block_length = n], b.proc_flags, b.total_adu_length, b.fragment_offset, b.blocks)
  BY DEF Bundles6, Looks
<1> QED BY <1>1, <1>2, <1>3, <1>4, <1>5

LEMMA Looks7 ==
  ASSUME NEW b \in Bundles7, NEW s, NEW n, NEW adu, NEW flags
  PROVE  /\ Looks(WithBlocks(b, s), b.proc_flags, b.total_adu_length, b.fragment_offset, s)
         /\ Looks(AsRest(b, s, n), b.proc_flags, b.total_adu_length, b.fragment_offset + n, s)
         /\ Looks(AsFirst(b, s, flags), flags, b.total_adu_length, b.fragment_offset, s)
         /\ Looks(AsFragment(b, adu, flags, s), flags, adu, b.fragment_offset, s)
         /\ Looks([b EXCEPT !.primary_block_length = n], b.proc_flags, b.total_adu_length, b.fragment_offset, b.blocks)
<1>1. Looks(WithBlocks(b, s), b.proc_flags, b.total_adu_length, b.fragment_offset, s) BY DEF Bundles7, WithBlocks, Looks
<1>2. Looks(AsRest(b, s, n), b.proc_flags, b.total_adu_length, b.fragment_offset + n, s) BY DEF Bundles7, AsRest, Looks
<1>3. Looks(AsFirst(b, s, flags), flags, b.total_adu_length, b.fragment_offset, s) BY DEF Bundles7, AsFirst, Looks
<1>4. Looks(AsFragment(b, adu, flags, s), flags, adu, b.fragment_offset, s) BY DEF Bundles7, AsFragment, Looks
<1>5. Looks([b EXCEPT !.primary_block_length = n], b.proc_flags, b.total_adu_length, b.fragment_offset, b.blocks)
  BY DEF Bundles7, Looks
<1> QED BY <1>1, <1>2, <1>3, <1>4, <1>5

\* bundle_recalculate_header_length
LEMMA RecalculateLooks ==
  ASSUME NEW b, Either(b), NEW flags, NEW adu, NEW offset, NEW blocks, Looks(b, flags, adu, offset, blocks)
  PROVE  Looks(bundle_recalculate_header_length(b), flags, adu, offset, blocks)
<1> DEFINE n == IF b.version = 6 THEN bundle6_recalculate_header_length(b)
                ELSE bundle7_recalculate_primary_block_length(b)
    r == [b EXCEPT !.primary_block_length = n]
<1>1. bundle_recalculate_header_length(b) = r BY Zenon DEF bundle_recalculate_header_length
<1> HIDE DEF n
<1>2. Looks(r, b.proc_flags, b.total_adu_length, b.fragment_offset, b.blocks) BY Looks6, Looks7, Zenon DEF Either
<1> QED BY <1>1, <1>2 DEF Looks

\* The total length that a fragment of b has.
TotalOf(b) == IF IsFragment(b.proc_flags) THEN b.total_adu_length ELSE Len(Payload(b))

\* bundlefragmenter_create_new_fragment, with blocks
LEMMA NewFragmentLooks ==
  ASSUME NEW b \in Bundles, NEW blocks, NEW n
  PROVE  /\ Looks([bundlefragmenter_create_new_fragment(b) EXCEPT !.blocks = blocks],
                  SetFlag(b.proc_flags, IS_FRAGMENT), TotalOf(b), b.fragment_offset, blocks)
         /\ Looks([bundlefragmenter_create_new_fragment(b) EXCEPT !.blocks = blocks, !.fragment_offset = @ + n],
                  SetFlag(b.proc_flags, IS_FRAGMENT), TotalOf(b), b.fragment_offset + n, blocks)
<1> DEFINE adu == TotalOf(b)
    flags == SetFlag(b.proc_flags, IS_FRAGMENT)
    e == <<>>
    f == AsFragment(b, adu, flags, e)
    u == WithBlocks(f, blocks)
    v == AsRest(f, blocks, n)
<1>0. b \in Bundles6 \/ b \in Bundles7 BY DEF Bundles
<1>1. b.total_adu_length \in Nat /\ b.proc_flags \in Nat BY <1>0 DEF Bundles6, Bundles7
<1>2. adu \in Nat BY <1>1, PayloadIs DEF TotalOf
<1>3. flags \in Nat BY <1>1, FlagsNat
<1>4. bundlefragmenter_create_new_fragment(b) = f BY Zenon DEF bundlefragmenter_create_new_fragment, AsFragment, TotalOf
<1>5. e \in Seq(Block6) /\ e \in Seq(Block7) OBVIOUS
<1> HIDE DEF adu, flags, e
<1>6. Looks(f, flags, adu, b.fragment_offset, e) BY <1>0, Looks6, Looks7, Zenon
<1>7. Either(f) BY <1>0, <1>2, <1>3, <1>5, Fields6, Fields7 DEF Either
<1> HIDE DEF f
<1>8. Looks(u, f.proc_flags, f.total_adu_length, f.fragment_offset, blocks) BY <1>7, Looks6, Looks7, Zenon DEF Either
<1>9. Looks(v, f.proc_flags, f.total_adu_length, f.fragment_offset + n, blocks) BY <1>7, Looks6, Looks7, Zenon DEF Either
<1>10. f.proc_flags = flags /\ f.total_adu_length = adu /\ f.fragment_offset = b.fragment_offset BY <1>6, Zenon DEF Looks
<1>11. u = [bundlefragmenter_create_new_fragment(b) EXCEPT !.blocks = blocks] BY <1>4, Zenon DEF WithBlocks
<1>12. v = [bundlefragmenter_create_new_fragment(b) EXCEPT !.blocks = blocks, !.fragment_offset = @ + n] BY <1>4, Zenon DEF AsRest
<1> HIDE DEF u, v
<1> QED BY <1>8, <1>9, <1>10, <1>11, <1>12, Zenon DEF adu, flags

\* A copy of a block has its type, its flags and its data.
LEMMA DupContent ==
  ASSUME NEW S, S = Block6 \/ S = Block7, NEW s \in Seq(S)
  PROVE  /\ bundle_block_list_dup(s) \in Seq(S) /\ DOMAIN bundle_block_list_dup(s) = DOMAIN s
         /\ \A i \in DOMAIN s : Content(bundle_block_list_dup(s)[i]) = Content(s[i])
         /\ \A e : Copies(bundle_block_list_dup(s), e) = Copies(s, e)
         /\ Plain(s) => Plain(bundle_block_list_dup(s))
<1> DEFINE d == bundle_block_list_dup(s)
<1>1. d \in Seq(S) /\ DOMAIN d = DOMAIN s /\ \A i \in DOMAIN s : d[i].type = s[i].type BY DupIs
<1>2. ASSUME NEW x \in S PROVE Content(bundle_block_dup(x)) = Content(x)
  <2>1. CASE S = Block6
    <3> DEFINE y == Reverse(x.eid_refs)
    <3>1. bundle_block_dup(x) = [x EXCEPT !.eid_refs = y] BY <2>1, Zenon DEF Block6, bundle_block_dup
    <3> HIDE DEF y
    <3> QED BY <2>1, <3>1 DEF Block6, Content
  <2>2. CASE S = Block7
    <3>1. "eid_refs" \notin DOMAIN x BY <2>2 DEF Block7
    <3> QED BY <3>1 DEF bundle_block_dup
  <2> QED BY <2>1, <2>2
<1>3. \A i \in DOMAIN s : s[i] \in S /\ d[i] = bundle_block_dup(s[i]) BY DEF bundle_block_list_dup
<1> HIDE DEF d
<1>4. \A i \in DOMAIN s : Content(d[i]) = Content(s[i]) BY <1>2, <1>3
<1>5. \A e : Copies(d, e) = Copies(s, e) BY <1>1, <1>4, CopiesSame
<1>6. Plain(s) => Plain(d) BY <1>1 DEF Plain, Extension
<1> QED BY <1>1, <1>4, <1>5, <1>6 DEF d

\* A set flag stays set.
LEMMA FlagSet ==
  ASSUME NEW f \in Nat
  PROVE  IsFragment(SetFlag(f, IS_FRAGMENT)) /\ (IsFragment(f) => SetFlag(f, IS_FRAGMENT) = f)
<1>1. f \div 1 = f /\ (f + 1) \div 1 = f + 1 OBVIOUS
<1>2. f % 2 # 1 => (f + 1) % 2 = 1 OBVIOUS
<1> QED BY <1>1, <1>2 DEF IsFragment, HAS_FLAG, SetFlag, IS_FRAGMENT

\* What the two parts of a bundle have of the blocks with the contents e: each
\* has all if they have to be replicated, both together have them otherwise.
Shares(e, w, x, y) ==
  IF HAS_FLAG(e[2], BLOCK_REPLICATE)
  THEN Copies(x.blocks, e) = Copies(w.blocks, e) /\ Copies(y.blocks, e) = Copies(w.blocks, e)
  ELSE Copies(x.blocks, e) + Copies(y.blocks, e) = Copies(w.blocks, e)

\* The fragment w was cut into x and y.
Split(w, x, y) ==
  /\ Payload(x) \o Payload(y) = Payload(w)
  /\ IsFragment(x.proc_flags) /\ x.total_adu_length = w.total_adu_length
  /\ IsFragment(y.proc_flags) /\ y.total_adu_length = w.total_adu_length
  /\ x.fragment_offset = w.fragment_offset /\ y.fragment_offset = w.fragment_offset + Len(Payload(x))
  /\ OnePayload(x) /\ OnePayload(y)
  /\ \A e : OfExtension(e) => Shares(e, w, x, y)

\* Both parts of the payload.
LEMMA PayloadParts ==
  ASSUME NEW w \in Bundles, NEW n \in Nat, n <= Len(Payload(w))
  PROVE  /\ SubSeq(Payload(w), 1, n) \in Seq(Nat) /\ Len(SubSeq(Payload(w), 1, n)) = n /\ Rest(w, n) \in Seq(Nat)
         /\ SubSeq(Payload(w), 1, n) \o Rest(w, n) = Payload(w)
<1>1. PICK d \in Seq(Nat) : d = Payload(w) BY PayloadIs
<1>2. n <= Len(d) BY <1>1
<1> QED BY <1>1, <1>2, CutInTwo DEF Rest

\* The blocks of a bundle are those of its version.
Kind(w, S) == (w \in Bundles6 /\ S = Block6) \/ (w \in Bundles7 /\ S = Block7)

\* The bundle with the first bytes of its payload.
LEMMA ShortenedLooks ==
  ASSUME NEW w \in Bundles, NEW n \in Nat, n <= Len(Payload(w)), NEW S, Kind(w, S)
  PROVE  \E y \in S :
           /\ y.type = BLOCK_TYPE_PAYLOAD /\ y.data = SubSeq(Payload(w), 1, n)
           /\ Looks(Shortened(w, n), SetFlag(w.proc_flags, IS_FRAGMENT), w.total_adu_length, w.fragment_offset,
                    [w.blocks EXCEPT ![PayloadAt(w)] = y])
<1> DEFINE at == PayloadAt(w)
    x == w.blocks[at]
    data == SubSeq(x.data, 1, n)
    y == [x EXCEPT !.data = data]
    flags == SetFlag(w.proc_flags, IS_FRAGMENT)
    blocks == [w.blocks EXCEPT ![at] = y]
    v == AsFirst(w, blocks, flags)
<1>1. at \in DOMAIN w.blocks /\ x.type = BLOCK_TYPE_PAYLOAD BY PayloadIs
<1>2. data = SubSeq(Payload(w), 1, n) BY DEF Payload
<1>3. data \in Seq(Nat) BY <1>2, PayloadParts
<1>4. Shortened(w, n) = v BY Zenon DEF Shortened, AsFirst
<1>5. w.blocks \in Seq(S) BY DEF Kind, Bundles6, Bundles7
<1>6. x \in S BY <1>1, <1>5
<1> HIDE DEF at, data, x
<1>7. y \in S /\ y.type = x.type /\ y.data = data
  <2>1. CASE S = Block6 BY <1>3, <1>6, <2>1 DEF Block6
  <2>2. CASE S = Block7 BY <1>3, <1>6, <2>2 DEF Block7
  <2> QED BY <2>1, <2>2 DEF Kind
<1> HIDE DEF y, flags, blocks
<1>8. Looks(v, flags, w.total_adu_length, w.fragment_offset, blocks) BY Looks6, Looks7, Zenon DEF Kind
<1> QED BY <1>1, <1>2, <1>4, <1>7, <1>8 DEF blocks, at, flags

\* The parts that the cut of a bundle makes.
LEMMA SplitIs ==
  ASSUME NEW w \in Bundles, IsFragment(w.proc_flags), NEW n \in Nat, n <= Len(Payload(w)),
         NEW x, NEW y, NEW bx, NEW by,
         Looks(x, SetFlag(w.proc_flags, IS_FRAGMENT), w.total_adu_length, w.fragment_offset, bx),
         Looks(y, SetFlag(w.proc_flags, IS_FRAGMENT), TotalOf(w), w.fragment_offset + n, by),
         OnePayload(x), Payload(x) = SubSeq(Payload(w), 1, n), OnePayload(y), Payload(y) = Rest(w, n),
         \A e : OfExtension(e) => Shares(e, w, x, y)
  PROVE  Split(w, x, y)
<1>1. w.proc_flags \in Nat BY DEF Bundles, Bundles6, Bundles7
<1>2. IsFragment(SetFlag(w.proc_flags, IS_FRAGMENT)) BY <1>1, FlagSet
<1>3. Payload(x) \o Payload(y) = Payload(w) /\ Len(Payload(x)) = n BY PayloadParts
<1> QED BY <1>2, <1>3 DEF Looks, TotalOf, Split

LEMMA CopiesOnly ==
  ASSUME NEW S, NEW s \in Seq(S), NEW e, NEW T
  PROVE  /\ (\A x \in ToSet(s) : Content(x) = e => x \in T) => Copies(OnlyThose(s, T), e) = Copies(s, e)
         /\ (\A x \in ToSet(s) : Content(x) = e => x \notin T) => Copies(OnlyThose(s, T), e) = 0
<1>1. /\ \A U : (\A x \in ToSet(s) : Content(x) = e => x \in U) => Copies(OnlyThose(s, U), e) = Copies(s, e)
      /\ \A U : (\A x \in ToSet(s) : Content(x) = e => x \notin U) => Copies(OnlyThose(s, U), e) = 0 BY CopiesIs
<1> QED BY <1>1, Zenon

\* The blocks with a flag, and those without it.
LEMMA ChosenCopies ==
  ASSUME NEW S, NEW s \in Seq(S), NEW T, NEW e, OfExtension(e),
         \A b \in ToSet(s) : b \in T <=> Extension(b) /\ bundle_block_must_be_replicated(b)
  PROVE  Copies(OnlyThose(s, T), e) = IF HAS_FLAG(e[2], BLOCK_REPLICATE) THEN Copies(s, e) ELSE 0
<1>1. \A b : Content(b) = e => e[1] = b.type /\ e[2] = b.flags BY DEF Content
<1>2. CASE HAS_FLAG(e[2], BLOCK_REPLICATE)
  <2>1. \A b \in ToSet(s) : Content(b) = e => b \in T BY <1>1, <1>2 DEF OfExtension, Extension, bundle_block_must_be_replicated
  <2>2. Copies(OnlyThose(s, T), e) = Copies(s, e) BY <2>1, CopiesOnly
  <2> QED BY <1>2, <2>2
<1>3. CASE ~HAS_FLAG(e[2], BLOCK_REPLICATE)
  <2>1. \A b \in ToSet(s) : Content(b) = e => b \notin T BY <1>1, <1>3 DEF OfExtension, Extension, bundle_block_must_be_replicated
  <2>2. Copies(OnlyThose(s, T), e) = 0 BY <2>1, CopiesOnly
  <2> QED BY <1>3, <2>2
<1> QED BY <1>2, <1>3

\* Blocks of extension are chosen among such blocks.
LEMMA ChosenPlain ==
  ASSUME NEW S, NEW s \in Seq(S), NEW T
  PROVE  /\ OnlyThose(s, T) \in Seq(S)
         /\ (\A b \in ToSet(s) : b \in T => Extension(b)) => Plain(OnlyThose(s, T))
<1> DEFINE U == {x \in S : x \in T /\ x \in ToSet(s)}
    o == OnlyThose(s, T)
<1>1. o \in Seq(U) BY OnlyThoseIs
<1>2. \A x \in U : x \in S /\ x \in T /\ x \in ToSet(s) OBVIOUS
<1> HIDE DEF U, o
<1>3. o \in Seq(S) BY <1>1, <1>2
<1>4. ASSUME \A b \in ToSet(s) : b \in T => Extension(b) PROVE Plain(o)
  <2>1. \A i \in DOMAIN o : o[i] \in U BY <1>1
  <2> QED BY <1>2, <1>4, <2>1 DEF Plain
<1> QED BY <1>3, <1>4 DEF o

\* bundle7_fragment_bundle
LEMMA Cut7Splits ==
  ASSUME NEW w \in Bundles, w \in Bundles7, IsFragment(w.proc_flags), OnePayload(w), NEW max \in Int,
         bundle7_fragment_bundle(w, max).result = "cut"
  PROVE  Split(w, bundle7_fragment_bundle(w, max).first, bundle7_fragment_bundle(w, max).rest)
<1> DEFINE n == max - bundle7_get_first_fragment_min_size(w)
    at == PayloadAt(w)
    pl == [type |-> PayloadType, number |-> 1, flags |-> 0, crc_type |-> CRC_TYPE_NONE,
           data |-> Rest(w, n)]
    copied == {block \in ToSet(w.blocks) : Extension(block) /\ bundle_block_must_be_replicated(block)}
    dup == bundle_block_list_dup(OnlyThose(w.blocks, copied))
    list == dup \o <<pl>>
    rest == [bundlefragmenter_create_new_fragment(w) EXCEPT
               !.blocks = list, !.fragment_offset = @ + n]
    made == Shortened(w, n)
    r == bundle7_fragment_bundle(w, max)
    x == bundle_recalculate_header_length(made)
    y == bundle_recalculate_header_length(rest)
    u == Before(w.blocks, at)
    v == After(w.blocks, at)
<1>1. r = IF n < 0 THEN NoCut("null", w) ELSE IF n >= Len(Payload(w)) THEN NoCut("same", w)
          ELSE IF n = 0 THEN NoCut("crash", w) ELSE Cut(made, rest)
  BY Zenon DEF bundle7_fragment_bundle
<1>3. n \in Int
  <2>1. w.version = 7 BY DEF Bundles7
  <2>2. bundle_get_first_fragment_min_size(w) \in Nat BY SizesNat
  <2>3. bundle7_get_first_fragment_min_size(w) \in Nat BY <2>1, <2>2 DEF bundle_get_first_fragment_min_size
  <2> QED BY <2>3
<1> HIDE DEF n
<1>4. n \in Nat /\ n <= Len(Payload(w)) /\ r.first = x /\ r.rest = y
  <2>1. r.result = "cut" OBVIOUS
  <2> HIDE DEF r, made, rest
  <2>2. NoCut("null", w).result # "cut" /\ NoCut("same", w).result # "cut" /\ NoCut("crash", w).result # "cut" BY DEF NoCut
  <2>3. ~(n < 0) /\ ~(n >= Len(Payload(w))) /\ r = Cut(made, rest) BY <1>1, <2>1, <2>2
  <2>4. Payload(w) \in Seq(Nat) BY PayloadIs
  <2>5. Len(Payload(w)) \in Nat BY <2>4
  <2> QED BY <1>3, <2>3, <2>5 DEF Cut
<1> HIDE DEF r
<1>5. Kind(w, Block7) /\ w.blocks \in Seq(Block7) BY DEF Kind, Bundles7
<1>6. at \in DOMAIN w.blocks /\ w.blocks[at].type = BLOCK_TYPE_PAYLOAD BY PayloadIs
<1>7. u \in Seq(Block7) /\ v \in Seq(Block7) /\ Plain(u) /\ Plain(v) /\ w.blocks = Append(u, w.blocks[at]) \o v
  BY <1>5, <1>6, BlocksOfBundle
<1> HIDE DEF u, v, copied
<1>8. PICK z \in Block7 :
        /\ z.type = BLOCK_TYPE_PAYLOAD /\ z.data = SubSeq(Payload(w), 1, n)
        /\ Looks(made, SetFlag(w.proc_flags, IS_FRAGMENT), w.total_adu_length, w.fragment_offset, [w.blocks EXCEPT ![at] = z])
  BY <1>4, <1>5, ShortenedLooks
<1> HIDE DEF at
<1> DEFINE bx == [w.blocks EXCEPT ![at] = z]
<1>9. bx = Append(u, z) \o v
  <2>1. PICK q \in Seq(Block7) : q = w.blocks BY <1>5
  <2>2. at \in 1..Len(q) BY <1>6, <2>1
  <2>3. bx = [j \in 1..Len(q) |-> IF j = at THEN z ELSE q[j]] BY <2>1
  <2> HIDE DEF bx
  <2>4. \A j \in 1..Len(q) : q[j] \in Block7 /\ (IF j = at THEN z ELSE q[j]) \in Block7 BY <2>1
  <2>5. bx \in Seq(Block7) /\ Len(bx) = Len(q)
    <3>1. Len(q) \in Nat BY <2>1
    <3> QED BY <2>3, <2>4, <3>1
  <2>6. \A j \in 1..Len(q) : bx[j] = IF j = at THEN z ELSE q[j] BY <2>3
  <2>7. bx = Append(Before(q, at), z) \o After(q, at) BY <2>2, <2>5, <2>6, PutAt
  <2> QED BY <2>1, <2>7 DEF u, v
<1> HIDE DEF bx
<1>10. Either(made) /\ Either(rest)
  <2>1. dup \in Seq(Block7)
    <3>1. OnlyThose(w.blocks, copied) \in Seq(Block7) BY <1>5, ChosenPlain
    <3> QED BY <3>1, DupIs
  <2> HIDE DEF dup
  <2>2. pl \in Block7
    <3>1. Rest(w, n) \in Seq(Nat) BY <1>4, RestIs
    <3>2. PayloadType \in Nat /\ CRC_TYPE_NONE \in 0..2 BY DEF PayloadType, CRC_TYPE_NONE
    <3>3. 1 \in Nat /\ 0 \in Nat OBVIOUS
    <3> QED BY <3>1, <3>2, <3>3 DEF Block7
  <2> HIDE DEF pl
  <2>3. list \in Seq(Block7) BY <2>1, <2>2
  <2> HIDE DEF list
  <2>4. Either(rest)
    <3>1. (w \in Bundles6 /\ list \in Seq(Block6)) \/ (w \in Bundles7 /\ list \in Seq(Block7)) BY <2>3
    <3> QED BY <1>4, <3>1, NewFragment, Zenon
  <2>5. made \in Bundles7 BY <1>4, ShortenedIs
  <2> HIDE DEF rest, made
  <2> QED BY <2>4, <2>5 DEF Either
<1>11. Looks(x, SetFlag(w.proc_flags, IS_FRAGMENT), w.total_adu_length, w.fragment_offset, bx)
  <2>1. Looks(made, SetFlag(w.proc_flags, IS_FRAGMENT), w.total_adu_length, w.fragment_offset, bx) BY <1>8 DEF bx
  <2> HIDE DEF made
  <2> QED BY <1>10, <2>1, RecalculateLooks
<1>12. Looks(y, SetFlag(w.proc_flags, IS_FRAGMENT), TotalOf(w), w.fragment_offset + n, list)
  <2>1. Looks(rest, SetFlag(w.proc_flags, IS_FRAGMENT), TotalOf(w), w.fragment_offset + n, list) BY NewFragmentLooks, Zenon
  <2> HIDE DEF rest, list
  <2> QED BY <1>10, <2>1, RecalculateLooks
<1>13. dup \in Seq(Block7) /\ Plain(dup) /\ \A e : Copies(dup, e) = Copies(OnlyThose(w.blocks, copied), e)
  <2>1. \A b \in ToSet(w.blocks) : b \in copied => Extension(b) BY DEF copied
  <2>2. OnlyThose(w.blocks, copied) \in Seq(Block7) /\ Plain(OnlyThose(w.blocks, copied)) BY <1>5, <2>1, ChosenPlain
  <2> QED BY <2>2, DupContent
<1>14. pl \in Block7 /\ pl.type = BLOCK_TYPE_PAYLOAD /\ pl.data = Rest(w, n)
  <2>1. Rest(w, n) \in Seq(Nat) BY <1>4, RestIs
  <2>2. PayloadType \in Nat /\ PayloadType = BLOCK_TYPE_PAYLOAD /\ CRC_TYPE_NONE \in 0..2
    BY DEF BLOCK_TYPE_PAYLOAD, PayloadType, CRC_TYPE_NONE
  <2>3. 1 \in Nat /\ 0 \in Nat OBVIOUS
  <2> QED BY <2>1, <2>2, <2>3 DEF Block7
<1> HIDE DEF dup, pl
<1>15. list = Append(dup, pl) \o <<>>
  <2>1. dup \o <<pl>> = Append(dup, pl) BY <1>13, <1>14
  <2>2. Append(dup, pl) \in Seq(Block7) BY <1>13, <1>14
  <2> DEFINE t == Append(dup, pl)
  <2> HIDE DEF t
  <2>3. t \o <<>> = t BY <2>2 DEF t
  <2> QED BY <2>1, <2>3 DEF t
<1> HIDE DEF list, x, y, rest, made
<1> DEFINE nil == <<>>
<1>16. nil \in Seq(Block7) /\ Plain(nil) /\ \A e : Copies(nil, e) = 0
  <2>1. \A e : Copies(<<>>, e) = 0 BY CopiesAppend
  <2> QED BY <2>1 DEF Plain
<1>17. x.blocks = Append(u, z) \o v /\ y.blocks = Append(dup, pl) \o nil BY <1>9, <1>11, <1>12, <1>15 DEF Looks
<1> HIDE DEF nil
<1>18. Parted(x, Block7, u, z, v) /\ Parted(y, Block7, dup, pl, nil) BY <1>7, <1>8, <1>13, <1>14, <1>16, <1>17 DEF Parted
<1>19. OnePayload(x) /\ Payload(x) = z.data /\ OnePayload(y) /\ Payload(y) = pl.data BY <1>18, PartedPayload
<1>20. ASSUME NEW e, OfExtension(e) PROVE Shares(e, w, x, y)
  <2>1. w.blocks[at] \in Block7 BY <1>5, <1>6
  <2>2. Copies(w.blocks, e) = Copies(u, e) + Copies(v, e) /\ Copies(u, e) \in Nat /\ Copies(v, e) \in Nat
    <3>1. Parted(w, Block7, u, w.blocks[at], v) BY <1>6, <1>7, <2>1 DEF Parted
    <3> QED BY <1>20, <3>1, PartedCopies
  <2>3. Copies(OnlyThose(w.blocks, copied), e) = IF HAS_FLAG(e[2], BLOCK_REPLICATE) THEN Copies(w.blocks, e) ELSE 0
    <3>1. \A b \in ToSet(w.blocks) : b \in copied <=> Extension(b) /\ bundle_block_must_be_replicated(b) BY DEF copied
    <3> QED BY <1>5, <1>20, <3>1, ChosenCopies
  <2>4. Copies(x.blocks, e) = Copies(u, e) + Copies(v, e) BY <1>18, <1>20, PartedCopies
  <2>5. Copies(y.blocks, e) = Copies(dup, e) + Copies(nil, e) /\ Copies(dup, e) \in Nat BY <1>18, <1>20, PartedCopies
  <2>6. Copies(nil, e) = 0 /\ Copies(dup, e) = Copies(OnlyThose(w.blocks, copied), e) BY <1>13, <1>16
  <2> QED BY <2>2, <2>3, <2>4, <2>5, <2>6 DEF Shares
<1>21. Split(w, x, y) BY <1>4, <1>8, <1>11, <1>12, <1>14, <1>19, <1>20, SplitIs
<1> QED BY <1>4, <1>21 DEF r

\* The first part of a bundle, with the copies of blocks that replicate_blocks
\* puts behind the payload.
LEMMA ReplicateLooks ==
  ASSUME NEW f \in Bundles6, NEW q \in Seq(Block6), NEW at \in 1..Len(q), NEW z \in Block6, z.type = BLOCK_TYPE_PAYLOAD,
         f.blocks \in Seq(Block6), Changed(f.blocks, q, at, z), NEW after \in Seq(Block6),
         NEW flags, NEW adu, NEW offset, Looks(f, flags, adu, offset, f.blocks)
  PROVE  LET copies == OnlyThose(after, {block \in ToSet(after) : bundle_block_must_be_replicated(block)})
         IN  \E y \in Block6 :
               /\ y.type = BLOCK_TYPE_PAYLOAD /\ y.data = z.data
               /\ Looks(replicate_blocks(f, after), flags, adu, offset,
                        Append(Before(q, at), y) \o bundle_block_list_dup(copies))
<1> DEFINE copies == OnlyThose(after, {block \in ToSet(after) : bundle_block_must_be_replicated(block)})
    last == Len(f.blocks)
    value == ClearFlag(f.blocks[last].flags, BLOCK_LAST)
    s == [f.blocks EXCEPT ![last].flags = value]
    dup == bundle_block_list_dup(copies)
    blocks == s \o dup
    w == WithBlocks(f, blocks)
    y == [z EXCEPT !.flags = value]
<1>1. replicate_blocks(f, after) = IF copies = <<>> THEN f ELSE w BY Zenon DEF replicate_blocks, WithBlocks
<1>2. copies \in Seq(Block6) BY ChosenPlain
<1>3. dup \in Seq(Block6) /\ (copies = <<>> => dup = <<>>)
  <2> HIDE DEF copies
  <2>1. dup \in Seq(Block6) /\ DOMAIN dup = DOMAIN copies BY <1>2, DupIs
  <2> HIDE DEF dup
  <2>2. ASSUME copies = <<>> PROVE dup = <<>>
    <3>1. DOMAIN dup = {} BY <2>1, <2>2
    <3>2. Len(dup) = 0 BY <2>1, <3>1
    <3> QED BY <2>1, <3>2, EmptySeq
  <2> QED BY <2>1, <2>2
<1> HIDE DEF copies, dup
<1>4. last = at /\ f.blocks[at] = z /\ at \in Nat /\ at >= 1 /\ DOMAIN f.blocks = 1..at BY DEF Changed
<1>5. value \in Nat
  <2>1. z.flags \in Nat BY DEF Block6
  <2> QED BY <1>4, <2>1, FlagsNat
<1> HIDE DEF value
<1>6. y \in Block6 /\ y.type = BLOCK_TYPE_PAYLOAD /\ y.data = z.data BY <1>5 DEF Block6
<1>7. s = [f.blocks EXCEPT ![at] = y] BY <1>4
<1> HIDE DEF y, s
<1>8. s \in Seq(Block6) /\ Changed(s, q, at, y)
  <2>1. PICK t \in Seq(Block6) : t = f.blocks OBVIOUS
  <2>2. Len(t) = at /\ \A j \in 1..at : t[j] = IF j = at THEN z ELSE q[j] BY <2>1 DEF Changed
  <2>3. s = [j \in 1..at |-> IF j = at THEN y ELSE t[j]]
    <3>1. DOMAIN t = 1..at BY <1>4, <2>1
    <3>2. [t EXCEPT ![at] = y] = [j \in DOMAIN t |-> IF j = at THEN y ELSE t[j]] OBVIOUS
    <3> QED BY <1>7, <2>1, <3>1, <3>2
  <2>4. \A j \in 1..at : t[j] \in Block6 BY <2>2
  <2>5. s \in Seq(Block6) /\ Len(s) = at BY <1>4, <1>6, <2>3, <2>4
  <2>6. \A j \in 1..at : s[j] = IF j = at THEN y ELSE q[j] BY <2>2, <2>3
  <2> QED BY <2>5, <2>6 DEF Changed
<1>9. s = Append(Before(q, at), y) BY <1>6, <1>8, PutLast, Zenon
<1>10. f.blocks = Append(Before(q, at), z) BY PutLast, Zenon
<1>11. CASE copies = <<>>
  <2>1. f.blocks \o dup = f.blocks
    <3>1. PICK t \in Seq(Block6) : t = f.blocks OBVIOUS
    <3>2. t \o <<>> = t OBVIOUS
    <3> QED BY <1>3, <1>11, <3>1, <3>2
  <2>2. Looks(replicate_blocks(f, after), flags, adu, offset, Append(Before(q, at), z) \o dup) BY <1>1, <1>10, <1>11, <2>1
  <2> QED BY <2>2 DEF dup, copies
<1>12. CASE copies # <<>>
  <2>1. Looks(w, f.proc_flags, f.total_adu_length, f.fragment_offset, blocks) BY Looks6, Zenon
  <2>2. Looks(replicate_blocks(f, after), flags, adu, offset, s \o dup)
    <3> HIDE DEF w
    <3> QED BY <1>1, <1>12, <2>1 DEF Looks
  <2>3. Looks(replicate_blocks(f, after), flags, adu, offset, Append(Before(q, at), y) \o dup) BY <1>9, <2>2
  <2> QED BY <1>6, <2>3 DEF dup, copies
<1> QED BY <1>11, <1>12

\* The first part, before blocks are copied to it: the blocks up to the payload.
LEMMA UptoPayload ==
  ASSUME NEW w \in Bundles, w \in Bundles6, NEW n \in Nat, n <= Len(Payload(w)), NEW at, at = PayloadAt(w)
  PROVE  LET f == [Shortened(w, n) EXCEPT
                    !.blocks = [SubSeq(Shortened(w, n).blocks, 1, at) EXCEPT ![at].flags = SetFlag(@, BLOCK_LAST)]]
         IN  \E z \in Block6 :
               /\ z.type = BLOCK_TYPE_PAYLOAD /\ z.data = SubSeq(Payload(w), 1, n)
               /\ f \in Bundles6 /\ f.blocks \in Seq(Block6) /\ Changed(f.blocks, w.blocks, at, z)
               /\ Looks(f, SetFlag(w.proc_flags, IS_FRAGMENT), w.total_adu_length, w.fragment_offset, f.blocks)
<1> DEFINE short == Shortened(w, n)
    s == SubSeq(short.blocks, 1, at)
    blocks == [s EXCEPT ![at].flags = SetFlag(@, BLOCK_LAST)]
    f == [short EXCEPT !.blocks = [SubSeq(short.blocks, 1, at) EXCEPT ![at].flags = SetFlag(@, BLOCK_LAST)]]
<1>1. Kind(w, Block6) /\ w.blocks \in Seq(Block6) BY DEF Kind, Bundles6
<1>2. PICK y \in Block6 :
        /\ y.type = BLOCK_TYPE_PAYLOAD /\ y.data = SubSeq(Payload(w), 1, n)
        /\ Looks(short, SetFlag(w.proc_flags, IS_FRAGMENT), w.total_adu_length, w.fragment_offset, [w.blocks EXCEPT ![at] = y])
  BY <1>1, ShortenedLooks
<1>3. PICK q \in Seq(Block6) : q = w.blocks BY <1>1
<1>4. at \in 1..Len(q) /\ at \in Nat /\ at >= 1 /\ at <= Len(q) /\ Len(q) \in Nat
  <2>1. at \in DOMAIN w.blocks BY PayloadIs
  <2> QED BY <1>3, <2>1
<1>5. short \in Bundles6 BY ShortenedIs
<1>6. f = WithBlocks(short, blocks) BY Zenon DEF WithBlocks
<1> HIDE DEF short
<1>7. short.blocks = [q EXCEPT ![at] = y] BY <1>2, <1>3 DEF Looks
<1>8. s = [j \in 1..at |-> IF j = at THEN y ELSE q[j]]
  <2> DEFINE t == [q EXCEPT ![at] = y]
  <2>1. t = [j \in 1..Len(q) |-> IF j = at THEN y ELSE q[j]] OBVIOUS
  <2>2. \A j \in 1..Len(q) : q[j] \in Block6 OBVIOUS
  <2>3. t \in Seq(Block6) /\ Len(t) = Len(q) BY <1>4, <2>1, <2>2
  <2>4. \A j \in 1..at : t[j] = IF j = at THEN y ELSE q[j]
    <3>1. \A j \in 1..at : j \in 1..Len(q) BY <1>4
    <3> QED BY <2>1, <3>1
  <2> HIDE DEF t
  <2>5. SubSeq(t, 1, at) = [i \in 1..at |-> t[i]] BY <1>4, <2>3
  <2>6. s = SubSeq(t, 1, at) BY <1>7 DEF t
  <2> QED BY <2>4, <2>5, <2>6
<1> HIDE DEF s
<1> DEFINE z == [y EXCEPT !.flags = SetFlag(y.flags, BLOCK_LAST)]
<1>9. z \in Block6 /\ z.type = BLOCK_TYPE_PAYLOAD /\ z.data = y.data
  <2>1. y.flags \in Nat BY DEF Block6
  <2> DEFINE v == SetFlag(y.flags, BLOCK_LAST)
  <2>2. v \in Nat BY <2>1, FlagsNat
  <2> HIDE DEF v
  <2>3. [y EXCEPT !.flags = v] \in Block6 /\ [y EXCEPT !.flags = v].type = y.type /\ [y EXCEPT !.flags = v].data = y.data
    BY <2>2 DEF Block6
  <2> QED BY <1>2, <2>3 DEF v
<1>10. s[at] = y /\ at \in DOMAIN s BY <1>4, <1>8
<1>11. blocks = [s EXCEPT ![at] = z] BY <1>10
<1> HIDE DEF z, blocks
<1>12. blocks \in Seq(Block6) /\ Changed(blocks, q, at, z)
  <2>1. blocks = [j \in 1..at |-> IF j = at THEN z ELSE q[j]] BY <1>8, <1>11
  <2>2. \A j \in 1..at : j \in 1..Len(q) BY <1>4
  <2>3. \A j \in 1..at : q[j] \in Block6 BY <2>2
  <2>4. blocks \in Seq(Block6) /\ Len(blocks) = at BY <1>4, <1>9, <2>1, <2>3
  <2> QED BY <2>1, <2>4 DEF Changed
<1>13. f \in Bundles6 /\ f.blocks = blocks
  <2> HIDE DEF f
  <2> QED BY <1>5, <1>6, <1>12, Fields6
<1>14. Looks(f, short.proc_flags, short.total_adu_length, short.fragment_offset, blocks) BY <1>5, <1>6, Looks6, Zenon
<1> HIDE DEF f
<1>15. Looks(f, SetFlag(w.proc_flags, IS_FRAGMENT), w.total_adu_length, w.fragment_offset, f.blocks) BY <1>2, <1>13, <1>14 DEF Looks
<1>16. f \in Bundles6 /\ f.blocks \in Seq(Block6) /\ Changed(f.blocks, w.blocks, at, z) BY <1>3, <1>12, <1>13
<1>17. \E x \in Block6 :
               /\ x.type = BLOCK_TYPE_PAYLOAD /\ x.data = SubSeq(Payload(w), 1, n)
               /\ f \in Bundles6 /\ f.blocks \in Seq(Block6) /\ Changed(f.blocks, w.blocks, at, x)
               /\ Looks(f, SetFlag(w.proc_flags, IS_FRAGMENT), w.total_adu_length, w.fragment_offset, f.blocks)
  BY <1>2, <1>9, <1>15, <1>16
<1> QED BY <1>17, Zenon DEF f, short

\* bundle6_fragment_bundle
LEMMA Cut6Splits ==
  ASSUME NEW w \in Bundles, w \in Bundles6, IsFragment(w.proc_flags), OnePayload(w), NEW max \in Int,
         bundle6_fragment_bundle(w, max).result = "cut"
  PROVE  Split(w, bundle6_fragment_bundle(w, max).first, bundle6_fragment_bundle(w, max).rest)
<1> DEFINE n == max - bundle6_get_first_fragment_min_size(w)
    at == PayloadAt(w)
    after == SubSeq(w.blocks, at + 1, Len(w.blocks))
    short == Shortened(w, n)
    upto == SubSeq(short.blocks, 1, at)
    first == [short EXCEPT !.blocks = [upto EXCEPT ![at].flags = SetFlag(@, BLOCK_LAST)]]
    pl == [type |-> BLOCK_TYPE_PAYLOAD, flags |-> w.blocks[at].flags,
           eid_refs |-> <<>>, data |-> Rest(w, n)]
    list == <<pl>> \o after
    rest == [bundlefragmenter_create_new_fragment(w) EXCEPT
               !.blocks = list, !.fragment_offset = @ + n]
    made == replicate_blocks(first, after)
    none == n < 0 \/ n >= Len(Payload(w))
    dies == n = 0 \/ \E i \in 1..(at - 1) : bundle_block_must_be_replicated(w.blocks[i])
    r == bundle6_fragment_bundle(w, max)
    x == bundle_recalculate_header_length(made)
    y == bundle_recalculate_header_length(rest)
    u == Before(w.blocks, at)
    v == After(w.blocks, at)
    T == {block \in ToSet(v) : bundle_block_must_be_replicated(block)}
    copies == OnlyThose(v, T)
    dup == bundle_block_list_dup(copies)
<1>1. r = IF none THEN NoCut("same", w) ELSE IF dies THEN NoCut("crash", w) ELSE Cut(made, rest)
  BY Zenon DEF bundle6_fragment_bundle
<1>2. after = v BY DEF After
<1>3. n \in Int
  <2>1. w.version = 6 BY DEF Bundles6
  <2>2. bundle_get_first_fragment_min_size(w) \in Nat BY SizesNat
  <2>3. bundle6_get_first_fragment_min_size(w) \in Nat BY <2>1, <2>2 DEF bundle_get_first_fragment_min_size
  <2> QED BY <2>3
<1> HIDE DEF n
<1>4. n \in Nat /\ n <= Len(Payload(w)) /\ ~dies /\ r.first = x /\ r.rest = y
  <2>1. r.result = "cut" OBVIOUS
  <2> HIDE DEF r, made, rest, dies
  <2>2. NoCut("same", w).result # "cut" /\ NoCut("crash", w).result # "cut" BY DEF NoCut
  <2>3. ~none /\ ~dies /\ r = Cut(made, rest) BY <1>1, <2>1, <2>2
  <2>4. Payload(w) \in Seq(Nat) BY PayloadIs
  <2>5. Len(Payload(w)) \in Nat BY <2>4
  <2> QED BY <1>3, <2>3, <2>5 DEF Cut
<1> HIDE DEF r
<1>5. Kind(w, Block6) /\ w.blocks \in Seq(Block6) BY DEF Kind, Bundles6
<1>6. at \in DOMAIN w.blocks /\ w.blocks[at].type = BLOCK_TYPE_PAYLOAD BY PayloadIs
<1>7. u \in Seq(Block6) /\ v \in Seq(Block6) /\ Plain(u) /\ Plain(v) /\ w.blocks = Append(u, w.blocks[at]) \o v
  BY <1>5, <1>6, BlocksOfBundle
<1>8. PICK z \in Block6 :
        /\ z.type = BLOCK_TYPE_PAYLOAD /\ z.data = SubSeq(Payload(w), 1, n)
        /\ first \in Bundles6 /\ first.blocks \in Seq(Block6) /\ Changed(first.blocks, w.blocks, at, z)
        /\ Looks(first, SetFlag(w.proc_flags, IS_FRAGMENT), w.total_adu_length, w.fragment_offset, first.blocks)
  BY <1>4, UptoPayload, Zenon
<1>9. \A i \in DOMAIN u : ~bundle_block_must_be_replicated(u[i])
  <2>1. at \in 1..Len(w.blocks) BY <1>5, <1>6
  <2>2. Len(u) = at - 1 /\ \A j \in 1..(at - 1) : u[j] = w.blocks[j] BY <1>5, <2>1, SplitAt
  <2>3. DOMAIN u = 1..(at - 1) BY <1>7, <2>2
  <2>4. \A i \in 1..(at - 1) : ~bundle_block_must_be_replicated(w.blocks[i]) BY <1>4
  <2> QED BY <2>2, <2>3, <2>4
<1> HIDE DEF none, dies
<1>10. PICK p \in Block6 :
         /\ p.type = BLOCK_TYPE_PAYLOAD /\ p.data = z.data
         /\ Looks(made, SetFlag(w.proc_flags, IS_FRAGMENT), w.total_adu_length, w.fragment_offset, Append(u, p) \o dup)
  <2>1. PICK q \in Seq(Block6) : q = w.blocks BY <1>5
  <2>2. at \in 1..Len(q) BY <1>6, <2>1
  <2>3. Changed(first.blocks, q, at, z) BY <1>8, <2>1
  <2> DEFINE flags == SetFlag(w.proc_flags, IS_FRAGMENT)
  <2>4. Looks(first, flags, w.total_adu_length, w.fragment_offset, first.blocks) BY <1>8
  <2>5. first \in Bundles6 /\ first.blocks \in Seq(Block6) BY <1>8
  <2> HIDE DEF flags, first, at
  <2>6. \E e \in Block6 :
               /\ e.type = BLOCK_TYPE_PAYLOAD /\ e.data = z.data
               /\ Looks(replicate_blocks(first, v), flags, w.total_adu_length, w.fragment_offset,
                        Append(Before(q, at), e) \o dup)
    <3> HIDE DEF v
    <3> QED BY <1>7, <1>8, <2>2, <2>3, <2>4, <2>5, ReplicateLooks, Zenon
  <2> QED BY <1>2, <2>1, <2>6, Zenon DEF flags, made, u
<1> HIDE DEF u, v, copies, at
<1>11. /\ dup \in Seq(Block6) /\ Plain(dup)
       /\ \A e : OfExtension(e) => Copies(dup, e) = IF HAS_FLAG(e[2], BLOCK_REPLICATE) THEN Copies(v, e) ELSE 0
  <2>1. \A b \in ToSet(v) : Extension(b)
    <3>1. ToSet(v) = {v[i] : i \in DOMAIN v} BY DEF ToSet
    <3> QED BY <1>7, <3>1 DEF Plain
  <2>2. copies \in Seq(Block6) /\ Plain(copies)
    <3> HIDE DEF T
    <3> QED BY <1>7, <2>1, ChosenPlain DEF copies
  <2>3. dup \in Seq(Block6) /\ Plain(dup) /\ \A e : Copies(dup, e) = Copies(copies, e) BY <2>2, DupContent
  <2>4. \A b \in ToSet(v) : b \in T <=> Extension(b) /\ bundle_block_must_be_replicated(b) BY <2>1
  <2> HIDE DEF T
  <2>5. ASSUME NEW e, OfExtension(e) PROVE Copies(copies, e) = IF HAS_FLAG(e[2], BLOCK_REPLICATE) THEN Copies(v, e) ELSE 0
    BY <1>7, <2>4, <2>5, ChosenCopies DEF copies
  <2> QED BY <2>3, <2>5
<1>12. pl \in Block6 /\ pl.type = BLOCK_TYPE_PAYLOAD /\ pl.data = Rest(w, n)
  <2>1. w.blocks[at] \in Block6 BY <1>5, <1>6
  <2>2. w.blocks[at].flags \in Nat BY <2>1 DEF Block6
  <2>3. Rest(w, n) \in Seq(Nat) BY <1>4, RestIs
  <2>4. <<>> \in Seq(Eid6) OBVIOUS
  <2>5. BLOCK_TYPE_PAYLOAD \in Nat BY DEF BLOCK_TYPE_PAYLOAD
  <2> QED BY <2>2, <2>3, <2>4, <2>5 DEF Block6
<1> HIDE DEF dup, pl, T
<1> DEFINE nil == <<>>
<1>13. nil \in Seq(Block6) /\ Plain(nil) /\ \A e : Copies(nil, e) = 0
  <2>1. \A e : Copies(<<>>, e) = 0 BY CopiesAppend
  <2> QED BY <2>1 DEF Plain
<1>14. list = Append(nil, pl) \o v /\ list \in Seq(Block6)
  <2>1. Append(<<>>, pl) = <<pl>> BY <1>12
  <2>2. <<pl>> \in Seq(Block6) BY <1>12
  <2> DEFINE t == <<pl>>
  <2> HIDE DEF t
  <2>3. t \o v \in Seq(Block6) BY <1>7, <2>2 DEF t
  <2> QED BY <1>2, <2>1, <2>3 DEF t
<1> HIDE DEF nil, after
<1>15. Either(made) /\ Either(rest)
  <2>1. Either(rest)
    <3> HIDE DEF list
    <3>1. (w \in Bundles6 /\ list \in Seq(Block6)) \/ (w \in Bundles7 /\ list \in Seq(Block7)) BY <1>14
    <3> QED BY <1>4, <3>1, NewFragment, Zenon
  <2>2. made \in Bundles6
    <3>1. first \in Bundles6 /\ Len(first.blocks) > 0
      <4> HIDE DEF first
      <4>1. Len(first.blocks) = at BY <1>8 DEF Changed
      <4>2. at >= 1 BY <1>5, <1>6
      <4> QED BY <1>8, <4>1, <4>2
    <3>2. after \in Seq(Block6) BY <1>2, <1>7
    <3> HIDE DEF first
    <3> QED BY <3>1, <3>2, ReplicateIs
  <2> HIDE DEF rest, made
  <2> QED BY <2>1, <2>2 DEF Either
<1>16. Looks(x, SetFlag(w.proc_flags, IS_FRAGMENT), w.total_adu_length, w.fragment_offset, Append(u, p) \o dup)
  <2> DEFINE bx == Append(u, p) \o dup
  <2>1. Looks(made, SetFlag(w.proc_flags, IS_FRAGMENT), w.total_adu_length, w.fragment_offset, bx) BY <1>10
  <2> HIDE DEF made, bx
  <2>2. Looks(x, SetFlag(w.proc_flags, IS_FRAGMENT), w.total_adu_length, w.fragment_offset, bx) BY <1>15, <2>1, RecalculateLooks
  <2> QED BY <2>2 DEF bx
<1>17. Looks(y, SetFlag(w.proc_flags, IS_FRAGMENT), TotalOf(w), w.fragment_offset + n, list)
  <2> HIDE DEF list
  <2>1. Looks(rest, SetFlag(w.proc_flags, IS_FRAGMENT), TotalOf(w), w.fragment_offset + n, list) BY NewFragmentLooks, Zenon
  <2> HIDE DEF rest
  <2> QED BY <1>15, <2>1, RecalculateLooks
<1> HIDE DEF list, x, y, rest, made
<1>18. Parted(x, Block6, u, p, dup) /\ Parted(y, Block6, nil, pl, v)
  <2>1. x.blocks = Append(u, p) \o dup /\ y.blocks = Append(nil, pl) \o v BY <1>14, <1>16, <1>17 DEF Looks
  <2> QED BY <1>7, <1>10, <1>11, <1>12, <1>13, <2>1 DEF Parted
<1>19. OnePayload(x) /\ Payload(x) = p.data /\ OnePayload(y) /\ Payload(y) = pl.data BY <1>18, PartedPayload
<1>20. ASSUME NEW e, OfExtension(e) PROVE Shares(e, w, x, y)
  <2>1. w.blocks[at] \in Block6 BY <1>5, <1>6
  <2>2. Copies(w.blocks, e) = Copies(u, e) + Copies(v, e) /\ Copies(u, e) \in Nat /\ Copies(v, e) \in Nat
    <3>1. Parted(w, Block6, u, w.blocks[at], v) BY <1>6, <1>7, <2>1 DEF Parted
    <3> QED BY <1>20, <3>1, PartedCopies
  <2>3. Copies(x.blocks, e) = Copies(u, e) + Copies(dup, e) BY <1>18, <1>20, PartedCopies
  <2>4. Copies(y.blocks, e) = Copies(nil, e) + Copies(v, e) BY <1>18, <1>20, PartedCopies
  <2>5. Copies(nil, e) = 0 /\ Copies(dup, e) = IF HAS_FLAG(e[2], BLOCK_REPLICATE) THEN Copies(v, e) ELSE 0 BY <1>11, <1>13, <1>20
  <2>6. HAS_FLAG(e[2], BLOCK_REPLICATE) => Copies(u, e) = 0
    <3>1. ASSUME HAS_FLAG(e[2], BLOCK_REPLICATE) PROVE Copies(u, e) = 0
      <4>1. \A b : Content(b) = e => e[2] = b.flags BY DEF Content
      <4>2. \A i \in DOMAIN u : Content(u[i]) # e BY <1>9, <3>1, <4>1 DEF bundle_block_must_be_replicated
      <4> QED BY <1>7, <4>2, CopiesIs
    <3> QED BY <3>1
  <2> QED BY <2>2, <2>3, <2>4, <2>5, <2>6 DEF Shares
<1>21. Split(w, x, y) BY <1>4, <1>8, <1>10, <1>12, <1>16, <1>17, <1>19, <1>20, SplitIs
<1> QED BY <1>4, <1>21 DEF r

\* bundlefragmenter_fragment_bundle
LEMMA CutSplits ==
  ASSUME NEW w \in Bundles, IsFragment(w.proc_flags), OnePayload(w), NEW max \in Int,
         bundlefragmenter_fragment_bundle(w, max).result = "cut"
  PROVE  Split(w, bundlefragmenter_fragment_bundle(w, max).first, bundlefragmenter_fragment_bundle(w, max).rest)
<1>1. CASE w.version = 6
  <2>1. w \in Bundles6 BY <1>1 DEF Bundles, Bundles7
  <2>2. bundlefragmenter_fragment_bundle(w, max) = bundle6_fragment_bundle(w, max) BY <1>1 DEF bundlefragmenter_fragment_bundle
  <2> QED BY <2>1, <2>2, Cut6Splits
<1>2. CASE w.version # 6
  <2>1. w \in Bundles7 BY <1>2 DEF Bundles, Bundles6
  <2>2. bundlefragmenter_fragment_bundle(w, max) = bundle7_fragment_bundle(w, max) BY <1>2 DEF bundlefragmenter_fragment_bundle
  <2> QED BY <2>1, <2>2, Cut7Splits
<1> QED BY <1>1, <1>2

\* ---- All fragments of a bundle
\* x is a fragment of b, n bytes behind its begin.
Placed(b, x, n) ==
  IsFragment(x.proc_flags) /\ x.total_adu_length = TotalOf(b) /\ x.fragment_offset = b.fragment_offset + n

\* The blocks with the contents e of b that the fragments f have, and the rest w.
Covered(e, b, f, w) ==
  IF HAS_FLAG(e[2], BLOCK_REPLICATE)
  THEN /\ \A k \in DOMAIN f : Copies(f[k].blocks, e) = Copies(b.blocks, e)
       /\ Copies(w.blocks, e) = Copies(b.blocks, e)
  ELSE Copies(BlocksOf(f), e) + Copies(w.blocks, e) = Copies(b.blocks, e)

\* The fragments f and the rest w, from which more can be cut, are b.
Tiles(b, f, w) ==
  /\ Payloads(f) \o Payload(w) = Payload(b)
  /\ \A k \in DOMAIN f : OnePayload(f[k]) /\ Placed(b, f[k], Len(Payloads(SubSeq(f, 1, k - 1))))
  /\ OnePayload(w) /\ Placed(b, w, Len(Payloads(f)))
  /\ \A e : OfExtension(e) => Covered(e, b, f, w)

AnyBlock == Block6 \cup Block7

\* The payloads and the blocks of one more bundle.
LEMMA PayloadsIs ==
  ASSUME NEW f \in Seq(Bundles), NEW x \in Bundles
  PROVE  /\ Payloads(<<>>) = <<>> /\ BlocksOf(<<>>) = <<>>
         /\ Payloads(f) \in Seq(Nat) /\ BlocksOf(f) \in Seq(AnyBlock) /\ x.blocks \in Seq(AnyBlock)
         /\ Payloads(Append(f, x)) = Payloads(f) \o Payload(x)
         /\ BlocksOf(Append(f, x)) = BlocksOf(f) \o x.blocks
<1> DEFINE g == [b \in Bundles |-> Payload(b)]
    h == [b \in Bundles |-> b.blocks]
    p == [k \in DOMAIN f |-> g[f[k]]]
    q == [k \in DOMAIN f |-> h[f[k]]]
    r == Append(f, x)
<1>0. \A b \in Bundles : b.blocks \in Seq(AnyBlock)
  <2> TAKE b \in Bundles
  <2>1. b.blocks \in Seq(Block6) \/ b.blocks \in Seq(Block7) BY DEF Bundles, Bundles6, Bundles7
  <2>2. \A i \in DOMAIN b.blocks : b.blocks[i] \in AnyBlock BY <2>1 DEF AnyBlock
  <2>3. \E s : s = b.blocks /\ ((s \in Seq(Block6)) \/ (s \in Seq(Block7))) BY <2>1
  <2>4. PICK s : s = b.blocks /\ ((s \in Seq(Block6)) \/ (s \in Seq(Block7))) BY <2>3
  <2>5. \A S, U : \A t \in Seq(S) : (\A i \in DOMAIN t : t[i] \in U) => t \in Seq(U) OBVIOUS
  <2> QED BY <2>2, <2>4, <2>5
<1>1. g \in [Bundles -> Seq(Nat)] /\ h \in [Bundles -> Seq(AnyBlock)] BY <1>0, PayloadIs
<1>2. \A b \in Bundles : g[b] = Payload(b) /\ h[b] = b.blocks OBVIOUS
<1> HIDE DEF g, h
<1>3. r \in Seq(Bundles) /\ (\A k \in DOMAIN f : f[k] \in Bundles) /\ \A k \in DOMAIN r : r[k] \in Bundles
  <2>1. r \in Seq(Bundles) OBVIOUS
  <2> HIDE DEF r
  <2> QED BY <2>1
<1>4. [k \in DOMAIN f |-> Payload(f[k])] = p /\ [k \in DOMAIN f |-> f[k].blocks] = q BY <1>2, <1>3
<1>5. /\ [k \in DOMAIN r |-> Payload(r[k])] = [k \in DOMAIN r |-> g[r[k]]]
      /\ [k \in DOMAIN r |-> r[k].blocks] = [k \in DOMAIN r |-> h[r[k]]]
  <2> HIDE DEF r
  <2> QED BY <1>2, <1>3
<1>e. Mapped(f, g) = p /\ Mapped(f, h) = q /\ Mapped(r, g) = [k \in DOMAIN r |-> g[r[k]]]
      /\ Mapped(r, h) = [k \in DOMAIN r |-> h[r[k]]] BY Zenon DEF Mapped
<1> HIDE DEF p, q
<1>m. /\ Mapped(f, g) \in Seq(Seq(Nat)) /\ MappedNext(f, x, g)
      /\ Mapped(f, h) \in Seq(Seq(AnyBlock)) /\ MappedNext(f, x, h)
  BY <1>1, MapAppend
<1>6. p \in Seq(Seq(Nat)) /\ [k \in DOMAIN r |-> g[r[k]]] = Append(p, g[x]) BY <1>e, <1>m DEF MappedNext
<1>7. q \in Seq(Seq(AnyBlock)) /\ [k \in DOMAIN r |-> h[r[k]]] = Append(q, h[x]) BY <1>e, <1>m DEF MappedNext
<1> HIDE DEF r
<1>8. Payload(x) \in Seq(Nat) /\ x.blocks \in Seq(AnyBlock) BY <1>0, PayloadIs
<1>9. FlattenSeq(p) \in Seq(Nat) /\ FlattenSeq(q) \in Seq(AnyBlock) BY <1>6, <1>7, FlattenSeqIs
<1>10. FlattenSeq(<<>>) = <<>> /\ FlattenSeq(Append(p, Payload(x))) = FlattenSeq(p) \o Payload(x) BY <1>6, <1>8, FlattenAppend
<1>11. FlattenSeq(Append(q, x.blocks)) = FlattenSeq(q) \o x.blocks BY <1>7, <1>8, FlattenAppend
<1>12. Payloads(f) = FlattenSeq(p) /\ BlocksOf(f) = FlattenSeq(q) BY <1>4 DEF Payloads, BlocksOf
<1>13. Payloads(r) = FlattenSeq(Append(p, Payload(x))) /\ BlocksOf(r) = FlattenSeq(Append(q, x.blocks))
  BY <1>2, <1>5, <1>6, <1>7 DEF Payloads, BlocksOf
<1>14. Payloads(<<>>) = <<>> /\ BlocksOf(<<>>) = <<>>
  <2>1. [k \in DOMAIN <<>> |-> Payload(<<>>[k])] = <<>> /\ [k \in DOMAIN <<>> |-> <<>>[k].blocks] = <<>> OBVIOUS
  <2> QED BY <1>10, <2>1 DEF Payloads, BlocksOf
<1> QED BY <1>8, <1>9, <1>10, <1>11, <1>12, <1>13, <1>14 DEF r

\* bundlefragmenter_initialize_first_fragment: nothing is cut yet.
LEMMA FirstTiles ==
  ASSUME NEW b \in Bundles, OnePayload(b)
  PROVE  Tiles(b, <<>>, bundlefragmenter_initialize_first_fragment(b))
<1> DEFINE blocks == bundle_block_list_dup(b.blocks)
    g == [bundlefragmenter_create_new_fragment(b) EXCEPT !.blocks = blocks]
    w == bundlefragmenter_initialize_first_fragment(b)
    nil == <<>>
<1>1. PICK S : (S = Block6 \/ S = Block7) /\ b.blocks \in Seq(S)
               /\ ((b \in Bundles6 /\ S = Block6) \/ (b \in Bundles7 /\ S = Block7))
  <2>1. b \in Bundles6 => b.blocks \in Seq(Block6) BY DEF Bundles6
  <2>2. b \in Bundles7 => b.blocks \in Seq(Block7) BY DEF Bundles7
  <2> QED BY <2>1, <2>2 DEF Bundles
<1>2. /\ blocks \in Seq(S) /\ DOMAIN blocks = DOMAIN b.blocks
      /\ (\A i \in DOMAIN b.blocks : Content(blocks[i]) = Content(b.blocks[i]))
      /\ \A e : Copies(blocks, e) = Copies(b.blocks, e)
  BY <1>1, DupContent
<1>3. \A i \in DOMAIN blocks : blocks[i].type = b.blocks[i].type /\ blocks[i].data = b.blocks[i].data
  <2>1. \A p, q : Content(p) = Content(q) => p.type = q.type /\ p.data = q.data BY DEF Content
  <2> QED BY <1>2, <2>1
<1> HIDE DEF blocks
<1>4. Either(g)
  <2>1. 0 \in Nat OBVIOUS
  <2>2. (b \in Bundles6 /\ blocks \in Seq(Block6)) \/ (b \in Bundles7 /\ blocks \in Seq(Block7)) BY <1>1, <1>2
  <2> QED BY <2>1, <2>2, NewFragment, Zenon
<1>5. Looks(g, SetFlag(b.proc_flags, IS_FRAGMENT), TotalOf(b), b.fragment_offset, blocks) BY NewFragmentLooks, Zenon
<1>6. w = bundle_recalculate_header_length(g) BY Zenon DEF bundlefragmenter_initialize_first_fragment, blocks
<1> HIDE DEF g
<1>7. Looks(w, SetFlag(b.proc_flags, IS_FRAGMENT), TotalOf(b), b.fragment_offset, blocks) BY <1>4, <1>5, <1>6, RecalculateLooks
<1>8. w \in Bundles BY FirstFragmentIs
<1> HIDE DEF w
<1>9. PayloadAt(w) = PayloadAt(b) /\ \A i \in DOMAIN w.blocks : ~Extension(w.blocks[i]) => i = PayloadAt(b)
  <2>1. w.blocks = blocks BY <1>7 DEF Looks
  <2>2. PayloadAt(w) \in DOMAIN w.blocks /\ w.blocks[PayloadAt(w)].type = BLOCK_TYPE_PAYLOAD BY <1>8, PayloadIs
  <2>3. \A i \in DOMAIN w.blocks : ~Extension(w.blocks[i]) => i = PayloadAt(b) BY <1>2, <1>3, <2>1 DEF OnePayload, Extension
  <2> QED BY <2>2, <2>3 DEF Extension
<1>10. OnePayload(w) BY <1>9 DEF OnePayload
<1>11. Payload(w) = Payload(b)
  <2>1. PayloadAt(b) \in DOMAIN b.blocks BY PayloadIs
  <2> QED BY <1>2, <1>3, <1>7, <1>9, <2>1 DEF Payload, Looks
<1>12. b.fragment_offset \in Nat /\ b.proc_flags \in Nat BY DEF Bundles, Bundles6, Bundles7
<1>13. nil \in Seq(Bundles) /\ Payloads(nil) = <<>> /\ BlocksOf(nil) = <<>>
  <2>1. nil \in Seq(Bundles) OBVIOUS
  <2> QED BY <1>8, <2>1, PayloadsIs
<1>14. Placed(b, w, Len(Payloads(nil)))
  <2>1. Len(Payloads(nil)) = 0 BY <1>13
  <2>2. b.fragment_offset + 0 = b.fragment_offset BY <1>12
  <2>3. IsFragment(SetFlag(b.proc_flags, IS_FRAGMENT)) BY <1>12, FlagSet
  <2> QED BY <1>7, <2>1, <2>2, <2>3 DEF Placed, Looks
<1>15. Payloads(nil) \o Payload(w) = Payload(b)
  <2>1. Payload(w) \in Seq(Nat) BY <1>8, PayloadIs
  <2> DEFINE d == Payload(w)
  <2> HIDE DEF d
  <2>2. <<>> \o d = d BY <2>1 DEF d
  <2> QED BY <1>11, <1>13, <2>2 DEF d
<1>16. ASSUME NEW e PROVE Covered(e, b, nil, w)
  <2>1. Copies(w.blocks, e) = Copies(b.blocks, e) BY <1>2, <1>7 DEF Looks
  <2>2. Copies(b.blocks, e) \in Nat BY <1>1, CopiesIs
  <2>3. Copies(BlocksOf(nil), e) = 0
    <3>1. Copies(<<>>, e) = 0 BY CopiesAppend
    <3> QED BY <1>13, <3>1
  <2>4. DOMAIN nil = {} OBVIOUS
  <2> HIDE DEF nil
  <2> QED BY <2>1, <2>2, <2>3, <2>4 DEF Covered
<1>17. DOMAIN nil = {} OBVIOUS
<1> HIDE DEF nil
<1>18. Tiles(b, nil, w) BY <1>10, <1>14, <1>15, <1>16, <1>17 DEF Tiles
<1> QED BY <1>18 DEF nil, w

\* One more fragment is cut from the rest.
LEMMA NextTiles ==
  ASSUME NEW b \in Bundles, NEW f \in Seq(Bundles), NEW w \in Bundles, NEW x \in Bundles, NEW y \in Bundles,
         Tiles(b, f, w), Split(w, x, y)
  PROVE  Tiles(b, Append(f, x), y)
<1> DEFINE r == Append(f, x)
    N == Len(f)
    at(k) == Len(Payloads(SubSeq(f, 1, k - 1)))
    rt(k) == Len(Payloads(SubSeq(r, 1, k - 1)))
<1>1. /\ DOMAIN r = DOMAIN f \cup {N + 1} /\ N + 1 \notin DOMAIN f /\ r[N + 1] = x /\ \A k \in DOMAIN f : r[k] = f[k]
      /\ (\A k \in DOMAIN f : SubSeq(r, 1, k - 1) = SubSeq(f, 1, k - 1)) /\ SubSeq(r, 1, (N + 1) - 1) = f
  <2>1. N \in Nat /\ (N + 1) - 1 = N OBVIOUS
  <2> QED BY <2>1, PrefixAppend
<1>2. /\ Payloads(f) \in Seq(Nat) /\ BlocksOf(f) \in Seq(AnyBlock) /\ x.blocks \in Seq(AnyBlock)
      /\ Payloads(r) = Payloads(f) \o Payload(x) /\ BlocksOf(r) = BlocksOf(f) \o x.blocks
  BY PayloadsIs
<1>3. \A k \in DOMAIN f : rt(k) = at(k) BY <1>1
<1>4. rt(N + 1) = Len(Payloads(f)) BY <1>1
<1>5. /\ Payloads(f) \o Payload(w) = Payload(b)
      /\ \A k \in DOMAIN f : OnePayload(f[k]) /\ Placed(b, f[k], at(k))
      /\ Placed(b, w, Len(Payloads(f)))
      /\ \A e : OfExtension(e) => Covered(e, b, f, w)
  BY DEF Tiles
<1> HIDE DEF r, N, at, rt
<1>6. /\ Payload(x) \o Payload(y) = Payload(w)
      /\ IsFragment(x.proc_flags) /\ x.total_adu_length = w.total_adu_length
      /\ IsFragment(y.proc_flags) /\ y.total_adu_length = w.total_adu_length
      /\ x.fragment_offset = w.fragment_offset /\ y.fragment_offset = w.fragment_offset + Len(Payload(x))
      /\ OnePayload(x) /\ OnePayload(y)
      /\ \A e : OfExtension(e) => Shares(e, w, x, y)
  BY DEF Split
<1>7. Payload(x) \in Seq(Nat) /\ Payload(y) \in Seq(Nat) /\ Len(Payload(x)) \in Nat /\ Len(Payloads(f)) \in Nat BY <1>2, PayloadIs
<1>8. Payloads(r) \o Payload(y) = Payload(b) /\ Len(Payloads(r)) = Len(Payloads(f)) + Len(Payload(x))
  <2>1. Grouped(Payloads(f), Payload(x), Payload(y)) /\ Len(Payloads(f) \o Payload(x)) = Len(Payloads(f)) + Len(Payload(x))
    BY <1>2, <1>7, ConcatGrouped
  <2> QED BY <1>2, <1>5, <1>6, <2>1 DEF Grouped
<1>9. Placed(b, x, rt(N + 1)) BY <1>4, <1>5, <1>6 DEF Placed
<1>10. Placed(b, y, Len(Payloads(r)))
  <2>1. b.fragment_offset \in Nat BY DEF Bundles, Bundles6, Bundles7
  <2> QED BY <1>5, <1>6, <1>7, <1>8, <2>1 DEF Placed
<1>11. ASSUME NEW e, OfExtension(e) PROVE Covered(e, b, r, y)
  <2>1. Covered(e, b, f, w) /\ Shares(e, w, x, y) BY <1>5, <1>6, <1>11
  <2>2. Copies(BlocksOf(r), e) = Copies(BlocksOf(f), e) + Copies(x.blocks, e)
    <3>1. Copies(BlocksOf(f) \o x.blocks, e) = Copies(BlocksOf(f), e) + Copies(x.blocks, e) BY <1>2, CopiesIs
    <3> QED BY <1>2, <3>1
  <2>3. Copies(BlocksOf(f), e) \in Nat /\ Copies(x.blocks, e) \in Nat /\ Copies(y.blocks, e) \in Nat
    <3>1. y.blocks \in Seq(AnyBlock) BY <1>2, PayloadsIs
    <3> QED BY <1>2, <3>1, CopiesIs
  <2>4. CASE HAS_FLAG(e[2], BLOCK_REPLICATE)
    <3>1. \A k \in DOMAIN f : Copies(f[k].blocks, e) = Copies(b.blocks, e) BY <2>1, <2>4 DEF Covered
    <3>2. Copies(x.blocks, e) = Copies(b.blocks, e) /\ Copies(y.blocks, e) = Copies(b.blocks, e) BY <2>1, <2>4 DEF Covered, Shares
    <3>3. \A k \in DOMAIN r : Copies(r[k].blocks, e) = Copies(b.blocks, e) BY <1>1, <3>1, <3>2
    <3> QED BY <2>4, <3>2, <3>3 DEF Covered
  <2>5. CASE ~HAS_FLAG(e[2], BLOCK_REPLICATE)
    <3>1. Copies(BlocksOf(f), e) + Copies(w.blocks, e) = Copies(b.blocks, e) BY <2>1, <2>5 DEF Covered
    <3>2. Copies(x.blocks, e) + Copies(y.blocks, e) = Copies(w.blocks, e) BY <2>1, <2>5 DEF Shares
    <3>3. Copies(BlocksOf(r), e) + Copies(y.blocks, e) = Copies(b.blocks, e) BY <2>2, <2>3, <3>1, <3>2
    <3> QED BY <2>5, <3>3 DEF Covered
  <2> QED BY <2>4, <2>5
<1>12. \A k \in DOMAIN r : OnePayload(r[k]) /\ Placed(b, r[k], rt(k)) BY <1>1, <1>3, <1>5, <1>6, <1>9
<1>13. Tiles(b, r, y) BY <1>6, <1>8, <1>10, <1>11, <1>12 DEF Tiles, rt
<1> QED BY <1>13 DEF r

\* The rest is the last fragment.
LEMMA TilesAll ==
  ASSUME NEW b \in Bundles, NEW f \in Seq(Bundles), NEW w \in Bundles, Tiles(b, f, w)
  PROVE  Tile(b, Append(f, w)) /\ \A k \in DOMAIN Append(f, w) : OnePayload(Append(f, w)[k])
<1> DEFINE r == Append(f, w)
    N == Len(f)
    rt(k) == Len(Payloads(SubSeq(r, 1, k - 1)))
<1>1. /\ DOMAIN r = DOMAIN f \cup {N + 1} /\ N + 1 \notin DOMAIN f /\ r[N + 1] = w /\ \A k \in DOMAIN f : r[k] = f[k]
      /\ (\A k \in DOMAIN f : SubSeq(r, 1, k - 1) = SubSeq(f, 1, k - 1)) /\ SubSeq(r, 1, (N + 1) - 1) = f
  <2>1. N \in Nat /\ (N + 1) - 1 = N OBVIOUS
  <2> QED BY <2>1, PrefixAppend
<1>2. /\ BlocksOf(f) \in Seq(AnyBlock) /\ w.blocks \in Seq(AnyBlock)
      /\ Payloads(r) = Payloads(f) \o Payload(w) /\ BlocksOf(r) = BlocksOf(f) \o w.blocks
  BY PayloadsIs
<1>3. rt(N + 1) = Len(Payloads(f)) /\ \A k \in DOMAIN f : rt(k) = Len(Payloads(SubSeq(f, 1, k - 1))) BY <1>1
<1> HIDE DEF r, N, rt
<1>4. \A k \in DOMAIN r : OnePayload(r[k]) /\ Placed(b, r[k], rt(k))
  <2>1. \A k \in DOMAIN f : OnePayload(f[k]) /\ Placed(b, f[k], Len(Payloads(SubSeq(f, 1, k - 1)))) BY DEF Tiles
  <2>2. OnePayload(w) /\ Placed(b, w, Len(Payloads(f))) BY DEF Tiles
  <2> QED BY <1>1, <1>3, <2>1, <2>2
<1>5. Payloads(r) = Payload(b) BY <1>2 DEF Tiles
<1>6. ASSUME NEW x, Extension(x)
      PROVE  IF bundle_block_must_be_replicated(x)
             THEN \A k \in DOMAIN r : Copies(r[k].blocks, Content(x)) = Copies(b.blocks, Content(x))
             ELSE Copies(BlocksOf(r), Content(x)) = Copies(b.blocks, Content(x))
  <2> DEFINE e == Content(x)
  <2>1. e[1] = x.type /\ e[2] = x.flags BY DEF Content
  <2>2. OfExtension(e) BY <1>6, <2>1 DEF OfExtension, Extension
  <2>3. bundle_block_must_be_replicated(x) <=> HAS_FLAG(e[2], BLOCK_REPLICATE) BY <2>1 DEF bundle_block_must_be_replicated
  <2> HIDE DEF e
  <2>4. Covered(e, b, f, w) BY <2>2 DEF Tiles
  <2>5. Copies(BlocksOf(r), e) = Copies(BlocksOf(f), e) + Copies(w.blocks, e)
    <3>1. Copies(BlocksOf(f) \o w.blocks, e) = Copies(BlocksOf(f), e) + Copies(w.blocks, e) BY <1>2, CopiesIs
    <3> QED BY <1>2, <3>1
  <2>6. CASE HAS_FLAG(e[2], BLOCK_REPLICATE)
    <3>1. \A k \in DOMAIN f : Copies(f[k].blocks, e) = Copies(b.blocks, e) BY <2>4, <2>6 DEF Covered
    <3>2. Copies(w.blocks, e) = Copies(b.blocks, e) BY <2>4, <2>6 DEF Covered
    <3> QED BY <1>1, <2>3, <2>6, <3>1, <3>2 DEF e
  <2>7. CASE ~HAS_FLAG(e[2], BLOCK_REPLICATE)
    <3>1. Copies(BlocksOf(f), e) + Copies(w.blocks, e) = Copies(b.blocks, e) BY <2>4, <2>7 DEF Covered
    <3> QED BY <2>3, <2>5, <2>7, <3>1 DEF e
  <2> QED BY <2>6, <2>7
<1>7. \A k \in DOMAIN r : IsFragment(r[k].proc_flags) /\ r[k].total_adu_length = TotalOf(b) /\ r[k].fragment_offset = b.fragment_offset + rt(k)
  BY <1>4 DEF Placed
<1>8. Tile(b, r) BY <1>5, <1>6, <1>7, Zenon DEF Tile, TotalOf, rt
<1> QED BY <1>4, <1>8 DEF r

\* The fragments of a bundle are bundles, one for each route, and with the rest
\* they are the bundle.
LEMMA CutBundleIs ==
  ASSUME NEW b \in Bundles, NEW routes \in Seq(GoodRoute), routes # <<>>
  PROVE  /\ CutBundle(b, routes) \in CutState
         /\ CutBundle(b, routes).result = "cut" => Len(CutBundle(b, routes).frags) = Len(routes) - 1
         /\ CutBundle(b, routes).result = "cut" /\ OnePayload(b) =>
              Tiles(b, CutBundle(b, routes).frags, CutBundle(b, routes).rest)
<1> DEFINE head(f) == IF f = 1 THEN bundle_get_first_fragment_min_size(b)
                      ELSE bundle_get_mid_fragment_min_size(b)
    next(a, r) == [result |-> r.result, rest |-> r.rest, frags |-> Append(a.frags, r.first)]
    one(a, f) == bundlefragmenter_fragment_bundle(a.rest, head(f) + routes[f].payload)
    cut(a, f) == IF a.result # "cut" THEN a ELSE CHOOSE x \in {next(a, r) : r \in {one(a, f)}} : TRUE
    base == [result |-> "cut", frags |-> <<>>, rest |-> bundlefragmenter_initialize_first_fragment(b)]
    s == [f \in 1..(Len(routes) - 1) |-> f]
    A == CutState
    P == [n \in Nat |-> {a \in A : a.result = "cut" => Len(a.frags) = n /\ (OnePayload(b) => Tiles(b, a.frags, a.rest))}]
<1>1. Len(routes) \in Nat /\ Len(routes) - 1 \in Nat OBVIOUS
<1>n. PICK N \in Nat : N = Len(s) /\ DOMAIN s = 1..N /\ N = Len(routes) - 1 BY <1>1
<1>b. base \in A
  <2>1. <<>> \in Seq(Bundles) OBVIOUS
  <2>2. bundlefragmenter_initialize_first_fragment(b) \in Bundles BY FirstFragmentIs
  <2>3. "cut" \in Results BY DEF Results
  <2> QED BY <2>1, <2>2, <2>3, Zenon DEF CutState
<1>2. ASSUME NEW a \in A, NEW f \in 1..N
      PROVE  cut(a, f) \in A /\ (a.result = "cut" => Len(cut(a, f).frags) = Len(a.frags) + 1)
                             /\ (a.result # "cut" => cut(a, f) = a)
                             /\ (a.result = "cut" /\ cut(a, f).result = "cut" /\ Tiles(b, a.frags, a.rest)
                                   => Tiles(b, cut(a, f).frags, cut(a, f).rest))
  <2> DEFINE z == head(f) + routes[f].payload
      r == one(a, f)
  <2>1. a.rest \in Bundles /\ a.frags \in Seq(Bundles) /\ a.result \in Results BY DEF CutState
  <2>2. z \in Int
    <3>1. head(f) \in Int BY SizesNat
    <3>2. routes[f] \in Route BY <1>n DEF GoodRoute
    <3>3. routes[f].payload \in Int BY <3>2 DEF Route
    <3> HIDE DEF head
    <3> QED BY <3>1, <3>3
  <2> HIDE DEF z
  <2>3. Cuts(r) BY <2>1, <2>2, CutIs DEF z
  <2>s. ASSUME Tiles(b, a.frags, a.rest), r.result = "cut" PROVE Split(a.rest, r.first, r.rest)
    <3>1. IsFragment(a.rest.proc_flags) /\ OnePayload(a.rest) BY <2>s DEF Tiles, Placed
    <3> QED BY <2>1, <2>2, <2>s, <3>1, CutSplits DEF z
  <2> HIDE DEF r
  <2>4. next(a, r) \in A /\ Len(next(a, r).frags) = Len(a.frags) + 1
    <3>1. Append(a.frags, r.first) \in Seq(Bundles) /\ Len(Append(a.frags, r.first)) = Len(a.frags) + 1
      BY <2>1, <2>3 DEF Cuts
    <3>2. r.result \in Results /\ r.rest \in Bundles BY <2>3 DEF Cuts
    <3> DEFINE t == Append(a.frags, r.first)
    <3> HIDE DEF t
    <3>3. [result |-> r.result, rest |-> r.rest, frags |-> t] \in CutState BY <3>1, <3>2, Zenon DEF CutState, t
    <3> QED BY <3>1, <3>3 DEF t
  <2>7. ASSUME Tiles(b, a.frags, a.rest), r.result = "cut" PROVE Tiles(b, next(a, r).frags, next(a, r).rest)
    <3>1. Tiles(b, Append(a.frags, r.first), r.rest) BY <2>1, <2>3, <2>s, <2>7, NextTiles DEF Cuts
    <3> QED BY <3>1
  <2>8. next(a, r).result = r.result OBVIOUS
  <2> HIDE DEF next
  <2>5. {next(a, y) : y \in {r}} = {next(a, r)} BY Zenon
  <2>6. cut(a, f) = IF a.result # "cut" THEN a ELSE next(a, r) BY <2>5, OneValue DEF r
  <2> HIDE DEF cut
  <2> QED BY <2>4, <2>6, <2>7, <2>8
<1> HIDE DEF cut
<1>3. \A n \in 1..N : s[n] = n BY <1>n
<1> DEFINE op(v, n) == cut(v, s[n])
    G == [z \in (1..N) \X A |-> op(z[2], z[1])]
    E(h) == h = [x \in SUBSET (DOMAIN s) |-> IF x = {} THEN base ELSE op(h[x \ {Max(x)}], Max(x))]
    g == CHOOSE h : E(h)
<1>f1. ASSUME NEW n \in 1..N, NEW v \in A PROVE op(v, n) \in A
  BY <1>2, <1>3
<1>f2. CutBundle(b, routes) = g[DOMAIN s] BY DEF CutBundle, With, cut, FoldLeft, MapThenFoldSet
<1> HIDE DEF op, A, s
<1>f3. G \in [(1..N) \X A -> A] /\ \A n \in 1..N : \A v \in A : G[<<n, v>>] = op(v, n) BY <1>f1
<1> HIDE DEF G
<1>f4. PICK h : Folds(h, N, A, base, G) BY <1>n, <1>b, <1>f3, FoldThere
<1>f5. E(h) BY <1>n, <1>f3, <1>f4 DEF Folds
<1>f6. E(g) BY <1>f5, Zenon DEF g
<1> HIDE DEF g
<1>f7. FoldOf(g, N, A, base, G) BY <1>n, <1>f3, <1>f6, Zenon DEF FoldOf, E
<1> HIDE DEF E
<1>f8. base \in P[0] /\ \A n \in 1..N : \A v \in A : v \in P[n - 1] => G[<<n, v>>] \in P[n]
  <2>1. base \in P[0]
    <3>1. Len(base.frags) = 0 OBVIOUS
    <3>2. OnePayload(b) => Tiles(b, base.frags, base.rest) BY FirstTiles
    <3> HIDE DEF base
    <3> QED BY <1>b, <3>1, <3>2
  <2>2. ASSUME NEW n \in 1..N, NEW v \in A, v \in P[n - 1] PROVE op(v, n) \in P[n]
    <3>1. op(v, n) = cut(v, n) BY <1>3 DEF op
    <3>2. n - 1 \in Nat /\ n \in Nat OBVIOUS
    <3>3. v.result = "cut" => Len(v.frags) = n - 1 /\ (OnePayload(b) => Tiles(b, v.frags, v.rest)) BY <2>2, <3>2
    <3>4. cut(v, n) \in A /\ (v.result = "cut" => Len(cut(v, n).frags) = n)
          /\ (v.result # "cut" => cut(v, n) = v)
          /\ (v.result = "cut" /\ cut(v, n).result = "cut" /\ OnePayload(b) => Tiles(b, cut(v, n).frags, cut(v, n).rest))
      BY <1>2, <3>2, <3>3
    <3> QED BY <3>1, <3>2, <3>4
  <2> HIDE DEF P, base
  <2> QED BY <1>f3, <2>1, <2>2
<1> HIDE DEF P
<1>f9. Leads(N, A, base, G, P) BY <1>b, <1>f3, <1>f8 DEF Leads
<1>f10. CutBundle(b, routes) \in A /\ CutBundle(b, routes) \in P[N] BY <1>n, <1>f2, <1>f7, <1>f9, FoldEnds
<1> QED BY <1>n, <1>f10 DEF A, P

\* ---- The inductive invariant, in parts
\* What each object takes from the capacity for priority k, and all of those
\* on a list or handed over.
Weight(a, k) == [x \in DOMAIN a.rb |-> IF a.rb[x].prio >= k THEN a.rb[x].size ELSE 0]
Taken(a, c, k) == SumOf(Weight(a, k), a.bundles[c]) + SumOf(Weight(a, k), a.handed[c])
Balanced(a) == \A c \in Contact \ a.over, k \in Prio : a.total[c] - a.left[c][k] = Taken(a, c, k)

\* The lists: an object is on a list once, none on that of a contact that is over.
Core(a) == /\ \A c \in a.over : a.bundles[c] = <<>>
           /\ \A c \in Contact : IsInjective(a.bundles[c])
           /\ Balanced(a)

\* Object x is on the lists of its contacts, or was handed over.
Listed(a, x) == \A c \in Contact \ a.over :
   /\ c \in ToSet(a.rb[x].contacts) => x \in ToSet(a.bundles[c]) \cup ToSet(a.handed[c])
   /\ x \in ToSet(a.bundles[c]) => c \in ToSet(a.rb[x].contacts)
Fits(a, X) == \A x \in DOMAIN a.rb : a.rb[x].live /\ x \notin X => Listed(a, x)
Off(a, x) == \A c \in Contact : x \notin ToSet(a.bundles[c])

\* A bundle that is routed has one live object, others have none.
Only(a, x) == \A y \in DOMAIN a.rb : a.rb[y].live /\ a.rb[y].id = a.rb[x].id => y = x
Unique(a) ==
  /\ \A x \in DOMAIN a.rb : a.rb[x].live => a.store[a.rb[x].id].status = "routed" /\ Only(a, x)
  /\ \A i \in DOMAIN a.store : a.store[i].status = "routed" =>
       \E x \in DOMAIN a.rb : a.rb[x].live /\ a.rb[x].id = i

\* A fragment is scheduled only when it has replaced its bundle, but for those
\* of the bundle p, which is being cut.
Active(e) == e.status \in {"bp", "routed"}
Family(a, p) == \A i \in DOMAIN a.store : a.store[i].of # 0 =>
   /\ a.store[i].of \in DOMAIN a.store
   /\ Active(a.store[i]) /\ a.store[i].of # p => a.store[a.store[i].of].status = "replaced"

\* If bundles have one payload block: a bundle has fragments only when it has
\* come to its end or is p, which is being cut; those of p and of a bundle that
\* was replaced are this bundle.
Ended(e) == e.status \in {"replaced", "refused", "lost"}
Tiled(a, p) == OnePayloadEach =>
  /\ \A i \in DOMAIN a.store : OnePayload(a.store[i].bundle)
  /\ \A k \in DOMAIN a.store : a.store[k].of # 0 /\ a.store[k].of # p => Ended(a.store[a.store[k].of])
  /\ \A i \in DOMAIN a.store : a.store[i].status = "replaced" \/ i = p =>
       Tile(a.store[i].bundle, FragmentsOf(a.store, i))

Good(a, p) == Core(a) /\ Fits(a, {}) /\ Unique(a) /\ Family(a, p) /\ Tiled(a, p)

\* ---- One field at a time
SetList(a, c, s, l) == [a EXCEPT !.bundles[c] = s, !.left[c] = l]
SetObject(a, x, r) == [a EXCEPT !.rb[x] = r]
SetStatus(a, i, v) == [a EXCEPT !.store[i].status = v]
SameBundles(a, b) == /\ DOMAIN b.store = DOMAIN a.store
                     /\ \A j \in DOMAIN a.store : b.store[j].of = a.store[j].of /\ b.store[j].bundle = a.store[j].bundle
AddObject(a, r) == [a EXCEPT !.rb = Append(@, r)]
Signalled(a, s) == [a EXCEPT !.rq = Append(@, s)]

\* What scheduling does not change.
Fixed(a, b) == b.rate = a.rate /\ b.total = a.total /\ b.handed = a.handed /\ b.over = a.over
\* The lists and what is left of the capacity are all that differs.
OnLists(a, b) == Fixed(a, b) /\ b.rb = a.rb /\ b.store = a.store /\ b.rq = a.rq

ObjectOK(a, r) == /\ r \in RoutedBundle /\ Len(r.contacts) <= MaxContacts /\ IsInjective(r.contacts)
                  /\ r.id \in DOMAIN a.store

\* The type of each of the fields.
LEMMA MemoryIs ==
  ASSUME NEW a, MemOK(a)
  PROVE  /\ a.rate \in [Contact -> Nat] /\ a.total \in [Contact -> Nat] /\ a.left \in [Contact -> [Prio -> Int]]
         /\ a.bundles \in [Contact -> Seq(Nat)] /\ a.handed \in [Contact -> Seq(Nat)] /\ a.over \in SUBSET Contact
         /\ a.rb \in Seq(RoutedBundle) /\ a.rq \in Seq(Signal) /\ a.fault \in Faults /\ a.store \in Seq(Entry)
BY DEF MemOK, Memory

\* An object and an entry of the storage.
LEMMA ObjectIs ==
  ASSUME NEW a, MemOK(a)
  PROVE  /\ DOMAIN a.rb = 1..Len(a.rb) /\ Len(a.rb) \in Nat
         /\ DOMAIN a.store = 1..Len(a.store) /\ Len(a.store) \in Nat
         /\ \A x \in DOMAIN a.rb : a.rb[x] \in RoutedBundle /\ ObjectOK(a, a.rb[x])
         /\ \A i \in DOMAIN a.store : a.store[i] \in Entry
<1>1. a.rb \in Seq(RoutedBundle) /\ a.store \in Seq(Entry) BY MemoryIs
<1>2. \A x \in DOMAIN a.rb : a.rb[x] \in RoutedBundle BY <1>1
<1>3. \A i \in DOMAIN a.store : a.store[i] \in Entry BY <1>1
<1>4. \A x \in DOMAIN a.rb : ObjectOK(a, a.rb[x]) BY <1>2 DEF MemOK, ObjectOK
<1> QED BY <1>1, <1>2, <1>3, <1>4

\* A failure changes nothing else.
LEMMA FaultIs ==
  ASSUME NEW a, MemOK(a), NEW f \in Faults
  PROVE  /\ MemOK(Fault(a, f)) /\ OnLists(a, Fault(a, f)) /\ Fault(a, f).fault = f
         /\ Fault(a, f).bundles = a.bundles /\ Fault(a, f).left = a.left
<1> DEFINE b == Fault(a, f)
<1>1. a \in Memory BY DEF MemOK
<1>2. /\ b \in Memory /\ b.fault = f /\ b.bundles = a.bundles /\ b.left = a.left /\ b.rb = a.rb /\ b.store = a.store
      /\ b.rq = a.rq /\ b.handed = a.handed /\ b.over = a.over /\ b.rate = a.rate /\ b.total = a.total
  BY <1>1 DEF Memory, Fault
<1> HIDE DEF b
<1>3. MemOK(b) BY <1>2 DEF MemOK
<1> QED BY <1>2, <1>3 DEF OnLists, Fixed, b

\* One list with its capacity.
ListSet(a, b, c, s, l) ==
  /\ MemOK(b) /\ OnLists(a, b) /\ b.fault = a.fault
  /\ b.bundles = [a.bundles EXCEPT ![c] = s] /\ b.left = [a.left EXCEPT ![c] = l]

\* What SetList makes of the memory.
LEMMA SetListIs ==
  ASSUME NEW a, MemOK(a), NEW c \in Contact, NEW s \in Seq(Nat), ToSet(s) \subseteq DOMAIN a.rb,
         NEW l \in [Prio -> Int]
  PROVE  ListSet(a, SetList(a, c, s, l), c, s, l)
<1> DEFINE b == SetList(a, c, s, l)
    bundles == [a.bundles EXCEPT ![c] = s]
    left == [a.left EXCEPT ![c] = l]
<1>1. a \in Memory BY DEF MemOK
<1>2. bundles \in [Contact -> Seq(Nat)] /\ left \in [Contact -> [Prio -> Int]] BY MemoryIs
<1>3. b = [a EXCEPT !.bundles = bundles, !.left = left] BY Zenon DEF SetList
<1>4. \A d \in Contact : ToSet(bundles[d]) \subseteq DOMAIN a.rb
  <2>1. \A d \in Contact : bundles[d] = IF d = c THEN s ELSE a.bundles[d] BY MemoryIs
  <2> HIDE DEF bundles
  <2> QED BY <2>1 DEF MemOK
<1> HIDE DEF b, bundles, left
<1>5. /\ b \in Memory /\ b.bundles = bundles /\ b.left = left /\ b.fault = a.fault /\ b.rb = a.rb /\ b.store = a.store
      /\ b.rq = a.rq /\ b.handed = a.handed /\ b.over = a.over /\ b.rate = a.rate /\ b.total = a.total
  BY <1>1, <1>2, <1>3 DEF Memory
<1>6. MemOK(b) BY <1>4, <1>5 DEF MemOK
<1> QED BY <1>5, <1>6 DEF OnLists, Fixed, ListSet, b, bundles, left

\* One object.
LEMMA SetObjectIs ==
  ASSUME NEW a, MemOK(a), NEW x \in DOMAIN a.rb, NEW r, ObjectOK(a, r)
  PROVE  LET b == SetObject(a, x, r)
         IN  /\ MemOK(b) /\ Fixed(a, b) /\ b.fault = a.fault /\ b.rq = a.rq /\ b.store = a.store
             /\ b.bundles = a.bundles /\ b.left = a.left
             /\ b.rb = [a.rb EXCEPT ![x] = r] /\ DOMAIN b.rb = DOMAIN a.rb /\ Len(b.rb) = Len(a.rb)
<1> DEFINE b == SetObject(a, x, r)
    rb == [a.rb EXCEPT ![x] = r]
<1>1. a \in Memory BY DEF MemOK
<1>2. DOMAIN a.rb = 1..Len(a.rb) /\ Len(a.rb) \in Nat /\ \A y \in DOMAIN a.rb : ObjectOK(a, a.rb[y]) BY ObjectIs
<1>3. r \in RoutedBundle BY DEF ObjectOK
<1>4. rb \in Seq(RoutedBundle) /\ DOMAIN rb = DOMAIN a.rb /\ Len(rb) = Len(a.rb)
  <2>1. a.rb \in Seq(RoutedBundle) BY MemoryIs
  <2> QED BY <1>2, <1>3, <2>1
<1>5. \A y \in DOMAIN rb : ObjectOK(a, rb[y])
  <2>1. \A y \in DOMAIN rb : rb[y] = IF y = x THEN r ELSE a.rb[y] BY <1>4
  <2> HIDE DEF rb
  <2> QED BY <1>2, <1>4, <2>1
<1>6. b = [a EXCEPT !.rb = rb] BY Zenon DEF SetObject
<1> HIDE DEF b, rb
<1>7. /\ b \in Memory /\ b.bundles = a.bundles /\ b.left = a.left /\ b.fault = a.fault /\ b.rb = rb /\ b.store = a.store
      /\ b.rq = a.rq /\ b.handed = a.handed /\ b.over = a.over /\ b.rate = a.rate /\ b.total = a.total
  BY <1>1, <1>4, <1>6 DEF Memory
<1>8. MemOK(b) BY <1>4, <1>5, <1>7 DEF MemOK, ObjectOK
<1> QED BY <1>4, <1>7, <1>8 DEF Fixed, b, rb

\* One more object.
LEMMA AddObjectIs ==
  ASSUME NEW a, MemOK(a), NEW r, ObjectOK(a, r)
  PROVE  LET b == AddObject(a, r)
         IN  /\ MemOK(b) /\ Fixed(a, b) /\ b.fault = a.fault /\ b.rq = a.rq /\ b.store = a.store
             /\ b.bundles = a.bundles /\ b.left = a.left
             /\ Len(b.rb) = Len(a.rb) + 1 /\ DOMAIN b.rb = 1..(Len(a.rb) + 1) /\ b.rb[Len(a.rb) + 1] = r
             /\ \A y \in DOMAIN a.rb : b.rb[y] = a.rb[y]
<1> DEFINE b == AddObject(a, r)
    rb == Append(a.rb, r)
    n == Len(a.rb)
<1>1. a \in Memory BY DEF MemOK
<1>2. DOMAIN a.rb = 1..n /\ n \in Nat /\ \A y \in DOMAIN a.rb : ObjectOK(a, a.rb[y]) BY ObjectIs
<1>3. r \in RoutedBundle BY DEF ObjectOK
<1>4. rb \in Seq(RoutedBundle) /\ DOMAIN rb = 1..(n + 1) /\ Len(rb) = n + 1
      /\ rb[n + 1] = r /\ \A y \in 1..n : rb[y] = a.rb[y]
  <2>1. a.rb \in Seq(RoutedBundle) BY MemoryIs
  <2> QED BY <1>2, <1>3, <2>1
<1>5. b = [a EXCEPT !.rb = rb] BY Zenon DEF AddObject
<1> HIDE DEF b, rb
<1>6. \A y \in DOMAIN rb : y \in 1..n \/ y = n + 1 BY <1>2, <1>4
<1>7. \A y \in DOMAIN rb : ObjectOK(a, rb[y]) BY <1>2, <1>4, <1>6
<1>8. 1..n \subseteq DOMAIN rb BY <1>2, <1>4
<1>9. /\ b \in Memory /\ b.bundles = a.bundles /\ b.left = a.left /\ b.fault = a.fault /\ b.rb = rb /\ b.store = a.store
      /\ b.rq = a.rq /\ b.handed = a.handed /\ b.over = a.over /\ b.rate = a.rate /\ b.total = a.total
  BY <1>1, <1>4, <1>5 DEF Memory
<1>10. MemOK(b) BY <1>2, <1>7, <1>8, <1>9 DEF MemOK, ObjectOK
<1> QED BY <1>2, <1>4, <1>9, <1>10 DEF Fixed, b

\* The state of one bundle in the storage.
LEMMA SetStatusIs ==
  ASSUME NEW a, MemOK(a), NEW i \in DOMAIN a.store, NEW v \in Status
  PROVE  LET b == SetStatus(a, i, v)
         IN  /\ MemOK(b) /\ Fixed(a, b) /\ b.fault = a.fault /\ b.rq = a.rq /\ b.rb = a.rb
             /\ b.bundles = a.bundles /\ b.left = a.left
             /\ DOMAIN b.store = DOMAIN a.store /\ Len(b.store) = Len(a.store)
             /\ \A j \in DOMAIN a.store : /\ b.store[j].status = IF j = i THEN v ELSE a.store[j].status
                                          /\ b.store[j].of = a.store[j].of
                                          /\ j # i => b.store[j] = a.store[j]
             /\ SameBundles(a, b)
<1> DEFINE b == SetStatus(a, i, v)
    e == [a.store[i] EXCEPT !.status = v]
    store == [a.store EXCEPT ![i] = e]
<1>1. a \in Memory BY DEF MemOK
<1>2. DOMAIN a.store = 1..Len(a.store) /\ Len(a.store) \in Nat /\ a.store[i] \in Entry BY ObjectIs
<1>3. e \in Entry /\ e.status = v /\ e.of = a.store[i].of /\ e.bundle = a.store[i].bundle BY <1>2 DEF Entry
<1>4. b = [a EXCEPT !.store = store] BY Zenon DEF SetStatus
<1> HIDE DEF e
<1>5. store \in Seq(Entry) /\ DOMAIN store = DOMAIN a.store /\ Len(store) = Len(a.store)
      /\ \A j \in DOMAIN store : store[j] = IF j = i THEN e ELSE a.store[j]
  <2>1. a.store \in Seq(Entry) BY MemoryIs
  <2> QED BY <1>2, <1>3, <2>1
<1> HIDE DEF b, store
<1>6. /\ b \in Memory /\ b.bundles = a.bundles /\ b.left = a.left /\ b.fault = a.fault /\ b.rb = a.rb /\ b.store = store
      /\ b.rq = a.rq /\ b.handed = a.handed /\ b.over = a.over /\ b.rate = a.rate /\ b.total = a.total
  BY <1>1, <1>4, <1>5 DEF Memory
<1>7. MemOK(b) BY <1>5, <1>6 DEF MemOK
<1>8. SameBundles(a, b) BY <1>3, <1>5, <1>6 DEF SameBundles
<1> QED BY <1>3, <1>5, <1>6, <1>7, <1>8 DEF Fixed, b

\* Tiled stays when bundles only change their state, none is restarted that came
\* to its end and at most p is replaced.
LEMMA TiledSame ==
  ASSUME NEW a, MemOK(a), NEW p, Family(a, p), Tiled(a, p), NEW b, SameBundles(a, b),
         \A j \in DOMAIN a.store : Ended(a.store[j]) => Ended(b.store[j]),
         \A j \in DOMAIN a.store : b.store[j].status = "replaced" => a.store[j].status = "replaced" \/ j = p,
         NEW q, q = p \/ (q = 0 /\ p \in DOMAIN a.store /\ Ended(b.store[p]))
  PROVE  Tiled(b, q)
<1> SUFFICES ASSUME OnePayloadEach PROVE Tiled(b, q) BY DEF Tiled
<1>1. /\ DOMAIN b.store = DOMAIN a.store
      /\ \A j \in DOMAIN a.store : b.store[j].of = a.store[j].of /\ b.store[j].bundle = a.store[j].bundle
  BY DEF SameBundles
<1>2. a.store \in Seq(Entry) /\ 0 \notin DOMAIN a.store
  <2>1. DOMAIN a.store = 1..Len(a.store) BY ObjectIs
  <2> QED BY <2>1, MemoryIs
<1>3. \A i : FragmentsOf(b.store, i) = FragmentsOf(a.store, i)
  <2> TAKE i
  <2>1. PartsOf(b.store, i) = PartsOf(a.store, i) BY <1>1, PartsSame
  <2> QED BY <1>1, <1>2, <2>1, FragmentsSame
<1>4. \A i \in DOMAIN b.store : OnePayload(b.store[i].bundle) BY <1>1 DEF Tiled
<1>5. ASSUME NEW k \in DOMAIN b.store, b.store[k].of # 0, b.store[k].of # q PROVE Ended(b.store[b.store[k].of])
  <2>1. k \in DOMAIN a.store /\ b.store[k].of = a.store[k].of /\ a.store[k].of # 0 BY <1>1, <1>5
  <2>2. a.store[k].of \in DOMAIN a.store BY <2>1 DEF Family
  <2>3. CASE a.store[k].of # p
    <3>1. Ended(a.store[a.store[k].of]) BY <2>1, <2>3 DEF Tiled
    <3> QED BY <2>1, <2>2, <3>1
  <2>4. CASE a.store[k].of = p BY <1>5, <2>1, <2>4
  <2> QED BY <2>3, <2>4
<1>6. ASSUME NEW i \in DOMAIN b.store, b.store[i].status = "replaced" \/ i = q
      PROVE  Tile(b.store[i].bundle, FragmentsOf(b.store, i))
  <2>1. i \in DOMAIN a.store /\ (a.store[i].status = "replaced" \/ i = p) BY <1>1, <1>2, <1>6
  <2>2. Tile(a.store[i].bundle, FragmentsOf(a.store, i)) BY <2>1 DEF Tiled
  <2> QED BY <1>1, <1>3, <2>1, <2>2
<1> QED BY <1>4, <1>5, <1>6 DEF Tiled

\* Tiled is about the storage only.
LEMMA TiledStore == ASSUME NEW a, NEW p, Tiled(a, p), NEW b, b.store = a.store PROVE Tiled(b, p)
BY DEF Tiled

\* One more signal for the router.
LEMMA SignalledIs ==
  ASSUME NEW a, MemOK(a), NEW s \in Signal, s.rb \in DOMAIN a.rb
  PROVE  LET b == Signalled(a, s)
         IN  /\ MemOK(b) /\ Fixed(a, b) /\ b.fault = a.fault /\ b.rb = a.rb /\ b.store = a.store
             /\ b.bundles = a.bundles /\ b.left = a.left
<1> DEFINE b == Signalled(a, s)
    rq == Append(a.rq, s)
<1>1. a \in Memory BY DEF MemOK
<1>2. a.rq \in Seq(Signal) BY MemoryIs
<1>3. rq \in Seq(Signal) BY <1>2
<1>4. \A i \in DOMAIN rq : rq[i].rb \in DOMAIN a.rb
  <2>1. DOMAIN a.rq = 1..Len(a.rq) /\ Len(a.rq) \in Nat /\ DOMAIN rq = 1..(Len(a.rq) + 1)
        /\ rq[Len(a.rq) + 1] = s /\ \A i \in 1..Len(a.rq) : rq[i] = a.rq[i] BY <1>2
  <2> HIDE DEF rq
  <2>2. \A i \in DOMAIN rq : i \in DOMAIN a.rq \/ i = Len(a.rq) + 1 BY <2>1
  <2> QED BY <2>1, <2>2 DEF MemOK
<1>5. b = [a EXCEPT !.rq = rq] BY Zenon DEF Signalled
<1> HIDE DEF b, rq
<1>6. /\ b \in Memory /\ b.bundles = a.bundles /\ b.left = a.left /\ b.fault = a.fault /\ b.rb = a.rb /\ b.store = a.store
      /\ b.rq = rq /\ b.handed = a.handed /\ b.over = a.over /\ b.rate = a.rate /\ b.total = a.total
  BY <1>1, <1>3, <1>5 DEF Memory
<1>7. MemOK(b) BY <1>4, <1>6 DEF MemOK
<1> QED BY <1>6, <1>7 DEF Fixed, b

\* ---- Entries of the lists (router_add_bundle_to_contact and its reverse)
\* The weights of the objects on a list are numbers.
LEMMA WeightInt ==
  ASSUME NEW a, MemOK(a), NEW s \in Seq(Nat), ToSet(s) \subseteq DOMAIN a.rb, NEW k \in Prio
  PROVE  /\ Weighed(Weight(a, k), s) /\ SumOf(Weight(a, k), s) \in Int
         /\ \A x \in DOMAIN a.rb : Weight(a, k)[x] \in Int
<1>1. \A x \in DOMAIN a.rb : a.rb[x] \in RoutedBundle BY ObjectIs
<1>2. \A x \in DOMAIN a.rb : Weight(a, k)[x] \in Int
  <2>1. \A x \in DOMAIN a.rb : a.rb[x].size \in Int BY <1>1 DEF RoutedBundle
  <2> QED BY <2>1 DEF Weight
<1>3. \A n \in 1..Len(s) : s[n] \in DOMAIN a.rb
  <2>1. DOMAIN s = 1..Len(s) OBVIOUS
  <2> QED BY <2>1 DEF ToSet
<1>4. Weighed(Weight(a, k), s) BY <1>2, <1>3 DEF Weighed
<1>5. SumOf(Weight(a, k), s) \in Int BY <1>4, SumFacts
<1> QED BY <1>2, <1>4, <1>5

\* One list has changed, and its capacity by what that weighs.
LEMMA CoreOne ==
  ASSUME NEW a, MemOK(a), Core(a), NEW b, MemOK(b), OnLists(a, b), NEW c \in Contact \ a.over,
         NEW s \in Seq(Nat), IsInjective(s), NEW l,
         b.bundles = [a.bundles EXCEPT ![c] = s], b.left = [a.left EXCEPT ![c] = l],
         \A k \in Prio : l[k] = a.left[c][k] - (SumOf(Weight(a, k), s) - SumOf(Weight(a, k), a.bundles[c]))
  PROVE  Core(b)
<1>1. a.bundles \in [Contact -> Seq(Nat)] /\ a.left \in [Contact -> [Prio -> Int]] /\ a.total \in [Contact -> Nat]
      /\ a.handed \in [Contact -> Seq(Nat)]
  BY MemoryIs
<1>2. \A d \in Contact : b.bundles[d] = IF d = c THEN s ELSE a.bundles[d] BY <1>1
<1>3. \A d \in Contact : b.left[d] = IF d = c THEN l ELSE a.left[d] BY <1>1
<1>4. b.over = a.over /\ b.total = a.total /\ b.handed = a.handed /\ b.rb = a.rb BY DEF OnLists, Fixed
<1>5. a.over \subseteq Contact BY MemoryIs
<1>6. \A d \in b.over : b.bundles[d] = <<>> BY <1>2, <1>4, <1>5 DEF Core
<1>7. \A d \in Contact : IsInjective(b.bundles[d]) BY <1>2 DEF Core
<1>8. ASSUME NEW d \in Contact \ b.over, NEW k \in Prio PROVE b.total[d] - b.left[d][k] = Taken(b, d, k)
  <2>1. Weight(b, k) = Weight(a, k) BY <1>4 DEF Weight
  <2>2. a.total[d] - a.left[d][k] = Taken(a, d, k) BY <1>4 DEF Core, Balanced
  <2> DEFINE u == SumOf(Weight(a, k), a.bundles[d])
      h == SumOf(Weight(a, k), a.handed[d])
      z == SumOf(Weight(a, k), s)
  <2>3. u \in Int /\ h \in Int
    <3>1. a.bundles[d] \in Seq(Nat) /\ a.handed[d] \in Seq(Nat) BY <1>1
    <3>2. ToSet(a.bundles[d]) \subseteq DOMAIN a.rb /\ ToSet(a.handed[d]) \subseteq DOMAIN a.rb BY DEF MemOK
    <3> QED BY <3>1, <3>2, WeightInt
  <2>4. z \in Int
    <3>1. b.bundles[c] = s BY <1>2
    <3>2. ToSet(s) \subseteq DOMAIN a.rb BY <1>4, <3>1 DEF MemOK
    <3> QED BY <3>2, WeightInt
  <2>5. a.total[d] \in Int /\ a.left[d][k] \in Int BY <1>1
  <2>6. Taken(a, d, k) = u + h BY DEF Taken
  <2>7. d = c => Taken(b, d, k) = z + h BY <1>2, <1>4, <2>1 DEF Taken
  <2>8. d # c => Taken(b, d, k) = u + h BY <1>2, <1>4, <2>1 DEF Taken
  <2>9. d = c => b.left[d][k] = a.left[d][k] - (z - u) BY <1>3
  <2>10. d # c => b.left[d][k] = a.left[d][k] BY <1>3
  <2>11. b.total[d] = a.total[d] BY <1>4
  <2> DEFINE t == a.total[d]
      la == a.left[d][k]
      lb == b.left[d][k]
  <2> HIDE DEF u, h, z
  <2>12. t \in Int /\ la \in Int /\ t - la = u + h BY <2>2, <2>5, <2>6
  <2>13. d = c => lb = la - (z - u) BY <2>9
  <2>14. d # c => lb = la BY <2>10
  <2> HIDE DEF t, la, lb
  <2>15. t - lb = Taken(b, d, k) BY <2>3, <2>4, <2>7, <2>8, <2>12, <2>13, <2>14
  <2> QED BY <2>11, <2>15 DEF t, lb
<1> QED BY <1>6, <1>7, <1>8 DEF Core, Balanced

\* A reservation and its end.
LEMMA ReserveIs ==
  ASSUME NEW a, MemOK(a), NEW x \in DOMAIN a.rb, NEW l \in [Prio -> Int]
  PROVE  /\ Reserve(l, a.rb[x], -1) \in [Prio -> Int] /\ Reserve(l, a.rb[x], 1) \in [Prio -> Int]
         /\ \A k \in Prio : /\ Reserve(l, a.rb[x], -1)[k] = l[k] - Weight(a, k)[x]
                            /\ Reserve(l, a.rb[x], 1)[k] = l[k] + Weight(a, k)[x]
<1>1. a.rb[x].size \in Nat /\ a.rb[x].prio \in 0..2 BY ObjectIs DEF RoutedBundle, Prio
<1>2. \A k \in Prio : Weight(a, k)[x] = IF a.rb[x].prio >= k THEN a.rb[x].size ELSE 0 BY DEF Weight
<1> DEFINE p == a.rb[x].prio
    z == a.rb[x].size
<1>3. \A k \in Prio : /\ Reserve(l, a.rb[x], -1)[k] = IF k <= p THEN l[k] + (-1) * z ELSE l[k]
                      /\ Reserve(l, a.rb[x], 1)[k] = IF k <= p THEN l[k] + 1 * z ELSE l[k] BY DEF Reserve
<1>4. Reserve(l, a.rb[x], -1) = [k \in Prio |-> IF k <= p THEN l[k] + (-1) * z ELSE l[k]]
      /\ Reserve(l, a.rb[x], 1) = [k \in Prio |-> IF k <= p THEN l[k] + 1 * z ELSE l[k]] BY DEF Reserve
<1>5. p \in 0..2 /\ z \in Nat BY <1>1
<1> HIDE DEF p, z
<1>6. \A k \in Prio : k \in Int /\ l[k] \in Int BY DEF Prio
<1>7. Reserve(l, a.rb[x], -1) \in [Prio -> Int] /\ Reserve(l, a.rb[x], 1) \in [Prio -> Int] BY <1>4, <1>5, <1>6
<1>8. \A k \in Prio : Weight(a, k)[x] = IF p >= k THEN z ELSE 0 BY <1>2 DEF p, z
<1> QED BY <1>3, <1>5, <1>6, <1>7, <1>8

\* x has come to the list of c, unless its allocation has failed.
Added(a, b, c, x, fails) ==
  /\ MemOK(b) /\ OnLists(a, b)
  /\ b.fault = "none" =>
       /\ c \notin a.over
       /\ b.bundles = IF fails THEN a.bundles ELSE [a.bundles EXCEPT ![c] = Append(a.bundles[c], x)]
       /\ Core(a) /\ (fails \/ x \notin ToSet(a.bundles[c])) => Core(b)

\* router_add_bundle_to_contact
LEMMA AddEntry ==
  ASSUME NEW a, MemOK(a), NEW x \in DOMAIN a.rb, NEW c \in Contact, NEW fails \in BOOLEAN
  PROVE  Added(a, router_add_bundle_to_contact(a, c, x, fails), c, x, fails)
<1> DEFINE b == router_add_bundle_to_contact(a, c, x, fails)
    s == Append(a.bundles[c], x)
    l == Reserve(a.left[c], a.rb[x], -1)
    d == SetList(a, c, s, l)
<1>1. b = IF c \in a.over THEN Fault(a, "freed") ELSE IF a.left[c][0] <= 0 THEN Fault(a, "remaining_capacity_p0")
          ELSE IF fails THEN a ELSE d
  BY Zenon DEF router_add_bundle_to_contact, SetList
<1>2. a.bundles[c] \in Seq(Nat) /\ a.left[c] \in [Prio -> Int] /\ a.bundles \in [Contact -> Seq(Nat)]
      /\ ToSet(a.bundles[c]) \subseteq DOMAIN a.rb /\ x \in Nat
  <2>1. a.bundles \in [Contact -> Seq(Nat)] /\ a.left \in [Contact -> [Prio -> Int]] BY MemoryIs
  <2>2. x \in Nat BY ObjectIs
  <2> QED BY <2>1, <2>2 DEF MemOK
<1>3. s \in Seq(Nat) /\ ToSet(s) = ToSet(a.bundles[c]) \cup {x}
      /\ (IsInjective(a.bundles[c]) /\ x \notin ToSet(a.bundles[c]) => IsInjective(s))
  <2> DEFINE q == a.bundles[c]
  <2>1. q \in Seq(Nat) /\ x \in Nat BY <1>2
  <2> HIDE DEF q
  <2>2. Append(q, x) \in Seq(Nat) BY <2>1
  <2>3. ToSet(Append(q, x)) = ToSet(q) \cup {x} /\ (IsInjective(q) /\ x \notin ToSet(q) => IsInjective(Append(q, x)))
    BY <2>1, SetOfAppend
  <2> QED BY <2>2, <2>3 DEF q
<1>4. l \in [Prio -> Int] BY <1>2, ReserveIs
<1>5. /\ MemOK(d) /\ OnLists(a, d) /\ d.bundles = [a.bundles EXCEPT ![c] = s] /\ d.left = [a.left EXCEPT ![c] = l]
  <2>1. ToSet(s) \subseteq DOMAIN a.rb BY <1>2, <1>3
  <2> HIDE DEF s, l
  <2>2. ListSet(a, SetList(a, c, s, l), c, s, l) BY <1>3, <1>4, <2>1, SetListIs
  <2> QED BY <2>2 DEF ListSet
<1>6. ASSUME Core(a), x \notin ToSet(a.bundles[c]), c \notin a.over PROVE Core(d)
  <2>1. IsInjective(s) BY <1>3, <1>6 DEF Core
  <2>2. ASSUME NEW k \in Prio
        PROVE l[k] = a.left[c][k] - (SumOf(Weight(a, k), s) - SumOf(Weight(a, k), a.bundles[c]))
    <3>1. Weighed(Weight(a, k), a.bundles[c]) /\ Weight(a, k)[x] \in Int /\ SumOf(Weight(a, k), a.bundles[c]) \in Int
      BY <1>2, WeightInt
    <3>2. SumOf(Weight(a, k), s) = SumOf(Weight(a, k), a.bundles[c]) + Weight(a, k)[x] BY <1>2, <3>1, SumAppend
    <3>3. l[k] = a.left[c][k] - Weight(a, k)[x] /\ a.left[c][k] \in Int BY <1>2, ReserveIs
    <3> HIDE DEF s, l
    <3> QED BY <3>1, <3>2, <3>3
  <2>3. c \in Contact \ a.over BY <1>6
  <2> HIDE DEF s, l, d
  <2> QED BY <1>3, <1>5, <1>6, <2>1, <2>2, <2>3, CoreOne
<1>7. "freed" \in Faults /\ "remaining_capacity_p0" \in Faults /\ "freed" # "none" /\ "remaining_capacity_p0" # "none"
  BY DEF Faults
<1>8. \A f \in Faults : MemOK(Fault(a, f)) /\ OnLists(a, Fault(a, f)) /\ Fault(a, f).fault = f BY FaultIs
<1>9. OnLists(a, a) BY DEF OnLists, Fixed
<1>10. d.bundles = [a.bundles EXCEPT ![c] = Append(a.bundles[c], x)] BY <1>5
<1> HIDE DEF b, s, l, d
<1>11. MemOK(b) /\ OnLists(a, b) BY <1>1, <1>5, <1>7, <1>8, <1>9
<1>12. b.fault = "none" => c \notin a.over /\ b = IF fails THEN a ELSE d BY <1>1, <1>7, <1>8
<1> QED BY <1>6, <1>10, <1>11, <1>12 DEF Added, b

\* The entry of the bundle has gone from the list of c: that of the only live
\* object x of its bundle.
Removed(a, b, c, id) ==
  /\ MemOK(b) /\ OnLists(a, b)
  /\ b.fault = "none" =>
       /\ c \notin a.over
       /\ \A d \in Contact : d # c => b.bundles[d] = a.bundles[d]
       /\ \A x \in DOMAIN a.rb : a.rb[x].live /\ a.rb[x].id = id /\ Only(a, x) /\ Core(a) =>
            ToSet(b.bundles[c]) = ToSet(a.bundles[c]) \ {x} /\ Core(b)

\* router_remove_bundle_from_contact
LEMMA RemoveEntry ==
  ASSUME NEW a, MemOK(a), NEW c \in Contact, NEW id
  PROVE  Removed(a, router_remove_bundle_from_contact(a, c, id), c, id)
<1> DEFINE b == router_remove_bundle_from_contact(a, c, id)
    q == a.bundles[c]
    hits == {i \in DOMAIN q : a.rb[q[i]].id = id \/ ~a.rb[q[i]].live}
    j == Min(hits)
    y == q[j]
    s == RemoveAt(q, j)
    l == Reserve(a.left[c], a.rb[y], 1)
    d == SetList(a, c, s, l)
<1>1. b = IF c \in a.over THEN Fault(a, "freed") ELSE IF hits = {} THEN a
          ELSE IF ~a.rb[y].live THEN Fault(a, "freed") ELSE d
  BY Zenon DEF router_remove_bundle_from_contact, SetList
<1>2. q \in Seq(Nat) /\ a.left[c] \in [Prio -> Int] /\ a.bundles \in [Contact -> Seq(Nat)]
      /\ ToSet(q) \subseteq DOMAIN a.rb /\ DOMAIN q = 1..Len(q)
  <2>1. a.bundles \in [Contact -> Seq(Nat)] /\ a.left \in [Contact -> [Prio -> Int]] BY MemoryIs
  <2> QED BY <2>1 DEF MemOK
<1>3. hits # {} => j \in hits /\ j \in 1..Len(q) /\ y \in DOMAIN a.rb /\ y \in ToSet(q)
                   /\ (a.rb[y].id = id \/ ~a.rb[y].live)
  <2>1. hits \in SUBSET Nat /\ hits \subseteq DOMAIN q BY <1>2
  <2>2. j = Min(hits) BY Zenon
  <2>3. hits # {} => j \in hits
    <3> HIDE DEF hits, j
    <3> QED BY <2>1, <2>2, LeastIn
  <2>4. \A i \in DOMAIN q : q[i] \in ToSet(q) BY DEF ToSet
  <2>5. \A i \in hits : i \in DOMAIN q /\ (a.rb[q[i]].id = id \/ ~a.rb[q[i]].live) OBVIOUS
  <2> HIDE DEF j, q, hits
  <2>6. hits # {} => j \in DOMAIN q /\ (a.rb[q[j]].id = id \/ ~a.rb[q[j]].live) BY <2>3, <2>5
  <2>7. hits # {} => q[j] \in ToSet(q) /\ q[j] \in DOMAIN a.rb /\ j \in 1..Len(q) BY <1>2, <2>4, <2>6
  <2> QED BY <2>3, <2>6, <2>7
<1>4. ASSUME hits # {}
      PROVE  /\ s \in Seq(Nat) /\ ToSet(s) \subseteq ToSet(q)
             /\ (IsInjective(q) => IsInjective(s) /\ ToSet(s) = ToSet(q) \ {y})
  <2> HIDE DEF j, hits
  <2> QED BY <1>2, <1>3, <1>4, RemoveFacts, SetOfRemove
<1>5. ASSUME hits # {}
      PROVE  /\ l \in [Prio -> Int] /\ MemOK(d) /\ OnLists(a, d) /\ d.bundles = [a.bundles EXCEPT ![c] = s]
             /\ d.left = [a.left EXCEPT ![c] = l]
  <2> HIDE DEF y, s
  <2>1. l \in [Prio -> Int]
    <3> DEFINE u == a.left[c]
    <3>1. u \in [Prio -> Int] /\ y \in DOMAIN a.rb BY <1>2, <1>3, <1>5, Zenon
    <3>2. l = Reserve(u, a.rb[y], 1) BY Zenon
    <3> HIDE DEF u, l
    <3> QED BY <3>1, <3>2, ReserveIs
  <2>2. ToSet(s) \subseteq DOMAIN a.rb BY <1>2, <1>4, <1>5
  <2> HIDE DEF l
  <2>3. s \in Seq(Nat) BY <1>4, <1>5
  <2>4. ListSet(a, SetList(a, c, s, l), c, s, l) BY <2>1, <2>2, <2>3, SetListIs
  <2> QED BY <2>1, <2>4 DEF ListSet
<1>6. ASSUME hits # {}, Core(a), c \notin a.over PROVE Core(d)
  <2>1. IsInjective(s)
    <3>1. IsInjective(q) BY <1>6 DEF Core
    <3> HIDE DEF s, q, y, hits
    <3> QED BY <1>4, <1>6, <3>1
  <2>2. ASSUME NEW k \in Prio
        PROVE l[k] = a.left[c][k] - (SumOf(Weight(a, k), s) - SumOf(Weight(a, k), q))
    <3>1. Weighed(Weight(a, k), q) /\ Weight(a, k)[y] \in Int /\ SumOf(Weight(a, k), q) \in Int
      <4> HIDE DEF y, q, hits
      <4>1. y \in DOMAIN a.rb /\ q \in Seq(Nat) /\ ToSet(q) \subseteq DOMAIN a.rb BY <1>2, <1>3, <1>6, Zenon
      <4> QED BY <4>1, WeightInt
    <3>2. SumOf(Weight(a, k), s) = SumOf(Weight(a, k), q) - Weight(a, k)[y]
      <4> HIDE DEF j, q, hits
      <4> QED BY <1>2, <1>3, <1>6, <3>1, SumRemove
    <3>3. l[k] = a.left[c][k] + Weight(a, k)[y] /\ a.left[c][k] \in Int
      <4> DEFINE u == a.left[c]
      <4>1. u \in [Prio -> Int] BY <1>2
      <4>4. y \in DOMAIN a.rb BY <1>3, <1>6, Zenon
      <4> HIDE DEF y, u
      <4>2. Reserve(u, a.rb[y], 1)[k] = u[k] + Weight(a, k)[y] BY <4>1, <4>4, ReserveIs
      <4>3. u[k] \in Int BY <4>1
      <4> QED BY <4>2, <4>3 DEF u
    <3> HIDE DEF s, l, y
    <3> QED BY <3>1, <3>2, <3>3
  <2>3. c \in Contact \ a.over /\ Core(a) BY <1>6
  <2> HIDE DEF s, l, d, hits
  <2>4. s \in Seq(Nat) BY <1>4, <1>6
  <2>5. MemOK(d) /\ OnLists(a, d) /\ d.bundles = [a.bundles EXCEPT ![c] = s] /\ d.left = [a.left EXCEPT ![c] = l]
    BY <1>5, <1>6
  <2> HIDE DEF y, j
  <2> QED BY <2>1, <2>2, <2>3, <2>4, <2>5, CoreOne
<1>7. "freed" \in Faults /\ "freed" # "none" BY DEF Faults
<1>8. \A f \in Faults : MemOK(Fault(a, f)) /\ OnLists(a, Fault(a, f)) /\ Fault(a, f).fault = f BY FaultIs
<1>9. OnLists(a, a) BY DEF OnLists, Fixed
<1>10. ASSUME NEW x \in DOMAIN a.rb, a.rb[x].live, a.rb[x].id = id, Only(a, x), Core(a)
       PROVE  /\ hits = {} => x \notin ToSet(q)
              /\ hits # {} /\ a.rb[y].live => ToSet(s) = ToSet(q) \ {x}
  <2>1. hits = {} => x \notin ToSet(q)
    <3>1. ToSet(q) = {q[i] : i \in DOMAIN q} BY DEF ToSet
    <3> QED BY <1>10, <3>1
  <2>2. hits # {} /\ a.rb[y].live => y = x
    <3> HIDE DEF y, hits
    <3> QED BY <1>3, <1>10 DEF Only
  <2>3. IsInjective(q) BY <1>10 DEF Core
  <2> HIDE DEF s, hits, y, q
  <2> QED BY <1>4, <2>1, <2>2, <2>3
<1>11. hits # {} => /\ d.bundles[c] = s
                    /\ \A e \in Contact : e # c => d.bundles[e] = a.bundles[e]
  <2> HIDE DEF d, s, hits
  <2> QED BY <1>2, <1>5
<1>12. q = a.bundles[c] OBVIOUS
<1> HIDE DEF b, s, l, d, hits, y, q
<1>13. MemOK(b) /\ OnLists(a, b) BY <1>1, <1>5, <1>7, <1>8, <1>9
<1>14. b.fault = "none" => c \notin a.over /\ b = IF hits = {} THEN a ELSE d BY <1>1, <1>7, <1>8
<1>15. b.fault = "none" /\ hits # {} => a.rb[y].live BY <1>1, <1>7, <1>8
<1>16. ASSUME b.fault = "none", NEW x \in DOMAIN a.rb, a.rb[x].live, a.rb[x].id = id, Only(a, x), Core(a)
       PROVE  ToSet(b.bundles[c]) = ToSet(a.bundles[c]) \ {x} /\ Core(b)
  <2>1. CASE hits = {} BY <1>10, <1>12, <1>14, <1>16, <2>1
  <2>2. CASE hits # {} BY <1>6, <1>10, <1>11, <1>12, <1>14, <1>15, <1>16, <2>2
  <2> QED BY <2>1, <2>2
<1>17. b.fault = "none" => \A e \in Contact : e # c => b.bundles[e] = a.bundles[e] BY <1>11, <1>14
<1> QED BY <1>13, <1>14, <1>16, <1>17 DEF Removed, b

\* ---- An object comes to its contacts (router_update_routed_bundle)
\* Priorities and sizes are the same: the lists stay as balanced as they were.
LEMMA CoreSame ==
  ASSUME NEW a, MemOK(a), Core(a), NEW b, Fixed(a, b), b.bundles = a.bundles, b.left = a.left,
         \A y \in DOMAIN a.rb : y \in DOMAIN b.rb /\ b.rb[y].prio = a.rb[y].prio /\ b.rb[y].size = a.rb[y].size
  PROVE  Core(b)
<1>1. b.over = a.over /\ b.handed = a.handed /\ b.total = a.total BY DEF Fixed
<1>2. ASSUME NEW k \in Prio, NEW s \in Seq(Nat), ToSet(s) \subseteq DOMAIN a.rb
      PROVE  SumOf(Weight(b, k), s) = SumOf(Weight(a, k), s)
  <2>1. Weighed(Weight(a, k), s) BY <1>2, WeightInt
  <2>2. \A n \in 1..Len(s) : s[n] \in DOMAIN a.rb
    <3>1. DOMAIN s = 1..Len(s) OBVIOUS
    <3> QED BY <1>2, <3>1 DEF ToSet
  <2>3. \A y \in DOMAIN a.rb : Weight(b, k)[y] = Weight(a, k)[y] BY DEF Weight
  <2>4. \A n \in 1..Len(s) : Weight(b, k)[s[n]] = Weight(a, k)[s[n]] BY <2>2, <2>3
  <2> QED BY <2>1, <2>4, SumCongruence
<1>3. \A c \in Contact : /\ a.bundles[c] \in Seq(Nat) /\ a.handed[c] \in Seq(Nat)
                         /\ ToSet(a.bundles[c]) \subseteq DOMAIN a.rb /\ ToSet(a.handed[c]) \subseteq DOMAIN a.rb
  <2>1. a.bundles \in [Contact -> Seq(Nat)] /\ a.handed \in [Contact -> Seq(Nat)] BY MemoryIs
  <2> QED BY <2>1 DEF MemOK
<1>4. \A c \in Contact, k \in Prio : Taken(b, c, k) = Taken(a, c, k) BY <1>1, <1>2, <1>3 DEF Taken
<1> QED BY <1>1, <1>4 DEF Core, Balanced

\* x has come to the lists of the contacts C.
Put(a, v, x, C) ==
  \A c \in Contact : v.bundles[c] = IF c \in C THEN Append(a.bundles[c], x) ELSE a.bundles[c]

\* One of the contacts of AddToContacts.
LEMMA AddStep ==
  ASSUME NEW a, NEW v, MemOK(v), OnLists(a, v), NEW C, NEW x \in DOMAIN v.rb, Put(a, v, x, C), Core(v),
         Off(a, x), NEW c \in Contact \ C, NEW f \in BOOLEAN,
         router_add_bundle_to_contact(v, c, x, f).fault = "none"
  PROVE  LET b == router_add_bundle_to_contact(v, c, x, f)
         IN  Put(a, b, x, IF f THEN C ELSE C \cup {c}) /\ Core(b) /\ c \notin a.over
<1> DEFINE b == router_add_bundle_to_contact(v, c, x, f)
<1>1. v.bundles[c] = a.bundles[c] BY DEF Put
<1>2. x \notin ToSet(v.bundles[c]) BY <1>1 DEF Off
<1>3. /\ c \notin v.over
      /\ b.bundles = IF f THEN v.bundles ELSE [v.bundles EXCEPT ![c] = Append(v.bundles[c], x)]
      /\ Core(v) /\ (f \/ x \notin ToSet(v.bundles[c])) => Core(b)
  <2>1. Added(v, b, c, x, f) BY AddEntry
  <2> HIDE DEF b
  <2>2. b.fault = "none" BY DEF b
  <2> QED BY <2>1, <2>2 DEF Added
<1>4. v.over = a.over BY DEF OnLists, Fixed
<1>5. v.bundles \in [Contact -> Seq(Nat)] BY MemoryIs
<1> HIDE DEF b
<1>6. Put(a, b, x, IF f THEN C ELSE C \cup {c}) BY <1>1, <1>3, <1>5 DEF Put
<1> QED BY <1>2, <1>3, <1>4, <1>6 DEF b

\* AddToContacts: no failed assertion when x is put on lists where it is not,
\* each of them one with capacity.
LEMMA AddLoop ==
  ASSUME NEW a, MemOK(a), NEW x \in DOMAIN a.rb, NEW s \in Seq(Contact), IsInjective(s), NEW fails \in BOOLEAN,
         fails => s # <<>>
  PROVE  LET b == AddToContacts(a, x, s, fails)
         IN  /\ MemOK(b) /\ OnLists(a, b)
             /\ b.fault = "none" => a.fault = "none"
             /\ b.fault = "none" /\ Core(a) /\ Off(a, x) =>
                  /\ Core(b) /\ ToSet(s) \cap a.over = {}
                  /\ Put(a, b, x, ToSet(IF fails THEN Tail(s) ELSE s))
<1> DEFINE out(v, c) == IF v.fault # "none" THEN v ELSE router_add_bundle_to_contact(v, c, x, fails /\ c = Head(s))
    every == FoldLeft(LAMBDA v, c : out(v, c), a, s)
    H == IF fails THEN {Head(s)} ELSE {}
    C(n) == {s[i] : i \in 1..n} \ H
    Hyp == Core(a) /\ Off(a, x)
    A == {v \in Memory : MemOK(v) /\ OnLists(a, v)}
    P == [n \in Nat |-> {v \in A : v.fault = "none" => a.fault = "none" /\ (Hyp =>
           Put(a, v, x, C(n)) /\ Core(v) /\ \A i \in 1..n : s[i] \notin a.over)}]
<1>e. AddToContacts(a, x, s, fails) = every BY DEF AddToContacts, ForEach
<1>n. PICK N \in Nat : N = Len(s) /\ DOMAIN s = 1..N OBVIOUS
<1>b. a \in A
  <2>1. OnLists(a, a) BY DEF OnLists, Fixed
  <2> QED BY <2>1 DEF MemOK
<1>1. ASSUME NEW v \in A, NEW n \in 1..N
      PROVE  LET f == fails /\ s[n] = Head(s)
             IN  /\ f \in BOOLEAN /\ s[n] \in Contact /\ x \in DOMAIN v.rb /\ MemOK(v) /\ OnLists(a, v)
                 /\ MemOK(router_add_bundle_to_contact(v, s[n], x, f))
                 /\ OnLists(v, router_add_bundle_to_contact(v, s[n], x, f))
  <2> DEFINE f == fails /\ s[n] = Head(s)
  <2>1. f \in BOOLEAN /\ s[n] \in Contact BY <1>n
  <2>2. MemOK(v) /\ OnLists(a, v) OBVIOUS
  <2>3. x \in DOMAIN v.rb BY <2>2 DEF OnLists
  <2> HIDE DEF f, A
  <2>4. MemOK(router_add_bundle_to_contact(v, s[n], x, f)) /\ OnLists(v, router_add_bundle_to_contact(v, s[n], x, f))
    <3>1. Added(v, router_add_bundle_to_contact(v, s[n], x, f), s[n], x, f) BY <2>1, <2>2, <2>3, AddEntry
    <3> QED BY <3>1 DEF Added
  <2> QED BY <2>1, <2>2, <2>3, <2>4 DEF f
<1>2. \A v, w, z : OnLists(v, w) /\ OnLists(w, z) => OnLists(v, z) BY DEF OnLists, Fixed
<1>3. ASSUME NEW v \in A, NEW n \in 1..N PROVE out(v, s[n]) \in A
  <2> DEFINE w == router_add_bundle_to_contact(v, s[n], x, fails /\ s[n] = Head(s))
  <2>1. MemOK(w) /\ OnLists(v, w) /\ OnLists(a, v) BY <1>1
  <2> HIDE DEF w
  <2>2. w \in A BY <1>2, <2>1 DEF MemOK
  <2> QED BY <2>2 DEF w
<1>4. ASSUME NEW v \in A, NEW n \in 1..N, v \in P[n - 1] PROVE out(v, s[n]) \in P[n]
  <2> DEFINE f == fails /\ s[n] = Head(s)
      w == router_add_bundle_to_contact(v, s[n], x, f)
      o == out(v, s[n])
  <2>1. n - 1 \in Nat /\ n \in Nat BY <1>n
  <2>2. o \in A BY <1>3
  <2>4. o.fault = "none" => a.fault = "none"
    <3>1. o.fault = "none" => v.fault = "none" OBVIOUS
    <3> HIDE DEF o, A, Hyp, C
    <3> QED BY <1>4, <2>1, <3>1
  <2>3. ASSUME o.fault = "none", Hyp
        PROVE  Put(a, o, x, C(n)) /\ Core(o) /\ (\A i \in 1..n : s[i] \notin a.over)
    <3>1. v.fault = "none" /\ o = w BY <2>3
    <3>2. Put(a, v, x, C(n - 1)) /\ Core(v) /\ (\A i \in 1..(n - 1) : s[i] \notin a.over)
      BY <1>4, <2>1, <2>3, <3>1
    <3>3. s[n] \in Contact \ C(n - 1)
      <4>1. \A i \in 1..(n - 1) : i \in 1..N /\ i # n BY <1>n
      <4>2. \A i \in 1..(n - 1) : s[i] # s[n] BY <1>n, <4>1 DEF IsInjective
      <4> QED BY <1>n, <4>2
    <3>4. (IF f THEN C(n - 1) ELSE C(n - 1) \cup {s[n]}) = C(n)
      <4>1. \A i \in 1..n : i = n \/ i \in 1..(n - 1) BY <1>n
      <4>2. n \in 1..n /\ \A i \in 1..(n - 1) : i \in 1..n BY <1>n
      <4>3. f => s[n] \in H OBVIOUS
      <4>4. ~f => s[n] \notin H OBVIOUS
      <4> HIDE DEF f, H
      <4> QED BY <4>1, <4>2, <4>3, <4>4
    <3>5. f \in BOOLEAN /\ x \in DOMAIN v.rb /\ MemOK(v) /\ OnLists(a, v) BY <1>1
    <3>6. w.fault = "none" /\ Off(a, x) BY <2>3, <3>1
    <3> HIDE DEF f, A, P, C, Hyp
    <3>7. Put(a, w, x, IF f THEN C(n - 1) ELSE C(n - 1) \cup {s[n]}) /\ Core(w) /\ s[n] \notin a.over
      BY <3>2, <3>3, <3>5, <3>6, AddStep
    <3> HIDE DEF w, o
    <3>8. \A i \in 1..n : s[i] \notin a.over
      <4>1. \A i \in 1..n : i = n \/ i \in 1..(n - 1) BY <1>n
      <4> QED BY <3>2, <3>7, <4>1
    <3> QED BY <3>1, <3>2, <3>4, <3>7, <3>8
  <2> HIDE DEF o, A, Hyp, C
  <2> QED BY <2>1, <2>2, <2>3, <2>4 DEF o
<1> HIDE DEF out, C, Hyp, H
<1> DEFINE op(v, n) == out(v, s[n])
    G == [z \in (1..N) \X A |-> op(z[2], z[1])]
    E(h) == h = [y \in SUBSET (DOMAIN s) |-> IF y = {} THEN a ELSE op(h[y \ {Max(y)}], Max(y))]
    g == CHOOSE h : E(h)
<1>f1. ASSUME NEW n \in 1..N, NEW v \in A PROVE op(v, n) \in A
    BY <1>3
<1>f2. every = g[DOMAIN s] BY DEF every, FoldLeft, MapThenFoldSet
<1> HIDE DEF op, A, every
<1>f3. G \in [(1..N) \X A -> A] /\ \A n \in 1..N : \A v \in A : G[<<n, v>>] = op(v, n) BY <1>f1
<1> HIDE DEF G
<1>f4. PICK h : Folds(h, N, A, a, G) BY <1>n, <1>b, <1>f3, FoldThere
<1>f5. E(h) BY <1>n, <1>f3, <1>f4 DEF Folds
<1>f6. E(g) BY <1>f5, Zenon DEF g
<1> HIDE DEF g
<1>f7. FoldOf(g, N, A, a, G) BY <1>n, <1>f3, <1>f6, Zenon DEF FoldOf, E
<1> HIDE DEF E
<1>f8. a \in P[0] /\ \A n \in 1..N : \A v \in A : v \in P[n - 1] => G[<<n, v>>] \in P[n]
  <2>1. a \in P[0]
    <3> HIDE DEF A
    <3>1. Put(a, a, x, C(0)) BY DEF Put, C
    <3> QED BY <1>b, <3>1 DEF Hyp
  <2>2. ASSUME NEW n \in 1..N, NEW v \in A, v \in P[n - 1] PROVE op(v, n) \in P[n]
    <3> HIDE DEF P
    <3> QED BY <1>4, <2>2 DEF op
  <2> HIDE DEF P
  <2> QED BY <1>f3, <2>1, <2>2
<1> HIDE DEF P
<1>f9. Leads(N, A, a, G, P) BY <1>b, <1>f3, <1>f8 DEF Leads
<1>f10. every \in A /\ every \in P[N] BY <1>n, <1>f2, <1>f7, <1>f9, FoldEnds
<1>6. C(N) = ToSet(IF fails THEN Tail(s) ELSE s)
  <2>1. ToSet(s) = {s[i] : i \in 1..N} BY <1>n DEF ToSet
  <2> USE DEF C, H
  <2>2. CASE ~fails BY <2>1, <2>2
  <2>3. CASE fails
    <3>1. ToSet(Tail(s)) = ToSet(s) \ {Head(s)} BY <2>3, TailIs
    <3> QED BY <2>1, <2>3, <3>1
  <2> QED BY <2>2, <2>3
<1> DEFINE b == every
<1>7. MemOK(b) /\ OnLists(a, b) BY <1>f10 DEF A
<1>8. ASSUME b.fault = "none", Hyp
      PROVE  Core(b) /\ ToSet(s) \cap a.over = {} /\ Put(a, b, x, C(N))
  <2>1. Put(a, b, x, C(N)) /\ Core(b) /\ (\A i \in 1..N : s[i] \notin a.over) BY <1>f10, <1>8, <1>n DEF P
  <2>2. ToSet(s) = {s[i] : i \in 1..N} BY <1>n DEF ToSet
  <2> QED BY <2>1, <2>2
<1>10. b.fault = "none" => a.fault = "none" BY <1>f10, <1>n DEF P
<1> HIDE DEF b
<1>9. AddToContacts(a, x, s, fails) = b BY <1>e DEF b
<1> QED BY <1>9, <1>6, <1>7, <1>8, <1>10 DEF Hyp

\* ---- An object leaves its contacts
\* x has left the lists of the contacts C.
Pulled(a, v, x, C) ==
  \A c \in Contact : IF c \in C THEN ToSet(v.bundles[c]) = ToSet(a.bundles[c]) \ {x}
                     ELSE v.bundles[c] = a.bundles[c]

\* x is the only live object of the bundle.
Alone(a, x, id) == x \in DOMAIN a.rb /\ a.rb[x].live /\ a.rb[x].id = id /\ Only(a, x)

\* One of the contacts of RemoveFromContacts.
LEMMA RemoveStep ==
  ASSUME NEW a, NEW v, MemOK(v), OnLists(a, v), NEW C, NEW x, NEW id, Alone(a, x, id), Pulled(a, v, x, C), Core(v),
         NEW c \in Contact, NEW b, Removed(v, b, c, id), b.fault = "none"
  PROVE  Pulled(a, b, x, C \cup {c}) /\ Core(b)
<1>1. x \in DOMAIN v.rb /\ v.rb[x].live /\ v.rb[x].id = id /\ Only(v, x) BY DEF OnLists, Alone, Only
<1>2. ToSet(b.bundles[c]) = ToSet(v.bundles[c]) \ {x} /\ Core(b) /\ \A d \in Contact : d # c => b.bundles[d] = v.bundles[d]
  BY <1>1 DEF Removed
<1>3. ToSet(v.bundles[c]) = ToSet(a.bundles[c]) \ {x} \/ v.bundles[c] = a.bundles[c] BY DEF Pulled
<1> QED BY <1>2, <1>3 DEF Pulled

\* The loop over the contacts of an object.
LEMMA RemoveLoop ==
  ASSUME NEW a, MemOK(a), NEW s \in Seq(Contact), NEW id
  PROVE  LET b == RemoveFromContacts(a, s, id)
         IN  /\ MemOK(b) /\ OnLists(a, b)
             /\ b.fault = "none" =>
                  /\ ToSet(s) \cap a.over = {} /\ a.fault = "none"
                  /\ \A x : Alone(a, x, id) /\ Core(a) => Core(b) /\ Pulled(a, b, x, ToSet(s))
<1> DEFINE out(v, c) == IF v.fault # "none" THEN v ELSE router_remove_bundle_from_contact(v, c, id)
    every == FoldLeft(LAMBDA v, c : out(v, c), a, s)
    C(n) == {s[i] : i \in 1..n}
    A == {v \in Memory : MemOK(v) /\ OnLists(a, v)}
    Q(v, n) == \A x : Alone(a, x, id) /\ Core(a) => Core(v) /\ Pulled(a, v, x, C(n))
    P == [n \in Nat |-> {v \in A : v.fault = "none" =>
           (\A i \in 1..n : s[i] \notin a.over) /\ a.fault = "none" /\ Q(v, n)}]
<1>e. RemoveFromContacts(a, s, id) = every BY DEF RemoveFromContacts, ForEach
<1>n. PICK N \in Nat : N = Len(s) /\ DOMAIN s = 1..N OBVIOUS
<1>b. a \in A
  <2>1. OnLists(a, a) BY DEF OnLists, Fixed
  <2> QED BY <2>1 DEF MemOK
<1>1. ASSUME NEW v \in A, NEW n \in 1..N
      PROVE  /\ s[n] \in Contact /\ MemOK(v) /\ OnLists(a, v)
             /\ Removed(v, router_remove_bundle_from_contact(v, s[n], id), s[n], id)
  <2>1. s[n] \in Contact BY <1>n
  <2>2. MemOK(v) /\ OnLists(a, v) OBVIOUS
  <2> HIDE DEF A
  <2> QED BY <2>1, <2>2, RemoveEntry
<1>2. \A v, w, z : OnLists(v, w) /\ OnLists(w, z) => OnLists(v, z) BY DEF OnLists, Fixed
<1>3. ASSUME NEW v \in A, NEW n \in 1..N PROVE out(v, s[n]) \in A
  <2> DEFINE w == router_remove_bundle_from_contact(v, s[n], id)
  <2>1. MemOK(w) /\ OnLists(v, w) /\ OnLists(a, v) BY <1>1 DEF Removed
  <2> HIDE DEF w
  <2>2. w \in A BY <1>2, <2>1 DEF MemOK
  <2> QED BY <2>2 DEF w
<1>4. ASSUME NEW v \in A, NEW n \in 1..N, v \in P[n - 1] PROVE out(v, s[n]) \in P[n]
  <2> DEFINE w == router_remove_bundle_from_contact(v, s[n], id)
      o == out(v, s[n])
  <2>1. n - 1 \in Nat /\ n \in Nat BY <1>n
  <2>2. o \in A BY <1>3
  <2>3. ASSUME o.fault = "none"
        PROVE  (\A i \in 1..n : s[i] \notin a.over) /\ a.fault = "none" /\ Q(o, n)
    <3>1. v.fault = "none" /\ o = w BY <2>3
    <3>2. Q(v, n - 1) /\ (\A i \in 1..(n - 1) : s[i] \notin a.over) /\ a.fault = "none"
      BY <1>4, <2>1, <2>3, <3>1
    <3>3. C(n - 1) \cup {s[n]} = C(n)
      <4>1. \A i \in 1..n : i = n \/ i \in 1..(n - 1) BY <1>n
      <4>2. n \in 1..n /\ \A i \in 1..(n - 1) : i \in 1..n BY <1>n
      <4> QED BY <4>1, <4>2
    <3>4. s[n] \in Contact /\ MemOK(v) /\ OnLists(a, v) /\ Removed(v, w, s[n], id) /\ w.fault = "none" BY <1>1, <2>3, <3>1
    <3> HIDE DEF A, P, C, w
    <3>5. ASSUME NEW x, Alone(a, x, id), Core(a) PROVE Core(w) /\ Pulled(a, w, x, C(n))
      <4>1. Core(v) /\ Pulled(a, v, x, C(n - 1)) BY <3>2, <3>5
      <4>2. Pulled(a, w, x, C(n - 1) \cup {s[n]}) /\ Core(w) BY <3>4, <3>5, <4>1, RemoveStep
      <4> QED BY <3>3, <4>2
    <3>6. s[n] \notin a.over BY <3>4 DEF Removed, OnLists, Fixed
    <3> HIDE DEF o
    <3>7. \A i \in 1..n : s[i] \notin a.over
      <4>1. \A i \in 1..n : i = n \/ i \in 1..(n - 1) BY <1>n
      <4> QED BY <3>2, <3>6, <4>1
    <3> QED BY <3>1, <3>2, <3>5, <3>7
  <2> HIDE DEF o, A, Q
  <2> QED BY <2>1, <2>2, <2>3 DEF o
<1> HIDE DEF out, C
<1> DEFINE op(v, n) == out(v, s[n])
    G == [z \in (1..N) \X A |-> op(z[2], z[1])]
    E(h) == h = [x \in SUBSET (DOMAIN s) |-> IF x = {} THEN a ELSE op(h[x \ {Max(x)}], Max(x))]
    g == CHOOSE h : E(h)
<1>f1. ASSUME NEW n \in 1..N, NEW v \in A PROVE op(v, n) \in A
    BY <1>3
<1>f2. every = g[DOMAIN s] BY DEF every, FoldLeft, MapThenFoldSet
<1> HIDE DEF op, A, every
<1>f3. G \in [(1..N) \X A -> A] /\ \A n \in 1..N : \A v \in A : G[<<n, v>>] = op(v, n) BY <1>f1
<1> HIDE DEF G
<1>f4. PICK h : Folds(h, N, A, a, G) BY <1>n, <1>b, <1>f3, FoldThere
<1>f5. E(h) BY <1>n, <1>f3, <1>f4 DEF Folds
<1>f6. E(g) BY <1>f5, Zenon DEF g
<1> HIDE DEF g
<1>f7. FoldOf(g, N, A, a, G) BY <1>n, <1>f3, <1>f6, Zenon DEF FoldOf, E
<1> HIDE DEF E
<1>f8. a \in P[0] /\ \A n \in 1..N : \A v \in A : v \in P[n - 1] => G[<<n, v>>] \in P[n]
  <2>1. a \in P[0]
    <3> HIDE DEF A
    <3>2. \A x : Pulled(a, a, x, C(0)) BY DEF Pulled, C
    <3> QED BY <1>b, <3>2
  <2>2. ASSUME NEW n \in 1..N, NEW v \in A, v \in P[n - 1] PROVE op(v, n) \in P[n]
    <3> HIDE DEF P
    <3> QED BY <1>4, <2>2 DEF op
  <2> HIDE DEF P
  <2> QED BY <1>f3, <2>1, <2>2
<1> HIDE DEF P
<1>f9. Leads(N, A, a, G, P) BY <1>b, <1>f3, <1>f8 DEF Leads
<1>f10. every \in A /\ every \in P[N] BY <1>n, <1>f2, <1>f7, <1>f9, FoldEnds
<1> DEFINE b == every
<1>7. MemOK(b) /\ OnLists(a, b) BY <1>f10 DEF A
<1>6. C(N) = ToSet(s) BY <1>n DEF ToSet, C
<1>8. ASSUME b.fault = "none"
      PROVE  ToSet(s) \cap a.over = {} /\ a.fault = "none" /\ Q(b, N)
  <2>1. (\A i \in 1..N : s[i] \notin a.over) /\ a.fault = "none" /\ Q(b, N)
    <3> HIDE DEF Q
    <3> QED BY <1>f10, <1>8, <1>n DEF P
  <2>2. ToSet(s) = {s[i] : i \in 1..N} BY <1>n DEF ToSet
  <2> HIDE DEF Q
  <2> QED BY <2>1, <2>2
<1> HIDE DEF b
<1>9. RemoveFromContacts(a, s, id) = b BY <1>e DEF b
<1> QED BY <1>6, <1>7, <1>8, <1>9

\* ---- A new route for an object (router_update_routed_bundle)
\* Object y is another version of object x.
SameObject(x, y) ==
  /\ y.live = x.live /\ y.id = x.id /\ y.dest = x.dest /\ y.prio = x.prio /\ y.size = x.size

\* Object x has got the contacts q, and is to be transmitted.
Rerouted(a, b, x, q) ==
  /\ Fixed(a, b) /\ b.store = a.store /\ b.rq = a.rq /\ DOMAIN b.rb = DOMAIN a.rb /\ Len(b.rb) = Len(a.rb)
  /\ \A y \in DOMAIN a.rb : y # x => b.rb[y] = a.rb[y]
  /\ SameObject(a.rb[x], b.rb[x]) /\ b.rb[x].contacts = q

\* router_update_routed_bundle
LEMMA UpdateIs ==
  ASSUME NEW a, MemOK(a), NEW route \in GoodRoute, NEW x \in DOMAIN a.rb, NEW fails \in BOOLEAN
  PROVE  LET b == router_update_routed_bundle(a, route, x, fails)
             q == IF fails THEN Tail(route.contacts) ELSE route.contacts
         IN  /\ MemOK(b) /\ Rerouted(a, b, x, q)
             /\ b.fault = "none" => a.fault = "none"
             /\ b.fault = "none" /\ Core(a) /\ Off(a, x) =>
                  Core(b) /\ Put(a, b, x, ToSet(q)) /\ ToSet(q) \cap a.over = {}
<1> DEFINE s == route.contacts
    q == IF fails THEN Tail(s) ELSE s
    r == [a.rb[x] EXCEPT !.improved = route.improved, !.contacts = q, !.serialized = 0]
    d == SetObject(a, x, r)
    b == AddToContacts(d, x, s, fails)
<1>1. router_update_routed_bundle(a, route, x, fails) = b BY Zenon DEF router_update_routed_bundle, SetObject
<1>2. s \in Seq(Contact) /\ IsInjective(s) /\ Len(s) <= MaxContacts /\ route.improved \in Nat BY DEF GoodRoute, RouteOK, Route
<1>3. s # <<>> BY FeasibleIs DEF GoodRoute
<1>4. q \in Seq(Contact) /\ IsInjective(q) /\ Len(q) <= MaxContacts /\ ToSet(q) \subseteq ToSet(s)
  <2> HIDE DEF s
  <2>1. /\ Tail(s) \in Seq(Contact) /\ Len(Tail(s)) = Len(s) - 1 /\ IsInjective(Tail(s))
        /\ ToSet(Tail(s)) = ToSet(s) \ {Head(s)} BY <1>2, <1>3, TailIs
  <2>2. Len(s) \in Nat /\ MaxContacts \in Nat BY <1>2, Constants
  <2> QED BY <1>2, <2>1, <2>2
<1> HIDE DEF q, s
<1>5. a.rb[x] \in RoutedBundle /\ ObjectOK(a, a.rb[x]) BY ObjectIs
<1>6. r \in RoutedBundle /\ r.contacts = q /\ SameObject(a.rb[x], r)
  <2>1. 0 \in Nat OBVIOUS
  <2> QED BY <1>2, <1>4, <1>5, <2>1 DEF RoutedBundle, SameObject
<1> HIDE DEF r
<1>7. ObjectOK(a, r) BY <1>4, <1>5, <1>6 DEF ObjectOK, SameObject
<1>8. /\ MemOK(d) /\ Fixed(a, d) /\ d.fault = a.fault /\ d.rq = a.rq /\ d.store = a.store
      /\ d.bundles = a.bundles /\ d.left = a.left
      /\ d.rb = [a.rb EXCEPT ![x] = r] /\ DOMAIN d.rb = DOMAIN a.rb /\ Len(d.rb) = Len(a.rb)
  BY <1>7, SetObjectIs
<1> HIDE DEF d
<1>9. \A y \in DOMAIN a.rb : d.rb[y] = IF y = x THEN r ELSE a.rb[y] BY <1>8
<1>10. Rerouted(a, d, x, q) BY <1>6, <1>8, <1>9 DEF Rerouted
<1>11. x \in DOMAIN d.rb BY <1>8
<1>12. /\ MemOK(b) /\ OnLists(d, b)
       /\ b.fault = "none" => d.fault = "none"
       /\ b.fault = "none" /\ Core(d) /\ Off(d, x) =>
            Core(b) /\ ToSet(s) \cap d.over = {} /\ Put(d, b, x, ToSet(q))
  BY <1>2, <1>3, <1>8, <1>11, AddLoop DEF q
<1> HIDE DEF b
<1>13. Rerouted(a, b, x, q) BY <1>10, <1>12 DEF Rerouted, OnLists, Fixed
<1>14. ASSUME Core(a) PROVE Core(d)
  <2>1. \A y \in DOMAIN a.rb : y \in DOMAIN d.rb /\ d.rb[y].prio = a.rb[y].prio /\ d.rb[y].size = a.rb[y].size
    BY <1>6, <1>8, <1>9 DEF SameObject
  <2> QED BY <1>8, <1>14, <2>1, CoreSame
<1>15. Off(a, x) => Off(d, x) BY <1>8 DEF Off
<1>16. Put(d, b, x, ToSet(q)) => Put(a, b, x, ToSet(q)) BY <1>8 DEF Put
<1>17. d.over = a.over BY <1>8 DEF Fixed
<1> QED BY <1>1, <1>4, <1>8, <1>12, <1>13, <1>14, <1>15, <1>16, <1>17 DEF q, s

\* An object that was on no list is on those of its contacts then, and the
\* others are where they were.
LEMMA ListedAgain ==
  ASSUME NEW a, MemOK(a), NEW b, NEW x \in DOMAIN a.rb, NEW q, Rerouted(a, b, x, q), Off(a, x), Put(a, b, x, ToSet(q))
  PROVE  Listed(b, x) /\ \A y \in DOMAIN a.rb : y # x /\ Listed(a, y) => Listed(b, y)
<1>1. a.bundles \in [Contact -> Seq(Nat)] /\ x \in Nat BY MemoryIs, ObjectIs
<1>2. \A c \in Contact : ToSet(b.bundles[c]) = ToSet(a.bundles[c]) \cup (IF c \in ToSet(q) THEN {x} ELSE {})
  <2>1. \A c \in Contact : ToSet(Append(a.bundles[c], x)) = ToSet(a.bundles[c]) \cup {x}
    <3>1. ASSUME NEW c \in Contact PROVE ToSet(Append(a.bundles[c], x)) = ToSet(a.bundles[c]) \cup {x}
      <4> DEFINE s == a.bundles[c]
      <4>1. s \in Seq(Nat) BY <1>1
      <4> HIDE DEF s
      <4>2. ToSet(Append(s, x)) = ToSet(s) \cup {x} BY <1>1, <4>1, SetOfAppend
      <4> QED BY <4>2 DEF s
    <3> QED BY <3>1
  <2> QED BY <2>1 DEF Put
<1>3. b.over = a.over /\ b.handed = a.handed /\ b.rb[x].contacts = q /\ \A y \in DOMAIN a.rb : y # x => b.rb[y] = a.rb[y]
  BY DEF Rerouted, Fixed
<1>4. Listed(b, x) BY <1>2, <1>3 DEF Listed, Off
<1>5. ASSUME NEW y \in DOMAIN a.rb, y # x, Listed(a, y) PROVE Listed(b, y)
  <2>1. b.rb[y] = a.rb[y] BY <1>3, <1>5
  <2>2. \A c \in Contact : y \in ToSet(b.bundles[c]) <=> y \in ToSet(a.bundles[c]) BY <1>2, <1>5
  <2> QED BY <1>3, <1>5, <2>1, <2>2 DEF Listed
<1> QED BY <1>4, <1>5

\* ---- A new object (router_add_bundle_to_route)
\* There is one object more, for bundle id; if it is live, the bundle is routed.
Grown(a, b, id) ==
  /\ Fixed(a, b) /\ DOMAIN b.store = DOMAIN a.store /\ Len(b.store) = Len(a.store)
  /\ Len(b.rb) = Len(a.rb) + 1 /\ DOMAIN b.rb = 1..(Len(a.rb) + 1)
  /\ \A y \in DOMAIN a.rb : b.rb[y] = a.rb[y]
  /\ \A j \in DOMAIN a.store : /\ b.store[j].of = a.store[j].of
                               /\ j # id => b.store[j] = a.store[j]
  /\ SameBundles(a, b)
  /\ b.rb[Len(a.rb) + 1].id = id
  /\ b.store[id].status = IF b.rb[Len(a.rb) + 1].live THEN "routed" ELSE a.store[id].status

\* The bundle may be routed: it waits for that, or it is a fragment of p.
Spare(a, id, p) == /\ id \in DOMAIN a.store
                   /\ a.store[id].status = "bp" \/ (a.store[id].status = "gone" /\ a.store[id].of = p)

\* What is known of the lists when the object has been added.
LEMMA GrownGood ==
  ASSUME NEW a, MemOK(a), NEW p, Good(a, p), NEW id, Spare(a, id, p), NEW b, Grown(a, b, id), Core(b),
         \A y \in DOMAIN a.rb : Listed(a, y) => Listed(b, y),
         b.rb[Len(a.rb) + 1].live => Listed(b, Len(a.rb) + 1)
  PROVE  Good(b, p)
<1> DEFINE x == Len(a.rb) + 1
<1>1. DOMAIN a.rb = 1..Len(a.rb) /\ Len(a.rb) \in Nat BY ObjectIs
<1>2. x \in DOMAIN b.rb /\ x \notin DOMAIN a.rb /\ \A y \in DOMAIN b.rb : y = x \/ y \in DOMAIN a.rb
  BY <1>1 DEF Grown
<1>3. /\ \A y \in DOMAIN a.rb : b.rb[y] = a.rb[y] /\ y \in DOMAIN b.rb
      /\ DOMAIN b.store = DOMAIN a.store
      /\ \A j \in DOMAIN a.store : b.store[j].of = a.store[j].of /\ (j # id => b.store[j] = a.store[j])
      /\ b.rb[x].id = id /\ b.store[id].status = IF b.rb[x].live THEN "routed" ELSE a.store[id].status
  BY <1>1 DEF Grown
<1>4. a.store[id].status # "routed" /\ a.store[id].status # "replaced" /\ id \in DOMAIN a.store /\ ~Ended(a.store[id])
  BY DEF Spare, Ended
<1>5. \A y \in DOMAIN a.rb : a.rb[y].id \in DOMAIN a.store BY DEF MemOK
<1>6. Unique(a) /\ Family(a, p) /\ Fits(a, {}) /\ Tiled(a, p) BY DEF Good
<1> HIDE DEF x
<1>7. Fits(b, {})
  <2>1. b.rb[x].live => Listed(b, x) BY DEF x
  <2>2. \A y \in DOMAIN a.rb : a.rb[y].live => Listed(b, y) BY <1>6 DEF Fits
  <2> QED BY <1>2, <1>3, <2>1, <2>2 DEF Fits
<1>8. \A y \in DOMAIN a.rb : a.rb[y].live => a.rb[y].id # id BY <1>4, <1>6 DEF Unique
<1>9. ASSUME NEW y \in DOMAIN b.rb, b.rb[y].live PROVE b.store[b.rb[y].id].status = "routed" /\ Only(b, y)
  <2>1. CASE y = x
    <3>1. b.store[b.rb[y].id].status = "routed" BY <1>3, <1>9, <2>1
    <3>2. \A z \in DOMAIN b.rb : b.rb[z].live /\ b.rb[z].id = b.rb[x].id => z = x BY <1>2, <1>3, <1>8
    <3> QED BY <2>1, <3>1, <3>2 DEF Only
  <2>2. CASE y \in DOMAIN a.rb
    <3>1. a.rb[y].live /\ a.rb[y].id # id /\ b.rb[y] = a.rb[y] BY <1>3, <1>8, <1>9, <2>2
    <3>2. b.store[b.rb[y].id].status = "routed" BY <1>3, <1>5, <1>6, <2>2, <3>1 DEF Unique
    <3>3. Only(a, y) BY <1>6, <2>2, <3>1 DEF Unique
    <3>4. Only(b, y) BY <1>2, <1>3, <3>1, <3>3 DEF Only
    <3> QED BY <3>2, <3>4
  <2> QED BY <1>2, <2>1, <2>2
<1>10. ASSUME NEW i \in DOMAIN b.store, b.store[i].status = "routed" PROVE \E y \in DOMAIN b.rb : b.rb[y].live /\ b.rb[y].id = i
  <2>1. CASE i = id BY <1>2, <1>3, <1>4, <1>10, <2>1
  <2>2. CASE i # id
    <3>1. a.store[i].status = "routed" /\ i \in DOMAIN a.store BY <1>3, <1>10, <2>2
    <3>2. PICK y \in DOMAIN a.rb : a.rb[y].live /\ a.rb[y].id = i BY <1>6, <3>1 DEF Unique
    <3> QED BY <1>3, <3>2
  <2> QED BY <2>1, <2>2
<1>11. Unique(b) BY <1>9, <1>10 DEF Unique
<1>12. Family(b, p)
  <2>1. ASSUME NEW i \in DOMAIN b.store, b.store[i].of # 0
        PROVE /\ b.store[i].of \in DOMAIN b.store
              /\ Active(b.store[i]) /\ b.store[i].of # p => b.store[b.store[i].of].status = "replaced"
    <3>1. i \in DOMAIN a.store /\ a.store[i].of # 0 /\ b.store[i].of = a.store[i].of BY <1>3, <2>1
    <3>2. a.store[i].of \in DOMAIN a.store
          /\ (Active(a.store[i]) /\ a.store[i].of # p => a.store[a.store[i].of].status = "replaced")
      BY <1>6, <3>1 DEF Family
    <3>3. ASSUME Active(b.store[i]), b.store[i].of # p PROVE b.store[b.store[i].of].status = "replaced"
      <4>1. Active(a.store[i])
        <5>1. CASE i = id BY <3>1, <3>3, <5>1 DEF Spare, Active
        <5>2. CASE i # id BY <1>3, <3>1, <3>3, <5>2
        <5> QED BY <5>1, <5>2
      <4>2. a.store[a.store[i].of].status = "replaced" BY <3>1, <3>2, <3>3, <4>1
      <4>3. a.store[i].of # id BY <1>4, <4>2
      <4> QED BY <1>3, <3>1, <3>2, <4>2, <4>3
    <3> QED BY <1>3, <3>1, <3>2, <3>3
  <2> QED BY <2>1 DEF Family
<1>13. Tiled(b, p)
  <2>1. SameBundles(a, b) BY DEF Grown
  <2>2. \A j \in DOMAIN a.store : Ended(a.store[j]) => Ended(b.store[j]) BY <1>3, <1>4
  <2>3. \A j \in DOMAIN a.store : b.store[j].status = "replaced" => a.store[j].status = "replaced" BY <1>3, <1>4
  <2> QED BY <1>6, <2>1, <2>2, <2>3, TiledSame
<1> QED BY <1>7, <1>11, <1>12, <1>13 DEF Good

\* An object that is live is on the lists of its contacts, and it is live if
\* no allocation fails.
RouteAdded(a, b, route, id, fails) ==
  /\ MemOK(b) /\ Grown(a, b, id)
  /\ ~fails => b.rb[Len(a.rb) + 1].live /\ b.rb[Len(a.rb) + 1].contacts = route.contacts
  /\ b.fault = "none" => a.fault = "none" /\ \A p : Good(a, p) /\ Spare(a, id, p) => Good(b, p)

\* router_add_bundle_to_route
LEMMA AddToRouteIs ==
  ASSUME NEW a, MemOK(a), NEW route \in GoodRoute, NEW id \in DOMAIN a.store, NEW fails \in BOOLEAN
  PROVE  RouteAdded(a, router_add_bundle_to_route(a, route, id, fails), route, id, fails)
<1> DEFINE e == a.store[id]
    none == <<>>
    size == bundle_get_serialized_size(e.bundle)
    prio == bundle_get_routing_priority(e.bundle, e.own)
    rb == [live |-> TRUE, id |-> id, dest |-> e.dest, contacts |-> none, improved |-> 0,
           prio |-> prio, size |-> size, serialized |-> 0]
    x == Len(a.rb) + 1
    d == AddObject(a, rb)
    u == router_update_routed_bundle(d, route, x, fails)
    r == [u.rb[x] EXCEPT !.live = FALSE, !.contacts = none]
    F(v) == IF Unrouted(v, x) THEN Drop(v, x) ELSE SetStatus(v, id, "routed")
    b == router_add_bundle_to_route(a, route, id, fails)
<1>1. b = CHOOSE w \in {F(v) : v \in {u}} : TRUE
  BY Zenon DEF router_add_bundle_to_route, With, SetStatus, AddObject
<1>2. Drop(u, x) = SetObject(u, x, r) BY Zenon DEF Drop, SetObject
<1>3. e \in Entry /\ DOMAIN a.store = 1..Len(a.store) /\ Len(a.rb) \in Nat /\ DOMAIN a.rb = 1..Len(a.rb) BY ObjectIs
<1>4. none \in Seq(Contact) /\ Len(none) = 0 /\ IsInjective(none) BY DEF IsInjective
<1>5. rb \in RoutedBundle /\ rb.id = id /\ rb.contacts = none /\ rb.live
  <2>1. prio \in Prio BY PriorityIs
  <2>2. e.bundle \in Bundles /\ e.dest \in STRING BY <1>3 DEF Entry
  <2>3. size \in Nat BY <2>2, SizesNat
  <2>4. id \in Nat /\ 0 \in Nat /\ TRUE \in BOOLEAN BY <1>3
  <2> HIDE DEF prio, size, none, e
  <2> QED BY <1>4, <2>1, <2>2, <2>3, <2>4 DEF RoutedBundle
<1> HIDE DEF rb, none
<1>6. ObjectOK(a, rb)
  <2>1. MaxContacts \in Nat BY Constants
  <2> QED BY <1>4, <1>5, <2>1 DEF ObjectOK
<1>7. /\ MemOK(d) /\ Fixed(a, d) /\ d.fault = a.fault /\ d.rq = a.rq /\ d.store = a.store
      /\ d.bundles = a.bundles /\ d.left = a.left
      /\ Len(d.rb) = Len(a.rb) + 1 /\ DOMAIN d.rb = 1..(Len(a.rb) + 1) /\ d.rb[Len(a.rb) + 1] = rb
      /\ \A y \in DOMAIN a.rb : d.rb[y] = a.rb[y]
  BY <1>6, AddObjectIs
<1>8. x \in DOMAIN d.rb /\ x \notin DOMAIN a.rb /\ \A y \in DOMAIN a.rb : y \in DOMAIN d.rb BY <1>3, <1>7
<1> HIDE DEF d
<1> DEFINE q == IF fails THEN Tail(route.contacts) ELSE route.contacts
<1>9. /\ MemOK(u) /\ Rerouted(d, u, x, q)
      /\ u.fault = "none" => d.fault = "none"
      /\ u.fault = "none" /\ Core(d) /\ Off(d, x) =>
           Core(u) /\ Put(d, u, x, ToSet(q)) /\ ToSet(q) \cap d.over = {}
  BY <1>7, <1>8, UpdateIs
<1>10. ~fails => q = route.contacts /\ q # <<>> BY FeasibleIs DEF GoodRoute
<1> HIDE DEF u, q
<1>11. b = F(u)
  <2> HIDE DEF F, b
  <2>1. {F(v) : v \in {u}} = {F(u)} OBVIOUS
  <2> QED BY <1>1, <2>1, OneValue
<1>12. x \in DOMAIN u.rb /\ id \in DOMAIN u.store /\ u.rb[x] \in RoutedBundle /\ ObjectOK(u, u.rb[x])
       /\ u.store = a.store /\ u.fault = u.fault
  <2>1. x \in DOMAIN u.rb /\ u.store = a.store BY <1>7, <1>8, <1>9 DEF Rerouted
  <2> HIDE DEF x
  <2> QED BY <1>9, <2>1, ObjectIs
<1>13. r \in RoutedBundle /\ r.contacts = none /\ r.id = u.rb[x].id /\ r.prio = u.rb[x].prio /\ r.size = u.rb[x].size /\ ~r.live
  <2> HIDE DEF x
  <2> QED BY <1>4, <1>12 DEF RoutedBundle
<1>14. ObjectOK(u, r)
  <2>1. MaxContacts \in Nat BY Constants
  <2> HIDE DEF r, x
  <2> QED BY <1>4, <1>12, <1>13, <2>1 DEF ObjectOK
<1> HIDE DEF r, b
\* The object is on no list in the beginning.
<1>15. Off(d, x)
  <2>1. \A c \in Contact : ToSet(a.bundles[c]) \subseteq DOMAIN a.rb BY DEF MemOK
  <2> QED BY <1>7, <1>8, <2>1 DEF Off
<1>16. ASSUME Unrouted(u, x)
       PROVE  /\ MemOK(b) /\ Fixed(u, b) /\ b.fault = u.fault /\ b.store = u.store /\ b.bundles = u.bundles /\ b.left = u.left
              /\ DOMAIN b.rb = DOMAIN u.rb /\ Len(b.rb) = Len(u.rb) /\ ~b.rb[x].live /\ b.rb[x].id = u.rb[x].id
              /\ b.rb[x].prio = u.rb[x].prio /\ b.rb[x].size = u.rb[x].size
              /\ \A y \in DOMAIN u.rb : y # x => b.rb[y] = u.rb[y]
  <2> DEFINE w == SetObject(u, x, r)
  <2> HIDE DEF x
  <2>1. /\ MemOK(w) /\ Fixed(u, w) /\ w.fault = u.fault /\ w.rq = u.rq /\ w.store = u.store
        /\ w.bundles = u.bundles /\ w.left = u.left
        /\ w.rb = [u.rb EXCEPT ![x] = r] /\ DOMAIN w.rb = DOMAIN u.rb /\ Len(w.rb) = Len(u.rb)
    BY <1>9, <1>12, <1>14, SetObjectIs
  <2> HIDE DEF w
  <2>2. b = w BY <1>2, <1>11, <1>16 DEF w
  <2>3. w.rb[x] = r /\ \A y \in DOMAIN u.rb : y # x => w.rb[y] = u.rb[y] BY <1>12, <2>1
  <2> QED BY <1>13, <2>1, <2>2, <2>3
<1>17. ASSUME ~Unrouted(u, x)
       PROVE  /\ MemOK(b) /\ Fixed(u, b) /\ b.fault = u.fault /\ b.rb = u.rb /\ b.bundles = u.bundles /\ b.left = u.left
              /\ DOMAIN b.store = DOMAIN u.store /\ Len(b.store) = Len(u.store) /\ b.store[id].status = "routed"
              /\ \A j \in DOMAIN u.store : b.store[j].of = u.store[j].of /\ (j # id => b.store[j] = u.store[j])
              /\ SameBundles(u, b)
  <2> DEFINE w == SetStatus(u, id, "routed")
  <2>0. "routed" \in Status BY DEF Status
  <2>1. /\ MemOK(w) /\ Fixed(u, w) /\ w.fault = u.fault /\ w.rq = u.rq /\ w.rb = u.rb
        /\ w.bundles = u.bundles /\ w.left = u.left
        /\ DOMAIN w.store = DOMAIN u.store /\ Len(w.store) = Len(u.store)
        /\ \A j \in DOMAIN u.store : /\ w.store[j].status = IF j = id THEN "routed" ELSE u.store[j].status
                                     /\ w.store[j].of = u.store[j].of
                                     /\ j # id => w.store[j] = u.store[j]
        /\ SameBundles(u, w)
    BY <1>9, <1>12, <2>0, SetStatusIs
  <2> HIDE DEF w
  <2>2. b = w BY <1>11, <1>17 DEF w
  <2> QED BY <1>12, <2>1, <2>2
<1>18. MemOK(b) /\ b.fault = u.fault BY <1>16, <1>17
<1>19. /\ DOMAIN u.rb = 1..(Len(a.rb) + 1) /\ Len(u.rb) = Len(a.rb) + 1 /\ Fixed(a, u)
       /\ u.rb[x].id = id /\ u.rb[x].live /\ u.rb[x].contacts = q /\ \A y \in DOMAIN a.rb : y # x /\ y \in DOMAIN u.rb /\ u.rb[y] = a.rb[y]
  BY <1>5, <1>7, <1>8, <1>9 DEF Rerouted, Fixed, SameObject
<1>20. /\ Fixed(a, b) /\ DOMAIN b.store = DOMAIN a.store /\ Len(b.store) = Len(a.store)
       /\ Len(b.rb) = Len(a.rb) + 1 /\ DOMAIN b.rb = 1..(Len(a.rb) + 1)
       /\ (\A y \in DOMAIN a.rb : b.rb[y] = a.rb[y]) /\ b.rb[x].id = id
       /\ \A j \in DOMAIN a.store : /\ b.store[j].of = a.store[j].of
                                    /\ j # id => b.store[j] = a.store[j]
  <2>1. Fixed(a, b) BY <1>16, <1>17, <1>19 DEF Fixed
  <2> HIDE DEF x, F
  <2> QED BY <1>12, <1>16, <1>17, <1>19, <2>1
<1>20b. SameBundles(a, b) BY <1>12, <1>16, <1>17 DEF SameBundles
<1>21. b.store[id].status = IF b.rb[x].live THEN "routed" ELSE a.store[id].status
  <2> HIDE DEF x
  <2> QED BY <1>12, <1>16, <1>17, <1>19
<1>22. Grown(a, b, id) BY <1>20, <1>20b, <1>21 DEF Grown
<1>23. ~fails => b.rb[x].live /\ b.rb[x].contacts = route.contacts
  <2> HIDE DEF x
  <2> QED BY <1>10, <1>17, <1>19 DEF Unrouted
<1>24. ASSUME b.fault = "none" PROVE a.fault = "none" /\ \A p : Good(a, p) /\ Spare(a, id, p) => Good(b, p)
  <2>0. b.bundles = u.bundles BY <1>16, <1>17
  <2>1. (Core(a) => Core(b) /\ \A y \in DOMAIN a.rb : Listed(a, y) => Listed(b, y))
        /\ (Core(a) /\ b.rb[x].live => Listed(b, x))
    <3>1. Core(a) => Core(d)
      <4> HIDE DEF x
      <4> QED BY <1>7, <1>8, CoreSame
    <3>2. ASSUME Core(a) PROVE Core(u) /\ Put(d, u, x, ToSet(q))
      BY <1>7, <1>9, <1>15, <1>18, <1>24, <3>1, <3>2
    <3>3. ASSUME Core(a) PROVE Core(b)
      <4>1. Core(u) BY <3>2, <3>3
      <4>2. Fixed(u, b) /\ b.left = u.left /\ \A y \in DOMAIN u.rb : y \in DOMAIN b.rb /\ b.rb[y].prio = u.rb[y].prio /\ b.rb[y].size = u.rb[y].size
        <5> HIDE DEF x
        <5> QED BY <1>16, <1>17
      <4> QED BY <1>9, <2>0, <4>1, <4>2, CoreSame
    <3>4. ASSUME Core(a) PROVE Listed(u, x) /\ \A y \in DOMAIN d.rb : y # x /\ Listed(d, y) => Listed(u, y)
      <4>1. Put(d, u, x, ToSet(q)) BY <3>2, <3>4
      <4> HIDE DEF x
      <4> QED BY <1>7, <1>8, <1>9, <1>15, <4>1, ListedAgain
    <3>5. \A y \in DOMAIN a.rb : Listed(a, y) => Listed(d, y) /\ y # x /\ y \in DOMAIN d.rb
      <4> HIDE DEF x
      <4> QED BY <1>7, <1>8 DEF Listed, Fixed
    <3>6. \A y \in DOMAIN u.rb : Listed(u, y) /\ (y # x \/ b.rb[x].live) => Listed(b, y)
      <4> HIDE DEF x
      <4>1. b.over = u.over /\ b.handed = u.handed BY <1>16, <1>17 DEF Fixed
      <4>2. \A y \in DOMAIN u.rb : y # x \/ b.rb[x].live => b.rb[y] = u.rb[y] BY <1>16, <1>17
      <4> QED BY <2>0, <4>1, <4>2 DEF Listed
    <3>7. \A y \in DOMAIN a.rb : y \in DOMAIN u.rb BY <1>19
    <3> QED
      <4> HIDE DEF x
      <4> QED BY <1>12, <3>2, <3>3, <3>4, <3>5, <3>6, <3>7
  <2>2. ASSUME NEW p, Good(a, p), Spare(a, id, p) PROVE Good(b, p)
    <3>1. Core(a) BY <2>2 DEF Good
    <3> QED BY <1>22, <2>1, <2>2, <3>1, GrownGood
  <2>3. a.fault = "none" BY <1>7, <1>9, <1>18, <1>24
  <2> QED BY <2>2, <2>3
<1>25. RouteAdded(a, b, route, id, fails) BY <1>18, <1>22, <1>23, <1>24 DEF RouteAdded
<1> QED BY <1>25 DEF b

\* ---- An object is freed (router_remove_bundle_from_route)
\* The objects X are freed.
Freed(a, b, X) ==
  /\ Fixed(a, b) /\ b.store = a.store /\ b.rq = a.rq /\ DOMAIN b.rb = DOMAIN a.rb /\ Len(b.rb) = Len(a.rb)
  /\ \A y \in DOMAIN a.rb :
       /\ b.rb[y].live <=> a.rb[y].live /\ y \notin X
       /\ b.rb[y].id = a.rb[y].id /\ b.rb[y].contacts = a.rb[y].contacts
       /\ b.rb[y].prio = a.rb[y].prio /\ b.rb[y].size = a.rb[y].size

\* Freeing of objects as one change of the memory.
SetObjects(a, rb) == [a EXCEPT !.rb = rb]

\* What SetObjects does to the memory.
LEMMA SetObjectsIs ==
  ASSUME NEW a, MemOK(a), NEW X
  PROVE  LET b == SetObjects(a, [y \in DOMAIN a.rb |-> IF y \in X THEN [a.rb[y] EXCEPT !.live = FALSE] ELSE a.rb[y]])
         IN  MemOK(b) /\ Freed(a, b, X) /\ b.fault = a.fault /\ b.bundles = a.bundles /\ b.left = a.left
<1> DEFINE r(y) == [a.rb[y] EXCEPT !.live = FALSE]
    rb == [y \in DOMAIN a.rb |-> IF y \in X THEN r(y) ELSE a.rb[y]]
    b == SetObjects(a, rb)
<1>1. a \in Memory BY DEF MemOK
<1>2. DOMAIN a.rb = 1..Len(a.rb) /\ Len(a.rb) \in Nat /\ \A y \in DOMAIN a.rb : a.rb[y] \in RoutedBundle /\ ObjectOK(a, a.rb[y])
  BY ObjectIs
<1>3. ASSUME NEW y \in DOMAIN a.rb
      PROVE  /\ r(y) \in RoutedBundle /\ ~r(y).live /\ r(y).id = a.rb[y].id /\ r(y).contacts = a.rb[y].contacts
             /\ r(y).prio = a.rb[y].prio /\ r(y).size = a.rb[y].size
  <2>1. a.rb[y] \in RoutedBundle /\ FALSE \in BOOLEAN BY <1>2
  <2> QED BY <2>1 DEF RoutedBundle
<1> HIDE DEF r
<1>4. rb \in Seq(RoutedBundle) /\ DOMAIN rb = DOMAIN a.rb /\ Len(rb) = Len(a.rb)
  <2>1. rb \in [1..Len(a.rb) -> RoutedBundle] BY <1>2, <1>3
  <2> HIDE DEF rb
  <2> QED BY <1>2, <2>1
<1>5. \A y \in DOMAIN a.rb : rb[y] = IF y \in X THEN r(y) ELSE a.rb[y] OBVIOUS
<1> HIDE DEF rb
<1>6. ASSUME NEW y \in DOMAIN a.rb
      PROVE  /\ ObjectOK(a, rb[y]) /\ (rb[y].live <=> a.rb[y].live /\ y \notin X)
             /\ rb[y].id = a.rb[y].id /\ rb[y].contacts = a.rb[y].contacts
             /\ rb[y].prio = a.rb[y].prio /\ rb[y].size = a.rb[y].size
  <2>1. CASE y \in X BY <1>2, <1>3, <1>5, <2>1 DEF ObjectOK
  <2>2. CASE y \notin X BY <1>2, <1>5, <2>2
  <2> QED BY <2>1, <2>2
<1>7. b = [a EXCEPT !.rb = rb] BY Zenon DEF SetObjects
<1> HIDE DEF b
<1>8. /\ b \in Memory /\ b.bundles = a.bundles /\ b.left = a.left /\ b.fault = a.fault /\ b.rb = rb /\ b.store = a.store
      /\ b.rq = a.rq /\ b.handed = a.handed /\ b.over = a.over /\ b.rate = a.rate /\ b.total = a.total
  BY <1>1, <1>4, <1>7 DEF Memory
<1>9. MemOK(b) BY <1>4, <1>6, <1>8 DEF MemOK, ObjectOK
<1>10. Freed(a, b, X) BY <1>4, <1>6, <1>8 DEF Freed, Fixed
<1> QED BY <1>8, <1>9, <1>10 DEF b, rb, r

\* router_remove_bundle_from_route with the contacts of the only live object of
\* a bundle, which is on one of their lists: it is freed, and is on no list.
Unlisted(a, b, x) == /\ Freed(a, b, {x}) /\ Core(b)
                     /\ \A c \in Contact : ToSet(b.bundles[c]) = ToSet(a.bundles[c]) \ {x}

RouteRemoved(a, b, s, id) ==
  /\ MemOK(b) /\ \E X : Freed(a, b, X)
  /\ b.fault = "none" =>
       \A x : /\ Alone(a, x, id) /\ Core(a) /\ Listed(a, x) /\ a.rb[x].contacts = s
              /\ \E c \in ToSet(s) : x \in ToSet(a.bundles[c]) \/ x \notin ToSet(a.handed[c])
              => Unlisted(a, b, x)

\* router_remove_bundle_from_route
LEMMA RemoveFromRouteIs ==
  ASSUME NEW a, MemOK(a), NEW s \in Seq(Contact), NEW id
  PROVE  RouteRemoved(a, router_remove_bundle_from_route(a, s, id), s, id)
<1> DEFINE xs == {x \in DOMAIN a.rb : a.rb[x].id = id /\ \E i \in DOMAIN s : x \in ToSet(a.bundles[s[i]])}
    v == RemoveFromContacts(a, s, id)
    X == {x \in xs : v.fault = "none"}
    F(u) == SetObjects(u, [x \in DOMAIN u.rb |-> IF x \in xs /\ u.fault = "none"
                                                THEN [u.rb[x] EXCEPT !.live = FALSE] ELSE u.rb[x]])
    rb == [y \in DOMAIN v.rb |-> IF y \in X THEN [v.rb[y] EXCEPT !.live = FALSE] ELSE v.rb[y]]
    b == SetObjects(v, rb)
<1>1. router_remove_bundle_from_route(a, s, id) = CHOOSE w \in {F(u) : u \in {v}} : TRUE
  BY Zenon DEF router_remove_bundle_from_route, With, SetObjects
<1>2. F(v) = b
  <2> HIDE DEF v, xs
  <2>1. \A x : x \in xs /\ v.fault = "none" <=> x \in X OBVIOUS
  <2> HIDE DEF X
  <2> QED BY <2>1
<1>3. /\ MemOK(v) /\ OnLists(a, v)
      /\ v.fault = "none" =>
           /\ ToSet(s) \cap a.over = {} /\ a.fault = "none"
           /\ \A x : Alone(a, x, id) /\ Core(a) => Core(v) /\ Pulled(a, v, x, ToSet(s))
  BY RemoveLoop
<1> HIDE DEF v
<1>4. router_remove_bundle_from_route(a, s, id) = b
  <2> HIDE DEF F, b
  <2>1. {F(u) : u \in {v}} = {F(v)} OBVIOUS
  <2> QED BY <1>1, <1>2, <2>1, OneValue
<1>5. MemOK(b) /\ Freed(v, b, X) /\ b.fault = v.fault /\ b.bundles = v.bundles /\ b.left = v.left
  <2> HIDE DEF X
  <2> QED BY <1>3, SetObjectsIs
<1> HIDE DEF b
<1>6. Freed(a, b, X)
  <2> HIDE DEF X
  <2> QED BY <1>3, <1>5 DEF Freed, OnLists, Fixed
<1>7. ASSUME b.fault = "none", NEW x, Alone(a, x, id), Core(a), Listed(a, x), a.rb[x].contacts = s,
             NEW c \in ToSet(s), x \in ToSet(a.bundles[c]) \/ x \notin ToSet(a.handed[c])
      PROVE  Unlisted(a, b, x)
  <2>1. /\ ToSet(s) \cap a.over = {} /\ Core(v) /\ Pulled(a, v, x, ToSet(s)) /\ v.fault = "none" BY <1>3, <1>5, <1>7
  <2>2. ToSet(s) \subseteq Contact
    <3>1. \A i \in DOMAIN s : s[i] \in Contact OBVIOUS
    <3> QED BY <3>1 DEF ToSet
  <2>3. c \in Contact \ a.over BY <2>1, <2>2
  <2>4. x \in ToSet(a.bundles[c]) BY <1>7, <2>3 DEF Listed
  <2>5. x \in xs
    <3>1. \E i \in DOMAIN s : s[i] = c BY DEF ToSet
    <3> QED BY <1>7, <2>4, <3>1 DEF Alone
  <2>6. \A y \in X : a.rb[y].live => y = x BY <1>7, <2>5 DEF Alone, Only
  <2>7. x \in X BY <2>1, <2>5
  <2> HIDE DEF X, xs
  <2>8. Freed(a, b, {x}) BY <1>6, <2>6, <2>7 DEF Freed
  <2>9. Core(b)
    <3>1. \A y \in DOMAIN v.rb : y \in DOMAIN b.rb /\ b.rb[y].prio = v.rb[y].prio /\ b.rb[y].size = v.rb[y].size
      BY <1>5 DEF Freed
    <3>2. Fixed(v, b) BY <1>5 DEF Freed
    <3> QED BY <1>3, <1>5, <2>1, <3>1, <3>2, CoreSame
  <2>10. \A d \in Contact : ToSet(b.bundles[d]) = ToSet(a.bundles[d]) \ {x}
    <3>1. ASSUME NEW d \in Contact, d \notin ToSet(s) PROVE x \notin ToSet(a.bundles[d])
      <4>1. CASE d \in a.over
        <5>1. a.bundles[d] = <<>> BY <1>7, <4>1 DEF Core
        <5> QED BY <5>1 DEF ToSet
      <4>2. CASE d \notin a.over BY <1>7, <3>1, <4>2 DEF Listed
      <4> QED BY <4>1, <4>2
    <3> QED BY <1>5, <2>1, <3>1 DEF Pulled
  <2> QED BY <2>8, <2>9, <2>10 DEF Unlisted
<1>8. RouteRemoved(a, b, s, id)
  <2>1. \E Y : Freed(a, b, Y) BY <1>6
  <2> HIDE DEF X
  <2> QED BY <1>5, <1>7, <2>1 DEF RouteRemoved
<1> QED BY <1>4, <1>8

\* A bundle whose object is freed goes back to the processor, or goes.
LEMMA FreedGood ==
  ASSUME NEW a, MemOK(a), NEW p, Good(a, p), NEW x \in DOMAIN a.rb, a.rb[x].live, NEW b, MemOK(b),
         Freed(a, b, {x}), Core(b),
         \A c \in Contact : \A y \in DOMAIN a.rb : y # x => (y \in ToSet(b.bundles[c]) <=> y \in ToSet(a.bundles[c])),
         NEW st \in {"bp", "gone"}
  PROVE  LET d == SetStatus(b, a.rb[x].id, st)
         IN  MemOK(d) /\ Good(d, p) /\ d.fault = b.fault
<1> DEFINE id == a.rb[x].id
    d == SetStatus(b, id, st)
<1>1. id \in DOMAIN a.store /\ b.store = a.store BY DEF MemOK, Freed
<1>2. /\ MemOK(d) /\ Fixed(b, d) /\ d.fault = b.fault /\ d.rq = b.rq /\ d.rb = b.rb
      /\ d.bundles = b.bundles /\ d.left = b.left
      /\ DOMAIN d.store = DOMAIN b.store
      /\ \A j \in DOMAIN b.store : /\ d.store[j].status = IF j = id THEN st ELSE b.store[j].status
                                   /\ d.store[j].of = b.store[j].of
                                   /\ j # id => d.store[j] = b.store[j]
      /\ SameBundles(b, d)
  <2>1. st \in Status BY DEF Status
  <2> HIDE DEF id
  <2> QED BY <1>1, <2>1, SetStatusIs
<1> HIDE DEF d
<1>3. /\ Unique(a) /\ Family(a, p) /\ Fits(a, {}) /\ Tiled(a, p) BY DEF Good
<1>4. /\ DOMAIN d.rb = DOMAIN a.rb /\ d.over = a.over /\ d.handed = a.handed /\ DOMAIN d.store = DOMAIN a.store
      /\ \A y \in DOMAIN a.rb : /\ d.rb[y].live <=> a.rb[y].live /\ y # x
                                /\ d.rb[y].id = a.rb[y].id /\ d.rb[y].contacts = a.rb[y].contacts
      /\ \A j \in DOMAIN a.store : /\ d.store[j].status = IF j = id THEN st ELSE a.store[j].status
                                   /\ d.store[j].of = a.store[j].of
  <2> HIDE DEF id
  <2> QED BY <1>1, <1>2 DEF Freed, Fixed
<1>5. a.store[id].status = "routed" /\ Only(a, x) BY <1>3 DEF Unique
<1>6. Core(d)
  <2>1. \A y \in DOMAIN b.rb : y \in DOMAIN d.rb /\ d.rb[y].prio = b.rb[y].prio /\ d.rb[y].size = b.rb[y].size BY <1>2
  <2> QED BY <1>2, <2>1, CoreSame
<1>7. Fits(d, {})
  <2>1. ASSUME NEW y \in DOMAIN d.rb, d.rb[y].live PROVE Listed(d, y)
    <3>1. y \in DOMAIN a.rb /\ a.rb[y].live /\ y # x /\ d.rb[y].contacts = a.rb[y].contacts BY <1>4, <2>1
    <3>2. Listed(a, y) BY <1>3, <3>1 DEF Fits
    <3>3. \A c \in Contact : y \in ToSet(d.bundles[c]) <=> y \in ToSet(a.bundles[c]) BY <1>2, <3>1
    <3> QED BY <1>4, <3>1, <3>2, <3>3 DEF Listed
  <2> QED BY <2>1 DEF Fits
<1>8. ASSUME NEW y \in DOMAIN d.rb, d.rb[y].live PROVE d.store[d.rb[y].id].status = "routed" /\ Only(d, y)
  <2>1. y \in DOMAIN a.rb /\ a.rb[y].live /\ y # x /\ d.rb[y].id = a.rb[y].id BY <1>4, <1>8
  <2>2. a.store[a.rb[y].id].status = "routed" /\ Only(a, y) /\ a.rb[y].id \in DOMAIN a.store BY <1>3, <2>1 DEF Unique, MemOK
  <2>3. a.rb[y].id # id BY <1>5, <2>1 DEF Only
  <2>4. d.store[d.rb[y].id].status = "routed" BY <1>4, <2>1, <2>2, <2>3
  <2>5. Only(d, y) BY <1>4, <2>1, <2>2 DEF Only
  <2> QED BY <2>4, <2>5
<1>9. ASSUME NEW i \in DOMAIN d.store, d.store[i].status = "routed" PROVE \E y \in DOMAIN d.rb : d.rb[y].live /\ d.rb[y].id = i
  <2>1. i \in DOMAIN a.store /\ i # id /\ a.store[i].status = "routed" BY <1>4, <1>9
  <2>2. PICK y \in DOMAIN a.rb : a.rb[y].live /\ a.rb[y].id = i BY <1>3, <2>1 DEF Unique
  <2> QED BY <1>4, <2>1, <2>2
<1>10. ASSUME NEW i \in DOMAIN d.store, d.store[i].of # 0
       PROVE  /\ d.store[i].of \in DOMAIN d.store
              /\ Active(d.store[i]) /\ d.store[i].of # p => d.store[d.store[i].of].status = "replaced"
  <2> HIDE DEF id
  <2>1. i \in DOMAIN a.store /\ a.store[i].of # 0 /\ d.store[i].of = a.store[i].of BY <1>4, <1>10
  <2>2. /\ a.store[i].of \in DOMAIN a.store
        /\ Active(a.store[i]) /\ a.store[i].of # p => a.store[a.store[i].of].status = "replaced"
    BY <1>3, <2>1 DEF Family
  <2>3. ASSUME Active(d.store[i]), d.store[i].of # p PROVE d.store[d.store[i].of].status = "replaced"
    <3>1. Active(a.store[i]) BY <1>4, <1>5, <2>1, <2>3 DEF Active
    <3>2. a.store[a.store[i].of].status = "replaced" BY <2>1, <2>2, <2>3, <3>1
    <3>3. a.store[i].of # id BY <1>5, <3>2
    <3> QED BY <1>4, <2>1, <2>2, <3>2, <3>3
  <2> QED BY <1>4, <2>1, <2>2, <2>3
<1>11. Unique(d) /\ Family(d, p) BY <1>8, <1>9, <1>10 DEF Unique, Family
<1>12. Tiled(d, p)
  <2> HIDE DEF id
  <2>1. SameBundles(a, d) BY <1>1, <1>2 DEF SameBundles
  <2>2. \A j \in DOMAIN a.store : Ended(a.store[j]) => Ended(d.store[j]) BY <1>4, <1>5 DEF Ended
  <2>3. \A j \in DOMAIN a.store : d.store[j].status = "replaced" => a.store[j].status = "replaced" BY <1>4
  <2> QED BY <1>3, <2>1, <2>2, <2>3, TiledSame
<1>13. MemOK(d) /\ Good(d, p) /\ d.fault = b.fault BY <1>2, <1>6, <1>7, <1>11, <1>12 DEF Good
<1> QED BY <1>13, Zenon DEF d

\* ---- Lists are emptied (routing_table.c)
\* Memory that is what it should be, with the same entries handed over; as
\* good as before if no assertion has failed.
Kept(a, b) == /\ MemOK(b) /\ b.handed = a.handed /\ b.over = a.over
              /\ b.fault = "none" => a.fault = "none" /\ \A p : Good(a, p) => Good(b, p)

\* Nothing has happened, or one thing after the other, or a failure.
LEMMA KeptRules ==
  /\ \A a : MemOK(a) => Kept(a, a)
  /\ \A a, b, d : Kept(a, b) /\ Kept(b, d) => Kept(a, d)
  /\ \A a : MemOK(a) => Kept(a, Fault(a, "freed")) /\ Kept(a, Fault(a, "null")) /\ Kept(a, Fault(a, "preempted_count"))
<1>1. \A a : MemOK(a) => Kept(a, a) BY DEF Kept
<1>2. \A a, b, d : Kept(a, b) /\ Kept(b, d) => Kept(a, d) BY DEF Kept
<1>3. ASSUME NEW a, MemOK(a), NEW f \in Faults, f # "none" PROVE Kept(a, Fault(a, f))
  <2>1. MemOK(Fault(a, f)) /\ OnLists(a, Fault(a, f)) /\ Fault(a, f).fault = f BY <1>3, FaultIs
  <2> DEFINE b == Fault(a, f)
  <2> HIDE DEF b
  <2>2. MemOK(b) /\ OnLists(a, b) /\ b.fault = f BY <2>1 DEF b
  <2>3. Kept(a, b) BY <1>3, <2>2 DEF Kept, OnLists, Fixed
  <2> QED BY <2>3 DEF b
<1>4. /\ "freed" \in Faults /\ "null" \in Faults /\ "preempted_count" \in Faults
      /\ "freed" # "none" /\ "null" # "none" /\ "preempted_count" # "none" BY DEF Faults
<1>5. ASSUME NEW a, MemOK(a) PROVE Kept(a, Fault(a, "freed")) /\ Kept(a, Fault(a, "null")) /\ Kept(a, Fault(a, "preempted_count"))
  BY <1>3, <1>4, <1>5
<1> QED BY <1>1, <1>2, <1>5

\* An object of a list that is taken off all of its lists, so that its bundle
\* goes back to the processor.
LEMMA OneRescheduled ==
  ASSUME NEW a, MemOK(a), a.fault = "none", NEW c \in Contact, a.bundles[c] # <<>>,
         a.rb[Head(a.bundles[c])].live
  PROVE  LET rb == a.rb[Head(a.bundles[c])]
         IN  Kept(a, BackToProcessor(router_remove_bundle_from_route(a, rb.contacts, rb.id), rb.id))
<1> DEFINE x == Head(a.bundles[c])
    rb == a.rb[x]
    b == router_remove_bundle_from_route(a, rb.contacts, rb.id)
    d == SetStatus(b, rb.id, "bp")
<1>1. BackToProcessor(b, rb.id) = d BY Zenon DEF BackToProcessor, SetStatus
<1>2. a.bundles[c] \in Seq(Nat) /\ ToSet(a.bundles[c]) \subseteq DOMAIN a.rb
  <2>1. a.bundles \in [Contact -> Seq(Nat)] BY MemoryIs
  <2> QED BY <2>1 DEF MemOK
<1>3. x \in ToSet(a.bundles[c]) /\ x \in DOMAIN a.rb
  <2> DEFINE s == a.bundles[c]
  <2>1. s \in Seq(Nat) /\ s # <<>> BY <1>2
  <2> HIDE DEF s
  <2>2. 1 \in DOMAIN s /\ Head(s) = s[1] BY <2>1
  <2>3. Head(s) \in ToSet(s) BY <2>2 DEF ToSet
  <2> QED BY <1>2, <2>3 DEF s
<1> HIDE DEF x
<1>4. rb \in RoutedBundle /\ rb.id \in DOMAIN a.store /\ rb.contacts \in Seq(Contact) /\ rb.live
  <2>1. rb \in RoutedBundle /\ ObjectOK(a, rb) BY <1>3, ObjectIs
  <2>2. rb.live BY DEF x
  <2> QED BY <2>1, <2>2 DEF ObjectOK, RoutedBundle
<1>5. RouteRemoved(a, b, rb.contacts, rb.id) BY <1>4, RemoveFromRouteIs
<1> HIDE DEF b
<1>6. MemOK(b) /\ b.store = a.store /\ b.handed = a.handed /\ b.over = a.over BY <1>5 DEF RouteRemoved, Freed, Fixed
<1>7. MemOK(d) /\ d.handed = a.handed /\ d.over = a.over /\ d.fault = b.fault
  <2>1. "bp" \in Status BY DEF Status
  <2>2. rb.id \in DOMAIN b.store BY <1>4, <1>6
  <2> HIDE DEF rb
  <2>3. MemOK(d) /\ Fixed(b, d) /\ d.fault = b.fault BY <1>6, <2>1, <2>2, SetStatusIs
  <2> HIDE DEF d
  <2> QED BY <1>6, <2>3 DEF Fixed
<1>8. ASSUME b.fault = "none", NEW p, Good(a, p) PROVE Good(d, p)
  <2>1. /\ Alone(a, x, rb.id) /\ Core(a) /\ Listed(a, x) /\ a.rb[x].contacts = rb.contacts
    BY <1>3, <1>4, <1>8 DEF Good, Unique, Fits, Alone
  <2>2. c \notin a.over BY <1>8 DEF Good, Core
  <2>3. c \in ToSet(rb.contacts) BY <1>3, <2>1, <2>2 DEF Listed
  <2>4. Unlisted(a, b, x)
    <3> HIDE DEF rb
    <3> QED BY <1>3, <1>5, <1>8, <2>1, <2>3 DEF RouteRemoved
  <2>5. \A e \in Contact : \A y \in DOMAIN a.rb : y # x => (y \in ToSet(b.bundles[e]) <=> y \in ToSet(a.bundles[e]))
    BY <2>4 DEF Unlisted
  <2>6. Freed(a, b, {x}) /\ Core(b) BY <2>4 DEF Unlisted
  <2>7. "bp" \in {"bp", "gone"} OBVIOUS
  <2> QED BY <1>3, <1>4, <1>6, <1>8, <2>5, <2>6, <2>7, FreedGood
<1> HIDE DEF d
<1>9. Kept(a, d) BY <1>7, <1>8 DEF Kept
<1> QED BY <1>1, <1>9 DEF b, x

\* reschedule_bundles
LEMMA RescheduleIs ==
  ASSUME NEW a, MemOK(a), NEW c \in Contact
  PROVE  Kept(a, reschedule_bundles(a, c))
<1> DEFINE one(v, i) == LET rb == v.rb[Head(v.bundles[c])]
                        IN  IF v.bundles[c] = <<>> THEN v
                            ELSE IF ~rb.live THEN Fault(v, "freed")
                            ELSE BackToProcessor(router_remove_bundle_from_route(v, rb.contacts, rb.id), rb.id)
    s == a.bundles[c]
    out(v, i) == IF v.fault # "none" THEN v ELSE one(v, i)
    every == FoldLeft(LAMBDA v, i : out(v, i), a, s)
    A == {v \in Memory : Kept(a, v)}
<1>e. reschedule_bundles(a, c) = every BY DEF reschedule_bundles, ForEach
<1>s. s \in Seq(Nat) BY MemoryIs
<1> HIDE DEF s
<1>n. PICK N \in Nat : N = Len(s) /\ DOMAIN s = 1..N BY <1>s
<1>b. a \in A BY KeptRules DEF MemOK
<1>1. ASSUME NEW v \in A, NEW i PROVE out(v, i) \in A
  <2>1. MemOK(v) BY DEF Kept
  <2>2. Kept(v, out(v, i))
    <3>1. v.fault # "none" => Kept(v, out(v, i)) BY <2>1, KeptRules
    <3>2. v.fault = "none" /\ v.bundles[c] # <<>> /\ v.rb[Head(v.bundles[c])].live => Kept(v, out(v, i))
      BY <2>1, OneRescheduled
    <3>3. v.fault = "none" /\ v.bundles[c] = <<>> => Kept(v, out(v, i)) BY <2>1, KeptRules
    <3>4. v.fault = "none" /\ v.bundles[c] # <<>> /\ ~v.rb[Head(v.bundles[c])].live => Kept(v, out(v, i)) BY <2>1, KeptRules
    <3> HIDE DEF out
    <3> QED BY <3>1, <3>2, <3>3, <3>4
  <2> HIDE DEF out
  <2>3. Kept(a, out(v, i)) BY <2>2, KeptRules
  <2> QED BY <2>3 DEF Kept, MemOK
<1> HIDE DEF out
<1> DEFINE op(v, n) == out(v, s[n])
    G == [z \in (1..N) \X A |-> op(z[2], z[1])]
    E(h) == h = [x \in SUBSET (DOMAIN s) |-> IF x = {} THEN a ELSE op(h[x \ {Max(x)}], Max(x))]
    g == CHOOSE h : E(h)
<1>f1. ASSUME NEW n \in 1..N, NEW v \in A PROVE op(v, n) \in A
    BY <1>1
<1>f2. every = g[DOMAIN s] BY DEF every, FoldLeft, MapThenFoldSet
<1> HIDE DEF op, A, every
<1>f3. G \in [(1..N) \X A -> A] /\ \A n \in 1..N : \A v \in A : G[<<n, v>>] = op(v, n) BY <1>f1
<1> HIDE DEF G
<1>f4. PICK h : Folds(h, N, A, a, G) BY <1>n, <1>b, <1>f3, FoldThere
<1>f5. E(h) BY <1>n, <1>f3, <1>f4 DEF Folds
<1>f6. E(g) BY <1>f5, Zenon DEF g
<1> HIDE DEF g
<1>f7. FoldOf(g, N, A, a, G) BY <1>n, <1>f3, <1>f6, Zenon DEF FoldOf, E
<1> HIDE DEF E
<1>f8. every \in A BY <1>n, <1>b, <1>f2, <1>f3, <1>f7, FoldIn
<1> QED BY <1>e, <1>f8 DEF A

\* An object that has been freed, with the new state of its bundle.
LEMMA FreedObject ==
  ASSUME NEW a, MemOK(a), NEW x \in DOMAIN a.rb, a.rb[x].live, NEW st \in {"bp", "gone"}
  PROVE  LET d == SetStatus(Free(a, x), a.rb[x].id, st)
         IN  /\ MemOK(d) /\ d.rq = a.rq /\ d.fault = a.fault /\ d.handed = a.handed /\ d.over = a.over
             /\ \A p : Good(a, p) => Good(d, p)
<1> DEFINE r == [a.rb[x] EXCEPT !.live = FALSE]
    b == SetObject(a, x, r)
    d == SetStatus(b, a.rb[x].id, st)
<1>1. Free(a, x) = b BY Zenon DEF Free, SetObject
<1>2. a.rb[x] \in RoutedBundle /\ ObjectOK(a, a.rb[x]) BY ObjectIs
<1>3. r \in RoutedBundle /\ ~r.live /\ r.id = a.rb[x].id /\ r.contacts = a.rb[x].contacts /\ r.prio = a.rb[x].prio
      /\ r.size = a.rb[x].size BY <1>2 DEF RoutedBundle
<1> HIDE DEF r
<1>4. ObjectOK(a, r) BY <1>2, <1>3 DEF ObjectOK
<1>5. /\ MemOK(b) /\ Fixed(a, b) /\ b.fault = a.fault /\ b.rq = a.rq /\ b.store = a.store
      /\ b.bundles = a.bundles /\ b.left = a.left
      /\ b.rb = [a.rb EXCEPT ![x] = r] /\ DOMAIN b.rb = DOMAIN a.rb /\ Len(b.rb) = Len(a.rb)
  BY <1>4, SetObjectIs
<1> HIDE DEF b
<1>6. \A y \in DOMAIN a.rb : b.rb[y] = IF y = x THEN r ELSE a.rb[y] BY <1>5
<1>7. Freed(a, b, {x}) BY <1>3, <1>5, <1>6 DEF Freed
<1>8. a.rb[x].id \in DOMAIN b.store BY <1>2, <1>5 DEF ObjectOK
<1>9. MemOK(d) /\ Fixed(b, d) /\ d.fault = b.fault /\ d.rq = b.rq
  <2>1. st \in Status BY DEF Status
  <2> QED BY <1>5, <1>8, <2>1, SetStatusIs
<1>10. ASSUME NEW p, Good(a, p) PROVE Good(d, p)
  <2>1. Core(a) BY <1>10 DEF Good
  <2>2. Core(b)
    <3>1. \A y \in DOMAIN a.rb : y \in DOMAIN b.rb /\ b.rb[y].prio = a.rb[y].prio /\ b.rb[y].size = a.rb[y].size
      BY <1>7 DEF Freed
    <3> QED BY <1>5, <2>1, <3>1, CoreSame
  <2> QED BY <1>5, <1>7, <1>10, <2>2, FreedGood
<1> HIDE DEF d
<1>11. MemOK(d) /\ d.rq = a.rq /\ d.fault = a.fault /\ d.handed = a.handed /\ d.over = a.over /\ \A p : Good(a, p) => Good(d, p)
  BY <1>5, <1>9, <1>10 DEF Fixed
<1> QED BY <1>1, <1>11 DEF d

\* The object of a list whose contact is over is freed.
LEMMA OneFreed ==
  ASSUME NEW a, MemOK(a), NEW x \in DOMAIN a.rb, a.rb[x].live
  PROVE  Kept(a, BackToProcessor(Free(a, x), a.rb[x].id))
<1> DEFINE d == SetStatus(Free(a, x), a.rb[x].id, "bp")
<1>1. BackToProcessor(Free(a, x), a.rb[x].id) = d BY Zenon DEF BackToProcessor, SetStatus
<1>2. "bp" \in {"bp", "gone"} OBVIOUS
<1>3. MemOK(d) /\ d.fault = a.fault /\ d.handed = a.handed /\ d.over = a.over /\ \A p : Good(a, p) => Good(d, p)
  BY <1>2, FreedObject
<1> HIDE DEF d
<1>4. Kept(a, d) BY <1>3 DEF Kept
<1> QED BY <1>1, <1>4

\* A contact that is over has no list.
Passed(a, c, s) == [a EXCEPT !.over = @ \cup {c}, !.bundles[c] = s]

\* routing_table_contact_passed
LEMMA PassedIs ==
  ASSUME NEW a, MemOK(a), NEW c \in Contact
  PROVE  LET b == routing_table_contact_passed(a, c)
         IN  /\ MemOK(b) /\ b.handed = a.handed
             /\ b.fault = "none" => a.fault = "none" /\ \A p : Good(a, p) => Good(b, p)
<1> DEFINE one(v, x) == IF ~v.rb[x].live THEN Fault(v, "freed") ELSE BackToProcessor(Free(v, x), v.rb[x].id)
    s == a.bundles[c]
    out(v, x) == IF v.fault # "none" THEN v ELSE one(v, x)
    every == FoldLeft(LAMBDA v, x : out(v, x), a, s)
    A == {v \in Memory : Kept(a, v) /\ Len(v.rb) = Len(a.rb)}
    none == <<>>
    b == Passed(every, c, none)
<1>e. routing_table_contact_passed(a, c) = b BY DEF routing_table_contact_passed, ForEach, Passed
<1>s. s \in Seq(Nat) /\ ToSet(s) \subseteq DOMAIN a.rb
  <2>1. a.bundles \in [Contact -> Seq(Nat)] BY MemoryIs
  <2> QED BY <2>1 DEF MemOK
<1> HIDE DEF s
<1>n. PICK N \in Nat : N = Len(s) /\ DOMAIN s = 1..N BY <1>s
<1>b. a \in A BY KeptRules DEF MemOK
<1>1. ASSUME NEW v \in A, NEW x \in DOMAIN a.rb PROVE out(v, x) \in A
  <2>1. MemOK(v) /\ Kept(a, v) /\ Len(v.rb) = Len(a.rb) BY DEF Kept
  <2>2. x \in DOMAIN v.rb
    <3>1. DOMAIN v.rb = 1..Len(v.rb) /\ DOMAIN a.rb = 1..Len(a.rb) BY <2>1, ObjectIs
    <3> QED BY <2>1, <3>1
  <2> HIDE DEF A
  <2>3. v.rb[x].live => Kept(v, BackToProcessor(Free(v, x), v.rb[x].id)) /\ Len(BackToProcessor(Free(v, x), v.rb[x].id).rb) = Len(v.rb)
    <3>1. v.rb[x].live => Kept(v, BackToProcessor(Free(v, x), v.rb[x].id)) BY <2>1, <2>2, OneFreed
    <3>2. Len(BackToProcessor(Free(v, x), v.rb[x].id).rb) = Len(v.rb)
      <4> DEFINE w == Free(v, x)
          z == BackToProcessor(w, v.rb[x].id)
      <4>1. v \in Memory /\ v.rb \in Seq(RoutedBundle) BY <2>1, MemoryIs DEF MemOK
      <4>2. w.rb = [v.rb EXCEPT ![x].live = FALSE] BY <4>1 DEF Free, Memory
      <4>3. Len(w.rb) = Len(v.rb)
        <5>1. \A e : Len([v.rb EXCEPT ![x] = e]) = Len(v.rb) BY <4>1, <2>2
        <5> QED BY <4>2, <5>1
      <4>4. z.rb = w.rb BY <4>1 DEF Free, BackToProcessor, Memory
      <4> QED BY <4>3, <4>4
    <3> QED BY <3>1, <3>2
  <2>4. Kept(v, v) /\ Kept(v, Fault(v, "freed")) /\ Fault(v, "freed").rb = v.rb
    <3>1. "freed" \in Faults BY DEF Faults
    <3>2. OnLists(v, Fault(v, "freed")) BY <2>1, <3>1, FaultIs
    <3> QED BY <2>1, <3>2, KeptRules DEF OnLists
  <2>5. Kept(v, out(v, x)) /\ Len(out(v, x).rb) = Len(v.rb) BY <2>3, <2>4
  <2> HIDE DEF out
  <2>6. Kept(a, out(v, x)) BY <2>1, <2>5, KeptRules
  <2> QED BY <2>1, <2>5, <2>6 DEF A, Kept, MemOK
<1>2. \A n \in 1..N : s[n] \in DOMAIN a.rb BY <1>s, <1>n DEF ToSet
<1> HIDE DEF out
<1> DEFINE op(v, n) == out(v, s[n])
    G == [z \in (1..N) \X A |-> op(z[2], z[1])]
    E(h) == h = [x \in SUBSET (DOMAIN s) |-> IF x = {} THEN a ELSE op(h[x \ {Max(x)}], Max(x))]
    g == CHOOSE h : E(h)
<1>f1. ASSUME NEW n \in 1..N, NEW v \in A PROVE op(v, n) \in A
    BY <1>1, <1>2
<1>f2. every = g[DOMAIN s] BY DEF every, FoldLeft, MapThenFoldSet
<1> HIDE DEF op, A, every
<1>f3. G \in [(1..N) \X A -> A] /\ \A n \in 1..N : \A v \in A : G[<<n, v>>] = op(v, n) BY <1>f1
<1> HIDE DEF G
<1>f4. PICK h : Folds(h, N, A, a, G) BY <1>n, <1>b, <1>f3, FoldThere
<1>f5. E(h) BY <1>n, <1>f3, <1>f4 DEF Folds
<1>f6. E(g) BY <1>f5, Zenon DEF g
<1> HIDE DEF g
<1>f7. FoldOf(g, N, A, a, G) BY <1>n, <1>f3, <1>f6, Zenon DEF FoldOf, E
<1> HIDE DEF E
<1>f8. every \in A BY <1>n, <1>b, <1>f2, <1>f3, <1>f7, FoldIn
<1>3. Kept(a, every) /\ MemOK(every) BY <1>f8 DEF A, Kept
<1> HIDE DEF every
<1> DEFINE bundles == [every.bundles EXCEPT ![c] = none]
    over == every.over \cup {c}
<1>4. b = [every EXCEPT !.over = over, !.bundles = bundles] BY Zenon DEF Passed
<1>5. every.bundles \in [Contact -> Seq(Nat)] /\ every.over \subseteq Contact /\ none \in Seq(Nat) /\ ToSet(none) = {}
      /\ IsInjective(none)
  <2>1. none \in Seq(Nat) /\ ToSet(none) = {} /\ IsInjective(none) BY DEF ToSet, IsInjective
  <2> HIDE DEF none
  <2> QED BY <1>3, <2>1, MemoryIs
<1>9. none = <<>> OBVIOUS
<1> HIDE DEF none
<1>6. bundles \in [Contact -> Seq(Nat)] /\ over \subseteq Contact
      /\ \A d \in Contact : bundles[d] = IF d = c THEN none ELSE every.bundles[d] BY <1>5
<1>h. over = every.over \cup {c} OBVIOUS
<1> HIDE DEF b, bundles, over
<1>7. /\ b \in Memory /\ b.bundles = bundles /\ b.over = over /\ b.left = every.left /\ b.fault = every.fault /\ b.rb = every.rb
      /\ b.store = every.store /\ b.rq = every.rq /\ b.handed = every.handed /\ b.rate = every.rate /\ b.total = every.total
  <2>1. every \in Memory BY <1>3 DEF MemOK
  <2> QED BY <1>4, <1>6, <2>1 DEF Memory
<1>8. MemOK(b)
  <2>1. \A d \in Contact : ToSet(b.bundles[d]) \subseteq DOMAIN b.rb /\ ToSet(b.handed[d]) \subseteq DOMAIN b.rb
    BY <1>3, <1>5, <1>6, <1>7 DEF MemOK
  <2> QED BY <1>3, <1>7, <2>1 DEF MemOK
<1>10. ASSUME NEW p, Good(every, p) PROVE Good(b, p)
  <2>1. \A d \in b.over : b.bundles[d] = <<>> BY <1>h, <1>6, <1>7, <1>9, <1>10, <1>5 DEF Good, Core
  <2>2. \A d \in Contact : IsInjective(b.bundles[d]) BY <1>5, <1>6, <1>7, <1>10 DEF Good, Core
  <2>3. Balanced(b)
    <3>1. ASSUME NEW d \in Contact \ b.over, NEW k \in Prio PROVE b.total[d] - b.left[d][k] = Taken(b, d, k)
      <4>1. d \in Contact \ every.over /\ d # c BY <1>h, <1>7, <3>1
      <4>2. every.total[d] - every.left[d][k] = Taken(every, d, k) BY <1>10, <4>1 DEF Good, Core, Balanced
      <4>3. Weight(b, k) = Weight(every, k) BY <1>7 DEF Weight
      <4>4. Taken(b, d, k) = Taken(every, d, k) BY <1>6, <1>7, <4>1, <4>3 DEF Taken
      <4> QED BY <1>7, <4>2, <4>4
    <3> QED BY <3>1 DEF Balanced
  <2>4. Fits(b, {})
    <3>1. ASSUME NEW y \in DOMAIN b.rb, b.rb[y].live PROVE Listed(b, y)
      <4>1. Listed(every, y) BY <1>7, <1>10, <3>1 DEF Good, Fits
      <4>2. \A d \in Contact \ b.over : d \in Contact \ every.over /\ b.bundles[d] = every.bundles[d] BY <1>h, <1>6, <1>7
      <4> QED BY <1>7, <4>1, <4>2 DEF Listed
    <3> QED BY <3>1 DEF Fits
  <2>5. Unique(b) /\ Family(b, p) BY <1>7, <1>10 DEF Good, Unique, Family, Only
  <2>6. Tiled(b, p) BY <1>7, <1>10, TiledStore DEF Good
  <2> QED BY <2>1, <2>2, <2>3, <2>4, <2>5, <2>6 DEF Good, Core
<1>11. b.handed = a.handed /\ (b.fault = "none" => a.fault = "none" /\ \A p : Good(a, p) => Good(b, p))
  BY <1>3, <1>7, <1>10 DEF Kept
<1> QED BY <1>e, <1>8, <1>11 DEF b

\* ---- The fragments of a bundle (apply_fragmentation)
\* The fragments whose numbers are in s are scheduled.
Adding(a, s, routes, base) ==
  ForEach(a, s, LAMBDA v, f : router_add_bundle_to_route(v, routes[f], base + f, FALSE))

\* Fragments o + 1 to o + n have got objects.
Scheduled(a, b, routes, base, o, n) ==
  /\ Len(b.rb) = Len(a.rb) + n
  /\ \A y \in DOMAIN a.rb : b.rb[y] = a.rb[y]
  /\ \A f \in 1..n : LET r == b.rb[Len(a.rb) + f]
                     IN  r.live /\ r.id = base + (o + f) /\ r.contacts = routes[o + f].contacts
  /\ \A j \in DOMAIN a.store : /\ b.store[j].of = a.store[j].of
                               /\ j \notin (base + (o + 1))..(base + (o + n)) => b.store[j] = a.store[j]

\* The storage has the same number of bundles, the TX tasks have what they had.
Frame(a, b) == b.handed = a.handed /\ b.over = a.over /\ DOMAIN b.store = DOMAIN a.store

\* What the next of these objects adds.
LEMMA AddOneMore ==
  ASSUME NEW a, MemOK(a), NEW routes \in Seq(GoodRoute), NEW base \in Nat, NEW o \in Nat, NEW k \in Nat, k >= 1,
         o + k <= Len(routes), base + (o + k) \in DOMAIN a.store, NEW v, MemOK(v), Frame(a, v),
         Scheduled(a, v, routes, base, o, k - 1), NEW w, RouteAdded(v, w, routes[o + k], base + (o + k), FALSE)
  PROVE  Scheduled(a, w, routes, base, o, k)
<1> DEFINE l == Len(a.rb)
    g == Len(v.rb)
    id == base + (o + k)
<1>1. DOMAIN a.rb = 1..l /\ l \in Nat /\ DOMAIN v.rb = 1..g /\ g \in Nat BY ObjectIs
<1>2. g = l + (k - 1) BY DEF Scheduled
<1>3. Grown(v, w, id) /\ w.rb[g + 1].live /\ w.rb[g + 1].contacts = routes[o + k].contacts BY DEF RouteAdded
<1>4. Len(w.rb) = g + 1 /\ (\A y \in 1..g : w.rb[y] = v.rb[y]) /\ w.rb[g + 1].id = id
      /\ \A j \in DOMAIN v.store : w.store[j].of = v.store[j].of /\ (j # id => w.store[j] = v.store[j])
  BY <1>1, <1>3 DEF Grown
<1>5. /\ \A y \in 1..l : v.rb[y] = a.rb[y]
      /\ \A f \in 1..(k - 1) : /\ v.rb[l + f].live /\ v.rb[l + f].id = base + (o + f)
                               /\ v.rb[l + f].contacts = routes[o + f].contacts
      /\ \A j \in DOMAIN a.store : /\ v.store[j].of = a.store[j].of
                                   /\ j \notin (base + (o + 1))..(base + (o + (k - 1))) => v.store[j] = a.store[j]
  BY <1>1 DEF Scheduled
<1>6. DOMAIN v.store = DOMAIN a.store BY DEF Frame
<1> HIDE DEF l, g
<1>7. g + 1 = l + k /\ Len(w.rb) = l + k BY <1>1, <1>2, <1>4
<1>8. \A y \in 1..l : w.rb[y] = a.rb[y]
  <2>1. \A y \in 1..l : y \in 1..g BY <1>1, <1>2
  <2> QED BY <1>4, <1>5, <2>1
<1>9. ASSUME NEW f \in 1..k
      PROVE  w.rb[l + f].live /\ w.rb[l + f].id = base + (o + f) /\ w.rb[l + f].contacts = routes[o + f].contacts
  <2>1. CASE f = k BY <1>3, <1>4, <1>7, <2>1
  <2>2. CASE f # k
    <3>1. f \in 1..(k - 1) /\ l + f \in 1..g BY <1>1, <1>2, <2>2
    <3> QED BY <1>4, <1>5, <3>1
  <2> QED BY <2>1, <2>2
<1>10. ASSUME NEW j \in DOMAIN a.store
       PROVE  /\ w.store[j].of = a.store[j].of
              /\ j \notin (base + (o + 1))..(base + (o + k)) => w.store[j] = a.store[j]
  <2>1. w.store[j].of = v.store[j].of /\ (j # id => w.store[j] = v.store[j]) BY <1>4, <1>6
  <2>2. j \notin (base + (o + 1))..(base + (o + k)) => j # id /\ j \notin (base + (o + 1))..(base + (o + (k - 1))) OBVIOUS
  <2> HIDE DEF id
  <2> QED BY <1>5, <2>1, <2>2
<1> QED BY <1>1, <1>7, <1>8, <1>9, <1>10 DEF Scheduled, l

\* The loop over the fragments.
AddedAll(a, b, routes, base, o, n) ==
  /\ MemOK(b) /\ Frame(a, b)
  /\ b.fault = "none" =>
       /\ a.fault = "none" /\ Scheduled(a, b, routes, base, o, n)
       /\ \A p : Good(a, p) /\ (\A f \in 1..n : Spare(a, base + (o + f), p)) => Good(b, p)

\* What the loop over the fragments does.
LEMMA AddingIs ==
  ASSUME NEW a, MemOK(a), NEW routes \in Seq(GoodRoute), NEW base \in Nat, NEW o \in Nat, NEW n \in Nat,
         o + n <= Len(routes), \A f \in 1..n : base + (o + f) \in DOMAIN a.store
  PROVE  AddedAll(a, Adding(a, [f \in 1..n |-> o + f], routes, base), routes, base, o, n)
<1> DEFINE s == [f \in 1..n |-> o + f]
    out(v, f) == IF v.fault # "none" THEN v ELSE router_add_bundle_to_route(v, routes[f], base + f, FALSE)
    every == FoldLeft(LAMBDA v, f : out(v, f), a, s)
    A == {v \in Memory : MemOK(v) /\ Frame(a, v)}
    G(v) == \A p : Good(a, p) /\ (\A f \in 1..n : Spare(a, base + (o + f), p)) => Good(v, p)
    P == [k \in Nat |-> {v \in A : v.fault = "none" => a.fault = "none" /\ Scheduled(a, v, routes, base, o, k) /\ G(v)}]
<1>e. Adding(a, s, routes, base) = every BY DEF Adding, ForEach
<1>n. PICK N \in Nat : N = Len(s) /\ DOMAIN s = 1..N /\ N = n
  <2>1. DOMAIN s = 1..n /\ Len(s) = n OBVIOUS
  <2> HIDE DEF s
  <2> QED BY <2>1
<1>s. \A k \in 1..N : s[k] = o + k BY <1>n
<1> HIDE DEF s
<1>b. a \in A BY DEF Frame, MemOK
<1>1. ASSUME NEW v \in A, NEW k \in 1..N
      PROVE  /\ MemOK(v) /\ Frame(a, v) /\ base + (o + k) \in DOMAIN a.store /\ o + k <= Len(routes)
             /\ RouteAdded(v, router_add_bundle_to_route(v, routes[s[k]], base + s[k], FALSE), routes[o + k], base + (o + k), FALSE)
  <2>1. s[k] = o + k /\ o + k \in 1..Len(routes) /\ routes[o + k] \in GoodRoute
    <3>1. s[k] = o + k BY <1>s
    <3>2. o + k \in 1..Len(routes) BY <1>n
    <3> QED BY <3>1, <3>2
  <2>2. base + (o + k) \in DOMAIN v.store /\ base + (o + k) \in DOMAIN a.store
    <3>1. base + (o + k) \in DOMAIN a.store BY <1>n
    <3> QED BY <3>1 DEF Frame
  <2>3. MemOK(v) OBVIOUS
  <2>4. o + k <= Len(routes) BY <2>1
  <2>5. FALSE \in BOOLEAN OBVIOUS
  <2>6. RouteAdded(v, router_add_bundle_to_route(v, routes[o + k], base + (o + k), FALSE), routes[o + k], base + (o + k), FALSE)
    BY <2>1, <2>2, <2>3, <2>5, AddToRouteIs
  <2> QED BY <2>1, <2>2, <2>3, <2>4, <2>6
<1>3. ASSUME NEW v \in A, NEW k \in 1..N PROVE out(v, s[k]) \in A
  <2> DEFINE w == router_add_bundle_to_route(v, routes[s[k]], base + s[k], FALSE)
  <2> HIDE DEF w
  <2>0. MemOK(v) /\ Frame(a, v) /\ RouteAdded(v, w, routes[o + k], base + (o + k), FALSE) BY <1>1 DEF w
  <2>1. MemOK(w) /\ Frame(v, w) /\ Frame(a, v) BY <2>0 DEF RouteAdded, Grown, Fixed, Frame
  <2>2. w \in A BY <2>1 DEF MemOK, Frame
  <2> QED BY <2>2 DEF w
<1>4. ASSUME NEW v \in A, NEW k \in 1..N, v \in P[k - 1] PROVE out(v, s[k]) \in P[k]
  <2> DEFINE w == router_add_bundle_to_route(v, routes[s[k]], base + s[k], FALSE)
      z == out(v, s[k])
  <2>1. k - 1 \in Nat /\ k \in Nat /\ k >= 1 BY <1>n
  <2>2. z \in A BY <1>3
  <2>3. ASSUME z.fault = "none" PROVE a.fault = "none" /\ Scheduled(a, z, routes, base, o, k) /\ G(z)
    <3>1. v.fault = "none" /\ z = w BY <2>3
    <3>2. a.fault = "none" /\ Scheduled(a, v, routes, base, o, k - 1) /\ G(v) BY <1>4, <2>1, <3>1
    <3>3. /\ MemOK(v) /\ Frame(a, v) /\ base + (o + k) \in DOMAIN a.store /\ o + k <= Len(routes)
          /\ RouteAdded(v, w, routes[o + k], base + (o + k), FALSE) BY <1>1
    <3> HIDE DEF w, z
    <3>4. Scheduled(a, w, routes, base, o, k) BY <2>1, <3>2, <3>3, AddOneMore
    <3>5. ASSUME NEW p, Good(a, p), \A f \in 1..n : Spare(a, base + (o + f), p) PROVE Good(w, p)
      <4>1. Good(v, p) BY <3>2, <3>5
      <4>2. Spare(v, base + (o + k), p)
        <5>1. Spare(a, base + (o + k), p) BY <1>n, <3>5
        <5>2. base + (o + k) \notin (base + (o + 1))..(base + (o + (k - 1))) BY <2>1
        <5>3. v.store[base + (o + k)] = a.store[base + (o + k)] BY <3>2, <3>3, <5>2 DEF Scheduled
        <5> QED BY <3>3, <5>1, <5>3 DEF Spare, Frame
      <4>3. w.fault = "none" BY <2>3, <3>1
      <4> QED BY <3>3, <4>1, <4>2, <4>3 DEF RouteAdded
    <3> QED BY <3>1, <3>2, <3>4, <3>5
  <2> HIDE DEF z, A, G
  <2> QED BY <2>1, <2>2, <2>3 DEF z
<1> HIDE DEF out
<1> DEFINE op(v, k) == out(v, s[k])
    G1 == [z \in (1..N) \X A |-> op(z[2], z[1])]
    E(h) == h = [x \in SUBSET (DOMAIN s) |-> IF x = {} THEN a ELSE op(h[x \ {Max(x)}], Max(x))]
    g == CHOOSE h : E(h)
<1>f1. ASSUME NEW k \in 1..N, NEW v \in A PROVE op(v, k) \in A
    BY <1>3
<1>f2. every = g[DOMAIN s] BY DEF every, FoldLeft, MapThenFoldSet
<1> HIDE DEF op, A, every
<1>f3. G1 \in [(1..N) \X A -> A] /\ \A k \in 1..N : \A v \in A : G1[<<k, v>>] = op(v, k) BY <1>f1
<1> HIDE DEF G1
<1>f4. PICK h : Folds(h, N, A, a, G1) BY <1>n, <1>b, <1>f3, FoldThere
<1>f5. E(h) BY <1>n, <1>f3, <1>f4 DEF Folds
<1>f6. E(g) BY <1>f5, Zenon DEF g
<1> HIDE DEF g
<1>f7. FoldOf(g, N, A, a, G1) BY <1>n, <1>f3, <1>f6, Zenon DEF FoldOf, E
<1> HIDE DEF E
<1>f8. a \in P[0] /\ \A k \in 1..N : \A v \in A : v \in P[k - 1] => G1[<<k, v>>] \in P[k]
  <2>1. a \in P[0]
    <3> HIDE DEF A
    <3>1. Scheduled(a, a, routes, base, o, 0)
      <4>1. Len(a.rb) \in Nat BY ObjectIs
      <4> QED BY <4>1 DEF Scheduled
    <3> QED BY <1>b, <3>1
  <2>2. ASSUME NEW k \in 1..N, NEW v \in A, v \in P[k - 1] PROVE op(v, k) \in P[k]
    <3> HIDE DEF P
    <3> QED BY <1>4, <2>2 DEF op
  <2> HIDE DEF P
  <2> QED BY <1>f3, <2>1, <2>2
<1> HIDE DEF P
<1>f9. Leads(N, A, a, G1, P) BY <1>b, <1>f3, <1>f8 DEF Leads
<1>f10. every \in A /\ every \in P[N] BY <1>n, <1>f2, <1>f7, <1>f9, FoldEnds
<1> DEFINE b == every
<1>5. MemOK(b) /\ Frame(a, b) BY <1>f10 DEF A
<1>6. b.fault = "none" => a.fault = "none" /\ Scheduled(a, b, routes, base, o, n) /\ G(b)
  <2> HIDE DEF G
  <2> QED BY <1>f10, <1>n DEF P
<1> HIDE DEF b
<1>7. AddedAll(a, b, routes, base, o, n) BY <1>5, <1>6 DEF AddedAll
<1> QED BY <1>e, <1>7 DEF b, s

\* ---- A fragmentation that is taken back (TakeBack)
\* Object x is live, for this bundle, with these contacts, and no TX task has it.
Holds(a, x, id, s) == /\ x \in DOMAIN a.rb /\ a.rb[x].live /\ a.rb[x].id = id /\ a.rb[x].contacts = s
                      /\ \A c \in Contact : x \notin ToSet(a.handed[c])

\* Bundle id has gone, with its object, which had the contacts s.
Undone(a, b, s, id) ==
  /\ MemOK(b) /\ Frame(a, b) /\ DOMAIN b.rb = DOMAIN a.rb
  /\ b.store[id].status = "gone" /\ b.store[id].of = a.store[id].of
  /\ \A j \in DOMAIN a.store : j # id => b.store[j] = a.store[j]
  /\ b.fault = "none" =>
       \A p, x : Good(a, p) /\ Holds(a, x, id, s) =>
         /\ Good(b, p)
         /\ \A y \in DOMAIN a.rb : y # x => \A i, q : Holds(a, y, i, q) => Holds(b, y, i, q)

\* The fragments of the loop that takes them back.
LEMMA UndoIs ==
  ASSUME NEW a, MemOK(a), NEW s \in Seq(Contact), s # <<>>, NEW id \in DOMAIN a.store
  PROVE  Undone(a, [router_remove_bundle_from_route(a, s, id) EXCEPT !.store[id].status = "gone"], s, id)
<1> DEFINE b == router_remove_bundle_from_route(a, s, id)
    d == SetStatus(b, id, "gone")
<1>1. [b EXCEPT !.store[id].status = "gone"] = d BY Zenon DEF SetStatus
<1>2. RouteRemoved(a, b, s, id) BY RemoveFromRouteIs
<1> HIDE DEF b
<1>3. MemOK(b) /\ b.store = a.store /\ b.handed = a.handed /\ b.over = a.over /\ DOMAIN b.rb = DOMAIN a.rb
  BY <1>2 DEF RouteRemoved, Freed, Fixed
<1>4. /\ MemOK(d) /\ d.handed = a.handed /\ d.over = a.over /\ d.fault = b.fault /\ d.rb = b.rb
      /\ DOMAIN d.store = DOMAIN a.store
      /\ \A j \in DOMAIN a.store : /\ d.store[j].status = IF j = id THEN "gone" ELSE a.store[j].status
                                   /\ d.store[j].of = a.store[j].of
                                   /\ j # id => d.store[j] = a.store[j]
  <2>1. "gone" \in Status BY DEF Status
  <2>2. id \in DOMAIN b.store BY <1>3
  <2>3. /\ MemOK(d) /\ Fixed(b, d) /\ d.fault = b.fault /\ d.rb = b.rb /\ DOMAIN d.store = DOMAIN b.store
        /\ \A j \in DOMAIN b.store : /\ d.store[j].status = IF j = id THEN "gone" ELSE b.store[j].status
                                     /\ d.store[j].of = b.store[j].of
                                     /\ j # id => d.store[j] = b.store[j]
    BY <1>3, <2>1, <2>2, SetStatusIs
  <2> HIDE DEF d
  <2> QED BY <1>3, <2>3 DEF Fixed
<1>5. ASSUME b.fault = "none", NEW p, Good(a, p), NEW x, Holds(a, x, id, s)
      PROVE  Good(d, p) /\ Freed(a, b, {x})
  <2>1. /\ Alone(a, x, id) /\ Core(a) /\ Listed(a, x) /\ a.rb[x].contacts = s /\ x \in DOMAIN a.rb /\ a.rb[x].live
        /\ a.rb[x].id = id
    BY <1>5 DEF Good, Unique, Fits, Alone, Holds
  <2>2. \E c \in ToSet(s) : x \in ToSet(a.bundles[c]) \/ x \notin ToSet(a.handed[c])
    <3>1. s[1] \in Contact /\ 1 \in DOMAIN s OBVIOUS
    <3>2. s[1] \in ToSet(s) BY <3>1 DEF ToSet
    <3> QED BY <1>5, <3>1, <3>2 DEF Holds
  <2>3. Unlisted(a, b, x) BY <1>2, <1>5, <2>1, <2>2 DEF RouteRemoved
  <2>4. \A e \in Contact : \A y \in DOMAIN a.rb : y # x => (y \in ToSet(b.bundles[e]) <=> y \in ToSet(a.bundles[e]))
    BY <2>3 DEF Unlisted
  <2>5. Freed(a, b, {x}) /\ Core(b) BY <2>3 DEF Unlisted
  <2>6. "gone" \in {"bp", "gone"} OBVIOUS
  <2> QED BY <1>3, <1>5, <2>1, <2>4, <2>5, <2>6, FreedGood
<1> HIDE DEF d
<1>6. ASSUME d.fault = "none", NEW p, Good(a, p), NEW x, Holds(a, x, id, s)
      PROVE  /\ Good(d, p)
             /\ \A y \in DOMAIN a.rb : y # x => \A i, q : Holds(a, y, i, q) => Holds(d, y, i, q)
  <2>2. Good(d, p) /\ Freed(a, b, {x}) BY <1>4, <1>5, <1>6
  <2>3. ASSUME NEW y \in DOMAIN a.rb, y # x, NEW i, NEW q, Holds(a, y, i, q) PROVE Holds(d, y, i, q)
    <3>1. y \in DOMAIN d.rb /\ d.rb[y].live /\ d.rb[y].id = i /\ d.rb[y].contacts = q
      BY <1>4, <2>2, <2>3 DEF Freed, Holds
    <3> QED BY <1>4, <2>3, <3>1 DEF Holds
  <2> QED BY <2>2, <2>3
<1>7. Undone(a, d, s, id) BY <1>3, <1>4, <1>6 DEF Undone, Frame
<1> QED BY <1>1, <1>7 DEF b

\* The first count fragments are taken back.
TakenBack(a, b, base, count, p) ==
  /\ MemOK(b) /\ Frame(a, b) /\ DOMAIN b.rb = DOMAIN a.rb
  /\ b.fault = "none" => a.fault = "none" /\ Good(b, p)
  /\ \A j \in DOMAIN a.store : /\ b.store[j].of = a.store[j].of
                               /\ j \notin (base + 1)..(base + count) => b.store[j] = a.store[j]
  /\ b.fault = "none" => \A f \in 1..count : b.store[base + f].status = "gone"

\* The loop that takes the fragments back.
LEMMA TakeBackIs ==
  ASSUME NEW a, MemOK(a), NEW p, a.fault = "none" => Good(a, p), NEW routes \in Seq(GoodRoute), NEW base \in Nat, NEW l \in Nat,
         NEW count \in Nat, count <= Len(routes), \A f \in 1..count : base + f \in DOMAIN a.store,
         a.fault = "none" => \A f \in 1..count : Holds(a, l + f, base + f, routes[f].contacts)
  PROVE  TakenBack(a, TakeBack(a, base, routes, count), base, count, p)
<1> DEFINE s == [f \in 1..count |-> f]
    undo(v, f) == [router_remove_bundle_from_route(v, routes[f].contacts, base + f) EXCEPT !.store[base + f].status = "gone"]
    out(v, f) == IF v.fault # "none" THEN v ELSE undo(v, f)
    every == FoldLeft(LAMBDA v, f : out(v, f), a, s)
    Same(v, k) == \A j \in DOMAIN a.store : /\ v.store[j].of = a.store[j].of
                                            /\ j \notin (base + 1)..(base + k) => v.store[j] = a.store[j]
    Have(v, k) == \A f \in (k + 1)..count : Holds(v, l + f, base + f, routes[f].contacts)
    Gone(v, k) == \A f \in 1..k : v.store[base + f].status = "gone"
    A == {v \in Memory : MemOK(v) /\ Frame(a, v) /\ DOMAIN v.rb = DOMAIN a.rb /\ Same(v, count)}
    P == [k \in Nat |-> {v \in A : v.fault = "none" => a.fault = "none" /\ Good(v, p) /\ Have(v, k) /\ Gone(v, k)}]
<1>e. TakeBack(a, base, routes, count) = every BY DEF TakeBack, ForEach
<1>n. PICK N \in Nat : N = Len(s) /\ DOMAIN s = 1..N /\ N = count
  <2>1. DOMAIN s = 1..count /\ Len(s) = count OBVIOUS
  <2> HIDE DEF s
  <2> QED BY <2>1
<1>s. \A k \in 1..N : s[k] = k BY <1>n
<1> HIDE DEF s
<1>b. a \in A BY DEF Frame, MemOK
<1>1. ASSUME NEW v \in A, NEW k \in 1..N
      PROVE  MemOK(v) /\ Frame(a, v) /\ base + k \in DOMAIN v.store /\ Undone(v, undo(v, s[k]), routes[k].contacts, base + k)
  <2>1. s[k] = k BY <1>s
  <2>2. routes[k].contacts \in Seq(Contact) /\ routes[k].contacts # <<>>
    <3>1. k \in 1..Len(routes) /\ routes[k] \in GoodRoute BY <1>n
    <3> QED BY <3>1, FeasibleIs DEF GoodRoute, RouteOK, Route
  <2>3. MemOK(v) /\ Frame(a, v) /\ base + k \in DOMAIN v.store BY <1>n DEF Frame
  <2> HIDE DEF A
  <2> DEFINE q == routes[k].contacts
      id == base + k
  <2>4. undo(v, k) = [router_remove_bundle_from_route(v, q, id) EXCEPT !.store[id].status = "gone"] OBVIOUS
  <2>5. q \in Seq(Contact) /\ q # <<>> BY <2>2
  <2>6. id \in DOMAIN v.store BY <2>3
  <2> HIDE DEF q, id, undo
  <2>7. Undone(v, undo(v, k), q, id) BY <2>3, <2>4, <2>5, <2>6, UndoIs
  <2> QED BY <2>1, <2>3, <2>6, <2>7 DEF id, q
<1> HIDE DEF undo
<1>3. ASSUME NEW v \in A, NEW k \in 1..N PROVE out(v, s[k]) \in A
  <2> DEFINE w == undo(v, s[k])
  <2>1. Undone(v, w, routes[k].contacts, base + k) /\ Frame(a, v) /\ MemOK(v) BY <1>1
  <2> HIDE DEF w
  <2>2. /\ MemOK(w) /\ Frame(v, w) /\ DOMAIN w.rb = DOMAIN v.rb
        /\ w.store[base + k].of = v.store[base + k].of
        /\ \A j \in DOMAIN v.store : j # base + k => w.store[j] = v.store[j]
    BY <2>1 DEF Undone
  <2>3. base + k \in (base + 1)..(base + count) BY <1>n
  <2>4. DOMAIN v.store = DOMAIN a.store /\ Same(v, count) BY <2>1 DEF Frame
  <2>5. Same(w, count)
    <3>1. ASSUME NEW j \in DOMAIN a.store
          PROVE w.store[j].of = a.store[j].of /\ (j \notin (base + 1)..(base + count) => w.store[j] = a.store[j])
      <4>1. CASE j = base + k
        <5> DEFINE i == base + k
        <5>1. w.store[i].of = v.store[i].of /\ j = i /\ i \in (base + 1)..(base + count) BY <2>2, <2>3, <4>1
        <5> HIDE DEF i
        <5> QED BY <2>4, <5>1
      <4>2. CASE j # base + k
        <5>1. w.store[j] = v.store[j] BY <2>2, <2>4, <4>2
        <5> QED BY <2>4, <5>1
      <4> QED BY <4>1, <4>2
    <3> QED BY <3>1
  <2>6. Frame(a, w) BY <2>1, <2>2 DEF Frame
  <2>7. w \in Memory BY <2>2 DEF MemOK
  <2> HIDE DEF Same
  <2>8. w \in A BY <2>2, <2>5, <2>6, <2>7
  <2> QED BY <2>8 DEF w
<1>4. ASSUME NEW v \in A, NEW k \in 1..N, v \in P[k - 1] PROVE out(v, s[k]) \in P[k]
  <2> DEFINE w == undo(v, s[k])
      z == out(v, s[k])
  <2>1. k - 1 \in Nat /\ k \in Nat /\ k >= 1 BY <1>n
  <2>2. z \in A BY <1>3
  <2>3. ASSUME z.fault = "none" PROVE a.fault = "none" /\ Good(z, p) /\ Have(z, k) /\ Gone(z, k)
    <3>1. v.fault = "none" /\ z = w BY <2>3
    <3>2. a.fault = "none" /\ Good(v, p) /\ Have(v, k - 1) /\ Gone(v, k - 1)
      <4> HIDE DEF Have, Gone, A
      <4> QED BY <1>4, <2>1, <3>1
    <3>3. MemOK(v) /\ Frame(a, v) /\ Undone(v, w, routes[k].contacts, base + k) BY <1>1
    <3>9. base + k \in DOMAIN v.store BY <1>1
    <3> HIDE DEF w, z, A
    <3>4. w.fault = "none" BY <2>3, <3>1
    <3>5. Holds(v, l + k, base + k, routes[k].contacts)
      <4>1. k \in ((k - 1) + 1)..count BY <1>n, <2>1
      <4> QED BY <3>2, <4>1
    <3>6. /\ Good(w, p)
          /\ \A y \in DOMAIN v.rb : y # l + k => \A i, q : Holds(v, y, i, q) => Holds(w, y, i, q)
      BY <3>2, <3>3, <3>4, <3>5 DEF Undone
    <3>7. Have(w, k)
      <4>1. ASSUME NEW f \in (k + 1)..count PROVE Holds(w, l + f, base + f, routes[f].contacts)
        <5>1. f \in ((k - 1) + 1)..count /\ l + f # l + k BY <1>n, <2>1
        <5>2. Holds(v, l + f, base + f, routes[f].contacts) BY <3>2, <5>1
        <5>3. l + f \in DOMAIN v.rb BY <5>2 DEF Holds
        <5> QED BY <3>6, <5>1, <5>2, <5>3
      <4> QED BY <4>1
    <3>8. Gone(w, k)
      <4>1. w.store[base + k].status = "gone" /\ \A j \in DOMAIN v.store : j # base + k => w.store[j] = v.store[j]
        BY <3>3 DEF Undone
      <4>2. ASSUME NEW f \in 1..k, f # k PROVE w.store[base + f].status = "gone"
        <5>1. f \in 1..(k - 1) /\ f \in 1..count /\ base + f # base + k BY <1>n, <2>1, <4>2
        <5>2. base + f \in DOMAIN v.store BY <3>3, <5>1 DEF Frame
        <5>3. v.store[base + f].status = "gone" BY <3>2, <5>1
        <5> QED BY <4>1, <5>1, <5>2, <5>3
      <4>3. \A f \in 1..k : f = k \/ f # k OBVIOUS
      <4> QED BY <4>1, <4>2, <4>3
    <3> HIDE DEF Have, Gone
    <3> QED BY <3>1, <3>2, <3>6, <3>7, <3>8
  <2> HIDE DEF z, A, Have, Gone
  <2> QED BY <2>1, <2>2, <2>3 DEF z
<1> HIDE DEF out, Same
<1> DEFINE op(v, n) == out(v, s[n])
    G == [z \in (1..N) \X A |-> op(z[2], z[1])]
    E(h) == h = [x \in SUBSET (DOMAIN s) |-> IF x = {} THEN a ELSE op(h[x \ {Max(x)}], Max(x))]
    g == CHOOSE h : E(h)
<1>f1. ASSUME NEW n \in 1..N, NEW v \in A PROVE op(v, n) \in A
    BY <1>3
<1>f2. every = g[DOMAIN s] BY DEF every, FoldLeft, MapThenFoldSet
<1> HIDE DEF op, A, every
<1>f3. G \in [(1..N) \X A -> A] /\ \A n \in 1..N : \A v \in A : G[<<n, v>>] = op(v, n) BY <1>f1
<1> HIDE DEF G
<1>f4. PICK h : Folds(h, N, A, a, G) BY <1>n, <1>b, <1>f3, FoldThere
<1>f5. E(h) BY <1>n, <1>f3, <1>f4 DEF Folds
<1>f6. E(g) BY <1>f5, Zenon DEF g
<1> HIDE DEF g
<1>f7. FoldOf(g, N, A, a, G) BY <1>n, <1>f3, <1>f6, Zenon DEF FoldOf, E
<1> HIDE DEF E
<1>f8. a \in P[0] /\ \A n \in 1..N : \A v \in A : v \in P[n - 1] => G[<<n, v>>] \in P[n]
  <2>1. a \in P[0]
    <3> HIDE DEF A
    <3>1. ASSUME a.fault = "none" PROVE Have(a, 0) /\ Gone(a, 0)
      <4>1. \A f \in 1..count : Holds(a, l + f, base + f, routes[f].contacts) BY <3>1
      <4>2. \A f \in (0 + 1)..count : f \in 1..count OBVIOUS
      <4>3. 1..0 = {} OBVIOUS
      <4> QED BY <4>1, <4>2, <4>3
    <3> HIDE DEF Have, Gone
    <3> QED BY <1>b, <3>1
  <2>2. ASSUME NEW n \in 1..N, NEW v \in A, v \in P[n - 1] PROVE op(v, n) \in P[n]
    <3> HIDE DEF P
    <3> QED BY <1>4, <2>2 DEF op
  <2> HIDE DEF P
  <2> QED BY <1>f3, <2>1, <2>2
<1> HIDE DEF P
<1>f9. Leads(N, A, a, G, P) BY <1>b, <1>f3, <1>f8 DEF Leads
<1>f10. every \in A /\ every \in P[N] BY <1>n, <1>f2, <1>f7, <1>f9, FoldEnds
<1> DEFINE b == every
<1>5. MemOK(b) /\ Frame(a, b) /\ DOMAIN b.rb = DOMAIN a.rb /\ Same(b, count) BY <1>f10 DEF A
<1>6. b.fault = "none" => a.fault = "none" /\ Good(b, p) /\ Gone(b, count)
  <2> HIDE DEF Gone, Have
  <2> QED BY <1>f10, <1>n DEF P
<1> HIDE DEF b
<1>7. TakenBack(a, b, base, count, p) BY <1>5, <1>6 DEF TakenBack, Same
<1> QED BY <1>e, <1>7 DEF b, s

\* ---- process_bundle
\* n fragments of bundle id are in the storage.
InStore(a, b, id, n) ==
  /\ MemOK(b) /\ Fixed(a, b) /\ b.fault = a.fault /\ b.rb = a.rb /\ b.bundles = a.bundles /\ b.left = a.left
  /\ Len(b.store) = Len(a.store) + n
  /\ \A j \in DOMAIN a.store : b.store[j] = a.store[j]
  /\ \A f \in 1..n : b.store[Len(a.store) + f].of = id /\ b.store[Len(a.store) + f].status = "gone"

\* They are frags.
Carries(a, b, frags) == \A f \in 1..Len(frags) : b.store[Len(a.store) + f].bundle = frags[f]
Whole(bundle, frags) ==
  OnePayloadEach => Tile(bundle, frags) /\ \A k \in DOMAIN frags : OnePayload(frags[k])

AddStored(a, id, frags) ==
  [a EXCEPT !.store = a.store \o [f \in DOMAIN frags |->
                        [a.store[id] EXCEPT !.bundle = frags[f], !.of = id, !.status = "gone"]]]

\* bundle_storage_add for each of the fragments
LEMMA StoreIs ==
  ASSUME NEW a, MemOK(a), NEW id \in DOMAIN a.store, NEW frags \in Seq(Bundles)
  PROVE  /\ InStore(a, AddStored(a, id, frags), id, Len(frags))
         /\ Carries(a, AddStored(a, id, frags), frags)
<1> DEFINE e(f) == [a.store[id] EXCEPT !.bundle = frags[f], !.of = id, !.status = "gone"]
    more == [f \in DOMAIN frags |-> e(f)]
    store == a.store \o more
    b == [a EXCEPT !.store = store]
    n == Len(frags)
    l == Len(a.store)
<1>1. a \in Memory BY DEF MemOK
<1>2. DOMAIN a.store = 1..l /\ l \in Nat /\ a.store[id] \in Entry /\ a.store \in Seq(Entry) /\ n \in Nat /\ DOMAIN frags = 1..n
  BY MemoryIs, ObjectIs
<1>3. ASSUME NEW f \in 1..n PROVE e(f) \in Entry /\ e(f).of = id /\ e(f).status = "gone" /\ e(f).bundle = frags[f]
  <2>1. frags[f] \in Bundles /\ id \in Nat BY <1>2
  <2>2. "gone" \in Status BY DEF Status
  <2> QED BY <1>2, <2>1, <2>2 DEF Entry
<1> HIDE DEF e
<1>4. more \in Seq(Entry) /\ Len(more) = n /\ \A f \in 1..n : more[f] = e(f)
  <2>1. more \in [1..n -> Entry] BY <1>2, <1>3
  <2>2. DOMAIN more = 1..n /\ \A f \in 1..n : more[f] = e(f) BY <1>2
  <2>3. n \in Nat BY <1>2
  <2> HIDE DEF more, n
  <2>4. more \in Seq(Entry) /\ Len(more) = n BY <2>1, <2>3
  <2> QED BY <2>2, <2>4
<1> HIDE DEF more, n, l
<1>5. store \in Seq(Entry) /\ Len(store) = l + n /\ DOMAIN store = 1..(l + n)
      /\ (\A j \in 1..l : store[j] = a.store[j]) /\ \A f \in 1..n : store[l + f] = e(f)
  <2> DEFINE s == a.store
  <2>1. l = Len(s) /\ s \in Seq(Entry) /\ store = s \o more BY <1>2 DEF l
  <2>2. more \in Seq(Entry) /\ Len(more) = n BY <1>4
  <2> HIDE DEF s, store
  <2>4. s \o more \in Seq(Entry) /\ Concat(s, more, s \o more) BY <2>1, <2>2, ConcatIs
  <2>5. store \in Seq(Entry) /\ Concat(s, more, store) BY <2>1, <2>4
  <2>3. /\ Len(store) = Len(s) + Len(more) /\ DOMAIN store = 1..(Len(s) + Len(more))
        /\ \A j \in 1..Len(s) : store[j] = s[j]
        /\ \A f \in 1..Len(more) : store[Len(s) + f] = more[f]
    BY <2>5 DEF Concat
  <2> QED BY <1>4, <2>1, <2>2, <2>3, <2>5 DEF s
<1> HIDE DEF b, store
<1>6. /\ b \in Memory /\ b.bundles = a.bundles /\ b.left = a.left /\ b.fault = a.fault /\ b.rb = a.rb /\ b.store = store
      /\ b.rq = a.rq /\ b.handed = a.handed /\ b.over = a.over /\ b.rate = a.rate /\ b.total = a.total
  BY <1>1, <1>5 DEF Memory, b
<1>7. 1..l \subseteq 1..(l + n) BY <1>2
<1>8. MemOK(b) BY <1>2, <1>5, <1>6, <1>7 DEF MemOK
<1>9. \A f \in 1..n : b.store[l + f].of = id /\ b.store[l + f].status = "gone" BY <1>3, <1>5, <1>6
<1>10. InStore(a, b, id, n) BY <1>2, <1>5, <1>6, <1>8, <1>9 DEF InStore, Fixed, l
<1>11. \A f \in 1..n : b.store[l + f].bundle = frags[f] BY <1>3, <1>5, <1>6
<1>13. Carries(a, b, frags) BY <1>11 DEF Carries, n, l
<1>14. AddStored(a, id, frags) = b BY Zenon DEF AddStored, b, store, more, e
<1> QED BY <1>10, <1>13, <1>14 DEF n

\* They are fragments of the bundle that is being cut.
LEMMA StoredGood ==
  ASSUME NEW a, MemOK(a), Good(a, 0), NEW id \in DOMAIN a.store, a.store[id].status = "bp",
         NEW n \in Nat, NEW b, InStore(a, b, id, n),
         NEW frags \in Seq(Bundles), Len(frags) = n, Carries(a, b, frags), Whole(a.store[id].bundle, frags)
  PROVE  Good(b, id) /\ \A f \in 1..n : Spare(b, Len(a.store) + f, id)
<1> DEFINE l == Len(a.store)
<1>1. DOMAIN a.store = 1..l /\ l \in Nat /\ id \in 1..l BY ObjectIs
<1>2. Len(b.store) = l + n /\ DOMAIN b.store = 1..Len(b.store) BY ObjectIs DEF InStore
<1>3. /\ \A j \in 1..l : b.store[j] = a.store[j]
      /\ \A f \in 1..n : b.store[l + f].of = id /\ b.store[l + f].status = "gone"
      /\ b.rb = a.rb /\ b.bundles = a.bundles /\ b.left = a.left /\ Fixed(a, b)
  BY <1>1 DEF InStore
<1> HIDE DEF l
<1>4. \A j \in DOMAIN b.store : j \in 1..l \/ (b.store[j].of = id /\ b.store[j].status = "gone")
  <2>1. ASSUME NEW j \in 1..(l + n), j \notin 1..l PROVE j - l \in 1..n /\ j = l + (j - l) BY <1>1, <2>1
  <2>2. ASSUME NEW j \in 1..(l + n), j \notin 1..l PROVE b.store[j].of = id /\ b.store[j].status = "gone"
    <3> DEFINE f == j - l
    <3>1. f \in 1..n /\ j = l + f BY <2>1, <2>2
    <3> HIDE DEF f
    <3> QED BY <1>3, <3>1
  <2> QED BY <1>2, <2>2
<1>5. 1..l \subseteq DOMAIN b.store /\ \A f \in 1..n : l + f \in DOMAIN b.store BY <1>1, <1>2
<1>6. Core(a) /\ Fits(a, {}) /\ Unique(a) /\ Family(a, 0) /\ Tiled(a, 0) BY DEF Good
<1>7. Core(b) BY <1>3, <1>6, CoreSame DEF InStore
<1>8. Fits(b, {}) BY <1>3, <1>6 DEF Fits, Listed, Fixed
<1>9. Unique(b)
  <2>1. ASSUME NEW x \in DOMAIN b.rb, b.rb[x].live PROVE b.store[b.rb[x].id].status = "routed" /\ Only(b, x)
    <3>1. x \in DOMAIN a.rb /\ a.rb[x].live /\ b.rb[x].id = a.rb[x].id BY <1>3, <2>1
    <3>2. a.store[a.rb[x].id].status = "routed" /\ Only(a, x) BY <1>6, <3>1 DEF Unique
    <3>3. a.rb[x].id \in 1..l BY <1>1, <3>1 DEF MemOK
    <3>4. b.store[b.rb[x].id].status = "routed" BY <1>3, <3>1, <3>2, <3>3
    <3>5. Only(b, x) BY <1>3, <3>2 DEF Only
    <3> QED BY <3>4, <3>5
  <2>2. \A i \in DOMAIN b.store : b.store[i].status = "routed" => i \in 1..l BY <1>4
  <2> QED BY <1>1, <1>3, <1>6, <2>1, <2>2 DEF Unique
<1>10. Family(b, id)
  <2>1. ASSUME NEW i \in DOMAIN b.store, b.store[i].of # 0
        PROVE /\ b.store[i].of \in DOMAIN b.store
              /\ Active(b.store[i]) /\ b.store[i].of # id => b.store[b.store[i].of].status = "replaced"
    <3>1. CASE i \in 1..l
      <4>1. a.store[i].of \in 1..l /\ (Active(a.store[i]) => a.store[a.store[i].of].status = "replaced")
        BY <1>1, <1>3, <1>6, <2>1, <3>1 DEF Family
      <4> QED BY <1>3, <1>5, <3>1, <4>1
    <3>2. CASE b.store[i].of = id BY <1>1, <1>5, <3>2
    <3> QED BY <1>4, <3>1, <3>2
  <2> QED BY <2>1 DEF Family
<1>11. Tiled(b, id)
  <2> SUFFICES ASSUME OnePayloadEach PROVE Tiled(b, id) BY DEF Tiled
  <2>1. a.store \in Seq(Entry) /\ b.store \in Seq(Entry) BY MemoryIs DEF InStore
  <2>2. \A f \in 1..n : b.store[l + f].bundle = frags[f] BY DEF Carries, l
  <2>3. (\A i : i # id => PartsOf(b.store, i) = PartsOf(a.store, i))
        /\ ((\A j \in DOMAIN a.store : a.store[j].of # id) => PartsOf(b.store, id) = [f \in 1..n |-> l + f])
    <3> DEFINE r == b.store
        q == a.store
    <3>0. r \in Seq(Entry) /\ q \in Seq(Entry) BY <2>1
    <3>1. Behind(q, r, n, id) BY <1>2, <1>3 DEF Behind, l
    <3> HIDE DEF r, q
    <3>2. PartsBehind(q, r, n, id) BY <3>0, <3>1, PartsGrown
    <3> QED BY <3>2, Zenon DEF PartsBehind, r, q, l
  <2>4. ~Ended(a.store[id]) /\ id # 0 BY <1>1 DEF Ended
  <2>5. \A j \in DOMAIN a.store : a.store[j].of # id BY <1>6, <2>4 DEF Tiled
  <2>6. FragmentsOf(b.store, id) = frags
    <3> DEFINE parts == PartsOf(b.store, id)
    <3>1. DOMAIN parts = 1..n /\ \A f \in 1..n : parts[f] = l + f BY <2>3, <2>5
    <3>2. FragmentsOf(b.store, id) = [k \in DOMAIN parts |-> b.store[parts[k]].bundle] BY DEF FragmentsOf
    <3> HIDE DEF parts
    <3>3. FragmentsOf(b.store, id) = [k \in 1..n |-> frags[k]] BY <2>2, <3>1, <3>2
    <3>4. frags = [k \in 1..n |-> frags[k]] OBVIOUS
    <3> QED BY <3>3, <3>4
  <2>7. ASSUME NEW i \in DOMAIN b.store PROVE OnePayload(b.store[i].bundle)
    <3>1. CASE i \in 1..l BY <1>1, <1>3, <1>6, <3>1 DEF Tiled
    <3>2. CASE i \notin 1..l
      <4> DEFINE f == i - l
      <4>1. f \in 1..n /\ i = l + f BY <1>1, <1>2, <3>2
      <4> HIDE DEF f
      <4>2. OnePayload(frags[f]) /\ b.store[i].bundle = frags[f] BY <2>2, <4>1 DEF Whole
      <4> QED BY <4>2
    <3> QED BY <3>1, <3>2
  <2>8. ASSUME NEW k \in DOMAIN b.store, b.store[k].of # 0, b.store[k].of # id PROVE Ended(b.store[b.store[k].of])
    <3>1. k \in 1..l /\ b.store[k] = a.store[k] BY <1>3, <1>4, <2>8
    <3>2. a.store[k].of \in 1..l /\ Ended(a.store[a.store[k].of]) BY <1>1, <1>6, <2>8, <3>1 DEF Family, Tiled
    <3> QED BY <1>3, <3>1, <3>2
  <2>9. ASSUME NEW i \in DOMAIN b.store, b.store[i].status = "replaced" \/ i = id
        PROVE  Tile(b.store[i].bundle, FragmentsOf(b.store, i))
    <3>1. CASE i = id BY <1>1, <1>3, <2>6, <3>1 DEF Whole
    <3>2. CASE i # id
      <4>1. i \in 1..l /\ a.store[i].status = "replaced" /\ b.store[i] = a.store[i] BY <1>3, <1>4, <2>9, <3>2
      <4>2. Tile(a.store[i].bundle, FragmentsOf(a.store, i)) BY <1>1, <1>6, <4>1 DEF Tiled
      <4>3. PartsOf(b.store, i) = PartsOf(a.store, i) BY <2>3, <3>2
      <4>4. \A j \in DOMAIN a.store : b.store[j].bundle = a.store[j].bundle BY <1>1, <1>3
      <4>5. FragmentsOf(b.store, i) = FragmentsOf(a.store, i) BY <2>1, <4>3, <4>4, FragmentsSame
      <4> QED BY <4>1, <4>2, <4>5
    <3> QED BY <3>1, <3>2
  <2> QED BY <2>7, <2>8, <2>9 DEF Tiled
<1> QED BY <1>3, <1>5, <1>7, <1>8, <1>9, <1>10, <1>11 DEF Good, Spare, l

\* The end of a bundle that was not scheduled itself: replaced by its
\* fragments, or it has none that are left.
LEMMA EndGood ==
  ASSUME NEW a, MemOK(a), NEW p, Good(a, p), NEW id \in DOMAIN a.store, a.store[id].status = "bp", p \in {0, id},
         NEW st \in {"replaced", "refused", "lost"},
         st = "replaced" \/ p = 0 \/ (\A i \in DOMAIN a.store : a.store[i].of = id => ~Active(a.store[i])),
         st = "replaced" => p = id
  PROVE  Good(SetStatus(a, id, st), 0)
<1> DEFINE b == SetStatus(a, id, st)
<1>1. /\ MemOK(b) /\ Fixed(a, b) /\ b.rb = a.rb /\ b.bundles = a.bundles /\ b.left = a.left
      /\ DOMAIN b.store = DOMAIN a.store
      /\ \A j \in DOMAIN a.store : /\ b.store[j].status = IF j = id THEN st ELSE a.store[j].status
                                   /\ b.store[j].of = a.store[j].of
                                   /\ j # id => b.store[j] = a.store[j]
      /\ SameBundles(a, b)
  <2>1. st \in Status BY DEF Status
  <2> QED BY <2>1, SetStatusIs
<1> HIDE DEF b
<1>2. Core(a) /\ Fits(a, {}) /\ Unique(a) /\ Family(a, p) /\ Tiled(a, p) BY DEF Good
<1>3. Core(b) BY <1>1, <1>2, CoreSame
<1>4. Fits(b, {}) BY <1>1, <1>2 DEF Fits, Listed, Fixed
<1>5. Unique(b)
  <2>1. \A x \in DOMAIN a.rb : a.rb[x].live => a.rb[x].id # id /\ a.rb[x].id \in DOMAIN a.store BY <1>2 DEF Unique, MemOK
  <2>2. \A x \in DOMAIN b.rb : b.rb[x].live => b.store[b.rb[x].id].status = "routed" /\ Only(b, x)
    BY <1>1, <1>2, <2>1 DEF Unique, Only
  <2>3. \A i \in DOMAIN b.store : b.store[i].status = "routed" => i \in DOMAIN a.store /\ a.store[i].status = "routed" BY <1>1
  <2> QED BY <1>1, <1>2, <2>2, <2>3 DEF Unique
<1>6. Family(b, 0)
  <2>1. ASSUME NEW i \in DOMAIN b.store, b.store[i].of # 0
        PROVE /\ b.store[i].of \in DOMAIN b.store
              /\ Active(b.store[i]) => b.store[b.store[i].of].status = "replaced"
    <3>1. /\ i \in DOMAIN a.store /\ b.store[i].of = a.store[i].of /\ a.store[i].of \in DOMAIN a.store
          /\ Active(a.store[i]) /\ a.store[i].of # p => a.store[a.store[i].of].status = "replaced"
      BY <1>1, <1>2, <2>1 DEF Family
    <3>2. ASSUME Active(b.store[i]) PROVE b.store[b.store[i].of].status = "replaced"
      <4>1. i # id /\ b.store[i] = a.store[i] BY <1>1, <3>1, <3>2 DEF Active
      <4>2. CASE a.store[i].of = id
        <5>1. st = "replaced" BY <2>1, <3>1, <3>2, <4>1, <4>2
        <5> QED BY <1>1, <3>1, <4>2, <5>1
      <4>3. CASE a.store[i].of # id BY <1>1, <2>1, <3>1, <3>2, <4>1, <4>3
      <4> QED BY <4>2, <4>3
    <3> QED BY <1>1, <3>1, <3>2
  <2> QED BY <2>1 DEF Family
<1>7. Tiled(b, 0)
  <2>1. \A j \in DOMAIN a.store : Ended(a.store[j]) => Ended(b.store[j]) BY <1>1 DEF Ended
  <2>2. \A j \in DOMAIN a.store : b.store[j].status = "replaced" => a.store[j].status = "replaced" \/ j = p BY <1>1
  <2>3. 0 = p \/ (0 = 0 /\ p \in DOMAIN a.store /\ Ended(b.store[p])) BY <1>1 DEF Ended
  <2> DEFINE q == 0
  <2>4. q = p \/ (q = 0 /\ p \in DOMAIN a.store /\ Ended(b.store[p])) BY <2>3
  <2> HIDE DEF q
  <2>5. Tiled(b, q) BY <1>1, <1>2, <2>1, <2>2, <2>4, TiledSame
  <2> QED BY <2>5 DEF q
<1> QED BY <1>3, <1>4, <1>5, <1>6, <1>7 DEF Good, b

\* What the router task makes of the memory.
Done(a, b) == MemOK(b) /\ b.handed = a.handed /\ b.over = a.over /\ (b.fault = "none" => Good(b, 0))

\* The last step of a fragmentation.
LEMMA EndIs ==
  ASSUME NEW a, NEW u, MemOK(u), u.handed = a.handed, u.over = a.over, NEW id \in DOMAIN u.store,
         NEW st \in {"replaced", "refused", "lost"}, NEW p \in {0, id},
         u.fault = "none" => Good(u, p) /\ u.store[id].status = "bp",
         u.fault = "none" => st = "replaced" \/ p = 0 \/ (\A i \in DOMAIN u.store : u.store[i].of = id => ~Active(u.store[i])),
         st = "replaced" => p = id
  PROVE  Done(a, SetStatus(u, id, st))
<1> DEFINE b == SetStatus(u, id, st)
<1>1. MemOK(b) /\ Fixed(u, b) /\ b.fault = u.fault
  <2>1. st \in Status BY DEF Status
  <2> QED BY <2>1, SetStatusIs
<1>2. u.fault = "none" => Good(b, 0)
  <2> SUFFICES ASSUME u.fault = "none" PROVE Good(SetStatus(u, id, st), 0) OBVIOUS
  <2>1. Good(u, p) /\ u.store[id].status = "bp" OBVIOUS
  <2>2. st = "replaced" \/ p = 0 \/ \A i \in DOMAIN u.store : u.store[i].of = id => ~Active(u.store[i]) OBVIOUS
  <2> QED BY <2>1, <2>2, EndGood
<1> HIDE DEF b
<1> QED BY <1>1, <1>2 DEF Done, Fixed, b

\* The fragments up to k have been added.
LEMMA UptoIs ==
  ASSUME NEW a, MemOK(a), NEW routes \in Seq(GoodRoute), NEW base \in Nat, NEW k \in Nat, k <= Len(routes),
         \A f \in 1..k : base + f \in DOMAIN a.store
  PROVE  AddedAll(a, Adding(a, [f \in 1..k |-> f], routes, base), routes, base, 0, k)
<1>1. [f \in 1..k |-> f] = [f \in 1..k |-> 0 + f] OBVIOUS
<1>2. ASSUME NEW f \in 1..k PROVE base + (0 + f) \in DOMAIN a.store
  <2>1. 0 + f = f OBVIOUS
  <2> QED BY <2>1
<1>3. 0 + k <= Len(routes) /\ 0 \in Nat OBVIOUS
<1> DEFINE s == [f \in 1..k |-> f]
    q == [f \in 1..k |-> 0 + f]
<1>4. AddedAll(a, Adding(a, [f \in 1..k |-> 0 + f], routes, base), routes, base, 0, k) BY <1>2, <1>3, AddingIs
<1>5. AddedAll(a, Adding(a, q, routes, base), routes, base, 0, k) BY <1>4
<1>6. s = q BY <1>1
<1> HIDE DEF s, q
<1>7. AddedAll(a, Adding(a, s, routes, base), routes, base, 0, k) BY <1>5, <1>6
<1> QED BY <1>7 DEF s

\* The steps of a fragmentation that is taken back: the bundles in the storage
\* (l before that), the first k with their objects, the one that fails.
Holding(a, l) == Len(a.store) = l
FailedCut(a, id, n, d, routes, k, fails, l, u, w, v) ==
  /\ MemOK(a) /\ Good(a, 0) /\ id \in DOMAIN a.store /\ a.store[id].status = "bp" /\ n \in Nat
  /\ InStore(a, d, id, n) /\ k \in Nat /\ fails \in Nat /\ fails = k + 1 /\ fails <= n
  /\ Holding(a, l) /\ AddedAll(d, u, routes, l, 0, k)
  /\ Grown(u, w, l + fails) /\ ~(w.store[l + fails].status = "routed")
  /\ TakenBack(w, v, l, k, id) /\ v.fault = "none" /\ u.fault = "none"
NoneLeft(v, id) == v.store[id].status = "bp" /\ \A i \in DOMAIN v.store : v.store[i].of = id => ~Active(v.store[i])

\* When one of the fragments cannot be scheduled, none is: TakeBack leaves no
\* fragment of the bundle that is active.
LEMMA TakenBackEnds ==
  ASSUME NEW a, NEW id, NEW n, NEW d, NEW routes, NEW k, NEW fails, NEW l, NEW u, NEW w, NEW v,
         FailedCut(a, id, n, d, routes, k, fails, l, u, w, v)
  PROVE  NoneLeft(v, id)
<1>0. /\ MemOK(a) /\ Good(a, 0) /\ id \in DOMAIN a.store /\ a.store[id].status = "bp" /\ n \in Nat
      /\ InStore(a, d, id, n) /\ k \in Nat /\ fails \in Nat /\ fails = k + 1 /\ fails <= n
      /\ Holding(a, l) /\ AddedAll(d, u, routes, l, 0, k)
      /\ Grown(u, w, l + fails) /\ ~(w.store[l + fails].status = "routed")
      /\ TakenBack(w, v, l, k, id) /\ v.fault = "none" /\ u.fault = "none"
  BY DEF FailedCut
<1>1. DOMAIN a.store = 1..l /\ l \in Nat /\ id \in 1..l BY <1>0, ObjectIs DEF Holding
<1>2. Len(d.store) = l + n /\ DOMAIN d.store = 1..(l + n)
  <2>1. DOMAIN d.store = 1..Len(d.store) BY <1>0, ObjectIs DEF InStore
  <2> QED BY <1>0, <2>1 DEF InStore, Holding
<1>3. DOMAIN u.store = 1..(l + n) /\ DOMAIN w.store = 1..(l + n) /\ DOMAIN v.store = 1..(l + n)
  BY <1>0, <1>2 DEF AddedAll, Frame, Grown, TakenBack
<1>4. /\ \A j \in 1..l : d.store[j] = a.store[j]
      /\ \A f \in 1..n : d.store[l + f].of = id /\ d.store[l + f].status = "gone"
  BY <1>0, <1>1 DEF InStore, Holding
<1>5. /\ \A j \in 1..(l + n) : u.store[j].of = d.store[j].of /\ (j \notin (l + 1)..(l + k) => u.store[j] = d.store[j])
  <2>1. Scheduled(d, u, routes, l, 0, k) BY <1>0 DEF AddedAll
  <2>2. \A j \in DOMAIN d.store : u.store[j].of = d.store[j].of /\ (j \notin (l + (0 + 1))..(l + (0 + k)) => u.store[j] = d.store[j])
    BY <2>1 DEF Scheduled
  <2>3. 0 + 1 = 1 /\ 0 + k = k BY <1>0
  <2> QED BY <1>2, <2>2, <2>3
<1>6. /\ \A j \in 1..(l + n) : w.store[j].of = u.store[j].of /\ (j # l + fails => w.store[j] = u.store[j])
      /\ w.store[l + fails].status = u.store[l + fails].status
  BY <1>0, <1>3 DEF Grown
<1>7. /\ \A j \in 1..(l + n) : v.store[j].of = w.store[j].of /\ (j \notin (l + 1)..(l + k) => v.store[j] = w.store[j])
      /\ \A f \in 1..k : v.store[l + f].status = "gone"
  BY <1>0, <1>3 DEF TakenBack
<1>8. v.store[id].status = "bp"
  <2>1. id \in 1..(l + n) /\ id \notin (l + 1)..(l + k) /\ id # l + fails
    <3>1. id \in Nat /\ 1 <= id /\ id <= l /\ l \in Nat BY <1>1
    <3>2. n \in Nat /\ k \in Nat /\ fails \in Nat /\ fails >= 1 BY <1>0
    <3> HIDE <1>0
    <3> QED BY <3>1, <3>2
  <2> QED BY <1>0, <1>1, <1>4, <1>5, <1>6, <1>7, <2>1
<1>9. ASSUME NEW i \in 1..(l + n), v.store[i].of = id PROVE ~Active(v.store[i])
  <2>1. CASE i \in 1..l
    <3>1. i \notin (l + 1)..(l + k) /\ i # l + fails BY <1>0, <1>1, <2>1
    <3>2. v.store[i] = a.store[i] BY <1>4, <1>5, <1>6, <1>7, <2>1, <3>1
    <3>3. Family(a, 0) /\ id # 0 BY <1>0, <1>1 DEF Good
    <3>4. Active(a.store[i]) => a.store[id].status = "replaced" BY <1>0, <1>1, <1>9, <2>1, <3>2, <3>3 DEF Family
    <3> QED BY <1>0, <3>2, <3>4
  <2>2. CASE i \in (l + 1)..(l + k)
    <3> DEFINE f == i - l
    <3>1. f \in 1..k /\ i = l + f
      <4>1. k \in Nat /\ l \in Nat BY <1>0, <1>1
      <4> QED BY <2>2, <4>1
    <3> HIDE DEF f
    <3>2. v.store[i].status = "gone" BY <1>7, <3>1
    <3> QED BY <3>2 DEF Active
  <2>3. CASE i = l + fails
    <3>1. i \notin (l + 1)..(l + k) BY <1>0, <1>1, <2>3
    <3>2. fails \in 1..n BY <1>0, <1>1
    <3>3. d.store[i].status = "gone" BY <1>4, <2>3, <3>2
    <3>4. v.store[i].status = "gone" BY <1>5, <1>6, <1>7, <2>3, <3>1, <3>3
    <3> QED BY <3>4 DEF Active
  <2>4. CASE i \in (l + fails + 1)..(l + n)
    <3> DEFINE f == i - l
    <3>1. f \in 1..n /\ i = l + f BY <1>0, <1>1, <2>4
    <3> HIDE DEF f
    <3>2. d.store[i].status = "gone" BY <1>4, <3>1
    <3>3. i \notin (l + 1)..(l + k) /\ i # l + fails BY <1>0, <1>1, <2>4
    <3>4. v.store[i].status = "gone" BY <1>5, <1>6, <1>7, <3>2, <3>3
    <3> QED BY <3>4 DEF Active
  <2>5. i \in 1..l \/ i \in (l + 1)..(l + k) \/ i = l + fails \/ i \in (l + fails + 1)..(l + n)
    <3>1. l \in Nat /\ i \in Nat /\ n \in Nat /\ i <= l + n /\ 1 <= i BY <1>0, <1>1
    <3>2. l + fails = l + k + 1 /\ k \in Nat BY <1>0, <1>1
    <3> QED BY <3>1, <3>2
  <2> QED BY <2>1, <2>2, <2>3, <2>4, <2>5
<1> QED BY <1>3, <1>8, <1>9 DEF NoneLeft

\* The fragments of a bundle are scheduled, all or none of them.
LEMMA AddFragmentsIs ==
  ASSUME NEW a, MemOK(a), Good(a, 0), NEW id \in DOMAIN a.store, a.store[id].status = "bp",
         NEW frags \in Seq(Bundles), Whole(a.store[id].bundle, frags),
         NEW routes \in Seq(GoodRoute), Len(frags) = Len(routes), NEW fails \in 0..Len(routes)
  PROVE  Done(a, AddFragments(a, id, frags, routes, fails))
<1> DEFINE l == Len(a.store)
    n == Len(frags)
    d == AddStored(a, id, frags)
    upto(j) == Adding(d, [f \in 1..j |-> f], routes, l)
    rest(x) == Adding(x, [f \in 1..(n - fails) |-> fails + f], routes, l)
    w == router_add_bundle_to_route(upto(fails - 1), routes[fails], l + fails, TRUE)
    F(x) == IF x.store[l + fails].status = "routed" THEN SetStatus(rest(x), id, "replaced")
            ELSE SetStatus(TakeBack(x, l, routes, fails - 1), id, "refused")
    b == AddFragments(a, id, frags, routes, fails)
<1>1. b = IF fails = 0 THEN SetStatus(upto(n), id, "replaced") ELSE CHOOSE y \in {F(x) : x \in {w}} : TRUE
  BY Zenon DEF AddFragments, With, Adding, AddStored, SetStatus, Refuse
<1>2. n \in Nat /\ l \in Nat /\ DOMAIN a.store = 1..l BY ObjectIs
<1>3. InStore(a, d, id, n) /\ Carries(a, d, frags) BY StoreIs
<1> HIDE DEF d
<1>4. Good(d, id) /\ (\A f \in 1..n : Spare(d, l + f, id)) /\ MemOK(d) BY <1>2, <1>3, StoredGood DEF InStore
<1>5. \A f \in 1..n : l + f \in DOMAIN d.store
  <2> HIDE DEF l, n
  <2> QED BY <1>4 DEF Spare
<1>6. d.handed = a.handed /\ d.over = a.over /\ id \in DOMAIN d.store /\ d.store[id] = a.store[id]
  <2>1. DOMAIN d.store = 1..Len(d.store) /\ Len(d.store) = l + n BY <1>4, ObjectIs, <1>3 DEF InStore
  <2>2. id \in 1..(l + n) BY <1>2
  <2>3. d.handed = a.handed /\ d.over = a.over /\ d.store[id] = a.store[id] BY <1>3 DEF InStore, Fixed
  <2> QED BY <2>1, <2>2, <2>3
<1>7. ASSUME NEW j \in 0..n PROVE AddedAll(d, upto(j), routes, l, 0, j)
  <2>1. \A f \in 1..j : f \in 1..n BY <1>2
  <2>2. \A f \in 1..j : l + f \in DOMAIN d.store BY <1>5, <2>1
  <2>3. j \in Nat /\ j <= Len(routes) BY <1>2
  <2> HIDE DEF l, n
  <2> QED BY <1>2, <1>4, <2>2, <2>3, UptoIs
<1>8. id \notin (l + (0 + 1))..(l + (0 + n)) BY <1>2
<1> HIDE DEF F, w
<1>9. ASSUME fails = 0 PROVE Done(a, b)
  <2> DEFINE u == upto(n)
  <2>1. AddedAll(d, u, routes, l, 0, n) BY <1>2, <1>7
  <2> HIDE DEF u
  <2>2. MemOK(u) /\ u.handed = a.handed /\ u.over = a.over /\ id \in DOMAIN u.store BY <1>6, <2>1 DEF AddedAll, Frame
  <2>3. ASSUME u.fault = "none" PROVE Good(u, id) /\ u.store[id].status = "bp"
    <3>1. Scheduled(d, u, routes, l, 0, n) /\ \A p : Good(d, p) /\ (\A f \in 1..n : Spare(d, l + (0 + f), p)) => Good(u, p)
      BY <2>1, <2>3 DEF AddedAll
    <3>2. \A f \in 1..n : 0 + f = f OBVIOUS
    <3>3. Good(u, id)
      <4>1. \A f \in 1..n : Spare(d, l + (0 + f), id) BY <1>4, <3>2
      <4> QED BY <1>4, <3>1, <4>1
    <3>4. u.store[id] = d.store[id] BY <1>6, <1>8, <3>1 DEF Scheduled
    <3> QED BY <1>6, <3>3, <3>4
  <2>4. "replaced" \in {"replaced", "refused", "lost"} /\ id \in {0, id} OBVIOUS
  <2>5. Done(a, SetStatus(u, id, "replaced")) BY <2>2, <2>3, <2>4, EndIs
  <2> QED BY <1>1, <1>9, <2>5 DEF u
<1>10. ASSUME fails # 0 PROVE Done(a, b)
  <2> DEFINE k == fails - 1
      u == upto(k)
  <2>1. k \in Nat /\ fails = k + 1 /\ k \in 0..n /\ fails \in Nat /\ fails <= n /\ fails \in 1..n /\ k <= Len(routes) BY <1>10
  <2>2. b = F(w)
    <3>1. {F(x) : x \in {w}} = {F(w)} OBVIOUS
    <3> HIDE DEF b
    <3> QED BY <1>1, <1>10, <3>1, OneValue
  <2>3. AddedAll(d, u, routes, l, 0, k) BY <2>1, <1>7
  <2>4. w = router_add_bundle_to_route(u, routes[fails], l + fails, TRUE) BY DEF w
  <2> HIDE DEF k, u, b
  <2>5. MemOK(u) /\ u.handed = a.handed /\ u.over = a.over /\ DOMAIN u.store = DOMAIN d.store BY <1>6, <2>3 DEF AddedAll, Frame
  <2>6. RouteAdded(u, w, routes[fails], l + fails, TRUE)
    <3>1. routes[fails] \in GoodRoute /\ TRUE \in BOOLEAN BY <2>1
    <3> DEFINE i == l + fails
    <3>2. i \in DOMAIN u.store BY <1>5, <2>1, <2>5
    <3> HIDE DEF i
    <3> QED BY <2>4, <2>5, <3>1, <3>2, AddToRouteIs DEF i
  <2>7. /\ MemOK(w) /\ Grown(u, w, l + fails) /\ w.handed = a.handed /\ w.over = a.over /\ DOMAIN w.store = DOMAIN d.store
    BY <2>5, <2>6 DEF RouteAdded, Grown, Fixed
  <2>8. ASSUME w.fault = "none" PROVE u.fault = "none" /\ Good(u, id) /\ Good(w, id) /\ Scheduled(d, u, routes, l, 0, k)
    <3>1. u.fault = "none" /\ \A p : Good(u, p) /\ Spare(u, l + fails, p) => Good(w, p) BY <2>6, <2>8 DEF RouteAdded
    <3>2. Scheduled(d, u, routes, l, 0, k) /\ \A p : Good(d, p) /\ (\A f \in 1..k : Spare(d, l + (0 + f), p)) => Good(u, p)
      BY <2>3, <3>1 DEF AddedAll
    <3>3. Good(u, id)
      <4>1. \A f \in 1..k : 0 + f = f /\ f \in 1..n BY <1>2, <2>1
      <4>2. \A f \in 1..k : Spare(d, l + (0 + f), id) BY <1>4, <4>1
      <4> QED BY <1>4, <3>2, <4>2
    <3>4. Spare(u, l + fails, id)
      <4> DEFINE i == l + fails
      <4>1. i \notin (l + (0 + 1))..(l + (0 + k))
        <5>1. 0 + k = k /\ 0 + 1 = 1 /\ k < fails /\ fails \in Nat /\ l \in Nat BY <1>2, <2>1
        <5> DEFINE hi == l + (0 + k)
            lo == l + (0 + 1)
        <5> HIDE DEF l
        <5>2. hi \in Int /\ i \in Int /\ hi < i BY <5>1, <2>1
        <5> HIDE DEF hi, lo, i
        <5>3. i \notin lo..hi BY <5>2
        <5> QED BY <5>3 DEF hi, lo
      <4>2. Spare(d, i, id) /\ i \in DOMAIN d.store BY <1>4, <1>5, <2>1
      <4> HIDE DEF i
      <4>3. u.store[i] = d.store[i] BY <3>2, <4>1, <4>2 DEF Scheduled
      <4>4. Spare(u, i, id) BY <2>5, <4>2, <4>3 DEF Spare
      <4> QED BY <4>4 DEF i
    <3> QED BY <3>1, <3>2, <3>3, <3>4
  <2>9. CASE w.store[l + fails].status = "routed"
    <3> DEFINE q == n - fails
        v == rest(w)
    <3>1. q \in Nat /\ fails + q <= Len(routes) /\ \A f \in 1..q : fails + f \in 1..n BY <1>2, <2>1
    <3>2. \A f \in 1..q : l + (fails + f) \in DOMAIN w.store BY <1>5, <2>7, <3>1
    <3>3. v = Adding(w, [f \in 1..q |-> fails + f], routes, l) OBVIOUS
    <3>9. b = SetStatus(v, id, "replaced") BY <2>2, <2>9 DEF F
    <3> HIDE DEF q, v, l, n
    <3>4. AddedAll(w, v, routes, l, fails, q) BY <1>2, <2>1, <2>7, <3>1, <3>2, <3>3, AddingIs
    <3>5. MemOK(v) /\ v.handed = a.handed /\ v.over = a.over /\ id \in DOMAIN v.store BY <1>6, <2>7, <3>4 DEF AddedAll, Frame
    <3>6. ASSUME v.fault = "none" PROVE Good(v, id) /\ v.store[id].status = "bp"
      <4>1. /\ w.fault = "none" /\ Scheduled(w, v, routes, l, fails, q)
            /\ \A p : Good(w, p) /\ (\A f \in 1..q : Spare(w, l + (fails + f), p)) => Good(v, p)
        BY <3>4, <3>6 DEF AddedAll
      <4>2. Good(w, id) /\ Scheduled(d, u, routes, l, 0, k) BY <2>8, <4>1
      <4>3. ASSUME NEW i \in DOMAIN d.store, i \notin (l + (0 + 1))..(l + (0 + k)), i # l + fails PROVE w.store[i] = d.store[i]
        <5>1. u.store[i] = d.store[i] BY <4>2, <4>3 DEF Scheduled
        <5>2. w.store[i] = u.store[i] BY <2>5, <2>7, <4>3 DEF Grown
        <5> QED BY <5>1, <5>2
      <4>4. ASSUME NEW f \in 1..q PROVE Spare(w, l + (fails + f), id)
        <5> DEFINE i == l + (fails + f)
        <5>1. fails + f \in 1..n BY <3>1
        <5>2. i \in DOMAIN d.store /\ Spare(d, i, id) BY <1>4, <1>5, <5>1
        <5>3. i \notin (l + (0 + 1))..(l + (0 + k)) /\ i # l + fails
          <6>1. fails \in Nat /\ k \in Nat /\ f \in Nat /\ f >= 1 /\ k < fails BY <2>1, <3>1
          <6> QED BY <1>2, <6>1
        <5> HIDE DEF i
        <5>4. w.store[i] = d.store[i] BY <4>3, <5>2, <5>3
        <5>5. Spare(w, i, id) BY <2>7, <5>2, <5>4 DEF Spare
        <5> QED BY <5>5 DEF i
      <4>5. Good(v, id) BY <4>1, <4>2, <4>4
      <4>6. w.store[id] = d.store[id]
        <5>1. id \notin (l + (0 + 1))..(l + (0 + k)) /\ id # l + fails BY <1>2, <2>1
        <5> QED BY <1>6, <4>3, <5>1
      <4>7. v.store[id] = w.store[id]
        <5>1. id \notin (l + (fails + 1))..(l + (fails + q)) BY <1>2, <2>1, <3>1
        <5> QED BY <1>6, <2>7, <4>1, <5>1 DEF Scheduled
      <4> QED BY <1>6, <4>5, <4>6, <4>7
    <3>7. "replaced" \in {"replaced", "refused", "lost"} /\ id \in {0, id} OBVIOUS
    <3>8. Done(a, SetStatus(v, id, "replaced")) BY <3>5, <3>6, <3>7, EndIs
    <3> QED BY <3>8, <3>9
  <2>10. CASE ~(w.store[l + fails].status = "routed")
    <3> DEFINE v == TakeBack(w, l, routes, k)
    <3>1. b = SetStatus(v, id, "refused") BY <2>2, <2>10 DEF F, k
    <3>2. \A f \in 1..k : l + f \in DOMAIN w.store
      <4>1. \A f \in 1..k : f \in 1..n BY <1>2, <2>1
      <4> QED BY <1>5, <2>7, <4>1
    <3> DEFINE g == Len(d.rb)
    <3>3. g \in Nat /\ DOMAIN d.rb = 1..g BY <1>4, ObjectIs
    <3>4. ASSUME w.fault = "none" PROVE \A f \in 1..k : Holds(w, g + f, l + f, routes[f].contacts)
      <4>1. Scheduled(d, u, routes, l, 0, k) /\ MemOK(u) BY <2>5, <2>8, <3>4
      <4>2. Len(u.rb) = g + k /\ DOMAIN u.rb = 1..(g + k)
        <5>1. DOMAIN u.rb = 1..Len(u.rb) BY <2>5, ObjectIs
        <5> QED BY <4>1, <5>1 DEF Scheduled
      <4>3. ASSUME NEW f \in 1..k PROVE Holds(w, g + f, l + f, routes[f].contacts)
        <5>1. u.rb[g + f].live /\ u.rb[g + f].id = l + (0 + f) /\ u.rb[g + f].contacts = routes[0 + f].contacts
          BY <4>1 DEF Scheduled
        <5>2. 0 + f = f /\ g + f \in 1..(g + k) /\ g + f \notin 1..g BY <2>1, <3>3
        <5> DEFINE y == g + f
        <5>3. y \in DOMAIN u.rb /\ y \notin DOMAIN d.rb BY <3>3, <4>2, <5>2
        <5> HIDE DEF y
        <5>4. y \in DOMAIN w.rb /\ w.rb[y] = u.rb[y]
          <6>1. DOMAIN u.rb = 1..Len(u.rb) /\ Len(u.rb) \in Nat BY <2>5, ObjectIs
          <6>2. DOMAIN w.rb = 1..(Len(u.rb) + 1) /\ w.rb[y] = u.rb[y] BY <2>7, <5>3 DEF Grown
          <6> QED BY <5>3, <6>1, <6>2
        <5>5. \A c \in Contact : y \notin ToSet(w.handed[c])
          <6>1. \A c \in Contact : ToSet(d.handed[c]) \subseteq DOMAIN d.rb BY <1>4 DEF MemOK
          <6> QED BY <1>6, <2>7, <5>3, <6>1
        <5>6. u.rb[y].live /\ u.rb[y].id = l + f /\ u.rb[y].contacts = routes[f].contacts BY <5>1, <5>2 DEF y
        <5>7. Holds(w, y, l + f, routes[f].contacts) BY <5>4, <5>5, <5>6 DEF Holds
        <5> QED BY <5>7 DEF y
      <4> QED BY <4>3
    <3> HIDE DEF v, g
    <3>5. TakenBack(w, v, l, k, id)
      <4> HIDE DEF l, n
      <4> QED BY <1>2, <2>1, <2>7, <2>8, <3>2, <3>3, <3>4, TakeBackIs DEF v
    <3>6. MemOK(v) /\ v.handed = a.handed /\ v.over = a.over /\ id \in DOMAIN v.store BY <1>6, <2>7, <3>5 DEF TakenBack, Frame
    <3>7. ASSUME v.fault = "none"
          PROVE  Good(v, id) /\ v.store[id].status = "bp" /\ \A i \in DOMAIN v.store : v.store[i].of = id => ~Active(v.store[i])
      <4>1. w.fault = "none" /\ Good(v, id) BY <3>5, <3>7 DEF TakenBack
      <4>2. u.fault = "none" BY <2>8, <4>1
      <4>3. v.store[id].status = "bp" /\ \A i \in DOMAIN v.store : v.store[i].of = id => ~Active(v.store[i])
        <5>1. Holding(a, l) BY DEF Holding
        <5>2. InStore(a, d, id, n) BY <1>3
        <5>3. Grown(u, w, l + fails) /\ fails \in Nat /\ fails = k + 1 /\ fails <= n /\ k \in Nat /\ n \in Nat BY <1>2, <2>1, <2>7
        <5> HIDE DEF l, n
        <5>4. FailedCut(a, id, n, d, routes, k, fails, l, u, w, v)
          BY <2>3, <2>10, <3>5, <3>7, <4>2, <5>1, <5>2, <5>3 DEF FailedCut
        <5> QED BY <5>4, TakenBackEnds DEF NoneLeft
      <4> QED BY <4>1, <4>3
    <3>8. "refused" \in {"replaced", "refused", "lost"} /\ id \in {0, id} OBVIOUS
    <3>9. Done(a, SetStatus(v, id, "refused")) BY <3>6, <3>7, <3>8, EndIs
    <3> QED BY <3>1, <3>9
  <2> QED BY <2>9, <2>10
<1> QED BY <1>9, <1>10

\* apply_fragmentation: the bundle is cut, refused, or gone without a route.
LEMMA ApplyFragmentationIs ==
  ASSUME NEW a, MemOK(a), Good(a, 0), NEW id \in DOMAIN a.store, a.store[id].status = "bp",
         NEW routes \in Seq(GoodRoute), NEW fails \in 0..Len(routes)
  PROVE  Done(a, apply_fragmentation(a, id, routes, fails))
<1> DEFINE x == CutBundle(a.store[id].bundle, routes)
    F(y) == CASE y.result = "cut"  -> AddFragments(a, id, Append(y.frags, y.rest), routes, fails)
              [] y.result = "null" -> SetStatus(a, id, "refused")
              [] OTHER             -> Fault(a, y.result)
    b == apply_fragmentation(a, id, routes, fails)
<1>1. b = IF routes = <<>> THEN SetStatus(a, id, "lost") ELSE CHOOSE y \in {F(z) : z \in {x}} : TRUE
  BY Zenon DEF apply_fragmentation, With, SetStatus, Refuse
<1> HIDE DEF b
<1> SUFFICES Done(a, b) BY DEF b
<1>2. ASSUME NEW st \in {"refused", "lost"} PROVE Done(a, SetStatus(a, id, st))
  <2>1. 0 \in {0, id} /\ st \in {"replaced", "refused", "lost"} /\ st # "replaced" OBVIOUS
  <2> QED BY <2>1, EndIs
<1>3. CASE routes = <<>>
  <2>1. "lost" \in {"refused", "lost"} OBVIOUS
  <2> QED BY <1>1, <1>2, <1>3, <2>1
<1>4. CASE routes # <<>>
  <2>1. a.store[id] \in Entry BY ObjectIs
  <2>2. a.store[id].bundle \in Bundles BY <2>1 DEF Entry
  <2>0. OnePayloadEach => OnePayload(a.store[id].bundle) BY DEF Good, Tiled
  <2>3. /\ x \in CutState
        /\ x.result = "cut" => /\ Len(x.frags) = Len(routes) - 1
                               /\ OnePayloadEach => Tiles(a.store[id].bundle, x.frags, x.rest)
    BY <1>4, <2>0, <2>2, CutBundleIs
  <2> HIDE DEF F, x
  <2>4. b = F(x)
    <3>1. {F(z) : z \in {x}} = {F(x)} OBVIOUS
    <3> QED BY <1>1, <1>4, <3>1, OneValue
  <2>5. CASE x.result = "cut"
    <3> DEFINE frags == Append(x.frags, x.rest)
    <3>1. frags \in Seq(Bundles) /\ Len(frags) = Len(routes) /\ Whole(a.store[id].bundle, frags)
      <4>1. x.frags \in Seq(Bundles) /\ x.rest \in Bundles /\ Len(x.frags) = Len(routes) - 1 BY <2>3, <2>5 DEF CutState
      <4>2. Len(routes) \in Nat OBVIOUS
      <4>3. Whole(a.store[id].bundle, frags) BY <2>2, <2>3, <2>5, <4>1, TilesAll DEF Whole
      <4> QED BY <4>1, <4>2, <4>3
    <3>2. b = AddFragments(a, id, frags, routes, fails) BY <2>4, <2>5 DEF F
    <3> HIDE DEF frags
    <3> QED BY <3>1, <3>2, AddFragmentsIs
  <2>6. CASE x.result = "null"
    <3>1. b = SetStatus(a, id, "refused") BY <2>4, <2>6 DEF F
    <3>2. "refused" \in {"refused", "lost"} OBVIOUS
    <3> QED BY <1>2, <3>1, <3>2
  <2>7. CASE x.result \notin {"cut", "null"}
    <3>1. b = Fault(a, x.result) BY <2>4, <2>7 DEF F
    <3>2. x.result \in Faults /\ x.result # "none" BY <2>3, <2>7 DEF CutState, Results, Faults
    <3>3. MemOK(b) /\ OnLists(a, b) /\ b.fault = x.result BY <3>1, <3>2, FaultIs
    <3> QED BY <3>2, <3>3 DEF Done, OnLists, Fixed
  <2> QED BY <2>5, <2>6, <2>7
<1> QED BY <1>3, <1>4

\* process_bundle of the router task: one route, or fragments.
LEMMA ProcessIs ==
  ASSUME NEW a, MemOK(a), Good(a, 0), NEW id \in DOMAIN a.store, a.store[id].status = "bp",
         NEW routes \in Seq(GoodRoute), NEW fails \in 0..Len(routes)
  PROVE  Done(a, process_bundle(a, id, routes, fails))
<1> DEFINE x == router_add_bundle_to_route(a, routes[1], id, fails = 1)
    F(y) == IF y.fault = "none" /\ y.store[id].status # "routed" THEN SetStatus(y, id, "refused") ELSE y
    b == process_bundle(a, id, routes, fails)
<1>1. b = IF Len(routes) # 1 THEN apply_fragmentation(a, id, routes, fails) ELSE CHOOSE y \in {F(z) : z \in {x}} : TRUE
  BY Zenon DEF process_bundle, With, SetStatus, Refuse
<1> HIDE DEF b
<1> SUFFICES Done(a, b) BY DEF b
<1>2. CASE Len(routes) # 1 BY <1>1, <1>2, ApplyFragmentationIs
<1>3. CASE Len(routes) = 1
  <2> DEFINE bad == fails = 1
  <2>1. routes[1] \in GoodRoute /\ bad \in BOOLEAN BY <1>3
  <2>2. x = router_add_bundle_to_route(a, routes[1], id, bad) OBVIOUS
  <2> HIDE DEF x, F, bad
  <2>3. RouteAdded(a, x, routes[1], id, bad) BY <2>1, <2>2, AddToRouteIs
  <2>4. b = F(x)
    <3>1. {F(z) : z \in {x}} = {F(x)} OBVIOUS
    <3> QED BY <1>1, <1>3, <3>1, OneValue
  <2>5. MemOK(x) /\ x.handed = a.handed /\ x.over = a.over /\ DOMAIN x.store = DOMAIN a.store BY <2>3 DEF RouteAdded, Grown, Fixed
  <2>6. ASSUME x.fault = "none" PROVE Good(x, 0) /\ x.store[id].status \in {"bp", "routed"}
    <3>1. Spare(a, id, 0) BY DEF Spare
    <3>2. Good(x, 0) BY <2>3, <2>6, <3>1 DEF RouteAdded
    <3>3. Grown(a, x, id) BY <2>3 DEF RouteAdded
    <3> QED BY <3>2, <3>3 DEF Grown
  <2>7. CASE x.fault = "none" /\ x.store[id].status # "routed"
    <3>1. b = SetStatus(x, id, "refused") BY <2>4, <2>7 DEF F
    <3>2. "refused" \in {"replaced", "refused", "lost"} /\ 0 \in {0, id} OBVIOUS
    <3>3. Good(x, 0) /\ x.store[id].status = "bp" BY <2>6, <2>7
    <3>4. id \in DOMAIN x.store BY <2>5
    <3>5. Done(a, SetStatus(x, id, "refused")) BY <2>5, <3>2, <3>3, <3>4, EndIs
    <3> QED BY <3>1, <3>5
  <2>8. CASE ~(x.fault = "none" /\ x.store[id].status # "routed")
    <3>1. b = x BY <2>4, <2>8 DEF F
    <3> QED BY <2>5, <2>6, <3>1 DEF Done
  <2> QED BY <2>7, <2>8
<1> QED BY <1>2, <1>3

\* ---- The optimizer moves objects
\* The lists while object y, which is being optimized, is on none of them.
Ready(a, y) == Core(a) /\ Fits(a, {y}) /\ Unique(a) /\ Off(a, y)

\* The objects have other contacts, but are the same.
SameObjects(a, b) ==
  /\ Fixed(a, b) /\ b.store = a.store /\ DOMAIN b.rb = DOMAIN a.rb /\ Len(b.rb) = Len(a.rb)
  /\ \A x \in DOMAIN a.rb : SameObject(a.rb[x], b.rb[x])
Shifted(a, b, y) ==
  /\ MemOK(b) /\ SameObjects(a, b)
  /\ a.rb[y].contacts # <<>> => b.rb[y].contacts # <<>>
  /\ b.fault = "none" => Ready(b, y)

\* Object x has left its lists.
TakenOff(a, b, x) ==
  /\ MemOK(b) /\ OnLists(a, b)
  /\ b.fault = "none" =>
       /\ a.fault = "none" /\ a.rb[x].contacts # <<>>
       /\ a.rb[x].live /\ Only(a, x) /\ Listed(a, x) /\ Core(a) =>
            /\ Core(b) /\ Off(b, x)
            /\ \A c \in Contact : ToSet(b.bundles[c]) = ToSet(a.bundles[c]) \ {x}
            /\ \A w \in DOMAIN a.rb : w # x /\ Listed(a, w) => Listed(b, w)

\* The loop over the contacts of an object that is to be moved.
LEMMA TakeOffIs ==
  ASSUME NEW a, MemOK(a), a.fault = "none", NEW x \in DOMAIN a.rb
  PROVE  TakenOff(a, TakeOff(a, x), x)
<1> DEFINE s == a.rb[x].contacts
    id == a.rb[x].id
    d == RemoveFromContacts(a, s, id)
    b == TakeOff(a, x)
<1>1. b = IF s = <<>> THEN Fault(a, "null") ELSE d BY DEF TakeOff, Unrouted
<1>2. s \in Seq(Contact)
  <2>1. a.rb[x] \in RoutedBundle BY ObjectIs
  <2> QED BY <2>1 DEF RoutedBundle
<1>3. /\ MemOK(d) /\ OnLists(a, d)
      /\ d.fault = "none" =>
           /\ ToSet(s) \cap a.over = {} /\ a.fault = "none"
           /\ \A z : Alone(a, z, id) /\ Core(a) => Core(d) /\ Pulled(a, d, z, ToSet(s))
  <2> HIDE DEF s, id
  <2> QED BY <1>2, RemoveLoop
<1> HIDE DEF b, d
<1> SUFFICES TakenOff(a, b, x) BY DEF b
<1>4. CASE s = <<>>
  <2>1. b = Fault(a, "null") BY <1>1, <1>4
  <2>2. "null" \in Faults /\ "null" # "none" BY DEF Faults
  <2>3. MemOK(b) /\ OnLists(a, b) /\ b.fault = "null" BY <2>1, <2>2, FaultIs
  <2> QED BY <2>2, <2>3 DEF TakenOff
<1>5. CASE s # <<>>
  <2>1. b = d BY <1>1, <1>5
  <2>2. ASSUME b.fault = "none", a.rb[x].live, Only(a, x), Listed(a, x), Core(a)
        PROVE  /\ Core(b) /\ Off(b, x)
               /\ \A c \in Contact : ToSet(b.bundles[c]) = ToSet(a.bundles[c]) \ {x}
               /\ \A w \in DOMAIN a.rb : w # x /\ Listed(a, w) => Listed(b, w)
    <3>1. Alone(a, x, id) BY <2>2 DEF Alone
    <3>2. Core(b) /\ Pulled(a, b, x, ToSet(s)) BY <1>3, <2>1, <2>2, <3>1
    <3>3. b.over = a.over /\ b.handed = a.handed /\ b.rb = a.rb BY <1>3, <2>1 DEF OnLists, Fixed
    <3>4. ASSUME NEW c \in Contact PROVE ToSet(b.bundles[c]) = ToSet(a.bundles[c]) \ {x}
      <4>1. CASE c \in ToSet(s) BY <3>2, <4>1 DEF Pulled
      <4>2. CASE c \notin ToSet(s)
        <5>1. b.bundles[c] = a.bundles[c] BY <3>2, <4>2 DEF Pulled
        <5>2. x \notin ToSet(a.bundles[c])
          <6>1. CASE c \in a.over
            <7>1. a.bundles[c] = <<>> BY <2>2, <6>1 DEF Core
            <7> QED BY <7>1 DEF ToSet
          <6>2. CASE c \notin a.over BY <2>2, <4>2, <6>2 DEF Listed
          <6> QED BY <6>1, <6>2
        <5> QED BY <5>1, <5>2
      <4> QED BY <4>1, <4>2
    <3>5. Off(b, x) BY <3>4 DEF Off
    <3>6. ASSUME NEW w \in DOMAIN a.rb, w # x, Listed(a, w) PROVE Listed(b, w)
      <4>1. \A c \in Contact : w \in ToSet(b.bundles[c]) <=> w \in ToSet(a.bundles[c]) BY <3>4, <3>6
      <4> QED BY <3>3, <3>6, <4>1 DEF Listed
    <3> QED BY <3>2, <3>4, <3>5, <3>6
  <2> QED BY <1>3, <1>5, <2>1, <2>2 DEF TakenOff
<1> QED BY <1>4, <1>5

\* Which bundle has which object does not depend on the contacts.
LEMMA UniqueSame ==
  ASSUME NEW a, NEW b, SameObjects(a, b), Unique(a)
  PROVE  Unique(b)
<1>1. /\ b.store = a.store /\ DOMAIN b.rb = DOMAIN a.rb
      /\ \A x \in DOMAIN a.rb : b.rb[x].live = a.rb[x].live /\ b.rb[x].id = a.rb[x].id
  BY DEF SameObjects, SameObject
<1>2. ASSUME NEW x \in DOMAIN b.rb, b.rb[x].live PROVE b.store[b.rb[x].id].status = "routed" /\ Only(b, x)
  <2>1. a.store[a.rb[x].id].status = "routed" /\ Only(a, x) BY <1>1, <1>2 DEF Unique
  <2> QED BY <1>1, <1>2, <2>1 DEF Only
<1>3. ASSUME NEW i \in DOMAIN b.store, b.store[i].status = "routed" PROVE \E x \in DOMAIN b.rb : b.rb[x].live /\ b.rb[x].id = i
  <2>1. \E x \in DOMAIN a.rb : a.rb[x].live /\ a.rb[x].id = i BY <1>1, <1>3 DEF Unique
  <2> QED BY <1>1, <2>1
<1> QED BY <1>2, <1>3 DEF Unique

\* A signal for the router changes none of this.
LEMMA ReadySame ==
  ASSUME NEW a, MemOK(a), NEW y, Ready(a, y), NEW b, Fixed(a, b), b.rb = a.rb, b.store = a.store,
         b.bundles = a.bundles, b.left = a.left
  PROVE  Ready(b, y)
<1>1. Core(b) BY CoreSame DEF Ready
<1>2. b.over = a.over /\ b.handed = a.handed BY DEF Fixed
<1>3. \A x : Listed(a, x) => Listed(b, x) BY <1>2 DEF Listed
<1>4. Fits(b, {y}) BY <1>3 DEF Ready, Fits
<1>5. Unique(b) BY DEF Ready, Unique, Only
<1>6. Off(b, y) BY DEF Ready, Off
<1> QED BY <1>1, <1>4, <1>5, <1>6 DEF Ready

\* Objects are the same as themselves, and as what they were two steps ago.
LEMMA SameFacts ==
  /\ \A a, b : OnLists(a, b) => SameObjects(a, b)
  /\ \A a, b, d : SameObjects(a, b) /\ SameObjects(b, d) => SameObjects(a, d)
<1>1. ASSUME NEW a, NEW b, OnLists(a, b) PROVE SameObjects(a, b) BY <1>1 DEF OnLists, SameObjects, SameObject
<1>2. ASSUME NEW a, NEW b, NEW d, SameObjects(a, b), SameObjects(b, d) PROVE SameObjects(a, d)
  <2>1. \A x \in DOMAIN a.rb : SameObject(a.rb[x], b.rb[x]) /\ SameObject(b.rb[x], d.rb[x]) BY <1>2 DEF SameObjects
  <2>2. \A x \in DOMAIN a.rb : SameObject(a.rb[x], d.rb[x]) BY <2>1 DEF SameObject
  <2> QED BY <1>2, <2>2 DEF SameObjects, Fixed
<1> QED BY <1>1, <1>2

\* The object x gets another route, or is dropped; Moves does this to all that
\* are preempted.
Move(a, x, route, fails) ==
  With(TakeOff(a, x), LAMBDA r :
    IF r.fault # "none" THEN r
    ELSE With(router_update_routed_bundle(r, route, x, fails), LAMBDA u :
           IF u.fault = "none" /\ Unrouted(u, x)
           THEN Signalled(u, [type |-> "optimization_drop", rb |-> x])
           ELSE u))
Moves(a, pre, froutes, fails) ==
  ForEach(a, [i \in DOMAIN pre |-> i], LAMBDA v, i : Move(v, pre[i], froutes[i], fails /\ i = 1))

\* The next object of the loop in re_route_preempted_fragments.
LEMMA MoveIs ==
  ASSUME NEW a, MemOK(a), a.fault = "none", NEW y \in DOMAIN a.rb, Ready(a, y),
         NEW x \in DOMAIN a.rb, x # y, a.rb[x].live, NEW route \in GoodRoute, NEW fails \in BOOLEAN
  PROVE  Shifted(a, Move(a, x, route, fails), y)
<1> DEFINE r == TakeOff(a, x)
    u == router_update_routed_bundle(r, route, x, fails)
    sig == [type |-> "optimization_drop", rb |-> x]
    upd(w) == router_update_routed_bundle(w, route, x, fails)
    G(v) == IF v.fault = "none" /\ Unrouted(v, x) THEN Signalled(v, sig) ELSE v
    F(w) == IF w.fault # "none" THEN w ELSE CHOOSE z \in {G(v) : v \in {upd(w)}} : TRUE
    b == Move(a, x, route, fails)
    q == IF fails THEN Tail(route.contacts) ELSE route.contacts
<1>1. b = CHOOSE z \in {F(w) : w \in {r}} : TRUE BY Zenon DEF Move, With
<1>2. TakenOff(a, r, x) BY TakeOffIs
<1>3. b = F(r)
  <2> HIDE DEF F, b, r
  <2>1. {F(w) : w \in {r}} = {F(r)} OBVIOUS
  <2> QED BY <1>1, <2>1, OneValue
<1> HIDE DEF b, r
<1> SUFFICES Shifted(a, b, y) BY DEF b
<1>4. MemOK(r) /\ OnLists(a, r) /\ r.rb = a.rb /\ SameObjects(a, r) BY <1>2, SameFacts DEF TakenOff, OnLists
<1>5. CASE r.fault # "none"
  <2>1. b = r BY <1>3, <1>5
  <2> QED BY <1>4, <1>5, <2>1 DEF Shifted
<1>6. CASE r.fault = "none"
  <2>0. b = G(u)
    <3>1. {G(v) : v \in {u}} = {G(u)} OBVIOUS
    <3>2. b = CHOOSE z \in {G(v) : v \in {u}} : TRUE BY <1>3, <1>6
    <3> HIDE DEF G, u
    <3> QED BY <3>1, <3>2, OneValue
  <2>1. x \in DOMAIN r.rb BY <1>4
  <2>2. /\ MemOK(u) /\ Rerouted(r, u, x, q)
        /\ u.fault = "none" => r.fault = "none"
        /\ u.fault = "none" /\ Core(r) /\ Off(r, x) =>
              Core(u) /\ Put(r, u, x, ToSet(q)) /\ ToSet(q) \cap r.over = {}
    BY <1>4, <2>1, UpdateIs
  <2> HIDE DEF u, q
  <2>3. SameObjects(r, u)
    <3>1. \A w \in DOMAIN r.rb : SameObject(r.rb[w], u.rb[w]) BY <2>2 DEF Rerouted, SameObject
    <3> QED BY <2>2, <3>1 DEF Rerouted, SameObjects
  <2>4. SameObjects(a, u) BY <1>4, <2>3, SameFacts
  <2>5. u.rb[y] = a.rb[y] BY <1>4, <2>2 DEF Rerouted
  <2>6. ASSUME u.fault = "none" PROVE Ready(u, y)
    <3>1. Core(a) /\ Fits(a, {y}) /\ Unique(a) /\ Off(a, y) BY DEF Ready
    <3>2. Only(a, x) /\ Listed(a, x)
      <4>1. x \notin {y} OBVIOUS
      <4> QED BY <3>1, <4>1 DEF Unique, Fits
    <3>3. /\ Core(r) /\ Off(r, x) /\ \A c \in Contact : ToSet(r.bundles[c]) = ToSet(a.bundles[c]) \ {x}
          /\ \A w \in DOMAIN a.rb : w # x /\ Listed(a, w) => Listed(r, w)
      BY <1>2, <1>6, <3>1, <3>2 DEF TakenOff
    <3>4. Core(u) /\ Put(r, u, x, ToSet(q)) BY <2>2, <2>6, <3>3
    <3>5. Listed(u, x) /\ \A w \in DOMAIN r.rb : w # x /\ Listed(r, w) => Listed(u, w)
      BY <1>4, <2>1, <2>2, <3>3, <3>4, ListedAgain
    <3>6. Fits(u, {y})
      <4>1. ASSUME NEW w \in DOMAIN u.rb, u.rb[w].live, w # y PROVE Listed(u, w)
        <5>1. w \in DOMAIN a.rb /\ a.rb[w].live BY <2>4, <4>1 DEF SameObjects, SameObject
        <5>2. Listed(a, w) BY <3>1, <4>1, <5>1 DEF Fits
        <5> QED BY <1>4, <3>3, <3>5, <5>1, <5>2
      <4> QED BY <4>1 DEF Fits
    <3>7. Unique(u) BY <2>4, <3>1, UniqueSame
    <3>8. Off(u, y)
      <4>1. ASSUME NEW c \in Contact PROVE y \notin ToSet(u.bundles[c])
        <5>1. y \notin ToSet(r.bundles[c]) BY <3>1, <3>3 DEF Off
        <5> DEFINE s == r.bundles[c]
        <5>2. s \in Seq(Nat) /\ x \in Nat BY <1>4, MemoryIs, ObjectIs
        <5> HIDE DEF s
        <5>3. ToSet(Append(s, x)) = ToSet(s) \cup {x} BY <5>2, SetOfAppend
        <5>4. u.bundles[c] = s \/ u.bundles[c] = Append(s, x) BY <3>4 DEF Put, s
        <5> QED BY <5>1, <5>3, <5>4 DEF s
      <4> QED BY <4>1 DEF Off
    <3> QED BY <3>4, <3>6, <3>7, <3>8 DEF Ready
  <2>7. CASE u.fault = "none" /\ Unrouted(u, x)
    <3>1. b = Signalled(u, sig) BY <2>0, <2>7
    <3>2. sig \in Signal /\ sig.rb \in DOMAIN u.rb
      <4>1. x \in Nat /\ x \in DOMAIN u.rb BY <2>4, ObjectIs DEF SameObjects
      <4> QED BY <4>1 DEF Signal
    <3> HIDE DEF sig
    <3>3. /\ MemOK(b) /\ Fixed(u, b) /\ b.fault = u.fault /\ b.rb = u.rb /\ b.store = u.store
          /\ b.bundles = u.bundles /\ b.left = u.left BY <2>2, <3>1, <3>2, SignalledIs
    <3>4. Ready(b, y) BY <2>2, <2>6, <2>7, <3>3, ReadySame
    <3>5. SameObjects(u, b) BY <3>3 DEF SameObjects, SameObject
    <3>6. SameObjects(a, b) BY <2>4, <3>5, SameFacts
    <3> QED BY <2>5, <3>3, <3>4, <3>6 DEF Shifted
  <2>8. CASE ~(u.fault = "none" /\ Unrouted(u, x))
    <3>1. b = u BY <2>0, <2>8
    <3> QED BY <2>2, <2>4, <2>5, <2>6, <3>1 DEF Shifted
  <2> QED BY <2>7, <2>8
<1> QED BY <1>5, <1>6

\* Shifted twice is shifted.
LEMMA ShiftedTwice ==
  ASSUME NEW a, NEW y, NEW b, Shifted(a, b, y), NEW d, Shifted(b, d, y)
  PROVE  Shifted(a, d, y)
<1>1. SameObjects(a, d) BY SameFacts DEF Shifted
<1> QED BY <1>1 DEF Shifted

\* What may be preempted when y is being optimized.
Movable(a, y, pre) == \A i \in DOMAIN pre : pre[i] \in DOMAIN a.rb /\ pre[i] # y /\ a.rb[pre[i]].live

\* The loop over all that are preempted.
LEMMA MovesIs ==
  ASSUME NEW a, MemOK(a), a.fault = "none", NEW y \in DOMAIN a.rb, Ready(a, y),
         NEW pre \in Seq(Nat), Movable(a, y, pre),
         NEW fr, \A i \in DOMAIN pre : fr[i] \in GoodRoute, NEW fails \in BOOLEAN
  PROVE  Shifted(a, Moves(a, pre, fr, fails), y)
<1> DEFINE s == [i \in DOMAIN pre |-> i]
    out(v, i) == IF v.fault # "none" THEN v ELSE Move(v, pre[i], fr[i], fails /\ i = 1)
    every == FoldLeft(LAMBDA v, i : out(v, i), a, s)
    A == {v \in Memory : Shifted(a, v, y)}
<1>e. Moves(a, pre, fr, fails) = every BY DEF Moves, ForEach
<1>n. PICK N \in Nat : N = Len(s) /\ DOMAIN s = 1..N /\ DOMAIN pre = 1..N
  <2>1. DOMAIN s = 1..Len(pre) /\ Len(s) = Len(pre) /\ DOMAIN pre = 1..Len(pre) /\ Len(pre) \in Nat OBVIOUS
  <2> DEFINE M == Len(pre)
  <2> HIDE DEF s, M
  <2>2. M \in Nat /\ M = Len(s) /\ DOMAIN s = 1..M /\ DOMAIN pre = 1..M BY <2>1 DEF M
  <2> QED BY <2>2
<1>s. \A k \in 1..N : s[k] = k BY <1>n
<1> HIDE DEF s
<1>b. a \in A
  <2>1. SameObjects(a, a) BY DEF SameObjects, SameObject, Fixed
  <2> QED BY <2>1 DEF Shifted, MemOK
<1>3. ASSUME NEW v \in A, NEW n \in 1..N PROVE out(v, s[n]) \in A
  <2>1. CASE v.fault # "none" BY <2>1
  <2>2. CASE v.fault = "none"
    <3> DEFINE x == pre[n]
        bad == fails /\ n = 1
        w == Move(v, x, fr[n], bad)
    <3>1. out(v, s[n]) = w BY <1>s, <2>2
    <3>2. MemOK(v) /\ Ready(v, y) /\ SameObjects(a, v) /\ Shifted(a, v, y) BY <2>2 DEF Shifted
    <3>3. y \in DOMAIN v.rb /\ x \in DOMAIN v.rb /\ x # y /\ v.rb[x].live /\ fr[n] \in GoodRoute /\ bad \in BOOLEAN
      <4>1. x \in DOMAIN a.rb /\ x # y /\ a.rb[x].live /\ fr[n] \in GoodRoute BY <1>n DEF Movable
      <4> HIDE DEF x
      <4> QED BY <3>2, <4>1 DEF SameObjects, SameObject
    <3> HIDE DEF x, bad, out, A
    <3>4. Shifted(v, w, y) BY <2>2, <3>2, <3>3, MoveIs
    <3> HIDE DEF w
    <3>5. Shifted(a, w, y) BY <3>2, <3>4, ShiftedTwice
    <3>6. w \in A BY <3>5 DEF A, Shifted, MemOK
    <3> QED BY <3>1, <3>6
  <2> QED BY <2>1, <2>2
<1> HIDE DEF out
<1> DEFINE op(v, n) == out(v, s[n])
    G == [z \in (1..N) \X A |-> op(z[2], z[1])]
    E(h) == h = [x \in SUBSET (DOMAIN s) |-> IF x = {} THEN a ELSE op(h[x \ {Max(x)}], Max(x))]
    g == CHOOSE h : E(h)
<1>f1. ASSUME NEW n \in 1..N, NEW v \in A PROVE op(v, n) \in A
    BY <1>3
<1>f2. every = g[DOMAIN s] BY DEF every, FoldLeft, MapThenFoldSet
<1> HIDE DEF op, A, every
<1>f3. G \in [(1..N) \X A -> A] /\ \A n \in 1..N : \A v \in A : G[<<n, v>>] = op(v, n) BY <1>f1
<1> HIDE DEF G
<1>f4. PICK h : Folds(h, N, A, a, G) BY <1>n, <1>b, <1>f3, FoldThere
<1>f5. E(h) BY <1>n, <1>f3, <1>f4 DEF Folds
<1>f6. E(g) BY <1>f5, Zenon DEF g
<1> HIDE DEF g
<1>f7. FoldOf(g, N, A, a, G) BY <1>n, <1>f3, <1>f6, Zenon DEF FoldOf, E
<1> HIDE DEF E
<1>f8. every \in A BY <1>n, <1>b, <1>f2, <1>f3, <1>f7, FoldIn
<1>4. Shifted(a, every, y) BY <1>f8 DEF A
<1> QED BY <1>e, <1>4

\* re_route_preempted_fragments: all of them move, or none.
LEMMA ReRouteIs ==
  ASSUME NEW a, MemOK(a), a.fault = "none", NEW y \in DOMAIN a.rb, Ready(a, y), now \in Nat,
         NEW pre \in Seq(Nat), Movable(a, y, pre), NEW X, NEW fails \in BOOLEAN
  PROVE  LET r == re_route_preempted_fragments(a, pre, X, fails)
         IN  r.success \in BOOLEAN /\ Shifted(a, r.mem, y)
<1> DEFINE calc(rb) == router_calculate_fragment_route(a, rb.size, router_lookup_destination(a, rb.dest), 0, rb.prio, X)
    fr == [i \in DOMAIN pre |-> CHOOSE z \in {calc(rb) : rb \in {a.rb[pre[i]]}} : TRUE]
    F(x) == IF \A i \in DOMAIN x : Feasible(x[i])
            THEN [success |-> TRUE, mem |-> Moves(a, pre, x, fails)]
            ELSE [success |-> FALSE, mem |-> a]
    r == re_route_preempted_fragments(a, pre, X, fails)
<1>1. r = CHOOSE z \in {F(x) : x \in {fr}} : TRUE
  BY Zenon DEF re_route_preempted_fragments, With, Moves, Move, Signalled
<1> HIDE DEF r
<1> SUFFICES r.success \in BOOLEAN /\ Shifted(a, r.mem, y) BY DEF r
<1>2. ASSUME NEW i \in DOMAIN pre PROVE RouteOK(fr[i])
  <2> DEFINE rb == a.rb[pre[i]]
      q == router_lookup_destination(a, rb.dest)
  <2>1. rb \in RoutedBundle BY ObjectIs DEF Movable
  <2>2. fr[i] = calc(rb)
    <3>1. {calc(z) : z \in {rb}} = {calc(rb)} OBVIOUS
    <3>2. fr[i] = CHOOSE z \in {calc(z) : z \in {rb}} : TRUE OBVIOUS
    <3> HIDE DEF calc, rb, fr
    <3> QED BY <3>1, <3>2, OneValue
  <2>3. rb.size \in Int /\ rb.prio \in Prio /\ 0 \in Int BY <2>1 DEF RoutedBundle
  <2> HIDE DEF rb, fr
  <2>4. q \in Seq(Contact) /\ IsInjective(q) BY LookupIs
  <2> HIDE DEF q
  <2>5. RouteOK(router_calculate_fragment_route(a, rb.size, q, 0, rb.prio, X)) BY <2>3, <2>4, RouteIs
  <2> QED BY <2>2, <2>5 DEF q
<1>3. DOMAIN fr = DOMAIN pre OBVIOUS
<1> HIDE DEF fr
<1>4. r = F(fr)
  <2>1. {F(x) : x \in {fr}} = {F(fr)} OBVIOUS
  <2> HIDE DEF F
  <2> QED BY <1>1, <2>1, OneValue
<1>5. CASE \A i \in DOMAIN fr : Feasible(fr[i])
  <2>1. \A i \in DOMAIN pre : fr[i] \in GoodRoute BY <1>2, <1>3, <1>5, FeasibleIs
  <2>2. Shifted(a, Moves(a, pre, fr, fails), y) BY <2>1, MovesIs
  <2>3. r.success = TRUE /\ r.mem = Moves(a, pre, fr, fails) BY <1>4, <1>5
  <2> QED BY <2>2, <2>3
<1>6. CASE ~(\A i \in DOMAIN fr : Feasible(fr[i]))
  <2>1. SameObjects(a, a) BY DEF SameObjects, SameObject, Fixed
  <2>2. Shifted(a, a, y) BY <2>1 DEF Shifted
  <2>3. r.success = FALSE /\ r.mem = a BY <1>4, <1>6
  <2> QED BY <2>2, <2>3
<1> QED BY <1>5, <1>6

\* ---- A new decision for an object (router_optimizer.c)
Decision == [contacts : Seq(Contact), probability : Int, preempted : Seq(Nat), ok : BOOLEAN]
AsRoute(d) == [contacts |-> d.contacts, probability |-> d.probability, improved |-> 0, payload |-> 0, skip |-> 0]

Extended(x, s, p) == [x EXCEPT !.contacts = s, !.probability = p]

\* A decision is a route as far as its contacts are concerned.
LEMMA JoinDecision ==
  ASSUME NEW d \in Decision, NEW c \in Contact
  PROVE  /\ AsRoute(d) \in Route /\ Join(d, c) \in Decision /\ Join(d, c).preempted = d.preempted
         /\ AsRoute(Join(d, c)) = Join(AsRoute(d), c)
<1> DEFINE conf == Reliability[c]
    p == d.probability + conf - (d.probability * conf) \div 1000
    s == <<c>>
    t == Append(d.contacts, c)
    r == AsRoute(d)
<1>1. d.contacts \in Seq(Contact) /\ d.probability \in Int /\ d.preempted \in Seq(Nat) /\ d.ok \in BOOLEAN BY DEF Decision
<1>2. r \in Route /\ r.contacts = d.contacts /\ r.probability = d.probability
      /\ r.improved = 0 /\ r.payload = 0 /\ r.skip = 0 BY <1>1 DEF AsRoute, Route
<1> HIDE DEF r
<1>3. conf \in Int BY Constants
<1> HIDE DEF conf
<1>4. p \in Int
  <2> DEFINE m1 == d.probability * conf
  <2>1. m1 \in Int BY <1>1, <1>3
  <2> HIDE DEF m1
  <2>2. m1 \div 1000 \in Int BY <2>1
  <2> QED BY <1>1, <1>3, <2>2 DEF m1
<1>5. s \in Seq(Contact) /\ t \in Seq(Contact) BY <1>1
<1> DEFINE one(x) == Extended(x, s, conf)
    more(x) == Extended(x, t, p)
<1>6. Join(d, c) = IF conf >= MinDeterministic THEN one(d) ELSE IF conf >= MinOpportunistic THEN more(d) ELSE d
  BY Zenon DEF Join, conf, Extended
<1>7. Join(r, c) = IF conf >= MinDeterministic THEN one(r) ELSE IF conf >= MinOpportunistic THEN more(r) ELSE r
  <2> DEFINE t2 == Append(r.contacts, c)
      p2 == r.probability + conf - (r.probability * conf) \div 1000
  <2>1. Join(r, c) = IF conf >= MinDeterministic THEN one(r)
                     ELSE IF conf >= MinOpportunistic THEN Extended(r, t2, p2) ELSE r
    BY Zenon DEF Join, conf, Extended
  <2>2. t2 = t /\ p2 = p BY <1>2
  <2> HIDE DEF t2, p2, t, p, s
  <2> QED BY <2>1, <2>2
<1> HIDE DEF s, t, p
<1>8. ASSUME NEW u \in Seq(Contact), NEW v \in Int
      PROVE  /\ Extended(d, u, v) \in Decision /\ Extended(d, u, v).preempted = d.preempted
             /\ AsRoute(Extended(d, u, v)) = Extended(r, u, v)
  <2> DEFINE w == Extended(d, u, v)
      x == Extended(r, u, v)
  <2>1. w \in Decision /\ w.preempted = d.preempted /\ w.contacts = u /\ w.probability = v BY <1>1 DEF Decision, Extended
  <2>2. x = [contacts |-> u, probability |-> v, improved |-> 0, payload |-> 0, skip |-> 0]
    <3>1. /\ x \in Route /\ x.contacts = u /\ x.probability = v /\ x.improved = 0 /\ x.payload = 0 /\ x.skip = 0
      BY <1>2 DEF Extended, Route
    <3> HIDE DEF x
    <3>2. x = [contacts |-> x.contacts, probability |-> x.probability, improved |-> x.improved,
               payload |-> x.payload, skip |-> x.skip] BY <3>1 DEF Route
    <3> QED BY <3>1, <3>2
  <2> HIDE DEF w, x
  <2>3. AsRoute(w) = x BY <2>1, <2>2 DEF AsRoute
  <2> QED BY <2>1, <2>3 DEF w, x
<1>9. one(d) \in Decision /\ one(d).preempted = d.preempted /\ AsRoute(one(d)) = one(r) BY <1>3, <1>5, <1>8
<1>10. more(d) \in Decision /\ more(d).preempted = d.preempted /\ AsRoute(more(d)) = more(r) BY <1>4, <1>5, <1>8
<1>11. AsRoute(d) = r BY DEF r
<1> HIDE DEF one, more
<1> QED BY <1>2, <1>6, <1>7, <1>9, <1>10, <1>11

\* The elements that are to leave the list of a contact.
Displaced(a, c, d, p) ==
  /\ p \in Decision /\ AsRoute(p) = AsRoute(d)
  /\ ToSet(p.preempted) \subseteq ToSet(d.preempted) \cup ToSet(a.bundles[c])

\* do_preemption
LEMMA PreemptionIs ==
  ASSUME NEW a, MemOK(a), now \in Nat, NEW c \in Contact, NEW prio \in Prio, NEW size \in Int, NEW d \in Decision
  PROVE  Displaced(a, c, d, do_preemption(a, c, prio, size, d))
<1> DEFINE U == ToSet(a.bundles[c])
    q == get_less_prio_bundle_list(a, c, prio)
    key1 == [x \in ToSet(q) |-> -a.rb[x].size]
    key2 == [x \in ToSet(q) |-> a.rb[x].prio]
    large == StableSort(q, key1)
    s == PreemptionOrder(a, q)
    base == [target |-> size - contact_get_cur_remaining_capacity(a, c, 0), count |-> 0]
    stay(v) == \/ v.target <= 0 \/ v.count >= OptMaxPreBundlesContact
               \/ Len(d.preempted) + v.count >= OptMaxPreBundles
    take(v, x) == IF stay(v) THEN v ELSE [target |-> v.target - a.rb[x].size, count |-> v.count + 1]
    every == FoldLeft(LAMBDA v, x : take(v, x), base, s)
    F(v) == [d EXCEPT !.ok = v.target <= 0,
                      !.preempted = IF v.target > 0 THEN @ ELSE @ \o SubSeq(s, 1, v.count)]
    b == do_preemption(a, c, prio, size, d)
    A == [target : Int, count : Nat]
    P == [n \in Nat |-> {v \in A : v.count <= n}]
<1>1. U \subseteq DOMAIN a.rb /\ a.bundles[c] \in Seq(Nat) BY MemoryIs DEF MemOK
<1>2. \A x \in U : a.rb[x].size \in Int /\ a.rb[x].prio \in Int
  <2>1. \A x \in U : a.rb[x] \in RoutedBundle BY <1>1, ObjectIs
  <2> HIDE DEF U
  <2> QED BY <2>1 DEF RoutedBundle, Prio
<1>3. q \in Seq(U)
  <2> DEFINE T == {x \in ToSet(a.bundles[c]) : a.rb[x].prio < prio}
  <2>1. OnlyThose(a.bundles[c], T) \in Seq({x \in Nat : x \in T /\ x \in ToSet(a.bundles[c])})
    <3> HIDE DEF T
    <3> QED BY <1>1, OnlyThoseIs
  <2>2. {x \in Nat : x \in T /\ x \in ToSet(a.bundles[c])} \subseteq U OBVIOUS
  <2>3. q = OnlyThose(a.bundles[c], T) BY DEF get_less_prio_bundle_list
  <2> HIDE DEF T, U
  <2> QED BY <2>1, <2>2, <2>3
<1> HIDE DEF q
<1>4. ToSet(q) \subseteq U BY <1>3 DEF ToSet
<1>5. large \in Seq(U) /\ ToSet(large) = ToSet(q)
  <2>1. \A x \in ToSet(q) : key1[x] \in Int
    <3> HIDE DEF U
    <3> QED BY <1>2, <1>4
  <2> HIDE DEF U, key1
  <2> QED BY <1>3, <2>1, SortIs
<1>6. s \in Seq(U)
  <2>1. \A x \in ToSet(large) : key2[x] \in Int
    <3> HIDE DEF U, large
    <3> QED BY <1>2, <1>4, <1>5
  <2>2. s = StableSort(large, key2) BY DEF PreemptionOrder
  <2> HIDE DEF U, key2, large, s
  <2> QED BY <1>5, <2>1, <2>2, SortIs
<1>7. b = CHOOSE z \in {F(v) : v \in {every}} : TRUE BY Zenon DEF do_preemption, With, q
<1> HIDE DEF s, key1, key2, large
<1>n. PICK N \in Nat : N = Len(s) /\ DOMAIN s = 1..N
  <2> HIDE DEF U
  <2> QED BY <1>6
<1>b. base \in A
  <2>1. 0 \in Prio /\ 0 \in Nat BY DEF Prio
  <2>2. contact_get_cur_remaining_capacity(a, c, 0) \in Int BY <2>1, CapacityInt
  <2> QED BY <2>1, <2>2
<1>8. ASSUME NEW n \in 1..N PROVE a.rb[s[n]].size \in Int
  <2>1. s[n] \in U
    <3> HIDE DEF U
    <3> QED BY <1>6, <1>n
  <2> HIDE DEF U
  <2> QED BY <1>2, <2>1
<1>9. ASSUME NEW v \in A, NEW n \in 1..N PROVE take(v, s[n]) \in A
  <2> DEFINE w == [target |-> v.target - a.rb[s[n]].size, count |-> v.count + 1]
  <2>1. w \in A BY <1>8
  <2>2. take(v, s[n]) = v \/ take(v, s[n]) = w OBVIOUS
  <2> HIDE DEF take, w
  <2> QED BY <2>1, <2>2
<1> DEFINE op(v, n) == take(v, s[n])
    G == [z \in (1..N) \X A |-> op(z[2], z[1])]
    E(h) == h = [x \in SUBSET (DOMAIN s) |-> IF x = {} THEN base ELSE op(h[x \ {Max(x)}], Max(x))]
    g == CHOOSE h : E(h)
<1>f1. ASSUME NEW n \in 1..N, NEW v \in A PROVE op(v, n) \in A
    BY <1>9
<1>f2. every = g[DOMAIN s] BY DEF every, FoldLeft, MapThenFoldSet
<1> HIDE DEF op, A, every, base, U
<1>f3. G \in [(1..N) \X A -> A] /\ \A n \in 1..N : \A v \in A : G[<<n, v>>] = op(v, n) BY <1>f1
<1> HIDE DEF G
<1>f4. PICK h : Folds(h, N, A, base, G) BY <1>n, <1>b, <1>f3, FoldThere
<1>f5. E(h) BY <1>n, <1>f3, <1>f4 DEF Folds
<1>f6. E(g) BY <1>f5, Zenon DEF g
<1> HIDE DEF g
<1>f7. FoldOf(g, N, A, base, G) BY <1>n, <1>f3, <1>f6, Zenon DEF FoldOf, E
<1> HIDE DEF E
<1>f8. base \in P[0] /\ \A n \in 1..N : \A v \in A : v \in P[n - 1] => G[<<n, v>>] \in P[n]
  <2>1. base \in P[0]
    <3>1. base.count = 0 BY DEF base
    <3> QED BY <1>b, <3>1
  <2>2. ASSUME NEW n \in 1..N, NEW v \in A, v \in P[n - 1] PROVE op(v, n) \in P[n]
    <3>1. n \in Nat /\ n - 1 \in Nat BY <1>n
    <3>2. v.count \in Nat /\ v.count <= n - 1 BY <2>2, <3>1 DEF A
    <3>3. op(v, n) = v \/ op(v, n) = [target |-> v.target - a.rb[s[n]].size, count |-> v.count + 1] BY DEF op
    <3>4. op(v, n) \in A BY <1>f1
    <3>5. op(v, n).count <= n
      <4> DEFINE o == op(v, n)
      <4>1. o.count = v.count \/ o.count = v.count + 1 BY <3>3
      <4> HIDE DEF o
      <4>2. o.count <= n BY <3>1, <3>2, <4>1
      <4> QED BY <4>2 DEF o
    <3> HIDE DEF op
    <3> QED BY <3>1, <3>4, <3>5
  <2> HIDE DEF P, base
  <2> QED BY <1>f3, <2>1, <2>2
<1> HIDE DEF P
<1>f9. Leads(N, A, base, G, P) BY <1>b, <1>f3, <1>f8 DEF Leads
<1>f10. every \in A /\ every \in P[N] BY <1>n, <1>f2, <1>f7, <1>f9, FoldEnds
<1>10. every.target \in Int /\ every.count \in Nat /\ every.count <= Len(s) BY <1>f10, <1>n DEF P, A
<1> SUFFICES Displaced(a, c, d, b) BY DEF b
<1>11. b = F(every)
  <2>1. {F(v) : v \in {every}} = {F(every)} OBVIOUS
  <2> HIDE DEF F, b
  <2> QED BY <1>7, <2>1, OneValue
<1> HIDE DEF b
<1> DEFINE ok == every.target <= 0
    more == d.preempted \o SubSeq(s, 1, every.count)
    pre == IF every.target > 0 THEN d.preempted ELSE more
<1>12. b = [d EXCEPT !.ok = ok, !.preempted = pre] BY <1>11, Zenon
<1>13. ok \in BOOLEAN OBVIOUS
<1>14. d.preempted \in Seq(Nat) /\ d.contacts \in Seq(Contact) /\ d.probability \in Int BY DEF Decision
<1>15. pre \in Seq(Nat) /\ ToSet(pre) \subseteq ToSet(d.preempted) \cup U
  <2> DEFINE t == SubSeq(s, 1, every.count)
  <2>1. t \in Seq(U) BY <1>6, <1>10
  <2>2. U \subseteq Nat BY <1>1, ObjectIs
  <2> HIDE DEF t
  <2>3. t \in Seq(Nat) /\ ToSet(t) \subseteq U
    <3>1. DOMAIN t = 1..Len(t) /\ \A i \in 1..Len(t) : t[i] \in U BY <2>1
    <3>2. ToSet(t) \subseteq U BY <3>1 DEF ToSet
    <3>3. \A i \in 1..Len(t) : t[i] \in Nat BY <2>2, <3>1
    <3> QED BY <2>1, <3>2, <3>3, SeqWithin
  <2>4. more = d.preempted \o t BY DEF t
  <2>5. more \in Seq(Nat) /\ ToSet(more) = ToSet(d.preempted) \cup ToSet(t)
    <3> HIDE DEF more
    <3> QED BY <1>14, <2>3, <2>4, SetOfConcat
  <2> HIDE DEF more
  <2> QED BY <1>14, <2>3, <2>5
<1> HIDE DEF ok, pre
<1>16. b \in Decision /\ b.contacts = d.contacts /\ b.probability = d.probability /\ b.preempted = pre
  BY <1>12, <1>13, <1>14, <1>15 DEF Decision
<1> QED BY <1>15, <1>16 DEF Displaced, AsRoute, U

\* The decision after the first n contacts of s.
Decided(a, s, n, d) ==
  /\ d \in Decision /\ RouteOK(AsRoute(d))
  /\ \A c \in ToSet(d.contacts) : \E i \in 1..n : s[i] = c
  /\ \A x \in ToSet(d.preempted) : \E c \in Contact : x \in ToSet(a.bundles[c])

\* A contact is added to the decision, or something is displaced from it.
LEMMA DecidedMore ==
  ASSUME NEW a, NEW s \in Seq(Contact), IsInjective(s), NEW n \in DOMAIN s, NEW d, Decided(a, s, n - 1, d),
         Undecided(d), NEW p, Displaced(a, s[n], d, p)
  PROVE  Decided(a, s, n, p) /\ Decided(a, s, n, Join(p, s[n]))
<1> DEFINE c == s[n]
    r == AsRoute(p)
    j == Join(p, c)
<1>1. n \in Nat /\ n - 1 \in Nat /\ n >= 1 /\ c \in Contact /\ \A i \in 1..(n - 1) : i \in DOMAIN s /\ i # n
  <2>1. DOMAIN s = 1..Len(s) /\ Len(s) \in Nat OBVIOUS
  <2> QED BY <2>1
<1>2. d \in Decision /\ RouteOK(AsRoute(d)) /\ (\A e \in ToSet(d.contacts) : \E i \in 1..(n - 1) : s[i] = e)
      /\ \A x \in ToSet(d.preempted) : \E e \in Contact : x \in ToSet(a.bundles[e]) BY DEF Decided
<1>3. p \in Decision /\ r = AsRoute(d) /\ ToSet(p.preempted) \subseteq ToSet(d.preempted) \cup ToSet(a.bundles[c])
  BY DEF Displaced
<1>4. r.contacts = d.contacts /\ r.probability = d.probability /\ p.contacts = d.contacts
  <2>1. AsRoute(d).contacts = d.contacts /\ AsRoute(d).probability = d.probability BY DEF AsRoute
  <2>2. r.contacts = p.contacts BY DEF AsRoute
  <2> HIDE DEF r
  <2> QED BY <1>3, <2>1, <2>2
<1>5. c \notin ToSet(d.contacts) BY <1>1, <1>2 DEF IsInjective
<1>6. \A x \in ToSet(p.preempted) : \E e \in Contact : x \in ToSet(a.bundles[e])
  <2> HIDE DEF c
  <2> QED BY <1>1, <1>2, <1>3
<1>7. \A i \in 1..(n - 1) : i \in 1..n BY <1>1
<1>8. Decided(a, s, n, p)
  <2>1. RouteOK(AsRoute(p)) BY <1>2, <1>3
  <2>2. \A e \in ToSet(p.contacts) : \E i \in 1..n : s[i] = e BY <1>2, <1>4, <1>7
  <2> QED BY <1>3, <1>6, <2>1, <2>2 DEF Decided
<1> HIDE DEF c, r
<1>9. r \in Route /\ j \in Decision /\ j.preempted = p.preempted /\ AsRoute(j) = Join(r, c) BY <1>1, <1>3, JoinDecision DEF r
<1> HIDE DEF j
<1>10. RouteOK(r) /\ Undecided(r) /\ c \notin ToSet(r.contacts)
  <2>1. Undecided(r) BY <1>4 DEF Undecided
  <2> QED BY <1>2, <1>3, <1>4, <1>5, <2>1
<1>11. RouteOK(Join(r, c)) /\ ToSet(Join(r, c).contacts) \subseteq ToSet(r.contacts) \cup {c} BY <1>1, <1>9, <1>10, JoinRoute
<1>12. j.contacts = Join(r, c).contacts
  <2>1. AsRoute(j).contacts = j.contacts BY DEF AsRoute
  <2> QED BY <1>9, <2>1
<1>13. Decided(a, s, n, j)
  <2>1. n \in 1..n BY <1>1
  <2>2. ASSUME NEW e \in ToSet(j.contacts) PROVE \E i \in 1..n : s[i] = e
    <3>1. e \in ToSet(d.contacts) \/ e = c BY <1>4, <1>11, <1>12
    <3> QED BY <1>2, <1>7, <2>1, <3>1 DEF c
  <2> QED BY <1>6, <1>9, <1>11, <2>2 DEF Decided
<1> QED BY <1>8, <1>13 DEF c, j

\* try_calculate_new_decision: what is preempted was on a list.
LEMMA DecisionIs ==
  ASSUME NEW a, MemOK(a), now \in Nat, NEW s \in Seq(Contact), IsInjective(s), NEW prio \in Prio, NEW size \in Int
  PROVE  Decided(a, s, Len(s), try_calculate_new_decision(a, s, prio, size))
<1> DEFINE cap(c, k) == contact_get_cur_remaining_capacity(a, c, k)
    fits(c) == cap(c, prio) >= size /\ To[c] > now
    took(p, c) == IF p.ok THEN Join(p, c) ELSE p
    asked(d, c) == do_preemption(a, c, prio, size, d)
    stay(d, c) == ~Undecided(d) \/ ~fits(c)
    roomy(c) == cap(c, 0) >= size
    base == [contacts |-> <<>>, probability |-> 0, preempted |-> <<>>, ok |-> TRUE]
    A == Decision
    P == [n \in Nat |-> {d \in A : Decided(a, s, n, d)}]
    every == try_calculate_new_decision(a, s, prio, size)
<1>n. PICK N \in Nat : N = Len(s) /\ DOMAIN s = 1..N OBVIOUS
<1>b. base \in A
  <2>1. <<>> \in Seq(Contact) /\ <<>> \in Seq(Nat) /\ TRUE \in BOOLEAN OBVIOUS
  <2> QED BY <2>1 DEF Decision
<1>1. ASSUME NEW v \in A, NEW n \in 1..N
      PROVE  /\ (CHOOSE z \in {took(p, s[n]) : p \in {asked(v, s[n])}} : TRUE) = took(asked(v, s[n]), s[n])
             /\ Displaced(a, s[n], v, asked(v, s[n])) /\ s[n] \in Contact
  <2> DEFINE w == asked(v, s[n])
  <2>1. s[n] \in Contact BY <1>n
  <2>2. Displaced(a, s[n], v, w) BY <2>1, PreemptionIs
  <2> HIDE DEF w, took
  <2>3. {took(p, s[n]) : p \in {w}} = {took(w, s[n])} OBVIOUS
  <2>4. (CHOOSE z \in {took(p, s[n]) : p \in {w}} : TRUE) = took(w, s[n]) BY <2>3, OneValue
  <2> QED BY <2>1, <2>2, <2>4 DEF w
<1> HIDE DEF asked
<1>2. ASSUME NEW v \in A, NEW n \in 1..N
      PROVE  took(asked(v, s[n]), s[n]) \in A /\ Join(v, s[n]) \in A
  <2>1. asked(v, s[n]) \in Decision BY <1>1 DEF Displaced
  <2>2. Join(asked(v, s[n]), s[n]) \in Decision /\ Join(v, s[n]) \in Decision BY <1>1, <2>1, JoinDecision
  <2> QED BY <2>1, <2>2
<1> HIDE DEF fits, cap
<1> DEFINE op(v, n) == IF stay(v, s[n]) THEN v ELSE IF roomy(s[n]) THEN Join(v, s[n]) ELSE (CHOOSE z \in {took(p, s[n]) : p \in {asked(v, s[n])}} : TRUE)
    G == [z \in (1..N) \X A |-> op(z[2], z[1])]
    E(h) == h = [x \in SUBSET (DOMAIN s) |-> IF x = {} THEN base ELSE op(h[x \ {Max(x)}], Max(x))]
    g == CHOOSE h : E(h)
<1>f1. ASSUME NEW n \in 1..N, NEW v \in A PROVE op(v, n) \in A
    BY <1>1, <1>2
<1>f2. every = g[DOMAIN s] BY DEF every, try_calculate_new_decision, With, took, asked, fits, cap, FoldLeft, MapThenFoldSet
<1> HIDE DEF op, A, every
<1>f3. G \in [(1..N) \X A -> A] /\ \A n \in 1..N : \A v \in A : G[<<n, v>>] = op(v, n) BY <1>f1
<1> HIDE DEF G
<1>f4. PICK h : Folds(h, N, A, base, G) BY <1>n, <1>b, <1>f3, FoldThere
<1>f5. E(h) BY <1>n, <1>f3, <1>f4 DEF Folds
<1>f6. E(g) BY <1>f5, Zenon DEF g
<1> HIDE DEF g
<1>f7. FoldOf(g, N, A, base, G) BY <1>n, <1>f3, <1>f6, Zenon DEF FoldOf, E
<1> HIDE DEF E
<1>f8. base \in P[0] /\ \A n \in 1..N : \A v \in A : v \in P[n - 1] => G[<<n, v>>] \in P[n]
  <2>1. base \in P[0]
    <3>1. RouteOK(AsRoute(base))
      <4>1. AsRoute(base).contacts = <<>> /\ AsRoute(base).probability = 0 /\ Len(<<>>) = 0 BY DEF AsRoute
      <4>2. ToSet(<<>>) = {} /\ IsInjective(<<>>) BY DEF ToSet, IsInjective
      <4>3. MaxContacts \in Nat BY Constants
      <4>4. AsRoute(base) \in Route
        <5>1. AsRoute(base) = [contacts |-> <<>>, probability |-> 0, improved |-> 0, payload |-> 0, skip |-> 0] BY DEF AsRoute
        <5>2. <<>> \in Seq(Contact) OBVIOUS
        <5> HIDE DEF base
        <5> QED BY <5>1, <5>2 DEF Route
      <4> HIDE DEF base
      <4> QED BY <4>1, <4>2, <4>3, <4>4 DEF RouteOK
    <3>2. base.contacts = <<>> /\ base.preempted = <<>> OBVIOUS
    <3>3. ToSet(<<>>) = {} BY DEF ToSet
    <3> HIDE DEF base
    <3>4. Decided(a, s, 0, base) BY <1>b, <3>1, <3>2, <3>3 DEF Decided, A
    <3> QED BY <1>b, <3>4
  <2>2. ASSUME NEW n \in 1..N, NEW v \in A, v \in P[n - 1] PROVE op(v, n) \in P[n]
    <3>1. n \in Nat /\ n - 1 \in Nat /\ s[n] \in Contact /\ n \in DOMAIN s BY <1>n
    <3>2. Decided(a, s, n - 1, v) /\ v \in A BY <2>2, <3>1
    <3> DEFINE w == asked(v, s[n])
        o == op(v, n)
    <3>3. o \in A BY <1>f1
    <3>4. CASE stay(v, s[n])
      <4>1. o = v BY <3>4 DEF op
      <4>2. \A i \in 1..(n - 1) : i \in 1..n BY <3>1
      <4>3. Decided(a, s, n, v) BY <3>2, <4>2 DEF Decided
      <4> HIDE DEF o
      <4> QED BY <3>1, <3>3, <4>1, <4>3 DEF o
    <3>5. CASE ~stay(v, s[n]) /\ roomy(s[n])
      <4>1. o = Join(v, s[n]) BY <3>5 DEF op
      <4>2. Displaced(a, s[n], v, v) BY <3>2 DEF Displaced, A
      <4>3. Undecided(v) BY <3>5
      <4> HIDE DEF o, stay, roomy
      <4>4. Decided(a, s, n, o) BY <3>1, <3>2, <4>1, <4>2, <4>3, DecidedMore
      <4> QED BY <3>1, <3>3, <4>4 DEF o
    <3>6. CASE ~stay(v, s[n]) /\ ~roomy(s[n])
      <4>0. v \in Decision BY <3>2 DEF A
      <4>1. o = took(w, s[n]) /\ Displaced(a, s[n], v, w) BY <1>1, <3>2, <3>6 DEF op, A
      <4>2. o = w \/ o = Join(w, s[n]) BY <4>1
      <4>3. Undecided(v) BY <3>6
      <4> HIDE DEF o, w, stay, roomy, took
      <4>4. Decided(a, s, n, w) /\ Decided(a, s, n, Join(w, s[n])) BY <3>1, <3>2, <4>1, <4>3, DecidedMore
      <4>5. Decided(a, s, n, o) BY <4>2, <4>4
      <4> QED BY <3>1, <3>3, <4>5 DEF o
    <3> QED BY <3>4, <3>5, <3>6
  <2> HIDE DEF P, base
  <2> QED BY <1>f3, <2>1, <2>2
<1> HIDE DEF P
<1>f9. Leads(N, A, base, G, P) BY <1>b, <1>f3, <1>f8 DEF Leads
<1>f10. every \in A /\ every \in P[N] BY <1>n, <1>f2, <1>f7, <1>f9, FoldEnds
<1> QED BY <1>n, <1>f10 DEF P, every

\* The object that is being optimized changes.
LEMMA ObjectShifted ==
  ASSUME NEW a, MemOK(a), NEW y \in DOMAIN a.rb, a.fault = "none" => Ready(a, y), NEW r, ObjectOK(a, r), SameObject(a.rb[y], r),
         a.rb[y].contacts # <<>> => r.contacts # <<>>
  PROVE  Shifted(a, SetObject(a, y, r), y) /\ SetObject(a, y, r).fault = a.fault
<1> DEFINE b == SetObject(a, y, r)
<1>1. /\ MemOK(b) /\ Fixed(a, b) /\ b.fault = a.fault /\ b.rq = a.rq /\ b.store = a.store
      /\ b.bundles = a.bundles /\ b.left = a.left
      /\ b.rb = [a.rb EXCEPT ![y] = r] /\ DOMAIN b.rb = DOMAIN a.rb /\ Len(b.rb) = Len(a.rb)
  BY SetObjectIs
<1> HIDE DEF b
<1>2. \A w \in DOMAIN a.rb : b.rb[w] = IF w = y THEN r ELSE a.rb[w] BY <1>1
<1>3. SameObjects(a, b)
  <2>1. \A w \in DOMAIN a.rb : SameObject(a.rb[w], b.rb[w]) BY <1>2 DEF SameObject
  <2> QED BY <1>1, <2>1 DEF SameObjects
<1>4. ASSUME b.fault = "none" PROVE Ready(b, y)
  <2>1. Ready(a, y) BY <1>1, <1>4
  <2>2. Core(b)
    <3>1. \A w \in DOMAIN a.rb : w \in DOMAIN b.rb /\ b.rb[w].prio = a.rb[w].prio /\ b.rb[w].size = a.rb[w].size
      BY <1>3 DEF SameObjects, SameObject
    <3>2. Core(a) BY <2>1 DEF Ready
    <3> QED BY <1>1, <3>1, <3>2, CoreSame
  <2>3. Fits(b, {y})
    <3>1. ASSUME NEW w \in DOMAIN b.rb, b.rb[w].live, w # y PROVE Listed(b, w)
      <4>1. b.rb[w] = a.rb[w] /\ w \in DOMAIN a.rb BY <1>1, <1>2, <3>1
      <4>2. Listed(a, w) BY <2>1, <3>1, <4>1 DEF Ready, Fits
      <4>3. b.over = a.over /\ b.handed = a.handed BY <1>1 DEF Fixed
      <4> QED BY <1>1, <4>1, <4>2, <4>3 DEF Listed
    <3> QED BY <3>1 DEF Fits
  <2>4. Unique(b) BY <1>3, <2>1, UniqueSame DEF Ready
  <2>5. Off(b, y) BY <1>1, <2>1 DEF Ready, Off
  <2> QED BY <2>2, <2>3, <2>4, <2>5 DEF Ready
<1>5. b.rb[y] = r BY <1>2
<1> QED BY <1>1, <1>3, <1>4, <1>5 DEF Shifted, b

\* A failure, or nothing.
LEMMA NotShifted ==
  ASSUME NEW a, MemOK(a), NEW y, Ready(a, y)
  PROVE  Shifted(a, a, y) /\ Shifted(a, Fault(a, "freed"), y) /\ Shifted(a, Fault(a, "preempted_count"), y)
<1>1. SameObjects(a, a) BY DEF SameObjects, SameObject, Fixed
<1>2. Shifted(a, a, y) BY <1>1 DEF Shifted
<1>3. ASSUME NEW f \in {"freed", "preempted_count"} PROVE Shifted(a, Fault(a, f), y)
  <2> DEFINE b == Fault(a, f)
  <2>1. f \in Faults /\ f # "none" BY DEF Faults
  <2>2. MemOK(b) /\ OnLists(a, b) /\ b.fault = f BY <2>1, FaultIs
  <2> HIDE DEF b
  <2>3. SameObjects(a, b) /\ b.rb = a.rb BY <2>2, SameFacts DEF OnLists
  <2>4. Shifted(a, b, y) BY <2>1, <2>2, <2>3 DEF Shifted
  <2> QED BY <2>4 DEF b
<1> QED BY <1>2, <1>3

\* The contacts of an object, all at once.
SetContacts(a, x, q) == [a EXCEPT !.rb[x].contacts = q]

\* optimizer_calculate_new_decision and re_route_preempted_fragments.
LEMMA NewDecisionIs ==
  ASSUME NEW a, MemOK(a), a.fault = "none", NEW y \in DOMAIN a.rb, Ready(a, y), now \in Nat,
         NEW s \in Seq(Contact), IsInjective(s), NEW fails \in BOOLEAN
  PROVE  Shifted(a, NewDecision(a, y, s, fails), y)
<1> DEFINE d == try_calculate_new_decision(a, s, a.rb[y].prio, a.rb[y].size)
    moved(e) == re_route_preempted_fragments(a, e.preempted, ToSet(e.contacts), fails)
    G(e, r) == IF r.success THEN SetContacts(r.mem, y, e.contacts) ELSE r.mem
    F(e) == IF ~Feasible(e) THEN a
            ELSE IF e.preempted = <<>> THEN Fault(a, "preempted_count")
            ELSE IF \E i \in DOMAIN e.preempted : ~a.rb[e.preempted[i]].live THEN Fault(a, "freed")
            ELSE CHOOSE z \in {G(e, r) : r \in {moved(e)}} : TRUE
    b == NewDecision(a, y, s, fails)
<1>1. b = CHOOSE z \in {F(e) : e \in {d}} : TRUE BY Zenon DEF NewDecision, With, SetContacts
<1>2. Decided(a, s, Len(s), d)
  <2> DEFINE prio == a.rb[y].prio
      size == a.rb[y].size
  <2>1. a.rb[y] \in RoutedBundle BY ObjectIs
  <2>2. prio \in Prio /\ size \in Int BY <2>1 DEF RoutedBundle
  <2> HIDE DEF prio, size
  <2>3. Decided(a, s, Len(s), try_calculate_new_decision(a, s, prio, size)) BY <2>2, DecisionIs
  <2> QED BY <2>3 DEF prio, size
<1> HIDE DEF b, d
<1> SUFFICES Shifted(a, b, y) BY DEF b
<1>3. b = F(d)
  <2>1. {F(e) : e \in {d}} = {F(d)} OBVIOUS
  <2> HIDE DEF F
  <2> QED BY <1>1, <2>1, OneValue
<1>4. Shifted(a, a, y) /\ Shifted(a, Fault(a, "freed"), y) /\ Shifted(a, Fault(a, "preempted_count"), y) BY NotShifted
<1> DEFINE Goes == Feasible(d) /\ d.preempted # <<>> /\ \A i \in DOMAIN d.preempted : a.rb[d.preempted[i]].live
<1>5. CASE ~Goes
  <2>1. b = a \/ b = Fault(a, "freed") \/ b = Fault(a, "preempted_count")
    <3> HIDE DEF G, moved
    <3> QED BY <1>3, <1>5
  <2> QED BY <1>4, <2>1
<1>6. CASE Goes
  <2> DEFINE r == moved(d)
      pre == d.preempted
  <2>1. b = CHOOSE z \in {G(d, v) : v \in {moved(d)}} : TRUE
    <3> HIDE DEF G, moved
    <3> QED BY <1>3, <1>6
  <2>2. b = G(d, r)
    <3>1. {G(d, v) : v \in {r}} = {G(d, r)} OBVIOUS
    <3> HIDE DEF G, moved
    <3> QED BY <2>1, <3>1, OneValue
  <2>3. pre \in Seq(Nat) /\ d.contacts \in Seq(Contact) /\ RouteOK(AsRoute(d)) /\ d \in Decision BY <1>2 DEF Decided, Decision
  <2>4. Movable(a, y, pre)
    <3>1. ASSUME NEW i \in DOMAIN pre PROVE pre[i] \in DOMAIN a.rb /\ pre[i] # y
      <4>1. pre[i] \in ToSet(pre) BY DEF ToSet
      <4>2. PICK c \in Contact : pre[i] \in ToSet(a.bundles[c]) BY <1>2, <4>1 DEF Decided
      <4>3. y \notin ToSet(a.bundles[c]) BY DEF Ready, Off
      <4>4. ToSet(a.bundles[c]) \subseteq DOMAIN a.rb BY DEF MemOK
      <4> HIDE DEF pre
      <4> QED BY <4>2, <4>3, <4>4
    <3> QED BY <1>6, <3>1 DEF Movable
  <2> DEFINE X == ToSet(d.contacts)
  <2>5. r.success \in BOOLEAN /\ Shifted(a, r.mem, y)
    <3>1. r = re_route_preempted_fragments(a, pre, X, fails) OBVIOUS
    <3> HIDE DEF r, pre, X
    <3> QED BY <2>3, <2>4, <3>1, ReRouteIs
  <2>6. RouteOK(AsRoute(d)) /\ d.contacts # <<>> /\ IsInjective(d.contacts) /\ Len(d.contacts) <= MaxContacts
    <3>1. AsRoute(d).contacts = d.contacts /\ AsRoute(d).probability = d.probability BY DEF AsRoute
    <3>2. Feasible(AsRoute(d)) BY <1>6, <3>1 DEF Feasible
    <3>3. AsRoute(d).contacts # <<>> BY <2>3, <3>2, FeasibleIs
    <3> QED BY <2>3, <3>1, <3>3 DEF RouteOK
  <2> HIDE DEF r, X
  <2>7. CASE ~r.success
    <3>1. b = r.mem BY <2>2, <2>7
    <3> QED BY <2>5, <3>1
  <2>8. CASE r.success
    <3> DEFINE v == r.mem
        o == [v.rb[y] EXCEPT !.contacts = d.contacts]
    <3>1. b = SetContacts(v, y, d.contacts) BY <2>2, <2>8
    <3>2. MemOK(v) /\ y \in DOMAIN v.rb /\ (v.fault = "none" => Ready(v, y)) BY <2>5 DEF Shifted, SameObjects
    <3>3. ObjectOK(v, v.rb[y]) /\ v.rb[y] \in RoutedBundle BY <3>2, ObjectIs
    <3>4. b = SetObject(v, y, o) BY <3>1, Zenon DEF SetContacts, SetObject
    <3> HIDE DEF v
    <3>5. o \in RoutedBundle /\ o.contacts = d.contacts /\ SameObject(v.rb[y], o) BY <2>3, <3>3 DEF RoutedBundle, SameObject
    <3> HIDE DEF o
    <3>6. ObjectOK(v, o) BY <2>6, <3>3, <3>5 DEF ObjectOK, SameObject
    <3>7. Shifted(v, SetObject(v, y, o), y) BY <2>6, <3>2, <3>5, <3>6, ObjectShifted
    <3>8. Shifted(v, b, y) BY <3>4, <3>7
    <3>9. Shifted(a, v, y) BY <2>5 DEF v
    <3> QED BY <3>8, <3>9, ShiftedTwice
  <2> QED BY <2>5, <2>7, <2>8
<1> QED BY <1>5, <1>6

\* What the optimizer makes of the memory.
Optimized(a, b) == MemOK(b) /\ SameObjects(a, b) /\ (b.fault = "none" => Good(b, 0))

\* An object that was off all lists is put back.
LEMMA PutBack ==
  ASSUME NEW a, MemOK(a), NEW x \in DOMAIN a.rb, a.fault = "none" => Ready(a, x) /\ Family(a, 0) /\ Tiled(a, 0)
  PROVE  Optimized(a, AddToContacts(a, x, a.rb[x].contacts, FALSE))
<1> DEFINE q == a.rb[x].contacts
    b == AddToContacts(a, x, q, FALSE)
<1>1. a.rb[x] \in RoutedBundle /\ ObjectOK(a, a.rb[x]) BY ObjectIs
<1>2. q \in Seq(Contact) /\ IsInjective(q) BY <1>1 DEF RoutedBundle, ObjectOK
<1>3. /\ MemOK(b) /\ OnLists(a, b)
      /\ b.fault = "none" => a.fault = "none"
      /\ b.fault = "none" /\ Core(a) /\ Off(a, x) => Core(b) /\ Put(a, b, x, ToSet(q))
  <2> HIDE DEF q
  <2>1. FALSE \in BOOLEAN OBVIOUS
  <2> QED BY <1>2, <2>1, AddLoop
<1> HIDE DEF b
<1> SUFFICES Optimized(a, b) BY DEF b
<1>4. SameObjects(a, b) BY <1>3, SameFacts
<1>5. ASSUME b.fault = "none" PROVE Good(b, 0)
  <2>1. Core(a) /\ Fits(a, {x}) /\ Unique(a) /\ Off(a, x) /\ Family(a, 0) /\ Tiled(a, 0) BY <1>3, <1>5 DEF Ready
  <2>2. Core(b) /\ Put(a, b, x, ToSet(q)) BY <1>3, <1>5, <2>1
  <2>3. Rerouted(a, b, x, q) BY <1>3 DEF Rerouted, OnLists, SameObject
  <2>4. Listed(b, x) /\ \A y \in DOMAIN a.rb : y # x /\ Listed(a, y) => Listed(b, y)
    <3> HIDE DEF q
    <3> QED BY <2>1, <2>2, <2>3, ListedAgain
  <2>5. Fits(b, {})
    <3>1. b.rb = a.rb BY <1>3 DEF OnLists
    <3>2. ASSUME NEW w \in DOMAIN b.rb, b.rb[w].live PROVE Listed(b, w)
      <4>1. CASE w = x BY <2>4, <4>1
      <4>2. CASE w # x
        <5>1. w \in DOMAIN a.rb /\ Listed(a, w) BY <2>1, <3>1, <3>2, <4>2 DEF Fits
        <5> QED BY <2>4, <4>2, <5>1
      <4> QED BY <4>1, <4>2
    <3> QED BY <3>2 DEF Fits
  <2>6. Unique(b) BY <1>4, <2>1, UniqueSame
  <2>7. Family(b, 0) /\ Tiled(b, 0)
    <3>1. b.store = a.store BY <1>3 DEF OnLists
    <3>2. Family(b, 0) BY <2>1, <3>1 DEF Family
    <3> QED BY <2>1, <3>1, <3>2, TiledStore
  <2> QED BY <2>2, <2>5, <2>6, <2>7 DEF Good
<1> QED BY <1>3, <1>4, <1>5 DEF Optimized

\* try_optimize_decision_preempt: one object.
LEMMA TryOptimizeIs ==
  ASSUME NEW a, MemOK(a), a.fault = "none", Good(a, 0), NEW x \in DOMAIN a.rb, a.rb[x].live, now \in Nat, NEW fails \in BOOLEAN
  PROVE  Optimized(a, try_optimize_decision_preempt(a, x, fails))
<1> DEFINE s == router_lookup_destination(a, a.rb[x].dest)
    fresh(w) == [w EXCEPT !.rb[x].improved = 0]
    D(w) == IF s = <<>> THEN w ELSE NewDecision(fresh(w), x, s, fails)
    H(v) == AddToContacts(v, x, v.rb[x].contacts, FALSE)
    F(w) == IF w.fault # "none" THEN w ELSE CHOOSE z \in {H(v) : v \in {D(w)}} : TRUE
    r == TakeOff(a, x)
    b == try_optimize_decision_preempt(a, x, fails)
<1>1. b = CHOOSE z \in {F(w) : w \in {r}} : TRUE BY Zenon DEF try_optimize_decision_preempt, With
<1>2. TakenOff(a, r, x) BY TakeOffIs
<1>3. s \in Seq(Contact) /\ IsInjective(s) BY LookupIs
<1> HIDE DEF b, r, s
<1> SUFFICES Optimized(a, b) BY DEF b
<1>4. b = F(r)
  <2>1. {F(w) : w \in {r}} = {F(r)} OBVIOUS
  <2> HIDE DEF F
  <2> QED BY <1>1, <2>1, OneValue
<1>5. MemOK(r) /\ SameObjects(a, r) /\ r.rb = a.rb /\ r.store = a.store BY <1>2, SameFacts DEF TakenOff, OnLists
<1>6. CASE r.fault # "none"
  <2>1. b = r
    <3> HIDE DEF H, D
    <3> QED BY <1>4, <1>6
  <2> QED BY <1>5, <1>6, <2>1 DEF Optimized
<1>7. CASE r.fault = "none"
  <2> DEFINE v == D(r)
  <2>1. b = H(v)
    <3>1. b = CHOOSE z \in {H(u) : u \in {D(r)}} : TRUE
      <4> HIDE DEF H, D
      <4> QED BY <1>4, <1>7
    <3>2. {H(u) : u \in {v}} = {H(v)} OBVIOUS
    <3> HIDE DEF H, D
    <3> QED BY <3>1, <3>2, OneValue
  <2>2. Ready(r, x)
    <3>1. Core(a) /\ Fits(a, {}) /\ Unique(a) BY DEF Good
    <3>2. Only(a, x) /\ Listed(a, x) BY <3>1 DEF Unique, Fits
    <3>3. Core(r) /\ Off(r, x) /\ \A w \in DOMAIN a.rb : w # x /\ Listed(a, w) => Listed(r, w)
      BY <1>2, <1>7, <3>1, <3>2 DEF TakenOff
    <3>4. Fits(r, {x}) BY <1>5, <3>1, <3>3 DEF Fits
    <3>5. Unique(r) BY <1>5, <3>1, UniqueSame
    <3> QED BY <3>3, <3>4, <3>5 DEF Ready
  <2>3. Shifted(r, v, x)
    <3>1. CASE s = <<>>
      <4>1. v = r BY <3>1
      <4> QED BY <1>5, <2>2, <4>1, NotShifted
    <3>2. CASE s # <<>>
      <4> DEFINE o == [r.rb[x] EXCEPT !.improved = 0]
          d == fresh(r)
      <4>1. v = NewDecision(d, x, s, fails) BY <3>2
      <4>2. d = SetObject(r, x, o) BY Zenon DEF SetObject
      <4>3. r.rb[x] \in RoutedBundle /\ ObjectOK(r, r.rb[x]) /\ x \in DOMAIN r.rb BY <1>5, ObjectIs
      <4>4. o \in RoutedBundle /\ o.contacts = r.rb[x].contacts /\ SameObject(r.rb[x], o)
        <5>1. 0 \in Nat OBVIOUS
        <5> QED BY <4>3, <5>1 DEF RoutedBundle, SameObject
      <4> HIDE DEF o, d, v
      <4>5. ObjectOK(r, o) BY <4>3, <4>4 DEF ObjectOK, SameObject
      <4>6. Shifted(r, d, x) /\ d.fault = r.fault BY <1>5, <2>2, <4>2, <4>3, <4>4, <4>5, ObjectShifted
      <4>7. d.fault = "none" BY <1>7, <4>6
      <4>8. MemOK(d) /\ Ready(d, x) /\ x \in DOMAIN d.rb BY <4>3, <4>6, <4>7 DEF Shifted, SameObjects
      <4>9. Shifted(d, v, x) BY <1>3, <4>1, <4>7, <4>8, NewDecisionIs
      <4> QED BY <4>6, <4>9, ShiftedTwice
    <3> QED BY <3>1, <3>2
  <2> HIDE DEF v
  <2>4. MemOK(v) /\ SameObjects(r, v) /\ x \in DOMAIN v.rb /\ (v.fault = "none" => Ready(v, x) /\ Family(v, 0) /\ Tiled(v, 0))
    <3>1. v.store = a.store BY <1>5, <2>3 DEF Shifted, SameObjects
    <3>2. Family(v, 0) /\ Tiled(v, 0)
      <4>1. Family(v, 0) BY <3>1 DEF Good, Family
      <4> QED BY <3>1, <4>1, TiledStore DEF Good
    <3> QED BY <1>5, <2>3, <3>2 DEF Shifted, SameObjects
  <2>5. Optimized(v, b) BY <2>1, <2>4, PutBack
  <2>6. SameObjects(a, b) BY <1>5, <2>4, <2>5, SameFacts DEF Optimized
  <2> QED BY <2>5, <2>6 DEF Optimized
<1> QED BY <1>6, <1>7

\* The loop over the objects of a contact that are to be optimized.
Optimizing(a, s, fails) ==
  ForEach(a, [i \in DOMAIN s |-> i], LAMBDA b, i : try_optimize_decision_preempt(b, s[i], fails /\ i = 1))

\* The first of them optimized, and the second, ...
LEMMA OptimizingIs ==
  ASSUME NEW a, MemOK(a), a.fault = "none", Good(a, 0), now \in Nat,
         NEW q \in Seq(Nat), \A i \in DOMAIN q : q[i] \in DOMAIN a.rb /\ a.rb[q[i]].live, NEW fails \in BOOLEAN
  PROVE  Optimized(a, Optimizing(a, q, fails))
<1> DEFINE s == [i \in DOMAIN q |-> i]
    out(v, i) == IF v.fault # "none" THEN v ELSE try_optimize_decision_preempt(v, q[i], fails /\ i = 1)
    every == FoldLeft(LAMBDA v, i : out(v, i), a, s)
    A == {v \in Memory : Optimized(a, v)}
<1>e. Optimizing(a, q, fails) = every BY DEF Optimizing, ForEach
<1>n. PICK N \in Nat : N = Len(s) /\ DOMAIN s = 1..N /\ DOMAIN q = 1..N
  <2>1. DOMAIN s = 1..Len(q) /\ Len(s) = Len(q) /\ DOMAIN q = 1..Len(q) /\ Len(q) \in Nat OBVIOUS
  <2> DEFINE M == Len(q)
  <2> HIDE DEF s, M
  <2>2. M \in Nat /\ M = Len(s) /\ DOMAIN s = 1..M /\ DOMAIN q = 1..M BY <2>1 DEF M
  <2> QED BY <2>2
<1>s. \A k \in 1..N : s[k] = k BY <1>n
<1> HIDE DEF s
<1>b. a \in A
  <2>1. SameObjects(a, a) BY DEF SameObjects, SameObject, Fixed
  <2> QED BY <2>1 DEF Optimized, MemOK
<1>3. ASSUME NEW v \in A, NEW n \in 1..N PROVE out(v, s[n]) \in A
  <2>1. CASE v.fault # "none" BY <2>1
  <2>2. CASE v.fault = "none"
    <3> DEFINE x == q[n]
        bad == fails /\ n = 1
        w == try_optimize_decision_preempt(v, x, bad)
    <3>1. out(v, s[n]) = w BY <1>s, <2>2
    <3>2. MemOK(v) /\ Good(v, 0) /\ SameObjects(a, v) BY <2>2 DEF Optimized
    <3>3. x \in DOMAIN v.rb /\ v.rb[x].live /\ bad \in BOOLEAN
      <4>1. x \in DOMAIN a.rb /\ a.rb[x].live BY <1>n
      <4> HIDE DEF x
      <4> QED BY <3>2, <4>1 DEF SameObjects, SameObject
    <3> HIDE DEF x, bad, out, A
    <3>4. Optimized(v, w) BY <2>2, <3>2, <3>3, TryOptimizeIs
    <3> HIDE DEF w
    <3>5. SameObjects(a, w) BY <3>2, <3>4, SameFacts DEF Optimized
    <3>6. w \in A BY <3>4, <3>5 DEF A, Optimized, MemOK
    <3> QED BY <3>1, <3>6
  <2> QED BY <2>1, <2>2
<1> HIDE DEF out
<1> DEFINE op(v, n) == out(v, s[n])
    G == [z \in (1..N) \X A |-> op(z[2], z[1])]
    E(h) == h = [x \in SUBSET (DOMAIN s) |-> IF x = {} THEN a ELSE op(h[x \ {Max(x)}], Max(x))]
    g == CHOOSE h : E(h)
<1>f1. ASSUME NEW n \in 1..N, NEW v \in A PROVE op(v, n) \in A
    BY <1>3
<1>f2. every = g[DOMAIN s] BY DEF every, FoldLeft, MapThenFoldSet
<1> HIDE DEF op, A, every
<1>f3. G \in [(1..N) \X A -> A] /\ \A n \in 1..N : \A v \in A : G[<<n, v>>] = op(v, n) BY <1>f1
<1> HIDE DEF G
<1>f4. PICK h : Folds(h, N, A, a, G) BY <1>n, <1>b, <1>f3, FoldThere
<1>f5. E(h) BY <1>n, <1>f3, <1>f4 DEF Folds
<1>f6. E(g) BY <1>f5, Zenon DEF g
<1> HIDE DEF g
<1>f7. FoldOf(g, N, A, a, G) BY <1>n, <1>f3, <1>f6, Zenon DEF FoldOf, E
<1> HIDE DEF E
<1>f8. every \in A BY <1>n, <1>b, <1>f2, <1>f3, <1>f7, FoldIn
<1>4. Optimized(a, every) BY <1>f8 DEF A
<1> QED BY <1>e, <1>4

\* The list of a contact in the order of the priorities.
Sorted(a, c) == [a EXCEPT !.bundles[c] = StableSort(@, [x \in ToSet(@) |-> -a.rb[x].prio])]

\* list_sort in router_run_optimization: the same entries, the same capacity.
LEMMA SortedIs ==
  ASSUME NEW a, MemOK(a), NEW c \in Contact \ a.over, a.fault = "none" => Good(a, 0)
  PROVE  Optimized(a, Sorted(a, c))
<1> DEFINE s == a.bundles[c]
    key == [x \in ToSet(s) |-> -a.rb[x].prio]
    t == StableSort(s, key)
    bundles == [a.bundles EXCEPT ![c] = t]
    b == Sorted(a, c)
<1>1. a \in Memory /\ s \in Seq(Nat) /\ ToSet(s) \subseteq DOMAIN a.rb BY MemoryIs DEF MemOK
<1>2. /\ t \in Seq(Nat) /\ Len(t) = Len(s) /\ ToSet(t) = ToSet(s) /\ (IsInjective(s) => IsInjective(t))
  <2>1. \A x \in DOMAIN a.rb : a.rb[x] \in RoutedBundle BY ObjectIs
  <2>2. \A x \in DOMAIN a.rb : a.rb[x].prio \in Int BY <2>1 DEF RoutedBundle, Prio
  <2>3. \A x \in ToSet(s) : key[x] \in Int
    <3> HIDE DEF s
    <3> QED BY <1>1, <2>2
  <2> HIDE DEF s, key
  <2> QED BY <1>1, <2>3, SortIs
<1>3. b = [a EXCEPT !.bundles = bundles] BY Zenon DEF Sorted
<1> HIDE DEF t, b, s
<1>4. bundles \in [Contact -> Seq(Nat)] /\ \A d \in Contact : bundles[d] = IF d = c THEN t ELSE a.bundles[d] BY <1>2, MemoryIs
<1> HIDE DEF bundles
<1>5. /\ b \in Memory /\ b.bundles = bundles /\ b.left = a.left /\ b.fault = a.fault /\ b.rb = a.rb /\ b.store = a.store
      /\ b.rq = a.rq /\ b.handed = a.handed /\ b.over = a.over /\ b.rate = a.rate /\ b.total = a.total
  BY <1>1, <1>3, <1>4 DEF Memory
<1>6. \A d \in Contact : ToSet(b.bundles[d]) = ToSet(a.bundles[d]) BY <1>2, <1>4, <1>5 DEF s
<1>7. MemOK(b) BY <1>5, <1>6 DEF MemOK
<1>8. OnLists(a, b) BY <1>5 DEF OnLists, Fixed
<1>9. SameObjects(a, b) BY <1>8, SameFacts
<1>10. ASSUME b.fault = "none" PROVE Good(b, 0)
  <2>1. Good(a, 0) /\ Core(a) BY <1>5, <1>10 DEF Good
  <2>2. Core(b)
    <3> DEFINE l == a.left[c]
    <3>1. IsInjective(s) BY <2>1 DEF Core, s
    <3>2. ASSUME NEW k \in Prio PROVE l[k] = l[k] - (SumOf(Weight(a, k), t) - SumOf(Weight(a, k), a.bundles[c]))
      <4>1. Weighed(Weight(a, k), s) /\ SumOf(Weight(a, k), s) \in Int BY <1>1, WeightInt
      <4>2. SumOf(Weight(a, k), t) = SumOf(Weight(a, k), s) BY <1>1, <1>2, <3>1, <4>1, SumSame
      <4>3. l[k] \in Int BY MemoryIs
      <4> QED BY <4>1, <4>2, <4>3 DEF s
    <3>3. b.left = [a.left EXCEPT ![c] = l] BY <1>5, MemoryIs
    <3>4. b.bundles = [a.bundles EXCEPT ![c] = t] BY <1>5 DEF bundles
    <3>5. IsInjective(t) BY <1>2, <3>1
    <3>6. \A k \in Prio : l[k] = a.left[c][k] - (SumOf(Weight(a, k), t) - SumOf(Weight(a, k), a.bundles[c])) BY <3>2
    <3> HIDE DEF l
    <3> QED BY <1>2, <1>7, <1>8, <2>1, <3>3, <3>4, <3>5, <3>6, CoreOne
  <2>3. Fits(b, {}) BY <1>5, <1>6, <2>1 DEF Good, Fits, Listed
  <2>4. Unique(b) BY <1>9, <2>1, UniqueSame DEF Good
  <2>5. Family(b, 0) BY <1>5, <2>1 DEF Good, Family
  <2>6. Tiled(b, 0) BY <1>5, <2>1, TiledStore DEF Good
  <2> QED BY <2>2, <2>3, <2>4, <2>5, <2>6 DEF Good
<1> QED BY <1>7, <1>9, <1>10 DEF Optimized, b

\* The objects on a list that preemption might improve, and that have not been
\* handed over anywhere.
Waiting(a, c) == {x \in ToSet(a.bundles[c]) : a.rb[x].improved # 0 /\ a.rb[x].serialized = 0}
Popt(a, c) == With(OnlyThose(a.bundles[c], Waiting(a, c)), LAMBDA s : SubSeq(s, 1, Min({OptMaxBundles, Len(s)})))
Unsorted(a, c) == \E i \in 2..Len(a.bundles[c]) : a.rb[a.bundles[c][i]].prio > a.rb[a.bundles[c][i - 1]].prio

\* The next contact of router_run_optimization.
OptimizedContact(v, c, s, fails) ==
  With(Optimizing(v.mem, s, fails), LAMBDA a :
    [mem |-> IF Unsorted(v.mem, c) THEN Sorted(a, c) ELSE a,
     done |-> s # <<>>, opt |-> v.opt \/ s # <<>> \/ Unsorted(v.mem, c)])
NextContact(v, c, fails) ==
  IF v.done \/ v.mem.fault # "none" THEN v
  ELSE IF \E x \in ToSet(v.mem.bundles[c]) : ~v.mem.rb[x].live THEN [v EXCEPT !.mem = Fault(@, "freed")]
  ELSE With(Popt(v.mem, c), LAMBDA s : OptimizedContact(v, c, s, fails))
Run == [mem : Memory, done : BOOLEAN, opt : BOOLEAN]

\* At most OptMaxBundles of the elements of a list.
LEMMA PoptIs ==
  ASSUME NEW a, MemOK(a), NEW c \in Contact
  PROVE  Popt(a, c) \in Seq(Nat) /\ \A i \in DOMAIN Popt(a, c) : Popt(a, c)[i] \in ToSet(a.bundles[c])
<1> DEFINE U == ToSet(a.bundles[c])
    q == OnlyThose(a.bundles[c], Waiting(a, c))
    F(s) == SubSeq(s, 1, Min({OptMaxBundles, Len(s)}))
    b == Popt(a, c)
<1>1. a.bundles[c] \in Seq(Nat) BY MemoryIs
<1>2. q \in Seq({x \in Nat : x \in Waiting(a, c) /\ x \in U}) BY <1>1, OnlyThoseIs
<1>3. b = CHOOSE z \in {F(s) : s \in {q}} : TRUE BY Zenon DEF Popt, With
<1>4. {x \in Nat : x \in Waiting(a, c) /\ x \in U} \subseteq {x \in Nat : x \in U} OBVIOUS
<1> HIDE DEF b, q, U
<1>5. b = F(q)
  <2>1. {F(s) : s \in {q}} = {F(q)} OBVIOUS
  <2> HIDE DEF F
  <2> QED BY <1>3, <2>1, OneValue
<1> DEFINE V == {x \in Nat : x \in U}
    m1 == Min({OptMaxBundles, Len(q)})
<1>6. q \in Seq(V) BY <1>2, <1>4
<1>7. m1 \in Nat /\ m1 <= Len(q)
  <2>1. OptMaxBundles \in Nat /\ Len(q) \in Nat BY <1>6, Constants
  <2>2. OptMaxBundles \in Int /\ Len(q) \in Int BY <2>1
  <2>3. (m1 = OptMaxBundles \/ m1 = Len(q)) /\ m1 <= Len(q) BY <2>2, MinOf
  <2> HIDE DEF m1
  <2> QED BY <2>1, <2>3
<1>8. b = SubSeq(q, 1, m1) BY <1>5
<1> HIDE DEF V, m1
<1>9. b \in Seq(V) BY <1>6, <1>7, <1>8
<1>10. V \subseteq Nat /\ V \subseteq U BY DEF V
<1>11. DOMAIN b = 1..Len(b) /\ \A i \in 1..Len(b) : b[i] \in V BY <1>9
<1>12. b \in Seq(Nat)
  <2>1. \A i \in 1..Len(b) : b[i] \in Nat BY <1>10, <1>11
  <2> QED BY <1>9, <2>1, SeqWithin
<1>13. \A i \in DOMAIN b : b[i] \in U BY <1>10, <1>11
<1> QED BY <1>12, <1>13 DEF b, U

\* One contact.
LEMMA NextContactIs ==
  ASSUME NEW a, NEW v \in Run, Optimized(a, v.mem), NEW c \in Contact \ a.over, now \in Nat, NEW fails \in BOOLEAN
  PROVE  NextContact(v, c, fails) \in Run /\ Optimized(a, NextContact(v, c, fails).mem)
<1> DEFINE m1 == v.mem
    s == Popt(m1, c)
    w == Optimizing(m1, s, fails)
    moved == Unsorted(m1, c)
    H(z) == IF moved THEN Sorted(z, c) ELSE z
    R(z, q) == [mem |-> H(z), done |-> q # <<>>, opt |-> v.opt \/ q # <<>> \/ moved]
    G(q) == CHOOSE y \in {R(z, q) : z \in {Optimizing(m1, q, fails)}} : TRUE
    b == NextContact(v, c, fails)
<1>1. b = IF v.done \/ m1.fault # "none" THEN v
          ELSE IF \E x \in ToSet(m1.bundles[c]) : ~m1.rb[x].live THEN [v EXCEPT !.mem = Fault(m1, "freed")]
          ELSE CHOOSE y \in {G(q) : q \in {s}} : TRUE
  BY Zenon DEF NextContact, OptimizedContact, With
<1>2. /\ v.mem \in Memory /\ v.done \in BOOLEAN /\ v.opt \in BOOLEAN
      /\ MemOK(m1) /\ SameObjects(a, m1) /\ (m1.fault = "none" => Good(m1, 0))
  BY DEF Run, Optimized
<1>3. moved \in BOOLEAN BY DEF Unsorted
<1>4. c \in Contact \ m1.over BY <1>2 DEF SameObjects, Fixed
<1>5. ASSUME NEW q, NEW z, Optimized(m1, z) PROVE R(z, q) \in Run /\ Optimized(a, R(z, q).mem)
  <2>1. MemOK(z) /\ SameObjects(m1, z) /\ (z.fault = "none" => Good(z, 0)) BY <1>5 DEF Optimized
  <2>2. c \in Contact \ z.over BY <1>4, <2>1 DEF SameObjects, Fixed
  <2>3. Optimized(z, Sorted(z, c)) BY <2>1, <2>2, SortedIs
  <2>4. Optimized(z, H(z))
    <3>1. SameObjects(z, z) BY DEF SameObjects, SameObject, Fixed
    <3>2. Optimized(z, z) BY <2>1, <3>1 DEF Optimized
    <3> QED BY <2>3, <3>2
  <2> DEFINE h == H(z)
      done == q # <<>>
      opt == v.opt \/ q # <<>> \/ moved
  <2>5. done \in BOOLEAN /\ opt \in BOOLEAN BY <1>2, <1>3
  <2> HIDE DEF h, done, opt
  <2>6. MemOK(h) /\ SameObjects(a, h) /\ (h.fault = "none" => Good(h, 0))
    <3>1. Optimized(z, h) BY <2>4 DEF h
    <3>2. SameObjects(m1, h) BY <2>1, <3>1, SameFacts DEF Optimized
    <3>3. SameObjects(a, h) BY <1>2, <3>2, SameFacts
    <3> QED BY <3>1, <3>3 DEF Optimized
  <2>7. h \in Memory BY <2>6 DEF MemOK
  <2>8. R(z, q) = [mem |-> h, done |-> done, opt |-> opt] BY DEF h, done, opt
  <2> HIDE DEF R
  <2>9. R(z, q) \in Run /\ R(z, q).mem = h BY <2>5, <2>7, <2>8 DEF Run
  <2> QED BY <2>6, <2>9 DEF Optimized
<1> HIDE DEF b
<1> SUFFICES b \in Run /\ Optimized(a, b.mem) BY DEF b
<1>6. CASE v.done \/ m1.fault # "none"
  <2>1. b = v
    <3> HIDE DEF G
    <3> QED BY <1>1, <1>6
  <2> QED BY <2>1
<1>7. CASE ~(v.done \/ m1.fault # "none") /\ \E x \in ToSet(m1.bundles[c]) : ~m1.rb[x].live
  <2> DEFINE d == Fault(m1, "freed")
  <2>1. b = [v EXCEPT !.mem = d]
    <3> HIDE DEF G, m1
    <3> QED BY <1>1, <1>7
  <2>2. "freed" \in Faults /\ "freed" # "none" BY DEF Faults
  <2>3. MemOK(d) /\ OnLists(m1, d) /\ d.fault = "freed" BY <1>2, <2>2, FaultIs
  <2> HIDE DEF d, m1
  <2>4. SameObjects(a, d) BY <1>2, <2>3, SameFacts
  <2>5. Optimized(a, d) /\ d \in Memory BY <2>2, <2>3, <2>4 DEF Optimized, MemOK
  <2>6. b \in Run /\ b.mem = d BY <2>1, <2>5 DEF Run
  <2> QED BY <2>5, <2>6
<1>8. CASE ~(v.done \/ m1.fault # "none") /\ ~\E x \in ToSet(m1.bundles[c]) : ~m1.rb[x].live
  <2>1. b = CHOOSE y \in {G(q) : q \in {s}} : TRUE
    <3> HIDE DEF G, m1, s
    <3> QED BY <1>1, <1>8
  <2>2. b = G(s)
    <3>1. {G(q) : q \in {s}} = {G(s)} OBVIOUS
    <3> HIDE DEF G, s
    <3> QED BY <2>1, <3>1, OneValue
  <2>3. b = R(w, s)
    <3>1. G(s) = CHOOSE y \in {R(z, s) : z \in {w}} : TRUE OBVIOUS
    <3>2. {R(z, s) : z \in {w}} = {R(w, s)} OBVIOUS
    <3> HIDE DEF G, R, s, w
    <3> QED BY <2>2, <3>1, <3>2, OneValue
  <2>4. Optimized(m1, w)
    <3>1. s \in Seq(Nat) /\ \A i \in DOMAIN s : s[i] \in ToSet(m1.bundles[c]) BY <1>2, PoptIs
    <3>2. ToSet(m1.bundles[c]) \subseteq DOMAIN m1.rb BY <1>2 DEF MemOK
    <3> HIDE DEF s, m1
    <3>3. \A i \in DOMAIN s : s[i] \in DOMAIN m1.rb /\ m1.rb[s[i]].live BY <1>8, <3>1, <3>2
    <3>4. m1.fault = "none" BY <1>8
    <3> QED BY <1>2, <3>1, <3>3, <3>4, OptimizingIs
  <2> HIDE DEF w, s, R, G, m1
  <2> QED BY <1>5, <2>3, <2>4
<1> QED BY <1>6, <1>7, <1>8

\* router_run_optimization
LEMMA RunIs ==
  ASSUME NEW a, MemOK(a), a.fault = "none", Good(a, 0), now \in Nat, NEW fails \in BOOLEAN
  PROVE  LET r == router_run_optimization(a, fails)
         IN  r \in Run /\ Optimized(a, r.mem)
<1> DEFINE K == Contact \ a.over
    k == SetToSeq(K)
    s == StableSort(k, From)
    base == [mem |-> a, done |-> FALSE, opt |-> FALSE]
    out(v, c) == NextContact(v, c, fails)
    every == router_run_optimization(a, fails)
    all == FoldLeft(LAMBDA v, c : out(v, c), base, s)
    A == {v \in Run : Optimized(a, v.mem)}
<1>1. s \in Seq(K)
  <2>1. IsFiniteSet(K)
    <3>1. K \subseteq Contact /\ IsFiniteSet(Contact) BY RoutesAssumption
    <3> QED BY <3>1, FS_Subset
  <2>2. K \subseteq Contact OBVIOUS
  <2> HIDE DEF K
  <2>3. k \in Seq(K) /\ ToSet(k) = K BY <2>1, SetToSeqFacts
  <2> HIDE DEF k
  <2>4. \A x \in ToSet(k) : From[x] \in Int
    <3>1. From \in [Contact -> Nat] BY RoutesAssumption
    <3> QED BY <2>2, <2>3, <3>1
  <2> QED BY <2>3, <2>4, SortIs
<1>2. every = all
  BY ZenonT(30) DEF router_run_optimization, NextContact, OptimizedContact, Popt, Waiting, Optimizing, Sorted, Unsorted
<1> HIDE DEF s, every
<1>n. PICK N \in Nat : N = Len(s) /\ DOMAIN s = 1..N
  <2> HIDE DEF K
  <2> QED BY <1>1
<1>b. base \in A
  <2>1. SameObjects(a, a) BY DEF SameObjects, SameObject, Fixed
  <2>2. Optimized(a, a) /\ a \in Memory BY <2>1 DEF Optimized, MemOK
  <2>3. base \in Run /\ base.mem = a BY <2>2 DEF Run
  <2> QED BY <2>2, <2>3
<1>3. ASSUME NEW v \in A, NEW n \in 1..N PROVE out(v, s[n]) \in A
  <2>1. s[n] \in K
    <3> HIDE DEF K
    <3> QED BY <1>1, <1>n
  <2>2. s[n] \in Contact \ a.over BY <2>1
  <2> QED BY <2>2, NextContactIs
<1> HIDE DEF out
<1> DEFINE op(v, n) == out(v, s[n])
    G == [z \in (1..N) \X A |-> op(z[2], z[1])]
    E(h) == h = [x \in SUBSET (DOMAIN s) |-> IF x = {} THEN base ELSE op(h[x \ {Max(x)}], Max(x))]
    g == CHOOSE h : E(h)
<1>f1. ASSUME NEW n \in 1..N, NEW v \in A PROVE op(v, n) \in A
    BY <1>3
<1>f2. all = g[DOMAIN s] BY DEF all, FoldLeft, MapThenFoldSet
<1> HIDE DEF op, A, all, base
<1>f3. G \in [(1..N) \X A -> A] /\ \A n \in 1..N : \A v \in A : G[<<n, v>>] = op(v, n) BY <1>f1
<1> HIDE DEF G
<1>f4. PICK h : Folds(h, N, A, base, G) BY <1>n, <1>b, <1>f3, FoldThere
<1>f5. E(h) BY <1>n, <1>f3, <1>f4 DEF Folds
<1>f6. E(g) BY <1>f5, Zenon DEF g
<1> HIDE DEF g
<1>f7. FoldOf(g, N, A, base, G) BY <1>n, <1>f3, <1>f6, Zenon DEF FoldOf, E
<1> HIDE DEF E
<1>f8. all \in A BY <1>n, <1>b, <1>f2, <1>f3, <1>f7, FoldIn
<1>6. all \in A BY <1>f8
<1> QED BY <1>2, <1>6 DEF A, every

\* ---- What the other tasks do to the memory
\* The bitrate of a contact with its capacities.
SetCapacity(a, c, r, t, l) == [a EXCEPT !.rate[c] = r, !.total[c] = t, !.left[c] = l]

\* recalculate_contact_capacity: the total and what is left of it change by
\* the same amount.
LEMMA RecalculatedIs ==
  ASSUME NEW a, MemOK(a), NEW c \in Contact, NEW r \in Nat
  PROVE  LET b == recalculate_contact_capacity(a, c, r)
         IN  /\ MemOK(b) /\ b.handed = a.handed /\ b.over = a.over /\ b.fault = a.fault
             /\ \A p : Good(a, p) => Good(b, p)
<1> DEFINE t == Total(c, r)
    l == [k \in Prio |-> a.left[c][k] + t - a.total[c]]
    rate == [a.rate EXCEPT ![c] = r]
    total == [a.total EXCEPT ![c] = t]
    left == [a.left EXCEPT ![c] = l]
    b == recalculate_contact_capacity(a, c, r)
<1>1. b = [a EXCEPT !.rate = rate, !.total = total, !.left = left] BY Zenon DEF recalculate_contact_capacity
<1>2. a \in Memory BY DEF MemOK
<1>3. t \in Nat
  <2>1. From[c] \in Nat /\ To[c] \in Nat /\ From[c] < To[c] BY RoutesAssumption
  <2> DEFINE d == To[c] - From[c]
  <2>2. d \in Nat BY <2>1
  <2>3. t = r * d BY DEF Total
  <2> HIDE DEF d, t
  <2> QED BY <2>2, <2>3
<1> HIDE DEF t
<1>4. a.left[c] \in [Prio -> Int] /\ a.total[c] \in Int BY MemoryIs
<1>5. l \in [Prio -> Int] /\ \A k \in Prio : l[k] = a.left[c][k] + t - a.total[c] BY <1>3, <1>4
<1> HIDE DEF l
<1>6. /\ rate \in [Contact -> Nat] /\ total \in [Contact -> Nat] /\ left \in [Contact -> [Prio -> Int]]
      /\ \A d \in Contact : /\ total[d] = IF d = c THEN t ELSE a.total[d]
                            /\ left[d] = IF d = c THEN l ELSE a.left[d]
  BY <1>3, <1>5, MemoryIs
<1> HIDE DEF b, rate, total, left
<1>7. /\ b \in Memory /\ b.rate = rate /\ b.total = total /\ b.left = left
      /\ b.bundles = a.bundles /\ b.fault = a.fault /\ b.rb = a.rb
      /\ b.store = a.store /\ b.rq = a.rq /\ b.handed = a.handed /\ b.over = a.over
  BY <1>1, <1>2, <1>6 DEF Memory
<1>8. MemOK(b) BY <1>7 DEF MemOK
<1>9. ASSUME NEW p, Good(a, p) PROVE Good(b, p)
  <2>1. ASSUME NEW d \in Contact \ b.over, NEW k \in Prio PROVE b.total[d] - b.left[d][k] = Taken(b, d, k)
    <3>1. a.total[d] - a.left[d][k] = Taken(a, d, k) BY <1>7, <1>9, <2>1 DEF Good, Core, Balanced
    <3>2. Weight(b, k) = Weight(a, k) BY <1>7 DEF Weight
    <3>3. Taken(b, d, k) = Taken(a, d, k) BY <1>7, <3>2 DEF Taken
    <3>4. CASE d = c
      <4> DEFINE u == a.left[c][k]
          v == a.total[c]
      <4>1. u \in Int /\ v \in Int /\ t \in Int BY <1>3, <1>4
      <4>2. b.total[d] = t /\ b.left[d][k] = u + t - v BY <1>5, <1>6, <1>7, <3>4
      <4>3. v - u = Taken(a, d, k) BY <3>1, <3>4
      <4> HIDE DEF u, v
      <4>4. t - (u + t - v) = v - u BY <4>1
      <4> QED BY <3>3, <4>2, <4>3, <4>4
    <3>5. CASE d # c BY <1>6, <1>7, <3>1, <3>3, <3>5
    <3> QED BY <3>4, <3>5
  <2>2. Core(b) BY <1>7, <1>9, <2>1 DEF Good, Core, Balanced
  <2>3. Fits(b, {}) BY <1>7, <1>9 DEF Good, Fits, Listed
  <2>4. Unique(b) /\ Family(b, p) /\ Tiled(b, p) BY <1>7, <1>9 DEF Good, Unique, Only, Family, Tiled
  <2> QED BY <2>2, <2>3, <2>4 DEF Good
<1> QED BY <1>7, <1>8, <1>9 DEF b

\* The list of a contact has been handed over.
HandedOver(a, c) == [a EXCEPT !.handed[c] = @ \o a.bundles[c], !.bundles[c] = <<>>]

\* The entries of the list are now among those handed over.
LEMMA HandedOverIs ==
  ASSUME NEW a, MemOK(a), NEW c \in Contact
  PROVE  LET b == HandedOver(a, c)
         IN  /\ MemOK(b) /\ b.fault = a.fault /\ \A p : Good(a, p) => Good(b, p)
             /\ \A d \in Contact : Len(a.handed[d]) <= Len(b.handed[d])
<1> DEFINE none == <<>>
    s == a.bundles[c]
    h == a.handed[c]
    t == h \o s
    bundles == [a.bundles EXCEPT ![c] = none]
    handed == [a.handed EXCEPT ![c] = t]
    b == HandedOver(a, c)
<1>1. b = [a EXCEPT !.handed = handed, !.bundles = bundles] BY Zenon DEF HandedOver
<1>2. a \in Memory BY DEF MemOK
<1>3. none \in Seq(Nat) /\ ToSet(none) = {} /\ IsInjective(none) BY DEF ToSet, IsInjective
<1>4. s \in Seq(Nat) /\ h \in Seq(Nat) BY MemoryIs
<1>5. ToSet(s) \subseteq DOMAIN a.rb /\ ToSet(h) \subseteq DOMAIN a.rb BY DEF MemOK
<1>e. none = <<>> OBVIOUS
<1>s. s = a.bundles[c] /\ h = a.handed[c] OBVIOUS
<1> HIDE DEF none, s, h
<1>6. t \in Seq(Nat) /\ Len(t) = Len(h) + Len(s) /\ Len(h) \in Nat /\ Len(s) \in Nat BY <1>4
<1>7. ToSet(t) = ToSet(h) \cup ToSet(s) BY <1>4, SetOfConcat
<1>t. t = h \o s OBVIOUS
<1> HIDE DEF t
<1>8. /\ bundles \in [Contact -> Seq(Nat)] /\ handed \in [Contact -> Seq(Nat)]
      /\ \A d \in Contact : /\ bundles[d] = IF d = c THEN none ELSE a.bundles[d]
                            /\ handed[d] = IF d = c THEN t ELSE a.handed[d]
  BY <1>3, <1>6, MemoryIs
<1> HIDE DEF b, bundles, handed
<1>9. /\ b \in Memory /\ b.bundles = bundles /\ b.handed = handed /\ b.rate = a.rate /\ b.total = a.total /\ b.left = a.left
      /\ b.fault = a.fault /\ b.rb = a.rb /\ b.store = a.store /\ b.rq = a.rq /\ b.over = a.over
  BY <1>1, <1>2, <1>8 DEF Memory
<1>10. MemOK(b)
  <2>1. \A d \in Contact : ToSet(b.bundles[d]) \subseteq DOMAIN b.rb /\ ToSet(b.handed[d]) \subseteq DOMAIN b.rb
    BY <1>3, <1>5, <1>7, <1>8, <1>9 DEF MemOK
  <2> QED BY <1>9, <2>1 DEF MemOK
<1>11. \A d \in Contact : Len(a.handed[d]) <= Len(b.handed[d])
  <2> SUFFICES ASSUME NEW d \in Contact PROVE Len(a.handed[d]) <= Len(b.handed[d]) OBVIOUS
  <2>1. Len(a.handed[d]) \in Nat BY MemoryIs
  <2>2. b.handed[d] = IF d = c THEN t ELSE a.handed[d] BY <1>8, <1>9
  <2>3. d = c => a.handed[d] = h BY <1>s
  <2> QED BY <1>6, <2>1, <2>2, <2>3
<1>12. ASSUME NEW p, Good(a, p) PROVE Good(b, p)
  <2>1. \A d \in b.over : b.bundles[d] = <<>>
    <3>1. a.over \subseteq Contact BY MemoryIs
    <3> QED BY <1>e, <1>8, <1>9, <1>12, <3>1 DEF Good, Core
  <2>2. \A d \in Contact : IsInjective(b.bundles[d]) BY <1>3, <1>8, <1>9, <1>12 DEF Good, Core
  <2>3. ASSUME NEW d \in Contact \ b.over, NEW k \in Prio PROVE b.total[d] - b.left[d][k] = Taken(b, d, k)
    <3>1. a.total[d] - a.left[d][k] = Taken(a, d, k) BY <1>9, <1>12, <2>3 DEF Good, Core, Balanced
    <3>2. Weight(b, k) = Weight(a, k) BY <1>9 DEF Weight
    <3>3. CASE d = c
      <4> DEFINE w == Weight(a, k)
          x == SumOf(w, s)
          y == SumOf(w, h)
      <4>1. Weighed(w, s) /\ Weighed(w, h) /\ x \in Int /\ y \in Int BY <1>4, <1>5, WeightInt
      <4>2. SumOf(w, t) = y + x
        <5> HIDE DEF w
        <5> QED BY <1>4, <1>t, <4>1, SumConcat
      <4>3. SumOf(w, none) = 0 BY <1>e, SumEmpty
      <4>4. Taken(a, d, k) = x + y BY <1>s, <3>3 DEF Taken
      <4>5. Taken(b, d, k) = SumOf(w, none) + SumOf(w, t) BY <1>8, <1>9, <3>2, <3>3 DEF Taken
      <4> HIDE DEF w, x, y
      <4>6. Taken(b, d, k) = Taken(a, d, k) BY <4>1, <4>2, <4>3, <4>4, <4>5
      <4> QED BY <1>9, <3>1, <4>6
    <3>4. CASE d # c
      <4>1. Taken(b, d, k) = Taken(a, d, k) BY <1>8, <1>9, <3>2, <3>4 DEF Taken
      <4> QED BY <1>9, <3>1, <4>1
    <3> QED BY <3>3, <3>4
  <2>4. Core(b) BY <2>1, <2>2, <2>3 DEF Core, Balanced
  <2>5. ASSUME NEW x \in DOMAIN b.rb, b.rb[x].live PROVE Listed(b, x)
    <3>1. Listed(a, x) BY <1>9, <1>12, <2>5 DEF Good, Fits
    <3>2. \A d \in Contact : /\ ToSet(b.bundles[d]) \subseteq ToSet(a.bundles[d])
                             /\ ToSet(b.bundles[d]) \cup ToSet(b.handed[d]) = ToSet(a.bundles[d]) \cup ToSet(a.handed[d])
      BY <1>s, <1>3, <1>7, <1>8, <1>9
    <3> QED BY <1>9, <3>1, <3>2 DEF Listed
  <2>6. Fits(b, {}) BY <2>5 DEF Fits
  <2>7. Unique(b) /\ Family(b, p) /\ Tiled(b, p) BY <1>9, <1>12 DEF Good, Unique, Only, Family, Tiled
  <2> QED BY <2>4, <2>6, <2>7 DEF Good
<1> QED BY <1>9, <1>10, <1>11, <1>12 DEF b

\* One more report of a TX task.
Reported(a, x) == [a EXCEPT !.rb[x].serialized = @ + 1, !.rq = Append(@, [type |-> "transmission", rb |-> x])]

\* The object counts the reports; where it is routed does not change.
LEMMA ReportedIs ==
  ASSUME NEW a, MemOK(a), NEW x \in DOMAIN a.rb
  PROVE  LET b == Reported(a, x)
         IN  /\ MemOK(b) /\ b.fault = a.fault /\ b.handed = a.handed
             /\ \A p : Good(a, p) => Good(b, p)
<1> DEFINE r == [a.rb[x] EXCEPT !.serialized = @ + 1]
    s == [type |-> "transmission", rb |-> x]
    d == SetObject(a, x, r)
    b == Signalled(d, s)
<1>1. Reported(a, x) = b BY Zenon DEF Reported, Signalled, SetObject
<1>2. a.rb[x] \in RoutedBundle /\ ObjectOK(a, a.rb[x]) /\ x \in Nat BY ObjectIs
<1>3. /\ r \in RoutedBundle /\ r.live = a.rb[x].live /\ r.id = a.rb[x].id /\ r.contacts = a.rb[x].contacts
      /\ r.prio = a.rb[x].prio /\ r.size = a.rb[x].size
  BY <1>2 DEF RoutedBundle
<1> HIDE DEF r
<1>4. ObjectOK(a, r) BY <1>2, <1>3 DEF ObjectOK
<1>5. /\ MemOK(d) /\ Fixed(a, d) /\ d.fault = a.fault /\ d.rq = a.rq /\ d.store = a.store
      /\ d.bundles = a.bundles /\ d.left = a.left
      /\ d.rb = [a.rb EXCEPT ![x] = r] /\ DOMAIN d.rb = DOMAIN a.rb
  BY <1>4, SetObjectIs
<1> HIDE DEF d
<1>6. s \in Signal /\ s.rb \in DOMAIN d.rb BY <1>2, <1>5 DEF Signal
<1> HIDE DEF s
<1>7. /\ MemOK(b) /\ Fixed(d, b) /\ b.fault = d.fault /\ b.rb = d.rb /\ b.store = d.store
      /\ b.bundles = d.bundles /\ b.left = d.left
  BY <1>5, <1>6, SignalledIs
<1> HIDE DEF b
<1>8. /\ Fixed(a, b) /\ b.store = a.store /\ b.bundles = a.bundles /\ b.left = a.left
      /\ DOMAIN b.rb = DOMAIN a.rb
      /\ \A y \in DOMAIN a.rb : /\ b.rb[y].live = a.rb[y].live /\ b.rb[y].id = a.rb[y].id
                                /\ b.rb[y].contacts = a.rb[y].contacts
                                /\ b.rb[y].prio = a.rb[y].prio /\ b.rb[y].size = a.rb[y].size
  <2>1. \A y \in DOMAIN a.rb : b.rb[y] = IF y = x THEN r ELSE a.rb[y] BY <1>5, <1>7
  <2> QED BY <1>3, <1>5, <1>7, <2>1 DEF Fixed
<1>9. ASSUME NEW p, Good(a, p) PROVE Good(b, p)
  <2>1. Core(b)
    <3>1. Core(a) BY <1>9 DEF Good
    <3>2. \A y \in DOMAIN a.rb : y \in DOMAIN b.rb /\ b.rb[y].prio = a.rb[y].prio /\ b.rb[y].size = a.rb[y].size BY <1>8
    <3> QED BY <1>8, <3>1, <3>2, CoreSame
  <2>2. Fits(b, {}) BY <1>8, <1>9 DEF Good, Fits, Listed, Fixed
  <2>3. Unique(b) /\ Family(b, p) /\ Tiled(b, p) BY <1>8, <1>9 DEF Good, Unique, Only, Family, Tiled
  <2> QED BY <2>1, <2>2, <2>3 DEF Good
<1>10. MemOK(b) /\ b.fault = a.fault /\ b.handed = a.handed BY <1>5, <1>7 DEF Fixed
<1> QED BY <1>1, <1>9, <1>10

\* The first signal has left the queue of the router.
Received(a) == [a EXCEPT !.rq = Tail(@)]

\* Nothing else changes.
LEMMA ReceivedIs ==
  ASSUME NEW a, MemOK(a), a.rq # <<>>
  PROVE  LET b == Received(a)
         IN  /\ MemOK(b) /\ b.fault = a.fault /\ b.handed = a.handed
             /\ \A p : Good(a, p) => Good(b, p)
<1> DEFINE rq == Tail(a.rq)
    b == Received(a)
<1>1. b = [a EXCEPT !.rq = rq] BY Zenon DEF Received
<1>2. a \in Memory BY DEF MemOK
<1>3. a.rq \in Seq(Signal) BY MemoryIs
<1>4. rq \in Seq(Signal) /\ \A i \in DOMAIN rq : rq[i].rb \in DOMAIN a.rb
  <2>1. rq \in Seq(Signal) /\ \A i \in DOMAIN rq : i + 1 \in DOMAIN a.rq /\ rq[i] = a.rq[i + 1] BY <1>3
  <2> HIDE DEF rq
  <2> QED BY <2>1 DEF MemOK
<1> HIDE DEF b, rq
<1>5. /\ b \in Memory /\ b.bundles = a.bundles /\ b.left = a.left /\ b.fault = a.fault /\ b.rb = a.rb /\ b.store = a.store
      /\ b.rq = rq /\ b.handed = a.handed /\ b.over = a.over /\ b.rate = a.rate /\ b.total = a.total
  BY <1>1, <1>2, <1>4 DEF Memory
<1>6. MemOK(b) BY <1>4, <1>5 DEF MemOK
<1>7. ASSUME NEW p, Good(a, p) PROVE Good(b, p)
  <2>1. Core(b)
    <3>1. \A k \in Prio : Weight(b, k) = Weight(a, k) BY <1>5 DEF Weight
    <3> QED BY <1>5, <1>7, <3>1 DEF Good, Core, Balanced, Taken
  <2>2. Fits(b, {}) BY <1>5, <1>7 DEF Good, Fits, Listed
  <2>3. Unique(b) /\ Family(b, p) /\ Tiled(b, p) BY <1>5, <1>7 DEF Good, Unique, Only, Family, Tiled
  <2> QED BY <2>1, <2>2, <2>3 DEF Good
<1> QED BY <1>5, <1>6, <1>7 DEF b

\* The last report: the object is freed, its bundle is done.
LastReport(a, x) == [Free(a, x) EXCEPT !.rq = Tail(@), !.store[a.rb[x].id].status = "gone"]

\* The lists and the storage after it.
LEMMA LastReportIs ==
  ASSUME NEW a, MemOK(a), a.rq # <<>>, NEW x \in DOMAIN a.rb, a.rb[x].live
  PROVE  LET b == LastReport(a, x)
         IN  /\ MemOK(b) /\ b.fault = a.fault /\ b.handed = a.handed
             /\ \A p : Good(a, p) => Good(b, p)
<1> DEFINE id == a.rb[x].id
    d == SetStatus(Free(a, x), id, "gone")
    b == Received(d)
    e == LastReport(a, x)
<1>1. a \in Memory BY DEF MemOK
<1>2. MemOK(d) /\ d.rq = a.rq /\ d.fault = a.fault /\ d.handed = a.handed /\ \A p : Good(a, p) => Good(d, p)
  <2>1. "gone" \in {"bp", "gone"} OBVIOUS
  <2> QED BY <2>1, FreedObject
<1>3. e = b BY Zenon DEF LastReport, Received, SetStatus
<1> HIDE DEF d, e
<1>4. MemOK(b) /\ b.fault = d.fault /\ b.handed = d.handed /\ \A p : Good(d, p) => Good(b, p) BY <1>2, ReceivedIs
<1> HIDE DEF b
<1>5. MemOK(b) /\ b.fault = a.fault /\ b.handed = a.handed /\ \A p : Good(a, p) => Good(b, p) BY <1>2, <1>4
<1> QED BY <1>3, <1>5 DEF e

\* ---- The invariant of the tasks
\* After a failed assertion there is no next step: the memory has its type.
MemInv == MemOK(m) /\ (m.fault = "none" => Good(m, 0))
TaskInv == /\ now \in 0..MaxTime /\ opt_sem \in Nat /\ opt_pc \in {"wait", "run", "poll"}
           /\ opt_pc # "wait" => opt_sem > 0
           /\ active \subseteq Contact /\ sent \in [Contact -> Nat]
           /\ \A c \in Contact : sent[c] <= Len(m.handed[c])
Inv == MemInv /\ TaskInv

\* No list has been begun: the capacities are all left, no bundle has an object.
LEMMA BeginIs ==
  ASSUME NEW a, a \in Memory, a.rb = <<>>, a.rq = <<>>,
         \A c \in Contact : a.bundles[c] = <<>> /\ a.handed[c] = <<>>,
         \A c \in Contact, k \in Prio : a.left[c][k] = a.total[c],
         \A i \in DOMAIN a.store : a.store[i].of = 0 /\ a.store[i].status = "bp",
         OnePayloadEach => \A i \in DOMAIN a.store : OnePayload(a.store[i].bundle)
  PROVE  MemOK(a) /\ Good(a, 0)
<1>1. DOMAIN a.rb = {} /\ DOMAIN a.rq = {} /\ ToSet(<<>>) = {} /\ IsInjective(<<>>) BY DEF ToSet, IsInjective
<1>2. MemOK(a) BY <1>1 DEF MemOK
<1>3. ASSUME NEW c \in Contact \ a.over, NEW k \in Prio PROVE a.total[c] - a.left[c][k] = Taken(a, c, k)
  <2>1. Taken(a, c, k) = 0 + 0 BY SumEmpty DEF Taken
  <2>2. a.total[c] \in Int BY <1>2, MemoryIs
  <2> QED BY <2>1, <2>2
<1>4. Core(a)
  <2>1. a.over \subseteq Contact BY <1>2, MemoryIs
  <2> QED BY <1>1, <1>3, <2>1 DEF Core, Balanced
<1>5. Fits(a, {}) BY <1>1 DEF Fits
<1>6. Unique(a) /\ Family(a, 0)
  <2>1. "bp" # "routed" OBVIOUS
  <2> QED BY <1>1, <2>1 DEF Unique, Family
<1>7. Tiled(a, 0)
  <2>1. DOMAIN a.store = 1..Len(a.store) BY <1>2, ObjectIs
  <2>2. "bp" # "replaced" /\ 0 \notin DOMAIN a.store BY <2>1
  <2> QED BY <2>2 DEF Tiled
<1> QED BY <1>2, <1>4, <1>5, <1>6, <1>7 DEF Good

\* The initial states.
LEMMA InitInv == Init => Inv
<1> SUFFICES ASSUME Init PROVE Inv OBVIOUS
<1>1. TaskInv
  <2>1. MaxTime \in Nat BY RoutesAssumption
  <2>2. PICK plan \in Plans : m.handed = [c \in Contact |-> <<>>] BY DEF Init
  <2>3. \A c \in Contact : Len(m.handed[c]) = 0 BY <2>2
  <2>4. now = 0 /\ active = {} /\ sent = [c \in Contact |-> 0] /\ opt_sem = 0 /\ opt_pc = "wait" BY DEF Init
  <2> QED BY <2>1, <2>3, <2>4 DEF TaskInv
<1>2. MemInv
  <2> DEFINE left == [c \in Contact |-> [k \in Prio |-> Total(c, Bitrate[c])]]
      total == [c \in Contact |-> Total(c, Bitrate[c])]
      none == <<>>
      empty == [c \in Contact |-> none]
      entry(e) == [bundle |-> e.bundle, own |-> e.own, dest |-> e.dest, of |-> 0, status |-> "bp"]
      store(plan) == [i \in DOMAIN plan.bundles |-> entry(plan.bundles[i])]
  <2>1. PICK plan \in Plans :
          m = [rate |-> Bitrate, total |-> total, left |-> left, bundles |-> empty, handed |-> empty,
               over |-> Contact \ plan.contacts, rb |-> none, rq |-> none, fault |-> "none", store |-> store(plan)]
    BY Zenon DEF Init
  <2> DEFINE st == store(plan)
      over == Contact \ plan.contacts
  <2>2. total \in [Contact -> Nat] /\ left \in [Contact -> [Prio -> Int]]
        /\ \A c \in Contact : total[c] \in Nat /\ \A k \in Prio : left[c][k] = total[c]
    <3>1. ASSUME NEW c \in Contact PROVE Total(c, Bitrate[c]) \in Nat
      <4> DEFINE d == To[c] - From[c]
          r == Bitrate[c]
      <4>1. d \in Nat /\ r \in Nat
        <5>1. From[c] \in Nat /\ To[c] \in Nat /\ Bitrate[c] \in Nat BY Constants
        <5>2. From[c] < To[c] BY RoutesAssumption
        <5> QED BY <5>1, <5>2
      <4>2. Total(c, r) = r * d BY DEF Total
      <4> HIDE DEF d, r
      <4>3. r * d \in Nat BY <4>1
      <4> QED BY <4>2, <4>3 DEF r
    <3>2. \A c \in Contact : Total(c, Bitrate[c]) \in Nat /\ Total(c, Bitrate[c]) \in Int BY <3>1
    <3> QED BY <3>2
  <2>3. none \in Seq(Nat) /\ none \in Seq(RoutedBundle) /\ none \in Seq(Signal) OBVIOUS
  <2>4. none = <<>> OBVIOUS
  <2>5. st \in Seq(Entry) /\ \A i \in DOMAIN st : st[i].of = 0 /\ st[i].status = "bp" /\ (OnePayloadEach => OnePayload(st[i].bundle))
    <3> DEFINE q == plan.bundles
        S == [bundle : Bundles, own : BOOLEAN, dest : STRING]
        M == Len(q)
    <3>1. plan \in [contacts : SUBSET Contact, bundles : Seq(S)] BY ZenonT(60), RoutesAssumption
    <3>2. ASSUME NEW e \in S PROVE entry(e) \in Entry /\ entry(e).of = 0 /\ entry(e).status = "bp" /\ entry(e).bundle = e.bundle
      BY DEF Entry, Status
    <3>10. OnePayloadEach => \A i \in DOMAIN q : OnePayload(q[i].bundle) BY DEF OnePayloadEach
    <3> HIDE DEF S
    <3>3. q \in Seq(S) BY <3>1
    <3>4. st = [i \in DOMAIN q |-> entry(q[i])] BY Zenon
    <3> HIDE DEF q, st, entry
    <3>5. M \in Nat /\ DOMAIN q = 1..M /\ \A i \in 1..M : q[i] \in S BY <3>3
    <3> HIDE DEF M
    <3>6. \A i \in 1..M : entry(q[i]) \in Entry BY <3>2, <3>5
    <3>7. st = [i \in 1..M |-> entry(q[i])] BY <3>4, <3>5
    <3>8. st \in Seq(Entry) /\ DOMAIN st = 1..M BY <3>5, <3>6, <3>7
    <3>9. \A i \in 1..M : st[i] = entry(q[i]) BY <3>7
    <3> QED BY <3>2, <3>5, <3>8, <3>9, <3>10
  <2> HIDE DEF left, total, none, st
  <2>6. empty \in [Contact -> Seq(Nat)] /\ \A c \in Contact : empty[c] = none BY <2>3
  <2>7. "none" \in Faults BY DEF Faults
  <2>8. over \in SUBSET Contact OBVIOUS
  <2>9. Bitrate \in [Contact -> Nat] BY Constants
  <2> HIDE DEF empty, over
  <2>10. m = [rate |-> Bitrate, total |-> total, left |-> left, bundles |-> empty, handed |-> empty,
              over |-> over, rb |-> none, rq |-> none, fault |-> "none", store |-> st]
    BY <2>1, Zenon DEF st, over
  <2>11. m \in Memory BY <2>2, <2>3, <2>5, <2>6, <2>7, <2>8, <2>9, <2>10 DEF Memory
  <2>12. /\ m.total = total /\ m.left = left /\ m.bundles = empty /\ m.handed = empty /\ m.rb = none /\ m.rq = none
         /\ m.store = st /\ m.fault = "none" BY <2>10
  <2>13. MemOK(m) /\ Good(m, 0)
    <3>1. m.rb = <<>> /\ m.rq = <<>> BY <2>4, <2>12
    <3>2. \A c \in Contact : m.bundles[c] = <<>> /\ m.handed[c] = <<>> BY <2>4, <2>6, <2>12
    <3>3. \A c \in Contact, k \in Prio : m.left[c][k] = m.total[c] BY <2>2, <2>12
    <3>4. \A i \in DOMAIN m.store : m.store[i].of = 0 /\ m.store[i].status = "bp" BY <2>5, <2>12
    <3>5. OnePayloadEach => \A i \in DOMAIN m.store : OnePayload(m.store[i].bundle) BY <2>5, <2>12
    <3> QED BY <2>11, <3>1, <3>2, <3>3, <3>4, <3>5, BeginIs
  <2> QED BY <2>13 DEF MemInv
<1> QED BY <1>1, <1>2 DEF Inv

\* ROUTER_SIGNAL_ROUTE_BUNDLE
LEMMA RouteBundleInv == Inv /\ RouteBundle => Inv'
<1> SUFFICES ASSUME Inv, RouteBundle PROVE Inv' OBVIOUS
<1>1. MemOK(m) /\ Good(m, 0) /\ now \in Nat
  <2>1. MaxTime \in Nat BY RoutesAssumption
  <2> QED BY <2>1 DEF RouteBundle, Running, Inv, MemInv, TaskInv
<1>2. PICK id \in DOMAIN m.store : /\ m.store[id].status = "bp"
        /\ \E routes \in {router_get_first_route(m, m.store[id])} :
           \E fails \in 0..(IF events < MaxEvents THEN Len(routes) ELSE 0) :
             m' = process_bundle(m, id, routes, fails)
  BY DEF RouteBundle
<1> DEFINE routes == router_get_first_route(m, m.store[id])
<1>3. PICK fails \in 0..(IF events < MaxEvents THEN Len(routes) ELSE 0) : m' = process_bundle(m, id, routes, fails) BY <1>2
<1>4. routes \in Seq(GoodRoute)
  <2>1. m.store[id] \in Entry BY <1>1, ObjectIs
  <2> QED BY <1>1, <2>1, FirstRouteIs
<1> HIDE DEF routes
<1>5. fails \in 0..Len(routes)
  <2>1. Len(routes) \in Nat BY <1>4
  <2> QED BY <1>3, <2>1
<1>6. Done(m, m') BY <1>1, <1>2, <1>3, <1>4, <1>5, ProcessIs
<1>7. MemInv' BY <1>6 DEF Done, MemInv
<1>8. TaskInv' BY <1>6 DEF Done, Inv, TaskInv, RouteBundle
<1> QED BY <1>7, <1>8 DEF Inv

\* ROUTER_SIGNAL_PROCESS_COMMAND
LEMMA UpdateBitrateInv == Inv /\ UpdateBitrate => Inv'
<1> SUFFICES ASSUME Inv, UpdateBitrate PROVE Inv' OBVIOUS
<1>1. MemOK(m) /\ Good(m, 0) /\ m.fault = "none" BY DEF UpdateBitrate, Running, Inv, MemInv
<1>2. PICK u \in Updates : m' = With(recalculate_contact_capacity(m, u[1], u[2]), LAMBDA a :
                                  IF a.left[u[1]][0] < 0 THEN reschedule_bundles(a, u[1]) ELSE a)
  BY DEF UpdateBitrate
<1>3. u[1] \in Contact /\ u[2] \in Nat
  <2>1. Updates \subseteq Contact \X Nat BY RoutesAssumption
  <2> QED BY <2>1
<1> DEFINE c == u[1]
    a == recalculate_contact_capacity(m, c, u[2])
    F(b) == IF b.left[c][0] < 0 THEN reschedule_bundles(b, c) ELSE b
<1>4. MemOK(a) /\ a.handed = m.handed /\ a.fault = m.fault /\ \A p : Good(m, p) => Good(a, p)
  BY <1>1, <1>3, RecalculatedIs
<1>5. m' = CHOOSE z \in {F(w) : w \in {a}} : TRUE BY <1>2, Zenon DEF With
<1> HIDE DEF a
<1>6. Kept(a, F(a))
  <2>1. Kept(a, reschedule_bundles(a, c)) BY <1>3, <1>4, RescheduleIs
  <2>2. Kept(a, a) BY <1>4, KeptRules
  <2> QED BY <2>1, <2>2
<1> HIDE DEF F
<1>7. m' = F(a)
  <2>1. {F(w) : w \in {a}} = {F(a)} OBVIOUS
  <2> QED BY <1>5, <2>1, OneValue
<1>8. MemOK(m') /\ m'.handed = m.handed /\ (m'.fault = "none" => Good(m', 0)) BY <1>1, <1>4, <1>6, <1>7 DEF Kept
<1>9. MemInv' BY <1>8 DEF MemInv
<1>10. opt_sem' = opt_sem + 1 /\ UNCHANGED <<now, active, sent, opt_pc>> BY DEF UpdateBitrate
<1>11. TaskInv' BY <1>8, <1>10 DEF Inv, TaskInv
<1> QED BY <1>9, <1>11 DEF Inv

\* A list is handed over.
LEMMA HandOverInv == Inv /\ hand_over_contact_bundles => Inv'
<1> SUFFICES ASSUME Inv, hand_over_contact_bundles PROVE Inv' OBVIOUS
<1>1. MemOK(m) /\ Good(m, 0) BY DEF hand_over_contact_bundles, Running, Inv, MemInv
<1>2. PICK c \in active : m' = HandedOver(m, c) BY Zenon DEF hand_over_contact_bundles, HandedOver
<1>3. c \in Contact BY DEF Inv, TaskInv
<1>4. MemOK(m') /\ Good(m', 0) /\ \A d \in Contact : Len(m.handed[d]) <= Len(m'.handed[d]) BY <1>1, <1>2, <1>3, HandedOverIs
<1>5. MemInv' BY <1>4 DEF MemInv
<1>6. \A d \in Contact : sent[d] <= Len(m'.handed[d])
  <2> SUFFICES ASSUME NEW d \in Contact PROVE sent[d] <= Len(m'.handed[d]) OBVIOUS
  <2>1. Len(m.handed[d]) \in Nat BY <1>1, MemoryIs
  <2>2. Len(m'.handed[d]) \in Nat BY <1>4, MemoryIs
  <2>3. sent[d] \in Nat /\ sent[d] <= Len(m.handed[d]) BY DEF Inv, TaskInv
  <2> DEFINE u == Len(m.handed[d])
      v == Len(m'.handed[d])
  <2>4. u \in Nat /\ v \in Nat /\ u <= v /\ sent[d] <= u BY <1>4, <2>1, <2>2, <2>3
  <2> HIDE DEF u
  <2>5. sent[d] <= v
    <3> HIDE DEF v
    <3> QED BY <2>3, <2>4
  <2> QED BY <2>5
<1>7. TaskInv' BY <1>6 DEF Inv, TaskInv, hand_over_contact_bundles
<1> QED BY <1>5, <1>7 DEF Inv

\* A TX task reports what it sent.
LEMMA TxTaskInv == Inv /\ TxTask => Inv'
<1> SUFFICES ASSUME Inv, TxTask PROVE Inv' OBVIOUS
<1>1. MemOK(m) /\ Good(m, 0) /\ m.fault = "none" BY DEF TxTask, Running, Inv, MemInv
<1>2. PICK c \in Contact :
        /\ sent[c] < Len(m.handed[c]) /\ sent' = [sent EXCEPT ![c] = @ + 1]
        /\ \E x \in {m.handed[c][sent[c] + 1]} :
             m' = IF ~m.rb[x].live THEN Fault(m, "freed") ELSE Reported(m, x)
  BY Zenon DEF TxTask, Reported
<1> DEFINE x == m.handed[c][sent[c] + 1]
<1>3. m' = IF ~m.rb[x].live THEN Fault(m, "freed") ELSE Reported(m, x) BY <1>2
<1>4. m.handed[c] \in Seq(Nat) /\ sent[c] \in Nat /\ sent \in [Contact -> Nat] BY <1>1, MemoryIs DEF Inv, TaskInv
<1>5. x \in DOMAIN m.rb
  <2>1. sent[c] + 1 \in DOMAIN m.handed[c] BY <1>2, <1>4
  <2>2. x \in ToSet(m.handed[c]) BY <2>1 DEF ToSet
  <2> QED BY <1>1, <2>2 DEF MemOK
<1> HIDE DEF x
<1>6. MemOK(m') /\ m'.handed = m.handed /\ (m'.fault = "none" => Good(m', 0))
  <2>1. CASE m.rb[x].live BY <1>1, <1>3, <1>5, <2>1, ReportedIs
  <2>2. CASE ~m.rb[x].live
    <3>1. Kept(m, Fault(m, "freed")) BY <1>1, KeptRules
    <3> QED BY <1>1, <1>3, <2>2, <3>1 DEF Kept
  <2> QED BY <2>1, <2>2
<1>7. MemInv' BY <1>6 DEF MemInv
<1>8. sent' \in [Contact -> Nat] /\ \A d \in Contact : sent'[d] <= Len(m.handed[d])
  <2>1. sent' \in [Contact -> Nat] /\ \A d \in Contact : sent'[d] = IF d = c THEN sent[c] + 1 ELSE sent[d] BY <1>2, <1>4
  <2>2. sent[c] + 1 <= Len(m.handed[c]) BY <1>2, <1>4
  <2>3. \A d \in Contact : sent[d] <= Len(m.handed[d]) BY DEF Inv, TaskInv
  <2> QED BY <2>1, <2>2, <2>3
<1>9. TaskInv' BY <1>6, <1>8 DEF Inv, TaskInv, TxTask
<1> QED BY <1>7, <1>9 DEF Inv

\* ROUTER_SIGNAL_TRANSMISSION_SUCCESS, _FAILURE and _OPTIMIZATION_DROP
LEMMA RouterReportInv == Inv /\ RouterReport => Inv'
<1> SUFFICES ASSUME Inv, RouterReport PROVE Inv' OBVIOUS
<1>1. MemOK(m) /\ Good(m, 0) /\ m.fault = "none" /\ m.rq # <<>> BY DEF RouterReport, Running, Inv, MemInv
<1> DEFINE x == Head(m.rq).rb
    last == LastReport(m, x)
    p == ~m.rb[x].live
    q == Head(m.rq).type = "optimization_drop" \/ m.rb[x].serialized = Len(m.rb[x].contacts)
<1>2. m' = IF p THEN Fault(m, "freed") ELSE IF q THEN last ELSE Received(m)
  <2>1. \E s \in {Head(m.rq)} : \E rb \in {m.rb[s.rb]} :
       m' = IF ~rb.live THEN Fault(m, "freed")
            ELSE IF s.type = "optimization_drop" \/ rb.serialized = Len(rb.contacts)
            THEN [Free(m, s.rb) EXCEPT !.rq = Tail(@), !.store[rb.id].status = "gone"]
            ELSE [m EXCEPT !.rq = Tail(@)]
    BY Zenon DEF RouterReport
  <2> QED BY <2>1, Zenon DEF Received, LastReport
<1>3. x \in DOMAIN m.rb
  <2>1. m.rq \in Seq(Signal) BY <1>1, MemoryIs
  <2>2. 1 \in DOMAIN m.rq /\ Head(m.rq) = m.rq[1] BY <1>1, <2>1
  <2> QED BY <1>1, <2>2 DEF MemOK
<1> HIDE DEF x, q
<1>4. MemOK(m') /\ m'.handed = m.handed /\ (m'.fault = "none" => Good(m', 0))
  <2>1. CASE p
    <3>1. Kept(m, Fault(m, "freed")) BY <1>1, KeptRules
    <3> QED BY <1>1, <1>2, <2>1, <3>1 DEF Kept
  <2>2. CASE ~p /\ q
    <3>1. MemOK(last) /\ last.handed = m.handed /\ Good(last, 0) BY <1>1, <1>3, <2>2, LastReportIs
    <3>2. m' = last BY <1>2, <2>2
    <3> HIDE DEF last
    <3> QED BY <3>1, <3>2
  <2>3. CASE ~p /\ ~q
    <3>1. MemOK(Received(m)) /\ Received(m).handed = m.handed /\ Good(Received(m), 0) BY <1>1, ReceivedIs
    <3> QED BY <1>2, <2>3, <3>1
  <2> QED BY <2>1, <2>2, <2>3
<1>5. MemInv' BY <1>4 DEF MemInv
<1>6. TaskInv' BY <1>4 DEF Inv, TaskInv, RouterReport, bounds
<1> QED BY <1>5, <1>6 DEF Inv

\* ROUTER_SIGNAL_CONTACT_OVER
LEMMA EndContactInv == Inv /\ EndContact => Inv'
<1> SUFFICES ASSUME Inv, EndContact PROVE Inv' OBVIOUS
<1>1. MemOK(m) /\ Good(m, 0) BY DEF EndContact, Running, Inv, MemInv
<1>2. PICK c \in active : active' = active \ {c} /\ m' = routing_table_contact_passed(m, c) BY DEF EndContact
<1>3. c \in Contact BY DEF Inv, TaskInv
<1>4. MemOK(m') /\ m'.handed = m.handed /\ (m'.fault = "none" => Good(m', 0)) BY <1>1, <1>2, <1>3, PassedIs
<1>5. MemInv' BY <1>4 DEF MemInv
<1>6. TaskInv' BY <1>2, <1>4 DEF Inv, TaskInv, EndContact
<1> QED BY <1>5, <1>6 DEF Inv

\* The optimizer: its check, its run, its semaphore.
LEMMA OptimizerInv == Inv /\ (OptimizerCheck \/ OptimizerRun \/ OptimizerPoll) => Inv'
<1> SUFFICES ASSUME Inv, OptimizerCheck \/ OptimizerRun \/ OptimizerPoll PROVE Inv' OBVIOUS
<1>1. CASE OptimizerCheck BY <1>1 DEF OptimizerCheck, Inv, MemInv, TaskInv
<1>2. CASE OptimizerPoll BY <1>2 DEF OptimizerPoll, Inv, MemInv, TaskInv
<1>3. CASE OptimizerRun
  <2>1. MemOK(m) /\ Good(m, 0) /\ m.fault = "none" /\ now \in Nat
    <3>1. MaxTime \in Nat BY RoutesAssumption
    <3> QED BY <1>3, <3>1 DEF OptimizerRun, Running, Inv, MemInv, TaskInv
  <2>2. PICK fails \in BOOLEAN : \E r \in {router_run_optimization(m, fails)} :
          m' = r.mem /\ opt_pc' = IF r.opt THEN "wait" ELSE "poll"
    BY <1>3 DEF OptimizerRun
  <2> DEFINE r == router_run_optimization(m, fails)
  <2>3. m' = r.mem /\ opt_pc' \in {"wait", "poll"} BY <2>2
  <2>4. Optimized(m, r.mem) BY <2>1, RunIs
  <2> HIDE DEF r
  <2>5. MemOK(m') /\ m'.handed = m.handed /\ (m'.fault = "none" => Good(m', 0)) BY <2>3, <2>4 DEF Optimized, SameObjects, Fixed
  <2>6. MemInv' BY <2>5 DEF MemInv
  <2>7. opt_sem > 0 BY <1>3 DEF OptimizerRun, Inv, TaskInv
  <2>8. TaskInv' BY <1>3, <2>3, <2>5, <2>7 DEF Inv, TaskInv, OptimizerRun
  <2> QED BY <2>6, <2>8 DEF Inv
<1> QED BY <1>1, <1>2, <1>3

\* Every step of every task.
LEMMA NextInv == Inv /\ [Next]_vars => Inv'
<1> SUFFICES ASSUME Inv, [Next]_vars PROVE Inv' OBVIOUS
<1>1. CASE StartContact BY <1>1 DEF StartContact, Inv, MemInv, TaskInv
<1>2. CASE Tick
  <2>1. MaxTime \in Nat BY RoutesAssumption
  <2> QED BY <1>2, <2>1 DEF Tick, Inv, MemInv, TaskInv
<1>3. CASE UNCHANGED vars BY <1>3 DEF vars, Inv, MemInv, TaskInv
<1> QED BY <1>1, <1>2, <1>3, RouteBundleInv, UpdateBitrateInv, HandOverInv, TxTaskInv, RouterReportInv, EndContactInv,
           OptimizerInv DEF Next

\* The invariant of every behaviour.
LEMMA SpecInv == Spec => []Inv
<1>1. Inv /\ [Next]_vars => Inv' BY NextInv
<1> QED BY <1>1, InitInv, PTL DEF Spec

\* ---- What the invariant says of the properties
\* The size of what is on a list is the sum of the weights.
LEMMA SizeIs ==
  ASSUME MemOK(m), NEW s \in Seq(Nat), ToSet(s) \subseteq DOMAIN m.rb, NEW k \in Prio
  PROVE  Size(s, k) = SumOf(Weight(m, k), s)
<1> DEFINE w == Weight(m, k)
    A == Int
    item(n) == IF m.rb[s[n]].prio >= k THEN m.rb[s[n]].size ELSE 0
<1>n. PICK N \in Nat : N = Len(s) /\ DOMAIN s = 1..N OBVIOUS
<1>0. Weighed(w, s) BY WeightInt
<1>1. PICK f \in [0..Len(s) -> Int] : Sums(f, w, s) /\ f[Len(s)] = SumOf(w, s)
  <2> HIDE DEF w
  <2> QED BY <1>0, SumFacts
<1>2. \A n \in 1..N : s[n] \in DOMAIN m.rb BY <1>n DEF ToSet
<1>3. \A n \in 1..N : w[s[n]] \in Int /\ w[s[n]] = item(n)
  <2>1. \A n \in 1..N : w[s[n]] = IF m.rb[s[n]].prio >= k THEN m.rb[s[n]].size ELSE 0 BY <1>2 DEF Weight
  <2> HIDE DEF w
  <2> QED BY <1>0, <1>n, <2>1 DEF Weighed
<1>4. f[0] = 0 /\ \A n \in 1..N : f[n] = f[n - 1] + w[s[n]] BY <1>1, <1>n DEF Sums
<1> HIDE DEF w, item
<1>b. 0 \in A OBVIOUS
<1> DEFINE P == [n \in Nat |-> {f[n]}]
<1> DEFINE op(v, n) == v + item(n)
    G == [z \in (1..N) \X A |-> op(z[2], z[1])]
    E(h) == h = [x \in SUBSET (DOMAIN s) |-> IF x = {} THEN 0 ELSE op(h[x \ {Max(x)}], Max(x))]
    g == CHOOSE h : E(h)
<1>f1. ASSUME NEW n \in 1..N, NEW v \in A PROVE op(v, n) \in A
    BY <1>3
<1>f2. Size(s, k) = g[DOMAIN s] BY DEF Size, item, FoldLeft, MapThenFoldSet
<1> HIDE DEF op, A, item
<1>f3. G \in [(1..N) \X A -> A] /\ \A n \in 1..N : \A v \in A : G[<<n, v>>] = op(v, n) BY <1>f1
<1> HIDE DEF G
<1>f4. PICK h : Folds(h, N, A, 0, G) BY <1>n, <1>b, <1>f3, FoldThere
<1>f5. E(h) BY <1>n, <1>f3, <1>f4 DEF Folds
<1>f6. E(g) BY <1>f5, Zenon DEF g
<1> HIDE DEF g
<1>f7. FoldOf(g, N, A, 0, G) BY <1>n, <1>f3, <1>f6, Zenon DEF FoldOf, E
<1> HIDE DEF E
<1>f8. 0 \in P[0] /\ \A n \in 1..N : \A v \in A : v \in P[n - 1] => G[<<n, v>>] \in P[n]
  <2>1. 0 \in P[0]
    <3> QED BY <1>4
  <2>2. ASSUME NEW n \in 1..N, NEW v \in A, v \in P[n - 1] PROVE op(v, n) \in P[n]
    <3>1. v = f[n - 1] BY <2>2
    <3>2. op(v, n) = f[n] BY <1>3, <1>4, <3>1 DEF op
    <3> QED BY <1>n, <3>2
  <2> HIDE DEF P
  <2> QED BY <1>f3, <2>1, <2>2
<1> HIDE DEF P
<1>f9. Leads(N, A, 0, G, P) BY <1>b, <1>f3, <1>f8 DEF Leads
<1>f10. Size(s, k) \in A /\ Size(s, k) \in P[N] BY <1>n, <1>f2, <1>f7, <1>f9, FoldEnds
<1> QED BY <1>n, <1>1, <1>f10 DEF P, w

\* The invariant implies the properties that the runs check.
LEMMA InvTypeOK == Inv => TypeOK
<1> SUFFICES ASSUME Inv PROVE TypeOK OBVIOUS
<1>1. MemOK(m) BY DEF Inv, MemInv
<1>2. /\ now \in 0..MaxTime /\ opt_sem \in Nat /\ opt_pc \in {"wait", "run", "poll"} /\ active \subseteq Contact
      /\ \A c \in Contact : sent[c] \in 0..Len(m.handed[c])
  <2>1. \A c \in Contact : sent[c] \in Nat /\ sent[c] <= Len(m.handed[c]) BY DEF Inv, TaskInv
  <2>2. \A c \in Contact : Len(m.handed[c]) \in Nat BY <1>1, MemoryIs
  <2>3. \A c \in Contact : sent[c] \in 0..Len(m.handed[c]) BY <2>1, <2>2
  <2> QED BY <2>3 DEF Inv, TaskInv
<1>3. m.over \subseteq Contact /\ m.total \in [Contact -> Nat] /\ m.left \in [Contact -> [Prio -> Int]] BY <1>1, MemoryIs
<1>4. \A c \in Contact : \A s \in {m.bundles[c], m.handed[c]} : ToSet(s) \subseteq DOMAIN m.rb BY <1>1 DEF MemOK
<1>5. \A x \in DOMAIN m.rb : /\ Len(m.rb[x].contacts) <= MaxContacts /\ ToSet(m.rb[x].contacts) \subseteq Contact
                             /\ m.rb[x].id \in DOMAIN m.store
  <2>1. ASSUME NEW x \in DOMAIN m.rb PROVE ToSet(m.rb[x].contacts) \subseteq Contact
    <3>1. m.rb[x].contacts \in Seq(Contact) BY <1>1, ObjectIs DEF RoutedBundle
    <3> QED BY <3>1 DEF ToSet
  <2> QED BY <1>1, <2>1 DEF MemOK
<1>6. \A i \in DOMAIN m.store : m.store[i].status \in {"bp", "routed", "replaced", "refused", "lost", "gone"}
  <2>1. \A i \in DOMAIN m.store : m.store[i] \in Entry BY <1>1, ObjectIs
  <2> QED BY <2>1 DEF Entry, Status
<1> QED BY <1>2, <1>3, <1>4, <1>5, <1>6 DEF TypeOK

\* Balanced, with the list and what was handed over as one sequence.
LEMMA InvBalance == Inv => CapacityBalance
<1> SUFFICES ASSUME Inv, Running PROVE \A c \in Contact \ m.over, k \in Prio :
      m.total[c] - m.left[c][k] = Size(m.bundles[c] \o m.handed[c], k) BY DEF CapacityBalance
<1>1. MemOK(m) /\ Balanced(m) BY DEF Inv, MemInv, Running, Good, Core
<1> SUFFICES ASSUME NEW c \in Contact \ m.over, NEW k \in Prio
             PROVE m.total[c] - m.left[c][k] = Size(m.bundles[c] \o m.handed[c], k) OBVIOUS
<1> DEFINE s == m.bundles[c]
    t == m.handed[c]
    u == s \o t
    w == Weight(m, k)
<1>2. s \in Seq(Nat) /\ t \in Seq(Nat) BY <1>1, MemoryIs
<1>3. ToSet(s) \subseteq DOMAIN m.rb /\ ToSet(t) \subseteq DOMAIN m.rb BY <1>1 DEF MemOK
<1>4. m.total[c] - m.left[c][k] = SumOf(w, s) + SumOf(w, t) BY <1>1 DEF Balanced, Taken
<1>5. Weighed(w, s) /\ Weighed(w, t) BY <1>1, <1>2, <1>3, WeightInt
<1> HIDE DEF s, t, w
<1>6. u \in Seq(Nat) BY <1>2
<1>7. ToSet(u) \subseteq DOMAIN m.rb BY <1>2, <1>3, SetOfConcat
<1>8. SumOf(w, u) = SumOf(w, s) + SumOf(w, t) BY <1>2, <1>5, SumConcat
<1> HIDE DEF u
<1>9. Size(u, k) = SumOf(w, u) BY <1>1, <1>6, <1>7, SizeIs DEF w
<1> QED BY <1>4, <1>8, <1>9 DEF u, s, t

\* Fits, with the list and what was handed over as one sequence.
LEMMA InvLists == Inv => ListsMatchRoutes
<1> SUFFICES ASSUME Inv, Running PROVE
    /\ \A c \in Contact : IsInjective(m.bundles[c])
    /\ \A x \in {y \in DOMAIN m.rb : m.rb[y].live} : \A c \in Contact \ m.over :
         /\ c \in ToSet(m.rb[x].contacts) => x \in ToSet(m.bundles[c] \o m.handed[c])
         /\ x \in ToSet(m.bundles[c]) => c \in ToSet(m.rb[x].contacts) BY DEF ListsMatchRoutes
<1>1. MemOK(m) /\ Core(m) /\ Fits(m, {}) BY DEF Inv, MemInv, Running, Good
<1>2. \A c \in Contact : ToSet(m.bundles[c] \o m.handed[c]) = ToSet(m.bundles[c]) \cup ToSet(m.handed[c])
  <2>1. \A c \in Contact : m.bundles[c] \in Seq(Nat) /\ m.handed[c] \in Seq(Nat) BY <1>1, MemoryIs
  <2> QED BY <2>1, SetOfConcat
<1> QED BY <1>1, <1>2 DEF Core, Fits, Listed

\* Unique counts the objects; Family orders bundle and fragments.
LEMMA InvOneRoute == Inv => OneRoute
<1> SUFFICES ASSUME Inv, Running, NEW i \in DOMAIN m.store
             PROVE  LET e == m.store[i]
                    IN  /\ Cardinality({x \in DOMAIN m.rb : m.rb[x].live /\ m.rb[x].id = i})
                             = IF e.status = "routed" THEN 1 ELSE 0
                        /\ e.status = "routed" /\ e.of # 0 => m.store[e.of].status = "replaced"
  BY DEF OneRoute
<1>1. MemOK(m) /\ Unique(m) /\ Family(m, 0) BY DEF Inv, MemInv, Running, Good
<1> DEFINE X == {x \in DOMAIN m.rb : m.rb[x].live /\ m.rb[x].id = i}
<1>2. CASE m.store[i].status = "routed"
  <2>1. PICK x \in DOMAIN m.rb : m.rb[x].live /\ m.rb[x].id = i BY <1>1, <1>2 DEF Unique
  <2>2. Only(m, x) BY <1>1, <2>1 DEF Unique
  <2>3. X = {x} BY <2>1, <2>2 DEF Only
  <2> HIDE DEF X
  <2>4. Cardinality(X) = 1 BY <2>3, FS_Singleton
  <2>5. m.store[i].of # 0 => m.store[m.store[i].of].status = "replaced" BY <1>1, <1>2 DEF Family, Active
  <2> QED BY <1>2, <2>4, <2>5 DEF X
<1>3. CASE m.store[i].status # "routed"
  <2>1. X = {} BY <1>1, <1>3 DEF Unique
  <2> HIDE DEF X
  <2>2. Cardinality(X) = 0 BY <2>1, FS_EmptySet
  <2> QED BY <1>3, <2>2 DEF X
<1> QED BY <1>2, <1>3

\* Tiled says more of each bundle than FragmentsTile.
LEMMA InvTiles == ASSUME OnePayloadEach PROVE Inv => FragmentsTile
<1> SUFFICES ASSUME Inv, Running PROVE \A i \in DOMAIN m.store :
               m.store[i].status = "replaced" => Tile(m.store[i].bundle, FragmentsOf(m.store, i))
  BY DEF FragmentsTile
<1>1. Tiled(m, 0) BY DEF Inv, MemInv, Running, Good
<1> QED BY <1>1 DEF Tiled

\* ---- The theorems
\* Every list, queue and object of the router, its optimizer and the routing
\* table has its type; pointers lead to objects that exist, no object has more
\* than ROUTER_MAX_CONTACTS contacts, no TX task sends more than it was handed.
THEOREM RoutesTypeOK == Spec => []TypeOK
<1>1. Inv => TypeOK BY InvTypeOK
<1> QED BY <1>1, SpecInv, PTL

\* remaining_capacity_p0.._p2 of a contact are its total less what the bundles
\* of this or a higher priority on its list, or handed over, take: for every
\* plan, routing, fragmentation, preemption and command.
THEOREM RoutesCapacityBalance == Spec => []CapacityBalance
<1>1. Inv => CapacityBalance BY InvBalance
<1> QED BY <1>1, SpecInv, PTL

\* rb->contacts of every object and the lists of the contacts agree, also
\* after the optimizer moved objects and commands emptied lists.
THEOREM RoutesListsMatch == Spec => []ListsMatchRoutes
<1>1. Inv => ListsMatchRoutes BY InvLists
<1> QED BY <1>1, SpecInv, PTL

\* One routed_bundle object for a bundle that is routed, none for any other; a
\* fragment is routed only when its bundle has been replaced.
THEOREM RoutesOneRoute == Spec => []OneRoute
<1>1. Inv => OneRoute BY InvOneRoute
<1> QED BY <1>1, SpecInv, PTL

\* bundle6_fragment_bundle and bundle7_fragment_bundle, as often as the routes
\* ask for: the fragments that have replaced a bundle carry its payload without
\* gap or overlap, at the right offsets, with the total length of the original,
\* and each extension block as often as its flags ask for, whatever has been
\* scheduled, freed or taken back since.  Bundles have to have one payload block.
THEOREM RoutesFragmentsTile == ASSUME OnePayloadEach PROVE Spec => []FragmentsTile
<1>1. Inv => FragmentsTile BY InvTiles
<1> QED BY <1>1, SpecInv, PTL
=============================================================================
