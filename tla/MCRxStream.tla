----------------------------- MODULE MCRxStream -----------------------------
(* Small bundles of both versions, two connections. *)
EXTENDS RxStream

Dtn == <<100, 116, 110>>
A == <<97>>
B == <<98, 47, 99>>

\* BPv6: a forwarded bundle with an extension block that names an EID, and a
\* fragment whose payload is larger than the buffer.
B6Plain ==
  [version |-> 6, proc_flags |-> 144, destination |-> <<Dtn, A>>, source |-> <<Dtn, B>>,
   report_to |-> <<Dtn, A>>, current_custodian |-> <<Dtn, B>>,
   creation_timestamp |-> 300, sequence_number |-> 1, lifetime |-> 60000000,
   fragment_offset |-> 0, total_adu_length |-> 0, primary_block_length |-> 0,
   blocks |-> <<[type |-> 5, flags |-> 80, eid_refs |-> <<<<Dtn, A>>>>, data |-> <<6>>],
                [type |-> 1, flags |-> 8, eid_refs |-> <<>>, data |-> <<1, 2, 3>>]>>]

B6Fragment ==
  [B6Plain EXCEPT !.proc_flags = 145, !.sequence_number = 2,
     !.fragment_offset = 200, !.total_adu_length = 228,
     !.blocks = <<[type |-> 1, flags |-> 8, eid_refs |-> <<>>,
                   data |-> [i \in 1..(RxBufferSize + 4) |-> i]]>>]

\* BPv7: checksums of both widths and none, an "ipn" EID, a fragment, and an
\* EID that does not fit into the buffer.  The first payload holds what looks
\* like frames with one byte of a BPv6 bundle.
B7Crc ==
  [version |-> 7, proc_flags |-> 4, crc_type |-> CRC_TYPE_16,
   destination |-> [schema |-> EID_SCHEMA_DTN, ssp |-> A],
   source |-> [schema |-> EID_SCHEMA_IPN, ssp |-> <<1, 12>>],
   report_to |-> [schema |-> EID_SCHEMA_DTN, ssp |-> SspNone],
   creation_timestamp |-> 300, sequence_number |-> 3, lifetime |-> 60,
   fragment_offset |-> 0, total_adu_length |-> 0, primary_block_length |-> 0,
   blocks |-> <<[type |-> 7, number |-> 2, flags |-> 1, crc_type |-> CRC_TYPE_32, data |-> <<5>>],
                [type |-> 1, number |-> 1, flags |-> 0, crc_type |-> CRC_TYPE_NONE,
                 data |-> <<65, 6, 19, 1, 6, 3>>]>>]

B7Fragment ==
  [B7Crc EXCEPT !.proc_flags = 5, !.crc_type = CRC_TYPE_NONE, !.sequence_number = 4,
     !.fragment_offset = 5, !.total_adu_length = 40,
     !.blocks = <<[type |-> 1, number |-> 1, flags |-> 0, crc_type |-> CRC_TYPE_16,
                   data |-> [i \in 1..(RxBufferSize + 4) |-> i]]>>]

B7Long ==
  [B7Fragment EXCEPT !.sequence_number = 5,
     !.destination.ssp = [i \in 1..RxBufferSize |-> 97]]

\* bundle_recalculate_header_length, as for every bundle that is made.
Made(b) ==
  [b EXCEPT !.primary_block_length =
     IF b.version = 6 THEN bundle6_recalculate_header_length(b)
     ELSE bundle7_recalculate_primary_block_length(b)]

MadePlan(p) == [c \in DOMAIN p |-> [i \in DOMAIN p[c] |-> Made(p[c][i])]]

MCPlans ==
  {MadePlan(p) : p \in {<<<<B6Plain, B7Crc>>, <<B6Fragment>>>>,
                        <<<<B7Fragment>>, <<B6Plain>>>>,
                        <<<<B6Fragment, B6Plain>>, <<B7Crc>>>>,
                        <<<<B7Long>>, <<B7Fragment, B7Crc>>>>}}
=============================================================================
