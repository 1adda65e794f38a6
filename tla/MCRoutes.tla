------------------------------ MODULE MCRoutes ------------------------------
(* One or two bundles at a time.  The contacts 1 to 3 are with reliable nodes,
   4 to 6 with nodes that have to be used together, but not all three. *)
EXTENDS Routes

Dtn == <<100, 116, 110>>

\* BPv6, with a block behind the payload that is replicated in fragments.
B6 == [version |-> 6, proc_flags |-> 16, destination |-> <<Dtn, <<97>>>>, source |-> <<Dtn, <<98>>>>,
       report_to |-> <<Dtn, <<97>>>>, current_custodian |-> <<Dtn, <<97>>>>,
       creation_timestamp |-> 300, sequence_number |-> 1, lifetime |-> 60000000,
       fragment_offset |-> 0, total_adu_length |-> 0, primary_block_length |-> 0,
       blocks |-> <<[type |-> 1, flags |-> 0, eid_refs |-> <<>>, data |-> [i \in 1..20 |-> i]],
                    [type |-> 9, flags |-> 9, eid_refs |-> <<>>, data |-> <<9>>]>>]

\* BPv7, with a hop count that is replicated and a block that is not.
B7 == [version |-> 7, proc_flags |-> 0, crc_type |-> CRC_TYPE_16,
       destination |-> [schema |-> EID_SCHEMA_DTN, ssp |-> <<97>>],
       source |-> [schema |-> EID_SCHEMA_IPN, ssp |-> <<1, 12>>],
       report_to |-> [schema |-> EID_SCHEMA_DTN, ssp |-> SspNone],
       creation_timestamp |-> 300, sequence_number |-> 3, lifetime |-> 60,
       fragment_offset |-> 0, total_adu_length |-> 0, primary_block_length |-> 0,
       blocks |-> <<[type |-> 10, number |-> 2, flags |-> 1, crc_type |-> CRC_TYPE_NONE, data |-> <<5>>],
                    [type |-> 7, number |-> 3, flags |-> 0, crc_type |-> CRC_TYPE_NONE, data |-> <<7>>],
                    [type |-> 1, number |-> 1, flags |-> 0, crc_type |-> CRC_TYPE_16,
                     data |-> [i \in 1..60 |-> i]]>>]

Request(b, own, dest) ==
  [bundle |-> bundle_recalculate_header_length(b), own |-> own, dest |-> dest]

Low  == Request(B6, FALSE, "d")
High == Request([B6 EXCEPT !.proc_flags = 272], FALSE, "d")
Large7 == Request(B7, FALSE, "d")
Large6 == Request([B6 EXCEPT !.blocks[1].data = [i \in 1..70 |-> i]], TRUE, "d")
Shared == Request([B6 EXCEPT !.proc_flags = 148], FALSE, "e")

MCPlans == {[contacts |-> {1, 2, 3}, bundles |-> <<Low, High>>],
            [contacts |-> {1, 2, 3}, bundles |-> <<Low, Large7>>],
            [contacts |-> {1, 2}, bundles |-> <<Large6>>],
            [contacts |-> {4, 5}, bundles |-> <<Shared, [Shared EXCEPT !.own = TRUE]>>],
            [contacts |-> {4, 5, 6}, bundles |-> <<[Shared EXCEPT !.dest = "f"]>>]}

\* Contacts are numbered, the functions on them are sequences.
MCFrom        == <<1, 4, 5, 2, 5, 1>>
MCTo          == <<3, 5, 6, 4, 6, 2>>
MCBitrate     == <<50, 110, 120, 45, 140, 90>>
MCReach       == <<{"d"}, {"d"}, {"d"}, {"e", "f"}, {"e", "f"}, {"f"}>>
MCReliability == <<950, 950, 900, 700, 700, 400>>
MCMbs         == <<1000, 1000, 1000, 1000, 1000, 1000>>
MCUpdates     == {<<1, 20>>, <<5, 60>>}

ASSUME OnePayloadInThese == OnePayloadEach
=============================================================================
