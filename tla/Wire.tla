-------------------------------- MODULE Wire --------------------------------
(***************************************************************************)
(* The encodings that bundles and frames are written in: SDNVs             *)
(* (src/components/bundle6/sdnv.c), the CBOR heads that TinyCBOR reads and *)
(* writes for the code, and the checksum.  A byte is a number below 256, a *)
(* buffer is a sequence of bytes.                                          *)
(***************************************************************************)
EXTENDS Integers, Sequences, SequencesExt

CONSTANT Quota    \* BUNDLE_QUOTA, for BPv6 without what the storage uses
ASSUME QuotaAssumption == Quota \in Nat

HAS_FLAG(flags, flag) == (flags \div flag) % 2 = 1

\* The flags of `flags' that are in the set `mask' of single bits.
Masked(flags, mask) == SumSet({f \in mask : HAS_FLAG(flags, f)})

\* f(v) for a value v that is computed once.
With(v, f(_)) == CHOOSE r \in {f(x) : x \in {v}} : TRUE

Bytes(s, from, count) == SubSeq(s, from, from + count - 1)

-----------------------------------------------------------------------------
\* SDNVs: seven bits to a byte, the marker bit set on all but the last.

sdnv_reset == [status |-> "IN_PROGRESS", bytes_parsed |-> 0, value |-> 0]

\* The number of bytes that fit whatever their value, and the largest value
\* that takes one byte more, for an integer of `bits' bits.
sdnv_validate(state, bits) ==
  LET fit == bits \div 7
      top == CASE bits = 8 -> 1 [] bits = 16 -> 511 [] OTHER -> 2^25 - 1
  IN  \/ state.bytes_parsed < fit
      \/ state.bytes_parsed = fit /\ state.value <= top

sdnv_read(state, bits, byte) ==
  IF ~sdnv_validate(state, bits) \/ state.status = "DONE"
  THEN [state EXCEPT !.status = "ERROR"]
  ELSE [status |-> IF byte < 128 THEN "DONE" ELSE state.status,
        bytes_parsed |-> state.bytes_parsed + 1,
        value |-> (byte % 128)
                  + (IF state.bytes_parsed = 0 THEN 0 ELSE 128 * state.value)]

sdnv_get_size(value) ==
  IF value < 2^7 THEN 1 ELSE IF value < 2^14 THEN 2 ELSE IF value < 2^21 THEN 3
  ELSE IF value < 2^28 THEN 4 ELSE 5

sdnv_write(value) ==
  LET n == sdnv_get_size(value)
  IN  [i \in 1..n |-> ((value \div 128^(n - i)) % 128) + (IF i < n THEN 128 ELSE 0)]

-----------------------------------------------------------------------------
\* CBOR.  A value that takes more than three bytes is Huge: longer than any
\* buffer, frame or quota of the model.
Huge == 2^30

CborUint == 0
CborByteString == 2
CborTextString == 3
CborArray == 4
Break == 255

bundle7_cbor_uint_sizeof(num) ==
  IF num < 24 THEN 1 ELSE IF num < 2^8 THEN 2 ELSE IF num < 2^16 THEN 3 ELSE 5

\* cbor_encode_uint, with the major type the code ORs into the first byte.
CborHead(major, num) ==
  LET n == bundle7_cbor_uint_sizeof(num)
  IN  <<32 * major + (CASE n = 1 -> num [] n = 2 -> 24 [] n = 3 -> 25 [] OTHER -> 26)>>
      \o [i \in 1..(n - 1) |-> (num \div 256^(n - 1 - i)) % 256]

BigEndian(bytes) ==
  LET number[k \in 0..Len(bytes)] == IF k = 0 THEN 0 ELSE 256 * number[k - 1] + bytes[k]
  IN  number[Len(bytes)]

\* preparse_value of TinyCBOR at index i of s: the type, the number in the
\* head, the size of the head, and the error: not enough bytes, a break, or
\* additional information that no CBOR value has.
HeadAt(s, i) ==
  LET major == s[i] \div 32
      info  == s[i] % 32
      more  == IF info \in 24..27 THEN <<1, 2, 4, 8>>[info - 23] ELSE 0
      args  == Bytes(s, i + 1, more)
      err   == IF info = 31
               THEN IF major \in 2..5 THEN "none" ELSE IF major = 7 THEN "BREAK" ELSE "ILLEGAL"
               ELSE IF info > 27 THEN "ILLEGAL"
               ELSE IF i + more > Len(s) THEN "EOF" ELSE "none"
  IN  [err   |-> err,
       major |-> major,
       known |-> info # 31,
       size  |-> 1 + more,
       num   |-> IF err # "none" THEN 0
                 ELSE IF more = 0 THEN info
                 ELSE IF \E k \in 1..(more - 3) : args[k] # 0 THEN Huge
                 ELSE BigEndian(args)]

NoHead == [err |-> "EOF", major |-> -1, known |-> FALSE, num |-> 0, size |-> 0]

Preparse(s, i) == IF i > Len(s) THEN NoHead ELSE HeadAt(s, i)

-----------------------------------------------------------------------------
\* A checksum in the place of CRC-16 and CRC-32 (src/components/upcn/crc.c):
\* it depends on every byte and on their order.
CrcInit == 1
CrcFeed(crc, bytes) ==
  LET after[i \in 0..Len(bytes)] == IF i = 0 THEN crc ELSE (31 * after[i - 1] + bytes[i]) % 65521
  IN  after[Len(bytes)]
CrcBytes(crc, n) ==
  [i \in 1..n |-> IF i <= n - 2 THEN 0 ELSE (crc \div 256^(n - i)) % 256]
=============================================================================
