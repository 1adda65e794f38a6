--------------------------- MODULE RxStreamProofs ---------------------------
(***************************************************************************)
(* The RX task takes no more bytes than there are (RxStream): for any size *)
(* of its buffer, any bytes and any way TCP cuts them, a parser consumes   *)
(* what it was given at most, a frame is never read past its end, and the  *)
(* task never calls recv() without room.  What the parsers make of the     *)
(* bytes is left open here; TLC checks it.                                 *)
(***************************************************************************)
EXTENDS RxStream, SeqLemmas

Byte == 0..255

-----------------------------------------------------------------------------
(***************************************************************************)
(* CBOR items                                                              *)
(***************************************************************************)
LEMMA Appended == ASSUME NEW n \in Nat, NEW b \in Byte PROVE 256 * n + b \in Nat
BY DEF Byte

\* The number in the head of an item.
LEMMA NumberNat ==
  ASSUME NEW bytes \in Seq(Byte)
  PROVE  BigEndian(bytes) \in Nat
<1> DEFINE more == Len(bytes)
           G == [x \in (1..more) \X Nat |-> 256 * x[2] + bytes[x[1]]]
           R(g) == g = [k \in 0..more |-> IF k = 0 THEN 0 ELSE 256 * g[k - 1] + bytes[k]]
           number == CHOOSE g : R(g)
<1>0. more \in Nat OBVIOUS
<1>1. G \in [(1..more) \X Nat -> Nat]
  <2>1. ASSUME NEW x \in (1..more) \X Nat PROVE 256 * x[2] + bytes[x[1]] \in Nat
    <3>1. x[2] \in Nat /\ bytes[x[1]] \in Byte OBVIOUS
    <3> QED BY <3>1, Appended
  <2> QED BY <2>1
<1> HIDE DEF more
<1>2. PICK f \in [0..more -> Nat] : IsRun(f, more, 0, G)
  <2> HIDE DEF G
  <2> QED BY <1>0, <1>1, RunExists
<1>3. \A k \in 1..more : f[k] = 256 * f[k - 1] + bytes[k]
  <2> TAKE k \in 1..more
  <2>1. <<k, f[k - 1]>> \in (1..more) \X Nat BY <1>0, <1>2
  <2> QED BY <1>2, <2>1 DEF IsRun
<1>4. R(f)
  <2>1. f[0] = 0 BY <1>2 DEF IsRun
  <2>2. \A k \in 0..more : f[k] = IF k = 0 THEN 0 ELSE 256 * f[k - 1] + bytes[k]
    <3> TAKE k \in 0..more
    <3>1. k = 0 \/ k \in 1..more BY <1>0
    <3> QED BY <1>3, <2>1, <3>1
  <2> QED BY <1>2, <2>2
<1>5. R(number)
  <2> HIDE DEF R
  <2> QED BY <1>4
<1>6. BigEndian(bytes) = number[more] BY DEF BigEndian, more
<1> HIDE DEF number
<1>7. \A k \in 0..more : number[k] = IF k = 0 THEN 0 ELSE 256 * number[k - 1] + bytes[k]
  BY <1>5
<1> DEFINE T == {k \in Nat : k <= more => number[k] \in Nat}
<1>8. 0 \in T
  <2>1. 0 \in 0..more BY <1>0
  <2>2. number[0] = 0 BY <1>7, <2>1
  <2> QED BY <2>2
<1>9. ASSUME NEW k \in Nat, k \in T PROVE k + 1 \in T
  <2> SUFFICES ASSUME k + 1 <= more PROVE number[k + 1] \in Nat OBVIOUS
  <2>1. k <= more BY <1>0
  <2>2. number[k] \in Nat BY <1>9, <2>1
  <2>3. k + 1 \in 0..more /\ k + 1 # 0 /\ (k + 1) - 1 = k BY <1>0
  <2>4. number[k + 1] = 256 * number[k] + bytes[k + 1] BY <1>7, <2>3
  <2>5. bytes[k + 1] \in Byte BY <1>0, <2>3 DEF more
  <2> QED BY <2>2, <2>4, <2>5, Appended
<1>10. Nat \subseteq T
  <2> HIDE DEF T
  <2> QED BY <1>8, <1>9, NatSet
<1> QED BY <1>0, <1>6, <1>10

\* Bytes copies n bytes that are there.
LEMMA SliceFacts ==
  ASSUME NEW S, NEW s \in Seq(S), NEW i \in Nat \ {0}, NEW n \in Nat, i + n <= Len(s) + 1
  PROVE  Bytes(s, i, n) \in Seq(S) /\ Len(Bytes(s, i, n)) = n
<1>1. \A j \in i..(i + n - 1) : s[j] \in S OBVIOUS
<1>2. i \in Int /\ i + n - 1 \in Int OBVIOUS
<1>3. /\ SubSeq(s, i, i + n - 1) \in Seq(S)
      /\ Len(SubSeq(s, i, i + n - 1)) = IF i <= i + n - 1 THEN i + n - 1 - i + 1 ELSE 0
  BY <1>1, <1>2, SubSeqProperties
<1>4. (IF i <= i + n - 1 THEN i + n - 1 - i + 1 ELSE 0) = n OBVIOUS
<1> QED BY <1>3, <1>4 DEF Bytes

\* An item that was read lies within the buffer.
HeadOK(h, s, i) ==
  /\ h.num \in Nat /\ h.size \in Nat
  /\ h.err \in {"EOF", "ILLEGAL", "BREAK", "none"}
  /\ h.err # "EOF" => i <= Len(s) /\ h.size >= 1
  /\ h.err = "none" => i + h.size <= Len(s) + 1
  /\ h.err = "BREAK" => h.major = 7

\* preparse_value: an item with a head that was read begins where a byte is.
LEMMA PreparseFacts ==
  ASSUME NEW s \in Seq(Byte), NEW i \in Nat \ {0}
  PROVE  HeadOK(Preparse(s, i), s, i)
<1>0. Len(s) \in Nat OBVIOUS
<1>1. CASE i > Len(s)
  <2>1. Preparse(s, i) = NoHead BY <1>1 DEF Preparse
  <2> QED BY <2>1 DEF HeadOK, NoHead
<1>2. CASE ~(i > Len(s))
  <2> DEFINE b    == s[i]
             info == b % 32
             more == IF info \in 24..27 THEN <<1, 2, 4, 8>>[info - 23] ELSE 0
             args == Bytes(s, i + 1, more)
             err == IF info = 31
                    THEN IF b \div 32 \in 2..5 THEN "none" ELSE IF b \div 32 = 7 THEN "BREAK" ELSE "ILLEGAL"
                    ELSE IF info > 27 THEN "ILLEGAL"
                    ELSE IF i + more > Len(s) THEN "EOF" ELSE "none"
  <2>0. Preparse(s, i) = HeadAt(s, i) BY <1>2 DEF Preparse
  <2>2. HeadAt(s, i) = [err |-> err, major |-> b \div 32, known |-> info # 31, size |-> 1 + more,
                          num |-> IF err # "none" THEN 0 ELSE IF more = 0 THEN info
                                  ELSE IF \E k \in 1..(more - 3) : args[k] # 0 THEN Huge
                                  ELSE BigEndian(args)]
    BY DEF HeadAt
  <2>1. b \in 0..255
    <3>1. i \in 1..Len(s) BY <1>0, <1>2
    <3>2. s[i] \in Byte BY <3>1, ElementOfSeq
    <3> QED BY <3>2 DEF Byte
  <2> HIDE DEF b
  <2>3. info \in 0..31 BY <2>1
  <2> HIDE DEF info
  <2>4. more \in Nat /\ (info = 31 => more = 0)
    <3>1. CASE info \in 24..27
      <4>1. info = 24 \/ info = 25 \/ info = 26 \/ info = 27 BY <3>1
      <4> QED BY <4>1
    <3>2. CASE info \notin 24..27 BY <3>2
    <3> QED BY <3>1, <3>2
  <2> HIDE DEF more
  <2>5. ASSUME err = "none" PROVE i + more <= Len(s)
    <3>1. CASE info = 31 BY <3>1, <2>4, <1>0, <1>2
    <3>2. CASE info # 31 BY <3>2, <2>5, <2>4, <1>0
    <3> QED BY <3>1, <3>2
  <2>6. err = "none" => BigEndian(args) \in Nat
    <3> HAVE err = "none"
    <3>1. i + 1 \in Nat \ {0} /\ (i + 1) + more <= Len(s) + 1 BY <2>5, <2>4, <1>0
    <3>2. args \in Seq(Byte) BY <3>1, <2>4, SliceFacts
    <3> QED BY <3>2, NumberNat
  <2>7. /\ err \in {"EOF", "ILLEGAL", "BREAK", "none"}
        /\ err = "BREAK" => b \div 32 = 7
    OBVIOUS
  <2>8. Huge \in Nat BY DEF Huge
  <2> HIDE DEF args, err
  <2> DEFINE h == Preparse(s, i)
  <2>9. h.err = err /\ h.size = 1 + more /\ h.major = b \div 32 BY <2>0, <2>2
  <2>10. h.num \in Nat BY <2>0, <2>2, <2>3, <2>6, <2>8
  <2> HIDE DEF h
  <2>11. HeadOK(h, s, i) BY <1>0, <1>2, <2>4, <2>5, <2>7, <2>9, <2>10 DEF HeadOK
  <2> QED BY <2>11 DEF h
<1> QED BY <1>1, <1>2

-----------------------------------------------------------------------------
(***************************************************************************)
(* The parser of BPv7                                                      *)
(***************************************************************************)
Out(o) == o = <<>> \/ \E b : o = <<b>>

P7Fields == {"status", "bulk", "next_bytes", "parse", "crc_feed", "crc_invalid", "crc",
             "bundle_size", "val", "eids", "timestamp", "primary_block_length", "blocks",
             "data", "dangling", "out"}
Handlers ==
  UintHandlers \cup DOMAIN EidHandlers
  \cup {"bundle_start", "primary_block_start", "creation_timestamp", "primary_block_crc",
        "block_start", "block_data", "block_crc", "bundle_end"}

\* The block that has no checksum ends with its bulk read.
P7OK(p) ==
  /\ DOMAIN p = P7Fields /\ p.next_bytes \in Nat /\ Out(p.out)
  /\ p.parse \in Handlers \/ (p.parse = "block_end" /\ p.bulk)

\* The end of an item that was found in the buffer.
Within(e, s, i) == e \in Nat /\ i < e /\ e <= Len(s) + 1

\* A string that is not cut lies within the buffer.
LEMMA WithinFacts ==
  ASSUME NEW s, Len(s) \in Nat, NEW i \in Nat \ {0}, NEW a \in Nat, NEW b \in Nat,
         a >= 1, ~(i + a + b - 1 > Len(s))
  PROVE  Within(i + a + b, s, i)
BY DEF Within

\* What a handler returns for the item at i: the place behind it.  The next item was
\* looked at if it is of the same container, unless a bulk read or nothing follows.
Item(r, skip, s, i) ==
  r.err = "none" => /\ Within(r.i, s, i) /\ r.rem \in Int
                    /\ r.rem = 0 \/ skip \/ Preparse(s, r.i).err = "none"
HandlerOK(r, s, i) == P7OK(r.p) /\ Item(r, r.p.bulk \/ r.p.status # "GOOD", s, i)

\* A handler that skips an item leaves the cursor within the buffer.
LEMMA AdvanceFacts ==
  ASSUME NEW s \in Seq(Byte), NEW i \in Nat \ {0}, NEW e, Within(e, s, i), NEW rem \in Int,
         NEW p, P7OK(p)
  PROVE  HandlerOK(Result(Advance(s, e, rem), p), s, i)
<1> DEFINE a == Advance(s, e, rem)
           r == Result(a, p)
<1>1. r.err = a.err /\ r.i = e /\ r.rem = rem - 1 /\ r.p = p BY DEF Result, Advance
<1>2. a.err = "none" => rem = 1 \/ Preparse(s, e).err = "none" BY DEF Advance
<1> HIDE DEF a, r
<1>3. HandlerOK(r, s, i) BY <1>1, <1>2 DEF HandlerOK, Item
<1> QED BY <1>3 DEF r, a

\* A handler that fails does not move the cursor.
LEMMA ErrorFacts ==
  ASSUME NEW s, NEW i, NEW r, P7OK(r.p), r.err # "none"
  PROVE  HandlerOK(r, s, i)
BY DEF HandlerOK, Item

\* An item of another type than the handler expects is an error.
LEMMA IllegalFacts ==
  ASSUME NEW s, NEW i, NEW p, P7OK(p)
  PROVE  HandlerOK(Illegal(p), s, i)
BY DEF HandlerOK, Item, Illegal

\* The place a handler is called at.
AtItem(s, i) == i \in Nat \ {0} /\ i <= Len(s) /\ Preparse(s, i).err \in {"none", "BREAK"}

\* cbor_value_enter_container steps over the head of an array.
LEMMA EnterFacts ==
  ASSUME NEW s \in Seq(Byte), NEW i, AtItem(s, i), Preparse(s, i).major = CborArray,
         NEW p, P7OK(p)
  PROVE  HandlerOK(Result(cbor_value_enter_container(s, i), p), s, i)
<1>0. i \in Nat \ {0} /\ Len(s) \in Nat /\ i <= Len(s) BY DEF AtItem
<1> DEFINE h == Preparse(s, i)
           j == i + h.size
           c == cbor_value_enter_container(s, i)
<1>1. HeadOK(h, s, i) BY <1>0, PreparseFacts
<1>2. h.err = "none" BY <1>1 DEF AtItem, HeadOK, CborArray
<1>3. c = CASE h.known /\ h.num = 0 -> [i |-> j, rem |-> 0, err |-> "none"]
            [] ~h.known /\ j <= Len(s) /\ s[j] = Break -> [i |-> j + 1, rem |-> 0, err |-> "none"]
            [] OTHER -> [i |-> j, rem |-> IF h.known THEN h.num ELSE Huge, err |-> Preparse(s, j).err]
  BY DEF cbor_value_enter_container
<1> HIDE DEF h, c
<1>4. h.num \in Nat /\ h.size \in Nat /\ h.size >= 1 /\ i + h.size <= Len(s) + 1 BY <1>1, <1>2 DEF HeadOK
<1>5. Huge \in Nat BY DEF Huge
<1>6. Item(c, FALSE, s, i)
  <2>1. CASE h.known /\ h.num = 0
    <3>1. c = [i |-> j, rem |-> 0, err |-> "none"] BY <1>3, <2>1
    <3> QED BY <3>1, <1>0, <1>4 DEF Item, Within
  <2>2. CASE ~(h.known /\ h.num = 0) /\ ~h.known /\ j <= Len(s) /\ s[j] = Break
    <3>1. c = [i |-> j + 1, rem |-> 0, err |-> "none"] BY <1>3, <2>2
    <3> QED BY <3>1, <1>0, <1>4, <2>2 DEF Item, Within
  <2>3. CASE ~(h.known /\ h.num = 0) /\ ~(~h.known /\ j <= Len(s) /\ s[j] = Break)
    <3>1. c = [i |-> j, rem |-> IF h.known THEN h.num ELSE Huge, err |-> Preparse(s, j).err]
      BY <1>3, <2>3
    <3>2. c.rem \in Int BY <3>1, <1>4, <1>5
    <3>3. c.i = j /\ c.err = Preparse(s, j).err BY <3>1
    <3>4. j \in Nat /\ i < j /\ j <= Len(s) + 1 BY <1>0, <1>4
    <3> HIDE DEF j
    <3> QED BY <3>2, <3>3, <3>4 DEF Item, Within
  <2> QED BY <2>1, <2>2, <2>3
<1> DEFINE r == Result(c, p)
<1>7. r.err = c.err /\ r.i = c.i /\ r.rem = c.rem /\ r.p = p BY DEF Result
<1> HIDE DEF r
<1>8. HandlerOK(r, s, i) BY <1>6, <1>7 DEF HandlerOK, Item
<1> QED BY <1>8 DEF r, c

\* A change of other fields.
LEMMA StepOK ==
  ASSUME NEW p, P7OK(p), NEW f \in P7Fields \ {"next_bytes", "out", "parse", "bulk"}, NEW v
  PROVE  P7OK([p EXCEPT ![f] = v])
BY DEF P7OK

\* The next handler.
LEMMA GotoOK ==
  ASSUME NEW p, P7OK(p), NEW x \in Handlers
  PROVE  P7OK([p EXCEPT !.parse = x])
BY DEF P7OK, P7Fields

\* parse_eid, the scheme and what follows it.
EidOK(e, s, i) == e.err = "none" => Within(e.i, s, i)

\* The two numbers of an array lie within the buffer.
LEMMA PairFacts ==
  ASSUME NEW s \in Seq(Byte), NEW i \in Nat \ {0}, Pair(s, i).err = "none"
  PROVE  Within(Pair(s, i).i, s, i)
<1> DEFINE h == Preparse(s, i)
           a == Preparse(s, i + h.size)
           b == Preparse(s, i + h.size + a.size)
<1>1. Pair(s, i).i = i + h.size + a.size + b.size /\ a.err = "none" /\ b.err = "none" BY DEF Pair
<1>2. HeadOK(h, s, i) BY PreparseFacts
<1>3. h.size \in Nat /\ Len(s) \in Nat BY <1>2 DEF HeadOK
<1> DEFINE j == i + h.size
<1>4. j \in Nat \ {0} /\ j >= i BY <1>3
<1>5. HeadOK(a, s, j)
  <2> HIDE DEF h
  <2> QED BY <1>4, PreparseFacts
<1>6. a.size \in Nat BY <1>5 DEF HeadOK
<1> DEFINE k == i + h.size + a.size
<1> HIDE DEF a, h
<1>7. k \in Nat \ {0} /\ k >= i BY <1>3, <1>6
<1>8. HeadOK(b, s, k)
  <2> USE DEF h, a
  <2> HIDE DEF h, a
  <2> QED BY <1>7, PreparseFacts
<1>9. b.size \in Nat /\ b.size >= 1 /\ k + b.size <= Len(s) + 1 BY <1>1, <1>8 DEF HeadOK
<1> HIDE DEF b
<1>10. Within(k + b.size, s, i) BY <1>3, <1>7, <1>9 DEF Within
<1> QED BY <1>1, <1>10 DEF h, a, b

\* eid_parse_dtn stays within the buffer.
LEMMA DtnFacts ==
  ASSUME NEW s \in Seq(Byte), NEW i \in Nat \ {0}
  PROVE  EidOK(eid_parse_dtn(s, i), s, i)
<1> DEFINE h == Preparse(s, i)
           text == i + h.size
           e == eid_parse_dtn(s, i)
<1>1. HeadOK(h, s, i) BY PreparseFacts
<1>2. e = IF h.err # "none" THEN EidError(h.err)
          ELSE IF h.major = CborUint /\ h.num = 0 THEN EidRead(text, EID_SCHEMA_DTN, SspNone)
          ELSE IF h.major # CborTextString \/ ~h.known THEN EidError("ILLEGAL")
          ELSE IF text + h.num - 1 <= Len(s)
          THEN EidRead(text + h.num, EID_SCHEMA_DTN, Bytes(s, text, h.num))
          ELSE [EidError("EOF") EXCEPT !.freed = i + h.num - 1 <= Len(s)]
  BY DEF eid_parse_dtn
<1> HIDE DEF h, e
<1>3. SUFFICES ASSUME e.err = "none" PROVE Within(e.i, s, i) BY DEF EidOK, e
<1>4. h.err = "none"
  <2> SUFFICES ASSUME h.err # "none" PROVE FALSE OBVIOUS
  <2>1. e = EidError(h.err) BY <1>2
  <2> QED BY <1>3, <2>1 DEF EidError
<1>5. h.num \in Nat /\ h.size \in Nat /\ h.size >= 1 /\ text <= Len(s) + 1 /\ Len(s) \in Nat
  BY <1>1, <1>4 DEF HeadOK
<1>6. CASE h.major = CborUint /\ h.num = 0
  <2>1. e = EidRead(text, EID_SCHEMA_DTN, SspNone) BY <1>2, <1>4, <1>6
  <2> QED BY <2>1, <1>5 DEF EidRead, Within
<1>7. CASE ~(h.major = CborUint /\ h.num = 0)
  <2>1. ~(h.major # CborTextString \/ ~h.known)
    <3> SUFFICES ASSUME h.major # CborTextString \/ ~h.known PROVE FALSE OBVIOUS
    <3>1. e = EidError("ILLEGAL") BY <1>2, <1>4, <1>7
    <3> QED BY <1>3, <3>1 DEF EidError
  <2>2. text + h.num - 1 <= Len(s)
    <3> SUFFICES ASSUME ~(text + h.num - 1 <= Len(s)) PROVE FALSE OBVIOUS
    <3>1. e = [EidError("EOF") EXCEPT !.freed = i + h.num - 1 <= Len(s)] BY <1>2, <1>4, <1>7, <2>1
    <3> QED BY <1>3, <3>1 DEF EidError
  <2>3. e = EidRead(text + h.num, EID_SCHEMA_DTN, Bytes(s, text, h.num)) BY <1>2, <1>4, <1>7, <2>1, <2>2
  <2>4. e.i = text + h.num BY <2>3 DEF EidRead
  <2> QED BY <2>4, <2>2, <1>5 DEF Within
<1> QED BY <1>6, <1>7

\* eid_parse_ipn stays within the buffer.
LEMMA IpnFacts ==
  ASSUME NEW s \in Seq(Byte), NEW i \in Nat \ {0}
  PROVE  EidOK(eid_parse_ipn(s, i), s, i)
<1> DEFINE h == Preparse(s, i)
           n == Pair(s, i)
           e == eid_parse_ipn(s, i)
<1>1. e = IF h.err # "none" THEN EidError(h.err)
          ELSE IF h.major # CborArray \/ ~h.known THEN EidError("ILLEGAL")
          ELSE IF n.err # "none" THEN EidError(n.err)
          ELSE EidRead(n.i, EID_SCHEMA_IPN, IpnString(n.pair))
  BY DEF eid_parse_ipn
<1>2. n.err = "none" => Within(n.i, s, i) BY PairFacts
<1> HIDE DEF h, n, e
<1>3. \/ \E x : x # "none" /\ e = EidError(x)
      \/ n.err = "none" /\ e = EidRead(n.i, EID_SCHEMA_IPN, IpnString(n.pair))
  BY <1>1
<1>4. e.err = "none" => n.err = "none" /\ e.i = n.i BY <1>3 DEF EidError, EidRead
<1> QED BY <1>2, <1>4 DEF EidOK, e

\* The scheme of an EID decides which of the two parses the rest.
LEMMA SchemeFacts ==
  ASSUME NEW s \in Seq(Byte), NEW i \in Nat \ {0}
  PROVE  EidOK(ParseScheme(s, i), s, i)
<1> DEFINE h == Preparse(s, i)
           j == i + h.size
           e == ParseScheme(s, i)
<1>1. HeadOK(h, s, i) BY PreparseFacts
<1>2. j \in Nat \ {0} /\ j >= i BY <1>1 DEF HeadOK
<1>3. e = IF h.err # "none" THEN EidError(h.err)
          ELSE IF h.major # CborUint THEN EidError("ILLEGAL")
          ELSE IF Preparse(s, j).err # "none" THEN EidError(Preparse(s, j).err)
          ELSE IF h.num = EID_SCHEMA_DTN THEN eid_parse_dtn(s, j)
          ELSE IF h.num = EID_SCHEMA_IPN THEN eid_parse_ipn(s, j)
          ELSE EidError("ILLEGAL")
  BY DEF ParseScheme
<1> HIDE DEF h, j, e
<1>4. \/ \E x : x # "none" /\ e = EidError(x)
      \/ e = eid_parse_dtn(s, j)
      \/ e = eid_parse_ipn(s, j)
  BY <1>3
<1>5. EidOK(e, s, j)
  <2>1. \A x : x # "none" => EidError(x).err # "none" BY DEF EidError
  <2> QED BY <1>2, <1>4, <2>1, DtnFacts, IpnFacts DEF EidOK
<1> QED BY <1>2, <1>5 DEF EidOK, Within, e

\* bundle7_eid_parse_cbor stays within the buffer.
LEMMA EidFacts ==
  ASSUME NEW s \in Seq(Byte), NEW i, AtItem(s, i)
  PROVE  EidOK(bundle7_eid_parse_cbor(s, i), s, i)
<1>0. i \in Nat \ {0} BY DEF AtItem
<1> DEFINE h == Preparse(s, i)
           j == i + h.size
           e == bundle7_eid_parse_cbor(s, i)
<1>1. HeadOK(h, s, i) BY <1>0, PreparseFacts
<1>2. j \in Nat \ {0} /\ j >= i BY <1>0, <1>1 DEF HeadOK
<1>3. e = IF h.major # CborArray \/ ~h.known \/ h.num # 2 THEN EidError("ILLEGAL") ELSE ParseScheme(s, j)
  BY DEF bundle7_eid_parse_cbor
<1> HIDE DEF h, j, e
<1>4. EidOK(ParseScheme(s, j), s, j) BY <1>2, SchemeFacts
<1>5. EidError("ILLEGAL").err # "none" BY DEF EidError
<1>6. EidOK(e, s, j) BY <1>3, <1>4, <1>5 DEF EidOK
<1> QED BY <1>0, <1>2, <1>6 DEF EidOK, Within, e

-----------------------------------------------------------------------------
(***************************************************************************)
(* The handlers of BPv7                                                    *)
(***************************************************************************)
\* What follows the primary block.
LEMMA AfterPrimaryOK ==
  ASSUME NEW p, P7OK(p), NEW size
  PROVE  P7OK(AfterPrimary(p, size))
<1> DEFINE a == [p EXCEPT !.parse = "primary_block_crc"]
           b == [p EXCEPT !.parse = "block_start", !.primary_block_length = p.bundle_size - 1 + size]
<1>1. P7OK(a)
  <2>1. "primary_block_crc" \in Handlers BY DEF Handlers
  <2> QED BY <2>1, GotoOK
<1>2. P7OK(b)
  <2>1. "block_start" \in Handlers BY DEF Handlers
  <2> QED BY <2>1 DEF P7OK, P7Fields
<1>3. AfterPrimary(p, size) = a \/ AfterPrimary(p, size) = b BY DEF AfterPrimary
<1> QED BY <1>1, <1>2, <1>3

\* A number was stored; its handler names the next one.
LEMMA StoredOK ==
  ASSUME NEW q, P7OK(q), q.parse \in UintHandlers, NEW h
  PROVE  P7OK(Stored(q, h))
<1>1. {"primary_proc_flags", "crc_type", "fragment_offset", "total_adu_length", "block_number",
       "block_proc_flags", "block_crc_type", "destination_eid", "block_data"} \subseteq Handlers
  BY DEF Handlers, UintHandlers, EidHandlers
<1>2. CASE q.parse = "protocol_version"
  <2>1. Stored(q, h) = [q EXCEPT !.parse = "primary_proc_flags"] BY <1>2 DEF Stored, protocol_version
  <2> QED BY <1>1, <2>1, GotoOK
<1>3. CASE q.parse = "primary_proc_flags"
  <2>1. Stored(q, h) = [q EXCEPT !.parse = "crc_type"] BY <1>3 DEF Stored, primary_proc_flags
  <2> QED BY <1>1, <2>1, GotoOK
<1>4. CASE q.parse = "crc_type"
  <2>1. Stored(q, h) = crc_type(q, h.num) BY <1>4 DEF Stored
  <2>2. P7OK(crc_type(q, h.num)) BY <1>1 DEF crc_type, P7OK, P7Fields
  <2> QED BY <2>1, <2>2
<1>5. CASE q.parse = "lifetime"
  <2>1. Stored(q, h) = lifetime(q, h.size) BY <1>5 DEF Stored
  <2>2. P7OK([q EXCEPT !.parse = "fragment_offset"]) BY <1>1, GotoOK
  <2> QED BY <2>1, <2>2, AfterPrimaryOK DEF lifetime
<1>6. CASE q.parse = "fragment_offset"
  <2>1. Stored(q, h) = [q EXCEPT !.parse = "total_adu_length"] BY <1>6 DEF Stored, fragment_offset
  <2> QED BY <1>1, <2>1, GotoOK
<1>7. CASE q.parse = "total_adu_length"
  <2>1. Stored(q, h) = AfterPrimary(q, h.size) BY <1>7 DEF Stored, total_adu_length
  <2> QED BY <2>1, AfterPrimaryOK
<1>8. CASE q.parse = "block_type"
  <2>1. Stored(q, h) = [q EXCEPT !.parse = "block_number"] BY <1>8 DEF Stored, block_type
  <2> QED BY <1>1, <2>1, GotoOK
<1>9. CASE q.parse = "block_number"
  <2>1. Stored(q, h) = [q EXCEPT !.parse = "block_proc_flags"] BY <1>9 DEF Stored, block_number
  <2> QED BY <1>1, <2>1, GotoOK
<1>10. CASE q.parse = "block_proc_flags"
  <2>1. Stored(q, h) = [q EXCEPT !.parse = "block_crc_type"] BY <1>10 DEF Stored, block_proc_flags
  <2> QED BY <1>1, <2>1, GotoOK
<1>11. CASE q.parse = "block_crc_type"
  <2>1. Stored(q, h) = block_crc_type(q, h.num) BY <1>11 DEF Stored
  <2>2. P7OK(block_crc_type(q, h.num)) BY <1>1 DEF block_crc_type, P7OK, P7Fields
  <2> QED BY <2>1, <2>2
<1> QED BY <1>2, <1>3, <1>4, <1>5, <1>6, <1>7, <1>8, <1>9, <1>10, <1>11 DEF UintHandlers

\* The handlers of numbers keep the BPv7 parser well-formed.
LEMMA UintOK ==
  ASSUME NEW s \in Seq(Byte), NEW i, AtItem(s, i), NEW rem \in Int,
         NEW p, P7OK(p), p.parse \in UintHandlers
  PROVE  HandlerOK(ParseUint(p, s, i, rem), s, i)
<1>0. i \in Nat \ {0} /\ Len(s) \in Nat BY DEF AtItem
<1> DEFINE h == Preparse(s, i)
           q == [p EXCEPT !.val[p.parse] = h.num]
           bad == h.err # "none" \/ h.major # CborUint \/ (p.parse = "crc_type" /\ h.num > CRC_TYPE_32)
           r == ParseUint(p, s, i, rem)
<1>1. HeadOK(h, s, i) BY <1>0, PreparseFacts
<1>2. P7OK(q) /\ q.parse = p.parse BY DEF P7OK, P7Fields
<1>3. r = IF bad THEN Illegal(p) ELSE Result(Advance(s, i + h.size, rem), Stored(q, h))
  BY DEF ParseUint
<1> HIDE DEF h, q, r
<1>4. CASE bad
  <2> QED BY <1>3, <1>4, IllegalFacts DEF r
<1>5. CASE ~bad
  <2>1. Within(i + h.size, s, i) BY <1>0, <1>1, <1>5 DEF HeadOK, Within
  <2>2. P7OK(Stored(q, h)) BY <1>2, StoredOK
  <2>3. HandlerOK(Result(Advance(s, i + h.size, rem), Stored(q, h)), s, i)
    BY <1>0, <2>1, <2>2, AdvanceFacts
  <2> QED BY <1>3, <1>5, <2>3 DEF r
<1> QED BY <1>4, <1>5

\* So do the handlers of the three EIDs.
LEMMA ParseEidOK ==
  ASSUME NEW s \in Seq(Byte), NEW i, AtItem(s, i), NEW rem \in Int,
         NEW p, P7OK(p), p.parse \in DOMAIN EidHandlers
  PROVE  HandlerOK(parse_eid(p, s, i, rem), s, i)
<1>0. i \in Nat \ {0} BY DEF AtItem
<1> DEFINE e == bundle7_eid_parse_cbor(s, i)
           a == Advance(s, e.i, rem)
           bad == [Illegal([p EXCEPT !.dangling = e.freed]) EXCEPT !.err = e.err]
           r == IF e.err # "none" THEN bad ELSE EidDone(p, a, e.eid)
<1>1. parse_eid(p, s, i, rem) = r
  <2> DEFINE F(x) == IF x.err # "none" THEN [Illegal([p EXCEPT !.dangling = x.freed]) EXCEPT !.err = x.err]
                     ELSE With(Advance(s, x.i, rem), LAMBDA y : EidDone(p, y, x.eid))
  <2>1. parse_eid(p, s, i, rem) = F(e)
    <3>1. parse_eid(p, s, i, rem) = CHOOSE x \in {F(y) : y \in {e}} : TRUE BY DEF parse_eid, With
    <3> HIDE DEF F, e
    <3>2. {F(y) : y \in {e}} = {F(e)} OBVIOUS
    <3> QED BY <3>1, <3>2, OneValue DEF e
  <2>2. With(Advance(s, e.i, rem), LAMBDA y : EidDone(p, y, e.eid)) = EidDone(p, a, e.eid)
    <3> HIDE DEF e
    <3>1. With(a, LAMBDA y : EidDone(p, y, e.eid)) = CHOOSE x \in {EidDone(p, y, e.eid) : y \in {a}} : TRUE
      BY DEF With
    <3> HIDE DEF a
    <3>2. {EidDone(p, y, e.eid) : y \in {a}} = {EidDone(p, a, e.eid)} OBVIOUS
    <3> QED BY <3>1, <3>2, OneValue DEF a
  <2> HIDE DEF e, a
  <2> QED BY <2>1, <2>2 DEF e
<1>2. EidOK(e, s, i) BY EidFacts
<1>3. CASE e.err # "none"
  <2>1. P7OK([p EXCEPT !.dangling = e.freed]) BY StepOK DEF P7Fields
  <2> HIDE DEF e
  <2> DEFINE q == [p EXCEPT !.dangling = e.freed]
  <2>2. bad.p = q /\ bad.err = e.err BY DEF Illegal
  <2> HIDE DEF q
  <2>3. P7OK(bad.p) /\ bad.err # "none" BY <1>3, <2>1, <2>2 DEF q
  <2> HIDE DEF bad
  <2>4. HandlerOK(bad, s, i) BY <2>3, ErrorFacts
  <2> QED BY <1>1, <1>3, <2>4
<1>4. CASE e.err = "none"
  <2> DEFINE done == [p EXCEPT !.eids = Append(@, e.eid), !.dangling = FALSE, !.parse = EidHandlers[p.parse]]
             lost == [p EXCEPT !.dangling = TRUE]
  <2>1. EidHandlers[p.parse] \in Handlers BY DEF EidHandlers, Handlers
  <2>2. P7OK(done) BY <2>1 DEF P7OK, P7Fields
  <2>3. P7OK(lost) BY StepOK DEF P7Fields
  <2>4. EidDone(p, a, e.eid) = IF a.err # "none" THEN Result(a, lost) ELSE Result(a, done) BY DEF EidDone
  <2>5. Within(e.i, s, i) BY <1>2, <1>4 DEF EidOK
  <2> HIDE DEF done, lost, e
  <2>6. HandlerOK(Result(Advance(s, e.i, rem), lost), s, i) BY <1>0, <2>3, <2>5, AdvanceFacts
  <2>7. HandlerOK(Result(Advance(s, e.i, rem), done), s, i) BY <1>0, <2>2, <2>5, AdvanceFacts
  <2>8. r = Result(a, lost) \/ r = Result(a, done) BY <1>4, <2>4 DEF e
  <2> HIDE DEF r
  <2> QED BY <1>1, <2>6, <2>7, <2>8
<1> QED BY <1>3, <1>4

\* So does the handler of the creation timestamp.
LEMMA TimestampOK ==
  ASSUME NEW s \in Seq(Byte), NEW i, AtItem(s, i), NEW rem \in Int, NEW p, P7OK(p)
  PROVE  HandlerOK(creation_timestamp(p, s, i, rem), s, i)
<1>0. i \in Nat \ {0} BY DEF AtItem
<1> DEFINE t == Pair(s, i)
           done == [p EXCEPT !.timestamp = t.pair, !.parse = "lifetime"]
           bad == [Illegal(p) EXCEPT !.err = t.err]
           r == creation_timestamp(p, s, i, rem)
<1>1. r = IF t.err # "none" THEN bad ELSE Result(Advance(s, t.i, rem), done) BY DEF creation_timestamp
<1>2. t.err = "none" => Within(t.i, s, i) BY <1>0, PairFacts
<1>3. P7OK(done)
  <2>1. "lifetime" \in Handlers BY DEF Handlers, UintHandlers
  <2> QED BY <2>1 DEF P7OK, P7Fields
<1> HIDE DEF t
<1>4. bad.p = p /\ bad.err = t.err BY DEF Illegal
<1> HIDE DEF bad, done, r
<1>5. CASE t.err # "none"
  <2>1. HandlerOK(bad, s, i) BY <1>4, <1>5, ErrorFacts
  <2> QED BY <1>1, <1>5, <2>1 DEF r
<1>6. CASE t.err = "none"
  <2>1. HandlerOK(Result(Advance(s, t.i, rem), done), s, i) BY <1>0, <1>2, <1>3, <1>6, AdvanceFacts
  <2> QED BY <1>1, <1>6, <2>1 DEF r
<1> QED BY <1>5, <1>6

\* The byte string of a checksum: an item that lies within the buffer.
CrcOK(c, s, i) ==
  c.err = "none" => /\ Within(c.i, s, i) /\ c.rem \in Int
                    /\ c.rem = 0 \/ Preparse(s, c.i).err = "none"

\* The byte string of a checksum lies within the buffer.
LEMMA CrcStringOK ==
  ASSUME NEW s \in Seq(Byte), NEW i, AtItem(s, i), NEW rem \in Int, NEW type
  PROVE  CrcOK(CrcString(s, i, rem, type), s, i)
<1>0. i \in Nat \ {0} /\ Len(s) \in Nat BY DEF AtItem
<1> DEFINE h == Preparse(s, i)
           e == i + h.size + h.num
           a == Advance(s, e, rem)
           c == CrcString(s, i, rem, type)
<1>1. HeadOK(h, s, i) BY <1>0, PreparseFacts
<1>2. c = IF h.err # "none" \/ h.major # CborByteString \/ ~h.known \/ h.num > 4
          THEN [i |-> e, rem |-> 0, err |-> "ILLEGAL", crc |-> <<>>]
          ELSE IF e - 1 > Len(s) THEN [i |-> e, rem |-> 0, err |-> "EOF", crc |-> <<>>]
          ELSE [i |-> a.i, rem |-> a.rem, crc |-> Bytes(s, i + h.size, h.num),
                err |-> IF a.err # "none" THEN a.err
                        ELSE IF h.num # CrcSize(type) THEN "ILLEGAL" ELSE "none"]
  BY DEF CrcString
<1>3. a.i = e /\ a.rem = rem - 1 /\ (a.err = "none" => rem = 1 \/ Preparse(s, e).err = "none")
  BY DEF Advance
<1> HIDE DEF h, a, c
<1>4. SUFFICES ASSUME c.err = "none"
               PROVE  /\ Within(c.i, s, i) /\ c.rem \in Int
                      /\ c.rem = 0 \/ Preparse(s, c.i).err = "none"
  BY DEF CrcOK, c
<1>5. h.err = "none" BY <1>2, <1>4
<1>6. ~(e - 1 > Len(s)) BY <1>2, <1>4
<1>7. c.i = a.i /\ c.rem = a.rem /\ a.err = "none" BY <1>2, <1>4
<1>8. Within(e, s, i)
  <2>1. PICK n \in Nat : n = h.num BY <1>1 DEF HeadOK
  <2>2. PICK z \in Nat : z = h.size BY <1>1 DEF HeadOK
  <2>3. z >= 1 BY <1>1, <1>5, <2>2 DEF HeadOK
  <2>4. e = i + z + n BY <2>1, <2>2
  <2> HIDE DEF e
  <2>5. ~(i + z + n - 1 > Len(s)) BY <1>0, <1>6, <2>4
  <2>6. Within(i + z + n, s, i) BY <1>0, <2>3, <2>5 DEF Within
  <2> QED BY <2>4, <2>6
<1> QED BY <1>3, <1>7, <1>8

\* block_end: only the list and the next handler change.
LEMMA BlockEndOK ==
  ASSUME NEW p, DOMAIN p = P7Fields, p.next_bytes \in Nat, Out(p.out)
  PROVE  P7OK(block_end(p))
<1> DEFINE b == [type |-> p.val.block_type, number |-> p.val.block_number,
                 flags |-> Masked(p.val.block_proc_flags, BlockFlags),
                 crc_type |-> p.val.block_crc_type, data |-> p.data]
           x == IF p.val.block_type = PayloadType THEN "bundle_end" ELSE "block_start"
<1>1. block_end(p) = [p EXCEPT !.blocks = Append(@, b), !.parse = x] BY DEF block_end
<1>2. x \in Handlers BY DEF Handlers
<1> HIDE DEF b, x
<1> DEFINE v == Append(p.blocks, b)
           q == [p EXCEPT !.blocks = v, !.parse = x]
<1> HIDE DEF v
<1>3. DOMAIN q = P7Fields /\ q.next_bytes = p.next_bytes /\ q.out = p.out /\ q.parse = x BY DEF P7Fields
<1> HIDE DEF q
<1>4. P7OK(q) BY <1>2, <1>3 DEF P7OK
<1> QED BY <1>1, <1>4 DEF q, v

\* Comparing the checksums changes only whether they agreed.
LEMMA VerifyOK ==
  ASSUME NEW p, P7OK(p), NEW crc, NEW type, NEW received
  PROVE  P7OK(crc_verify(p, crc, type, received))
<1> DEFINE b == p.crc_invalid \/ CrcBytes(CrcWithZero(crc, type), CrcSize(type)) # received
<1>1. crc_verify(p, crc, type, received) = [p EXCEPT !.crc_feed = FALSE, !.crc_invalid = b] BY DEF crc_verify
<1> HIDE DEF b
<1>2. P7OK([p EXCEPT !.crc_feed = FALSE, !.crc_invalid = b]) BY DEF P7OK, P7Fields
<1> QED BY <1>1, <1>2

\* A checksum that was read is the result of its handler.
LEMMA CrcItem ==
  ASSUME NEW s, NEW i, NEW c, CrcOK(c, s, i), NEW p, P7OK(p)
  PROVE  HandlerOK(Result(c, p), s, i)
<1> DEFINE r == Result(c, p)
<1>1. r.err = c.err /\ r.i = c.i /\ r.rem = c.rem /\ r.p = p BY DEF Result
<1> HIDE DEF r
<1>2. HandlerOK(r, s, i) BY <1>1 DEF HandlerOK, Item, CrcOK
<1> QED BY <1>2 DEF r

\* primary_block_crc keeps the parser well-formed.
LEMMA PrimaryCrcOK ==
  ASSUME NEW s \in Seq(Byte), NEW i, AtItem(s, i), NEW rem \in Int, NEW p, P7OK(p)
  PROVE  HandlerOK(primary_block_crc(p, s, i, rem), s, i)
<1> DEFINE c == CrcString(s, i, rem, p.val.crc_type)
           q == crc_verify(p, p.crc, p.val.crc_type, c.crc)
           n == p.bundle_size - 1 + CrcFieldSize(p.val.crc_type)
           d == [q EXCEPT !.parse = "block_start", !.primary_block_length = n]
<1>1. primary_block_crc(p, s, i, rem) = PrimaryCrcRead(p, c)
  <2>1. primary_block_crc(p, s, i, rem) = CHOOSE x \in {PrimaryCrcRead(p, y) : y \in {c}} : TRUE
    BY DEF primary_block_crc, With
  <2> HIDE DEF c
  <2>2. {PrimaryCrcRead(p, y) : y \in {c}} = {PrimaryCrcRead(p, c)} OBVIOUS
  <2> QED BY <2>1, <2>2, OneValue
<1>2. CrcOK(c, s, i) BY CrcStringOK
<1>3. PrimaryCrcRead(p, c) = IF c.err # "none" THEN Result(c, p) ELSE Result(c, d) BY DEF PrimaryCrcRead
<1>4. P7OK(d)
  <2>1. "block_start" \in Handlers BY DEF Handlers
  <2>2. P7OK(q) BY VerifyOK
  <2> HIDE DEF q, n
  <2> QED BY <2>1, <2>2 DEF P7OK, P7Fields
<1> HIDE DEF c, d
<1>5. HandlerOK(Result(c, p), s, i) /\ HandlerOK(Result(c, d), s, i) BY <1>2, <1>4, CrcItem
<1> QED BY <1>1, <1>3, <1>5

\* block_crc keeps the parser well-formed.
LEMMA BlockCrcOK ==
  ASSUME NEW s \in Seq(Byte), NEW i, AtItem(s, i), NEW rem \in Int, NEW p, P7OK(p)
  PROVE  HandlerOK(block_crc(p, s, i, rem), s, i)
<1> DEFINE c == CrcString(s, i, rem, p.val.block_crc_type)
           q == crc_verify(p, CrcFeed(p.crc, p.data), p.val.block_crc_type, c.crc)
           d == block_end(q)
<1>1. block_crc(p, s, i, rem) = BlockCrcRead(p, c)
  <2>1. block_crc(p, s, i, rem) = CHOOSE x \in {BlockCrcRead(p, y) : y \in {c}} : TRUE
    BY DEF block_crc, With
  <2> HIDE DEF c
  <2>2. {BlockCrcRead(p, y) : y \in {c}} = {BlockCrcRead(p, c)} OBVIOUS
  <2> QED BY <2>1, <2>2, OneValue
<1>2. CrcOK(c, s, i) BY CrcStringOK
<1>3. BlockCrcRead(p, c) = IF c.err # "none" THEN Result(c, p) ELSE Result(c, d) BY DEF BlockCrcRead
<1>4. P7OK(d)
  <2>1. P7OK(q) BY VerifyOK
  <2> HIDE DEF q
  <2> QED BY <2>1, BlockEndOK DEF P7OK
<1> HIDE DEF c, d
<1>5. HandlerOK(Result(c, p), s, i) /\ HandlerOK(Result(c, d), s, i) BY <1>2, <1>4, CrcItem
<1> QED BY <1>1, <1>3, <1>5

\* block_data asks for a bulk read of the bytes that are not in the buffer,
\* or takes them from it.
LEMMA BlockDataOK ==
  ASSUME NEW s \in Seq(Byte), NEW i, AtItem(s, i), NEW rem \in Int, NEW p, P7OK(p)
  PROVE  HandlerOK(block_data(p, s, i, rem), s, i)
<1>0. i \in Nat \ {0} /\ Len(s) \in Nat BY DEF AtItem
<1> DEFINE h == Preparse(s, i)
           a == [Advance(s, i + h.size, rem) EXCEPT !.err = "none"]
           x == IF p.val.block_crc_type # CRC_TYPE_NONE THEN "block_crc" ELSE "block_end"
           q == [p EXCEPT !.crc_feed = TRUE, !.bulk = TRUE, !.next_bytes = h.num,
                          !.bundle_size = @ + h.num, !.parse = x]
           r == block_data(p, s, i, rem)
<1>1. HeadOK(h, s, i) BY <1>0, PreparseFacts
<1>2. r = IF h.err # "none" \/ h.major # CborByteString \/ ~h.known THEN Illegal(p) ELSE Result(a, q)
  BY DEF block_data
<1>3. a.i = i + h.size /\ a.rem = rem - 1 /\ a.err = "none" BY DEF Advance
<1>4. h.num \in Nat BY <1>1 DEF HeadOK
<1>5. x = "block_end" \/ x \in Handlers BY DEF Handlers
<1> HIDE DEF h, a, x
<1>6. P7OK(q) /\ q.bulk BY <1>4, <1>5 DEF P7OK, P7Fields
<1>7. h.err = "none" => Within(i + h.size, s, i) BY <1>0, <1>1 DEF HeadOK, Within
<1> HIDE DEF q, r
<1>8. CASE h.err # "none" \/ h.major # CborByteString \/ ~h.known
  BY <1>2, <1>8, IllegalFacts DEF r
<1>9. CASE ~(h.err # "none" \/ h.major # CborByteString \/ ~h.known)
  <2>1. r = Result(a, q) BY <1>2, <1>9
  <2>2. r.err = "none" /\ r.i = i + h.size /\ r.rem = rem - 1 /\ r.p = q BY <2>1, <1>3 DEF Result
  <2>3. Within(i + h.size, s, i) BY <1>7, <1>9
  <2> HIDE DEF r
  <2>4. rem - 1 \in Int OBVIOUS
  <2>5. HandlerOK(r, s, i) BY <1>6, <2>2, <2>3, <2>4 DEF HandlerOK, Item
  <2> QED BY <2>5 DEF r
<1> QED BY <1>8, <1>9

\* bundle_end steps over the break and delivers at most one bundle.
LEMMA BundleEndOK ==
  ASSUME NEW s \in Seq(Byte), NEW i, AtItem(s, i), NEW p, P7OK(p)
  PROVE  HandlerOK(bundle_end(p, s, i), s, i)
<1>0. i \in Nat \ {0} /\ Len(s) \in Nat /\ i <= Len(s) BY DEF AtItem
<1> DEFINE o == IF p.crc_invalid THEN <<>> ELSE <<ParsedBundle(p)>>
           q == [p EXCEPT !.status = "DONE", !.out = o]
           it == [i |-> i + 1, rem |-> 1, err |-> "none"]
           r == bundle_end(p, s, i)
<1>2. r = IF s[i] # Break THEN Illegal(p) ELSE Result(it, q) BY DEF bundle_end
<1>3. Out(o) BY DEF Out
<1> HIDE DEF o
<1>4. P7OK(q) /\ q.status = "DONE" BY <1>3 DEF P7OK, P7Fields
<1> HIDE DEF q
<1>5. HandlerOK(Result(it, q), s, i)
  <2> DEFINE d == Result(it, q)
  <2>1. d.err = "none" /\ d.i = i + 1 /\ d.rem = 1 /\ d.p = q BY DEF Result
  <2> HIDE DEF d
  <2>2. Within(i + 1, s, i) BY <1>0 DEF Within
  <2>3. HandlerOK(d, s, i) BY <1>4, <2>1, <2>2 DEF HandlerOK, Item
  <2> QED BY <2>3 DEF d
<1> HIDE DEF it, r
<1>6. HandlerOK(r, s, i) BY <1>2, <1>5, IllegalFacts
<1> QED BY <1>6 DEF r

\* The handlers that enter an array.
LEMMA StartOK ==
  ASSUME NEW s \in Seq(Byte), NEW i, AtItem(s, i), NEW p, P7OK(p)
  PROVE  /\ HandlerOK(bundle_start(p, s, i), s, i)
         /\ HandlerOK(primary_block_start(p, s, i), s, i)
         /\ HandlerOK(block_start(p, s, i), s, i)
<1> DEFINE c == cbor_value_enter_container(s, i)
           x == [p EXCEPT !.parse = "primary_block_start"]
           y == [p EXCEPT !.parse = "protocol_version", !.crc_feed = TRUE, !.crc = CrcInit]
           z == [p EXCEPT !.parse = "block_type", !.crc_feed = TRUE, !.crc = CrcInit]
<1>1. {"primary_block_start", "protocol_version", "block_type"} \subseteq Handlers BY DEF Handlers, UintHandlers
<1>2. P7OK(x) BY <1>1, GotoOK
<1>3. P7OK(y) BY <1>1 DEF P7OK, P7Fields
<1>4. P7OK(z) BY <1>1 DEF P7OK, P7Fields
<1>5. bundle_start(p, s, i) = Illegal(p)
      \/ (Preparse(s, i).major = CborArray /\ bundle_start(p, s, i) = Result(c, x))
  BY DEF bundle_start
<1>6. primary_block_start(p, s, i) = Illegal(p)
      \/ (Preparse(s, i).major = CborArray /\ primary_block_start(p, s, i) = Result(c, y))
  BY DEF primary_block_start
<1>7. block_start(p, s, i) = Illegal(p)
      \/ (Preparse(s, i).major = CborArray /\ block_start(p, s, i) = Result(c, z))
  BY DEF block_start
<1> HIDE DEF x, y, z
<1>8. ASSUME Preparse(s, i).major = CborArray
      PROVE  HandlerOK(Result(c, x), s, i) /\ HandlerOK(Result(c, y), s, i) /\ HandlerOK(Result(c, z), s, i)
  BY <1>2, <1>3, <1>4, <1>8, EnterFacts
<1>9. HandlerOK(Illegal(p), s, i) BY IllegalFacts
<1> QED BY <1>5, <1>6, <1>7, <1>8, <1>9

\* Every handler of the BPv7 parser keeps it well-formed and stays within the
\* buffer.
LEMMA ItemOK ==
  ASSUME NEW s \in Seq(Byte), NEW i, AtItem(s, i), NEW rem \in Int,
         NEW p, P7OK(p), p.parse \in Handlers
  PROVE  HandlerOK(ParseItem(p, s, i, rem), s, i)
<1> DEFINE r == ParseItem(p, s, i, rem)
<1> HIDE DEF r
<1>1. CASE p.parse \in UintHandlers
  <2>1. r = ParseUint(p, s, i, rem) BY <1>1 DEF r, ParseItem, UintHandlers, EidHandlers
  <2> QED BY <1>1, <2>1, UintOK DEF r
<1>2. CASE p.parse \in DOMAIN EidHandlers
  <2>1. r = parse_eid(p, s, i, rem) BY <1>2 DEF r, ParseItem, UintHandlers, EidHandlers
  <2> QED BY <1>2, <2>1, ParseEidOK DEF r
<1>3. CASE p.parse \in {"bundle_start", "primary_block_start", "block_start"}
  <2>1. r \in {bundle_start(p, s, i), primary_block_start(p, s, i), block_start(p, s, i)}
    BY <1>3 DEF r, ParseItem, UintHandlers, EidHandlers
  <2> QED BY <2>1, StartOK DEF r
<1>4. CASE p.parse \in {"creation_timestamp", "block_data", "bundle_end"}
  <2>1. r \in {creation_timestamp(p, s, i, rem), block_data(p, s, i, rem), bundle_end(p, s, i)}
    BY <1>4 DEF r, ParseItem, UintHandlers, EidHandlers
  <2> QED BY <2>1, TimestampOK, BlockDataOK, BundleEndOK DEF r
<1>5. CASE p.parse \in {"primary_block_crc", "block_crc"}
  <2>1. r \in {primary_block_crc(p, s, i, rem), block_crc(p, s, i, rem)}
    BY <1>5 DEF r, ParseItem, UintHandlers, EidHandlers
  <2> QED BY <2>1, PrimaryCrcOK, BlockCrcOK DEF r
<1>6. p.parse \in UintHandlers \/ p.parse \in DOMAIN EidHandlers
      \/ p.parse \in {"bundle_start", "primary_block_start", "block_start"}
      \/ p.parse \in {"creation_timestamp", "block_data", "bundle_end"}
      \/ p.parse \in {"primary_block_crc", "block_crc"}
  BY DEF Handlers
<1> QED BY <1>1, <1>2, <1>3, <1>4, <1>5, <1>6

-----------------------------------------------------------------------------
(***************************************************************************)
(* The loop of a parser: any number of rounds                              *)
(***************************************************************************)
Round(k, t, s) ==
  CASE k = "bundle6" -> Read6Round(t, s) [] k = "bundle7" -> Read7Round(t, s)
    [] k = "tcpclv3" -> ReadTcpclv3Round(t, s) [] k = "tcpspp" -> ReadSppRound(t, s)

Rounds(f, k, N, a, s) == f = [i \in 0..N |-> IF i = 0 THEN a ELSE Round(k, f[i - 1], s)]

\* The function that the loops of the parsers define exists.
LEMMA RoundsExist ==
  ASSUME NEW k, NEW N \in Nat, NEW a, NEW s
  PROVE  \E f : Rounds(f, k, N, a, s)
<1> DEFINE T == {n \in Nat : \E f : Rounds(f, k, n, a, s)}
<1>1. 0 \in T
  <2> DEFINE f == [i \in 0..0 |-> a]
  <2>1. f = [i \in 0..0 |-> IF i = 0 THEN a ELSE Round(k, f[i - 1], s)] OBVIOUS
  <2> QED BY <2>1 DEF Rounds
<1>2. ASSUME NEW n \in Nat, n \in T PROVE n + 1 \in T
  <2>1. PICK f : Rounds(f, k, n, a, s) BY <1>2
  <2> DEFINE h == [i \in 0..(n + 1) |-> IF i <= n THEN f[i] ELSE Round(k, f[n], s)]
  <2>2. ASSUME NEW i \in 0..(n + 1) PROVE h[i] = IF i = 0 THEN a ELSE Round(k, h[i - 1], s)
    <3>1. CASE i = 0
      <4>1. 0 \in 0..n /\ 0 \in 0..(n + 1) /\ 0 <= n OBVIOUS
      <4>2. f[0] = a BY <2>1, <4>1 DEF Rounds
      <4>3. h[0] = f[0] BY <4>1
      <4> QED BY <3>1, <4>2, <4>3
    <3>2. CASE i # 0
      <4>1. i - 1 \in 0..n /\ i - 1 \in 0..(n + 1) /\ i - 1 <= n BY <3>2
      <4>2. h[i - 1] = f[i - 1] BY <4>1
      <4>3. CASE i <= n
        <5>1. i \in 0..n BY <4>3
        <5>2. f[i] = Round(k, f[i - 1], s) BY <2>1, <3>2, <5>1 DEF Rounds
        <5>3. h[i] = f[i] BY <4>3
        <5> HIDE DEF h
        <5> QED BY <3>2, <4>2, <5>2, <5>3
      <4>4. CASE ~(i <= n)
        <5>1. i - 1 = n BY <4>4
        <5>2. h[i] = Round(k, f[n], s) BY <4>4
        <5> HIDE DEF h
        <5> QED BY <3>2, <4>2, <5>1, <5>2
      <4> QED BY <4>3, <4>4
    <3> QED BY <3>1, <3>2
  <2>3. h = [i \in 0..(n + 1) |-> h[i]] OBVIOUS
  <2> HIDE DEF h
  <2>4. h = [i \in 0..(n + 1) |-> IF i = 0 THEN a ELSE Round(k, h[i - 1], s)] BY <2>2, <2>3
  <2>5. Rounds(h, k, n + 1, a, s) BY <2>4 DEF Rounds
  <2> QED BY <2>5
<1>3. Nat \subseteq T
  <2> HIDE DEF T
  <2> QED BY <1>1, <1>2, NatSet
<1> QED BY <1>3

-----------------------------------------------------------------------------
(***************************************************************************)
(* The loop of the BPv7 parser                                             *)
(***************************************************************************)
\* Between two rounds: no more was parsed than there is, and the parser stands
\* at an item that is in the buffer, or looks at it first.
R7OK(t, s) ==
  /\ DOMAIN t = {"p", "n", "init", "rem", "stop"}
  /\ P7OK(t.p) /\ t.n \in 0..Len(s) /\ t.rem \in Int
  /\ t.init \/ t.stop \/ t.p.bulk \/ t.p.status # "GOOD" \/ Preparse(s, t.n + 1).err = "none"

\* An error keeps the BPv7 parser well-formed.
LEMMA FailOK ==
  ASSUME NEW p, P7OK(p)
  PROVE  P7OK(FailParser(p))
<1>1. P7OK([p EXCEPT !.status = "ERROR"]) BY StepOK DEF P7Fields
<1> QED BY <1>1 DEF FailParser

\* So does the end of a bulk read.
LEMMA BulkDoneOK ==
  ASSUME NEW p, P7OK(p), NEW data
  PROVE  P7OK(bundle7_parser_bulk_done(p, data))
<1> DEFINE q == [p EXCEPT !.bulk = FALSE, !.data = data]
<1>1. DOMAIN q = P7Fields /\ q.next_bytes \in Nat /\ Out(q.out) /\ q.parse = p.parse BY DEF P7OK, P7Fields
<1>2. bundle7_parser_bulk_done(p, data) = IF p.parse = "block_end" THEN block_end(q) ELSE q
  BY DEF bundle7_parser_bulk_done
<1> HIDE DEF q
<1>3. P7OK(block_end(q)) BY <1>1, BlockEndOK
<1>4. p.parse # "block_end" => P7OK(q) BY <1>1 DEF P7OK
<1> QED BY <1>2, <1>3, <1>4

\* A handled item is counted by bundle7_parser_read.
LEMMA ItemDoneOK ==
  ASSUME NEW s \in Seq(Byte), NEW t, R7OK(t, s), NEW r, HandlerOK(r, s, t.n + 1), r.err = "none"
  PROVE  R7OK(ItemDone(t, s, r), s)
<1> DEFINE size == r.p.bundle_size + r.i - t.n - 1
           c == IF r.p.crc_feed THEN CrcFeed(r.p.crc, SubSeq(s, t.n + 1, r.i - 1)) ELSE r.p.crc
           q == [r.p EXCEPT !.bundle_size = size, !.crc = c]
           x == [t EXCEPT !.p = FailParser(q), !.stop = TRUE]
           y == [t EXCEPT !.p = q, !.n = r.i - 1, !.rem = r.rem, !.init = r.rem = 0]
<1>1. ItemDone(t, s, r) = IF size > Quota THEN x ELSE y BY DEF ItemDone
<1> HIDE DEF size, c
<1>2. P7OK(q) /\ q.bulk = r.p.bulk /\ q.status = r.p.status
  <2>1. P7OK(r.p) BY DEF HandlerOK
  <2> QED BY <2>1 DEF P7OK, P7Fields
<1> HIDE DEF q
<1>3. P7OK(FailParser(q)) BY <1>2, FailOK
<1>4. R7OK(x, s) BY <1>3 DEF R7OK
<1>5. R7OK(y, s)
  <2>1. r.rem \in Int /\ Within(r.i, s, t.n + 1) BY DEF HandlerOK, Item
  <2>2. r.rem = 0 \/ q.bulk \/ q.status # "GOOD" \/ Preparse(s, r.i).err = "none"
    BY <1>2 DEF HandlerOK, Item
  <2>3. t.n \in Nat /\ Len(s) \in Nat BY DEF R7OK
  <2>4. r.i - 1 \in 0..Len(s) /\ (r.i - 1) + 1 = r.i
    <3>1. PICK j \in Nat : j = r.i BY <2>1 DEF Within
    <3>2. t.n + 1 < j /\ j <= Len(s) + 1 BY <2>1, <3>1 DEF Within
    <3>3. j - 1 \in 0..Len(s) /\ (j - 1) + 1 = j BY <2>3, <3>2
    <3> QED BY <3>1, <3>3
  <2>5. /\ DOMAIN y = {"p", "n", "init", "rem", "stop"}
        /\ y.p = q /\ y.n = r.i - 1 /\ y.rem = r.rem /\ y.init = (r.rem = 0)
    BY DEF R7OK
  <2> HIDE DEF y
  <2>6. y.init \/ y.p.bulk \/ y.p.status # "GOOD" \/ Preparse(s, y.n + 1).err = "none"
    BY <2>2, <2>4, <2>5
  <2> QED BY <1>2, <2>1, <2>4, <2>5, <2>6 DEF R7OK
<1> QED BY <1>1, <1>4, <1>5

\* What bundle7_parser_read makes of the result of a handler.
LEMMA HandledOK ==
  ASSUME NEW s \in Seq(Byte), NEW t, R7OK(t, s), NEW r, HandlerOK(r, s, t.n + 1)
  PROVE  R7OK(Handled(t, s, r), s)
<1> DEFINE x == [t EXCEPT !.stop = TRUE, !.p.dangling = r.p.dangling]
           y == [t EXCEPT !.stop = TRUE, !.p = FailParser(r.p)]
<1>1. CASE r.err = "none"
  <2>1. Handled(t, s, r) = ItemDone(t, s, r) BY <1>1 DEF Handled
  <2> QED BY <1>1, <2>1, ItemDoneOK
<1>2. CASE r.err = "EOF"
  <2>1. Handled(t, s, r) = x BY <1>2 DEF Handled
  <2>2. P7OK([t.p EXCEPT !.dangling = r.p.dangling]) BY StepOK DEF R7OK, P7Fields
  <2> DEFINE q == [t.p EXCEPT !.dangling = r.p.dangling]
  <2>3. x = [t EXCEPT !.stop = TRUE, !.p = q] BY DEF R7OK
  <2> HIDE DEF q, x
  <2>4. P7OK(q) BY <2>2 DEF q
  <2>5. R7OK([t EXCEPT !.stop = TRUE, !.p = q], s) BY <2>4 DEF R7OK
  <2> QED BY <2>1, <2>3, <2>5
<1>3. CASE r.err # "none" /\ r.err # "EOF"
  <2>1. Handled(t, s, r) = y BY <1>3 DEF Handled
  <2>2. P7OK(FailParser(r.p)) BY FailOK DEF HandlerOK
  <2> DEFINE q == FailParser(r.p)
  <2> HIDE DEF q
  <2>3. R7OK([t EXCEPT !.stop = TRUE, !.p = q], s) BY <2>2 DEF R7OK, q
  <2> QED BY <2>1, <2>3 DEF q
<1> QED BY <1>1, <1>2, <1>3

\* One round of bundle7_parser_read takes no more than the buffer holds.
LEMMA Round7OK ==
  ASSUME NEW s \in Seq(Byte), NEW t, R7OK(t, s)
  PROVE  R7OK(Read7Round(t, s), s)
<1> DEFINE err == IF t.init THEN Preparse(s, t.n + 1).err ELSE "none"
           rem == IF t.init THEN 1 ELSE t.rem
           r == ParseItem(t.p, s, t.n + 1, rem)
           w == [t EXCEPT !.stop = TRUE]
           x == [t EXCEPT !.stop = TRUE, !.p = FailParser(@)]
           b == [t EXCEPT !.p = bundle7_parser_bulk_done(@, Bytes(s, t.n + 1, @.next_bytes)),
                          !.n = @ + t.p.next_bytes, !.init = TRUE]
           z == Handled(t, s, r)
<1>0. t.n \in Nat /\ Len(s) \in Nat BY DEF R7OK
<1>1. Read7Round(t, s) =
        IF t.stop \/ t.n >= Len(s) \/ t.p.status # "GOOD" THEN t
        ELSE IF err = "EOF" THEN w
        ELSE IF err = "ILLEGAL" THEN x
        ELSE IF t.p.bulk THEN IF t.n + t.p.next_bytes > Len(s) THEN w ELSE b
        ELSE z
  <2>1. With(ParseItem(t.p, s, t.n + 1, rem), LAMBDA y : Handled(t, s, y)) = z
    <3>1. With(r, LAMBDA y : Handled(t, s, y)) = CHOOSE v \in {Handled(t, s, y) : y \in {r}} : TRUE
      BY DEF With
    <3> HIDE DEF r
    <3>2. {Handled(t, s, y) : y \in {r}} = {Handled(t, s, r)} OBVIOUS
    <3> QED BY <3>1, <3>2, OneValue DEF r
  <2> HIDE DEF z
  <2> QED BY <2>1 DEF Read7Round
<1>2. R7OK(w, s) BY DEF R7OK
<1>3. R7OK(x, s)
  <2>1. P7OK(FailParser(t.p)) BY FailOK DEF R7OK
  <2> DEFINE q == FailParser(t.p)
  <2> HIDE DEF q
  <2>2. R7OK([t EXCEPT !.stop = TRUE, !.p = q], s) BY <2>1 DEF R7OK, q
  <2> QED BY <2>2 DEF q
<1>4. ASSUME ~(t.n + t.p.next_bytes > Len(s)) PROVE R7OK(b, s)
  <2> DEFINE q == bundle7_parser_bulk_done(t.p, Bytes(s, t.n + 1, t.p.next_bytes))
  <2>1. P7OK(q) BY BulkDoneOK DEF R7OK
  <2> HIDE DEF q
  <2>2. t.p.next_bytes \in Nat BY DEF R7OK, P7OK
  <2>3. t.n + t.p.next_bytes \in 0..Len(s) BY <1>0, <1>4, <2>2
  <2> DEFINE m == t.n + t.p.next_bytes
  <2> HIDE DEF m
  <2>4. R7OK([t EXCEPT !.p = q, !.n = m, !.init = TRUE], s) BY <2>1, <2>3 DEF R7OK, m
  <2> QED BY <2>4 DEF q, m
<1>5. ASSUME ~(t.stop \/ t.n >= Len(s) \/ t.p.status # "GOOD"), err # "EOF", err # "ILLEGAL", ~t.p.bulk
      PROVE  R7OK(z, s)
  <2>1. t.n + 1 \in Nat \ {0} /\ t.n + 1 <= Len(s) BY <1>0, <1>5
  <2>2. HeadOK(Preparse(s, t.n + 1), s, t.n + 1) BY <2>1, PreparseFacts
  <2>3. Preparse(s, t.n + 1).err \in {"none", "BREAK"}
    <3>1. CASE t.init BY <3>1, <1>5, <2>2 DEF HeadOK
    <3>2. CASE ~t.init BY <3>2, <1>5 DEF R7OK
    <3> QED BY <3>1, <3>2
  <2>4. AtItem(s, t.n + 1) BY <2>1, <2>3 DEF AtItem
  <2>5. rem \in Int BY DEF R7OK
  <2>6. P7OK(t.p) /\ t.p.parse \in Handlers BY <1>5 DEF R7OK, P7OK
  <2> HIDE DEF rem
  <2>7. HandlerOK(r, s, t.n + 1) BY <2>4, <2>5, <2>6, ItemOK
  <2> HIDE DEF r
  <2> QED BY <2>7, HandledOK
<1> HIDE DEF err, w, x, b, z
<1> QED BY <1>1, <1>2, <1>3, <1>4, <1>5

\* The parser takes bytes that are there.
LEMMA Read7OK ==
  ASSUME NEW s \in Seq(Byte), NEW p, P7OK(p)
  PROVE  /\ P7OK(bundle7_parser_read(p, s).p)
         /\ bundle7_parser_read(p, s).n \in 0..Len(s)
<1> DEFINE N == 2 * Len(s)
           a == [p |-> p, n |-> 0, init |-> TRUE, rem |-> 1, stop |-> FALSE]
           after[i \in 0..N] == IF i = 0 THEN a ELSE Read7Round(after[i - 1], s)
<1>0. N \in Nat /\ Len(s) \in Nat OBVIOUS
<1>1. bundle7_parser_read(p, s) = after[N] BY DEF bundle7_parser_read
<1> HIDE DEF N
<1>2. after = [i \in 0..N |-> IF i = 0 THEN a ELSE Read7Round(after[i - 1], s)]
  <2> HIDE DEF a
  <2>1. PICK f : Rounds(f, "bundle7", N, a, s) BY <1>0, RoundsExist
  <2>2. \A t : Round("bundle7", t, s) = Read7Round(t, s) BY DEF Round
  <2>3. f = [i \in 0..N |-> IF i = 0 THEN a ELSE Read7Round(f[i - 1], s)] BY <2>1, <2>2 DEF Rounds
  <2> QED BY <2>3 DEF after
<1>3. R7OK(a, s) BY <1>0 DEF R7OK
<1> HIDE DEF a, after
<1> DEFINE T == {i \in Nat : i <= N => R7OK(after[i], s)}
<1>4. 0 \in T
  <2>1. 0 \in 0..N BY <1>0
  <2>2. after[0] = a BY <1>2, <2>1
  <2> QED BY <2>2, <1>3
<1>5. ASSUME NEW i \in Nat, i \in T PROVE i + 1 \in T
  <2> SUFFICES ASSUME i + 1 <= N PROVE R7OK(after[i + 1], s) OBVIOUS
  <2>1. i <= N /\ i + 1 \in 0..N /\ i + 1 # 0 /\ (i + 1) - 1 = i BY <1>0
  <2>2. R7OK(after[i], s) BY <1>5, <2>1
  <2>3. after[i + 1] = Read7Round(after[i], s) BY <1>2, <2>1
  <2> QED BY <2>2, <2>3, Round7OK
<1>6. Nat \subseteq T
  <2> HIDE DEF T
  <2> QED BY <1>4, <1>5, NatSet
<1>7. R7OK(after[N], s) BY <1>0, <1>6
<1> QED BY <1>1, <1>7 DEF R7OK

-----------------------------------------------------------------------------
(***************************************************************************)
(* The parser of BPv6                                                      *)
(***************************************************************************)
SdnvOK(d) == d \in [status : {"IN_PROGRESS", "DONE", "ERROR"}, bytes_parsed : Nat, value : Nat]

P6Fields == {"status", "bulk", "next_bytes", "stage", "next", "primary", "sdnv", "val",
             "primary_bytes_remaining", "cur_bytes_remaining", "current_index", "current_size",
             "last_block", "dict", "eids", "blocks", "block", "out"}
P6OK(p) ==
  /\ DOMAIN p = P6Fields /\ p.next_bytes \in Nat /\ Out(p.out)
  /\ SdnvOK(p.sdnv) /\ p.val \in [DOMAIN SdnvStages -> Nat]

\* sdnv_read_u8 to _u32 keep the state of an SDNV.
LEMMA SdnvReadOK ==
  ASSUME NEW d, SdnvOK(d), NEW bits, NEW byte \in Byte
  PROVE  SdnvOK(sdnv_read(d, bits, byte))
<1> DEFINE bad == ~sdnv_validate(d, bits) \/ d.status = "DONE"
           status == IF byte < 128 THEN "DONE" ELSE d.status
           value == (byte % 128) + (IF d.bytes_parsed = 0 THEN 0 ELSE 128 * d.value)
           e == [d EXCEPT !.status = "ERROR"]
           x == [status |-> status, bytes_parsed |-> d.bytes_parsed + 1, value |-> value]
<1>1. sdnv_read(d, bits, byte) = IF bad THEN e ELSE x BY DEF sdnv_read
<1>2. SdnvOK(e) BY DEF SdnvOK
<1>3. value \in Nat
  <2>1. PICK b \in 0..255 : b = byte BY DEF Byte
  <2>2. b % 128 \in Nat BY <2>1
  <2>3. d.value \in Nat BY DEF SdnvOK
  <2>4. 128 * d.value \in Nat BY <2>3
  <2> QED BY <2>1, <2>2, <2>4
<1>4. status \in {"IN_PROGRESS", "DONE", "ERROR"} BY DEF SdnvOK
<1>5. d.bytes_parsed + 1 \in Nat BY DEF SdnvOK
<1> HIDE DEF bad, status, value
<1>6. SdnvOK(x) BY <1>3, <1>4, <1>5 DEF SdnvOK
<1> HIDE DEF e, x
<1> QED BY <1>1, <1>2, <1>6

\* An SDNV begins with no bits.
LEMMA SdnvResetOK == SdnvOK(sdnv_reset)
BY DEF SdnvOK, sdnv_reset

\* A change of other fields.
LEMMA Step6OK ==
  ASSUME NEW p, P6OK(p), NEW f \in P6Fields \ {"next_bytes", "out", "sdnv", "val"}, NEW v
  PROVE  P6OK([p EXCEPT ![f] = v])
<1> DEFINE q == [p EXCEPT ![f] = v]
<1>1. DOMAIN q = P6Fields /\ q.next_bytes = p.next_bytes /\ q.out = p.out /\ q.sdnv = p.sdnv /\ q.val = p.val
  BY DEF P6OK, P6Fields
<1> HIDE DEF q
<1>2. P6OK(q) BY <1>1 DEF P6OK
<1> QED BY <1>2 DEF q

\* What decides about a parser that was changed.
Same6(q, p) ==
  /\ DOMAIN q = P6Fields /\ q.next_bytes = p.next_bytes /\ q.out = p.out
  /\ q.sdnv = p.sdnv /\ q.val = p.val

\* A state with the same typed fields is as good.
LEMMA Same6OK ==
  ASSUME NEW p, P6OK(p), NEW q, Same6(q, p)
  PROVE  P6OK(q)
BY DEF P6OK, Same6

\* An error keeps the BPv6 parser well-formed.
LEMMA Fail6OK ==
  ASSUME NEW p, P6OK(p)
  PROVE  P6OK(Fail(p))
<1>1. P6OK([p EXCEPT !.status = "ERROR"]) BY Step6OK DEF P6Fields
<1> QED BY <1>1 DEF Fail

\* bundle6_parser_send_bundle delivers one bundle.
LEMMA SendOK ==
  ASSUME NEW p, P6OK(p)
  PROVE  P6OK(bundle6_parser_send_bundle(p))
<1> DEFINE b == [version |-> 6, proc_flags |-> p.val.PROC_FLAGS,
     destination |-> p.eids[1], source |-> p.eids[2],
     report_to |-> p.eids[3], current_custodian |-> p.eids[4],
     creation_timestamp |-> p.val.TIMESTAMP, sequence_number |-> p.val.SEQUENCE_NUM,
     lifetime |-> 1000000 * p.val.LIFETIME,
     fragment_offset |-> p.val.FRAGMENT_OFFSET, total_adu_length |-> p.val.ADU_LENGTH,
     primary_block_length |-> p.val.BLOCK_LENGTH, blocks |-> p.blocks]
           q == [p EXCEPT !.out = <<b>>]
<1>1. bundle6_parser_send_bundle(p) = p \/ bundle6_parser_send_bundle(p) = q
  BY DEF bundle6_parser_send_bundle
<1> HIDE DEF b
<1>2. Out(<<b>>) BY DEF Out
<1> DEFINE o == <<b>>
<1> HIDE DEF o
<1>3. P6OK([p EXCEPT !.out = o]) BY <1>2 DEF P6OK, P6Fields, o
<1> QED BY <1>1, <1>3 DEF o

\* bundle6_parser_next keeps the parser well-formed.
LEMMA Next6OK ==
  ASSUME NEW p, P6OK(p)
  PROVE  P6OK(bundle6_parser_next(p))
<1> DEFINE sd == IF p.next \in DOMAIN SdnvStages THEN sdnv_reset ELSE p.sdnv
           q == [p EXCEPT !.stage = p.next, !.sdnv = sd]
           dict == p.current_size + p.val.DICT_LENGTH + 1
           size == p.current_size + p.val.BLOCK_DATA_LENGTH
           a == [q EXCEPT !.primary_bytes_remaining = p.val.BLOCK_LENGTH]
           b == [q EXCEPT !.cur_bytes_remaining = p.val.DICT_LENGTH, !.current_size = dict, !.dict = <<>>,
                          !.status = IF dict > Quota THEN "ERROR" ELSE @]
           c == [q EXCEPT !.primary = FALSE]
           d == [q EXCEPT !.cur_bytes_remaining = 0, !.current_index = 0,
                          !.next_bytes = p.val.BLOCK_DATA_LENGTH, !.current_size = size,
                          !.status = IF size > Quota THEN "ERROR" ELSE @,
                          !.bulk = @ \/ size <= Quota]
           e == bundle6_parser_send_bundle([q EXCEPT !.status = "DONE"])
           r == bundle6_parser_next(p)
<1>1. P6OK(q)
  <2>1. SdnvOK(sd) BY SdnvResetOK DEF P6OK
  <2> HIDE DEF sd
  <2> QED BY <2>1 DEF P6OK, P6Fields
<1>2. q.next_bytes = p.next_bytes /\ DOMAIN q = P6Fields /\ q.status = p.status /\ q.bulk = p.bulk
  BY DEF P6OK, P6Fields
<1>3. r = CASE p.next = "DESTINATION_EID_SCHEME" -> a
            [] p.next = "DICTIONARY" -> (IF p.val.DICT_LENGTH = 0 THEN Fail(q) ELSE b)
            [] p.next = "BLOCK_TYPE" -> c
            [] p.next = "BLOCK_DATA" -> d
            [] p.next = "DONE" -> e
            [] OTHER -> q
  BY DEF bundle6_parser_next
<1> HIDE DEF q, dict, size, r, sd
<1>4. P6OK(a) BY <1>1, Step6OK DEF P6Fields
<1>5. P6OK(b)
  <2>1. Same6(b, q) BY <1>2 DEF Same6, P6Fields
  <2> HIDE DEF b
  <2> QED BY <1>1, <2>1, Same6OK
<1>6. P6OK(c) BY <1>1, Step6OK DEF P6Fields
<1>7. P6OK(d)
  <2>1. DOMAIN d = P6Fields /\ d.next_bytes = p.val.BLOCK_DATA_LENGTH /\ d.out = q.out
        /\ d.sdnv = q.sdnv /\ d.val = q.val
    BY <1>2 DEF P6Fields
  <2>2. p.val.BLOCK_DATA_LENGTH \in Nat BY DEF P6OK, SdnvStages
  <2> HIDE DEF d
  <2> QED BY <1>1, <2>1, <2>2 DEF P6OK
<1>8. P6OK(e)
  <2>1. P6OK([q EXCEPT !.status = "DONE"]) BY <1>1, Step6OK DEF P6Fields
  <2> QED BY <2>1, SendOK
<1>9. P6OK(Fail(q)) BY <1>1, Fail6OK
<1> HIDE DEF a, b, c, d, e
<1>10. r = a \/ r = Fail(q) \/ r = b \/ r = c \/ r = d \/ r = e \/ r = q BY <1>3
<1> QED BY <1>1, <1>4, <1>5, <1>6, <1>7, <1>8, <1>9, <1>10 DEF r

\* A number that is complete is stored, and sizes the dictionary or the
\* payload.
LEMMA SdnvDoneOK ==
  ASSUME NEW p, P6OK(p)
  PROVE  P6OK(SdnvDone(p))
<1> DEFINE value == p.sdnv.value
           nx == SdnvStages[p.stage][2]
           vl == [p.val EXCEPT ![p.stage] = value]
           q == [p EXCEPT !.val = vl, !.next = nx]
           eid == bundle6_read_eid(p.dict, <<p.val.BLOCK_EID_REF_SCH, value>>)
           a == [q EXCEPT !.block.flags = value, !.last_block = HAS_FLAG(value, BLOCK_LAST),
                          !.next = IF HAS_FLAG(value, BLOCK_HAS_EID_REF) THEN "BLOCK_EID_REF_CNT" ELSE @]
           b == [q EXCEPT !.current_index = 0, !.current_size = value,
                          !.next = IF value = 0 THEN "BLOCK_DATA_LENGTH" ELSE @]
           c == [q EXCEPT !.block.eid_refs = <<eid>> \o @,
                          !.current_index = @ + 1,
                          !.status = IF eid = <<>> THEN "ERROR" ELSE @,
                          !.next = IF p.current_index + 1 = p.current_size
                                   THEN "BLOCK_DATA_LENGTH" ELSE @]
           r == SdnvDone(p)
<1>1. vl \in [DOMAIN SdnvStages -> Nat]
  <2>1. value \in Nat BY DEF P6OK, SdnvOK
  <2>2. p.val \in [DOMAIN SdnvStages -> Nat] BY DEF P6OK
  <2> HIDE DEF value
  <2> QED BY <2>1, <2>2
<1>2. r = CASE p.stage = "BLOCK_FLAGS" -> a
            [] p.stage = "BLOCK_EID_REF_CNT" -> b
            [] p.stage = "BLOCK_EID_REF_SSP" -> c
            [] OTHER -> q
  BY DEF SdnvDone
<1> HIDE DEF value, nx, vl, eid, r
<1>3. P6OK(q) BY <1>1 DEF P6OK, P6Fields
<1>4. DOMAIN q = P6Fields BY <1>3 DEF P6OK
<1> HIDE DEF q
<1>5. Same6(a, q) BY <1>4 DEF Same6, P6Fields
<1>6. Same6(b, q) BY <1>4 DEF Same6, P6Fields
<1>7. Same6(c, q) BY <1>4 DEF Same6, P6Fields
<1> HIDE DEF a, b, c
<1>8. r = a \/ r = b \/ r = c \/ r = q BY <1>2
<1> QED BY <1>3, <1>5, <1>6, <1>7, <1>8, Same6OK DEF r

\* bundle6_parser_wait_for_sdnv keeps the parser well-formed.
LEMMA WaitOK ==
  ASSUME NEW p, P6OK(p), NEW byte \in Byte
  PROVE  P6OK(bundle6_parser_wait_for_sdnv(p, byte))
<1> DEFINE sd == sdnv_read(p.sdnv, SdnvStages[p.stage][1], byte)
           q == [p EXCEPT !.sdnv = sd]
           r == bundle6_parser_wait_for_sdnv(p, byte)
<1>1. SdnvOK(sd) BY SdnvReadOK DEF P6OK
<1>2. r = CASE q.sdnv.status = "IN_PROGRESS" -> q
            [] q.sdnv.status = "ERROR" -> Fail(q)
            [] q.sdnv.status = "DONE" -> SdnvDone(q)
  BY DEF bundle6_parser_wait_for_sdnv
<1> HIDE DEF sd, r
<1>3. P6OK(q) BY <1>1 DEF P6OK, P6Fields
<1>4. q.sdnv.status \in {"IN_PROGRESS", "ERROR", "DONE"} BY <1>3 DEF P6OK, SdnvOK
<1> HIDE DEF q
<1>5. r = q \/ r = Fail(q) \/ r = SdnvDone(q) BY <1>2, <1>4
<1> QED BY <1>3, <1>5, Fail6OK, SdnvDoneOK DEF r

\* So does a byte of the dictionary.
LEMMA DictionaryOK ==
  ASSUME NEW p, P6OK(p), NEW byte
  PROVE  P6OK(ReadDictionary(p, byte))
<1> DEFINE q    == [p EXCEPT !.cur_bytes_remaining = @ - 1, !.dict = Append(@, byte)]
           v    == p.val
           eids == <<bundle6_read_eid(q.dict, <<v.DESTINATION_EID_SCHEME, v.DESTINATION_EID_SSP>>),
                bundle6_read_eid(q.dict, <<v.SOURCE_EID_SCHEME, v.SOURCE_EID_SSP>>),
                bundle6_read_eid(q.dict, <<v.REPORT_EID_SCHEME, v.REPORT_EID_SSP>>),
                bundle6_read_eid(q.dict, <<v.CUSTODIAN_EID_SCHEME, v.CUSTODIAN_EID_SSP>>)>>
           nx   == IF bundle_is_fragmented(v.PROC_FLAGS) THEN "FRAGMENT_OFFSET" ELSE "BLOCK_TYPE"
           x    == [q EXCEPT !.eids = eids, !.next = nx]
           r    == ReadDictionary(p, byte)
<1>1. r = IF q.cur_bytes_remaining > 0 THEN q ELSE IF Contains(eids, <<>>) THEN Fail(q) ELSE x
  BY DEF ReadDictionary
<1>2. Same6(q, p) BY DEF Same6, P6OK, P6Fields
<1>3. P6OK(q)
  <2> HIDE DEF q
  <2> QED BY <1>2, Same6OK
<1> HIDE DEF q, eids, nx, r
<1>4. Same6(x, q) BY <1>3 DEF Same6, P6OK, P6Fields
<1>5. P6OK(x)
  <2> HIDE DEF x
  <2> QED BY <1>3, <1>4, Same6OK
<1> HIDE DEF x
<1>6. r = q \/ r = Fail(q) \/ r = x BY <1>1
<1> QED BY <1>3, <1>5, <1>6, Fail6OK DEF r

\* bundle6_parser_read_byte keeps the parser well-formed.
LEMMA ReadByteOK ==
  ASSUME NEW p, P6OK(p), NEW byte \in Byte
  PROVE  P6OK(bundle6_parser_read_byte(p, byte))
<1> DEFINE q == IF p.primary THEN [p EXCEPT !.primary_bytes_remaining = (@ - 1) % 65536] ELSE p
           v == [q EXCEPT !.next = "PROC_FLAGS"]
           w == bundle6_parser_wait_for_sdnv(q, byte)
           d == ReadDictionary(q, byte)
           b == bundle6_parser_begin_block(q, byte)
           e == bundle6_parser_end_block(q)
           r == CASE q.stage = "VERSION" -> v
                  [] q.stage \in DOMAIN SdnvStages -> w
                  [] q.stage = "DICTIONARY" -> d
                  [] q.stage = "BLOCK_TYPE" -> b
                  [] q.stage = "BLOCK_DATA" /\ q.cur_bytes_remaining = 0 -> e
                  [] OTHER -> Fail(q)
           z == bundle6_parser_read_byte(p, byte)
<1>1. z = IF p.primary /\ bundle6_parser_length_known(p) /\ p.primary_bytes_remaining = 0 THEN Fail(p)
          ELSE IF r.next # r.stage /\ r.status # "ERROR" THEN bundle6_parser_next(r) ELSE r
  BY DEF bundle6_parser_read_byte
<1>2. P6OK(q)
  <2>1. Same6([p EXCEPT !.primary_bytes_remaining = (@ - 1) % 65536], p) BY DEF Same6, P6OK, P6Fields
  <2>2. P6OK([p EXCEPT !.primary_bytes_remaining = (@ - 1) % 65536]) BY <2>1, Same6OK
  <2> QED BY <2>2
<1> HIDE DEF q, z
<1>3. P6OK(v) BY <1>2, Step6OK DEF P6Fields
<1>4. P6OK(w) BY <1>2, WaitOK
<1>5. P6OK(d) BY <1>2, DictionaryOK
<1>6. P6OK(b)
  <2> DEFINE x == [NoBlock EXCEPT !.type = byte]
             g == [q EXCEPT !.block = x, !.next = "BLOCK_FLAGS"]
  <2>1. b = g BY DEF bundle6_parser_begin_block
  <2> HIDE DEF x
  <2>2. Same6(g, q) BY <1>2 DEF Same6, P6OK, P6Fields
  <2> HIDE DEF g
  <2> QED BY <1>2, <2>1, <2>2, Same6OK
<1>7. P6OK(e)
  <2> DEFINE g == [q EXCEPT !.blocks = Append(@, q.block), !.next = IF q.last_block THEN "DONE" ELSE "BLOCK_TYPE"]
  <2>1. e = g BY DEF bundle6_parser_end_block
  <2>2. Same6(g, q) BY <1>2 DEF Same6, P6OK, P6Fields
  <2> HIDE DEF g
  <2> QED BY <1>2, <2>1, <2>2, Same6OK
<1>8. P6OK(Fail(q)) BY <1>2, Fail6OK
<1> HIDE DEF v, w, d, b, e
<1>9. r = v \/ r = w \/ r = d \/ r = b \/ r = e \/ r = Fail(q) OBVIOUS
<1> HIDE DEF r
<1>10. P6OK(r) BY <1>3, <1>4, <1>5, <1>6, <1>7, <1>8, <1>9
<1>11. P6OK(Fail(p)) BY Fail6OK
<1>12. P6OK(bundle6_parser_next(r)) BY <1>10, Next6OK
<1> QED BY <1>1, <1>10, <1>11, <1>12 DEF z

\* So does the end of a bulk read.
LEMMA BulkDone6OK ==
  ASSUME NEW p, P6OK(p), NEW data
  PROVE  P6OK(bundle6_parser_bulk_done(p, data))
<1> DEFINE q == [p EXCEPT !.bulk = FALSE, !.block.data = data]
<1>1. Same6(q, p) BY DEF Same6, P6OK, P6Fields
<1>2. bundle6_parser_bulk_done(p, data) = bundle6_parser_read_byte(q, 0) BY DEF bundle6_parser_bulk_done
<1> HIDE DEF q
<1>3. P6OK(q) BY <1>1, Same6OK
<1>4. 0 \in Byte BY DEF Byte
<1> QED BY <1>2, <1>3, <1>4, ReadByteOK

R6OK(t, s) == P6OK(t.p) /\ t.n \in 0..Len(s)

\* One round of bundle6_parser_read takes one byte.
LEMMA Round6OK ==
  ASSUME NEW s \in Seq(Byte), NEW t, R6OK(t, s)
  PROVE  R6OK(Read6Round(t, s), s)
<1>0. t.n \in Nat /\ Len(s) \in Nat /\ t.p.next_bytes \in Nat /\ P6OK(t.p) BY DEF R6OK, P6OK
<1> DEFINE stop == \/ t.n >= Len(s) \/ t.p.status # "GOOD"
                   \/ t.p.bulk /\ t.n + t.p.next_bytes > Len(s)
           a == [p |-> bundle6_parser_bulk_done(t.p, Bytes(s, t.n + 1, t.p.next_bytes)),
                 n |-> t.n + t.p.next_bytes]
           b == [p |-> bundle6_parser_read_byte(t.p, s[t.n + 1]), n |-> t.n + 1]
<1>1. Read6Round(t, s) = IF stop THEN t ELSE IF t.p.bulk THEN a ELSE b BY DEF Read6Round
<1>2. ASSUME ~stop, t.p.bulk PROVE R6OK(a, s)
  <2>1. t.n + t.p.next_bytes \in 0..Len(s) BY <1>0, <1>2
  <2>2. P6OK(bundle6_parser_bulk_done(t.p, Bytes(s, t.n + 1, t.p.next_bytes))) BY <1>0, BulkDone6OK
  <2> QED BY <2>1, <2>2 DEF R6OK
<1>3. ASSUME ~stop PROVE R6OK(b, s)
  <2>1. t.n + 1 \in 1..Len(s) BY <1>0, <1>3
  <2>2. s[t.n + 1] \in Byte BY <2>1, ElementOfSeq
  <2>3. P6OK(bundle6_parser_read_byte(t.p, s[t.n + 1])) BY <1>0, <2>2, ReadByteOK
  <2> QED BY <2>1, <2>3 DEF R6OK
<1> HIDE DEF stop, a, b
<1> QED BY <1>1, <1>2, <1>3

\* bundle6_parser_read takes no more than the buffer holds.
LEMMA Read6OK ==
  ASSUME NEW s \in Seq(Byte), NEW p, P6OK(p)
  PROVE  /\ P6OK(bundle6_parser_read(p, s).p)
         /\ bundle6_parser_read(p, s).n \in 0..Len(s)
<1> DEFINE N == 2 * Len(s)
           a == [p |-> p, n |-> 0]
           after[i \in 0..N] == IF i = 0 THEN a ELSE Read6Round(after[i - 1], s)
<1>0. N \in Nat /\ Len(s) \in Nat OBVIOUS
<1>1. bundle6_parser_read(p, s) = after[N] BY DEF bundle6_parser_read
<1> HIDE DEF N
<1>2. after = [i \in 0..N |-> IF i = 0 THEN a ELSE Read6Round(after[i - 1], s)]
  <2> HIDE DEF a
  <2>1. PICK f : Rounds(f, "bundle6", N, a, s) BY <1>0, RoundsExist
  <2>2. \A t : Round("bundle6", t, s) = Read6Round(t, s) BY DEF Round
  <2>3. f = [i \in 0..N |-> IF i = 0 THEN a ELSE Read6Round(f[i - 1], s)] BY <2>1, <2>2 DEF Rounds
  <2> QED BY <2>3 DEF after
<1>3. R6OK(a, s) BY <1>0 DEF R6OK
<1> HIDE DEF a, after
<1> DEFINE T == {i \in Nat : i <= N => R6OK(after[i], s)}
<1>4. 0 \in T
  <2>1. 0 \in 0..N BY <1>0
  <2>2. after[0] = a BY <1>2, <2>1
  <2> QED BY <2>2, <1>3
<1>5. ASSUME NEW i \in Nat, i \in T PROVE i + 1 \in T
  <2> SUFFICES ASSUME i + 1 <= N PROVE R6OK(after[i + 1], s) OBVIOUS
  <2>1. i <= N /\ i + 1 \in 0..N /\ i + 1 # 0 /\ (i + 1) - 1 = i BY <1>0
  <2>2. R6OK(after[i], s) BY <1>5, <2>1
  <2>3. after[i + 1] = Read6Round(after[i], s) BY <1>2, <2>1
  <2> QED BY <2>2, <2>3, Round6OK
<1>6. Nat \subseteq T
  <2> HIDE DEF T
  <2> QED BY <1>4, <1>5, NatSet
<1>7. R6OK(after[N], s) BY <1>0, <1>6
<1> QED BY <1>1, <1>7 DEF R6OK

-----------------------------------------------------------------------------
(***************************************************************************)
(* The parsers of the frames                                               *)
(***************************************************************************)
\* FiniteSetsExt!Min of two numbers.
LEMMA MinTwo ==
  ASSUME NEW a \in Nat, NEW b \in Nat
  PROVE  Min({a, b}) \in Nat /\ Min({a, b}) <= a /\ Min({a, b}) <= b
<1>1. \E x \in {a, b} : \A y \in {a, b} : x <= y OBVIOUS
<1> DEFINE m == Min({a, b})
<1>2. m \in {a, b} /\ \A y \in {a, b} : m <= y BY <1>1 DEF Min
<1> HIDE DEF m
<1>3. m \in Nat /\ m <= a /\ m <= b BY <1>2
<1> QED BY <1>3 DEF m

\* What is left of a frame is no negative number.  TCPCLv3 forwards as soon as it
\* has read the size.
FrameOK(k, f) ==
  /\ k = "mtcp" => DOMAIN f = {"status", "sub", "left"} /\ f.left \in Nat
  /\ k = "tcpclv3" =>
       /\ DOMAIN f = {"status", "sub", "left", "stage", "sdnv"}
       /\ f.left \in Nat /\ SdnvOK(f.sdnv)
       /\ f.stage \in {"EXPECT_TYPE_FLAGS", "GET_SIZE"} \/ (f.stage = "FORWARD_BUNDLE" /\ f.sub)

\* mtcp_parser_parse takes no more than the buffer holds.
LEMMA MtcpOK ==
  ASSUME NEW s \in Seq(Byte), NEW f, FrameOK("mtcp", f)
  PROVE  /\ FrameOK("mtcp", mtcp_parser_parse(f, s).f)
         /\ mtcp_parser_parse(f, s).n \in 0..Len(s)
<1> DEFINE h == Preparse(s, 1)
           g == [f EXCEPT !.sub = TRUE, !.left = h.num]
           t == mtcp_parser_parse(f, s)
<1>0. Len(s) \in Nat OBVIOUS
<1>1. HeadOK(h, s, 1) BY PreparseFacts
<1>2. t = IF h.err = "EOF" THEN [f |-> f, n |-> 0]
          ELSE IF h.err # "none" \/ h.major # CborByteString \/ ~h.known THEN [f |-> f, n |-> 1]
          ELSE [f |-> g, n |-> h.size]
  BY DEF mtcp_parser_parse
<1> HIDE DEF h, t
<1>3. FrameOK("mtcp", g) BY <1>1 DEF FrameOK, HeadOK
<1>4. h.err # "EOF" => 1 \in 0..Len(s) BY <1>0, <1>1 DEF HeadOK
<1>5. h.err = "none" => h.size \in 0..Len(s) BY <1>0, <1>1 DEF HeadOK
<1> HIDE DEF g
<1>6. \/ t = [f |-> f, n |-> 0]
      \/ t = [f |-> f, n |-> 1] /\ h.err # "EOF"
      \/ t = [f |-> g, n |-> h.size] /\ h.err = "none"
  BY <1>2
<1>7. FrameOK("mtcp", t.f) /\ t.n \in 0..Len(s) BY <1>0, <1>3, <1>4, <1>5, <1>6
<1> QED BY <1>7 DEF t

\* tcpclv3_parser_reset keeps the frame parser well-formed.
LEMMA ResetOK ==
  ASSUME NEW f, FrameOK("tcpclv3", f)
  PROVE  FrameOK("tcpclv3", tcpclv3_parser_reset(f))
BY DEF FrameOK, tcpclv3_parser_reset

\* A byte of a TCPCL header keeps the frame parser well-formed.
LEMMA TcpclByteOK ==
  ASSUME NEW f, FrameOK("tcpclv3", f), ~f.sub, NEW byte \in Byte
  PROVE  FrameOK("tcpclv3", tcpclv3_parser_read_byte(f, byte))
<1>1. CASE f.stage = "EXPECT_TYPE_FLAGS"
  <2> DEFINE g == [f EXCEPT !.stage = "GET_SIZE"]
  <2>1. tcpclv3_parser_read_byte(f, byte) = g \/ tcpclv3_parser_read_byte(f, byte) = tcpclv3_parser_reset(f)
    BY <1>1 DEF tcpclv3_parser_read_byte
  <2>2. FrameOK("tcpclv3", g) BY DEF FrameOK
  <2> QED BY <2>1, <2>2, ResetOK
<1>2. CASE f.stage = "GET_SIZE"
  <2> DEFINE q == sdnv_read(f.sdnv, 32, byte)
             a == [f EXCEPT !.sdnv = q]
             b == [f EXCEPT !.sdnv = sdnv_reset, !.status = "ERROR"]
             c == [f EXCEPT !.sdnv = sdnv_reset, !.left = q.value, !.stage = "FORWARD_BUNDLE", !.sub = TRUE]
             r == ReadSize(f, byte)
  <2>1. tcpclv3_parser_read_byte(f, byte) = r BY <1>2 DEF tcpclv3_parser_read_byte
  <2>2. SdnvOK(q) BY SdnvReadOK DEF FrameOK
  <2>3. r = CASE q.status = "IN_PROGRESS" -> a [] q.status = "ERROR" -> b [] q.status = "DONE" -> c
    BY DEF ReadSize
  <2> HIDE DEF q, r
  <2>4. q.status \in {"IN_PROGRESS", "DONE", "ERROR"} /\ q.value \in Nat BY <2>2 DEF SdnvOK
  <2>5. FrameOK("tcpclv3", a) BY <2>2 DEF FrameOK
  <2>6. FrameOK("tcpclv3", b) BY SdnvResetOK DEF FrameOK
  <2>7. FrameOK("tcpclv3", c) BY <2>4, SdnvResetOK DEF FrameOK
  <2> HIDE DEF a, b, c
  <2> QED BY <2>1, <2>3, <2>4, <2>5, <2>6, <2>7
<1> QED BY <1>1, <1>2 DEF FrameOK

RtOK(t, s) == FrameOK("tcpclv3", t.f) /\ t.n \in 0..Len(s)

\* One round of tcpclv3_parser_read takes one byte.
LEMMA TcpclRoundOK ==
  ASSUME NEW s \in Seq(Byte), NEW t, RtOK(t, s)
  PROVE  RtOK(ReadTcpclv3Round(t, s), s)
<1>0. t.n \in Nat /\ Len(s) \in Nat /\ FrameOK("tcpclv3", t.f) BY DEF RtOK
<1> DEFINE stop == t.n >= Len(s) \/ t.f.status # "GOOD" \/ t.f.sub
           b == [f |-> tcpclv3_parser_read_byte(t.f, s[t.n + 1]), n |-> t.n + 1]
<1>1. ReadTcpclv3Round(t, s) = IF stop THEN t ELSE b BY DEF ReadTcpclv3Round
<1>2. ASSUME ~stop PROVE RtOK(b, s)
  <2>1. t.n + 1 \in 1..Len(s) BY <1>0, <1>2
  <2>2. s[t.n + 1] \in Byte BY <2>1, ElementOfSeq
  <2>3. FrameOK("tcpclv3", tcpclv3_parser_read_byte(t.f, s[t.n + 1])) BY <1>0, <1>2, <2>2, TcpclByteOK
  <2> QED BY <2>1, <2>3 DEF RtOK
<1> HIDE DEF stop, b
<1> QED BY <1>1, <1>2

\* tcpclv3_parser_read takes no more than the buffer holds.
LEMMA TcpclReadOK ==
  ASSUME NEW s \in Seq(Byte), NEW f, FrameOK("tcpclv3", f)
  PROVE  /\ FrameOK("tcpclv3", tcpclv3_parser_read(f, s).f)
         /\ tcpclv3_parser_read(f, s).n \in 0..Len(s)
<1> DEFINE N == Len(s)
           a == [f |-> f, n |-> 0]
           after[i \in 0..N] == IF i = 0 THEN a ELSE ReadTcpclv3Round(after[i - 1], s)
<1>0. N \in Nat /\ Len(s) \in Nat OBVIOUS
<1>1. tcpclv3_parser_read(f, s) = after[N] BY DEF tcpclv3_parser_read
<1> HIDE DEF N
<1>2. after = [i \in 0..N |-> IF i = 0 THEN a ELSE ReadTcpclv3Round(after[i - 1], s)]
  <2> HIDE DEF a
  <2>1. PICK g : Rounds(g, "tcpclv3", N, a, s) BY <1>0, RoundsExist
  <2>2. \A t : Round("tcpclv3", t, s) = ReadTcpclv3Round(t, s) BY DEF Round
  <2>3. g = [i \in 0..N |-> IF i = 0 THEN a ELSE ReadTcpclv3Round(g[i - 1], s)] BY <2>1, <2>2 DEF Rounds
  <2> QED BY <2>3 DEF after
<1>3. RtOK(a, s) BY <1>0 DEF RtOK
<1> HIDE DEF a, after
<1> DEFINE T == {i \in Nat : i <= N => RtOK(after[i], s)}
<1>4. 0 \in T
  <2>1. 0 \in 0..N BY <1>0
  <2>2. after[0] = a BY <1>2, <2>1
  <2> QED BY <2>2, <1>3
<1>5. ASSUME NEW i \in Nat, i \in T PROVE i + 1 \in T
  <2> SUFFICES ASSUME i + 1 <= N PROVE RtOK(after[i + 1], s) OBVIOUS
  <2>1. i <= N /\ i + 1 \in 0..N /\ i + 1 # 0 /\ (i + 1) - 1 = i BY <1>0
  <2>2. RtOK(after[i], s) BY <1>5, <2>1
  <2>3. after[i + 1] = ReadTcpclv3Round(after[i], s) BY <1>2, <2>1
  <2> QED BY <2>2, <2>3, TcpclRoundOK
<1>6. Nat \subseteq T
  <2> HIDE DEF T
  <2> QED BY <1>4, <1>5, NatSet
<1>7. RtOK(after[N], s) BY <1>0, <1>6
<1> QED BY <1>1, <1>7 DEF RtOK

\* spp_parser_read takes no more than the buffer holds.
LEMMA SppReadOK ==
  ASSUME NEW s \in Seq(Byte), NEW f
  PROVE  spp_parser_read(f, s).n \in 0..Len(s)
<1> DEFINE N == Len(s)
           a == [f |-> f, n |-> 0, more |-> TRUE]
           after[i \in 0..N] == IF i = 0 THEN a ELSE ReadSppRound(after[i - 1], s)
<1>0. N \in Nat /\ Len(s) \in Nat OBVIOUS
<1>1. spp_parser_read(f, s) = after[N] BY DEF spp_parser_read
<1> HIDE DEF N
<1>2. after = [i \in 0..N |-> IF i = 0 THEN a ELSE ReadSppRound(after[i - 1], s)]
  <2> HIDE DEF a
  <2>1. PICK g : Rounds(g, "tcpspp", N, a, s) BY <1>0, RoundsExist
  <2>2. \A t : Round("tcpspp", t, s) = ReadSppRound(t, s) BY DEF Round
  <2>3. g = [i \in 0..N |-> IF i = 0 THEN a ELSE ReadSppRound(g[i - 1], s)] BY <2>1, <2>2 DEF Rounds
  <2> QED BY <2>3 DEF after
<1>3. a.n \in 0..Len(s) BY <1>0
<1> HIDE DEF a, after
<1> DEFINE T == {i \in Nat : i <= N => after[i].n \in 0..Len(s)}
<1>4. 0 \in T
  <2>1. 0 \in 0..N BY <1>0
  <2>2. after[0] = a BY <1>2, <2>1
  <2> QED BY <2>2, <1>3
<1>5. ASSUME NEW i \in Nat, i \in T PROVE i + 1 \in T
  <2> SUFFICES ASSUME i + 1 <= N PROVE after[i + 1].n \in 0..Len(s) OBVIOUS
  <2>1. i <= N /\ i + 1 \in 0..N /\ i + 1 # 0 /\ (i + 1) - 1 = i BY <1>0
  <2> DEFINE t == after[i]
             b == spp_parse_byte(t.f, s[t.n + 1])
  <2>2. t.n \in 0..Len(s) BY <1>5, <2>1
  <2>3. after[i + 1] = ReadSppRound(t, s) BY <1>2, <2>1
  <2>4. ReadSppRound(t, s) = IF t.n >= Len(s) \/ ~t.more THEN t ELSE SppByteRead(t, b) BY DEF ReadSppRound
  <2>5. SppByteRead(t, b).n = t.n + 1 BY DEF SppByteRead
  <2> HIDE DEF t, b
  <2>6. CASE t.n >= Len(s) \/ ~t.more BY <2>2, <2>3, <2>4, <2>6
  <2>7. CASE ~(t.n >= Len(s) \/ ~t.more)
    <3>1. t.n + 1 \in 0..Len(s) BY <1>0, <2>2, <2>7
    <3> QED BY <2>3, <2>4, <2>5, <2>7, <3>1
  <2> QED BY <2>6, <2>7
<1>6. Nat \subseteq T
  <2> HIDE DEF T
  <2> QED BY <1>4, <1>5, NatSet
<1> QED BY <1>0, <1>1, <1>6

\* crc16_parser_read takes at most two bytes.
LEMMA Crc16OK ==
  ASSUME NEW s \in Seq(Byte), NEW c, c.ctr \in 0..2
  PROVE  /\ crc16_parser_read(c, s).c.ctr \in 0..2
         /\ crc16_parser_read(c, s).n \in 0..Len(s)
<1> DEFINE m == Min({Len(s), 2 - c.ctr})
<1>1. Len(s) \in Nat /\ 2 - c.ctr \in Nat OBVIOUS
<1>2. m \in Nat /\ m <= Len(s) /\ m <= 2 - c.ctr BY <1>1, MinTwo
<1>3. crc16_parser_read(c, s).c.ctr = c.ctr + m /\ crc16_parser_read(c, s).n = m BY DEF crc16_parser_read
<1> HIDE DEF m
<1> QED BY <1>1, <1>2, <1>3

-----------------------------------------------------------------------------
(***************************************************************************)
(* The RX task                                                             *)
(***************************************************************************)
RxFields == {"pc", "buf", "parsed", "bulk", "cur", "payload_type", "frame", "p6", "p7", "crc",
             "spp_payload", "delivered", "before", "cut", "fault"}

List(d) == \E S : d \in Seq(S)

\* The current parser of a bundle is that of the payload's type.
RxOK(r) ==
  /\ DOMAIN r = RxFields
  /\ FrameOK(kind, r.frame) /\ P6OK(r.p6) /\ P7OK(r.p7) /\ r.crc.ctr \in 0..2
  /\ r.cur \in {"frame", "bundle6", "bundle7", "crc"}
  /\ r.payload_type \in {"UNKNOWN", "BUNDLE6", "BUNDLE7"}
  /\ r.cur = "bundle6" => r.payload_type = "BUNDLE6"
  /\ r.cur = "bundle7" => r.payload_type = "BUNDLE7"
  /\ List(r.delivered)
  /\ r.fault # "assert"

\* What forwarding bytes to a parser leaves alone; bundles are only added.
Kept(q, r) ==
  /\ q.pc = r.pc /\ q.buf = r.buf /\ q.parsed = r.parsed /\ q.bulk = r.bulk /\ q.before = r.before
  /\ Len(r.delivered) <= Len(q.delivered)

\* The result t of forwarding the bytes s in state r.
ForwardOK(t, r, s) == RxOK(t.r) /\ Kept(t.r, r) /\ t.n \in 0..Len(s)

\* The delivered bundles are a finite sequence.
LEMMA ListLen ==
  ASSUME NEW d, List(d)
  PROVE  Len(d) \in Nat
BY DEF List

\* A parser delivers behind what was delivered.
LEMMA ListAdds ==
  ASSUME NEW d, List(d), NEW o, Out(o)
  PROVE  List(d \o o) /\ Len(d) <= Len(d \o o)
<1>1. PICK S : d \in Seq(S) BY DEF List
<1>2. CASE o = <<>>
  <2>1. d \o o = d BY <1>1, <1>2
  <2> QED BY <1>1, <2>1 DEF List
<1>3. CASE o # <<>>
  <2>1. PICK b : o = <<b>> BY <1>3 DEF Out
  <2> DEFINE U == S \cup {b}
  <2>2. d \in Seq(U)
    <3>1. \A i \in 1..Len(d) : d[i] \in U BY <1>1, ElementOfSeq
    <3>2. d = [i \in 1..Len(d) |-> d[i]] BY <1>1
    <3>3. Len(d) \in Nat BY <1>1
    <3> QED BY <3>1, <3>2, <3>3
  <2>3. <<b>> \in Seq(U) OBVIOUS
  <2>4. d \o <<b>> \in Seq(U) /\ Len(d \o <<b>>) = Len(d) + Len(<<b>>) BY <2>2, <2>3, ConcatProperties
  <2> QED BY <1>1, <2>1, <2>4 DEF List
<1> QED BY <1>2, <1>3

\* bundle6_parser_init starts well-formed.
LEMMA Init6OK == P6OK(bundle6_parser_init)
<1>1. [s \in DOMAIN SdnvStages |-> 0] \in [DOMAIN SdnvStages -> Nat] OBVIOUS
<1> DEFINE v == [s \in DOMAIN SdnvStages |-> 0]
<1> HIDE DEF v
<1>2. bundle6_parser_init =
  [status |-> "GOOD", bulk |-> FALSE, next_bytes |-> 0,
   stage |-> "VERSION", next |-> "VERSION", primary |-> TRUE,
   sdnv |-> sdnv_reset, val |-> v,
   primary_bytes_remaining |-> 0, cur_bytes_remaining |-> 0,
   current_index |-> 0, current_size |-> 0, last_block |-> FALSE,
   dict |-> <<>>, eids |-> <<>>, blocks |-> <<>>, block |-> NoBlock, out |-> <<>>]
  BY DEF bundle6_parser_init, v
<1> QED BY <1>1, <1>2, SdnvResetOK DEF P6OK, P6Fields, Out, v

\* bundle7_parser_init starts well-formed.
LEMMA Init7OK == P7OK(bundle7_parser_init)
BY DEF P7OK, P7Fields, Out, bundle7_parser_init, Handlers

\* The frame parser of each CLA starts, and is reset, well-formed.
LEMMA FrameInitOK ==
  ASSUME NEW k \in {"mtcp", "tcpclv3", "tcpspp"}
  PROVE  /\ FrameOK(k, FrameInit(k))
         /\ \A f : FrameOK(k, f) => FrameOK(k, FrameReset(k, f))
<1>1. CASE k = "mtcp"
  <2>1. FrameInit(k) = mtcp_parser_reset BY <1>1 DEF FrameInit
  <2>2. \A f : FrameReset(k, f) = mtcp_parser_reset BY <1>1 DEF FrameReset
  <2> QED BY <1>1, <2>1, <2>2 DEF FrameOK, mtcp_parser_reset
<1>2. CASE k = "tcpclv3"
  <2>1. FrameInit(k) = tcpclv3_parser_init BY <1>2 DEF FrameInit
  <2>2. \A f : FrameReset(k, f) = tcpclv3_parser_reset(f) BY <1>2 DEF FrameReset
  <2>3. FrameOK(k, tcpclv3_parser_init) BY <1>2, SdnvResetOK DEF FrameOK, tcpclv3_parser_init
  <2> QED BY <1>2, <2>1, <2>2, <2>3, ResetOK
<1>3. CASE k = "tcpspp" BY <1>3 DEF FrameOK
<1> QED BY <1>1, <1>2, <1>3

\* rx_task_reset_parsers leaves the buffer and what was delivered alone.
LEMMA ResetParsersOK ==
  ASSUME kind \in {"mtcp", "tcpclv3", "tcpspp"}, NEW r, RxOK(r)
  PROVE  RxOK(reset_parsers(r)) /\ Kept(reset_parsers(r), r)
<1> DEFINE f == FrameReset(kind, r.frame)
           p == bundle6_parser_reset(r.p6)
           g == IF r.p7.dangling THEN "freed twice" ELSE r.fault
           q == [r EXCEPT !.payload_type = "UNKNOWN", !.cur = "frame", !.frame = f,
                          !.spp_payload = "DATA", !.p6 = p, !.p7 = bundle7_parser_init, !.fault = g]
<1>1. FrameOK(kind, f) BY FrameInitOK DEF RxOK
<1>2. P6OK(p) BY Init6OK DEF bundle6_parser_reset, RxOK
<1>3. g # "assert" BY DEF RxOK
<1>4. reset_parsers(r) = q BY DEF reset_parsers
<1> HIDE DEF f, p, g
<1>5. /\ DOMAIN q = RxFields /\ q.frame = f /\ q.p6 = p /\ q.p7 = bundle7_parser_init
      /\ q.crc = r.crc /\ q.cur = "frame" /\ q.payload_type = "UNKNOWN"
      /\ q.delivered = r.delivered /\ q.fault = g
      /\ q.pc = r.pc /\ q.buf = r.buf /\ q.parsed = r.parsed /\ q.bulk = r.bulk /\ q.before = r.before
  BY DEF RxOK, RxFields
<1> HIDE DEF q
<1>6. r.crc.ctr \in 0..2 /\ List(r.delivered) BY DEF RxOK
<1>7. RxOK(q) BY <1>1, <1>2, <1>3, <1>5, <1>6, Init7OK DEF RxOK
<1>8. Kept(q, r) BY <1>5, <1>6, ListLen DEF Kept
<1> QED BY <1>4, <1>7, <1>8

\* A parser read something; what it finished is delivered.
ParserOK(p, type) == (type = "BUNDLE6" => P6OK(p)) /\ (type = "BUNDLE7" => P7OK(p))

\* A bundle parser that took bytes becomes the current parser.
LEMMA TookOK ==
  ASSUME NEW r, RxOK(r), NEW type \in {"BUNDLE6", "BUNDLE7"}, NEW t, ParserOK(t.p, type)
  PROVE  /\ RxOK(Took(r, t, type).r) /\ Kept(Took(r, t, type).r, r)
         /\ Took(r, t, type).n = t.n /\ Took(r, t, type).r.frame = r.frame
<1> DEFINE p == [t.p EXCEPT !.out = <<>>]
           d == r.delivered \o t.p.out
           a == [r EXCEPT !.payload_type = type, !.delivered = d, !.cur = "bundle6", !.p6 = p]
           b == [r EXCEPT !.payload_type = type, !.delivered = d, !.cur = "bundle7", !.p7 = p]
           x == Took(r, t, type)
<1>1. Out(t.p.out) BY DEF ParserOK, P6OK, P7OK
<1>2. List(d) /\ Len(r.delivered) <= Len(d) BY <1>1, ListAdds DEF RxOK
<1>3. x.r = (IF type = "BUNDLE6" THEN a ELSE b) /\ x.n = t.n BY DEF Took
<1>4. Out(<<>>) BY DEF Out
<1>5. type = "BUNDLE6" => P6OK(p) BY <1>4 DEF ParserOK, P6OK, P6Fields
<1>6. type = "BUNDLE7" => P7OK(p) BY <1>4 DEF ParserOK, P7OK, P7Fields
<1> HIDE DEF p, d, x
<1>7. CASE type = "BUNDLE6"
  <2>1. /\ DOMAIN a = RxFields /\ a.frame = r.frame /\ a.p6 = p /\ a.p7 = r.p7
        /\ a.crc = r.crc /\ a.cur = "bundle6" /\ a.payload_type = type
        /\ a.delivered = d /\ a.fault = r.fault
        /\ a.pc = r.pc /\ a.buf = r.buf /\ a.parsed = r.parsed /\ a.bulk = r.bulk /\ a.before = r.before
    BY DEF RxOK, RxFields
  <2>2. x.r = a BY <1>3, <1>7
  <2> HIDE DEF a
  <2>3. RxOK(a) BY <1>2, <1>5, <1>7, <2>1 DEF RxOK
  <2>4. Kept(a, r) BY <1>2, <2>1 DEF Kept
  <2> QED BY <1>3, <2>1, <2>2, <2>3, <2>4 DEF x
<1>8. CASE type = "BUNDLE7"
  <2>1. /\ DOMAIN b = RxFields /\ b.frame = r.frame /\ b.p6 = r.p6 /\ b.p7 = p
        /\ b.crc = r.crc /\ b.cur = "bundle7" /\ b.payload_type = type
        /\ b.delivered = d /\ b.fault = r.fault
        /\ b.pc = r.pc /\ b.buf = r.buf /\ b.parsed = r.parsed /\ b.bulk = r.bulk /\ b.before = r.before
    BY DEF RxOK, RxFields
  <2>2. x.r = b BY <1>3, <1>8
  <2> HIDE DEF b
  <2>3. RxOK(b) BY <1>2, <1>6, <1>8, <2>1 DEF RxOK
  <2>4. Kept(b, r) BY <1>2, <2>1 DEF Kept
  <2> QED BY <1>3, <2>1, <2>2, <2>3, <2>4 DEF x
<1> QED BY <1>7, <1>8

\* A bundle parser takes no more than it is given.
LEMMA ReadBundleOK ==
  ASSUME NEW r, RxOK(r), NEW s \in Seq(Byte), NEW type \in {"BUNDLE6", "BUNDLE7"}
  PROVE  ForwardOK(ReadBundle(r, s, type), r, s) /\ ReadBundle(r, s, type).r.frame = r.frame
<1> DEFINE t == IF type = "BUNDLE6" THEN bundle6_parser_read(r.p6, s) ELSE bundle7_parser_read(r.p7, s)
<1>1. ReadBundle(r, s, type) = Took(r, t, type)
  <2>1. ReadBundle(r, s, type) = CHOOSE x \in {Took(r, y, type) : y \in {t}} : TRUE BY DEF ReadBundle, With
  <2> HIDE DEF t
  <2>2. {Took(r, y, type) : y \in {t}} = {Took(r, t, type)} OBVIOUS
  <2> QED BY <2>1, <2>2, OneValue
<1>2. ParserOK(t.p, type) /\ t.n \in 0..Len(s)
  <2>1. CASE type = "BUNDLE6"
    <3>1. t = bundle6_parser_read(r.p6, s) BY <2>1
    <3> HIDE DEF t
    <3> QED BY <2>1, <3>1, Read6OK DEF RxOK, ParserOK
  <2>2. CASE type = "BUNDLE7"
    <3>1. t = bundle7_parser_read(r.p7, s) BY <2>2
    <3> HIDE DEF t
    <3> QED BY <2>2, <3>1, Read7OK DEF RxOK, ParserOK
  <2> QED BY <2>1, <2>2
<1> HIDE DEF t
<1>3. /\ RxOK(Took(r, t, type).r) /\ Kept(Took(r, t, type).r, r)
      /\ Took(r, t, type).n = t.n /\ Took(r, t, type).r.frame = r.frame
  BY <1>2, TookOK
<1> QED BY <1>1, <1>2, <1>3 DEF ForwardOK

\* Other fields of the RX task.
LEMMA CutOK ==
  ASSUME NEW r, RxOK(r)
  PROVE  RxOK([r EXCEPT !.cut = TRUE]) /\ Kept([r EXCEPT !.cut = TRUE], r)
<1> DEFINE a == [r EXCEPT !.cut = TRUE]
<1>1. /\ DOMAIN a = RxFields /\ a.frame = r.frame /\ a.p6 = r.p6 /\ a.p7 = r.p7
      /\ a.crc = r.crc /\ a.cur = r.cur /\ a.payload_type = r.payload_type
      /\ a.delivered = r.delivered /\ a.fault = r.fault
      /\ a.pc = r.pc /\ a.buf = r.buf /\ a.parsed = r.parsed /\ a.bulk = r.bulk /\ a.before = r.before
  BY DEF RxOK, RxFields
<1> HIDE DEF a
<1>2. RxOK(a) BY <1>1 DEF RxOK
<1>3. Len(r.delivered) \in Nat BY ListLen DEF RxOK
<1>4. Kept(a, r) BY <1>1, <1>3 DEF Kept
<1> QED BY <1>2, <1>4 DEF a

\* What two steps keep, both together keep.
LEMMA KeptTrans ==
  ASSUME NEW p, NEW q, NEW r, RxOK(p), RxOK(q), RxOK(r), Kept(q, r), Kept(p, q)
  PROVE  Kept(p, r)
<1>1. Len(p.delivered) \in Nat /\ Len(q.delivered) \in Nat /\ Len(r.delivered) \in Nat
  BY ListLen DEF RxOK
<1> QED BY <1>1 DEF Kept

\* The switch on the payload's type takes no more than it is given, and a
\* parser that took a byte leaves the frame alone.
LEMMA ReadPayloadOK ==
  ASSUME kind \in {"mtcp", "tcpclv3", "tcpspp"}, NEW r, RxOK(r), NEW s \in Seq(Byte)
  PROVE  /\ ForwardOK(ReadPayload(r, s), r, s)
         /\ ReadPayload(r, s).n = 0 \/ ReadPayload(r, s).r.frame = r.frame
<1> DEFINE type == select_bundle_parser_version(r, s)
           t == IF type = "UNKNOWN" THEN [r |-> r, n |-> 0] ELSE ReadBundle(r, s, type)
<1>0. Len(s) \in Nat OBVIOUS
<1>1. ReadPayload(r, s) = NothingParsed(r, t)
  <2>1. ReadPayload(r, s) = CHOOSE x \in {NothingParsed(r, y) : y \in {t}} : TRUE BY DEF ReadPayload, With
  <2> HIDE DEF t
  <2>2. {NothingParsed(r, y) : y \in {t}} = {NothingParsed(r, t)} OBVIOUS
  <2> QED BY <2>1, <2>2, OneValue
<1>2. type \in {"UNKNOWN", "BUNDLE6", "BUNDLE7"} BY DEF select_bundle_parser_version, BundleVersion, RxOK
<1> HIDE DEF type
<1>3. ForwardOK(t, r, s) /\ t.r.frame = r.frame
  <2>1. CASE type = "UNKNOWN"
    <3>1. Kept(r, r)
      <4>1. Len(r.delivered) \in Nat BY ListLen DEF RxOK
      <4> QED BY <4>1 DEF Kept
    <3>2. t.r = r /\ t.n = 0 BY <2>1
    <3> HIDE DEF t
    <3> QED BY <1>0, <3>1, <3>2 DEF ForwardOK
  <2>2. CASE type # "UNKNOWN"
    <3>1. ForwardOK(ReadBundle(r, s, type), r, s) /\ ReadBundle(r, s, type).r.frame = r.frame
      BY <1>2, <2>2, ReadBundleOK
    <3> QED BY <2>2, <3>1
  <2> QED BY <2>1, <2>2
<1> HIDE DEF t
<1> DEFINE q == reset_parsers(t.r)
           c == [q EXCEPT !.cut = TRUE]
           u == [r |-> c, n |-> 0]
<1>4. NothingParsed(r, t) = u \/ NothingParsed(r, t) = t BY DEF NothingParsed
<1>5. ForwardOK(u, r, s)
  <2>1. RxOK(t.r) /\ Kept(t.r, r) BY <1>3 DEF ForwardOK
  <2>2. RxOK(q) /\ Kept(q, t.r) BY <2>1, ResetParsersOK
  <2> HIDE DEF q
  <2>3. RxOK(c) /\ Kept(c, q) BY <2>2, CutOK
  <2>4. u.r = c /\ u.n = 0 OBVIOUS
  <2> HIDE DEF c, u
  <2>5. Kept(c, r) BY <2>1, <2>2, <2>3, KeptTrans
  <2> QED BY <1>0, <2>3, <2>4, <2>5 DEF ForwardOK
<1>6. u.n = 0 OBVIOUS
<1> HIDE DEF u
<1> QED BY <1>1, <1>3, <1>4, <1>5, <1>6

\* What the bundle parser took is no more than the frame has.
LEMMA CountedOK ==
  ASSUME kind \in {"mtcp", "tcpclv3"}, NEW r, RxOK(r), NEW s \in Seq(Byte),
         Len(s) <= r.frame.left, NEW t, ForwardOK(t, r, s), t.n = 0 \/ t.r.frame = r.frame
  PROVE  ForwardOK(Counted(t), r, s)
<1> DEFINE left == t.r.frame.left - t.n
           f == [t.r.frame EXCEPT !.left = left]
           g == IF left < 0 THEN "assert" ELSE t.r.fault
           q == [t.r EXCEPT !.frame = f, !.fault = g]
           u == IF left = 0 THEN reset_parsers(q) ELSE q
<1>0. RxOK(t.r) /\ Kept(t.r, r) /\ t.n \in 0..Len(s) /\ Len(s) \in Nat BY DEF ForwardOK
<1>1. left \in Nat
  <2>1. t.r.frame.left \in Nat /\ r.frame.left \in Nat BY <1>0 DEF RxOK, FrameOK
  <2>2. t.n <= t.r.frame.left BY <1>0, <2>1
  <2> QED BY <1>0, <2>1, <2>2
<1>2. Counted(t) = [r |-> u, n |-> t.n]
  <2>1. DOMAIN t.r = RxFields BY <1>0 DEF RxOK
  <2>2. [t.r EXCEPT !.frame.left = left, !.fault = g] = q BY <2>1 DEF RxFields
  <2> HIDE DEF q
  <2> QED BY <2>2 DEF Counted
<1>3. g # "assert" BY <1>0, <1>1 DEF RxOK
<1> HIDE DEF left, g
<1>4. FrameOK(kind, f) BY <1>0, <1>1 DEF RxOK, FrameOK
<1> HIDE DEF f
<1>5. /\ DOMAIN q = RxFields /\ q.frame = f /\ q.p6 = t.r.p6 /\ q.p7 = t.r.p7
      /\ q.crc = t.r.crc /\ q.cur = t.r.cur /\ q.payload_type = t.r.payload_type
      /\ q.delivered = t.r.delivered /\ q.fault = g
      /\ q.pc = t.r.pc /\ q.buf = t.r.buf /\ q.parsed = t.r.parsed /\ q.bulk = t.r.bulk
      /\ q.before = t.r.before
  BY <1>0 DEF RxOK, RxFields
<1> HIDE DEF q
<1>6. RxOK(q)
  <2> DEFINE p == t.r
  <2>1. RxOK(p) BY <1>0
  <2> HIDE DEF p
  <2>2. /\ DOMAIN q = RxFields /\ q.frame = f /\ q.p6 = p.p6 /\ q.p7 = p.p7
        /\ q.crc = p.crc /\ q.cur = p.cur /\ q.payload_type = p.payload_type
        /\ q.delivered = p.delivered /\ q.fault = g
    BY <1>5 DEF p
  <2> QED BY <1>3, <1>4, <2>1, <2>2 DEF RxOK
<1>7. Kept(q, r) BY <1>0, <1>5 DEF Kept
<1>8. RxOK(u) /\ Kept(u, r)
  <2>1. RxOK(reset_parsers(q)) /\ Kept(reset_parsers(q), q) BY <1>6, ResetParsersOK
  <2>2. Kept(reset_parsers(q), r) BY <1>6, <1>7, <2>1, KeptTrans
  <2> QED BY <1>6, <1>7, <2>1, <2>2
<1> HIDE DEF u
<1> QED BY <1>0, <1>2, <1>8 DEF ForwardOK

\* mtcp and tcpclv3: the parser is given at most what is left of the frame,
\* so the assertion holds.
LEMMA BoundedOK ==
  ASSUME kind \in {"mtcp", "tcpclv3"}, NEW r, RxOK(r), NEW s \in Seq(Byte)
  PROVE  ForwardOK(Bounded(r, s), r, s)
<1> DEFINE m == Min({Len(s), r.frame.left})
           b == Bytes(s, 1, m)
           t == ReadPayload(r, b)
<1>0. Len(s) \in Nat /\ r.frame.left \in Nat BY DEF RxOK, FrameOK
<1>1. m \in Nat /\ m <= Len(s) /\ m <= r.frame.left BY <1>0, MinTwo
<1>2. Bounded(r, s) = Counted(t)
  <2>1. Bounded(r, s) = CHOOSE x \in {Counted(y) : y \in {t}} : TRUE BY DEF Bounded, With
  <2> HIDE DEF t
  <2>2. {Counted(y) : y \in {t}} = {Counted(t)} OBVIOUS
  <2> QED BY <2>1, <2>2, OneValue
<1> HIDE DEF m
<1>3. b \in Seq(Byte) /\ Len(b) = m
  <2>1. 1 + m <= Len(s) + 1 BY <1>0, <1>1
  <2> QED BY <1>1, <2>1, SliceFacts
<1> HIDE DEF b
<1>4. ForwardOK(t, r, b) /\ (t.n = 0 \/ t.r.frame = r.frame) BY <1>3, ReadPayloadOK
<1> HIDE DEF t
<1>5. ForwardOK(Counted(t), r, b) BY <1>1, <1>3, <1>4, CountedOK
<1> QED BY <1>0, <1>1, <1>2, <1>3, <1>5 DEF ForwardOK

\* A frame parser read something.
LEMMA FrameReadOK ==
  ASSUME NEW r, RxOK(r), NEW s, NEW t, FrameOK(kind, t.f), t.n \in 0..Len(s)
  PROVE  ForwardOK(FrameRead(r, t), r, s)
<1> DEFINE q == [r EXCEPT !.frame = t.f]
           u == FrameRead(r, t)
<1>1. /\ DOMAIN q = RxFields /\ q.frame = t.f /\ q.p6 = r.p6 /\ q.p7 = r.p7
      /\ q.crc = r.crc /\ q.cur = r.cur /\ q.payload_type = r.payload_type
      /\ q.delivered = r.delivered /\ q.fault = r.fault
      /\ q.pc = r.pc /\ q.buf = r.buf /\ q.parsed = r.parsed /\ q.bulk = r.bulk /\ q.before = r.before
  BY DEF RxOK, RxFields
<1>2. u.r = q /\ u.n = t.n BY DEF FrameRead
<1> HIDE DEF q, u
<1>3. RxOK(q) BY <1>1 DEF RxOK
<1>4. Len(r.delivered) \in Nat BY ListLen DEF RxOK
<1>5. Kept(q, r) BY <1>1, <1>4 DEF Kept
<1>6. ForwardOK(u, r, s) BY <1>2, <1>3, <1>5 DEF ForwardOK
<1> QED BY <1>6 DEF u

\* mtcp_forward_to_specific_parser takes no more than the buffer holds.
LEMMA ForwardMtcpOK ==
  ASSUME kind = "mtcp", NEW r, RxOK(r), NEW s \in Seq(Byte)
  PROVE  ForwardOK(mtcp_forward_to_specific_parser(r, s), r, s)
<1> DEFINE t == mtcp_parser_parse(r.frame, s)
<1>1. FrameOK("mtcp", t.f) /\ t.n \in 0..Len(s) BY MtcpOK DEF RxOK
<1>2. mtcp_forward_to_specific_parser(r, s) = IF r.frame.sub THEN Bounded(r, s)
        ELSE CHOOSE x \in {FrameRead(r, y) : y \in {t}} : TRUE
  BY DEF mtcp_forward_to_specific_parser, With
<1> HIDE DEF t
<1>3. {FrameRead(r, y) : y \in {t}} = {FrameRead(r, t)} OBVIOUS
<1>4. ForwardOK(Bounded(r, s), r, s) BY BoundedOK
<1>5. ForwardOK(FrameRead(r, t), r, s) BY <1>1, FrameReadOK
<1> QED BY <1>2, <1>3, <1>4, <1>5, OneValue

\* tcpclv3_forward_to_specific_parser takes no more than the buffer holds.
LEMMA ForwardTcpclOK ==
  ASSUME kind = "tcpclv3", NEW r, RxOK(r), NEW s \in Seq(Byte)
  PROVE  ForwardOK(tcpclv3_forward_to_specific_parser(r, s), r, s)
<1> DEFINE t == tcpclv3_parser_read(r.frame, s)
<1>1. FrameOK("tcpclv3", t.f) /\ t.n \in 0..Len(s) BY TcpclReadOK DEF RxOK
<1>2. tcpclv3_forward_to_specific_parser(r, s) = IF r.frame.sub THEN Bounded(r, s)
        ELSE CHOOSE x \in {FrameRead(r, y) : y \in {t}} : TRUE
  BY DEF tcpclv3_forward_to_specific_parser, With
<1> HIDE DEF t
<1>3. {FrameRead(r, y) : y \in {t}} = {FrameRead(r, t)} OBVIOUS
<1>4. ForwardOK(Bounded(r, s), r, s) BY BoundedOK
<1>5. ForwardOK(FrameRead(r, t), r, s) BY <1>1, FrameReadOK
<1> QED BY <1>2, <1>3, <1>4, <1>5, OneValue

\* The checksum behind a bundle in a space packet.
LEMMA ThenCrcOK ==
  ASSUME NEW r, RxOK(r)
  PROVE  RxOK(ThenCrc(r)) /\ Kept(ThenCrc(r), r)
<1> DEFINE q == [r EXCEPT !.spp_payload = "CRC16", !.payload_type = "UNKNOWN",
                          !.cur = "crc", !.crc = crc16_parser_init]
<1>1. ThenCrc(r) = q \/ ThenCrc(r) = r BY DEF ThenCrc
<1>2. /\ DOMAIN q = RxFields /\ q.frame = r.frame /\ q.p6 = r.p6 /\ q.p7 = r.p7
      /\ q.crc = crc16_parser_init /\ q.cur = "crc" /\ q.payload_type = "UNKNOWN"
      /\ q.delivered = r.delivered /\ q.fault = r.fault
      /\ q.pc = r.pc /\ q.buf = r.buf /\ q.parsed = r.parsed /\ q.bulk = r.bulk /\ q.before = r.before
  BY DEF RxOK, RxFields
<1> HIDE DEF q
<1>3. crc16_parser_init.ctr \in 0..2 BY DEF crc16_parser_init
<1>4. RxOK(q) BY <1>2, <1>3 DEF RxOK
<1>5. Len(r.delivered) \in Nat BY ListLen DEF RxOK
<1>6. Kept(q, r) /\ Kept(r, r) BY <1>2, <1>5 DEF Kept
<1> QED BY <1>1, <1>4, <1>6

\* The checksum behind a space packet was read.
LEMMA CrcReadOK ==
  ASSUME NEW r, RxOK(r), NEW s, NEW t, t.c.ctr \in 0..2, t.n \in 0..Len(s)
  PROVE  ForwardOK(CrcRead(r, t), r, s)
<1> DEFINE d == t.c
           x == IF t.c.status = "DONE" THEN "DATA" ELSE r.spp_payload
           q == [r EXCEPT !.crc = d, !.spp_payload = x]
           u == CrcRead(r, t)
<1>1. u.r = q /\ u.n = t.n BY DEF CrcRead
<1> HIDE DEF x, u
<1>2. /\ DOMAIN q = RxFields /\ q.frame = r.frame /\ q.p6 = r.p6 /\ q.p7 = r.p7
      /\ q.crc = d /\ q.cur = r.cur /\ q.payload_type = r.payload_type
      /\ q.delivered = r.delivered /\ q.fault = r.fault
      /\ q.pc = r.pc /\ q.buf = r.buf /\ q.parsed = r.parsed /\ q.bulk = r.bulk /\ q.before = r.before
  BY DEF RxOK, RxFields
<1> HIDE DEF d, q
<1>3. RxOK(q) BY <1>2 DEF RxOK, d
<1>4. Len(r.delivered) \in Nat BY ListLen DEF RxOK
<1>5. Kept(q, r) BY <1>2, <1>4 DEF Kept
<1>6. ForwardOK(u, r, s) BY <1>1, <1>3, <1>5 DEF ForwardOK
<1> QED BY <1>6 DEF u

\* The payload of a space packet was read.
LEMMA PayloadReadOK ==
  ASSUME NEW r, RxOK(r), NEW s, NEW t, ForwardOK(t, r, s)
  PROVE  ForwardOK(PayloadRead(t), r, s)
<1> DEFINE u == PayloadRead(t)
<1>1. RxOK(t.r) /\ Kept(t.r, r) /\ t.n \in 0..Len(s) BY DEF ForwardOK
<1>2. RxOK(ThenCrc(t.r)) /\ Kept(ThenCrc(t.r), t.r) BY <1>1, ThenCrcOK
<1>3. Kept(ThenCrc(t.r), r) BY <1>1, <1>2, KeptTrans
<1>4. u.r = ThenCrc(t.r) /\ u.n = t.n BY DEF PayloadRead
<1> HIDE DEF u
<1>5. ForwardOK(u, r, s) BY <1>1, <1>2, <1>3, <1>4 DEF ForwardOK
<1> QED BY <1>5 DEF u

\* tcpspp_forward_to_specific_parser takes no more than the buffer holds.
LEMMA ForwardSppOK ==
  ASSUME kind = "tcpspp", NEW r, RxOK(r), NEW s \in Seq(Byte)
  PROVE  ForwardOK(tcpspp_forward_to_specific_parser(r, s), r, s)
<1> DEFINE t == spp_parser_read(r.frame, s)
           c == crc16_parser_read(r.crc, s)
           p == ReadPayload(r, s)
<1>1. tcpspp_forward_to_specific_parser(r, s) =
        IF ~r.frame.sub THEN CHOOSE x \in {FrameRead(r, y) : y \in {t}} : TRUE
        ELSE IF r.payload_type = "UNKNOWN" /\ r.spp_payload = "CRC16"
        THEN CHOOSE x \in {CrcRead(r, y) : y \in {c}} : TRUE
        ELSE CHOOSE x \in {PayloadRead(y) : y \in {p}} : TRUE
  BY DEF tcpspp_forward_to_specific_parser, With
<1>2. FrameOK(kind, t.f) BY DEF FrameOK
<1>3. t.n \in 0..Len(s) BY SppReadOK
<1>4. c.c.ctr \in 0..2 /\ c.n \in 0..Len(s) BY Crc16OK DEF RxOK
<1>5. ForwardOK(p, r, s) BY ReadPayloadOK
<1> HIDE DEF t, c, p
<1>6. /\ {FrameRead(r, y) : y \in {t}} = {FrameRead(r, t)}
      /\ {CrcRead(r, y) : y \in {c}} = {CrcRead(r, c)}
      /\ {PayloadRead(y) : y \in {p}} = {PayloadRead(p)}
  OBVIOUS
<1>7. ForwardOK(FrameRead(r, t), r, s) BY <1>2, <1>3, FrameReadOK
<1>8. ForwardOK(CrcRead(r, c), r, s) BY <1>4, CrcReadOK
<1>9. ForwardOK(PayloadRead(p), r, s) BY <1>5, PayloadReadOK
<1>10. tcpspp_forward_to_specific_parser(r, s) \in {FrameRead(r, t), CrcRead(r, c), PayloadRead(p)}
  BY <1>1, <1>6, OneValue
<1> QED BY <1>7, <1>8, <1>9, <1>10

\* forward_to_specific_parser of each CLA takes no more than the buffer
\* holds.
LEMMA ForwardAllOK ==
  ASSUME kind \in {"mtcp", "tcpclv3", "tcpspp"}, NEW r, RxOK(r), NEW s \in Seq(Byte)
  PROVE  ForwardOK(Forward(r, s), r, s)
BY ForwardMtcpOK, ForwardTcpclOK, ForwardSppOK DEF Forward

\* A bulk read feeds only a bundle parser, with no bytes of the buffer.
LEMMA ForwardBulkOK ==
  ASSUME NEW r, RxOK(r), CurParser(r).bulk, NEW data
  PROVE  RxOK(ForwardBulk(r, data)) /\ Kept(ForwardBulk(r, data), r)
<1>1. r.cur \in {"bundle6", "bundle7"}
  <2>1. r.cur \in {"frame", "bundle6", "bundle7", "crc"} BY DEF RxOK
  <2>2. r.cur = "frame" => ~CurParser(r).bulk BY DEF CurParser
  <2>3. r.cur = "crc" => ~CurParser(r).bulk BY DEF CurParser
  <2> QED BY <2>1, <2>2, <2>3
<1> DEFINE p == IF r.cur = "bundle6" THEN bundle6_parser_bulk_done(r.p6, data)
                ELSE bundle7_parser_bulk_done(r.p7, data)
           t == [p |-> p, n |-> 0]
           q == Took(r, t, r.payload_type).r
<1>2. ForwardBulk(r, data) = IF kind = "tcpspp" THEN ThenCrc(q) ELSE q BY DEF ForwardBulk
<1>3. r.cur = "bundle6" => r.payload_type = "BUNDLE6" BY DEF RxOK
<1>4. r.cur = "bundle7" => r.payload_type = "BUNDLE7" BY DEF RxOK
<1>5. ParserOK(p, r.payload_type)
  <2>1. CASE r.cur = "bundle6"
    <3>1. P6OK(bundle6_parser_bulk_done(r.p6, data)) BY BulkDone6OK DEF RxOK
    <3> QED BY <1>3, <2>1, <3>1 DEF ParserOK
  <2>2. CASE r.cur = "bundle7"
    <3>1. P7OK(bundle7_parser_bulk_done(r.p7, data)) BY BulkDoneOK DEF RxOK
    <3> QED BY <1>4, <2>2, <3>1 DEF ParserOK
  <2> QED BY <1>1, <2>1, <2>2
<1> HIDE DEF p
<1>6. t.p = p OBVIOUS
<1> HIDE DEF t
<1>7. RxOK(q) /\ Kept(q, r) BY <1>1, <1>3, <1>4, <1>5, <1>6, TookOK
<1> HIDE DEF q
<1>8. RxOK(ThenCrc(q)) /\ Kept(ThenCrc(q), q) BY <1>7, ThenCrcOK
<1>9. Kept(ThenCrc(q), r) BY <1>7, <1>8, KeptTrans
<1> QED BY <1>2, <1>7, <1>8, <1>9

-----------------------------------------------------------------------------
(***************************************************************************)
(* The inductive invariant                                                 *)
(***************************************************************************)
\* The buffer is full only while it is parsed.
BufferOK(r) ==
  /\ r.pc \in {"task", "parse", "bulk"}
  /\ r.buf \in Seq(Byte) /\ Len(r.buf) <= RxBufferSize
  /\ r.pc \in {"task", "bulk"} => Len(r.buf) < RxBufferSize
  /\ r.parsed \in 0..Len(r.buf)
  /\ r.before \in 0..Len(r.delivered)

BulkOK(r) ==
  r.pc = "bulk" => /\ CurParser(r).bulk
                   /\ r.bulk \in Seq(Byte) /\ Len(r.bulk) < CurParser(r).next_bytes

StreamOK ==
  /\ kind \in {"mtcp", "tcpclv3", "tcpspp"} /\ kind \in Kinds
  /\ plan \in Plans /\ conn \in DOMAIN plan /\ stream \in Seq(Byte)

Inv == StreamOK /\ RxOK(rx) /\ BufferOK(rx) /\ BulkOK(rx)

\* What a connection carries.
LEMMA PacketsOK ==
  ASSUME NEW k \in Kinds, NEW p \in Plans, NEW i \in DOMAIN p
  PROVE  Packets(k, p[i]) \in Seq(Byte)
BY BytesAssumption DEF Byte

\* There is at least one connection.
LEMMA PlanOK ==
  ASSUME NEW p \in Plans
  PROVE  Len(p) \in Nat \ {0} /\ DOMAIN p = 1..Len(p)
<1>1. p \in Seq(ToSet(p)) /\ p # <<>> BY BytesAssumption
<1> QED BY <1>1

\* rx_task_data_init: the invariant holds at the start.
LEMMA InitInv == Init => Inv
<1> SUFFICES ASSUME Init PROVE Inv OBVIOUS
<1>1. kind \in Kinds /\ plan \in Plans /\ conn = 1 /\ stream = Packets(kind, plan[1]) BY DEF Init
<1>2. kind \in {"mtcp", "tcpclv3", "tcpspp"} BY <1>1, RxAssumption
<1>3. 1 \in DOMAIN plan BY <1>1, PlanOK
<1>4. StreamOK BY <1>1, <1>2, <1>3, PacketsOK DEF StreamOK
<1> DEFINE f == FrameInit(kind)
<1>5. rx = rx_task_data_init(f) BY DEF Init
<1>6. FrameOK(kind, f) BY <1>2, FrameInitOK
<1> HIDE DEF f
<1>7. /\ DOMAIN rx = RxFields /\ rx.frame = f /\ rx.p6 = bundle6_parser_init
      /\ rx.p7 = bundle7_parser_init /\ rx.crc = crc16_parser_init
      /\ rx.cur = "frame" /\ rx.payload_type = "UNKNOWN" /\ rx.delivered = <<>> /\ rx.fault = "none"
      /\ rx.pc = "task" /\ rx.buf = <<>> /\ rx.parsed = 0 /\ rx.before = 0
  BY <1>5 DEF rx_task_data_init, RxFields
<1>8. crc16_parser_init.ctr \in 0..2 BY DEF crc16_parser_init
<1>9. List(<<>>)
  <2>1. <<>> \in Seq({}) OBVIOUS
  <2> QED BY <2>1 DEF List
<1>10. RxOK(rx) BY <1>6, <1>7, <1>8, <1>9, Init6OK, Init7OK DEF RxOK
<1>11. BufferOK(rx)
  <2>1. <<>> \in Seq(Byte) /\ Len(<<>>) = 0 OBVIOUS
  <2> QED BY <1>7, <2>1, RxAssumption DEF BufferOK
<1>12. BulkOK(rx) BY <1>7 DEF BulkOK
<1> QED BY <1>4, <1>10, <1>11, <1>12 DEF Inv

\* Fields that only the loop of the task changes.
LoopFields == {"pc", "buf", "parsed", "bulk", "cut", "before"}

\* The loop of the task does not touch the parsers.
LEMMA LoopOK ==
  ASSUME NEW r, RxOK(r), NEW q, DOMAIN q = RxFields,
         \A x \in RxFields \ LoopFields : q[x] = r[x]
  PROVE  RxOK(q) /\ CurParser(q) = CurParser(r) /\ q.delivered = r.delivered
<1>1. /\ q.frame = r.frame /\ q.p6 = r.p6 /\ q.p7 = r.p7
      /\ q.crc = r.crc /\ q.cur = r.cur /\ q.payload_type = r.payload_type
      /\ q.delivered = r.delivered /\ q.fault = r.fault
  BY DEF RxFields, LoopFields
<1>2. RxOK(q) BY <1>1 DEF RxOK
<1>3. CurParser(q) = CurParser(r) BY <1>1 DEF CurParser
<1> QED BY <1>1, <1>2, <1>3

\* The bytes that follow in a buffer.
LEMMA RestFacts ==
  ASSUME NEW s \in Seq(Byte), NEW n \in 0..Len(s)
  PROVE  /\ SubSeq(s, n + 1, Len(s)) \in Seq(Byte)
         /\ Len(SubSeq(s, n + 1, Len(s))) = Len(s) - n
         /\ SubSeq(s, 1, n) \in Seq(Byte) /\ Len(SubSeq(s, 1, n)) = n
<1>1. Len(s) \in Nat /\ n \in Nat OBVIOUS
<1>2. (\A i \in (n + 1)..Len(s) : s[i] \in Byte) /\ (\A i \in 1..n : s[i] \in Byte) BY <1>1, ElementOfSeq
<1>3. /\ SubSeq(s, n + 1, Len(s)) \in Seq(Byte)
      /\ Len(SubSeq(s, n + 1, Len(s))) = IF n + 1 <= Len(s) THEN Len(s) - (n + 1) + 1 ELSE 0
  BY <1>1, <1>2, SubSeqProperties
<1>4. /\ SubSeq(s, 1, n) \in Seq(Byte)
      /\ Len(SubSeq(s, 1, n)) = IF 1 <= n THEN n - 1 + 1 ELSE 0
  BY <1>1, <1>2, SubSeqProperties
<1> QED BY <1>1, <1>3, <1>4

\* The end of a round: there is room again.
LEMMA ShiftOK ==
  ASSUME kind \in {"mtcp", "tcpclv3", "tcpspp"}, NEW r, RxOK(r),
         r.buf \in Seq(Byte), Len(r.buf) <= RxBufferSize, r.parsed \in 0..Len(r.buf),
         r.before \in 0..Len(r.delivered)
  PROVE  RxOK(Shift(r)) /\ BufferOK(Shift(r)) /\ BulkOK(Shift(r))
<1>0. Len(r.buf) \in Nat /\ RxBufferSize \in Nat \ {0} /\ Len(r.delivered) \in Nat
  BY RxAssumption, ListLen DEF RxOK
<1>1. CASE r.parsed = 0 /\ Len(r.buf) = RxBufferSize
  <2> DEFINE p == reset_parsers(r)
             q == [p EXCEPT !.buf = <<>>, !.pc = "task", !.cut = TRUE]
  <2>1. Shift(r) = q BY <1>1 DEF Shift
  <2>2. RxOK(p) /\ Kept(p, r) BY ResetParsersOK
  <2> HIDE DEF p
  <2>3. /\ DOMAIN q = RxFields /\ q.pc = "task" /\ q.buf = <<>> /\ q.parsed = p.parsed /\ q.before = p.before
        /\ \A x \in RxFields \ LoopFields : q[x] = p[x]
    BY <2>2 DEF RxOK, RxFields, LoopFields
  <2> HIDE DEF q
  <2>4. RxOK(q) /\ q.delivered = p.delivered BY <2>2, <2>3, LoopOK
  <2>5. q.parsed = 0 /\ q.before \in 0..Len(q.delivered)
    <3>1. p.parsed = r.parsed /\ p.before = r.before /\ Len(r.delivered) <= Len(p.delivered) BY <2>2 DEF Kept
    <3>2. Len(p.delivered) \in Nat BY <2>2, ListLen DEF RxOK
    <3> QED BY <1>0, <1>1, <2>3, <2>4, <3>1, <3>2
  <2>6. <<>> \in Seq(Byte) /\ Len(<<>>) = 0 OBVIOUS
  <2>7. BufferOK(q) BY <1>0, <2>3, <2>5, <2>6 DEF BufferOK
  <2>8. BulkOK(q) BY <2>3 DEF BulkOK
  <2> QED BY <2>1, <2>4, <2>7, <2>8
<1>2. CASE ~(r.parsed = 0 /\ Len(r.buf) = RxBufferSize)
  <2> DEFINE b == SubSeq(r.buf, r.parsed + 1, Len(r.buf))
             q == [r EXCEPT !.buf = b, !.parsed = 0, !.pc = "task"]
  <2>1. Shift(r) = q BY <1>2 DEF Shift
  <2>2. b \in Seq(Byte) /\ Len(b) = Len(r.buf) - r.parsed BY RestFacts
  <2> HIDE DEF b
  <2>3. /\ DOMAIN q = RxFields /\ q.pc = "task" /\ q.buf = b /\ q.parsed = 0 /\ q.before = r.before
        /\ \A x \in RxFields \ LoopFields : q[x] = r[x]
    BY DEF RxOK, RxFields, LoopFields
  <2> HIDE DEF q
  <2>4. RxOK(q) /\ q.delivered = r.delivered BY <2>3, LoopOK
  <2>5. Len(b) < RxBufferSize /\ Len(b) \in Nat BY <1>0, <1>2, <2>2
  <2>6. BufferOK(q) BY <2>2, <2>3, <2>4, <2>5, <1>0 DEF BufferOK
  <2>7. BulkOK(q) BY <2>3 DEF BulkOK
  <2> QED BY <2>1, <2>4, <2>6, <2>7
<1> QED BY <1>1, <1>2

\* cla_read takes the next bytes of the connection.
LEMMA ReceiveOK ==
  ASSUME StreamOK, NEW n \in ChunkSizes, Receive(n)
  PROVE  /\ stream' \in Seq(Byte) /\ n \in Nat \ {0} /\ n <= RxBufferSize
         /\ SubSeq(stream, 1, n) \in Seq(Byte) /\ Len(SubSeq(stream, 1, n)) = n
<1>1. n \in 1..RxBufferSize /\ RxBufferSize \in Nat BY RxAssumption
<1>2. stream \in Seq(Byte) /\ n <= Len(stream) /\ stream' = SubSeq(stream, n + 1, Len(stream))
  BY DEF StreamOK, Receive
<1>3. n \in 0..Len(stream) BY <1>1, <1>2
<1> QED BY <1>1, <1>2, <1>3, RestFacts

\* chunk_read, the receive step, fills the buffer at most to its end.
LEMMA ChunkReadInv ==
  ASSUME Inv, NEW n \in ChunkSizes, ChunkRead(n)
  PROVE  stream' \in Seq(Byte) /\ RxOK(rx') /\ BufferOK(rx') /\ BulkOK(rx')
<1>1. StreamOK /\ RxOK(rx) /\ BufferOK(rx) /\ rx.pc = "task" /\ Len(rx.buf) + n <= RxBufferSize /\ Receive(n)
  BY DEF Inv, ChunkRead
<1> DEFINE b == rx.buf \o SubSeq(stream, 1, n)
           q == [rx EXCEPT !.pc = "parse", !.parsed = 0, !.buf = b]
<1>2. rx' = q BY DEF ChunkRead
<1>3. stream' \in Seq(Byte) /\ SubSeq(stream, 1, n) \in Seq(Byte) /\ Len(SubSeq(stream, 1, n)) = n /\ n \in Nat
  BY <1>1, ReceiveOK
<1>4. b \in Seq(Byte) /\ Len(b) = Len(rx.buf) + n
  <2>1. rx.buf \in Seq(Byte) BY <1>1 DEF BufferOK
  <2> DEFINE e == SubSeq(stream, 1, n)
  <2>2. e \in Seq(Byte) /\ Len(e) = n BY <1>3
  <2> HIDE DEF e
  <2> QED BY <2>1, <2>2, ConcatProperties DEF e
<1> HIDE DEF b
<1>5. /\ DOMAIN q = RxFields /\ q.pc = "parse" /\ q.buf = b /\ q.parsed = 0 /\ q.before = rx.before
      /\ \A x \in RxFields \ LoopFields : q[x] = rx[x]
  BY <1>1 DEF RxOK, RxFields, LoopFields
<1> HIDE DEF q
<1>6. RxOK(q) /\ q.delivered = rx.delivered BY <1>1, <1>5, LoopOK
<1>7. BufferOK(q)
  <2>1. Len(b) <= RxBufferSize /\ Len(b) \in Nat BY <1>1, <1>4
  <2>2. rx.before \in 0..Len(rx.delivered) BY <1>1 DEF BufferOK
  <2> QED BY <1>4, <1>5, <1>6, <2>1, <2>2 DEF BufferOK
<1>8. BulkOK(q) BY <1>5 DEF BulkOK
<1> QED BY <1>2, <1>3, <1>6, <1>7, <1>8

\* chunk_read, the parsing step: what the parsers took was in the buffer.
LEMMA ChunkParseInv ==
  ASSUME Inv, ChunkParse
  PROVE  stream' \in Seq(Byte) /\ RxOK(rx') /\ BufferOK(rx') /\ BulkOK(rx')
<1>0. StreamOK /\ RxOK(rx) /\ BufferOK(rx) /\ rx.pc = "parse" BY DEF Inv, ChunkParse
<1>1. kind \in {"mtcp", "tcpclv3", "tcpspp"} /\ stream' \in Seq(Byte)
  BY <1>0 DEF StreamOK, ChunkParse
<1>2. rx.buf \in Seq(Byte) /\ Len(rx.buf) \in Nat /\ Len(rx.buf) <= RxBufferSize
      /\ rx.parsed \in 0..Len(rx.buf) /\ rx.before \in 0..Len(rx.delivered)
  BY <1>0 DEF BufferOK
<1> DEFINE s == SubSeq(rx.buf, rx.parsed + 1, Len(rx.buf))
           t == Forward(rx, s)
           q == [t.r EXCEPT !.parsed = @ + t.n]
           good == CurParser(t.r).status = "GOOD"
           next == IF good THEN q ELSE reset_parsers(q)
           stop == good /\ (CurParser(t.r).bulk \/ t.n = 0)
<1>3. rx' = IF stop \/ next.parsed = Len(next.buf) THEN Shift(next) ELSE next
  <2> HIDE DEF s
  <2>1. \E u \in {t} :
          LET v    == [u.r EXCEPT !.parsed = @ + u.n]
              gd   == CurParser(u.r).status = "GOOD"
              nx   == IF gd THEN v ELSE reset_parsers(v)
              st   == gd /\ (CurParser(u.r).bulk \/ u.n = 0)
          IN  rx' = IF st \/ nx.parsed = Len(nx.buf) THEN Shift(nx) ELSE nx
    BY DEF ChunkParse, s
  <2> HIDE DEF t
  <2> QED BY <2>1
<1>4. s \in Seq(Byte) /\ Len(s) = Len(rx.buf) - rx.parsed BY <1>2, RestFacts
<1> HIDE DEF s
<1>5. ForwardOK(t, rx, s) BY <1>0, <1>1, <1>4, ForwardAllOK
<1> HIDE DEF t
<1>6. RxOK(t.r) /\ Kept(t.r, rx) /\ t.n \in 0..Len(s) BY <1>5 DEF ForwardOK
<1> DEFINE m == t.r.parsed + t.n
<1>7. m \in 0..Len(rx.buf) BY <1>2, <1>4, <1>6 DEF Kept
<1>8. /\ DOMAIN q = RxFields /\ q.pc = "parse" /\ q.buf = rx.buf /\ q.parsed = m /\ q.before = rx.before
      /\ \A x \in RxFields \ LoopFields : q[x] = t.r[x]
  BY <1>0, <1>6 DEF RxOK, Kept, RxFields, LoopFields
<1> HIDE DEF q, m
<1>9. RxOK(q) /\ q.delivered = t.r.delivered BY <1>6, <1>8, LoopOK
<1>10. RxOK(reset_parsers(q)) /\ Kept(reset_parsers(q), q) BY <1>1, <1>9, ResetParsersOK
<1> HIDE DEF good
<1>11. Kept(q, q)
  <2>1. Len(q.delivered) \in Nat BY <1>9, ListLen DEF RxOK
  <2> QED BY <2>1 DEF Kept
<1>12. RxOK(next) /\ Kept(next, q) BY <1>9, <1>10, <1>11
<1> HIDE DEF next, stop
<1>13. /\ next.pc = "parse" /\ next.buf = rx.buf /\ next.parsed = m /\ next.before = rx.before
       /\ Len(q.delivered) <= Len(next.delivered)
  BY <1>8, <1>12 DEF Kept
<1>14. next.before \in 0..Len(next.delivered)
  <2>1. Len(rx.delivered) \in Nat /\ Len(q.delivered) \in Nat /\ Len(next.delivered) \in Nat
    BY <1>0, <1>9, <1>12, ListLen DEF RxOK
  <2>2. Len(rx.delivered) <= Len(q.delivered) BY <1>6, <1>9 DEF Kept
  <2> QED BY <1>2, <1>13, <2>1, <2>2
<1>15. RxOK(Shift(next)) /\ BufferOK(Shift(next)) /\ BulkOK(Shift(next))
  BY <1>1, <1>2, <1>7, <1>12, <1>13, <1>14, ShiftOK
<1>16. BufferOK(next) /\ BulkOK(next) BY <1>2, <1>7, <1>13, <1>14 DEF BufferOK, BulkOK
<1> QED BY <1>1, <1>3, <1>12, <1>15, <1>16

\* The end of a bulk read.
LEMMA BulkDoneInv ==
  ASSUME StreamOK, RxOK(rx), BufferOK(rx), CurParser(rx).bulk,
         NEW data, NEW used \in 0..Len(rx.buf), BulkDone(data, used)
  PROVE  RxOK(rx') /\ BufferOK(rx') /\ BulkOK(rx')
<1> DEFINE q == ForwardBulk(rx, data)
           p == IF CurParser(q).status # "GOOD" THEN reset_parsers(q) ELSE q
           z == [p EXCEPT !.parsed = used, !.bulk = <<>>]
<1>0. kind \in {"mtcp", "tcpclv3", "tcpspp"} BY DEF StreamOK
<1>1. rx' = Shift(z)
  <2>1. \E v \in {q} : rx' = Shift([(IF CurParser(v).status # "GOOD" THEN reset_parsers(v) ELSE v)
                                    EXCEPT !.parsed = used, !.bulk = <<>>])
    BY DEF BulkDone
  <2> HIDE DEF q
  <2> QED BY <2>1
<1>2. RxOK(q) /\ Kept(q, rx) BY ForwardBulkOK
<1> HIDE DEF q
<1>3. RxOK(reset_parsers(q)) /\ Kept(reset_parsers(q), q) BY <1>0, <1>2, ResetParsersOK
<1>4. Kept(reset_parsers(q), rx) BY <1>2, <1>3, KeptTrans
<1>5. RxOK(p) /\ Kept(p, rx) BY <1>2, <1>3, <1>4
<1> HIDE DEF p
<1>6. /\ DOMAIN z = RxFields /\ z.buf = rx.buf /\ z.parsed = used /\ z.before = rx.before
      /\ \A x \in RxFields \ LoopFields : z[x] = p[x]
  BY <1>5 DEF RxOK, Kept, RxFields, LoopFields
<1> HIDE DEF z
<1>7. RxOK(z) /\ z.delivered = p.delivered BY <1>5, <1>6, LoopOK
<1>8. z.before \in 0..Len(z.delivered)
  <2>1. Len(rx.delivered) \in Nat /\ Len(p.delivered) \in Nat BY <1>5, ListLen DEF RxOK
  <2>2. Len(rx.delivered) <= Len(p.delivered) BY <1>5 DEF Kept
  <2>3. rx.before \in 0..Len(rx.delivered) BY DEF BufferOK
  <2> QED BY <1>6, <1>7, <2>1, <2>2, <2>3
<1>9. rx.buf \in Seq(Byte) /\ Len(rx.buf) <= RxBufferSize BY DEF BufferOK
<1>10. RxOK(Shift(z)) /\ BufferOK(Shift(z)) /\ BulkOK(Shift(z)) BY <1>0, <1>6, <1>7, <1>8, <1>9, ShiftOK
<1> QED BY <1>1, <1>10

\* The parser asks for a number of bytes.
LEMMA NextBytesNat ==
  ASSUME NEW r, RxOK(r)
  PROVE  CurParser(r).next_bytes \in Nat
BY DEF RxOK, CurParser, P6OK, P7OK

\* bulk_read begins: the payload is in the buffer, or the buffer is copied.
LEMMA BulkBeginInv ==
  ASSUME Inv, BulkBegin
  PROVE  stream' \in Seq(Byte) /\ RxOK(rx') /\ BufferOK(rx') /\ BulkOK(rx')
<1>1. /\ StreamOK /\ RxOK(rx) /\ BufferOK(rx) /\ rx.pc = "task" /\ CurParser(rx).bulk
      /\ stream' = stream
  BY DEF Inv, BulkBegin
<1>2. stream' \in Seq(Byte) BY <1>1 DEF StreamOK
<1> DEFINE size == CurParser(rx).next_bytes
           data == Bytes(rx.buf, 1, size)
<1>3. IF size <= Len(rx.buf) THEN BulkDone(data, size)
      ELSE rx' = [rx EXCEPT !.pc = "bulk", !.bulk = rx.buf]
  BY DEF BulkBegin
<1>4. size \in Nat BY <1>1, NextBytesNat
<1>5. rx.buf \in Seq(Byte) /\ Len(rx.buf) \in Nat BY <1>1 DEF BufferOK
<1> HIDE DEF size, data
<1>6. CASE size <= Len(rx.buf)
  <2>1. BulkDone(data, size) /\ size \in 0..Len(rx.buf) BY <1>3, <1>4, <1>5, <1>6
  <2> QED BY <1>1, <1>2, <2>1, BulkDoneInv
<1>7. CASE ~(size <= Len(rx.buf))
  <2> DEFINE q == [rx EXCEPT !.pc = "bulk", !.bulk = rx.buf]
  <2>1. rx' = q BY <1>3, <1>7
  <2>2. /\ DOMAIN q = RxFields /\ q.pc = "bulk" /\ q.bulk = rx.buf /\ q.buf = rx.buf
        /\ q.parsed = rx.parsed /\ q.before = rx.before
        /\ \A x \in RxFields \ LoopFields : q[x] = rx[x]
    BY <1>1 DEF RxOK, RxFields, LoopFields
  <2> HIDE DEF q
  <2>3. RxOK(q) /\ CurParser(q) = CurParser(rx) /\ q.delivered = rx.delivered BY <1>1, <2>2, LoopOK
  <2>4. BufferOK(q) BY <1>1, <2>2, <2>3 DEF BufferOK
  <2>5. BulkOK(q) BY <1>1, <1>4, <1>5, <1>7, <2>2, <2>3 DEF BulkOK, size
  <2> QED BY <1>2, <2>1, <2>3, <2>4, <2>5
<1> QED BY <1>6, <1>7

\* bulk_read goes on: bytes come behind those that are there, never more of
\* them than the parser asked for.
LEMMA BulkReadInv ==
  ASSUME Inv, NEW n \in ChunkSizes, BulkRead(n)
  PROVE  stream' \in Seq(Byte) /\ RxOK(rx') /\ BufferOK(rx') /\ BulkOK(rx')
<1> DEFINE e    == SubSeq(stream, 1, n)
           data == rx.bulk \o e
           size == CurParser(rx).next_bytes
<1>1. /\ StreamOK /\ RxOK(rx) /\ BufferOK(rx) /\ BulkOK(rx) /\ rx.pc = "bulk"
      /\ Receive(n) /\ Len(rx.bulk) + n <= size
      /\ IF Len(data) = size THEN BulkDone(data, Len(rx.buf)) ELSE rx' = [rx EXCEPT !.bulk = data]
  BY DEF Inv, BulkRead
<1>2. stream' \in Seq(Byte) /\ e \in Seq(Byte) /\ Len(e) = n /\ n \in Nat BY <1>1, ReceiveOK
<1>3. CurParser(rx).bulk /\ rx.bulk \in Seq(Byte) /\ Len(rx.bulk) \in Nat BY <1>1 DEF BulkOK
<1> HIDE DEF e
<1>4. data \in Seq(Byte) /\ Len(data) = Len(rx.bulk) + n BY <1>2, <1>3, ConcatProperties
<1>5. size \in Nat BY <1>1, NextBytesNat
<1> HIDE DEF data, size
<1>6. CASE Len(data) = size
  <2>1. Len(rx.buf) \in 0..Len(rx.buf) BY <1>1 DEF BufferOK
  <2>2. BulkDone(data, Len(rx.buf)) BY <1>1, <1>6
  <2> QED BY <1>1, <1>2, <1>3, <2>1, <2>2, BulkDoneInv
<1>7. CASE Len(data) # size
  <2> DEFINE q == [rx EXCEPT !.bulk = data]
  <2>1. rx' = q BY <1>1, <1>7
  <2>2. /\ DOMAIN q = RxFields /\ q.pc = "bulk" /\ q.bulk = data /\ q.buf = rx.buf
        /\ q.parsed = rx.parsed /\ q.before = rx.before
        /\ \A x \in RxFields \ LoopFields : q[x] = rx[x]
    BY <1>1 DEF RxOK, RxFields, LoopFields
  <2> HIDE DEF q
  <2>3. RxOK(q) /\ CurParser(q) = CurParser(rx) /\ q.delivered = rx.delivered BY <1>1, <2>2, LoopOK
  <2>4. BufferOK(q) BY <1>1, <2>2, <2>3 DEF BufferOK
  <2>5. Len(data) < size BY <1>1, <1>2, <1>3, <1>4, <1>5, <1>7
  <2>6. BulkOK(q) BY <1>3, <1>4, <2>2, <2>3, <2>5 DEF BulkOK, size
  <2> QED BY <1>2, <2>1, <2>3, <2>4, <2>6
<1> QED BY <1>6, <1>7

\* The next connection begins with the frame parser of the last one and with
\* all that was delivered.
LEMMA ConnectionBreaksInv ==
  ASSUME Inv, ConnectionBreaks, kind' = kind, plan' = plan
  PROVE  conn' \in DOMAIN plan /\ stream' \in Seq(Byte) /\ RxOK(rx') /\ BufferOK(rx') /\ BulkOK(rx')
<1>1. StreamOK /\ RxOK(rx) /\ conn' = conn + 1 /\ conn < Len(plan) /\ stream' = Packets(kind, plan[conn + 1])
  BY DEF Inv, ConnectionBreaks
<1>2. kind \in {"mtcp", "tcpclv3", "tcpspp"} /\ kind \in Kinds /\ plan \in Plans /\ conn \in DOMAIN plan
  BY <1>1 DEF StreamOK
<1>3. conn + 1 \in DOMAIN plan BY <1>1, <1>2, PlanOK
<1>4. conn' \in DOMAIN plan /\ stream' \in Seq(Byte) BY <1>1, <1>2, <1>3, PacketsOK
<1> DEFINE r == reset_parsers(rx)
           q == [rx_task_data_init(r.frame) EXCEPT !.delivered = r.delivered,
                   !.before = Len(r.delivered), !.fault = r.fault]
<1>5. rx' = q BY DEF ConnectionBreaks
<1>6. RxOK(r) /\ Kept(r, rx) BY <1>1, <1>2, ResetParsersOK
<1> HIDE DEF r
<1>7. /\ DOMAIN q = RxFields /\ q.frame = r.frame /\ q.p6 = bundle6_parser_init
      /\ q.p7 = bundle7_parser_init /\ q.crc = crc16_parser_init
      /\ q.cur = "frame" /\ q.payload_type = "UNKNOWN" /\ q.delivered = r.delivered /\ q.fault = r.fault
      /\ q.pc = "task" /\ q.buf = <<>> /\ q.parsed = 0 /\ q.before = Len(r.delivered)
  BY DEF rx_task_data_init, RxFields
<1> HIDE DEF q
<1>8. FrameOK(kind, r.frame) /\ List(r.delivered) /\ Len(r.delivered) \in Nat BY <1>6, ListLen DEF RxOK
<1>9. crc16_parser_init.ctr \in 0..2 BY DEF crc16_parser_init
<1>10. RxOK(q) BY <1>6, <1>7, <1>8, <1>9, Init6OK, Init7OK DEF RxOK
<1>11. BufferOK(q)
  <2>1. <<>> \in Seq(Byte) /\ Len(<<>>) = 0 OBVIOUS
  <2> QED BY <1>7, <1>8, <2>1, RxAssumption DEF BufferOK
<1>12. BulkOK(q) BY <1>7 DEF BulkOK
<1> QED BY <1>4, <1>5, <1>10, <1>11, <1>12

\* Every step of the receiver keeps the invariant.
LEMMA NextInv == Inv /\ [Next]_vars => Inv'
<1> SUFFICES ASSUME Inv, [Next]_vars PROVE Inv' OBVIOUS
<1>1. ASSUME kind' = kind, plan' = plan, conn' \in DOMAIN plan, stream' \in Seq(Byte),
             RxOK(rx'), BufferOK(rx'), BulkOK(rx')
      PROVE  Inv'
  <2>1. StreamOK' BY <1>1 DEF Inv, StreamOK
  <2>2. RxOK(rx)' BY <1>1 DEF RxOK
  <2>3. BufferOK(rx)' /\ BulkOK(rx)' BY <1>1 DEF BufferOK, BulkOK, CurParser
  <2> QED BY <2>1, <2>2, <2>3 DEF Inv
<1>2. CASE UNCHANGED vars
  <2>1. kind' = kind /\ plan' = plan /\ conn' = conn /\ stream' = stream /\ rx' = rx BY <1>2 DEF vars
  <2>2. RxOK(rx') /\ BufferOK(rx') /\ BulkOK(rx') BY <2>1 DEF Inv
  <2>3. conn' \in DOMAIN plan /\ stream' \in Seq(Byte) BY <2>1 DEF Inv, StreamOK
  <2> QED BY <1>1, <2>1, <2>2, <2>3
<1>3. CASE Next
  <2>1. kind' = kind /\ plan' = plan BY <1>3 DEF Next
  <2>2. conn \in DOMAIN plan BY DEF Inv, StreamOK
  <2>3. CASE (\E n \in ChunkSizes : ChunkRead(n)) /\ UNCHANGED conn BY <1>1, <2>1, <2>2, <2>3, ChunkReadInv
  <2>4. CASE ChunkParse /\ UNCHANGED conn BY <1>1, <2>1, <2>2, <2>4, ChunkParseInv
  <2>5. CASE BulkBegin /\ UNCHANGED conn BY <1>1, <2>1, <2>2, <2>5, BulkBeginInv
  <2>6. CASE (\E n \in ChunkSizes : BulkRead(n)) /\ UNCHANGED conn BY <1>1, <2>1, <2>2, <2>6, BulkReadInv
  <2>7. CASE ConnectionBreaks BY <1>1, <2>1, <2>7, ConnectionBreaksInv
  <2> QED BY <1>3, <2>3, <2>4, <2>5, <2>6, <2>7 DEF Next
<1> QED BY <1>2, <1>3

\* The invariant always holds.
LEMMA InvAlways == Spec => []Inv
BY InitInv, NextInv, PTL DEF Spec

-----------------------------------------------------------------------------
(***************************************************************************)
(* The theorems                                                            *)
(***************************************************************************)
\* The buffer never holds more than CLA_RX_BUFFER_SIZE bytes, no more of it
\* is marked as parsed than it holds, and a bulk read never writes beyond the
\* number of bytes that the parser allocated a block for.
THEOREM RxTypeOK == Spec => []TypeOK
<1>1. Inv => TypeOK
  <2> SUFFICES ASSUME Inv PROVE TypeOK OBVIOUS
  <2>1. conn \in DOMAIN plan BY DEF Inv, StreamOK
  <2>2. rx.cur \in {"frame", "bundle6", "bundle7", "crc"}
        /\ rx.payload_type \in {"UNKNOWN", "BUNDLE6", "BUNDLE7"}
    BY DEF Inv, RxOK
  <2>3. /\ rx.pc \in {"task", "parse", "bulk"} /\ rx.parsed \in 0..Len(rx.buf)
        /\ Len(rx.buf) <= RxBufferSize /\ rx.before \in 0..Len(rx.delivered)
    BY DEF Inv, BufferOK
  <2>4. rx.pc = "bulk" => CurParser(rx).bulk /\ Len(rx.bulk) < CurParser(rx).next_bytes
    BY DEF Inv, BulkOK
  <2> QED BY <2>1, <2>2, <2>3, <2>4 DEF TypeOK
<1> QED BY <1>1, InvAlways, PTL

\* ASSERT(result <= next_bytes) of the forward functions never fails: no
\* parser takes more of the buffer than what is left of the frame.
THEOREM RxAsserts == Spec => []AssertsHold
<1>1. Inv => AssertsHold BY DEF Inv, RxOK, AssertsHold
<1> QED BY <1>1, InvAlways, PTL

\* chunk_read never calls recv() with no room: a buffer that is full and of
\* which nothing was parsed was thrown away, or read in bulk.
THEOREM RxRoomToRead == Spec => []RoomToRead
<1>1. Inv => RoomToRead BY DEF Inv, BufferOK, RoomToRead
<1> QED BY <1>1, InvAlways, PTL
=============================================================================
