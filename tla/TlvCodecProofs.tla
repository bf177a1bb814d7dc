---------------------------- MODULE TlvCodecProofs ----------------------------
(***************************************************************************)
(* Proofs about the TLV codec: the decoder ends on every input and yields  *)
(* well-formed records, and it gives back what the encoder was given.      *)
(***************************************************************************)
EXTENDS TlvCodec, SequenceTheorems, TLAPS

-----------------------------------------------------------------------------
(* A piece of a sequence. *)
LEMMA Piece ==
    ASSUME NEW S, NEW s \in Seq(S), NEW i \in Nat, NEW j \in Nat, i <= j, j <= Len(s)
    PROVE  /\ SubSeq(s, i + 1, j) \in Seq(S)
           /\ Len(SubSeq(s, i + 1, j)) = j - i
           /\ \A k \in 1 .. j - i : SubSeq(s, i + 1, j)[k] = s[i + k]
<1>1. i + 1 \in Int /\ j \in Int /\ Len(s) \in Nat
  BY LenProperties
<1>2. \A k \in i + 1 .. j : s[k] \in S
  BY <1>1, ElementOfSeq
<1>3. /\ SubSeq(s, i + 1, j) \in Seq(S)
      /\ Len(SubSeq(s, i + 1, j)) = IF i + 1 <= j THEN j - (i + 1) + 1 ELSE 0
      /\ \A k \in 1 .. j - (i + 1) + 1 : SubSeq(s, i + 1, j)[k] = s[i + 1 + k - 1]
  BY <1>1, <1>2, SubSeqProperties
<1>4. j - (i + 1) + 1 = j - i /\ \A k \in 1 .. j - i : i + 1 + k - 1 = i + k
  OBVIOUS
<1> QED BY <1>3, <1>4

-----------------------------------------------------------------------------
(* The decoder. *)

(* The ranges of bytes and of 16-bit numbers. *)
LEMMA Ranges ==
    /\ \A x : x \in Byte <=> x \in Nat /\ x <= 255
    /\ \A x : x \in U16 <=> x \in Nat /\ x <= 65535
<1>1. MaxByte = 255 /\ MaxU16 = 65535
  BY DEF MaxByte, MaxU16
<1>2. MaxByte \in Nat /\ MaxU16 \in Nat
  BY SMT, <1>1
<1>3. /\ \A x : x \in Byte <=> x \in Nat /\ x <= MaxByte
      /\ \A x : x \in U16 <=> x \in Nat /\ x <= MaxU16
  BY SMT, <1>2 DEF Byte, U16
<1> QED BY SMT, <1>1, <1>3

(* Numbers of two bytes. *)
LEMMA TwoBytes ==
    ASSUME NEW m \in Byte, NEW n \in Byte
    PROVE  m \in U16 /\ 256 * m + n \in U16
<1>1. m \in Nat /\ m <= 255 /\ n \in Nat /\ n <= 255
  BY Ranges
<1>2. 256 * m + n \in Nat /\ 256 * m + n <= 65535
  BY SMT, <1>1
<1> QED BY <1>1, <1>2, Ranges

(* The fields of the first byte. *)
LEMMA FirstByte ==
    ASSUME NEW b \in Byte
    PROVE  /\ IdLength(b) \in {1, 2} /\ LengthType(b) \in {0, 1, 2, 3}
           /\ b \div 64 \in 0 .. 3 /\ b % 8 \in 0 .. 7
           /\ HeaderLength(b) \in 2 .. 6
<1>0. b \in Nat /\ b <= 255
  BY Ranges
<1>1. IdLength(b) \in {1, 2} /\ LengthType(b) \in {0, 1, 2, 3}
  BY <1>0 DEF IdLength, LengthType
<1>2. b \div 64 \in 0 .. 3 /\ b % 8 \in 0 .. 7
  BY <1>0
<1> QED BY <1>1, <1>2 DEF HeaderLength

(* What parse_header returns lies within the data and within the ranges of *)
(* the format, or it is an error.                                          *)
HeaderOK(head, data) ==
    \/ head = Err("DecodingError")
    \/ /\ head.ok = TRUE
       /\ head.value.type \in 0 .. 3 /\ head.value.id \in U16
       /\ head.value.len \in Nat
       /\ head.value.pos \in 2 .. 6 /\ head.value.pos <= Len(data)

(* parse_record checks that a header is complete before it reads it.       *)
LEMMA HeaderParsed ==
    ASSUME NEW data \in Seq(Byte), data # <<>>
    PROVE  HeaderOK(parse_header(data), data)
<1> DEFINE b == data[1]
<1>1. Len(data) \in Nat \ {0} /\ \A i \in 1 .. Len(data) : data[i] \in Byte
  BY EmptySeq, ElementOfSeq
<1>2. b \in Byte
  BY <1>1
<1>3. /\ IdLength(b) \in {1, 2} /\ LengthType(b) \in {0, 1, 2, 3}
      /\ b \div 64 \in 0 .. 3 /\ b % 8 \in 0 .. 7
      /\ HeaderLength(b) \in 2 .. 6
  BY <1>2, FirstByte
<1>4. CASE Len(data) < HeaderLength(b)
  BY <1>4 DEF parse_header, HeaderOK
<1>5. CASE ~(Len(data) < HeaderLength(b))
  <2>1. parse_header(data) =
          Ok([type |-> b \div 64, id |-> RecordId(data), len |-> RecordLength(data),
              pos |-> HeaderLength(b)])
    BY <1>5 DEF parse_header
  <2>2. RecordId(data) \in U16
    <3>1. data[2] \in Byte /\ (IdLength(b) = 2 => data[3] \in Byte)
      BY <1>1, <1>3, <1>5 DEF HeaderLength
    <3> QED BY SMT, <1>3, <3>1, TwoBytes DEF RecordId
  <2>3. RecordLength(data) \in Nat
    <3> DEFINE k == 1 + IdLength(b)
    <3>1. Byte \subseteq Nat /\ k \in Nat
      BY <1>3, Ranges
    <3>2. /\ LengthType(b) > 0 => data[k + 1] \in Nat
          /\ LengthType(b) > 1 => data[k + 2] \in Nat
          /\ LengthType(b) > 2 => data[k + 3] \in Nat
      <4>1. k + LengthType(b) <= Len(data) /\ LengthType(b) \in Nat
        BY <1>1, <1>3, <1>5 DEF HeaderLength
      <4> HIDE DEF b, k
      <4>2. ASSUME NEW i \in 1 .. LengthType(b) PROVE data[k + i] \in Nat
        <5>1. k + i \in 1 .. Len(data)
          BY <1>1, <3>1, <4>1
        <5> QED BY <1>1, <3>1, <5>1
      <4> QED BY <4>1, <4>2
    <3>3. CASE LengthType(b) = 0
      <4>1. RecordLength(data) = b % 8
        BY SMT, <3>3 DEF RecordLength
      <4> QED BY <1>3, <4>1
    <3>4. CASE LengthType(b) = 1
      <4>1. RecordLength(data) = data[k + 1]
        BY SMT, <3>4 DEF RecordLength
      <4> QED BY <3>2, <3>4, <4>1
    <3>5. CASE LengthType(b) = 2
      <4>1. RecordLength(data) = 256 * data[k + 1] + data[k + 2]
        BY SMT, <3>5 DEF RecordLength
      <4> HIDE DEF k
      <4> QED BY <3>2, <3>5, <4>1
    <3>6. CASE LengthType(b) = 3
      <4>1. RecordLength(data) = 65536 * data[k + 1] + 256 * data[k + 2] + data[k + 3]
        BY SMT, <3>6 DEF RecordLength
      <4> HIDE DEF k
      <4>2. PICK l \in Nat, m \in Nat, n \in Nat :
              l = data[k + 1] /\ m = data[k + 2] /\ n = data[k + 3]
        BY <3>2, <3>6
      <4>3. RecordLength(data) = 65536 * l + 256 * m + n
        BY SMT, <4>1, <4>2
      <4> QED BY SMT, <4>3
    <3> QED BY <1>3, <3>3, <3>4, <3>5, <3>6
  <2> HIDE DEF b
  <2> QED BY <1>1, <1>3, <1>5, <2>1, <2>2, <2>3 DEF HeaderOK, Ok
<1> QED BY <1>4, <1>5

(* decode_impl in the form Recursion takes: it calls itself for shorter    *)
(* data only.                                                              *)
DecodeArgs(p)  == Seq(Byte) \X Nat
DecodeRank(in) == Len(in[1])
DecodeBody(p, g, in) ==
    LET data  == in[1]
        depth == in[2]
        head  == parse_header(data)
        h     == head.value
        val   == SubSeq(data, h.pos + 1, h.pos + h.len)
        sub   == g[<<val, depth + 1>>]
        rest  == g[<<SubSeq(data, h.pos + h.len + 1, Len(data)), depth>>]
    IN  IF depth > kMaxTlvDepth THEN Err("DecodingError")
        ELSE IF data = <<>> THEN Ok(<<>>)
        ELSE IF ~head.ok THEN head
        ELSE IF ~Fits(h, data) THEN Err("DecodingError")
        ELSE IF ~rest.ok THEN rest
        ELSE Ok(<<[type |-> h.type, id |-> h.id, value |-> val,
                   children |-> IF Nested(h.type) /\ sub.ok THEN sub.value ELSE <<>>]>>
                \o rest.value)

Dec == INSTANCE Recursion
         WITH Body <- DecodeBody, Dom <- DecodeArgs, Rank <- DecodeRank

(* The value of a record and what follows it are shorter than the data.    *)
LEMMA PiecesShorter ==
    ASSUME NEW data \in Seq(Byte), data # <<>>, parse_header(data).ok,
           Fits(parse_header(data).value, data)
    PROVE  LET h    == parse_header(data).value
               val  == SubSeq(data, h.pos + 1, h.pos + h.len)
               tail == SubSeq(data, h.pos + h.len + 1, Len(data))
           IN  /\ val \in Seq(Byte) /\ Len(val) = h.len /\ Len(val) < Len(data)
               /\ tail \in Seq(Byte) /\ Len(tail) = Len(data) - (h.pos + h.len)
               /\ Len(tail) < Len(data)
<1> DEFINE h == parse_header(data).value
<1>1. HeaderOK(parse_header(data), data)
  BY HeaderParsed
<1>2. h.len \in Nat /\ h.pos \in 2 .. 6
  BY <1>1 DEF HeaderOK, Err
<1>3. h.pos + h.len <= Len(data)
  BY DEF Fits
<1>4. Len(data) \in Nat
  BY LenProperties
<1>5. PICK p \in 2 .. 6, n \in Nat : p = h.pos /\ n = h.len
  BY <1>2
<1> HIDE DEF h
<1>6. p + n \in Nat /\ p <= p + n /\ p + n <= Len(data) /\ p \in Nat
  BY <1>3, <1>5
<1>7. SubSeq(data, p + 1, p + n) \in Seq(Byte) /\ Len(SubSeq(data, p + 1, p + n)) = n
  <2>1. (p + n) - p = n
    OBVIOUS
  <2> QED BY <1>6, <2>1, Piece
<1>8. /\ SubSeq(data, p + n + 1, Len(data)) \in Seq(Byte)
      /\ Len(SubSeq(data, p + n + 1, Len(data))) = Len(data) - (p + n)
  BY <1>4, <1>6, Piece
<1>9. n < Len(data) /\ Len(data) - (p + n) < Len(data)
  BY <1>4, <1>6
<1> QED BY <1>5, <1>7, <1>8, <1>9 DEF h

(* decode_impl is what its definition says, on every input. *)
LEMMA DecodeUnfolds ==
    \A in \in Seq(Byte) \X Nat : decode_impl[in] = DecodeBody(0, decode_impl, in)
<1>1. Dec!Ranked(0)
  BY LenProperties DEF Dec!Ranked, DecodeArgs, DecodeRank
<1>2. Dec!Downward(0)
  <2> SUFFICES ASSUME NEW in \in DecodeArgs(0), NEW g, NEW f,
                      \A y \in DecodeArgs(0) :
                         DecodeRank(y) < DecodeRank(in) => g[y] = f[y]
               PROVE  DecodeBody(0, g, in) = DecodeBody(0, f, in)
    BY DEF Dec!Downward
  <2> DEFINE data == in[1]
             h    == parse_header(data).value
             val  == SubSeq(data, h.pos + 1, h.pos + h.len)
             tail == SubSeq(data, h.pos + h.len + 1, Len(data))
  <2>1. data \in Seq(Byte) /\ in[2] \in Nat
    BY DEF DecodeArgs
  <2>2. CASE \/ in[2] > kMaxTlvDepth \/ data = <<>>
             \/ ~parse_header(data).ok \/ ~Fits(h, data)
    BY <2>2 DEF DecodeBody
  <2>3. CASE ~(\/ in[2] > kMaxTlvDepth \/ data = <<>>
               \/ ~parse_header(data).ok \/ ~Fits(h, data))
    <3>1. /\ val \in Seq(Byte) /\ Len(val) < Len(data)
          /\ tail \in Seq(Byte) /\ Len(tail) < Len(data)
      BY <2>1, <2>3, PiecesShorter
    <3> HIDE DEF h
    <3>2. <<val, in[2] + 1>> \in DecodeArgs(0) /\ <<tail, in[2]>> \in DecodeArgs(0)
      <4>1. in[2] + 1 \in Nat
        BY <2>1
      <4> HIDE DEF val, tail
      <4> QED BY <2>1, <3>1, <4>1 DEF DecodeArgs
    <3>3. g[<<val, in[2] + 1>>] = f[<<val, in[2] + 1>>] /\ g[<<tail, in[2]>>] = f[<<tail, in[2]>>]
      BY <3>1, <3>2 DEF DecodeRank
    <3> QED BY <3>3 DEF DecodeBody, h
  <2> QED BY <2>2, <2>3
<1>3. decode_impl = CHOOSE g : g = [in \in DecodeArgs(0) |-> DecodeBody(0, g, in)]
  BY DEF decode_impl, DecodeArgs, DecodeBody
<1>4. decode_impl = [in \in DecodeArgs(0) |-> DecodeBody(0, decode_impl, in)]
  BY <1>1, <1>2, <1>3, Dec!Fixpoint
<1> QED BY <1>4 DEF DecodeArgs

(* The decoder yields well-formed records or its error. *)
RecordOK(r) == r.type \in 0 .. 3 /\ r.id \in U16 /\ r.value \in Seq(Byte)

Records(s) == \E S : s \in Seq(S) /\ \A r \in S : RecordOK(r)

DecodedOK(res) == res = Err("DecodingError") \/ (res = Ok(res.value) /\ Records(res.value))

LEMMA NoRecords == Records(<<>>)
<1>1. PICK S : S = {}
  OBVIOUS
<1>2. <<>> \in Seq(S) /\ \A r \in S : RecordOK(r)
  BY <1>1, EmptySeq
<1> HIDE <1>1
<1> QED BY <1>2 DEF Records

(* One more record in front. *)
LEMMA RecordsCons ==
    ASSUME NEW r, RecordOK(r), NEW s, Records(s)
    PROVE  /\ Records(<<r>> \o s) /\ Len(<<r>> \o s) = Len(s) + 1
           /\ (<<r>> \o s)[1] = r
           /\ \A i \in 1 .. Len(s) : (<<r>> \o s)[i + 1] = s[i]
<1>1. PICK S : s \in Seq(S) /\ \A q \in S : RecordOK(q)
  BY DEF Records
<1>2. s \in Seq(S \cup {r}) /\ <<r>> \in Seq(S \cup {r})
  BY <1>1, SeqMonotonic
<1>3. Len(<<r>>) = 1 /\ <<r>>[1] = r /\ Len(s) \in Nat
  BY <1>1, LenProperties
<1>4. /\ <<r>> \o s \in Seq(S \cup {r})
      /\ Len(<<r>> \o s) = 1 + Len(s)
      /\ \A i \in 1 .. 1 + Len(s) : (<<r>> \o s)[i] = IF i <= 1 THEN <<r>>[i] ELSE s[i - 1]
  BY <1>2, <1>3, ConcatProperties
<1>5. \A q \in S \cup {r} : RecordOK(q)
  BY <1>1
<1>6. Records(<<r>> \o s)
  BY <1>4, <1>5 DEF Records
<1>7. \A i \in 1 .. Len(s) : i + 1 \in 1 .. 1 + Len(s) /\ ~(i + 1 <= 1) /\ (i + 1) - 1 = i
  BY <1>3
<1>8. 1 \in 1 .. 1 + Len(s)
  BY <1>3
<1> HIDE DEF Records, RecordOK
<1> QED BY <1>3, <1>4, <1>6, <1>7, <1>8

(* A decoded record is as parse_header describes it. *)
LEMMA RecordMade ==
    ASSUME NEW data \in Seq(Byte), data # <<>>, parse_header(data).ok,
           Fits(parse_header(data).value, data), NEW kids
    PROVE  LET h == parse_header(data).value
           IN  RecordOK([type |-> h.type, id |-> h.id,
                         value |-> SubSeq(data, h.pos + 1, h.pos + h.len), children |-> kids])
<1> DEFINE h == parse_header(data).value
<1>1. HeaderOK(parse_header(data), data)
  BY HeaderParsed
<1>2. h.type \in 0 .. 3 /\ h.id \in U16
  BY <1>1 DEF HeaderOK, Err
<1>3. SubSeq(data, h.pos + 1, h.pos + h.len) \in Seq(Byte)
  BY PiecesShorter
<1> HIDE DEF h
<1>4. RecordOK([type |-> h.type, id |-> h.id,
                value |-> SubSeq(data, h.pos + 1, h.pos + h.len), children |-> kids])
  BY <1>2, <1>3 DEF RecordOK
<1> QED BY <1>4 DEF h

(* On every input, of any length and at any depth, the decoder ends, with  *)
(* its error or with records whose values are pieces of the input          *)
(* (TlvDecoder::decode_impl and parse_record).                             *)
THEOREM DecodeTyped ==
    \A data \in Seq(Byte), depth \in Nat : DecodedOK(decode_impl[<<data, depth>>])
<1> DEFINE T == {n \in Nat : \A data \in Seq(Byte), depth \in Nat :
                   Len(data) < n => DecodedOK(decode_impl[<<data, depth>>])}
<1>1. 0 \in T
  BY LenProperties
<1>2. ASSUME NEW n \in Nat, n \in T PROVE n + 1 \in T
  <2> SUFFICES ASSUME NEW data \in Seq(Byte), NEW depth \in Nat, Len(data) < n + 1
               PROVE  DecodedOK(decode_impl[<<data, depth>>])
    OBVIOUS
  <2> DEFINE res  == decode_impl[<<data, depth>>]
             head == parse_header(data)
             h    == head.value
             val  == SubSeq(data, h.pos + 1, h.pos + h.len)
             tail == SubSeq(data, h.pos + h.len + 1, Len(data))
             sub  == decode_impl[<<val, depth + 1>>]
             rest == decode_impl[<<tail, depth>>]
             kids == IF Nested(h.type) /\ sub.ok THEN sub.value ELSE <<>>
             rec  == [type |-> h.type, id |-> h.id, value |-> val, children |-> kids]
  <2>1. <<data, depth>> \in Seq(Byte) \X Nat /\ <<data, depth>>[1] = data /\ <<data, depth>>[2] = depth
    OBVIOUS
  <2>2. res = IF depth > kMaxTlvDepth THEN Err("DecodingError")
              ELSE IF data = <<>> THEN Ok(<<>>)
              ELSE IF ~head.ok THEN head
              ELSE IF ~Fits(h, data) THEN Err("DecodingError")
              ELSE IF ~rest.ok THEN rest
              ELSE Ok(<<rec>> \o rest.value)
    <3>1. res = DecodeBody(0, decode_impl, <<data, depth>>)
      BY <2>1, DecodeUnfolds
    <3> QED BY <3>1 DEF DecodeBody
  <2>3. CASE depth > kMaxTlvDepth
    BY <2>2, <2>3 DEF DecodedOK
  <2>4. CASE ~(depth > kMaxTlvDepth) /\ data = <<>>
    <3>1. res = Ok(<<>>)
      BY <2>2, <2>4
    <3> QED BY <3>1, NoRecords DEF DecodedOK, Ok
  <2>5. CASE ~(depth > kMaxTlvDepth) /\ data # <<>> /\ ~head.ok
    <3>1. HeaderOK(head, data)
      BY <2>5, HeaderParsed
    <3>2. head = Err("DecodingError")
      BY <2>5, <3>1 DEF HeaderOK
    <3>3. res = head
      BY <2>2, <2>5
    <3> QED BY <3>2, <3>3 DEF DecodedOK
  <2>6. CASE ~(depth > kMaxTlvDepth) /\ data # <<>> /\ head.ok /\ ~Fits(h, data)
    BY <2>2, <2>6 DEF DecodedOK
  <2>7. CASE ~(depth > kMaxTlvDepth) /\ data # <<>> /\ head.ok /\ Fits(h, data)
    <3>1. tail \in Seq(Byte) /\ Len(tail) < Len(data) /\ Len(tail) \in Nat
      BY <2>7, PiecesShorter, LenProperties
    <3>2. Len(data) \in Nat
      BY LenProperties
    <3>3. DecodedOK(rest)
      <4>1. Len(tail) < n
        BY <3>1, <3>2
      <4> HIDE DEF tail
      <4> QED BY <1>2, <3>1, <4>1
    <3>4. RecordOK(rec)
      <4> HIDE DEF kids
      <4> QED BY <2>7, RecordMade
    <3>5. CASE ~rest.ok
      <4>1. res = rest
        BY <2>2, <2>7, <3>5
      <4> QED BY <3>3, <4>1
    <3>6. CASE rest.ok
      <4> HIDE DEF rest, rec, head, h
      <4>1. Records(rest.value)
        BY <3>3, <3>6 DEF DecodedOK, Err
      <4>2. Records(<<rec>> \o rest.value)
        BY <3>4, <4>1, RecordsCons
      <4>3. res = Ok(<<rec>> \o rest.value)
        BY <2>2, <2>7, <3>6
      <4> QED BY <4>2, <4>3 DEF DecodedOK, Ok
    <3> QED BY <3>5, <3>6
  <2> QED BY <2>3, <2>4, <2>5, <2>6, <2>7
<1>3. Nat \subseteq T
  <2> HIDE DEF T
  <2> QED BY <1>1, <1>2, Dec!SetInduction
<1> SUFFICES ASSUME NEW data \in Seq(Byte), NEW depth \in Nat
             PROVE  DecodedOK(decode_impl[<<data, depth>>])
  OBVIOUS
<1>4. Len(data) + 1 \in T /\ Len(data) < Len(data) + 1
  BY <1>3, LenProperties
<1> QED BY <1>4

-----------------------------------------------------------------------------
(* Numbers. *)

(* deserialize_int reads byte after byte. *)
NumberArgs(p)  == 0 .. Len(p[1])
NumberRank(n)  == n
NumberBody(p, g, n) == IF n = 0 THEN p[2] ELSE 256 * g[n - 1] + p[1][n]

Num == INSTANCE Recursion
         WITH Body <- NumberBody, Dom <- NumberArgs, Rank <- NumberRank

(* f is the number read so far, after each byte. *)
Reads(f, data, start) ==
    /\ f[0] = start
    /\ \A n \in 1 .. Len(data) : f[n] = 256 * f[n - 1] + data[n]
    /\ \A n \in 0 .. Len(data) : f[n] \in Int
    /\ Number(data, start) = f[Len(data)]

LEMMA NumberUnfolds ==
    ASSUME NEW data \in Seq(Byte), NEW start \in Int
    PROVE  \E f : Reads(f, data, start)
<1> DEFINE p == <<data, start>>
           f == CHOOSE g : g = [n \in NumberArgs(p) |-> NumberBody(p, g, n)]
<1>1. Len(data) \in Nat /\ \A i \in 1 .. Len(data) : data[i] \in Nat
  BY LenProperties, ElementOfSeq, Ranges
<1>2. Num!Ranked(p)
  BY <1>1 DEF Num!Ranked, NumberArgs, NumberRank
<1>3. Num!Downward(p)
  <2> SUFFICES ASSUME NEW n \in NumberArgs(p), NEW g, NEW h,
                      \A m \in NumberArgs(p) :
                         NumberRank(m) < NumberRank(n) => g[m] = h[m]
               PROVE  NumberBody(p, g, n) = NumberBody(p, h, n)
    BY DEF Num!Downward
  <2>1. CASE n = 0
    BY <2>1 DEF NumberBody
  <2>2. CASE n # 0
    <3>1. g[n - 1] = h[n - 1]
      BY <1>1, <2>2 DEF NumberArgs, NumberRank
    <3> QED BY <2>2, <3>1 DEF NumberBody
  <2> QED BY <2>1, <2>2
<1>4. Number(data, start) = f[Len(data)]
  BY DEF Number, NumberArgs, NumberBody
<1>5. f = [n \in NumberArgs(p) |-> NumberBody(p, f, n)]
  <2> HIDE DEF p
  <2> QED BY <1>2, <1>3, Num!Fixpoint
<1> HIDE DEF f
<1>6. \A n \in 0 .. Len(data) : f[n] = IF n = 0 THEN start ELSE 256 * f[n - 1] + data[n]
  <2>1. \A n \in NumberArgs(p) : f[n] = NumberBody(p, f, n)
    BY <1>5
  <2> QED BY <2>1 DEF NumberArgs, NumberBody
<1> HIDE DEF p
<1>7. f[0] = start
  BY <1>1, <1>6
<1>8. \A n \in 1 .. Len(data) : f[n] = 256 * f[n - 1] + data[n]
  BY <1>1, <1>6
<1> DEFINE T == {n \in Nat : n <= Len(data) => f[n] \in Int}
<1>9. 0 \in T
  BY <1>7
<1>10. ASSUME NEW n \in Nat, n \in T PROVE n + 1 \in T
  <2> SUFFICES ASSUME n + 1 <= Len(data) PROVE f[n + 1] \in Int
    OBVIOUS
  <2>1. f[n] \in Int
    BY <1>1, <1>10
  <2>2. n + 1 \in 1 .. Len(data) /\ (n + 1) - 1 = n
    BY <1>1
  <2>3. f[n + 1] = 256 * f[n] + data[n + 1]
    BY <1>8, <2>2
  <2> QED BY <1>1, <2>1, <2>2, <2>3
<1>11. Nat \subseteq T
  <2> HIDE DEF T
  <2> QED BY <1>9, <1>10, Num!SetInduction
<1>12. \A n \in 0 .. Len(data) : f[n] \in Int
  BY <1>1, <1>11
<1>13. Reads(f, data, start)
  BY <1>4, <1>7, <1>8, <1>12 DEF Reads
<1> QED BY <1>13

(* The bytes of an integer come from shifting it. *)
ShiftArgs(p) == 0 .. p[2]
ShiftRank(k) == k
ShiftBody(p, g, k) == IF k = 0 THEN p[1] ELSE g[k - 1] \div 256

Shr == INSTANCE Recursion
         WITH Body <- ShiftBody, Dom <- ShiftArgs, Rank <- ShiftRank

(* f is the integer shifted by each number of bytes. *)
Shifts(f, n, w) ==
    /\ f[0] = n
    /\ \A k \in 1 .. w : f[k] = f[k - 1] \div 256
    /\ \A k \in 0 .. w : f[k] \in Int
    /\ BigEndian(n, w) = [i \in 1 .. w |-> f[w - i] % 256]

LEMMA BigEndianUnfolds ==
    ASSUME NEW n \in Int, NEW w \in Nat
    PROVE  \E f : Shifts(f, n, w)
<1> DEFINE p == <<n, w>>
           f == CHOOSE g : g = [k \in ShiftArgs(p) |-> ShiftBody(p, g, k)]
<1>2. Shr!Ranked(p)
  BY DEF Shr!Ranked, ShiftArgs, ShiftRank
<1>3. Shr!Downward(p)
  <2> SUFFICES ASSUME NEW k \in ShiftArgs(p), NEW g, NEW h,
                      \A m \in ShiftArgs(p) :
                         ShiftRank(m) < ShiftRank(k) => g[m] = h[m]
               PROVE  ShiftBody(p, g, k) = ShiftBody(p, h, k)
    BY DEF Shr!Downward
  <2>1. CASE k = 0
    BY <2>1 DEF ShiftBody
  <2>2. CASE k # 0
    <3>1. g[k - 1] = h[k - 1]
      BY <2>2 DEF ShiftArgs, ShiftRank
    <3> QED BY <2>2, <3>1 DEF ShiftBody
  <2> QED BY <2>1, <2>2
<1>4. BigEndian(n, w) = [i \in 1 .. w |-> f[w - i] % 256]
  BY DEF BigEndian, ShiftArgs, ShiftBody
<1>5. f = [k \in ShiftArgs(p) |-> ShiftBody(p, f, k)]
  <2> HIDE DEF p
  <2> QED BY <1>2, <1>3, Shr!Fixpoint
<1> HIDE DEF f
<1>6. \A k \in 0 .. w : f[k] = IF k = 0 THEN n ELSE f[k - 1] \div 256
  BY <1>5 DEF ShiftArgs, ShiftBody
<1> HIDE DEF p
<1>7. f[0] = n
  BY <1>6
<1>8. \A k \in 1 .. w : f[k] = f[k - 1] \div 256
  BY <1>6
<1> DEFINE T == {k \in Nat : k <= w => f[k] \in Int}
<1>9. 0 \in T
  BY <1>7
<1>10. ASSUME NEW k \in Nat, k \in T PROVE k + 1 \in T
  <2> SUFFICES ASSUME k + 1 <= w PROVE f[k + 1] \in Int
    OBVIOUS
  <2>1. f[k] \in Int
    BY <1>10
  <2>2. k + 1 \in 1 .. w /\ (k + 1) - 1 = k
    OBVIOUS
  <2>3. f[k + 1] = f[k] \div 256
    BY <1>8, <2>2
  <2> QED BY <2>1, <2>3
<1>11. Nat \subseteq T
  <2> HIDE DEF T
  <2> QED BY <1>9, <1>10, Shr!SetInduction
<1>12. \A k \in 0 .. w : f[k] \in Int
  BY <1>11
<1>13. Shifts(f, n, w)
  BY <1>4, <1>7, <1>8, <1>12 DEF Shifts
<1> QED BY <1>13

LEMMA SameBound == ASSUME NEW m \in Nat, NEW n \in Nat, 1 .. m = 1 .. n PROVE m = n
  OBVIOUS

(* An integer's bytes are w bytes. *)
LEMMA BigEndianBytes ==
    ASSUME NEW n \in Int, NEW w \in Nat
    PROVE  BigEndian(n, w) \in Seq(Byte) /\ Len(BigEndian(n, w)) = w
<1>1. PICK f : Shifts(f, n, w)
  BY BigEndianUnfolds
<1>2. ASSUME NEW i \in 1 .. w PROVE f[w - i] % 256 \in Byte
  <2>1. f[w - i] \in Int
    BY <1>1 DEF Shifts
  <2>2. f[w - i] % 256 \in Nat /\ f[w - i] % 256 <= 255
    BY <2>1
  <2> QED BY <2>2, Ranges
<1> DEFINE b == [i \in 1 .. w |-> f[w - i] % 256]
<1>3. BigEndian(n, w) = b
  BY <1>1 DEF Shifts
<1>4. b \in [1 .. w -> Byte]
  BY <1>2
<1> HIDE DEF b
<1>5. b \in Seq(Byte)
  BY <1>4, SeqDef
<1>6. Len(b) \in Nat /\ DOMAIN b = 1 .. Len(b) /\ DOMAIN b = 1 .. w
  BY <1>4, <1>5, LenProperties
<1>7. Len(b) = w
  <2>1. 1 .. Len(b) = 1 .. w
    BY <1>6
  <2> QED BY <1>6, <2>1, SameBound
<1> QED BY <1>3, <1>5, <1>7

(* Shifting back: n is read from its bytes if the reader starts with what  *)
(* is left of n once all its bytes are shifted out.                        *)
LEMMA NumberOfBigEndian ==
    ASSUME NEW n \in Int, NEW w \in Nat, NEW f, Shifts(f, n, w)
    PROVE  Number(BigEndian(n, w), f[w]) = n
<1> DEFINE data == BigEndian(n, w)
<1>1. data \in Seq(Byte) /\ Len(data) = w
  BY BigEndianBytes
<1>0. f[w] \in Int
  BY DEF Shifts
<1>2. PICK g : Reads(g, data, f[w])
  BY <1>0, <1>1, NumberUnfolds
<1>3. \A i \in 1 .. w : data[i] = f[w - i] % 256
  BY DEF Shifts
<1> HIDE DEF data
<1> DEFINE T == {i \in Nat : i <= w => g[i] = f[w - i]}
<1>4. 0 \in T
  BY <1>2 DEF Reads
<1>5. ASSUME NEW i \in Nat, i \in T PROVE i + 1 \in T
  <2> SUFFICES ASSUME i + 1 <= w PROVE g[i + 1] = f[w - (i + 1)]
    OBVIOUS
  <2>1. g[i] = f[w - i]
    BY <1>5
  <2>2. i + 1 \in 1 .. w /\ (i + 1) - 1 = i /\ w - i \in 1 .. w /\ (w - i) - 1 = w - (i + 1)
        /\ w - (i + 1) \in 0 .. w
    OBVIOUS
  <2>3. g[i + 1] = 256 * g[i] + data[i + 1]
    BY <1>1, <1>2, <2>2 DEF Reads
  <2>4. f[w - i] = f[w - (i + 1)] \div 256 /\ f[w - (i + 1)] \in Int
    BY <2>2 DEF Shifts
  <2>5. data[i + 1] = f[w - (i + 1)] % 256
    BY <1>3, <2>2
  <2>6. \A x \in Int : 256 * (x \div 256) + (x % 256) = x
    OBVIOUS
  <2> QED BY <2>1, <2>3, <2>4, <2>5, <2>6
<1>6. Nat \subseteq T
  <2> HIDE DEF T
  <2> QED BY <1>4, <1>5, Num!SetInduction
<1>7. g[w] = f[w - w]
  BY <1>6
<1>8. Number(data, f[w]) = g[w]
  BY <1>1, <1>2 DEF Reads
<1>9. f[w - w] = n
  BY DEF Shifts
<1> QED BY <1>7, <1>8, <1>9 DEF data

(* deserialize_int takes back w bytes if the first of them has the sign.   *)
LEMMA IntBack ==
    ASSUME NEW n \in Int, NEW w \in 1 .. 8, NEW f, Shifts(f, n, w),
           f[w - 1] >= -128, f[w - 1] <= 127
    PROVE  deserialize_int(BigEndian(n, w)) = Ok(n)
<1> DEFINE data == BigEndian(n, w)
<1>0. w \in Nat
  OBVIOUS
<1>1. data \in Seq(Byte) /\ Len(data) = w
  BY <1>0, BigEndianBytes
<1>2. f[w - 1] \in Int /\ f[w] = f[w - 1] \div 256
  BY DEF Shifts
<1>3. data[1] = f[w - 1] % 256
  BY DEF Shifts
<1>4. (IF data[1] >= 128 THEN -1 ELSE 0) = f[w]
  BY <1>2, <1>3
<1>5. Number(data, f[w]) = n
  BY NumberOfBigEndian
<1> HIDE DEF data
<1> QED BY <1>1, <1>4, <1>5 DEF deserialize_int, data

(* deserialize_uint has no sign. *)
LEMMA UintBack ==
    ASSUME NEW n \in Nat, NEW w \in 1 .. 8, NEW f, Shifts(f, n, w),
           f[w - 1] >= 0, f[w - 1] <= 255
    PROVE  deserialize_uint(BigEndian(n, w)) = Ok(n)
<1> DEFINE data == BigEndian(n, w)
<1>0. w \in Nat
  OBVIOUS
<1>1. data \in Seq(Byte) /\ Len(data) = w
  BY <1>0, BigEndianBytes
<1>2. f[w - 1] \in Int /\ f[w] = f[w - 1] \div 256
  BY DEF Shifts
<1>3. f[w] = 0
  BY <1>2
<1>4. Number(data, f[w]) = n
  BY NumberOfBigEndian
<1> HIDE DEF data
<1> QED BY <1>1, <1>3, <1>4 DEF deserialize_uint, data

(* An integer, shifted. *)
LEMMA ShiftSteps ==
    ASSUME NEW n \in Int, NEW f, NEW w \in {1, 2, 4, 8}, Shifts(f, n, w)
    PROVE  /\ w = 1 => f[w - 1] = n
           /\ w = 2 => f[w - 1] = n \div 256
           /\ w = 4 => f[w - 1] = ((n \div 256) \div 256) \div 256
           /\ w = 8 => f[w - 1] = TopByte(n)
<1>1. f[0] = n /\ \A k \in 1 .. w : f[k] = f[k - 1] \div 256
  BY DEF Shifts
<1>2. CASE w = 1
  BY <1>1, <1>2
<1>3. CASE w = 2
  BY <1>1, <1>3
<1>4. CASE w = 4
  <2>1. f[1] = f[0] \div 256 /\ f[2] = f[1] \div 256 /\ f[3] = f[2] \div 256
    BY <1>1, <1>4
  <2> QED BY <1>1, <1>4, <2>1
<1>5. CASE w = 8
  <2>1. /\ f[1] = f[0] \div 256 /\ f[2] = f[1] \div 256 /\ f[3] = f[2] \div 256
        /\ f[4] = f[3] \div 256 /\ f[5] = f[4] \div 256 /\ f[6] = f[5] \div 256
        /\ f[7] = f[6] \div 256
    BY <1>1, <1>5
  <2>2. /\ f[1] \in Int /\ f[2] \in Int /\ f[3] \in Int
        /\ f[4] \in Int /\ f[5] \in Int /\ f[6] \in Int
    BY <1>5 DEF Shifts
  <2>3. PICK a \in Int, b \in Int, c \in Int, d \in Int, e \in Int, g \in Int :
          a = f[1] /\ b = f[2] /\ c = f[3] /\ d = f[4] /\ e = f[5] /\ g = f[6]
    BY Zenon, <2>2
  <2>4. /\ a = n \div 256 /\ b = a \div 256 /\ c = b \div 256 /\ d = c \div 256
        /\ e = d \div 256 /\ g = e \div 256
    BY <1>1, <2>1, <2>3
  <2>5. g \div 256 = TopByte(n)
    BY <2>4 DEF TopByte
  <2>7. f[7] = TopByte(n)
    BY <2>1, <2>3, <2>5
  <2> QED BY <1>5, <2>7
<1> QED BY <1>2, <1>3, <1>4, <1>5

(* The width serialize_int chooses holds the integer and its sign.         *)
LEMMA IntRoundTrip ==
    ASSUME NEW n \in Int, TopByte(n) >= -128, TopByte(n) <= 127
    PROVE  /\ serialize_int(n) \in Seq(Byte) /\ Len(serialize_int(n)) <= 8
           /\ deserialize_int(serialize_int(n)) = Ok(n)
<1> DEFINE w == IF n >= -128 /\ n <= 127 THEN 1
                ELSE IF n >= -32768 /\ n <= 32767 THEN 2
                ELSE IF n >= -8388608 /\ n <= 8388607 THEN 4
                ELSE 8
<1>1. w \in {1, 2, 4, 8} /\ w \in 1 .. 8 /\ w \in Nat /\ w <= 8
  OBVIOUS
<1>2. serialize_int(n) = BigEndian(n, w)
  BY DEF serialize_int
<1>3. PICK f : Shifts(f, n, w)
  <2> HIDE DEF w
  <2> QED BY <1>1, BigEndianUnfolds
<1>4. /\ w = 1 => f[w - 1] = n
      /\ w = 2 => f[w - 1] = n \div 256
      /\ w = 4 => f[w - 1] = ((n \div 256) \div 256) \div 256
      /\ w = 8 => f[w - 1] = TopByte(n)
  <2> HIDE DEF w
  <2> QED BY <1>1, <1>3, ShiftSteps
<1>5. /\ w = 1 => n >= -128 /\ n <= 127
      /\ w = 2 => n >= -32768 /\ n <= 32767
      /\ w = 4 => n >= -8388608 /\ n <= 8388607
  BY SMT
<1> HIDE DEF w
<1>6. f[w - 1] >= -128 /\ f[w - 1] <= 127
  <2>1. CASE w = 1
    BY SMT, <1>4, <1>5, <2>1
  <2>2. CASE w = 2
    <3>1. n \div 256 >= -128 /\ n \div 256 <= 127
      BY SMT, <1>5, <2>2
    <3> QED BY SMT, <1>4, <2>2, <3>1
  <2>3. CASE w = 4
    <3>1. ((n \div 256) \div 256) \div 256 >= -128 /\ ((n \div 256) \div 256) \div 256 <= 127
      BY SMT, <1>5, <2>3
    <3> QED BY SMT, <1>4, <2>3, <3>1
  <2>4. CASE w = 8
    BY SMT, <1>4, <2>4
  <2> QED BY <1>1, <2>1, <2>2, <2>3, <2>4
<1>7. deserialize_int(BigEndian(n, w)) = Ok(n)
  BY <1>1, <1>3, <1>6, IntBack
<1> QED BY <1>1, <1>2, <1>7, BigEndianBytes

(* What n \div t leaves of n. *)
LEMMA WholeParts ==
    ASSUME NEW n \in Nat, NEW t \in Nat, t > 0
    PROVE  /\ n \div t \in Nat /\ n \div t <= n
           /\ (n \div t) * t \in Nat /\ (n \div t) * t <= n
<1> DEFINE q == n \div t
<1>1. n \div t \in Int /\ n = t * (n \div t) + (n % t) /\ n % t \in 0 .. t - 1
  BY SMT
<1> HIDE DEF q
<1>2. PICK r \in 0 .. t - 1 : n = t * q + r
  BY <1>1 DEF q
<1>3. q \in Int
  BY <1>1 DEF q
<1>4. q >= 0
  <2> SUFFICES ASSUME q <= -1 PROVE FALSE
    BY <1>3
  <2>1. t * q <= -t
    BY SMT, <1>3
  <2> QED BY SMT, <1>2, <1>3, <2>1
<1>5. q * t = t * q /\ t * q \in Int /\ t * q >= q /\ t * q >= 0
  BY SMT, <1>3, <1>4
<1>6. t * q <= n
  BY SMT, <1>2, <1>3, <1>5
<1> QED BY <1>3, <1>4, <1>5, <1>6 DEF q

(* A smaller integer has no larger top byte. *)
LEMMA TopByteMonotone ==
    ASSUME NEW a \in Int, NEW b \in Int, a <= b
    PROVE  TopByte(a) \in Int /\ TopByte(b) \in Int /\ TopByte(a) <= TopByte(b)
<1>1. \A x, y \in Int : x <= y =>
        x \div 256 <= y \div 256 /\ x \div 256 \in Int /\ y \div 256 \in Int
  BY SMT
<1> DEFINE S(x) == x \div 256
<1>2. \A x, y \in Int : x <= y => S(x) <= S(y) /\ S(x) \in Int /\ S(y) \in Int
  BY <1>1
<1>3. \A x : TopByte(x) = S(S(S(S(S(S(S(x)))))))
  BY DEF TopByte
<1> HIDE DEF S
<1>4. S(a) <= S(b) /\ S(a) \in Int /\ S(b) \in Int
  BY <1>2
<1>5. S(S(a)) <= S(S(b)) /\ S(S(a)) \in Int /\ S(S(b)) \in Int
  BY <1>2, <1>4
<1>6. S(S(S(a))) <= S(S(S(b))) /\ S(S(S(a))) \in Int /\ S(S(S(b))) \in Int
  BY <1>2, <1>5
<1>7. S(S(S(S(a)))) <= S(S(S(S(b)))) /\ S(S(S(S(a)))) \in Int /\ S(S(S(S(b)))) \in Int
  BY <1>2, <1>6
<1>8. /\ S(S(S(S(S(a))))) <= S(S(S(S(S(b)))))
      /\ S(S(S(S(S(a))))) \in Int /\ S(S(S(S(S(b))))) \in Int
  BY <1>2, <1>7
<1>9. /\ S(S(S(S(S(S(a)))))) <= S(S(S(S(S(S(b))))))
      /\ S(S(S(S(S(S(a)))))) \in Int /\ S(S(S(S(S(S(b)))))) \in Int
  BY <1>2, <1>8
<1>10. /\ S(S(S(S(S(S(S(a))))))) <= S(S(S(S(S(S(S(b)))))))
       /\ S(S(S(S(S(S(S(a))))))) \in Int /\ S(S(S(S(S(S(S(b))))))) \in Int
  BY <1>2, <1>9
<1> QED BY <1>3, <1>10

(* What lies between 0 and an integer of 64 bits has 64 bits. *)
LEMMA Within64 ==
    ASSUME NEW v \in Int, TopByte(v) >= -128, TopByte(v) <= 127,
           NEW n \in Int, (0 <= n /\ n <= v) \/ (v <= n /\ n <= 0)
    PROVE  TopByte(n) >= -128 /\ TopByte(n) <= 127
<1>1. TopByte(0) = 0
  BY SMT DEF TopByte
<1>2. CASE 0 <= n /\ n <= v
  <2>1. TopByte(0) <= TopByte(n) /\ TopByte(n) <= TopByte(v) /\ TopByte(n) \in Int
        /\ TopByte(v) \in Int
    BY <1>2, TopByteMonotone
  <2> QED BY SMT, <1>1, <2>1
<1>3. CASE v <= n /\ n <= 0
  <2>1. TopByte(v) <= TopByte(n) /\ TopByte(n) <= TopByte(0) /\ TopByte(n) \in Int
        /\ TopByte(v) \in Int
    BY <1>3, TopByteMonotone
  <2> QED BY SMT, <1>1, <2>1
<1> QED BY <1>2, <1>3

(* The whole seconds of a time of the clock, and their ticks, lie between  *)
(* 0 and the time.                                                         *)
LEMMA SecondsWithin ==
    ASSUME NEW v \in Int
    PROVE  \E s \in Int : \E n \in Int :
             /\ s = Seconds(v) /\ n = Seconds(v) * TicksPerSecond
             /\ \/ 0 <= s /\ s <= v /\ 0 <= n /\ n <= v
                \/ v <= s /\ s <= 0 /\ v <= n /\ n <= 0
<1>1. PICK t \in Nat : t = TicksPerSecond /\ t > 0
  BY TicksAssumption
<1>2. CASE v >= 0
  <2>1. v \in Nat /\ Seconds(v) = v \div t
    BY <1>1, <1>2 DEF Seconds
  <2> QED BY <1>1, <2>1, WholeParts
<1>3. CASE v < 0
  <2>1. PICK m \in Nat : m = -v
    BY <1>3
  <2>2. PICK q \in Nat, p \in Nat : q = m \div t /\ p = q * t /\ q <= m /\ p <= m
    BY <1>1, WholeParts
  <2>3. Seconds(v) = -q
    BY <1>1, <1>3, <2>1, <2>2 DEF Seconds
  <2>4. (-q) * t = -p
    BY SMT, <1>1, <2>2
  <2> QED BY <1>1, <2>1, <2>2, <2>3, <2>4
<1> QED BY <1>2, <1>3

(* A time comes back as its whole seconds, in ticks. *)
LEMMA TimeRoundTrip ==
    ASSUME NEW v \in Int, TopByte(v) >= -128, TopByte(v) <= 127
    PROVE  /\ serialize_int(Seconds(v)) \in Seq(Byte) /\ Len(serialize_int(Seconds(v))) <= 8
           /\ deserialize_time(serialize_int(Seconds(v))) = Ok(Seconds(v) * TicksPerSecond)
<1>1. PICK s \in Int, n \in Int :
        /\ s = Seconds(v) /\ n = Seconds(v) * TicksPerSecond
        /\ \/ 0 <= s /\ s <= v /\ 0 <= n /\ n <= v
           \/ v <= s /\ s <= 0 /\ v <= n /\ n <= 0
  BY SecondsWithin
<1>2. TopByte(s) >= -128 /\ TopByte(s) <= 127 /\ TopByte(n) >= -128 /\ TopByte(n) <= 127
  BY <1>1, Within64
<1>3. PICK data : data = serialize_int(s)
  OBVIOUS
<1>4. data \in Seq(Byte) /\ Len(data) <= 8 /\ deserialize_int(data) = Ok(s)
  BY <1>2, <1>3, IntRoundTrip
<1>5. PICK f : Shifts(f, n, 8)
  BY BigEndianUnfolds
<1>6. f[8 - 1] = TopByte(n)
  <2>1. 8 \in {1, 2, 4, 8}
    OBVIOUS
  <2> QED BY <1>5, <2>1, ShiftSteps
<1>7. deserialize_int(BigEndian(n, 8)) = Ok(n)
  BY <1>2, <1>5, <1>6, IntBack
<1>8. Ok(s).ok = TRUE /\ Ok(s).value = s
  BY DEF Ok
<1>9. deserialize_time(data) = Ok(n)
  BY <1>1, <1>4, <1>7, <1>8 DEF deserialize_time
<1> QED BY <1>1, <1>3, <1>4, <1>9

LEMMA UintRoundTrip ==
    ASSUME NEW n \in Nat, TopByte(n) <= 255
    PROVE  /\ serialize_uint(n) \in Seq(Byte) /\ Len(serialize_uint(n)) <= 8
           /\ deserialize_uint(serialize_uint(n)) = Ok(n)
<1> DEFINE w == IF n <= 255 THEN 1
                ELSE IF n <= 65535 THEN 2
                ELSE IF n <= 16777215 THEN 4
                ELSE 8
<1>1. w \in {1, 2, 4, 8} /\ w \in 1 .. 8 /\ w \in Nat /\ w <= 8
  OBVIOUS
<1>2. serialize_uint(n) = BigEndian(n, w)
  BY DEF serialize_uint
<1>3. PICK f : Shifts(f, n, w)
  <2> HIDE DEF w
  <2> QED BY <1>1, BigEndianUnfolds
<1>4. /\ w = 1 => f[w - 1] = n
      /\ w = 2 => f[w - 1] = n \div 256
      /\ w = 4 => f[w - 1] = ((n \div 256) \div 256) \div 256
      /\ w = 8 => f[w - 1] = TopByte(n)
  <2> HIDE DEF w
  <2> QED BY <1>1, <1>3, ShiftSteps
<1>5. /\ w = 1 => n <= 255
      /\ w = 2 => n <= 65535
      /\ w = 4 => n <= 16777215
  BY SMT
<1> HIDE DEF w
<1>6. f[w - 1] >= 0 /\ f[w - 1] <= 255
  <2>1. CASE w = 1
    BY SMT, <1>4, <1>5, <2>1
  <2>2. CASE w = 2
    <3>1. n \div 256 >= 0 /\ n \div 256 <= 255
      BY SMT, <1>5, <2>2
    <3> QED BY SMT, <1>4, <2>2, <3>1
  <2>3. CASE w = 4
    <3>1. ((n \div 256) \div 256) \div 256 >= 0 /\ ((n \div 256) \div 256) \div 256 <= 255
      BY SMT, <1>5, <2>3
    <3> QED BY SMT, <1>4, <2>3, <3>1
  <2>4. CASE w = 8
    <3>1. TopByte(n) >= 0
      BY SMT DEF TopByte
    <3> QED BY SMT, <1>4, <2>4, <3>1
  <2> QED BY <1>1, <2>1, <2>2, <2>3, <2>4
<1>7. deserialize_uint(BigEndian(n, w)) = Ok(n)
  BY <1>1, <1>3, <1>6, UintBack
<1> QED BY <1>1, <1>2, <1>7, BigEndianBytes

(* The two bytes of a 16-bit number. *)
LEMMA TwoBack ==
    ASSUME NEW n \in U16
    PROVE  /\ BigEndian(n, 2) \in Seq(Byte) /\ Len(BigEndian(n, 2)) = 2
           /\ 256 * BigEndian(n, 2)[1] + BigEndian(n, 2)[2] = n
<1>1. n \in Nat /\ n <= 65535 /\ n \in Int
  BY Ranges
<1>2. PICK f : Shifts(f, n, 2)
  BY <1>1, BigEndianUnfolds
<1>3. f[0] = n /\ f[1] = n \div 256
  BY <1>2 DEF Shifts
<1>4. BigEndian(n, 2) = [i \in 1 .. 2 |-> f[2 - i] % 256]
  BY <1>2 DEF Shifts
<1>5. BigEndian(n, 2)[1] = (n \div 256) % 256 /\ BigEndian(n, 2)[2] = n % 256
  BY <1>3, <1>4
<1>6. 256 * ((n \div 256) % 256) + (n % 256) = n
  BY SMT, <1>1
<1>7. BigEndian(n, 2) \in Seq(Byte) /\ Len(BigEndian(n, 2)) = 2
  <2>1. PICK m \in Int, w \in Nat : m = n /\ w = 2
    BY <1>1
  <2>2. BigEndian(m, w) \in Seq(Byte) /\ Len(BigEndian(m, w)) = w
    BY BigEndianBytes
  <2> QED BY <2>1, <2>2
<1>8. 256 * BigEndian(n, 2)[1] + BigEndian(n, 2)[2] = n
  BY SMT, <1>5, <1>6
<1> QED BY <1>7, <1>8

(* An object link is read back from its four bytes. *)
LEMMA LinkRoundTrip ==
    ASSUME NEW path \in U16 \X U16
    PROVE  /\ serialize_objlink(path) \in Seq(Byte) /\ Len(serialize_objlink(path)) = 4
           /\ deserialize_objlink(serialize_objlink(path)) = Ok(path)
<1> DEFINE a == BigEndian(path[1], 2)
           b == BigEndian(path[2], 2)
<1>1. path[1] \in U16 /\ path[2] \in U16 /\ Len(path) = 2 /\ path = <<path[1], path[2]>>
  OBVIOUS
<1>2. /\ a \in Seq(Byte) /\ Len(a) = 2 /\ 256 * a[1] + a[2] = path[1]
      /\ b \in Seq(Byte) /\ Len(b) = 2 /\ 256 * b[1] + b[2] = path[2]
  BY <1>1, TwoBack
<1>3. serialize_objlink(path) = a \o b
  BY <1>1 DEF serialize_objlink
<1> HIDE DEF a, b
<1>4. /\ a \o b \in Seq(Byte) /\ Len(a \o b) = 2 + 2
      /\ \A i \in 1 .. 2 + 2 : (a \o b)[i] = IF i <= 2 THEN a[i] ELSE b[i - 2]
  BY <1>2, ConcatProperties
<1>5. (a \o b)[1] = a[1] /\ (a \o b)[2] = a[2] /\ (a \o b)[3] = b[1] /\ (a \o b)[4] = b[2]
  BY <1>4
<1>6. deserialize_objlink(a \o b) = Ok(<<path[1], path[2]>>)
  BY <1>2, <1>4, <1>5 DEF deserialize_objlink
<1>7. Len(a \o b) = 4
  BY <1>4
<1>8. deserialize_objlink(a \o b) = Ok(path)
  BY Zenon, <1>1, <1>6
<1> QED BY Zenon, <1>3, <1>4, <1>7, <1>8

(* A number of up to 32 bits, or a little more, is far within 64.          *)
LEMMA NumberOK ==
    ASSUME NEW n \in Int, n \div 65536 >= -65536, n \div 65536 <= 65536
    PROVE  OfType(Value("Integer", n)) /\ OfType(Value("Time", n))
<1>1. PICK a \in Int : a = n \div 65536 /\ a = (n \div 256) \div 256
  <2>1. n \div 65536 = (n \div 256) \div 256
    BY SMT
  <2> QED BY <2>1
<1>2. PICK b \in Int : b = a \div 256 /\ b >= -256 /\ b <= 256
  <2>1. a \div 256 \in Int /\ a \div 256 >= -256 /\ a \div 256 <= 256
    BY SMT, <1>1
  <2> QED BY <2>1
<1>3. PICK c \in Int : c = b \div 256 /\ c >= -1 /\ c <= 1
  <2>1. b \div 256 \in Int /\ b \div 256 >= -1 /\ b \div 256 <= 1
    BY SMT, <1>2
  <2> QED BY <2>1
<1>4. PICK d \in Int : d = c \div 256 /\ d >= -1 /\ d <= 0
  <2>1. c \div 256 \in Int /\ c \div 256 >= -1 /\ c \div 256 <= 0
    BY SMT, <1>3
  <2> QED BY <2>1
<1>5. PICK e \in Int : e = d \div 256 /\ e >= -1 /\ e <= 0
  <2>1. d \div 256 \in Int /\ d \div 256 >= -1 /\ d \div 256 <= 0
    BY SMT, <1>4
  <2> QED BY <2>1
<1>6. TopByte(n) = e
  BY <1>1, <1>2, <1>3, <1>4, <1>5 DEF TopByte
<1>7. TopByte(n) >= -128 /\ TopByte(n) <= 127
  BY SMT, <1>5, <1>6
<1>8. \A t, v : get_resource_type(Value(t, v)) = t /\ Datum(Value(t, v)) = v
  BY DEF get_resource_type, Datum, Value
<1> QED BY <1>7, <1>8 DEF OfType

(* Bytes, and a Boolean. *)
LEMMA BytesOfType ==
    /\ \A v \in Seq(Byte) : OfType(Value("String", v)) /\ OfType(Value("Opaque", v))
    /\ \A v \in BOOLEAN : OfType(Value("Boolean", v))
<1>1. \A t, v : get_resource_type(Value(t, v)) = t /\ Datum(Value(t, v)) = v
  BY DEF get_resource_type, Datum, Value
<1> QED BY <1>1 DEF OfType

(* What serialize makes of a value fits a record exactly if the value is   *)
(* Sendable, and decode_resource makes the same value of it, but for what  *)
(* a time has beyond its seconds.                                          *)
LEMMA ValueSerialized ==
    ASSUME NEW value, OfType(value)
    PROVE  /\ serialize(value) \in Seq(Byte)
           /\ Len(serialize(value)) <= MaxValue <=> Sendable(value)
           /\ decode_resource(serialize(value), get_resource_type(value)) = Ok(Received(value))
<1> DEFINE t == get_resource_type(value)
           v == Datum(value)
<1>0. \A n \in Nat : n <= 8 => n <= MaxValue
  BY SMT DEF MaxValue
<1>1. value = Value(t, v) /\ MaxValue \in Nat
  BY SMT DEF OfType, MaxValue
<1>12. ASSUME NEW data, NEW w, deserialize(data, t) = Ok(w)
       PROVE  decode_resource(data, t) = Ok(Value(t, w))
  <2>1. deserialize(data, t).ok = TRUE /\ deserialize(data, t).value = w
    BY <1>12 DEF Ok
  <2> QED BY <2>1 DEF decode_resource
<1>2. ASSUME t # "Time", NEW data, deserialize(data, t) = Ok(v)
      PROVE  decode_resource(data, t) = Ok(Received(value))
  <2>1. Received(value) = value
    BY <1>2 DEF Received
  <2> QED BY <1>1, <1>2, <1>12, <2>1
<1>11. t \notin {"String", "Opaque"} => Sendable(value)
  BY DEF Sendable
<1> HIDE DEF t, v
<1>3. CASE t = "None"
  <2>1. v = <<>> /\ serialize(value) = <<>>
    BY SMT, <1>3 DEF OfType, serialize, t, v
  <2>2. deserialize(<<>>, t) = Ok(<<>>)
    BY SMT, <1>3 DEF deserialize
  <2>3. <<>> \in Seq(Byte) /\ Len(<<>>) = 0
    BY EmptySeq
  <2> QED BY <1>0, <1>2, <1>3, <1>11, <2>1, <2>2, <2>3 DEF t
<1>4. CASE t = "Boolean"
  <2>1. v \in BOOLEAN /\ serialize(value) = <<IF v THEN 1 ELSE 0>>
    BY SMT, <1>4 DEF OfType, serialize, t, v
  <2> DEFINE data == <<IF v THEN 1 ELSE 0>>
  <2>2. deserialize(data, t) = deserialize_bool(data)
    BY SMT, <1>4 DEF deserialize
  <2>3. deserialize_bool(data) = Ok(v)
    BY <2>1 DEF deserialize_bool
  <2>4. data \in Seq(Byte) /\ Len(data) = 1
    <3>1. 0 \in Byte /\ 1 \in Byte
      BY Ranges
    <3> QED BY <3>1
  <2> HIDE DEF data
  <2>5. 1 <= MaxValue
    BY <1>0
  <2> QED BY <1>2, <1>4, <1>11, <2>1, <2>2, <2>3, <2>4, <2>5 DEF t, data
<1>5. CASE t = "Integer"
  <2>1. v \in Int /\ TopByte(v) >= -128 /\ TopByte(v) <= 127 /\ serialize(value) = serialize_int(v)
    BY SMT, <1>5 DEF OfType, serialize, t, v
  <2>2. deserialize(serialize_int(v), t) = deserialize_int(serialize_int(v))
    BY SMT, <1>5 DEF deserialize
  <2>3. /\ serialize_int(v) \in Seq(Byte) /\ Len(serialize_int(v)) <= 8
        /\ deserialize_int(serialize_int(v)) = Ok(v)
    BY <2>1, IntRoundTrip
  <2>4. Len(serialize_int(v)) \in Nat
    BY <2>3, LenProperties
  <2> QED BY <1>0, <1>2, <1>5, <1>11, <2>1, <2>2, <2>3, <2>4 DEF t
<1>13. CASE t = "Time"
  <2>1. /\ v \in Int /\ TopByte(v) >= -128 /\ TopByte(v) <= 127
        /\ serialize(value) = serialize_int(Seconds(v))
    BY SMT, <1>13 DEF OfType, serialize, t, v
  <2>2. PICK data : data = serialize_int(Seconds(v))
    OBVIOUS
  <2>3. /\ data \in Seq(Byte) /\ Len(data) <= 8
        /\ deserialize_time(data) = Ok(Seconds(v) * TicksPerSecond)
    BY <2>1, <2>2, TimeRoundTrip
  <2>4. deserialize(data, t) = deserialize_time(data)
    BY SMT, <1>13 DEF deserialize
  <2>5. decode_resource(data, t) = Ok(Value(t, Seconds(v) * TicksPerSecond))
    BY <1>12, <2>3, <2>4
  <2>6. Received(value) = Value(t, Seconds(v) * TicksPerSecond)
    BY <1>13 DEF Received, t, v
  <2>7. Len(data) \in Nat
    BY <2>3, LenProperties
  <2> QED BY <1>0, <1>11, <1>13, <2>1, <2>2, <2>3, <2>5, <2>6, <2>7 DEF t
<1>6. CASE t = "UnsignedInteger"
  <2>1. v \in Nat /\ TopByte(v) <= 255 /\ serialize(value) = serialize_uint(v)
    BY SMT, <1>6 DEF OfType, serialize, t, v
  <2>2. deserialize(serialize_uint(v), t) = deserialize_uint(serialize_uint(v))
    BY SMT, <1>6 DEF deserialize
  <2>3. /\ serialize_uint(v) \in Seq(Byte) /\ Len(serialize_uint(v)) <= 8
        /\ deserialize_uint(serialize_uint(v)) = Ok(v)
    BY <2>1, UintRoundTrip
  <2>4. Len(serialize_uint(v)) \in Nat
    BY <2>3, LenProperties
  <2> QED BY <1>0, <1>2, <1>6, <1>11, <2>1, <2>2, <2>3, <2>4 DEF t
<1>7. CASE t = "Float"
  <2>1. v \in Seq(Byte) /\ Len(v) = 8 /\ serialize(value) = v
    BY SMT, <1>7 DEF OfType, serialize, t, v
  <2>2. deserialize(v, t) = deserialize_float(v)
    BY SMT, <1>7 DEF deserialize
  <2>3. deserialize_float(v) = Ok(v)
    BY <2>1 DEF deserialize_float
  <2>4. 8 <= MaxValue
    BY <1>0
  <2> QED BY <1>2, <1>7, <1>11, <2>1, <2>2, <2>3, <2>4 DEF t
<1>8. CASE t = "ObjectLink"
  <2>1. v \in U16 \X U16 /\ serialize(value) = serialize_objlink(v)
    BY SMT, <1>8 DEF OfType, serialize, t, v
  <2>2. deserialize(serialize_objlink(v), t) = deserialize_objlink(serialize_objlink(v))
    BY SMT, <1>8 DEF deserialize
  <2>3. /\ serialize_objlink(v) \in Seq(Byte) /\ Len(serialize_objlink(v)) = 4
        /\ deserialize_objlink(serialize_objlink(v)) = Ok(v)
    BY <2>1, LinkRoundTrip
  <2>4. 4 <= MaxValue
    BY <1>0
  <2> QED BY <1>2, <1>8, <1>11, <2>1, <2>2, <2>3, <2>4 DEF t
<1>9. CASE t \in {"String", "Opaque"}
  <2>1. v \in Seq(Byte) /\ serialize(value) = v
    BY SMT, <1>9 DEF OfType, serialize, t, v
  <2>2. deserialize(v, t) = Ok(v)
    BY SMT, <1>9 DEF deserialize
  <2>3. Len(v) <= MaxValue <=> Sendable(value)
    BY <1>9 DEF Sendable, t, v
  <2> QED BY <1>2, <1>9, <2>1, <2>2, <2>3 DEF t
<1>10. t \in {"None", "Boolean", "Integer", "Time", "UnsignedInteger", "Float", "ObjectLink",
              "String", "Opaque"}
  BY SMT DEF OfType, t, v
<1> QED BY <1>3, <1>4, <1>5, <1>6, <1>7, <1>8, <1>9, <1>10, <1>13

(* What decode_resource makes of what serialize made, for every value a    *)
(* record can carry: the same value, and of a time its whole seconds.  The *)
(* ticks of such a time always fit the clock again, so the multiplication  *)
(* of deserialize_time, which overflows for the seconds of other senders,  *)
(* does not for those of the encoder (src/codec/tlv.cpp:146-243, 378-476). *)
THEOREM ValueRoundTrip ==
    ASSUME NEW value, Sendable(value)
    PROVE  /\ serialize(value) \in Seq(Byte) /\ Len(serialize(value)) <= MaxValue
           /\ decode_resource(serialize(value), get_resource_type(value)) = Ok(Received(value))
<1>1. OfType(value)
  BY DEF Sendable
<1> QED BY <1>1, ValueSerialized

-----------------------------------------------------------------------------
(* Records. *)

(* The type byte keeps its four parts apart. *)
LEMMA PackedByte ==
    ASSUME NEW t \in 0 .. 3, NEW i \in 0 .. 1, NEW l \in 0 .. 3, NEW m \in 0 .. 7,
           NEW b, b = 64 * t + 32 * i + 8 * l + m
    PROVE  /\ b \in Byte /\ b \div 64 = t /\ (b \div 32) % 2 = i
           /\ (b \div 8) % 4 = l /\ b % 8 = m
<1>1. b \in Nat /\ b <= 255
  OBVIOUS
<1>2. b \in Byte
  BY <1>1, Ranges
<1>3. b \div 64 = t /\ b % 8 = m
  BY <1>1
<1>4. b \div 8 = 8 * t + 4 * i + l /\ b \div 32 = 2 * t + i
  BY <1>1
<1>5. (8 * t + 4 * i + l) % 4 = l /\ (2 * t + i) % 2 = i
  OBVIOUS
<1> QED BY <1>2, <1>3, <1>4, <1>5

LEMMA TypeByteBack ==
    ASSUME NEW type \in 0 .. 3, NEW id \in U16, NEW n \in Nat
    PROVE  LET b == TypeByte(type, id, n)
           IN  /\ b \in Byte /\ b \div 64 = type
               /\ IdLength(b) = IF id > 255 THEN 2 ELSE 1
               /\ LengthType(b) = LengthForm(n)
               /\ n < 8 => b % 8 = n
<1> DEFINE i == IF id > 255 THEN 1 ELSE 0
           l == LengthForm(n)
           m == IF n < 8 THEN n ELSE 0
           b == 64 * type + 32 * i + 8 * l + m
<1>1. i \in 0 .. 1 /\ m \in 0 .. 7
  BY Ranges
<1>2. l \in 0 .. 3
  BY SMT DEF LengthForm
<1>3. TypeByte(type, id, n) = b
  <2>1. (IF id > 255 THEN 32 ELSE 0) = 32 * i
    OBVIOUS
  <2> HIDE DEF i, l
  <2> QED BY <1>1, <1>2, <2>1 DEF TypeByte, l
<1> HIDE DEF i, l, m
<1>4. /\ b \in Byte /\ b \div 64 = type /\ (b \div 32) % 2 = i
      /\ (b \div 8) % 4 = l /\ b % 8 = m
  BY <1>1, <1>2, PackedByte
<1> HIDE DEF b
<1>5. IdLength(b) = IF id > 255 THEN 2 ELSE 1
  BY <1>4 DEF IdLength, i
<1>6. LengthType(b) = LengthForm(n)
  BY <1>4 DEF LengthType, l
<1>7. n < 8 => b % 8 = n
  BY <1>4 DEF m
<1> QED BY <1>3, <1>4, <1>5, <1>6, <1>7

(* The bytes of an id and of a length, and what they say. *)
LEMMA IdBytesBack ==
    ASSUME NEW id \in U16
    PROVE  LET w == IF id > 255 THEN 2 ELSE 1
               b == IdBytes(id)
           IN  /\ b \in Seq(Byte) /\ Len(b) = w
               /\ id = IF w = 1 THEN b[1] ELSE 256 * b[1] + b[2]
<1>1. id \in Nat /\ id <= 65535
  BY Ranges
<1>2. CASE id > 255
  <2> DEFINE x == id \div 256
             y == id % 256
  <2>1. x \in Nat /\ x <= 255 /\ y \in Nat /\ y <= 255 /\ 256 * x + y = id
    BY SMT, <1>1, <1>2
  <2>2. IdBytes(id) = <<x, y>>
    BY <1>2 DEF IdBytes
  <2> HIDE DEF x, y
  <2>3. x \in Byte /\ y \in Byte
    BY <2>1, Ranges
  <2> QED BY <1>2, <2>1, <2>2, <2>3
<1>3. CASE ~(id > 255)
  <2>1. IdBytes(id) = <<id>>
    BY <1>3 DEF IdBytes
  <2>2. id \in Byte
    BY <1>1, <1>3, Ranges
  <2> QED BY <1>3, <2>1, <2>2
<1> QED BY <1>2, <1>3

LEMMA LengthBytesBack ==
    ASSUME NEW n \in Nat, n <= MaxValue
    PROVE  LET l == LengthForm(n)
               b == LengthBytes(n)
           IN  /\ l \in 0 .. 3 /\ (l = 0 <=> n < 8)
               /\ b \in Seq(Byte) /\ Len(b) = l
               /\ l = 1 => n = b[1]
               /\ l = 2 => n = 256 * b[1] + b[2]
               /\ l = 3 => n = 65536 * b[1] + 256 * b[2] + b[3]
<1> DEFINE l == LengthForm(n)
           b == LengthBytes(n)
<1>1. l \in 0 .. 3 /\ (l = 0 <=> n < 8)
  BY SMT DEF LengthForm
<1>2. CASE l = 0
  <2>1. b = <<>>
    BY SMT, <1>2 DEF LengthBytes
  <2>2. <<>> \in Seq(Byte) /\ Len(<<>>) = 0
    BY EmptySeq
  <2> HIDE DEF l, b
  <2> QED BY <1>1, <1>2, <2>1, <2>2 DEF l, b
<1>3. CASE l = 1
  <2>1. b = <<n>>
    BY SMT, <1>3 DEF LengthBytes
  <2>2. n <= 255
    BY SMT, <1>3 DEF LengthForm
  <2>3. n \in Byte
    BY <2>2, Ranges
  <2>4. <<n>> \in Seq(Byte) /\ Len(<<n>>) = 1 /\ <<n>>[1] = n
    BY <2>3
  <2> HIDE DEF l, b
  <2> QED BY <1>1, <1>3, <2>1, <2>4 DEF l, b
<1>4. CASE l = 2
  <2> DEFINE x == n \div 256
             y == n % 256
  <2>1. b = <<x, y>>
    BY SMT, <1>4 DEF LengthBytes
  <2>2. n <= 65535
    BY SMT, <1>4 DEF LengthForm
  <2>3. x \in Nat /\ x <= 255 /\ y \in Nat /\ y <= 255 /\ n = 256 * x + y
    BY SMT, <2>2
  <2> HIDE DEF l, b, x, y
  <2>4. x \in Byte /\ y \in Byte
    BY <2>3, Ranges
  <2>5. <<x, y>> \in Seq(Byte) /\ Len(<<x, y>>) = 2 /\ <<x, y>>[1] = x /\ <<x, y>>[2] = y
    BY <2>4
  <2>6. b \in Seq(Byte) /\ Len(b) = 2 /\ b[1] = x /\ b[2] = y
    BY Zenon, <2>1, <2>5
  <2>7. n = 256 * b[1] + b[2]
    BY <2>3, <2>6
  <2> QED BY <1>1, <1>4, <2>6, <2>7 DEF l, b
<1>5. CASE l = 3
  <2> DEFINE x == (n \div 65536) % 256
             y == (n \div 256) % 256
             z == n % 256
  <2>1. b = <<x, y, z>>
    BY SMT, <1>5 DEF LengthBytes
  <2>2. n <= 16777215
    BY SMT DEF MaxValue
  <2>3. /\ x \in Nat /\ x <= 255 /\ y \in Nat /\ y <= 255 /\ z \in Nat /\ z <= 255
        /\ n = 65536 * x + 256 * y + z
    BY SMT, <2>2
  <2> HIDE DEF l, b, x, y, z
  <2>4. x \in Byte /\ y \in Byte /\ z \in Byte
    BY <2>3, Ranges
  <2>5. /\ <<x, y, z>> \in Seq(Byte) /\ Len(<<x, y, z>>) = 3 /\ <<x, y, z>>[1] = x
        /\ <<x, y, z>>[2] = y /\ <<x, y, z>>[3] = z
    BY <2>4
  <2>6. b \in Seq(Byte) /\ Len(b) = 3 /\ b[1] = x /\ b[2] = y /\ b[3] = z
    BY Zenon, <2>1, <2>5
  <2>7. n = 65536 * b[1] + 256 * b[2] + b[3]
    BY SMT, <2>3, <2>6
  <2> QED BY SMT, <1>1, <1>5, <2>6, <2>7 DEF l, b
<1> QED BY SMT, <1>1, <1>2, <1>3, <1>4, <1>5

(* The three parts of a header, each in its place. *)
LEMMA HeaderBytes ==
    ASSUME NEW type \in 0 .. 3, NEW id \in U16, NEW n \in Nat, n <= MaxValue
    PROVE  LET h == Header(type, id, n)
               w == IF id > 255 THEN 2 ELSE 1
               l == LengthForm(n)
           IN  /\ h \in Seq(Byte) /\ Len(h) = 1 + w + l
               /\ h[1] = TypeByte(type, id, n)
               /\ \A i \in 1 .. w : h[1 + i] = IdBytes(id)[i]
               /\ \A i \in 1 .. l : h[1 + w + i] = LengthBytes(n)[i]
<1> DEFINE w == IF id > 255 THEN 2 ELSE 1
           l == LengthForm(n)
           b == TypeByte(type, id, n)
           I == IdBytes(id)
           L == LengthBytes(n)
           s == <<b>> \o I
<1>1. b \in Byte
  BY TypeByteBack
<1>2. I \in Seq(Byte) /\ Len(I) = w
  BY IdBytesBack
<1>3. L \in Seq(Byte) /\ Len(L) = l /\ l \in 0 .. 3
  BY LengthBytesBack
<1>4. Header(type, id, n) = s \o L
  BY DEF Header
<1>5. w \in 1 .. 2
  OBVIOUS
<1> HIDE DEF w, l, b, I, L
<1>6. <<b>> \in Seq(Byte) /\ Len(<<b>>) = 1 /\ <<b>>[1] = b
  BY <1>1
<1>7. /\ s \in Seq(Byte) /\ Len(s) = 1 + w
      /\ \A i \in 1 .. 1 + w : s[i] = IF i <= 1 THEN <<b>>[i] ELSE I[i - 1]
  BY <1>2, <1>6, ConcatProperties
<1> HIDE DEF s
<1>8. /\ s \o L \in Seq(Byte) /\ Len(s \o L) = (1 + w) + l
      /\ \A i \in 1 .. (1 + w) + l : (s \o L)[i] = IF i <= 1 + w THEN s[i] ELSE L[i - (1 + w)]
  BY <1>3, <1>7, ConcatProperties
<1>9. (s \o L)[1] = b
  BY <1>3, <1>5, <1>6, <1>7, <1>8
<1>10. ASSUME NEW i \in 1 .. w PROVE (s \o L)[1 + i] = I[i]
  <2>1. 1 + i \in 1 .. (1 + w) + l /\ 1 + i \in 1 .. 1 + w /\ 1 + i <= 1 + w /\ ~(1 + i <= 1)
        /\ (1 + i) - 1 = i
    BY <1>3, <1>5
  <2> QED BY <1>7, <1>8, <2>1
<1>11. ASSUME NEW i \in 1 .. l PROVE (s \o L)[1 + w + i] = L[i]
  <2>1. 1 + w + i \in 1 .. (1 + w) + l /\ ~(1 + w + i <= 1 + w) /\ (1 + w + i) - (1 + w) = i
    BY <1>3, <1>5
  <2> QED BY <1>8, <2>1
<1> QED BY <1>4, <1>8, <1>9, <1>10, <1>11 DEF w, l, b, I, L

(* parse_header reads from the front of any data what Header wrote there. *)
LEMMA HeaderBack ==
    ASSUME NEW type \in 0 .. 3, NEW id \in U16, NEW n \in Nat, n <= MaxValue,
           NEW rest \in Seq(Byte)
    PROVE  parse_header(Header(type, id, n) \o rest) =
             Ok([type |-> type, id |-> id, len |-> n, pos |-> Len(Header(type, id, n))])
<1> DEFINE h == Header(type, id, n)
           w == IF id > 255 THEN 2 ELSE 1
           l == LengthForm(n)
           b == TypeByte(type, id, n)
           I == IdBytes(id)
           L == LengthBytes(n)
           data == h \o rest
<1>1. /\ h \in Seq(Byte) /\ Len(h) = 1 + w + l /\ h[1] = b
      /\ \A i \in 1 .. w : h[1 + i] = I[i]
      /\ \A i \in 1 .. l : h[1 + w + i] = L[i]
  BY HeaderBytes
<1>2. b \div 64 = type /\ IdLength(b) = w /\ LengthType(b) = l /\ (n < 8 => b % 8 = n)
  BY TypeByteBack
<1>3. id = IF w = 1 THEN I[1] ELSE 256 * I[1] + I[2]
  BY IdBytesBack
<1>4. /\ l \in {0, 1, 2, 3} /\ (l = 0 <=> n < 8)
      /\ l = 1 => n = L[1]
      /\ l = 2 => n = 256 * L[1] + L[2]
      /\ l = 3 => n = 65536 * L[1] + 256 * L[2] + L[3]
  <2>1. l \in 0 .. 3
    BY LengthBytesBack
  <2> QED BY <2>1, LengthBytesBack
<1>5. w \in {1, 2}
  OBVIOUS
<1> HIDE DEF h, w, l, b, I, L
<1>6. /\ Len(rest) \in Nat /\ data \in Seq(Byte) /\ Len(data) = Len(h) + Len(rest)
      /\ \A i \in 1 .. Len(h) + Len(rest) : data[i] = IF i <= Len(h) THEN h[i] ELSE rest[i - Len(h)]
  BY <1>1, ConcatProperties, LenProperties
<1> HIDE DEF data
<1>7. \A i \in 1 .. 1 + w + l : data[i] = h[i]
  BY <1>1, <1>4, <1>5, <1>6
<1>8. data[1] = b /\ data[2] = I[1] /\ (w = 2 => data[3] = I[2])
  BY <1>1, <1>4, <1>5, <1>7
<1>9. /\ l > 0 => data[1 + w + 1] = L[1]
      /\ l > 1 => data[1 + w + 2] = L[2]
      /\ l > 2 => data[1 + w + 3] = L[3]
  BY <1>1, <1>4, <1>5, <1>7
<1>10. data # <<>> /\ Len(data) >= 1 + w + l
  <2>1. Len(data) >= 1 + w + l
    BY <1>1, <1>4, <1>5, <1>6
  <2> QED BY <1>4, <1>5, <2>1, EmptySeq
<1>11. HeaderLength(data[1]) = Len(h) /\ data[1] \div 64 = type
  BY <1>1, <1>2, <1>8 DEF HeaderLength
<1>12. RecordId(data) = id
  BY <1>2, <1>3, <1>5, <1>8 DEF RecordId
<1>13. RecordLength(data) = n
  <2>1. IdLength(data[1]) = w /\ LengthType(data[1]) = l
    BY <1>2, <1>8
  <2>2. CASE l = 0
    <3>1. RecordLength(data) = data[1] % 8
      BY SMT, <2>1, <2>2 DEF RecordLength
    <3> QED BY <1>2, <1>4, <1>8, <2>2, <3>1
  <2>3. CASE l = 1
    <3>1. RecordLength(data) = data[1 + w + 1]
      BY SMT, <2>1, <2>3 DEF RecordLength
    <3> QED BY <1>4, <1>9, <2>3, <3>1
  <2>4. CASE l = 2
    <3>1. RecordLength(data) = 256 * data[1 + w + 1] + data[1 + w + 2]
      BY SMT, <2>1, <2>4 DEF RecordLength
    <3> QED BY <1>4, <1>9, <2>4, <3>1
  <2>5. CASE l = 3
    <3>1. RecordLength(data) = 65536 * data[1 + w + 1] + 256 * data[1 + w + 2] + data[1 + w + 3]
      BY SMT, <2>1, <2>5 DEF RecordLength
    <3> QED BY SMT, <1>4, <1>9, <2>5, <3>1
  <2> QED BY <1>4, <2>2, <2>3, <2>4, <2>5
<1>14. Len(h) = 1 + w + l /\ ~(Len(data) < HeaderLength(data[1]))
  BY <1>1, <1>4, <1>5, <1>6, <1>10, <1>11
<1>15. parse_header(data) = Ok([type |-> type, id |-> id, len |-> n, pos |-> Len(h)])
  BY <1>10, <1>11, <1>12, <1>13, <1>14 DEF parse_header
<1> QED BY <1>15 DEF data, h

(* A record as it is decoded. *)
DecodedRecord(type, id, v, depth) ==
    LET sub == decode_impl[<<v, depth + 1>>]
    IN  [type |-> type, id |-> id, value |-> v,
         children |-> IF Nested(type) /\ sub.ok THEN sub.value ELSE <<>>]

(* The records s in front of what was decoded of the rest. *)
Then(s, m) == IF ~m.ok THEN m ELSE Ok(s \o m.value)

(* decode_impl takes the first record off its data, as it was encoded. *)
LEMMA DecodeFirst ==
    ASSUME NEW type \in 0 .. 3, NEW id \in U16, NEW v \in Seq(Byte), Len(v) <= MaxValue,
           NEW rest \in Seq(Byte), NEW depth \in Nat, depth <= kMaxTlvDepth
    PROVE  /\ encode_record(type, id, v) \in Seq(Byte)
           /\ decode_impl[<<encode_record(type, id, v) \o rest, depth>>]
                = Then(<<DecodedRecord(type, id, v, depth)>>, decode_impl[<<rest, depth>>])
<1> DEFINE h == Header(type, id, Len(v))
           n == Len(v)
           data == encode_record(type, id, v) \o rest
           hd == [type |-> type, id |-> id, len |-> n, pos |-> Len(h)]
<1>1. n \in Nat /\ Len(rest) \in Nat
  BY LenProperties
<1>2. h \in Seq(Byte) /\ Len(h) \in Nat \ {0}
  <2>1. /\ h \in Seq(Byte) /\ Len(h) = 1 + (IF id > 255 THEN 2 ELSE 1) + LengthForm(n)
    BY <1>1, HeaderBytes
  <2>2. LengthForm(n) \in 0 .. 3
    BY <1>1, LengthBytesBack
  <2> HIDE DEF h
  <2> QED BY <2>1, <2>2
<1>3. h \o v \in Seq(Byte) /\ encode_record(type, id, v) = h \o v /\ Len(h \o v) = Len(h) + n
  BY <1>2, ConcatProperties DEF encode_record
<1>4. data = h \o (v \o rest) /\ v \o rest \in Seq(Byte) /\ Len(v \o rest) = n + Len(rest)
  <2>1. v \o rest \in Seq(Byte) /\ Len(v \o rest) = n + Len(rest)
    BY ConcatProperties
  <2>2. data = (h \o v) \o rest
    BY <1>3
  <2> HIDE DEF h, data
  <2>3. (h \o v) \o rest = h \o (v \o rest)
    BY <1>2, ConcatAssociative
  <2> QED BY <2>1, <2>2, <2>3
<1>5. parse_header(data) = Ok(hd)
  BY <1>1, <1>4, HeaderBack
<1>6. parse_header(data).ok = TRUE /\ parse_header(data).value = hd
  BY <1>5 DEF Ok
<1> HIDE DEF h, n, data
<1>7. hd.pos = Len(h) /\ hd.len = n /\ hd.type = type /\ hd.id = id
  OBVIOUS
<1> HIDE DEF hd
<1>8. data \in Seq(Byte) /\ Len(data) = Len(h) + (n + Len(rest))
  BY <1>2, <1>4, ConcatProperties
<1>9. \A i \in 1 .. Len(h) + (n + Len(rest)) :
        data[i] = IF i <= Len(h) THEN h[i] ELSE (v \o rest)[i - Len(h)]
  BY <1>2, <1>4, ConcatProperties
<1>10. \A i \in 1 .. n + Len(rest) : (v \o rest)[i] = IF i <= n THEN v[i] ELSE rest[i - n]
  BY <1>1, ConcatProperties DEF n
<1>11. SubSeq(data, hd.pos + 1, hd.pos + hd.len) = v
  <2> DEFINE s == SubSeq(data, Len(h) + 1, Len(h) + n)
  <2>1. /\ Len(h) \in Nat /\ Len(h) + n \in Nat /\ Len(h) <= Len(h) + n
        /\ Len(h) + n <= Len(data) /\ (Len(h) + n) - Len(h) = n
    BY <1>1, <1>2, <1>8
  <2>2. s \in Seq(Byte) /\ Len(s) = n /\ \A k \in 1 .. n : s[k] = data[Len(h) + k]
    BY <1>8, <2>1, Piece
  <2> HIDE DEF s
  <2>3. ASSUME NEW k \in 1 .. n PROVE s[k] = v[k]
    <3>1. /\ Len(h) + k \in 1 .. Len(h) + (n + Len(rest)) /\ ~(Len(h) + k <= Len(h))
          /\ (Len(h) + k) - Len(h) = k /\ k \in 1 .. n + Len(rest) /\ k <= n
      BY <1>1, <1>2
    <3>2. data[Len(h) + k] = (v \o rest)[k]
      BY <1>9, <3>1
    <3>3. (v \o rest)[k] = v[k]
      BY <1>10, <3>1
    <3> QED BY <2>2, <3>2, <3>3
  <2>4. s = v
    BY <2>2, <2>3, SeqEqual DEF n
  <2> QED BY <1>7, <2>4 DEF s
<1>12. SubSeq(data, hd.pos + hd.len + 1, Len(data)) = rest
  <2> DEFINE s == SubSeq(data, (Len(h) + n) + 1, Len(data))
  <2>1. /\ Len(h) + n \in Nat /\ Len(data) \in Nat /\ Len(h) + n <= Len(data)
        /\ Len(data) - (Len(h) + n) = Len(rest)
    BY <1>1, <1>2, <1>8
  <2>2. s \in Seq(Byte) /\ Len(s) = Len(rest)
        /\ \A k \in 1 .. Len(rest) : s[k] = data[(Len(h) + n) + k]
    <3>1. PICK i \in Nat : i = Len(h) + n
      BY <2>1
    <3>2. PICK j \in Nat : j = Len(data)
      BY <2>1
    <3>3. i <= j /\ j <= Len(data) /\ j - i = Len(rest) /\ s = SubSeq(data, i + 1, j)
      BY <2>1, <3>1, <3>2
    <3> HIDE DEF s
    <3>4. s \in Seq(Byte) /\ Len(s) = j - i /\ \A k \in 1 .. j - i : s[k] = data[i + k]
      BY <1>8, <3>3, Piece
    <3> QED BY <3>1, <3>3, <3>4
  <2> HIDE DEF s
  <2>3. ASSUME NEW k \in 1 .. Len(rest) PROVE s[k] = rest[k]
    <3>1. /\ (Len(h) + n) + k \in 1 .. Len(h) + (n + Len(rest)) /\ ~((Len(h) + n) + k <= Len(h))
          /\ ((Len(h) + n) + k) - Len(h) = n + k /\ n + k \in 1 .. n + Len(rest) /\ ~(n + k <= n)
          /\ (n + k) - n = k
      BY <1>1, <1>2
    <3>2. data[(Len(h) + n) + k] = (v \o rest)[n + k]
      BY <1>9, <3>1
    <3>3. (v \o rest)[n + k] = rest[k]
      BY <1>10, <3>1
    <3> QED BY <2>2, <3>2, <3>3
  <2>4. s = rest
    BY <2>2, <2>3, SeqEqual
  <2> QED BY <1>7, <2>4 DEF s
<1>13. data # <<>>
  BY <1>1, <1>2, <1>8, EmptySeq
<1>14. Fits(hd, data)
  BY <1>1, <1>2, <1>7, <1>8 DEF Fits
<1>15. decode_impl[<<data, depth>>] = DecodeBody(0, decode_impl, <<data, depth>>)
  BY <1>8, DecodeUnfolds
<1> DEFINE more == decode_impl[<<rest, depth>>]
           sub  == decode_impl[<<v, depth + 1>>]
           rec  == [type |-> type, id |-> id, value |-> v,
                    children |-> IF Nested(type) /\ sub.ok THEN sub.value ELSE <<>>]
<1>16. decode_impl[<<data, depth>>] = IF ~more.ok THEN more ELSE Ok(<<rec>> \o more.value)
  <2>1. <<data, depth>>[1] = data /\ <<data, depth>>[2] = depth /\ ~(depth > kMaxTlvDepth)
    BY DEF kMaxTlvDepth
  <2> QED BY <1>6, <1>7, <1>11, <1>12, <1>13, <1>14, <1>15, <2>1 DEF DecodeBody
<1>17. rec = DecodedRecord(type, id, v, depth)
  BY DEF DecodedRecord
<1> HIDE DEF more, rec
<1>18. decode_impl[<<data, depth>>] = Then(<<rec>>, more)
  BY <1>16 DEF Then
<1> QED BY <1>3, <1>17, <1>18 DEF data, more

-----------------------------------------------------------------------------
(* Sequences of records. *)

(* FlattenSeq puts one sequence after the other. *)
FlattenArgs(p) == 1 .. Len(p)
FlattenRank(i) == i
FlattenBody(p, g, i) == IF i = 1 THEN p[i] ELSE g[i - 1] \o p[i]

Flat == INSTANCE Recursion
          WITH Body <- FlattenBody, Dom <- FlattenArgs, Rank <- FlattenRank

(* f is what was put together after each sequence. *)
Flattens(f, seqs, S) ==
    /\ f[0] = <<>>
    /\ \A n \in 1 .. Len(seqs) : f[n] = f[n - 1] \o seqs[n]
    /\ \A n \in 0 .. Len(seqs) : f[n] \in Seq(S)
    /\ FlattenSeq(seqs) = f[Len(seqs)]

LEMMA FlattenUnfolds ==
    ASSUME NEW S, NEW seqs \in Seq(Seq(S))
    PROVE  \E f : Flattens(f, seqs, S)
<1> DEFINE f == CHOOSE g : g = [i \in FlattenArgs(seqs) |-> FlattenBody(seqs, g, i)]
           whole == [i \in 0 .. Len(seqs) |-> IF i = 0 THEN <<>> ELSE f[i]]
<1>1. Len(seqs) \in Nat /\ (\A i \in 1 .. Len(seqs) : seqs[i] \in Seq(S)) /\ <<>> \in Seq(S)
  BY LenProperties, ElementOfSeq, EmptySeq
<1>2. Flat!Ranked(seqs)
  BY <1>1 DEF Flat!Ranked, FlattenArgs, FlattenRank
<1>3. Flat!Downward(seqs)
  <2> SUFFICES ASSUME NEW n \in FlattenArgs(seqs), NEW g, NEW h,
                      \A m \in FlattenArgs(seqs) :
                         FlattenRank(m) < FlattenRank(n) => g[m] = h[m]
               PROVE  FlattenBody(seqs, g, n) = FlattenBody(seqs, h, n)
    BY DEF Flat!Downward
  <2>1. CASE n = 1
    BY <2>1 DEF FlattenBody
  <2>2. CASE n # 1
    <3>1. g[n - 1] = h[n - 1]
      BY <1>1, <2>2 DEF FlattenArgs, FlattenRank
    <3> QED BY <2>2, <3>1 DEF FlattenBody
  <2> QED BY <2>1, <2>2
<1>4. f = [i \in FlattenArgs(seqs) |-> FlattenBody(seqs, f, i)]
  BY <1>2, <1>3, Flat!Fixpoint
<1>5. FlattenSeq(seqs) = IF Len(seqs) = 0 THEN seqs ELSE f[Len(seqs)]
  BY DEF FlattenSeq, FlattenArgs, FlattenBody
<1> HIDE DEF f
<1>6. \A n \in 1 .. Len(seqs) : f[n] = IF n = 1 THEN seqs[n] ELSE f[n - 1] \o seqs[n]
  <2>1. \A n \in FlattenArgs(seqs) : f[n] = FlattenBody(seqs, f, n)
    BY <1>4
  <2> QED BY <2>1 DEF FlattenArgs, FlattenBody
<1>7. whole[0] = <<>> /\ \A n \in 1 .. Len(seqs) : whole[n] = f[n]
  BY <1>1
<1>8. FlattenSeq(seqs) = whole[Len(seqs)]
  <2>1. CASE Len(seqs) = 0
    <3>1. seqs = <<>>
      BY <2>1, EmptySeq
    <3> QED BY <1>5, <1>7, <2>1, <3>1
  <2>2. CASE Len(seqs) # 0
    BY <1>1, <1>5, <1>7, <2>2
  <2> QED BY <2>1, <2>2
<1> HIDE DEF whole
<1>9. ASSUME NEW n \in 1 .. Len(seqs) PROVE whole[n] = whole[n - 1] \o seqs[n]
  <2>1. CASE n = 1
    <3>1. seqs[n] = <<>> \o seqs[n]
      BY <1>1, ConcatEmptySeq
    <3>2. whole[n] = seqs[n]
      BY <1>6, <1>7, <2>1
    <3>3. n - 1 = 0
      BY <2>1
    <3> QED BY <1>7, <3>1, <3>2, <3>3
  <2>2. CASE n # 1
    <3>1. n - 1 \in 1 .. Len(seqs)
      BY <1>1, <2>2
    <3> QED BY <1>6, <1>7, <2>2, <3>1
  <2> QED BY <2>1, <2>2
<1> DEFINE T == {n \in Nat : n <= Len(seqs) => whole[n] \in Seq(S)}
<1>10. 0 \in T
  BY <1>1, <1>7
<1>11. ASSUME NEW n \in Nat, n \in T PROVE n + 1 \in T
  <2> SUFFICES ASSUME n + 1 <= Len(seqs) PROVE whole[n + 1] \in Seq(S)
    OBVIOUS
  <2>1. whole[n] \in Seq(S)
    BY <1>1, <1>11
  <2>2. n + 1 \in 1 .. Len(seqs) /\ (n + 1) - 1 = n
    BY <1>1
  <2>3. whole[n + 1] = whole[n] \o seqs[n + 1] /\ seqs[n + 1] \in Seq(S)
    BY <1>1, <1>9, <2>2
  <2> QED BY <2>1, <2>3, ConcatProperties
<1>12. Nat \subseteq T
  <2> HIDE DEF T
  <2> QED BY <1>10, <1>11, Flat!SetInduction
<1>13. \A n \in 0 .. Len(seqs) : whole[n] \in Seq(S)
  BY <1>1, <1>12
<1>14. Flattens(whole, seqs, S)
  BY <1>7, <1>8, <1>9, <1>13 DEF Flattens
<1> QED BY <1>14

(* What DecodeFirst says of one record, for a record given as a triple. *)
Encoded(r) == encode_record(r[1], r[2], r[3])

Decoded(r, depth) == DecodedRecord(r[1], r[2], r[3], depth)

Triples == {r \in (0 .. 3) \X U16 \X Seq(Byte) : Len(r[3]) <= MaxValue}

(* One element more at the end. *)
LEMMA Longer ==
    ASSUME NEW S, NEW n \in Nat, NEW d, \A i \in 1 .. n + 1 : d[i] \in S
    PROVE  /\ [i \in 1 .. n |-> d[i]] \in Seq(S) /\ <<d[n + 1]>> \in Seq(S)
           /\ [i \in 1 .. n + 1 |-> d[i]] = [i \in 1 .. n |-> d[i]] \o <<d[n + 1]>>
<1> DEFINE s == [i \in 1 .. n |-> d[i]]
           l == [i \in 1 .. n + 1 |-> d[i]]
           e == <<d[n + 1]>>
<1>1. d[n + 1] \in S
  OBVIOUS
<1>2. s \in Seq(S) /\ Len(s) = n
  <2>1. s \in [1 .. n -> S]
    OBVIOUS
  <2> HIDE DEF s
  <2> QED BY <2>1, SeqDef, LenProperties
<1>3. l \in Seq(S) /\ Len(l) = n + 1
  <2>1. l \in [1 .. n + 1 -> S]
    OBVIOUS
  <2> HIDE DEF l
  <2> QED BY <2>1, SeqDef, LenProperties
<1>4. e \in Seq(S) /\ Len(e) = 1 /\ e[1] = d[n + 1]
  BY <1>1
<1>5. (\A i \in 1 .. n : s[i] = d[i]) /\ \A i \in 1 .. n + 1 : l[i] = d[i]
  OBVIOUS
<1> HIDE DEF s, l, e
<1>6. /\ s \o e \in Seq(S) /\ Len(s \o e) = n + 1
      /\ \A i \in 1 .. n + 1 : (s \o e)[i] = IF i <= n THEN s[i] ELSE e[i - n]
  BY <1>2, <1>4, ConcatProperties
<1>7. ASSUME NEW i \in 1 .. n + 1 PROVE l[i] = (s \o e)[i]
  <2>1. CASE i <= n
    BY <1>5, <1>6, <2>1
  <2>2. CASE ~(i <= n)
    <3>1. i = n + 1 /\ i - n = 1
      BY <2>2
    <3>2. (s \o e)[i] = e[1]
      BY <1>6, <2>2, <3>1
    <3> QED BY <1>4, <1>5, <3>1, <3>2
  <2> QED BY <2>1, <2>2
<1>8. l = s \o e
  BY <1>3, <1>6, <1>7, SeqEqual
<1> QED BY <1>2, <1>4, <1>8 DEF s, l, e

LEMMA DecodeOne ==
    ASSUME NEW r \in Triples, NEW rest \in Seq(Byte), NEW depth \in Nat, depth <= kMaxTlvDepth
    PROVE  /\ Encoded(r) \in Seq(Byte)
           /\ decode_impl[<<Encoded(r) \o rest, depth>>]
                = Then(<<Decoded(r, depth)>>, decode_impl[<<rest, depth>>])
<1>1. PICK type \in 0 .. 3, id \in U16, v \in Seq(Byte) :
        r[1] = type /\ r[2] = id /\ r[3] = v /\ Len(v) <= MaxValue
  BY DEF Triples
<1>2. /\ Encoded(r) = encode_record(type, id, v)
      /\ Decoded(r, depth) = DecodedRecord(type, id, v, depth)
  BY <1>1 DEF Encoded, Decoded
<1>3. Len(v) <= MaxValue
  BY <1>1
<1>4. /\ encode_record(type, id, v) \in Seq(Byte)
      /\ decode_impl[<<encode_record(type, id, v) \o rest, depth>>]
           = Then(<<DecodedRecord(type, id, v, depth)>>, decode_impl[<<rest, depth>>])
  BY <1>3, DecodeFirst
<1> QED BY <1>2, <1>4

LEMMA DecodedForm ==
    ASSUME NEW m, DecodedOK(m), m.ok
    PROVE  m = Ok(m.value) /\ \E S : m.value \in Seq(S)
<1>1. m # Err("DecodingError")
  BY DEF Err
<1>2. m = Ok(m.value) /\ Records(m.value)
  BY <1>1 DEF DecodedOK
<1> QED BY <1>2 DEF Records

LEMMA ThenNone == ASSUME NEW m, DecodedOK(m) PROVE Then(<<>>, m) = m
<1>1. CASE ~m.ok
  BY <1>1 DEF Then
<1>2. CASE m.ok
  <2>1. PICK S : m.value \in Seq(S)
    BY <1>2, DecodedForm
  <2>2. <<>> \o m.value = m.value
    BY <2>1, ConcatEmptySeq
  <2>3. m = Ok(m.value)
    BY <1>2, DecodedForm
  <2>4. Then(<<>>, m) = Ok(<<>> \o m.value)
    BY <1>2 DEF Then
  <2> QED BY <2>2, <2>3, <2>4
<1> QED BY <1>1, <1>2

LEMMA ThenThen ==
    ASSUME NEW m, DecodedOK(m), NEW Q, NEW s \in Seq(Q), NEW t \in Seq(Q)
    PROVE  Then(s, Then(t, m)) = Then(s \o t, m)
<1>1. CASE ~m.ok
  BY <1>1 DEF Then
<1>2. CASE m.ok
  <2>1. PICK S : m.value \in Seq(S)
    BY <1>2, DecodedForm
  <2>2. PICK v \in Seq(S \cup Q) : v = m.value
    BY <2>1, SeqMonotonic
  <2>3. s \in Seq(S \cup Q) /\ t \in Seq(S \cup Q)
    BY SeqMonotonic
  <2>4. s \o (t \o v) = (s \o t) \o v
    BY <2>3, ConcatAssociative
  <2>5. Then(t, m) = Ok(t \o v) /\ Then(s \o t, m) = Ok((s \o t) \o v)
    BY <1>2, <2>2 DEF Then
  <2>6. Then(s, Ok(t \o v)) = Ok(s \o (t \o v))
    BY DEF Then, Ok
  <2> QED BY <2>4, <2>5, <2>6
<1> QED BY <1>1, <1>2

(* Records put one after the other are decoded one after the other, in     *)
(* front of whatever follows them, however many they are: encode_instance  *)
(* and the loop of decode_impl (src/codec/tlv.cpp:65-80, 253-273) agree.  *)
THEOREM DecodeRecords ==
    ASSUME NEW recs \in Seq(Triples), NEW tail \in Seq(Byte),
           NEW depth \in Nat, depth <= kMaxTlvDepth
    PROVE  LET seqs == [i \in 1 .. Len(recs) |-> Encoded(recs[i])]
               more == decode_impl[<<tail, depth>>]
           IN  /\ FlattenSeq(seqs) \in Seq(Byte)
               /\ decode_impl[<<FlattenSeq(seqs) \o tail, depth>>]
                    = Then([i \in 1 .. Len(recs) |-> Decoded(recs[i], depth)], more)
<1> DEFINE seqs == [i \in 1 .. Len(recs) |-> Encoded(recs[i])]
           d == [i \in 1 .. Len(recs) |-> Decoded(recs[i], depth)]
           D(n) == [i \in 1 .. n |-> d[i]]
<1>1. Len(recs) \in Nat /\ \A i \in 1 .. Len(recs) : recs[i] \in Triples
  BY LenProperties, ElementOfSeq
<1>2. ASSUME NEW i \in 1 .. Len(recs), NEW rest \in Seq(Byte)
      PROVE  /\ Encoded(recs[i]) \in Seq(Byte)
             /\ decode_impl[<<Encoded(recs[i]) \o rest, depth>>]
                  = Then(<<d[i]>>, decode_impl[<<rest, depth>>])
  <2>1. PICK r \in Triples : r = recs[i]
    BY <1>1
  <2>2. d[i] = Decoded(r, depth)
    BY <2>1
  <2> HIDE DEF d
  <2> QED BY <2>1, <2>2, DecodeOne
<1>3. seqs \in Seq(Seq(Byte)) /\ Len(seqs) = Len(recs)
  <2>1. seqs \in [1 .. Len(recs) -> Seq(Byte)]
    <3>1. <<>> \in Seq(Byte)
      BY EmptySeq
    <3> QED BY <1>2, <3>1
  <2> HIDE DEF seqs
  <2> QED BY <1>1, <2>1, SeqDef, LenProperties
<1>4. \A i \in 1 .. Len(recs) : seqs[i] = Encoded(recs[i])
  OBVIOUS
<1> HIDE DEF seqs, d
<1>5. PICK f : Flattens(f, seqs, Byte)
  BY <1>3, FlattenUnfolds
<1>6. /\ f[0] = <<>> /\ FlattenSeq(seqs) = f[Len(recs)]
      /\ \A n \in 1 .. Len(recs) : f[n] = f[n - 1] \o seqs[n]
      /\ \A n \in 0 .. Len(recs) : f[n] \in Seq(Byte)
  BY <1>3, <1>5 DEF Flattens
<1> DEFINE Claim(n) == \A rest \in Seq(Byte) :
             decode_impl[<<f[n] \o rest, depth>>] = Then(D(n), decode_impl[<<rest, depth>>])
           T == {n \in Nat : n <= Len(recs) => Claim(n)}
<1>7. 0 \in T
  <2> SUFFICES ASSUME NEW rest \in Seq(Byte)
               PROVE  decode_impl[<<f[0] \o rest, depth>>] = Then(D(0), decode_impl[<<rest, depth>>])
    OBVIOUS
  <2>1. f[0] \o rest = rest
    BY <1>6, ConcatEmptySeq
  <2>2. D(0) = <<>>
    OBVIOUS
  <2>3. PICK more : more = decode_impl[<<rest, depth>>] /\ DecodedOK(more)
    BY DecodeTyped
  <2>4. Then(<<>>, more) = more
    BY <2>3, ThenNone
  <2> HIDE DEF D
  <2> QED BY <2>1, <2>2, <2>3, <2>4
<1>8. ASSUME NEW n \in Nat, n \in T PROVE n + 1 \in T
  <2> HIDE DEF Claim
  <2>0. SUFFICES ASSUME n + 1 <= Len(recs) PROVE Claim(n + 1)
    OBVIOUS
  <2> USE DEF Claim
  <2> SUFFICES ASSUME NEW rest \in Seq(Byte)
               PROVE  decode_impl[<<f[n + 1] \o rest, depth>>]
                        = Then(D(n + 1), decode_impl[<<rest, depth>>])
    OBVIOUS
  <2>1. n + 1 \in 1 .. Len(recs) /\ (n + 1) - 1 = n /\ n \in 0 .. Len(recs) /\ n <= Len(recs)
    BY <1>1, <2>0
  <2>2. PICK s \in Seq(Byte) : s = seqs[n + 1]
    BY <1>2, <1>4, <2>1
  <2>3. PICK pre \in Seq(Byte) : pre = f[n]
    BY <1>6, <2>1
  <2>4. PICK next \in Seq(Byte) : next = s \o rest
    BY ConcatProperties
  <2>5. f[n + 1] = pre \o s
    BY <1>6, <2>1, <2>2, <2>3
  <2>6. (pre \o s) \o rest = pre \o next
    BY <2>4, ConcatAssociative
  <2>7. Claim(n)
    BY <1>8, <2>1
  <2>8. decode_impl[<<pre \o next, depth>>] = Then(D(n), decode_impl[<<next, depth>>])
    <3> HIDE DEF D
    <3> QED BY <2>3, <2>7
  <2>9. decode_impl[<<next, depth>>] = Then(<<d[n + 1]>>, decode_impl[<<rest, depth>>])
    BY <1>2, <1>4, <2>1, <2>2, <2>4
  <2>10. PICK more : more = decode_impl[<<rest, depth>>] /\ DecodedOK(more)
    BY DecodeTyped
  <2>11. Then(D(n), Then(<<d[n + 1]>>, more)) = Then(D(n + 1), more)
    <3>1. PICK S : S = {d[i] : i \in 1 .. n + 1}
      OBVIOUS
    <3>2. \A i \in 1 .. n + 1 : d[i] \in S
      BY <3>1
    <3>3. D(n) \in Seq(S) /\ <<d[n + 1]>> \in Seq(S) /\ D(n + 1) = D(n) \o <<d[n + 1]>>
      BY <3>2, Longer
    <3>4. PICK a \in Seq(S), b \in Seq(S) : a = D(n) /\ b = <<d[n + 1]>>
      BY <3>3
    <3>5. Then(a, Then(b, more)) = Then(a \o b, more)
      BY <2>10, ThenThen
    <3> HIDE DEF D
    <3> QED BY <3>3, <3>4, <3>5
  <2> HIDE DEF D
  <2> QED BY <2>5, <2>6, <2>8, <2>9, <2>10, <2>11
<1>9. Nat \subseteq T
  <2> HIDE DEF T
  <2> QED BY <1>7, <1>8, Flat!SetInduction
<1>10. Claim(Len(recs))
  <2> HIDE DEF Claim
  <2> QED BY <1>1, <1>9
<1>11. D(Len(recs)) = [i \in 1 .. Len(recs) |-> Decoded(recs[i], depth)]
  BY DEF d
<1>12. FlattenSeq(seqs) \in Seq(Byte)
  BY <1>1, <1>6
<1> HIDE DEF D
<1> QED BY <1>6, <1>10, <1>11, <1>12 DEF seqs

(* What a value read as one of the types of the objects' resources is. *)
Reading(type, v) ==
    CASE type = "Boolean" -> v \in BOOLEAN
      [] type = "Integer" -> v \in Int
      [] OTHER -> v \in Seq(Byte)

(* decode_resource fails, or gives a value of the type asked for. *)
LEMMA DecodeResourceTyped ==
    ASSUME NEW data \in Seq(Byte), NEW type \in {"Boolean", "Integer", "String", "Opaque"},
           decode_resource(data, type).ok
    PROVE  \E v : decode_resource(data, type) = Ok(Value(type, v)) /\ Reading(type, v)
<1> DEFINE r == deserialize(data, type)
<1>1. \A c : Err(c).ok = FALSE
  BY DEF Err
<1>2. r.ok /\ decode_resource(data, type) = Ok(Value(type, r.value))
  <2> HIDE DEF r
  <2>1. decode_resource(data, type) = IF r.ok THEN Ok(Value(type, r.value)) ELSE r
    BY DEF decode_resource, r
  <2> QED BY <2>1
<1>3. \A v : Ok(v).value = v
  BY DEF Ok
<1>4. CASE type = "Boolean"
  <2>1. r = IF data # <<>> THEN Ok(data[1] # 0) ELSE Err("DecodingError")
    BY <1>4 DEF deserialize, deserialize_bool
  <2> HIDE DEF r
  <2>2. r.value = (data[1] # 0)
    BY <1>1, <1>2, <1>3, <2>1
  <2>3. Reading(type, r.value)
    BY <1>4, <2>2 DEF Reading
  <2> QED BY <1>2, <2>3
<1>5. CASE type = "Integer"
  <2> DEFINE start == IF data[1] >= 128 THEN -1 ELSE 0
  <2>1. r = deserialize_int(data)
    BY <1>5 DEF deserialize
  <2>2. deserialize_int(data) = IF Len(data) \in 1 .. 8 THEN Ok(Number(data, start))
                                ELSE Err("DecodingError")
    BY DEF deserialize_int
  <2>3. start \in Int
    OBVIOUS
  <2> HIDE DEF start, r
  <2>4. r.value = Number(data, start)
    BY <1>1, <1>2, <1>3, <2>1, <2>2
  <2>5. PICK f : Reads(f, data, start)
    BY <2>3, NumberUnfolds
  <2>6. Number(data, start) \in Int
    BY <2>5, LenProperties DEF Reads
  <2>7. Reading(type, r.value)
    BY <1>5, <2>4, <2>6 DEF Reading
  <2> QED BY <1>2, <2>7
<1>6. CASE type \in {"String", "Opaque"}
  <2>1. r = Ok(data)
    BY <1>6 DEF deserialize
  <2> HIDE DEF r
  <2>2. r.value = data
    BY <1>3, <2>1
  <2>3. Reading(type, r.value)
    BY <1>6, <2>2 DEF Reading
  <2> QED BY <1>2, <2>3
<1> QED BY <1>4, <1>5, <1>6

-----------------------------------------------------------------------------
(* Resources and instances. *)

(* Pairs of an id and a value that a record can carry. *)
ItemsOK(items) ==
    /\ \E V : items \in Seq(U16 \X V)
    /\ \A i \in DOMAIN items : Sendable(items[i][2])

Encodings(items) == [i \in DOMAIN items |-> encode_resource(items[i][1], items[i][2])]

ItemRecords(items, depth) ==
    [i \in 1 .. Len(items) |->
       DecodedRecord(Resource, items[i][1], serialize(items[i][2]), depth)]

LEMMA ItemsForm ==
    ASSUME NEW items, ItemsOK(items)
    PROVE  /\ Len(items) \in Nat /\ DOMAIN items = 1 .. Len(items)
           /\ \A i \in 1 .. Len(items) : items[i][1] \in U16 /\ Sendable(items[i][2])
<1>1. PICK V : items \in Seq(U16 \X V)
  BY DEF ItemsOK
<1>2. Len(items) \in Nat /\ DOMAIN items = 1 .. Len(items)
  BY <1>1, LenProperties
<1>3. \A i \in 1 .. Len(items) : items[i] \in U16 \X V
  BY <1>1, <1>2, ElementOfSeq
<1> QED BY <1>2, <1>3 DEF ItemsOK

(* Resources one after the other are decoded into one record for each.     *)
LEMMA DecodeItems ==
    ASSUME NEW items, ItemsOK(items), NEW tail \in Seq(Byte),
           NEW depth \in Nat, depth <= kMaxTlvDepth
    PROVE  /\ FlattenSeq(Encodings(items)) \in Seq(Byte)
           /\ decode_impl[<<FlattenSeq(Encodings(items)) \o tail, depth>>]
                = Then(ItemRecords(items, depth), decode_impl[<<tail, depth>>])
<1> DEFINE n == Len(items)
           recs == [i \in 1 .. n |-> <<Resource, items[i][1], serialize(items[i][2])>>]
           seqs == [i \in 1 .. n |-> Encoded(recs[i])]
<1>1. n \in Nat /\ DOMAIN items = 1 .. n
  BY ItemsForm
<1>2. ASSUME NEW i \in 1 .. n PROVE recs[i] \in Triples
  <2>1. PICK id \in U16 : id = items[i][1] /\ Sendable(items[i][2])
    BY ItemsForm
  <2>2. PICK v \in Seq(Byte) : v = serialize(items[i][2]) /\ Len(v) <= MaxValue
    BY <2>1, ValueRoundTrip
  <2>3. recs[i] = <<Resource, id, v>>
    BY <2>1, <2>2
  <2>4. Resource \in 0 .. 3
    BY DEF Resource
  <2> QED BY <2>2, <2>3, <2>4 DEF Triples
<1>3. recs \in Seq(Triples) /\ Len(recs) = n
  <2>1. recs \in [1 .. n -> Triples]
    <3>1. recs = [i \in 1 .. n |-> recs[i]]
      OBVIOUS
    <3> HIDE DEF recs
    <3> QED BY <1>2, <3>1
  <2> HIDE DEF recs, n
  <2>2. recs \in Seq(Triples) /\ DOMAIN recs = 1 .. n
    BY <1>1, <2>1, SeqDef
  <2>3. Len(recs) \in Nat /\ DOMAIN recs = 1 .. Len(recs)
    BY <2>2, LenProperties
  <2> QED BY <1>1, <2>2, <2>3, SameBound
<1>4. /\ FlattenSeq(seqs) \in Seq(Byte)
      /\ decode_impl[<<FlattenSeq(seqs) \o tail, depth>>]
           = Then([i \in 1 .. n |-> Decoded(recs[i], depth)], decode_impl[<<tail, depth>>])
  <2> HIDE DEF recs, n
  <2> QED BY <1>3, DecodeRecords
<1>5. [i \in 1 .. n |-> Decoded(recs[i], depth)] = ItemRecords(items, depth)
  BY DEF Decoded, ItemRecords
<1>6. seqs = Encodings(items)
  BY <1>1 DEF Encoded, encode_resource, Encodings
<1> HIDE DEF seqs, recs, n
<1> QED BY <1>4, <1>5, <1>6

(* At the end of the data. *)
LEMMA DecodeNothing ==
    ASSUME NEW depth \in Nat, depth <= kMaxTlvDepth
    PROVE  <<>> \in Seq(Byte) /\ decode_impl[<<<<>>, depth>>] = Ok(<<>>)
<1>1. <<>> \in Seq(Byte)
  BY EmptySeq
<1>2. PICK data \in Seq(Byte) : data = <<>>
  BY <1>1
<1>3. decode_impl[<<data, depth>>] = DecodeBody(0, decode_impl, <<data, depth>>)
  BY DecodeUnfolds
<1>4. <<data, depth>>[1] = data /\ <<data, depth>>[2] = depth /\ ~(depth > kMaxTlvDepth)
  BY DEF kMaxTlvDepth
<1>5. DecodeBody(0, decode_impl, <<data, depth>>) = Ok(<<>>)
  BY <1>2, <1>4 DEF DecodeBody
<1> QED BY <1>1, <1>2, <1>3, <1>5

(* Nothing follows. *)
LEMMA DecodeItemsOnly ==
    ASSUME NEW items, ItemsOK(items), NEW depth \in Nat, depth <= kMaxTlvDepth
    PROVE  /\ FlattenSeq(Encodings(items)) \in Seq(Byte)
           /\ decode_impl[<<FlattenSeq(Encodings(items)), depth>>] = Ok(ItemRecords(items, depth))
<1>1. PICK empty \in Seq(Byte) : empty = <<>> /\ decode_impl[<<empty, depth>>] = Ok(<<>>)
  BY DecodeNothing
<1>2. PICK flat \in Seq(Byte) : flat = FlattenSeq(Encodings(items))
  BY <1>1, DecodeItems
<1>3. PICK recs : recs = ItemRecords(items, depth)
  OBVIOUS
<1>4. decode_impl[<<flat \o empty, depth>>] = Then(recs, Ok(<<>>))
  BY <1>1, <1>2, <1>3, DecodeItems
<1>5. flat \o empty = flat
  BY <1>1, <1>2, ConcatEmptySeq
<1>6. Then(recs, Ok(<<>>)) = Ok(recs)
  <2>1. recs \o <<>> = recs
    <3>1. PICK S : recs \in Seq(S)
      <4>1. PICK S : S = {recs[i] : i \in 1 .. Len(items)}
        OBVIOUS
      <4>2. recs \in [1 .. Len(items) -> S]
        BY <1>3, <4>1 DEF ItemRecords
      <4> QED BY <4>2, ItemsForm, SeqDef
    <3> QED BY <3>1, ConcatEmptySeq
  <2>2. Ok(<<>>).ok = TRUE /\ Ok(<<>>).value = <<>>
    BY DEF Ok
  <2> QED BY <2>1, <2>2 DEF Then
<1> QED BY <1>2, <1>3, <1>4, <1>5, <1>6

(* The instance that encode_instance makes of some resources is decoded to *)
(* one record, whose children are those resources, if all their bytes fit  *)
(* the length of a record (encode_instance and parse_record,               *)
(* src/codec/tlv.cpp:65-80, 275-345).                                      *)
THEOREM DecodeInstance ==
    ASSUME NEW iid \in U16, NEW items, ItemsOK(items),
           Len(FlattenSeq(Encodings(items))) <= MaxValue
    PROVE  \E rec : /\ decode(encode_instance(iid, items)) = Ok(<<rec>>)
                    /\ rec.type = ObjectInstance /\ rec.id = iid
                    /\ rec.children = ItemRecords(items, 1)
<1>1. 0 <= kMaxTlvDepth /\ 1 <= kMaxTlvDepth /\ 0 \in Nat /\ 1 \in Nat /\ 0 + 1 = 1
  BY DEF kMaxTlvDepth
<1>2. PICK flat \in Seq(Byte) : /\ flat = FlattenSeq(Encodings(items))
                                /\ decode_impl[<<flat, 1>>] = Ok(ItemRecords(items, 1))
  BY <1>1, DecodeItemsOnly
<1>3. PICK empty \in Seq(Byte) : empty = <<>> /\ decode_impl[<<empty, 0>>] = Ok(<<>>)
  BY <1>1, DecodeNothing
<1>4. PICK enc : enc = encode_record(ObjectInstance, iid, flat)
  OBVIOUS
<1>5. PICK rec : rec = DecodedRecord(ObjectInstance, iid, flat, 0)
  OBVIOUS
<1>6. ObjectInstance \in 0 .. 3 /\ Nested(ObjectInstance)
  BY DEF ObjectInstance, Nested
<1>7. enc \in Seq(Byte) /\ decode_impl[<<enc \o empty, 0>>] = Then(<<rec>>, decode_impl[<<empty, 0>>])
  BY <1>1, <1>2, <1>4, <1>5, <1>6, DecodeFirst
<1>8. enc \o empty = enc
  BY <1>3, <1>7, ConcatEmptySeq
<1>9. Then(<<rec>>, Ok(<<>>)) = Ok(<<rec>>)
  <2>1. <<rec>> \in Seq({rec})
    OBVIOUS
  <2>2. <<rec>> \o <<>> = <<rec>>
    BY <2>1, ConcatEmptySeq
  <2>3. Ok(<<>>).ok = TRUE /\ Ok(<<>>).value = <<>>
    BY DEF Ok
  <2> QED BY <2>2, <2>3 DEF Then
<1>10. decode(enc) = Ok(<<rec>>)
  BY <1>3, <1>7, <1>8, <1>9 DEF decode
<1>11. encode_instance(iid, items) = enc
  BY <1>2, <1>4 DEF encode_instance, Encodings
<1>12. rec.type = ObjectInstance /\ rec.id = iid /\ rec.children = ItemRecords(items, 1)
  <2>1. PICK sub : sub = decode_impl[<<flat, 1>>] /\ sub.ok = TRUE /\ sub.value = ItemRecords(items, 1)
    BY <1>2 DEF Ok
  <2>2. rec = [type |-> ObjectInstance, id |-> iid, value |-> flat, children |-> sub.value]
    BY <1>1, <1>5, <1>6, <2>1 DEF DecodedRecord
  <2> QED BY <2>1, <2>2
<1> QED BY <1>10, <1>11, <1>12

(* A resource alone is decoded to its record. *)
LEMMA DecodeSingle ==
    ASSUME NEW rid \in U16, NEW value, Sendable(value)
    PROVE  decode(encode_resource(rid, value))
             = Ok(<<DecodedRecord(Resource, rid, serialize(value), 0)>>)
<1>1. PICK v \in Seq(Byte) : v = serialize(value) /\ Len(v) <= MaxValue
  BY ValueRoundTrip
<1>2. PICK empty \in Seq(Byte) : empty = <<>> /\ decode_impl[<<empty, 0>>] = Ok(<<>>)
  <2>1. 0 \in Nat /\ 0 <= kMaxTlvDepth
    BY DEF kMaxTlvDepth
  <2> QED BY <2>1, DecodeNothing
<1>3. PICK enc : enc = encode_record(Resource, rid, v)
  OBVIOUS
<1>4. PICK rec : rec = DecodedRecord(Resource, rid, v, 0)
  OBVIOUS
<1>5. Resource \in 0 .. 3 /\ 0 \in Nat /\ 0 <= kMaxTlvDepth
  BY DEF Resource, kMaxTlvDepth
<1>6. enc \in Seq(Byte) /\ decode_impl[<<enc \o empty, 0>>] = Then(<<rec>>, decode_impl[<<empty, 0>>])
  <2>1. Len(v) <= MaxValue
    BY <1>1
  <2> QED BY <1>2, <1>3, <1>4, <1>5, <2>1, DecodeFirst
<1>7. enc \o empty = enc
  BY <1>2, <1>6, ConcatEmptySeq
<1>8. Then(<<rec>>, Ok(<<>>)) = Ok(<<rec>>)
  <2>1. <<rec>> \in Seq({rec})
    OBVIOUS
  <2>2. <<rec>> \o <<>> = <<rec>>
    BY <2>1, ConcatEmptySeq
  <2>3. Ok(<<>>).ok = TRUE /\ Ok(<<>>).value = <<>>
    BY DEF Ok
  <2> QED BY <2>2, <2>3 DEF Then
<1>9. decode(enc) = Ok(<<rec>>)
  BY <1>2, <1>6, <1>7, <1>8 DEF decode
<1> QED BY <1>1, <1>3, <1>4, <1>9 DEF encode_resource

(* A record has at most six bytes more than its value. *)
LEMMA EncodedLength ==
    ASSUME NEW type \in 0 .. 3, NEW id \in U16, NEW v \in Seq(Byte), Len(v) <= MaxValue
    PROVE  /\ encode_record(type, id, v) \in Seq(Byte)
           /\ Len(encode_record(type, id, v)) <= 6 + Len(v)
<1>1. PICK n \in Nat : n = Len(v) /\ n <= MaxValue
  BY LenProperties
<1>2. LengthForm(n) \in 0 .. 3
  BY <1>1 DEF LengthForm
<1>3. PICK h \in Seq(Byte) : /\ h = Header(type, id, n)
                             /\ Len(h) = 1 + (IF id > 255 THEN 2 ELSE 1) + LengthForm(n)
  BY <1>1, HeaderBytes
<1>4. Len(h) \in Nat /\ Len(h) <= 6
  <2>1. PICK w \in 1 .. 2 : Len(h) = 1 + w + LengthForm(n)
    BY <1>3
  <2> QED BY <1>2, <2>1
<1>5. h \o v \in Seq(Byte) /\ Len(h \o v) = Len(h) + Len(v)
  BY <1>3, ConcatProperties
<1>6. encode_record(type, id, v) = h \o v
  BY <1>1, <1>3 DEF encode_record
<1> QED BY <1>1, <1>4, <1>5, <1>6

(* Sequences of at most c elements each, one after the other. *)
LEMMA FlatLength ==
    ASSUME NEW S, NEW seqs \in Seq(Seq(S)), NEW c \in Nat,
           \A i \in 1 .. Len(seqs) : Len(seqs[i]) <= c
    PROVE  FlattenSeq(seqs) \in Seq(S) /\ Len(FlattenSeq(seqs)) <= c * Len(seqs)
<1>1. PICK f : Flattens(f, seqs, S)
  BY FlattenUnfolds
<1>2. PICK l \in Nat : l = Len(seqs)
  BY LenProperties
<1>3. /\ f[0] = <<>> /\ \A n \in 1 .. l : f[n] = f[n - 1] \o seqs[n]
      /\ \A n \in 0 .. l : f[n] \in Seq(S)
      /\ FlattenSeq(seqs) = f[l]
  BY <1>1, <1>2 DEF Flattens
<1>4. \A n \in 1 .. l : seqs[n] \in Seq(S) /\ Len(seqs[n]) \in Nat /\ Len(seqs[n]) <= c
  BY <1>2, ElementOfSeq, LenProperties
<1> DEFINE T == {n \in Nat : n <= l => Len(f[n]) <= c * n}
<1>5. 0 \in T
  <2>1. Len(f[0]) = 0
    BY <1>3, EmptySeq
  <2>2. c * 0 = 0
    BY SMT
  <2> QED BY <2>1, <2>2
<1>6. ASSUME NEW n \in Nat, n \in T PROVE n + 1 \in T
  <2> SUFFICES ASSUME n + 1 <= l PROVE Len(f[n + 1]) <= c * (n + 1)
    OBVIOUS
  <2>1. n + 1 \in 1 .. l /\ (n + 1) - 1 = n /\ n \in 0 .. l /\ n <= l
    BY <1>2
  <2>2. PICK pre \in Seq(S), s \in Seq(S) : pre = f[n] /\ s = seqs[n + 1]
    BY <1>3, <1>4, <2>1
  <2>3. f[n + 1] = pre \o s /\ Len(pre \o s) = Len(pre) + Len(s)
    BY <1>3, <2>1, <2>2, ConcatProperties
  <2>4. PICK p \in Nat, q \in Nat : p = Len(pre) /\ q = Len(s)
    BY LenProperties
  <2>5. p <= c * n /\ q <= c
    BY <1>4, <1>6, <2>1, <2>2, <2>4
  <2>6. c * n \in Nat /\ c * (n + 1) = c * n + c
    BY SMT
  <2>7. p + q <= c * (n + 1)
    BY SMT, <2>5, <2>6
  <2> QED BY <2>3, <2>4, <2>7
<1>7. Nat \subseteq T
  <2> HIDE DEF T
  <2> QED BY <1>5, <1>6, Flat!SetInduction
<1>8. Len(f[l]) <= c * l /\ f[l] \in Seq(S)
  BY <1>2, <1>3, <1>7
<1> QED BY <1>2, <1>3, <1>8

(* A record of any length is no shorter than its value, though it does not *)
(* say a length that three bytes cannot carry.                             *)
LEMMA EncodedLonger ==
    ASSUME NEW type \in 0 .. 3, NEW id \in U16, NEW v \in Seq(Byte)
    PROVE  /\ encode_record(type, id, v) \in Seq(Byte)
           /\ Len(encode_record(type, id, v)) >= Len(v)
<1>1. PICK n \in Nat : n = Len(v)
  BY LenProperties
<1>2. PICK b \in Byte : b = TypeByte(type, id, n)
  BY TypeByteBack
<1>3. PICK I \in Seq(Byte) : I = IdBytes(id)
  BY IdBytesBack
<1>4. LengthBytes(n) \in Seq(Byte)
  <2>1. CASE LengthForm(n) = 0
    BY <2>1, EmptySeq DEF LengthBytes
  <2>2. CASE LengthForm(n) = 1
    <3>1. n \in Byte
      BY SMT, <2>2, Ranges DEF LengthForm
    <3> QED BY <2>2, <3>1 DEF LengthBytes
  <2>3. CASE LengthForm(n) = 2
    <3>1. n < 65536
      BY SMT, <2>3 DEF LengthForm
    <3>2. PICK x \in Byte, y \in Byte : x = n \div 256 /\ y = n % 256
      <4>1. n \div 256 \in Nat /\ n \div 256 <= 255 /\ n % 256 \in Nat /\ n % 256 <= 255
        BY SMT, <3>1
      <4>2. \A k : k \in Nat /\ k <= 255 => k \in Byte
        BY Ranges
      <4>3. PICK x \in Nat, y \in Nat : x = n \div 256 /\ y = n % 256 /\ x <= 255 /\ y <= 255
        BY <4>1
      <4>4. x \in Byte /\ y \in Byte
        BY <4>2, <4>3
      <4> QED BY <4>3, <4>4
    <3>3. LengthBytes(n) = <<x, y>>
      BY <2>3, <3>2 DEF LengthBytes
    <3> QED BY <3>3
  <2>4. CASE LengthForm(n) \notin {0, 1, 2}
    <3>1. PICK x \in Byte, y \in Byte, z \in Byte :
            x = (n \div 65536) % 256 /\ y = (n \div 256) % 256 /\ z = n % 256
      <4>1. ASSUME NEW k \in Int PROVE k % 256 \in Byte
        <5>1. PICK r \in Nat : r = k % 256 /\ r <= 255
          BY SMT
        <5> QED BY <5>1, Ranges
      <4>2. n \div 65536 \in Int /\ n \div 256 \in Int
        BY SMT
      <4> QED BY <4>1, <4>2
    <3>2. LengthBytes(n) = <<x, y, z>>
      BY <2>4, <3>1 DEF LengthBytes
    <3> QED BY <3>2
  <2> QED BY <2>1, <2>2, <2>3, <2>4
<1>5. PICK L \in Seq(Byte) : L = LengthBytes(n)
  BY <1>4
<1>6. PICK h \in Seq(Byte) : h = (<<b>> \o I) \o L
  <2>1. <<b>> \in Seq(Byte)
    OBVIOUS
  <2> QED BY <2>1, ConcatProperties
<1>7. encode_record(type, id, v) = h \o v
  BY <1>1, <1>2, <1>3, <1>5, <1>6 DEF encode_record, Header
<1>8. h \o v \in Seq(Byte) /\ Len(h \o v) = Len(h) + Len(v)
  BY ConcatProperties
<1>9. PICK k \in Nat : k = Len(h)
  BY LenProperties
<1> QED BY <1>1, <1>7, <1>8, <1>9

(* Sequences one after the other are no shorter than each of them. *)
LEMMA FlatLonger ==
    ASSUME NEW S, NEW seqs \in Seq(Seq(S)), NEW i \in 1 .. Len(seqs)
    PROVE  /\ FlattenSeq(seqs) \in Seq(S) /\ Len(seqs[i]) \in Nat
           /\ Len(seqs[i]) <= Len(FlattenSeq(seqs))
<1>1. PICK f : Flattens(f, seqs, S)
  BY FlattenUnfolds
<1>2. PICK l \in Nat : l = Len(seqs)
  BY LenProperties
<1>3. /\ f[0] = <<>> /\ \A n \in 1 .. l : f[n] = f[n - 1] \o seqs[n]
      /\ \A n \in 0 .. l : f[n] \in Seq(S)
      /\ FlattenSeq(seqs) = f[l]
  BY <1>1, <1>2 DEF Flattens
<1>4. \A n \in 1 .. l : seqs[n] \in Seq(S) /\ Len(seqs[n]) \in Nat
  BY <1>2, ElementOfSeq, LenProperties
<1>5. PICK c \in Nat : c = Len(seqs[i])
  BY <1>2, <1>4
<1>6. i \in 1 .. l
  BY <1>2
<1> DEFINE T == {n \in Nat : n <= l /\ i <= n => c <= Len(f[n])}
<1>7. 0 \in T
  BY <1>6
<1>8. ASSUME NEW n \in Nat, n \in T PROVE n + 1 \in T
  <2> SUFFICES ASSUME n + 1 <= l, i <= n + 1 PROVE c <= Len(f[n + 1])
    OBVIOUS
  <2>1. n + 1 \in 1 .. l /\ (n + 1) - 1 = n /\ n \in 0 .. l /\ n <= l
    BY <1>2
  <2>2. PICK pre \in Seq(S), s \in Seq(S) : pre = f[n] /\ s = seqs[n + 1]
    BY <1>3, <1>4, <2>1
  <2>3. f[n + 1] = pre \o s /\ Len(pre \o s) = Len(pre) + Len(s)
    BY <1>3, <2>1, <2>2, ConcatProperties
  <2>4. PICK p \in Nat, q \in Nat : p = Len(pre) /\ q = Len(s)
    BY LenProperties
  <2>5. CASE i = n + 1
    <3>1. c = q
      BY <1>5, <2>2, <2>4, <2>5
    <3> QED BY <2>3, <2>4, <3>1
  <2>6. CASE i # n + 1
    <3>1. i <= n
      BY <1>6, <2>6
    <3>2. c <= p
      BY <1>8, <2>1, <2>2, <2>4, <3>1
    <3> QED BY <2>3, <2>4, <3>2
  <2> QED BY <2>5, <2>6
<1>9. Nat \subseteq T
  <2> HIDE DEF T
  <2> QED BY <1>7, <1>8, Flat!SetInduction
<1>10. c <= Len(f[l]) /\ f[l] \in Seq(S)
  BY <1>3, <1>6, <1>9
<1> QED BY <1>3, <1>5, <1>10

(* What the encoding of an instance is decoded to. *)
LEMMA InstanceRecord ==
    ASSUME NEW iid, NEW items, ItemsOK(items)
    PROVE  LET flat == FlattenSeq(Encodings(items))
               rec  == DecodedRecord(ObjectInstance, iid, flat, 0)
           IN  /\ flat \in Seq(Byte)
               /\ encode_instance(iid, items) = encode_record(ObjectInstance, iid, flat)
               /\ rec.type = ObjectInstance /\ rec.id = iid /\ rec.children = ItemRecords(items, 1)
<1>1. 1 <= kMaxTlvDepth /\ 1 \in Nat /\ 0 + 1 = 1
  BY DEF kMaxTlvDepth
<1>2. PICK flat \in Seq(Byte) : /\ flat = FlattenSeq(Encodings(items))
                                /\ decode_impl[<<flat, 1>>] = Ok(ItemRecords(items, 1))
  BY <1>1, DecodeItemsOnly
<1>3. PICK sub : sub = decode_impl[<<flat, 1>>] /\ sub.ok = TRUE /\ sub.value = ItemRecords(items, 1)
  BY <1>2 DEF Ok
<1>4. PICK rec : rec = DecodedRecord(ObjectInstance, iid, flat, 0)
  OBVIOUS
<1>5. rec = [type |-> ObjectInstance, id |-> iid, value |-> flat, children |-> sub.value]
  BY <1>1, <1>3, <1>4 DEF DecodedRecord, ObjectInstance, Nested
<1>6. encode_instance(iid, items) = encode_record(ObjectInstance, iid, flat)
  BY <1>2 DEF encode_instance, Encodings
<1>7. rec.type = ObjectInstance /\ rec.id = iid /\ rec.children = ItemRecords(items, 1)
  BY <1>3, <1>5
<1> QED BY <1>2, <1>4, <1>6, <1>7

InstanceEncodings(n, iids, items) == [i \in 1 .. n |-> encode_instance(iids[i], items[i])]

(* Instances one after the other are decoded to one record each, with its  *)
(* resources as children (encode_instance, and decode with parse_record,   *)
(* src/codec/tlv.cpp:65-80, 249-345).                                      *)
THEOREM DecodeInstances ==
    ASSUME NEW n \in Nat, NEW iids, NEW items,
           \A i \in 1 .. n : /\ iids[i] \in U16 /\ ItemsOK(items[i])
                             /\ Len(FlattenSeq(Encodings(items[i]))) <= MaxValue
    PROVE  \E recs :
             /\ decode(FlattenSeq(InstanceEncodings(n, iids, items))) = Ok(recs)
             /\ Len(recs) = n /\ DOMAIN recs = 1 .. n
             /\ \A i \in 1 .. n :
                  /\ recs[i].type = ObjectInstance /\ recs[i].id = iids[i]
                  /\ recs[i].children = ItemRecords(items[i], 1)
<1> DEFINE flat(i) == FlattenSeq(Encodings(items[i]))
           s == [i \in 1 .. n |-> <<ObjectInstance, iids[i], flat(i)>>]
           seqs == [i \in 1 .. n |-> encode_instance(iids[i], items[i])]
           recs == [i \in 1 .. n |-> DecodedRecord(ObjectInstance, iids[i], flat(i), 0)]
<1>1. 0 <= kMaxTlvDepth /\ 0 \in Nat /\ ObjectInstance \in 0 .. 3
  BY DEF kMaxTlvDepth, ObjectInstance
<1>2. PICK empty \in Seq(Byte) : empty = <<>> /\ decode_impl[<<empty, 0>>] = Ok(<<>>)
  BY <1>1, DecodeNothing
<1>3. ASSUME NEW i \in 1 .. n
      PROVE  /\ s[i] \in Triples /\ Encoded(s[i]) = seqs[i] /\ Decoded(s[i], 0) = recs[i]
             /\ recs[i].type = ObjectInstance /\ recs[i].id = iids[i]
             /\ recs[i].children = ItemRecords(items[i], 1)
  <2>1. PICK iid, its : iid \in U16 /\ iid = iids[i] /\ its = items[i] /\ ItemsOK(its)
    BY <1>3
  <2>2. PICK f \in Seq(Byte) :
          /\ f = FlattenSeq(Encodings(its))
          /\ encode_instance(iid, its) = encode_record(ObjectInstance, iid, f)
    BY <2>1, InstanceRecord
  <2>3. PICK rec : rec = DecodedRecord(ObjectInstance, iid, f, 0)
    OBVIOUS
  <2>4. rec.type = ObjectInstance /\ rec.id = iid /\ rec.children = ItemRecords(its, 1)
    BY <2>1, <2>2, <2>3, InstanceRecord
  <2>5. Len(f) <= MaxValue
    BY <1>3, <2>1, <2>2
  <2>6. PICK r : r = <<ObjectInstance, iid, f>>
    OBVIOUS
  <2>7. /\ r \in Triples /\ Encoded(r) = encode_record(ObjectInstance, iid, f)
        /\ Decoded(r, 0) = rec
    <3>1. r[1] = ObjectInstance /\ r[2] = iid /\ r[3] = f
      BY <2>6
    <3>2. r \in (0 .. 3) \X U16 \X Seq(Byte)
      BY <1>1, <2>1, <2>6
    <3>3. Len(r[3]) <= MaxValue
      BY <2>5, <3>1
    <3> QED BY <2>3, <3>1, <3>2, <3>3 DEF Triples, Encoded, Decoded
  <2>8. s[i] = r /\ seqs[i] = encode_instance(iid, its) /\ recs[i] = rec
    BY <2>1, <2>2, <2>3, <2>6
  <2> HIDE DEF s, seqs, recs
  <2> QED BY <2>1, <2>2, <2>4, <2>7, <2>8
<1> HIDE DEF flat
<1>4. s \in Seq(Triples) /\ Len(s) = n
  <2>1. s = [i \in 1 .. n |-> s[i]]
    OBVIOUS
  <2> HIDE DEF s
  <2>2. s \in [1 .. n -> Triples]
    BY <1>3, <2>1
  <2>3. s \in Seq(Triples) /\ DOMAIN s = 1 .. n
    BY <2>2, SeqDef
  <2> QED BY <2>3, LenProperties, SameBound
<1>5. PICK S : recs \in Seq(S) /\ Len(recs) = n /\ DOMAIN recs = 1 .. n
  <2>1. PICK S : S = {recs[i] : i \in 1 .. n}
    OBVIOUS
  <2>2. recs \in [1 .. n -> S]
    <3>1. recs = [i \in 1 .. n |-> recs[i]]
      OBVIOUS
    <3> HIDE DEF recs
    <3> QED BY <2>1, <3>1
  <2> HIDE DEF recs
  <2>3. recs \in Seq(S) /\ DOMAIN recs = 1 .. n
    BY <2>2, SeqDef
  <2> QED BY <2>3, LenProperties, SameBound
<1>6. DOMAIN seqs = 1 .. n /\ seqs = [i \in 1 .. n |-> seqs[i]] /\ recs = [i \in 1 .. n |-> recs[i]]
  OBVIOUS
<1> HIDE DEF s, seqs, recs
<1>7. [i \in 1 .. n |-> Encoded(s[i])] = seqs /\ [i \in 1 .. n |-> Decoded(s[i], 0)] = recs
  BY <1>3, <1>6
<1>8. /\ FlattenSeq(seqs) \in Seq(Byte)
      /\ decode_impl[<<FlattenSeq(seqs) \o empty, 0>>] = Then(recs, decode_impl[<<empty, 0>>])
  BY <1>1, <1>2, <1>4, <1>7, DecodeRecords
<1>9. FlattenSeq(seqs) \o empty = FlattenSeq(seqs)
  BY <1>2, <1>8, ConcatEmptySeq
<1>10. Then(recs, Ok(<<>>)) = Ok(recs)
  <2>1. recs \o <<>> = recs
    BY <1>5, ConcatEmptySeq
  <2>2. Ok(<<>>).ok = TRUE /\ Ok(<<>>).value = <<>>
    BY DEF Ok
  <2> QED BY <2>1, <2>2 DEF Then
<1>11. decode(FlattenSeq(seqs)) = Ok(recs)
  BY <1>2, <1>8, <1>9, <1>10 DEF decode
<1> QED BY <1>3, <1>5, <1>11 DEF seqs, InstanceEncodings

(* Resources that hold ResourceValues are encoded, and can all be carried  *)
(* if their bytes together fit the length of a record.                     *)
LEMMA HeldEncoded ==
    ASSUME NEW H, \A h \in H : \E rid, v : h = <<rid, v>> /\ rid \in U16 /\ OfType(v),
           NEW items \in Seq(H)
    PROVE  LET flat == FlattenSeq(Encodings(items))
           IN  /\ flat \in Seq(Byte)
               /\ Len(flat) <= MaxValue => ItemsOK(items)
<1>1. PICK n \in Nat : n = Len(items) /\ DOMAIN items = 1 .. n
  BY LenProperties
<1>2. ASSUME NEW i \in 1 .. n
      PROVE  \E rid \in U16 : \E v : items[i] = <<rid, v>> /\ OfType(v)
  <2>1. items[i] \in H
    BY <1>1, ElementOfSeq
  <2> QED BY <2>1
<1> DEFINE seqs == Encodings(items)
<1>3. ASSUME NEW i \in 1 .. n
      PROVE  /\ items[i][1] \in U16 /\ OfType(items[i][2])
             /\ serialize(items[i][2]) \in Seq(Byte)
             /\ seqs[i] \in Seq(Byte) /\ Len(seqs[i]) >= Len(serialize(items[i][2]))
  <2>1. PICK rid \in U16 : \E v : items[i] = <<rid, v>> /\ OfType(v)
    BY <1>2
  <2>2. PICK v : items[i] = <<rid, v>> /\ OfType(v)
    BY <2>1
  <2>3. PICK b \in Seq(Byte) : b = serialize(v)
    BY <2>2, ValueSerialized
  <2>4. Resource \in 0 .. 3
    BY DEF Resource
  <2>5. encode_record(Resource, rid, b) \in Seq(Byte) /\ Len(encode_record(Resource, rid, b)) >= Len(b)
    BY <2>4, EncodedLonger
  <2>6. items[i][1] = rid /\ items[i][2] = v
    BY <2>2
  <2>7. seqs[i] = encode_record(Resource, rid, b)
    BY <1>1, <2>3, <2>6 DEF Encodings, encode_resource
  <2> QED BY <2>2, <2>3, <2>5, <2>6, <2>7
<1>4. seqs \in Seq(Seq(Byte)) /\ Len(seqs) = n
  <2>1. seqs = [i \in 1 .. n |-> seqs[i]]
    BY <1>1 DEF Encodings
  <2> HIDE DEF seqs
  <2>2. seqs \in [1 .. n -> Seq(Byte)]
    BY <1>3, <2>1
  <2>3. seqs \in Seq(Seq(Byte)) /\ DOMAIN seqs = 1 .. n
    BY <2>2, SeqDef
  <2> QED BY <2>3, LenProperties, SameBound
<1> HIDE DEF seqs
<1>5. FlattenSeq(seqs) \in Seq(Byte)
  <2>1. PICK f : Flattens(f, seqs, Byte)
    BY <1>4, FlattenUnfolds
  <2> QED BY <1>4, <2>1 DEF Flattens
<1>6. ASSUME Len(FlattenSeq(seqs)) <= MaxValue, NEW i \in 1 .. n PROVE Sendable(items[i][2])
  <2>1. PICK v : v = items[i][2] /\ OfType(v)
    BY <1>3
  <2>2. PICK b \in Seq(Byte) : b = serialize(v)
    BY <1>3, <2>1
  <2>3. Len(seqs[i]) \in Nat /\ Len(seqs[i]) <= Len(FlattenSeq(seqs))
    BY <1>4, FlatLonger
  <2>4. PICK x \in Nat, y \in Nat, z \in Nat :
          x = Len(b) /\ y = Len(seqs[i]) /\ z = Len(FlattenSeq(seqs))
    BY <1>5, <2>3, LenProperties
  <2>5. MaxValue \in Nat
    BY SMT DEF MaxValue
  <2>6. x <= y /\ y <= z /\ z <= MaxValue
    BY <1>3, <1>6, <2>1, <2>2, <2>3, <2>4
  <2>7. x <= MaxValue
    BY SMT, <2>5, <2>6
  <2> QED BY <2>1, <2>2, <2>4, <2>7, ValueSerialized
<1>7. items \in Seq(U16 \X {items[i][2] : i \in 1 .. n})
  <2>1. PICK V : V = {items[i][2] : i \in 1 .. n}
    OBVIOUS
  <2>2. \A i \in 1 .. n : items[i] \in U16 \X V
    <3> SUFFICES ASSUME NEW i \in 1 .. n PROVE items[i] \in U16 \X V
      OBVIOUS
    <3>1. PICK rid \in U16 : \E v : items[i] = <<rid, v>>
      BY <1>2
    <3>2. PICK v : items[i] = <<rid, v>>
      BY <3>1
    <3>3. items[i][2] = v /\ v \in V
      BY <2>1, <3>2
    <3> QED BY <3>2, <3>3
  <2>3. items \in [1 .. n -> U16 \X V]
    <3>1. items = [i \in 1 .. n |-> items[i]]
      BY <1>1, LenProperties
    <3> QED BY <2>2, <3>1
  <2>4. items \in Seq(U16 \X V)
    BY <2>3, SeqDef
  <2> QED BY <2>1, <2>4
<1>8. Len(FlattenSeq(seqs)) <= MaxValue => ItemsOK(items)
  BY <1>1, <1>6, <1>7 DEF ItemsOK
<1> QED BY <1>5, <1>8 DEF seqs
===============================================================================
