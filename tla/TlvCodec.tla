------------------------------- MODULE TlvCodec -------------------------------
(***************************************************************************)
(* The OMA TLV codec (src/codec/tlv.cpp) as functions of byte sequences.   *)
(* A record is a type byte, an id of one or two bytes, a length of none to *)
(* three bytes and the value; instances and multiple resources nest.       *)
(* Every encode operation of the code succeeds, so these return the bytes. *)
(***************************************************************************)
EXTENDS LwM2MTypes, SequencesExt

CONSTANT
    TicksPerSecond  \* of std::chrono::system_clock: 10^9 with libstdc++

ASSUME TicksAssumption == TicksPerSecond \in Nat \ {0}

ObjectInstance   == 0
ResourceInstance == 1
MultiResource    == 2
Resource         == 3

kMaxTlvDepth == 8

(* The longest value that three bytes of length describe. *)
MaxValue == 16777215

(* The last w bytes of the two's complement of n, most significant first.  *)
(* Shifting by bytes keeps the arithmetic within n's own size.             *)
BigEndian(n, w) ==
    LET shr[k \in 0 .. w] == IF k = 0 THEN n ELSE shr[k - 1] \div 256
    IN  [i \in 1 .. w |-> shr[w - i] % 256]

(* Encoder. *)

serialize_intMutant(n) ==
    BigEndian(n, IF n >= -128 /\ n <= 128 THEN 1
                 ELSE IF n >= -32768 /\ n <= 32767 THEN 2 ELSE 8)

(* Three bytes would do for the third range, but the format has no such integer. *)
serialize_int(n) ==
    BigEndian(n, IF n >= -128 /\ n <= 127 THEN 1
                 ELSE IF n >= -32768 /\ n <= 32767 THEN 2
                 ELSE IF n >= -8388608 /\ n <= 8388607 THEN 4
                 ELSE 8)

serialize_uint(n) ==
    BigEndian(n, IF n <= 255 THEN 1
                 ELSE IF n <= 65535 THEN 2
                 ELSE IF n <= 16777215 THEN 4
                 ELSE 8)

(* duration_cast: a time is counted in ticks, and rounded towards 1970.    *)
Seconds(ticks) ==
    IF ticks >= 0 THEN ticks \div TicksPerSecond ELSE -((-ticks) \div TicksPerSecond)

(* A double is the eight bytes of its image, a time its whole seconds, and *)
(* of an object link only the object and the instance are kept.            *)
serialize_objlink(path) ==
    BigEndian(path[1], 2) \o BigEndian(IF Len(path) > 1 THEN path[2] ELSE 0, 2)

serialize(value) ==
    LET t == get_resource_type(value)
        v == Datum(value)
    IN  CASE t = "None"               -> <<>>
          [] t = "Boolean"            -> <<IF v THEN 1 ELSE 0>>
          [] t = "Integer"            -> serialize_int(v)
          [] t = "Time"               -> serialize_int(Seconds(v))
          [] t = "UnsignedInteger"    -> serialize_uint(v)
          [] t = "ObjectLink"         -> serialize_objlink(v)
          [] OTHER                    -> v

(* The most significant byte of a 64-bit integer, with its sign. *)
TopByte(n) == ((((((n \div 256) \div 256) \div 256) \div 256) \div 256) \div 256) \div 256

(* A ResourceValue: integers and times have 64 bits, and an object link    *)
(* has an object and an instance.                                          *)
OfType(value) ==
    LET t == get_resource_type(value)
        v == Datum(value)
    IN  /\ value = Value(t, v)
        /\ CASE t = "None"               -> v = <<>>
             [] t = "Boolean"            -> v \in BOOLEAN
             [] t \in {"Integer", "Time"} -> v \in Int /\ TopByte(v) >= -128 /\ TopByte(v) <= 127
             [] t = "UnsignedInteger"    -> v \in Nat /\ TopByte(v) <= 255
             [] t = "Float"              -> v \in Seq(Byte) /\ Len(v) = 8
             [] t = "ObjectLink"         -> v \in U16 \X U16
             [] OTHER -> t \in {"String", "Opaque"} /\ v \in Seq(Byte)

(* The ones a record can carry: the length of a text has three bytes.      *)
Sendable(value) ==
    /\ OfType(value)
    /\ get_resource_type(value) \in {"String", "Opaque"} => Len(Datum(value)) <= MaxValue

(* What is left of a value when it has been serialized: the encoding of a  *)
(* time has no fractions of a second.                                      *)
Received(value) ==
    IF get_resource_type(value) = "Time"
    THEN Value("Time", Seconds(Datum(value)) * TicksPerSecond) ELSE value

(* How many bytes follow for the length; with none it is in the type byte. *)
LengthFormMutant(n) == IF n <= 8 THEN 0 ELSE IF n < 256 THEN 1 ELSE IF n < 65536 THEN 2 ELSE 3
LengthForm(n) == IF n < 8 THEN 0 ELSE IF n < 256 THEN 1 ELSE IF n < 65536 THEN 2 ELSE 3

IdBytes(id) == IF id > 255 THEN <<id \div 256, id % 256>> ELSE <<id>>

LengthBytes(n) ==
    CASE LengthForm(n) = 0 -> <<>>
      [] LengthForm(n) = 1 -> <<n>>
      [] LengthForm(n) = 2 -> <<n \div 256, n % 256>>
      [] OTHER             -> <<(n \div 65536) % 256, (n \div 256) % 256, n % 256>>

TypeByte(type, id, n) ==
    64 * type + (IF id > 255 THEN 32 ELSE 0) + 8 * LengthForm(n)
              + (IF n < 8 THEN n ELSE 0)

Header(type, id, n) == <<TypeByte(type, id, n)>> \o IdBytes(id) \o LengthBytes(n)

encode_record(type, id, value) == Header(type, id, Len(value)) \o value

encode_resource(rid, value) == encode_record(Resource, rid, serialize(value))

(* The instances of a multiple resource are encoded as resources and their *)
(* type is put right afterwards.                                           *)
Retag(bytes, type) == [bytes EXCEPT ![1] = (@ % 64) + 64 * type]

(* items are pairs of an id and a value. *)
encode_multi_resource(rid, items) ==
    encode_record(MultiResource, rid,
        FlattenSeq([i \in DOMAIN items |->
            Retag(encode_resource(items[i][1], items[i][2]), ResourceInstance)]))

encode_instance(iid, items) ==
    encode_record(ObjectInstance, iid,
        FlattenSeq([i \in DOMAIN items |-> encode_resource(items[i][1], items[i][2])]))

-----------------------------------------------------------------------------
(* Decoder. *)

IdLength(b)     == 1 + ((b \div 32) % 2)
LengthType(b)   == (b \div 8) % 4
HeaderLength(b) == 1 + IdLength(b) + LengthType(b)

RecordId(data) == IF IdLength(data[1]) = 1 THEN data[2] ELSE 256 * data[2] + data[3]

RecordLength(data) ==
    LET n(i) == data[1 + IdLength(data[1]) + i]
    IN  CASE LengthType(data[1]) = 0 -> data[1] % 8
          [] LengthType(data[1]) = 1 -> n(1)
          [] LengthType(data[1]) = 2 -> 256 * n(1) + n(2)
          [] OTHER                   -> 65536 * n(1) + 256 * n(2) + n(3)

(* parse_record up to the value: the type, the id, the length and where    *)
(* the value starts (bytes are counted from 0, as in the code).            *)
parse_header(data) ==
    IF data = <<>> THEN Err("DecodingError")
    ELSE IF Len(data) < HeaderLength(data[1]) THEN Err("DecodingError")
    ELSE Ok([type |-> data[1] \div 64, id |-> RecordId(data), len |-> RecordLength(data),
             pos |-> HeaderLength(data[1])])

(* The value lies within the data. *)
Fits(h, data) == h.pos + h.len <= Len(data)

Nested(type) == type \in {ObjectInstance, MultiResource}

(* decode_impl and parse_record: the records of data, or an error if one   *)
(* of them is cut off.  A nested value that is no sequence of records, or  *)
(* nests too deep, leaves its record without children.                     *)
decode_impl[input \in Seq(Byte) \X Nat] ==
    LET data  == input[1]
        depth == input[2]
        head  == parse_header(data)
        h     == head.value
        val   == SubSeq(data, h.pos + 1, h.pos + h.len)
        sub   == decode_impl[<<val, depth + 1>>]
        rest  == decode_impl[<<SubSeq(data, h.pos + h.len + 1, Len(data)), depth>>]
    IN  IF depth > kMaxTlvDepth THEN Err("DecodingError")
        ELSE IF data = <<>> THEN Ok(<<>>)
        ELSE IF ~head.ok THEN head
        ELSE IF ~Fits(h, data) THEN Err("DecodingError")
        ELSE IF ~rest.ok THEN rest
        ELSE Ok(<<[type |-> h.type, id |-> h.id, value |-> val,
                   children |-> IF Nested(h.type) /\ sub.ok THEN sub.value ELSE <<>>]>>
                \o rest.value)

decode(data) == decode_impl[<<data, 0>>]

(* Integers of up to eight bytes; the first bit is the sign. *)
Number(data, start) ==
    LET first[n \in 0 .. Len(data)] ==
          IF n = 0 THEN start ELSE 256 * first[n - 1] + data[n]
    IN  first[Len(data)]

deserialize_int(data) ==
    IF Len(data) \in 1 .. 8
    THEN Ok(Number(data, IF data[1] >= 128 THEN -1 ELSE 0))
    ELSE Err("DecodingError")

deserialize_uint(data) ==
    IF Len(data) \in 1 .. 8 THEN Ok(Number(data, 0)) ELSE Err("DecodingError")

(* The seconds become ticks of the clock, in 64 bits: what does not fit    *)
(* (after the year 2262, with 10^9 ticks) wraps in the builds of the code. *)
deserialize_time(data) ==
    LET seconds == deserialize_int(data)
    IN  IF seconds.ok THEN deserialize_int(BigEndian(seconds.value * TicksPerSecond, 8))
        ELSE seconds

(* A float of four bytes is widened exactly: the image read stands for it. *)
deserialize_float(data) ==
    IF Len(data) \in {4, 8} THEN Ok(data) ELSE Err("DecodingError")

deserialize_objlink(data) ==
    IF Len(data) = 4
    THEN Ok(<<256 * data[1] + data[2], 256 * data[3] + data[4]>>)
    ELSE Err("DecodingError")

deserialize_bool(data) ==
    IF data # <<>> THEN Ok(data[1] # 0) ELSE Err("DecodingError")

deserialize(data, type) ==
    CASE type = "Boolean"              -> deserialize_bool(data)
      [] type = "Integer"              -> deserialize_int(data)
      [] type = "Time"                 -> deserialize_time(data)
      [] type = "UnsignedInteger"      -> deserialize_uint(data)
      [] type = "Float"                -> deserialize_float(data)
      [] type \in {"String", "Opaque"} -> Ok(data)
      [] type = "ObjectLink"           -> deserialize_objlink(data)
      [] OTHER                         -> Ok(<<>>)

decode_resource(data, type) ==
    LET r == deserialize(data, type)
    IN  IF r.ok THEN Ok(Value(type, r.value)) ELSE r
===============================================================================
