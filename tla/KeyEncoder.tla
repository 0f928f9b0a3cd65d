------------------------------ MODULE KeyEncoder ------------------------------
(***************************************************************************)
(* key_encoder and key_decoder (art_common.hpp) and the floating point     *)
(* encoding they use (duckdb_encode_decode.hpp).                           *)
(*                                                                         *)
(* Two encoders build, field by field, two keys of the same schema; the    *)
(* fields they were given are kept to say what the keys must mean.  A byte *)
(* has ByteBits bits.  Integers and floats of n bytes are numbers below    *)
(* 2^(n * ByteBits); a float is its bit pattern: a sign bit, an exponent   *)
(* and MantissaBits bits of mantissa.                                      *)
(***************************************************************************)
EXTENDS Integers, SequencesExt

CONSTANTS
    ByteBits,                   \* 8 in the code
    SizeBytes,                  \* sizeof(key_encoder::size_type), 2 in the code
    INITIAL_BUFFER_CAPACITY,    \* 256 in the code
    MantissaBits,
    Encoder,                    \* the two encoders
    Width,                      \* widths of the integers, in bytes
    Sample(_),                  \* bound: unsigned integers of a width to encode
    FloatBytes,                 \* width of the floating point type, in bytes
    Text,                       \* the texts to encode, sequences of bytes
    Raw,                        \* the bytes to append, sequences of one length
    MaxCalls                    \* bound: fields encoded in one life of the encoders

VARIABLES
    enc,        \* the encoders
    fields,     \* history: what each was given since its construction or reset
    calls       \* number of fields encoded so far

vars == <<enc, fields, calls>>

Base == 2 ^ ByteBits
max(n) == Base ^ n - 1              \* numeric_limits::max of n bytes
msb(n) == 2 ^ (n * ByteBits - 1)

pad == 0
maxlen == max(SizeBytes) - 1 - SizeBytes

ASSUME EncoderAssumption ==
    /\ ByteBits \in Nat \ {0} /\ SizeBytes \in Nat \ {0} /\ maxlen > 0
    /\ \A t \in Text : t \in Seq(0 .. Base - 1)

(***************************************************************************)
(* The buffer: contents, capacity, the block that holds it (ibuf or a heap *)
(* block) and the heap blocks the encoder has allocated and not freed.     *)
(***************************************************************************)
ibuf == 0
NewEncoder == [buf |-> <<>>, cap |-> INITIAL_BUFFER_CAPACITY, block |-> ibuf,
               owned |-> {}]

bit_ceil(n) == 2 ^ (CHOOSE i \in 0 .. n : 2 ^ i >= n /\ (i > 0 => 2 ^ (i - 1) < n))

\* Mutant: the old heap block is not freed.
ensure_capacity_Leak(x, min_capacity) ==
    LET block == CHOOSE b \in 1 .. 2 : b \notin x.owned
    IN [x EXCEPT !.cap = bit_ceil(min_capacity), !.block = block, !.owned = @ \cup {block}]

ensure_capacity(x, min_capacity) ==
    LET block == CHOOSE b \in 1 .. 2 : b \notin x.owned
        freed == IF x.cap > INITIAL_BUFFER_CAPACITY THEN {x.block} ELSE {}
    IN [x EXCEPT !.cap = bit_ceil(min_capacity), !.block = block,
                 !.owned = (@ \cup {block}) \ freed]

ensure_available(x, req) ==
    IF Len(x.buf) + req > x.cap THEN ensure_capacity(x, Len(x.buf) + req) ELSE x

\* The destructor: the heap blocks that stay behind.
destroyed(x) ==
    x.owned \ (IF x.cap > INITIAL_BUFFER_CAPACITY THEN {x.block} ELSE {})

Write(x, bytes) == [x EXCEPT !.buf = @ \o bytes]

append_bytes(x, data) == Write(ensure_available(x, Len(data)), data)

(***************************************************************************)
(* Integers.                                                               *)
(***************************************************************************)
\* The bytes of an integer of n bytes in memory, and the integer they are.
Memory(v, n) == [i \in 1 .. n |-> (v \div Base ^ (i - 1)) % Base]
Loaded(bytes) == FoldRight(LAMBDA b, v : b + Base * v, bytes, 0)

bswap(v, n) == Loaded(Reverse(Memory(v, n)))

make_binary_comparable_integral(v, n) == bswap(v, n)

encode_unsigned(x, v, n) ==
    Write(ensure_available(x, n), Memory(make_binary_comparable_integral(v, n), n))

\* The two's complement range of n bytes is moved up to start at zero.
to_unsigned(v, n) ==
    (IF v >= 0 THEN msb(n) + v ELSE msb(n) - (-(v + 1)) - 1) % Base ^ n

\* Mutant: the sign of a negative number is lost.
to_signed_NoSign(u, n) == IF u >= msb(n) THEN u - msb(n) ELSE msb(n) - 1 - u

to_signed(u, n) == IF u >= msb(n) THEN u - msb(n) ELSE -(msb(n) - 1 - u) - 1

(***************************************************************************)
(* Floating point numbers.                                                 *)
(***************************************************************************)
magnitude(f) == f % msb(FloatBytes)
negative(f) == f >= msb(FloatBytes)
Infinity == msb(FloatBytes) - 2 ^ MantissaBits
quiet_NaN == Infinity + 2 ^ (MantissaBits - 1)
isnan(f) == magnitude(f) > Infinity
isinf(f) == magnitude(f) = Infinity

encode_floating_point(f) ==
    CASE isnan(f) -> max(FloatBytes)
      [] isinf(f) -> IF negative(f) THEN 0 ELSE max(FloatBytes) - 1
      [] OTHER -> IF negative(f) THEN max(FloatBytes) - f ELSE f + msb(FloatBytes)

decode_floating_point(u) ==
    CASE u = max(FloatBytes) -> quiet_NaN
      [] u = max(FloatBytes) - 1 -> Infinity
      [] u = 0 -> Infinity + msb(FloatBytes)
      [] OTHER -> IF u >= msb(FloatBytes) THEN u - msb(FloatBytes)
                                          ELSE max(FloatBytes) - u

(***************************************************************************)
(* Text.                                                                   *)
(***************************************************************************)
truncated(text) == SubSeq(text, 1, IF Len(text) > maxlen THEN maxlen ELSE Len(text))

\* Mutant: trailing pad bytes are kept.
stripped_Kept(text) == text

\* Without the trailing pad bytes.
stripped(text) ==
    SubSeq(text, 1, CHOOSE n \in 0 .. Len(text) :
                        /\ n > 0 => text[n] # pad
                        /\ \A i \in n + 1 .. Len(text) : text[i] = pad)


encode_text(x, text) ==
    LET t == stripped(truncated(text))
        room == ensure_available(x, Len(t) + 1 + SizeBytes)
    IN encode_unsigned(encode_unsigned(append_bytes(room, t), pad, 1),
                       maxlen - Len(t), SizeBytes)

-------------------------------------------------------------------------------
(***************************************************************************)
(* One step gives each encoder the next field of its key.                  *)
(***************************************************************************)
Field(type, n, v) == [type |-> type, width |-> n, val |-> v]

Encode(type, n, Values, Op(_, _)) ==
    /\ calls < MaxCalls
    /\ \E val \in [Encoder -> Values] :
           /\ enc' = [e \in Encoder |-> Op(enc[e], val[e])]
           /\ fields' = [e \in Encoder |-> Append(fields[e], Field(type, n, val[e]))]
    /\ calls' = calls + 1

encode_uint(n) ==
    Encode("uint", n, Sample(n), LAMBDA x, v : encode_unsigned(x, v, n))

encode_int(n) ==
    Encode("int", n, {u - msb(n) : u \in Sample(n)},
           LAMBDA x, v : encode_unsigned(x, to_unsigned(v, n), n))

encode_float ==
    Encode("float", FloatBytes, 0 .. max(FloatBytes),
           LAMBDA x, v : encode_unsigned(x, encode_floating_point(v), FloatBytes))

encode_a_text == Encode("text", 0, Text, encode_text)

append_raw == Encode("raw", 0, Raw, append_bytes)

reset ==
    /\ enc' = [e \in Encoder |-> [enc[e] EXCEPT !.buf = <<>>]]
    /\ fields' = [e \in Encoder |-> <<>>]
    /\ UNCHANGED calls

Init ==
    /\ enc = [e \in Encoder |-> NewEncoder]
    /\ fields = [e \in Encoder |-> <<>>]
    /\ calls = 0

Next ==
    \/ \E n \in Width : encode_uint(n) \/ encode_int(n)
    \/ encode_float \/ encode_a_text \/ append_raw
    \/ reset

Spec == Init /\ [][Next]_vars

-------------------------------------------------------------------------------
(***************************************************************************)
(* key_decoder, and the comparison of keys (art_internal.hpp).             *)
(***************************************************************************)
\* The value of a field of n bytes that were read from a key.
decode(type, n, bytes) ==
    LET u == bswap(Loaded(bytes), n)
    IN CASE type = "uint" -> u
         [] type = "int" -> to_signed(u, n)
         [] type = "float" -> decode_floating_point(u)

\* Decoding a key by its schema: the offset moves over one field after the other.
decode_key(kv, schema) ==
    FoldLeft(LAMBDA d, f :
                 [off |-> d.off + f.width,
                  vals |-> Append(d.vals, decode(f.type, f.width,
                                      SubSeq(kv, d.off + 1, d.off + f.width)))],
             [off |-> 0, vals |-> <<>>], schema)

\* memcmp on what both have, then the lengths.
compare(a, b) ==
    LET shared == IF Len(a) < Len(b) THEN Len(a) ELSE Len(b)
        differ == {i \in 1 .. shared : a[i] # b[i]}
        first == CHOOSE i \in differ : \A j \in differ : i <= j
        order(m, n) == IF m < n THEN -1 ELSE IF m > n THEN 1 ELSE 0
    IN IF differ # {} THEN order(a[first], b[first]) ELSE order(Len(a), Len(b))

-------------------------------------------------------------------------------
(***************************************************************************)
(* What the keys must mean.                                                *)
(***************************************************************************)
\* The number a bit pattern stands for, times a power of two.
Number(f) ==
    LET exponent == magnitude(f) \div 2 ^ MantissaBits
        mantissa == magnitude(f) % 2 ^ MantissaBits
    IN IF exponent = 0 THEN mantissa
                       ELSE (2 ^ MantissaBits + mantissa) * 2 ^ (exponent - 1)

\* Floating point order, with negative zero before zero and NaN above everything.
FloatRank(f) ==
    CASE isnan(f) -> 2 * Number(Infinity) + 1
      [] OTHER -> IF negative(f) THEN -2 * Number(f) - 1 ELSE 2 * Number(f)

\* The place of a field's value among the values of its type.
Rank(f) ==
    CASE f.type \in {"uint", "int"} -> <<f.val>>
      [] f.type = "float" -> <<FloatRank(f.val)>>
      [] f.type = "text" ->
            [i \in 1 .. maxlen |-> IF i <= Len(f.val) THEN f.val[i] ELSE pad]
      [] f.type = "raw" -> f.val

Meaning(fs) == FlattenSeq([i \in 1 .. Len(fs) |-> Rank(fs[i])])

key(e) == enc[e].buf

\* In no text that was encoded is a pad byte followed by another byte.
Plain(e) ==
    \A i \in 1 .. Len(fields[e]) :
        fields[e][i].type = "text" =>
            LET t == truncated(fields[e][i].val)
            IN \A j, k \in 1 .. Len(t) : j < k /\ t[j] = pad => t[k] = pad

\* Keys of one schema compare byte by byte (basic_art_key::cmp, and the descent in
\* the tree) as their fields compare one after the other, and are equal only when all
\* fields are: no field's encoding bleeds into the order of the one before it.  This is
\* so as long as no text has a pad byte inside.
PlainOrderPreserved ==
    \A e, f \in Encoder : Plain(e) /\ Plain(f) =>
        compare(key(e), key(f)) = compare(Meaning(fields[e]), Meaning(fields[f]))

\* The bytes of a text that its key has.
Significant(text) == stripped(truncated(text))

\* Text u goes on after t with a pad byte and the run length that t gets.
Embeds(u, t) ==
    LET run == Reverse(Memory(maxlen - Len(Significant(t)), SizeBytes))
    IN IsPrefix(Significant(t) \o <<pad>> \o run, Significant(u))

\* The fields before the ith are the same, up to what padding and NaN do not tell apart.
SameUpTo(e, f, i) ==
    \A j \in 1 .. i - 1 : Rank(fields[e][j]) = Rank(fields[f][j])


\* key_decoder reads back, field by field, what key_encoder was given; only the
\* different NaNs become one, and text has no decoder.
RoundTrip ==
    \A e \in Encoder :
        LET fs == fields[e]
            nan_free(f) == IF f.type = "float" /\ isnan(f.val) THEN quiet_NaN ELSE f.val
        IN (\A i \in 1 .. Len(fs) : fs[i].type \in {"uint", "int", "float"}) =>
               decode_key(key(e), fs)
                   = [off |-> Len(key(e)),
                      vals |-> [i \in 1 .. Len(fs) |-> nan_free(fs[i])]]

\* However the buffer has grown and been reset, the contents fit, and the one heap
\* block that is not freed is the one in use: the destructor leaves none behind.
BufferOwned ==
    \A e \in Encoder :
        LET x == enc[e]
        IN /\ Len(x.buf) <= x.cap
           /\ destroyed(x) = {}
           /\ x.block \in x.owned \cup {ibuf}
===============================================================================
