----------------------------- MODULE BitStream ------------------------------
(***************************************************************************)
(* What an encoder and a decoder make of the bits: the one puts any fields *)
(* one after the other and hands on the bytes, the other takes numbers out *)
(* of them, of the same widths or of others.                               *)
(***************************************************************************)
EXTENDS Per

CONSTANTS
  Values,      \* what a field may hold
  Widths,      \* how many bits it may have
  MaxFields,   \* bound of the fields that are put
  MaxTaken,    \* bound of the numbers that are taken
  Extra        \* bytes beyond those of the datagram the decoder may be told of

VARIABLES
  po,       \* of the encoder
  fields,   \* those put so far, each with its place among the bits
  bits,     \* their bits one after the other
  bytes,    \* the datagram
  pd,       \* of the decoder
  got,      \* the numbers taken so far, in the same way
  stage     \* "put", "get" or "failed"

streamVars == <<po, fields, bits, bytes, pd, got, stage>>

\* The encoder is given words of 32 bits; numbers here end with 31 (see Low).
ASSUME FieldsAssumption ==
  /\ Values \subseteq Nat /\ \A v \in Values : v \div 2 ^ 30 \in {0, 1}
  /\ Widths \subseteq 0 .. 31 /\ Extra \subseteq Nat
  /\ MaxFields \in Nat /\ MaxTaken \in Nat

StreamInit ==
  /\ po = StartOutput /\ fields = << >> /\ bits = << >>
  /\ bytes = << >> /\ pd = StartInput(<< >>, 0) /\ got = << >>
  /\ stage = "put"

\* A value with more bits than the field has is cut to its low ones.
Put(v, n) ==
  /\ stage = "put" /\ Len(fields) < MaxFields
  /\ po' = put_few_bits(po, v, n)
  /\ fields' = Append(fields, [value |-> v, width |-> n, first |-> Len(bits)])
  /\ bits' = bits \o BitsOf(v, n)
  /\ UNCHANGED <<bytes, pd, got, stage>>

HandOn ==
  /\ stage = "put" /\ stage' = "get"
  /\ bytes' = Flushed(po)
  /\ \E extra \in Extra : pd' = StartInput(bytes', Len(bytes') + extra)
  /\ UNCHANGED <<po, fields, bits, got>>

\* Where the first i of fs end.
EndOf(fs, i) == IF i = 0 THEN 0 ELSE fs[i].first + fs[i].width

\* Bits are taken where some were put.
Get(n) ==
  /\ stage = "get" /\ Len(got) < MaxTaken
  /\ EndOf(got, Len(got)) + n <= Len(bits)
  /\ LET taken == get_few_bits(pd, n)
         field == [value |-> taken.value, width |-> n, first |-> EndOf(got, Len(got))]
     IN  /\ pd' = taken.pd
         /\ got' = IF taken.ok THEN Append(got, field) ELSE got
         /\ stage' = IF taken.ok THEN stage ELSE "failed"
  /\ UNCHANGED <<po, fields, bits, bytes>>

StreamNext ==
  \/ \E v \in Values, n \in Widths : Put(v, n)
  \/ HandOn
  \/ \E n \in Widths : Get(n)

StreamSpec == StreamInit /\ [][StreamNext]_streamVars

-----------------------------------------------------------------------------
\* The bytes hold the bits of all fields with nothing between or lost, filled
\* up with zeros to a whole byte, however often tmpspace was handed on in
\* between and whatever it held (asn_bit_data.c:191-277, per_encoder.c:148-164).
Packed ==
  stage = "get" =>
    /\ Len(BitsIn(bytes)) \in Len(bits) .. Len(bits) + 7
    /\ \A i \in DOMAIN BitsIn(bytes) :
         BitsIn(bytes)[i] = IF i <= Len(bits) THEN bits[i] ELSE 0

\* Whatever widths the decoder asks for, it gets the bits that were put, in their
\* order and with nothing above them, and never runs out of them; where it asks
\* for a field as it was put, it gets the value back, cut to its width
\* (etsi-car asn_bit_data.c:62-142).
ReadBack ==
  /\ stage # "failed"
  /\ \A i \in DOMAIN got :
       LET g == got[i]
       IN  /\ g.value = Low(g.value, g.width)
           /\ BitsOf(g.value, g.width) = SubSeq(bits, g.first + 1, g.first + g.width)
           /\ \A j \in DOMAIN fields :
                fields[j].first = g.first /\ fields[j].width = g.width
                  => g.value = Low(fields[j].value, fields[j].width)
=============================================================================
