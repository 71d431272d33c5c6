---------------------------- MODULE MCDatagrams -----------------------------
(***************************************************************************)
(* Datagrams with numbers at the ends of their ranges and one beyond.      *)
(***************************************************************************)
EXTENDS Datagrams, Spatem

Content(minute, state, start, min, max) ==
  [timeStamp |-> minute, eventState |-> state,
   startTime |-> start, minEndTime |-> min, maxEndTime |-> max]

SomeContents == { Content(0, 0, 0, 50, 100),
                  Content(527039, 4, 35999, 36000, 36001),
                  Content(262143, 3, 35999, 36001, 36002) }

\* Fresh memory, and fields the program never sets with values at the ends of
\* their ranges and beyond.  A revision that begins below zero comes into its
\* range after some messages.
SomeMemory == { [signalGroup |-> 0,   revision |-> << 0, 0, 0, 0 >>],
                [signalGroup |-> 255, revision |-> << -2, 127, 126, 0 >>],
                [signalGroup |-> 256, revision |-> << 126, 0, 0, 0 >>],
                [signalGroup |-> 1,   revision |-> << 125, 128, 0, 0 >>] }

-----------------------------------------------------------------------------
\* A datagram is the fields of its message bit by bit with nothing between or
\* lost, filled up to a byte, wherever a field lies in its bytes and in the 32
\* of tmpspace (asn_bit_data.c:191-277, per_encoder.c:15-48).
PacksFields ==
  datagrams # << >> /\ Last(datagrams) # << >> =>
    LET bits == BitsOfAll(Fields(SPATEM, Last(messages)))
        packed == BitsIn(Last(datagrams))
    IN  /\ Len(packed) \in Len(bits) .. Len(bits) + 7
        /\ \A i \in DOMAIN packed :
             packed[i] = IF i <= Len(bits) THEN bits[i] ELSE 0
=============================================================================
