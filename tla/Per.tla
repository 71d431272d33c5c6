-------------------------------- MODULE Per ---------------------------------
(***************************************************************************)
(* The bits of the ASN.1 codec: fields of up to 31 bits are packed one     *)
(* after the other into tmpspace, a few bytes that are handed on whenever  *)
(* the next field would not fit, and taken out of the received bytes again.*)
(* A position is a byte (buffer), a bit in or after it (nboff), and the    *)
(* bits from that byte to the end (nbits).                                 *)
(***************************************************************************)
EXTENDS Integers, Sequences

CONSTANTS
  TmpSize,   \* bytes of tmpspace
  Debris     \* what tmpspace holds before anything is put there

ASSUME TmpAssumption == TmpSize \in Nat /\ TmpSize > 4 /\ Debris \in 0 .. 255

\* The low n bits of a number that has no more than 31.
Low(bits, n) == IF n >= 31 THEN bits ELSE bits % 2 ^ n

\* The position as a byte and less than eight bits.
Normalise(p) ==
  LET whole == p.nboff \div 8
  IN  [p EXCEPT !.buffer = @ + whole, !.nboff = @ % 8, !.nbits = @ - 8 * whole]

-----------------------------------------------------------------------------
(* Output.  out is what was handed on; a failure ends the encoding.        *)

StartOutput ==
  [out |-> <<>>, tmpspace |-> [i \in 0 .. TmpSize - 1 |-> Debris],
   buffer |-> 0, nboff |-> 0, nbits |-> 8 * TmpSize, failed |-> FALSE]

Complete(po, n) == po.out \o [i \in 1 .. n |-> po.tmpspace[i - 1]]

FlushDrops(po) ==                                          \* fault: no carry
  [po EXCEPT !.out = Complete(po, po.buffer),
             !.buffer = 0, !.nbits = 8 * TmpSize]

\* The complete bytes are handed on; one begun stays, at the front.
Flush(po) ==
  [po EXCEPT !.out = Complete(po, po.buffer),
             !.tmpspace[0] = IF po.nboff > 0 THEN po.tmpspace[po.buffer] ELSE @,
             !.buffer = 0, !.nbits = 8 * TmpSize]

\* bits go behind the nboff bits of the current byte that have a meaning;
\* the bytes they begin are written whole.
Store(po, bits, obits) ==
  LET off     == po.nboff + obits
      last    == (off - 1) \div 8
      begun   == po.tmpspace[po.buffer]
      kept    == begun - (begun % 2 ^ (8 - po.nboff))
      byte(i) == IF i < last THEN (bits \div 2 ^ (off - 8 * (i + 1))) % 256
                 ELSE ((bits % 256) * 2 ^ (8 * (last + 1) - off)) % 256
  IN  [po EXCEPT !.nboff = off,
         !.tmpspace = [i \in DOMAIN @ |->
           IF i \notin po.buffer .. po.buffer + last THEN @[i]
           ELSE byte(i - po.buffer) + (IF i = po.buffer THEN kept ELSE 0)]]

\* tmpspace is handed on when the field does not fit.
MakeRoom(at, obits) == IF at.nboff + obits > at.nbits THEN Flush(at) ELSE at

put_part(po, bits, obits) ==
  Store(MakeRoom(Normalise(po), obits), Low(bits, obits), obits)

\* A field that ends too far from the beginning of its first byte is put in two
\* calls, of which neither has to divide its part again.
put_few_bits(po, bits, obits) ==
  LET at    == MakeRoom(Normalise(po), obits)
      value == Low(bits, obits)
  IN  IF obits = 0 THEN po
      ELSE IF obits > 31 THEN [po EXCEPT !.failed = TRUE]
      ELSE IF at.nboff + obits <= 31 THEN Store(at, value, obits)
      ELSE put_part(put_part(at, value \div 2 ^ (obits - 24), 24), value, obits - 24)

\* Everything handed on, the last byte filled up with zeros.
Flushed(po) ==
  LET at   == Normalise(po)
      last == at.tmpspace[at.buffer]
  IN  IF at.nboff = 0 THEN Complete(at, at.buffer)
      ELSE Append(Complete(at, at.buffer), last - (last % 2 ^ (8 - at.nboff)))

-----------------------------------------------------------------------------
(* Input.                                                                  *)

\* The position before the first of size bytes; the bytes behind those that
\* are given are zero.
StartInput(bytes, size) ==
  [bytes |-> bytes, buffer |-> 0, nboff |-> 0, nbits |-> 8 * size]

\* nbits bits behind the position.
Extract(pd, nbits) ==
  LET off     == pd.nboff + nbits
      last    == (off - 1) \div 8
      byte(i) == LET b == IF pd.buffer + i < Len(pd.bytes)
                          THEN pd.bytes[pd.buffer + i + 1] ELSE 0
                 IN  IF i = 0 THEN b % 2 ^ (8 - pd.nboff) ELSE b
      part(i) == IF i > last THEN 0
                 ELSE IF i = last THEN byte(i) \div 2 ^ (8 * (last + 1) - off)
                 ELSE byte(i) * 2 ^ (off - 8 * (i + 1))
  IN  IF nbits = 0 THEN 0 ELSE part(0) + part(1) + part(2) + part(3)

Failure(pd) == [ok |-> FALSE, value |-> 0, pd |-> pd]

get_part_stays(pd, nbits) ==                       \* fault: does not move on
  LET at == Normalise(pd) IN [value |-> Extract(at, nbits), pd |-> at]

get_part(pd, nbits) ==
  LET at == Normalise(pd)
  IN  [value |-> Extract(at, nbits), pd |-> [at EXCEPT !.nboff = @ + nbits]]

\* The same two parts; the bits left over suffice for both.
get_few_bits(pd, nbits) ==
  LET at    == Normalise(pd)
      head  == get_part(at, nbits - 24)
      tail  == get_part(head.pd, 24)
      value == IF at.nboff + nbits <= 31 THEN Extract(at, nbits)
               ELSE head.value * 2 ^ 24 + tail.value
  IN  IF nbits > pd.nbits - pd.nboff THEN Failure(pd)
      ELSE [ok |-> TRUE, value |-> value, pd |-> [at EXCEPT !.nboff = @ + nbits]]

-----------------------------------------------------------------------------
(* The same bit by bit, to compare with.                                   *)

BitsOf(v, n) == [i \in 1 .. n |-> (v \div 2 ^ (n - i)) % 2]

BitsIn(bytes) ==
  [i \in 1 .. 8 * Len(bytes) |->
     (bytes[(i - 1) \div 8 + 1] \div 2 ^ (7 - ((i - 1) % 8))) % 2]
=============================================================================
