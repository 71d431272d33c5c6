------------------------------- MODULE Spatem -------------------------------
(***************************************************************************)
(* The messages and their unaligned PER encoding.  A type descriptor is a  *)
(* record: a number of some bits up to a bound, a list of one type (a text *)
(* is a list of characters), the bits of the status, or a sequence of      *)
(* members.  A sequence value is a record of the members that are present. *)
(* No type has extensions that a message could carry.                      *)
(***************************************************************************)
EXTENDS Per, SequencesExt, TLC

-----------------------------------------------------------------------------
(* The type descriptors the generator made.                                *)

Number(bits, upper) == [kind |-> "number", bits |-> bits, upper |-> upper]
List(bits, least, most, element) ==
  [kind |-> "list", bits |-> bits, least |-> least, most |-> most, element |-> element]
Sequence(extensible, members) ==
  [kind |-> "sequence", extensible |-> extensible, members |-> members]
Member(name, td)   == [name |-> name, td |-> td, optional |-> FALSE]
Optional(name, td) == [name |-> name, td |-> td, optional |-> TRUE]
Unused == [kind |-> "unused"]      \* an optional member no message has

TimeMark        == Number(16, 36001)
DescriptiveName == List(6, 1, 63, Number(7, 127))
StatusBits      == 16

TimeChangeDetails == Sequence(FALSE,
  << Optional("startTime", TimeMark), Member("minEndTime", TimeMark),
     Optional("maxEndTime", TimeMark), Optional("likelyTime", Unused),
     Optional("confidence", Unused), Optional("nextTime", Unused) >>)

MovementEvent == Sequence(TRUE,
  << Member("eventState", Number(4, 9)), Optional("timing", TimeChangeDetails),
     Optional("speeds", Unused), Optional("regional", Unused) >>)

MovementState == Sequence(TRUE,
  << Optional("movementName", DescriptiveName),
     Member("signalGroup", Number(8, 255)),
     Member("state_time_speed", List(4, 1, 16, MovementEvent)),
     Optional("maneuverAssistList", Unused), Optional("regional", Unused) >>)

IntersectionReferenceID == Sequence(FALSE,
  << Optional("region", Unused), Member("id", Number(16, 65535)) >>)

IntersectionState == Sequence(TRUE,
  << Optional("name", DescriptiveName), Member("id", IntersectionReferenceID),
     Member("revision", Number(7, 127)), Member("status", [kind |-> "bits"]),
     Optional("moy", Unused), Optional("timeStamp", Unused),
     Optional("enabledLanes", Unused),
     Member("states", List(8, 1, 255, MovementState)),
     Optional("maneuverAssistList", Unused), Optional("regional", Unused) >>)

SPAT == Sequence(TRUE,
  << Optional("timeStamp", Number(20, 527040)), Optional("name", Unused),
     Member("intersections", List(5, 1, 32, IntersectionState)),
     Optional("regional", Unused) >>)

\* A station has any 32-bit number; TLC's have 31.
ItsPduHeader == Sequence(FALSE,
  << Member("protocolVersion", Number(8, 255)), Member("messageID", Number(8, 255)),
     Member("stationID", Number(32, 2147483647)) >>)

SPATEM == Sequence(FALSE, << Member("header", ItsPduHeader), Member("spat", SPAT) >>)

-----------------------------------------------------------------------------
(* Encoding: a value is a sequence of fields that are put one by one.      *)

Field(value, bits) == [value |-> value, bits |-> bits]
Refused == Field(0, 32)          \* the encoder gives up here

NumberFieldsSwapped(td, v) ==                     \* fault: lower portion first
  IF v \notin 0 .. td.upper THEN << Refused >>
  ELSE IF td.bits <= 31 THEN << Field(v, td.bits) >>
  ELSE << Field(v, 31), Field(0, td.bits - 31) >>

\* More than 31 bits are put in two fields, the higher portion first.
NumberFields(td, v) ==
  IF v \notin 0 .. td.upper THEN << Refused >>
  ELSE IF td.bits <= 31 THEN << Field(v, td.bits) >>
  ELSE << Field(0, td.bits - 31), Field(v, 31) >>

\* One byte of bits without its trailing zeros, and zeros instead.
StatusFields(status) ==
  LET used == CHOOSE n \in 0 .. 8 : /\ status % 2 ^ (8 - n) = 0
                                    /\ n > 0 => status % 2 ^ (9 - n) # 0
  IN  << Field(status \div 2 ^ (8 - used), used), Field(0, StatusBits - used) >>

Optionals(td) == SelectSeq(td.members, LAMBDA m : m.optional)

\* A bit per optional member.
Bitmap(td, v) ==
  [i \in DOMAIN Optionals(td) |->
     Field(IF Optionals(td)[i].name \in DOMAIN v THEN 1 ELSE 0, 1)]

RECURSIVE Fields(_, _)
Fields(td, v) ==
  CASE td.kind = "number" -> NumberFields(td, v)
    [] td.kind = "bits" -> StatusFields(v)
    [] td.kind = "unused" -> << Refused >>
    [] td.kind = "list" ->
         IF Len(v) \notin td.least .. td.most THEN << Refused >>
         ELSE << Field(Len(v) - td.least, td.bits) >>
              \o FlattenSeq([i \in DOMAIN v |-> Fields(td.element, v[i])])
    [] td.kind = "sequence" ->
         LET present == SelectSeq(td.members, LAMBDA m : m.name \in DOMAIN v)
         IN  (IF td.extensible THEN << Field(0, 1) >> ELSE << >>)
             \o Bitmap(td, v)
             \o FlattenSeq([i \in DOMAIN present |->
                              Fields(present[i].td, v[present[i].name])])

\* The fields are put one after the other until one fails.
RECURSIVE PutAll(_, _)
PutAll(po, fields) ==
  LET half == Len(fields) \div 2
  IN  IF po.failed \/ fields = << >> THEN po
      ELSE IF half = 0 THEN put_few_bits(po, fields[1].value, fields[1].bits)
      ELSE PutAll(PutAll(po, SubSeq(fields, 1, half)),
                  SubSeq(fields, half + 1, Len(fields)))

\* The bits of the fields one after the other.
RECURSIVE BitsOfAll(_)
BitsOfAll(fields) ==
  LET half == Len(fields) \div 2
  IN  IF fields = << >> THEN << >>
      ELSE IF half = 0 THEN BitsOf(fields[1].value, fields[1].bits)
      ELSE BitsOfAll(SubSeq(fields, 1, half))
           \o BitsOfAll(SubSeq(fields, half + 1, Len(fields)))

\* uper_encode_to_buffer(): the bytes of the message, none when it is refused.
uper_encode(message) ==
  LET po == PutAll(StartOutput, Fields(SPATEM, message))
  IN  IF po.failed THEN << >> ELSE Flushed(po)

-----------------------------------------------------------------------------
(* Decoding.  The result has the value and the position behind it.         *)

\* The lower portion behind a higher one.
GetLower(high, bits) ==
  LET low == get_few_bits(high.pd, bits)
  IN  IF high.ok THEN [low EXCEPT !.value = high.value * 2 ^ bits + @] ELSE high

\* More than 31 bits are got in two fields, the lower portion last.
GetWhole(bits, pd) ==
  IF bits <= 31 THEN get_few_bits(pd, bits)
  ELSE GetLower(get_few_bits(pd, 31), bits - 31)

\* The bits may hold more than the type does.
UpTo(upper, got) ==
  IF got.ok /\ got.value > upper THEN Failure(got.pd) ELSE got

GetNumberBelow(td, pd) ==                              \* fault: off by one
  UpTo(td.upper - 1, GetWhole(td.bits, pd))

GetNumber(td, pd) == UpTo(td.upper, GetWhole(td.bits, pd))

\* The bit string as bytes.
GetStatus(pd) ==
  LET got == get_few_bits(pd, StatusBits)
  IN  [got EXCEPT !.value = << @ \div 256, @ % 256 >>]

\* The members that the bitmap says are present.
Present(td, bitmap) ==
  LET n == Len(Optionals(td))
      isPresent(m) ==
        m.optional => \E i \in 1 .. n : /\ Optionals(td)[i] = m
                                        /\ (bitmap \div 2 ^ (n - i)) % 2 = 1
  IN  SelectSeq(td.members, isPresent)

\* A bit per optional member, behind the one that announces extensions, which
\* no message has.
GetBitmap(td, ext) ==
  IF ext.ok /\ ext.value = 0 THEN get_few_bits(ext.pd, Len(Optionals(td)))
  ELSE Failure(ext.pd)

\* Each operator's result as a record: [ok, value, pd].
RECURSIVE Decode(_, _), DecodeAll(_, _)

\* As many elements as count says.
DecodeElements(td, count) ==
  IF ~count.ok THEN count
  ELSE DecodeAll([i \in 1 .. count.value + td.least |-> td.element], count.pd)

\* What the members that are present hold, by their names.
DecodeMembers(td, bitmap) ==
  LET present == Present(td, bitmap.value)
      got     == DecodeAll([i \in DOMAIN present |-> present[i].td], bitmap.pd)
      named(values) == [name \in {present[i].name : i \in DOMAIN present} |->
        values[CHOOSE i \in DOMAIN present : present[i].name = name]]
  IN  IF ~bitmap.ok THEN bitmap
      ELSE [got EXCEPT !.value = IF got.ok THEN named(@) ELSE @]

\* Values of the types tds one after the other.
DecodeAll(tds, pd) ==
  LET first == Decode(Head(tds), pd)
      rest  == DecodeAll(Tail(tds), first.pd)
  IN  IF tds = << >> THEN [ok |-> TRUE, value |-> << >>, pd |-> pd]
      ELSE IF ~first.ok THEN first
      ELSE [rest EXCEPT !.value = IF rest.ok THEN << first.value >> \o @ ELSE @]

Decode(td, pd) ==
  CASE td.kind = "number" -> GetNumber(td, pd)
    [] td.kind = "bits" -> GetStatus(pd)
    [] td.kind = "unused" -> Failure(pd)
    [] td.kind = "list" ->
         DecodeElements(td, get_few_bits(pd, td.bits))
    [] td.kind = "sequence" ->
         DecodeMembers(td, GetBitmap(td, get_few_bits(pd, IF td.extensible THEN 1
                                                                           ELSE 0)))

uper_decode(bytes, size) == Decode(SPATEM, StartInput(bytes, size))
=============================================================================
