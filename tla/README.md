# A verification of TrafficLightV2I

The repository holds two C programs. The **road-side unit** (RSU,
`etsi-trafLight/`) drives the lamps of a traffic light from a loop that also
serves a pedestrian and an emergency button, and broadcasts what it shows as
SPATEM frames. The **on-board unit** (OBU, `etsi-car/`) of a car receives the
frames and draws them on a small OLED. These TLA+ modules model the loops of
both units, the interrupts, the frame and the network between them; TLC checks
them on small instances, and TLAPS proves part of what is checked for every value
of the constants.

## 1. Inventory

| component | source | state | operations | modelled in |
|---|---|---|---|---|
| RSU loop | `etsi-trafLight/src/main.c:46-178`, `inc/fsm.h` | `currentState`, `nextState`, `f_priority`, `f_emergency`, `f_pedestrianWaiting`, five time stamps, `waitTime`; `m_startTime`, `m_state` | enter and leave an emergency, blink, grant or keep a pedestrian's request, change phase, encode or send | `TrafficLight` |
| RSU buttons, lamps, SIGINT | `etsi-trafLight/src/fsm.c` | `pedestrianBtn`, `emergencyBtn`, two static times of the last press, three GPIO levels, the static of `emergencyState()` | `pedestrianISR`, `emergencyISR`, five state functions, `closeProg` | `TrafficLight` |
| RSU frame | `etsi-trafLight/src/message.c`, `inc/message.h` | the SPATEM structure, `buffer`, `bytes_enc` | fill in, count the revision, encode | `TrafficLight` (changing fields and the range check), `Datagrams` (the whole message) |
| UDP | `*/src/udp.c` | socket queue | `sendMessage`, `receiveMessage` | `V2I`, `Receiver`, `Datagrams` |
| OBU loop | `etsi-car/src/main.c`, `src/message.c` | `buffer`, `decSpatMessage` (and what it points to), the picture | receive, decode, print, draw | `Receiver`, `Reception`, `Datagrams`, `V2I` |
| time stamp and calendar | `getCurrTime` (RSU), `convertMinutesToCalendar` (OBU) | - | minutes of the year and back | `Calendar` |
| picture on the OLED | `etsi-car/src/display.c` | frame buffer, cursor | `printDisplay`, text, lines, panel commands | `Picture`: text only |
| ASN.1 codec | `*/asn1-source`, `*/asn1-header` | bits written and not yet handed on, position of the decoder | `uper_encode_to_buffer`, `uper_decode_complete` | `Per`, `Spatem`: what a message of this program needs; `BitStream`: the bits of any fields |
| asn1c | `*/asn1c-master` | - | - | no: vendored compiler |
| other files | `trafLight.c`, `car.c`, `etsi-car/src/fsm.c`, `display/`, `Test-Code/` | - | - | no: neither build compiles them; read for intent |

**How they interact.** The two interrupt threads share one flag each with the
loop, and nothing else. The loop reads a flag, decides, and clears it; a
request that cannot be granted yet moves to `f_pedestrianWaiting`, a grant to
`f_priority` and `currentState`, and one iteration later to the lamps. The
message branch at the end of every iteration reads `startTime` and
`currentState`, encodes when they changed and sends otherwise. The OBU shares
only datagrams with it, which may be lost and are never acknowledged.

**What is hard here.** Presses that fall between a read and its clear; a
grant or an emergency that is decided in one iteration and displayed in
another; a second event in between; five time stamps and a clock that wraps;
statics that survive the episode they belong to; a frame encoded at one tick
and sent at a later one; lost datagrams; failures whose results are ignored.
`PROJECT.json` lists each at its line under "hazards".

**What makes each component correct.**

* Loop and lamps: no display is replaced before its minimum time except by an
  emergency, none lasts longer than its time, displays follow each other in
  the order of the state functions, a request is neither dropped nor starved,
  an emergency starts, ends in time, is not prolonged and leaves the lamps soon, lamps never
  contradict each other.
* Frame: what is sent is what the loop is in at that moment; sending does not
  fall silent; a new content has a new revision.
* Both units: the car knows what the lamps show within two message periods,
  plus one for each lost datagram, unless another state already waits for its display; and
  it knows of every emergency before it ends.
* OBU: the picture never goes back; memory is bounded; a frame is shown.
* Codec: what is decoded is what was encoded, every field of it, wherever it
  lies in the bytes; a message that cannot be encoded is not half sent.
* Calendar: the date moves on by one day at midnight, and is today's.
* Picture: the eight lines are drawn whole, each on a row of its own.

## 2. Modules

* `TrafficLight` - the RSU. One iteration of the loop is three steps, because
  other threads and time can only be noticed where the loop reads something
  they write:
  - `"sample"`: `EnterEmergency`, `NoEmergency` (lines 68-82);
  - `"branch"`: `LeaveEmergency`, `Blink`, `YieldToPedestrian`,
    `KeepPedestrianWaiting`, `ChangePhase`, `NothingDue` (83-136);
  - `"message"`: `EncodeMessage`, `SendMessage`, `SendFails`, `NoMessage`
    (146-174).

  The environment is `Tick`, `pedestrianISR`, `emergencyISR`, `closeProg`.
  Variables keep their names. Three are different: `clock` is
  `millis() - firstTime`; `quiet[b]` is the time since the last accepted press
  of `b`, counted up to `debounceDelay + 1`, in place of the static time stamps; `shown` is
  a history variable, the state whose function last took the lamps.
  `frame` stands for `buffer` with `bytes_enc`.
* `Signal` - the abstract specification of the lamps: displays, a
  pending request, on or off; no clock, flags or loop.
* `TrafficSignal` - the refinement mapping from the first to the second.
* `TrafficLightProofs`, `SignalProofs`, `PhaseProofs` - theorems about
  `TrafficLight`: its invariant; the refinement; how long a phase lasts and how
  soon an emergency leaves the lamps.
* `Receiver` - the OBU: an iteration of its loop is `Receive` or
  `ReceiveFails`; `Arrive` is the kernel's side of the socket.
* `Reception` - what the OBU promises, fed with numbered frames, some lost or
  repeated, and with the empty datagrams the RSU sends when it cannot encode.
* `ReceptionProofs` - theorems about `Reception`.
* `Per` - the bits of the codec: `put_few_bits` with its 32 bytes of
  `tmpspace`, `get_few_bits`, and the flush at the end. A field that ends more than 31
  bits behind the beginning of its first byte is put by two calls, which the
  code makes of itself. Neither has to divide again, so they are an operator without
  that branch (`put_part`, `get_part`) and nothing is recursive.
* `BitStream` - the two ends of `Per` without the messages: `Put` is a call of
  `asn_put_few_bits` with any value and width, `HandOn` the final flush, `Get` a call
  of `asn_get_few_bits` with any width, wherever bits were put. `fields`, `bits` and `got`
  are history variables, the rest is the state of encoder and decoder.
* `BitStreamProofs` - theorems about `BitStream`.
* `Spatem` - the types of a message as descriptors, and the encoder and the
  decoder that walk through them: `uper_encode` and `uper_decode`.
* `Datagrams` - the two units again, with messages and bytes where `Reception`
  has numbers: `encodeBuffer`, `sendMessage`, `receiveMessage`, `receiveFails`.
  The codec is two constants, `ToBytes` and `FromBytes`, which the run `reception`
  sets to `uper_encode` and `uper_decode` of `Spatem`; `RoundTrip` is what the
  units rely on: what was encoded is read back, whatever follows it in the buffer.
  `Numbered` is the refinement mapping to `Reception`: bytes and decoded
  messages are given the number of the message they were made from.
* `DatagramsProofs` - that refinement, for every codec with `RoundTrip`.
* `V2I` - RSU, network and OBU: `Broadcast` and `Lose` are the two fates of
  the datagram of `SendMessage`.
* `V2IProofs` - theorems about `V2I`: when the car knows of a display, and what
  a revision tells it, and how long frames can be encoded.
* `Calendar` - the year, on both sides.
* `Picture` - what `printDisplay` draws of a frame, with the time stamps of
  `Calendar`, a character a step: a character is its line and its place in it.
* `CalendarProofs` - theorems about `Calendar`, and about the dates and the lines
  of `Picture`.
* `MCTrafficLight`, `MCV2I` - durations for TLC; `MCDatagrams` - messages,
  the codec of `Spatem`, and `PacksFields`, which is about its bits.

Operators marked "fault" in the modules are never used by a specification.
They are bugs that could plausibly be made at that place, kept to see that
each property notices one (section 4).

### Abstractions, and why they are sound

* **The cut into steps.** A press between the read of a flag and its clear (71
  and 76; 101 and 119) has the effect of one before the read: it is cleared with
  the one that was seen. The writes to the lamps inside one state function are
  one step: nothing in either program reads them, and a person sees the end.
  `currentTime` is read once per iteration, as in the code.
* **Time.** Units are arbitrary; the order of the durations is kept in the
  runs (minimum below maximum, yellow shortest, emergency longest). `usleep(1000)` and the length of
  an iteration are the bound `MaxLag`: the clock never runs further than this
  ahead of `currentTime`. The runs take it not larger than `debounceDelay`, because
  an iteration takes a few ms and the debounce is 50, and `roadside` takes a
  third of it. `PhaseBounded`, `EmergencyReleased` and `PedestrianServed` rest on
  that: with presses accepted in each iteration a grant would be renewed for
  ever and never displayed, and with a debounce of one or two iterations more
  often than the first two allow.
* **Arithmetic.** `Plus` and `Minus` are unsigned arithmetic modulo `Wrap`
  (2^32 in the code, 49 days). In the runs the clock wraps many times. The
  wrap of the debounce statics is left out: they are ages here, so one press in
  49 days may be accepted or rejected differently.
* **The frame.** Only fields that change are kept. `Encoding` includes the
  range check of the generated encoder for `TimeMark`, whose failure leaves
  `bytes_enc` 0. `timeStamp` is in `Calendar` and `Datagrams`. The first revision is
  any value the counter takes: `intersectionArray` comes from `malloc`. One
  that begins below zero is in `Datagrams`.
* **The message.** `Datagrams` has every field of the message and the bytes it
  becomes; for the content of a first frame they are the bytes the program
  sends. Optional members the program never sets are absent: their pointers,
  too, are in memory from `malloc`, and are taken to be null. The header's
  32-bit `stationID` has a value below 2^31, which is as far as TLC counts;
  the encoder splits it all the same. Of the time the loop takes only the
  order of encoding and sending is kept; what it writes into a message is any
  of a few contents, those at and beyond the ends of the fields' ranges. Types,
  extensions and fragmented lengths no such message has are left out of the
  decoder.
* **SIGINT** is delivered to the main thread; `closeProg` may come between
  any two steps. After a failed `sendto` the process exits with the lamps as
  they are.
* **Network and OBU** are prompt in `V2I`: a datagram that is not lost is on
  the screen before the clock moves on. At most `MaxLosses` datagrams are lost
  in a row. Frames leave one message period apart, and delays that large, duplicates
  and overtaking are not modelled. Queueing and failed receptions are in
  `Reception` and `Datagrams`. The RSU does not depend on the OBU and is followed only
  while it runs; in `Datagrams` it goes on.
* **Deadlock** is not checked: both programs can end (Ctrl-C, a failed
  `sendto`, a crash of the OBU), the year of `Calendar` does, and so does the datagram
of `BitStream`. That
  the loop goes on is `KeepsSending` and `GoesRound`.

## 3. Runs

| run | specification, bounds | shows |
|---|---|---|
| `roadside` | `Spec`, `ShortTime`, a debounce of three `MaxLag`, `Wrap` 20, 2 revisions | `TypeOK`; `EmergencyConsistent`, `EmergencyBounded`, `TruthfulFrame`, `LampsConsistent`, `PhaseBounded`, `EmergencyReleased`, `MinimumKept`, `RequestKept`; `ImplementsSignal`, every behaviour of the loop is one of `Signal`; and `Inductive`, the invariant of the proofs |
| `liveness` | `FairSpec`, `TinyTime`, `Wrap` 8 | `EmergencyEnds`, `EmergencyServed`, `PedestrianServed`, `GoesRound`; `KeepsSending`: presses cannot make every message tick encode and none send |
| `screen` | `V2ISpec`, `TinyTime`, `Wrap` 8, one loss in a row | `CarCatchesUp` and `EmergencyAnnounced` |
| `revision` | `V2ISpec`, `PeriodTime`, `Wrap` 5, time marks as fine as the clock, 6 revisions, no loss | `RevisionTells` |
| `reception` | `DatagramsSpec`, 3 messages, a queue of 2, `tmpspace` of 32 bytes as in the code, four choices of what memory held | `PacksFields`: the bytes are the fields' bits one after the other; `RoundTrip`: they are read back as what was encoded; `ImplementsReception`: what is shown is a message that was encoded, whole; `NeverBack` |
| `stream` | `StreamSpec`, three fields of 0, 1, 7 or 31 bits, four numbers of such widths, a `tmpspace` of 5 bytes that holds debris, a decoder told of up to 2 bytes too many | `Packed`: the datagram is the bits one after the other; `ReadBack`: the decoder gets them, whatever widths it asks for |
| `picture` | both kinds of year in steps of 1301 minutes, revisions of one to three digits | `DateAdvances`, `DateAssigned`, `PictureWhole` |

Bounds. `ShortTime` keeps the order of the code's durations and gives each
phase at least one tick before and after its minimum. `Wrap` 20 is above every bound a
property states, so differences are unambiguous, and every phase of the
cycle meets the wrap. `TinyTime` is the smallest table that keeps each minimum
positive and those of green and pedestrian below their maximum; liveness and
the two units are checked with it.
In the runs where no property is about the revision its modulus is 1 or 2, as
it would only multiply states. The messages of `reception` have 159 bytes, nearly
five times what fits `tmpspace`, and 234 fields at all kinds of offsets; three messages let one be
lost, one wait and one be shown. Its contents are the two ends of each range a
field has and one time mark beyond, its memory has a revision that begins below zero, one
that wraps, a signal group and a revision that cannot be encoded. In `stream` a
`tmpspace` of five bytes is the smallest that has room for one field at any offset, so that
two fields of 31 bits already overflow it with a byte half written, and 31 bits behind 1 or 7
force the division into two parts on either side. One value has all its bits, the other every
second one, both more bits than most fields, and the debris has both kinds. 1301 minutes are less than a day,
so every date of a year is drawn, and a prime number, so that the times differ.

`PeriodTime` is the shortest table that meets what the theorem
`RevisionsTellFrames` asks of the durations: green and a pedestrian last more than two message periods, an
emergency two, yellow and red one, the worst case for a counter that also counts
frames that are replaced before they are sent. Time marks are as fine as the clock
(`MarkUnit` 1), so the same state shown at another time is another frame.
With 6 values two different frames shown one after the other still differ in their
revision, with 5 they may not; the theorem, which does not ask an emergency to blink,
wants 7. The code has 127, so it is far from the limit when no datagram is lost. With
durations as short as the period the mere state would still be told apart, but no
longer its times: an emergency may be followed by another that is shown
with the same revision.

Runs that end in a counterexample, each against a sentence of the
documentation or the code (quoted in `PROJECT.json` under "findings"):

| run | property | what happens |
|---|---|---|
| `sent_state` | `SentIsShown` | press, grant, second press before the display: the request is renewed against the *pedestrian* minimum, and PEDESTRIAN is broadcast for seconds while the lamps stay on the phase before |
| `green_alone` | `GreenAlone` | after an emergency with an odd number of blinks the next lights red beside green |
| `hour` | `ReceivesFrames` | time marks run past the end of the hour, cannot be encoded, and an empty datagram goes out |
| `leak` | `NothingLeaks` | what `decodeBuffer` allocated is forgotten at the next message |
| `date` | `DateIsToday` | days are counted from 0 and printed as counted from 1 |

One more disagreement needs no run, as it is in a single assignment: `M_SET_STATE`
(`main.c:157`) puts the enumerator of `State` on the wire, where the comments of
`inc/fsm.h:24-28` name a `MovementPhaseState` for each state; the standard reads these
numbers differently (`ISO-19091.asn:1255`). `Code` in `TrafficLight` is what the program sends.

Five properties are deliberately about less than one might expect, because
that is what the code gives: `CarCatchesUp` leaves out the moments when the lamps do not
show `currentState`, because a grant or the state after an emergency waits for its display
and is already what the car is told (`sent_state` is about them);
`LampsConsistent` allows red beside green in an
emergency (`green_alone` shows why), `PhaseBounded` allows a phase to last up to
the pedestrian minimum (`sent_state`), `RequestKept` lets an emergency drop a grant, and
`EmergencyReleased` allows the wait of a phase after an emergency, because
`stateLastTime = 0` (line 89) is not "long ago" just after the clock wrapped. The
five iterations it allows beyond that are those that find the emergency over,
grant, and renew the grant once before it is displayed, before the wrap and
again after it.

### Fairness

`FairSpec` assumes that the loop goes on (`WF(Loop)`: it has no blocking call
but `usleep`, and whichever step is enabled stays enabled until it is taken)
and that time passes (`WF(Tick)`, which holds back only while the loop is
`MaxLag` behind). Nothing is assumed of presses, Ctrl-C or failures of
`sendto`, so every liveness property has to hold without them and with any number of
them; `Exited` is the way out when the process ends.

## 4. Every property can fail

For each property of each passing run `PROJECT.json` names one fault operator
("mutants"). With the fault in place of the definition the run finds the
property violated: a clock that does not wrap, an emergency that counts from
its last blink, a frame not encoded again when only the time changed, lamps not
cleared, a request that forgets it waits, `>` for `>=` in the message tick, and so on.

## 5. Theorems

`TrafficLightProofs` proves, for every value of the constants that satisfies
`DurationsAssumption` and `FrameAssumption` (any durations, word size, debounce,
message period, offsets):

* `TypeCorrect` - `Spec => []TypeOK`;
* `Invariance` - `Spec => []Inductive`;
* `EmergencyIsConsistent`, `EmergencyIsBounded`, `LampsAreConsistent`,
  `FrameIsTruthful` - the invariants of the run `roadside` of these names;
* `RequestIsKept` - the action property `RequestKept`.

Argument. `TypeOK` is inductive by itself; it needs that `Plus`, `Minus` and
`%` stay in range. The others are not: `EmergencyBounded` only holds because
the time stamp the loop tests (`stateLastTime`) is the one the property measures
from (`startTime`) as long as an emergency lasts, and `TruthfulFrame` speaks
of the moment of sending while the frame was made earlier. `Inductive` adds
what they need: `EmergencyRemembered`, and `FrameDescribes` (an encoded frame
describes `m_state` and `m_startTime`, whatever the loop is in by now). Each
action preserves `TypeOK /\ Inductive`: one lemma for the steps of the loop's phases, one for
the frame. `RequestIsKept` needs `EmergencyConsistent` to know that the only
state that may be entered with `f_priority` set is the pedestrian's.

`SignalProofs` proves `SignalIsImplemented`: `Spec => ImplementsSignal` under
`BlinksInTime`, `BlinkPeriod + MaxLag <= Time["EMERGENCY"]` (500 ms, a few ms
and 12 s). The mapping needs that what is displayed next follows what is displayed
now (`NextFollows`) and that a grant still means a pedestrian or was overtaken
by an emergency (`GrantMeant`). Both hinge on one thing: the display after an
emergency is green because its first blink makes it so, and so the first blink has to
come before the end (`BlinksFirst`), for any phase of a clock that wraps. That
follows from the static time of the last blink being 0 at the start of every emergency
(`BlinkForgotten`) and a clock no more than `MaxLag` ahead (`LagBounded`).

`ReceptionProofs` proves `PictureNeverGoesBack`: `NeverBack` of `Reception` for
every queue and number of frames that `Numbering` allows (frames are numbered
from 1). The invariant `OrderKept` says that what waits lies, in order,
between what is shown and what was sent last, the empty datagrams left out, and that
the buffer holds what is shown.

`DatagramsProofs` takes that to the bytes. `DatagramsImplementReception` and
`ScreenNeverGoesBack` are `ImplementsReception` and `NeverBack` for every number of
messages below the range of the revision, every queue, everything the loop may write
into a message, everything the buffer may have held, and every codec, with the
premise `[]RoundTrip`. What the program's own codec makes of that premise is the
run's part: it is recursive and out of the prover's reach. Two things make the
refinement true and are the invariant: the revision of a message is its number,
so that the number can be read from what was decoded (`Numbered`), and bytes that wait or were
read last are those of a message that was encoded, the failed encodings being the empty
datagram. A message of which one field comes back wrong would have no number, and
the mapped state would be none of `Reception`.

`PhaseProofs` proves `PhasesAreBounded` and `MinimumIsKept` under
`ShortIterations`: a debounce of three `MaxLag`, minimum times not above the
times, and a word that has room for a phase and three iterations. While a phase
is on the lamps its stamps agree (`PhaseTimed`), but a grant may be on its way to
the lamps and a press may renew it. The invariant `PhaseAged` says how old the
phase may be in each stage, and how long ago the last press was accepted: a press
that renews a grant came within an iteration of the grant, so the debounce rejects the
next one until the display. A lower debounce would need a larger bound.

The second half of `PhaseProofs` proves `EmergencyIsReleased` with the same reasoning on the way from
the end of an emergency to the next display, under `RoomForRelease`: in addition the
word has room for an emergency, the longest wait and six iterations. Each stage
is either shortly after the end of the emergency, or the clock has wrapped since and
`currentTime` is at most the wait (`Late`).

`V2IProofs` proves `CarIsToldInTime` (that is `CarCatchesUp`, with its limit) and `EmergencyIsAnnounced` for every number
of losses in a row, when the word (and, for the second, an emergency) is as long as the
time the car may take. Both have a premise, `[]Encodes`: no frame has failed to be
encoded, which the run `hour` shows does not last for ever. `FramesFitTheHour` says
how long it lasts: as long as what is left of the hour in which the process was started
is longer than each state lasts (`WithinTheHour`; the hour has to be shorter than the
word, 3.6 million against 2^32, and minimum times not above the times). Its invariant is
that `startTime`, `currentTime` and `clock` stay in this order, as there is no wrap
yet. `CarIsServedWithinTheHour` puts both together: until then no empty datagram
waits for the car, and it is told in time. The invariant of the first two counts
message ticks: what is not encoded yet is no older than the last tick
(`TellsInTime`), and each tick since then has encoded it or lost it. It also needs that
the buffer of the OBU holds what is drawn, and that a datagram is only dropped at a
full socket when the one that waits says the same (`Waiting`).

`RevisionsTellFrames` is `RevisionTells` under the same premise, for every range of
the revision above `6 * (1 + MaxLosses)`: with the 127 values of the code, twenty losses in
a row. It also assumes that green (its minimum included), the pedestrian's phase and an emergency last
two message periods and more (4 s at least, against 1 s for the period); yellow and red may be as
short as they like. Each encoding uses up a revision and the next one may replace its
frame before it is sent, so the question is how many encodings fit between two
frames that are sent. A display or a grant is encoded once, hence the invariant (`Counting`) orders
what may happen without a lasting display in between - an emergency ends, yellow, red, a grant, green or the pedestrian,
the next emergency - and `Place` says how far the loop has come, `Used` how many
encodings that took. When a lasting display ends, its frame has been sent or lost
(`Unsent`), and the count begins again; each loss adds six. `SocketTells` then
carries it past the queue.

`CalendarProofs` proves `DateIsAssigned` and `DateFollowsDate` for every step of
the wall clock up to a day, and `PictureIsDated`, the same of the pictures. The
loop over the months is a recursive function; that the table of its sums solves the same
equation determines it, and then the month of a day is found by
comparing with the table. The first day of the year and the 366th need a look of
their own. `PictureIsWhole` is `PictureWhole` for every frame and every step of the clock,
under `NameFits`, a name of at most 15 characters (the road-side unit sends "Inter 1" to
"Inter 4"): `printDisplay` has fixed lines and checks nothing. Its invariant says that
the panel holds the lines above the one being drawn, the characters of that one up to
the cursor, and nothing else.

`BitStreamProofs` proves `StreamIsPacked` and `StreamIsReadBack` - `Packed` and `ReadBack`
for every sequence of fields, every `tmpspace` of more than four bytes and
everything it may have held. Its assumption is `FieldsAssumption`: a field has at most 31 bits, which
is what `asn_put_few_bits` accepts (0 to 31), and a value too. The code is given words of 32 bits
whose top bit a field of 31 bits cuts off; `Low` does not, as `2 ^ 31` is more than TLC counts.

The invariant (`StreamInv`) names the place of every bit. `Written`: the
position of the encoder, handed-on bytes included, is the number of bits put so far, and each of these
is where its number says, in a byte that was handed on or in one of `tmpspace`. What lies
behind the position is anything, because `tmpspace` is never cleared. `Normalise` and `Flush` do not move a
bit (`NormaliseWritten`, `FlushWritten`: the one byte begun is copied to the front),
and `Store` leaves the bits before the position alone and puts the new ones
behind it (`StoreWritten`, byte by byte in `FieldBits` and `KeptInFront`). The
datagram then `Shows` the bits, and a decoder that `Reads` it at a position adds up, from up to four
bytes, the number they stand for (`SumStep`, `ExtractTaken`); `BitsLeft` is why it does not
fail. Beneath are facts of arithmetic: powers of two, quotients of quotients, and
that a number is determined by its bits (`SameBits`). The prover has no induction to use with a formula
of one's own, so each of these looks at the least number for which it
would be false (`LeastNatural`, from the library's theorem on well-founded relations).

Only model-checked: all liveness (beyond this prover under fairness), and `PacksFields`
and `RoundTrip`, which are about what the recursive walk through the types of a
message makes of these bits. The latter is the premise of the theorems of
`DatagramsProofs`. The bits themselves are proved in `BitStreamProofs`; what is left to the run is
that encoder and decoder ask for the same widths in the same order, which would take induction
over the types.

## 6. Not modelled

* Of the ASN.1 codec: the types and features no message of this program uses,
  and the BER, OER, XER and printing halves, which are generated along and never called.
  They are most of the directories `asn1-source` and `asn1-header`; a model of
  what never runs would show nothing about the units. The compiler `asn1c` is
  vendored, complete with its tests, and not part of the running system.
* Start-up: sockets, pins, OLED, failing `malloc`, and the constraint check of `messageInit`.
  The generated check returns with the first member that has no constraints of its own, so
  it looks at the names of the intersections and at the protocol version only, which are constants.
* A restart of either unit. The RSU begins again with other memory and its OBU cannot tell;
  an OBU that comes late is one to which the first datagrams were lost.
* Datagrams that overtake each other. Nothing in the OBU would notice (no sequence
  number, no clock), so `NeverBack` would simply not hold.
* `printMessage` on either side, except that it crashes the OBU when there is no `timeStamp`.
* Pixels, glyphs and panel commands of the OLED library (what the panel makes of a
  command of which a byte is lost is decided by its controller), and the lines and
  rectangles it can draw but nobody asks for. Drawing has no influence on anything else.
* Files neither build compiles.

## 7. Plan

Done, in this order: `TrafficLight`; `Signal` and the refinement; its first
proofs; `Receiver`, `Reception`, `V2I`; `Calendar`, `Picture`; `Per`, `Spatem`,
`Datagrams` and the refinement of `Reception`; `BitStream`; the proofs of `ImplementsSignal`,
of `NeverBack`, of the dates, of the bounds on phases and emergencies, of what
the car knows, of the pictures, of the datagrams for any codec that returns what it
was given, of what a revision tells, and of the bits of the codec.

Worth doing next:

1. `Oled`: the frame buffer of the library, its fast horizontal and vertical
   lines against a reference that sets single pixels, once a unit draws lines.
2. A network that delays and reorders, once a receiver looks at the revision.
