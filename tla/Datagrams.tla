----------------------------- MODULE Datagrams ------------------------------
(***************************************************************************)
(* The frames as the bytes they are between the units: the road-side unit  *)
(* encodes a message when something changed and broadcasts the bytes until *)
(* the next; the on-board unit receives them into a buffer it never clears *)
(* and decodes what is in it.  A datagram may be lost and may be sent      *)
(* again.  Reception says what comes of it.                                *)
(***************************************************************************)
EXTENDS Integers, SequencesExt

CONSTANTS
  ToBytes(_),        \* the encoder's result for a message, no bytes when it fails
  FromBytes(_, _),   \* the decoder's for some bytes and the number it is told
  Contents,       \* what the loop may write into a message
  Memory,         \* what the fields that are never set may hold
  NumOfIntersections, SocketSize, CountCap, MaxFrames

VARIABLES
  signalGroup,   \* movementArray[0].signalGroup, of every intersection
  revision,      \* of each intersection
  messages,      \* the messages encoded so far
  datagrams,     \* the bytes of each; the last are in the buffer that is sent
  sent,          \* the last message sent
  alive,         \* the on-board process is running
  socket,        \* datagrams the kernel holds
  buffer,        \* the bytes received last, the rest is zero
  screen,        \* the message that is shown
  allocated      \* messages whose memory is not freed

roadsideVars  == <<signalGroup, revision, messages, datagrams, sent>>
onBoardVars   == <<alive, socket, buffer, screen, allocated>>
datagramsVars == <<roadsideVars, onBoardVars>>

ASSUME ContentsAssumption ==
  /\ Contents \subseteq [timeStamp : Nat, eventState : Nat, startTime : Nat,
                         minEndTime : Nat, maxEndTime : Nat]
  /\ NumOfIntersections \in 1 .. 4 /\ MaxFrames \in 0 .. 126
  /\ Memory \subseteq [signalGroup : Int,
                       revision : [1 .. NumOfIntersections -> Int]]

NoMessage == [header |-> << >>, spat |-> << >>]

-----------------------------------------------------------------------------
(* The road-side unit.                                                     *)

genHeader == [protocolVersion |-> 1, messageID |-> 4, stationID |-> 305419896]

\* "Inter 1" and so on, "Sample Movement".
interName(i) == << 73, 110, 116, 101, 114, 32, 48 + i >>
movementName ==
  << 83, 97, 109, 112, 108, 101, 32, 77, 111, 118, 101, 109, 101, 110, 116 >>

\* The revision is left as it is, and so is the signal group.
genIntersection(i, count, eventState, timing) ==
  [name |-> interName(i), id |-> [id |-> 4369 * i],
   revision |-> count, status |-> 2 * i,
   states |-> << [movementName |-> movementName, signalGroup |-> signalGroup,
                  state_time_speed |-> << [eventState |-> eventState,
                                           timing |-> timing] >>] >>]

getStateAndTime == [startTime |-> 10, minEndTime |-> 20, maxEndTime |-> 30]

\* One more modulo 127, with C's remainder of a negative number.
Count(n) == IF n + 1 >= 0 THEN (n + 1) % 127 ELSE -(-(n + 1) % 127)

\* The loop sets the first intersection only.
Message(counts, c) ==
  [header |-> genHeader,
   spat |-> [timeStamp |-> c.timeStamp,
             intersections |->
               [i \in 1 .. NumOfIntersections |->
                  IF i = 1
                  THEN genIntersection(1, counts[1], c.eventState,
                         [startTime |-> c.startTime, minEndTime |-> c.minEndTime,
                          maxEndTime |-> c.maxEndTime])
                  ELSE genIntersection(i, counts[i], 2, getStateAndTime)]]]

encodeBuffer ==
  /\ Len(messages) < MaxFrames
  /\ revision' = [revision EXCEPT ![1] = Count(@)]
  /\ \E c \in Contents :
       LET m == Message(revision', c)
       IN  /\ messages' = Append(messages, m)
           /\ datagrams' = Append(datagrams, ToBytes(m))
  /\ UNCHANGED <<signalGroup, sent, onBoardVars>>

\* The first message tick always encodes.  A datagram that is lost is one that
\* is not sent.
sendMessage ==
  /\ datagrams # << >>
  /\ socket' = IF alive /\ Len(socket) < SocketSize
               THEN Append(socket, Last(datagrams)) ELSE socket
  /\ sent' = IF Last(datagrams) = << >> THEN sent ELSE Len(datagrams)
  /\ UNCHANGED <<signalGroup, revision, messages, datagrams, alive, buffer, screen, allocated>>

-----------------------------------------------------------------------------
(* The on-board unit.                                                      *)

\* The decoder succeeds and there is a time stamp to print.
Readable(decoded) == decoded.ok /\ "timeStamp" \in DOMAIN decoded.value.spat

\* memset, decodeBuffer, printMessage and printDisplay for size bytes of the
\* buffer.  A message without a time stamp ends the process, and so does one
\* that cannot be decoded.
Show(bytes, size) ==
  LET decoded == FromBytes(bytes, size)
  IN  /\ alive' = Readable(decoded)
      /\ screen' = IF Readable(decoded) THEN decoded.value ELSE screen
      /\ allocated' = IF Readable(decoded) /\ allocated < CountCap
                      THEN allocated + 1 ELSE allocated

Overwritten(bytes) == bytes \o SubSeq(buffer, Len(bytes) + 1, Len(buffer))

receiveNewest ==                                        \* fault: last in, first out
  /\ alive /\ socket # << >>
  /\ socket' = Front(socket)
  /\ buffer' = Overwritten(Last(socket))
  /\ Show(Overwritten(Last(socket)), Len(Last(socket)))
  /\ UNCHANGED roadsideVars

receiveMessage ==
  /\ alive /\ socket # << >>
  /\ socket' = Tail(socket)
  /\ buffer' = Overwritten(Head(socket))
  /\ Show(Overwritten(Head(socket)), Len(Head(socket)))
  /\ UNCHANGED roadsideVars

\* The -1 of recvfrom() as a uint16_t.
AnySize == 65535

receiveFails ==
  /\ alive
  /\ Show(buffer, AnySize)
  /\ UNCHANGED <<roadsideVars, socket, buffer>>

DatagramsInit ==
  /\ \E m \in Memory : signalGroup = m.signalGroup /\ revision = m.revision
  /\ messages = << >> /\ datagrams = << >> /\ sent = 0
  /\ alive = TRUE /\ socket = << >> /\ buffer = << >>
  /\ screen = NoMessage /\ allocated = 0

DatagramsNext == encodeBuffer \/ sendMessage \/ receiveMessage \/ receiveFails

DatagramsSpec == DatagramsInit /\ [][DatagramsNext]_datagramsVars

-----------------------------------------------------------------------------
(* The bytes and the messages as the numbers of the messages encoded.      *)

\* The status that arrives has the full sixteen bits.
Delivered(m) ==
  LET full(i) == [m.spat.intersections[i] EXCEPT !.status = << @, 0 >>]
  IN  [m EXCEPT !.spat.intersections = [i \in DOMAIN @ |-> full(i)]]

\* Another number for what never was encoded.
NumberIn(seq, x) ==
  IF \E i \in DOMAIN seq : seq[i] = x THEN CHOOSE i \in DOMAIN seq : seq[i] = x
  ELSE MaxFrames + 1

ByteNumber(bytes) == IF bytes = << >> THEN 0 ELSE NumberIn(datagrams, bytes)

ScreenNumber ==
  IF screen = NoMessage THEN 0
  ELSE NumberIn([i \in DOMAIN messages |-> Delivered(messages[i])], screen)

Numbered == INSTANCE Reception
  WITH NoFrame <- 0,
       socket <- [i \in DOMAIN socket |-> ByteNumber(socket[i])],
       buffer <- ByteNumber(buffer),
       screen <- ScreenNumber

ASSUME NumberingAssumption == Numbered!Numbering

\* What one unit encodes is what the other decodes, all of it and nothing else,
\* whether it is told the number of bytes that came or 65535, and no message is
\* made of no bytes.  All that is encoded takes the same number of bytes, so
\* that nothing of an old message is left behind a new one in the buffer that
\* is never cleared (message.c:345-363, etsi-car message.c:371-383, udp.c:45-52).
RoundTrip ==
  /\ \A i \in DOMAIN datagrams : datagrams[i] \in Seq(0 .. 255)
  /\ \A i, j \in DOMAIN datagrams :
       datagrams[i] # << >> /\ datagrams[j] # << >> => Len(datagrams[i]) = Len(datagrams[j])
  /\ \A bytes \in {<< >>} \union {datagrams[i] : i \in DOMAIN datagrams} :
       \A size \in {0, Len(bytes), AnySize} :
         LET decoded == FromBytes(bytes, size)
         IN  IF bytes = << >> \/ size = 0 THEN ~Readable(decoded)
             ELSE /\ Readable(decoded)
                  /\ \A i \in DOMAIN datagrams :
                       datagrams[i] = bytes => decoded.value = Delivered(messages[i])

\* What is shown is a message that was encoded, whole and the one whose bytes
\* were received, wherever its fields lie in the bytes; only an empty datagram,
\* or a failed reception before the first message, ends the on-board unit.
ImplementsReception == Numbered!ReceptionSpec

\* The picture never goes back to an older message, neither when datagrams
\* wait, are lost or are repeated nor when a failed reception has the loop
\* decode whatever the buffer holds (etsi-car main.c:35-46, udp.c:45-52).
NeverBack == Numbered!NeverBack
=============================================================================
