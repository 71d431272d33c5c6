-------------------------------- MODULE V2I ---------------------------------
(***************************************************************************)
(* The two units and the network between them: what the road-side unit     *)
(* hands to sendto() arrives at the socket of the on-board unit, or is     *)
(* lost.  The network and the on-board unit are quick: a datagram that is  *)
(* not lost is on the screen before the clock moves on, and as frames      *)
(* leave a message period apart none overtakes another.  The road-side     *)
(* unit does not depend on the other: it is followed while the other runs. *)
(***************************************************************************)
EXTENDS TrafficLight, Sequences

CONSTANT MaxLosses   \* datagrams that may be lost in a row

VARIABLES
  alive, socket, buffer, screen, allocated,   \* of the on-board unit
  lost                                        \* datagrams lost in a row

obuVars == <<alive, socket, buffer, screen, allocated>>
v2iVars == <<vars, obuVars, lost>>

OBU == INSTANCE Receiver
         WITH NoFrame <- EmptyFrame, SocketSize <- 1, CountCap <- 1

ASSUME LossAssumption == MaxLosses \in Nat

V2IInit == Init /\ OBU!Init /\ lost = 0

-----------------------------------------------------------------------------
\* sendMessage(), and the datagram arrives.
Broadcast ==
  /\ alive /\ SendMessage
  /\ OBU!Arrive(frame)
  /\ lost' = 0

Lose ==
  /\ alive /\ SendMessage
  /\ lost < MaxLosses
  /\ lost' = lost + 1
  /\ UNCHANGED obuVars

\* Every other step of the road-side unit.
Quietly ==
  /\ alive
  /\ \/ Sample \/ Branch \/ EncodeMessage \/ NoMessage
     \/ Tick /\ socket = <<>>
     \/ pedestrianISR \/ emergencyISR \/ closeProg \/ SendFails
  /\ UNCHANGED <<obuVars, lost>>

OnBoard ==
  /\ OBU!Next
  /\ UNCHANGED <<vars, lost>>

V2INext == Broadcast \/ Lose \/ Quietly \/ OnBoard

V2ISpec == V2IInit /\ [][V2INext]_v2iVars

-----------------------------------------------------------------------------
\* The newest frame the car has: in the socket or on the screen.
Received == IF socket = <<>> THEN screen ELSE socket[Len(socket)]

\* Two frames shown one after the other that differ in what they say differ
\* in their revision too, although frames that are encoded and replaced
\* before they are sent use up revisions (main.c:142, 151-171).
RevisionTells ==
  [][ screen.encoded /\ screen'.encoded /\ screen.revision = screen'.revision
        => screen = screen' ]_v2iVars

\* What the lamps have shown for two message periods is known in the car:
\* one period until the change is encoded, one until it is sent
\* (main.c:146-173), and one more for every datagram lost in a row.  It is
\* about the moments when the lamps show currentState.  While a grant, or the
\* state after an emergency, waits for its display they do not, and the car
\* is told of what they do not show yet (SentIsShown).
CarCatchesUp ==
  LET period == MessagePeriod + MaxLag - 1
  IN  pc = "sample" /\ shown = currentState
        /\ Since(startTime) >= (2 + lost) * period
      => /\ Received.eventState = Code[shown]
         /\ Received.start = Mark(startTime)

\* No emergency ends before the car knows of it (main.c:85, 146-173), when
\* the datagrams lost in a row take less than its time.
EmergencyAnnounced ==
  [][ f_emergency /\ ~f_emergency'
        => Received.eventState = Code["EMERGENCY"] ]_v2iVars

-----------------------------------------------------------------------------
\* README.md:25: "The OBU receives the frame, decodes it, and displays the
\* result on OLED".  A datagram without a frame ends the on-board unit.
ReceivesFrames == \A i \in DOMAIN socket : socket[i].encoded
=============================================================================
