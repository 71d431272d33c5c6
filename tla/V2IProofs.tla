------------------------------ MODULE V2IProofs ------------------------------
(***************************************************************************)
(* What the car knows of the lamps: a display that has been on for two     *)
(* message periods, and one more for each datagram lost in a row, is known *)
(* in the car, and an emergency is known before it ends.  The argument     *)
(* counts message ticks: the first after a change encodes it, the next     *)
(* sends it.  It rests on every frame being encoded (until the hour is     *)
(* over, see FramesFitTheHour) and on a word that is longer than the       *)
(* longest time the car may take.                                          *)
(*                                                                         *)
(* And what it may conclude from the revision: that two frames it shows    *)
(* one after the other with the same revision are the same.  The argument  *)
(* counts the encodings since the frame the car received last.             *)
(***************************************************************************)
EXTENDS V2I, PhaseProofs

\* The longest time between two message ticks.
Period == MessagePeriod + MaxLag - 1

RoomForLosses == (2 + MaxLosses) * Period < Wrap

\* No frame has failed to be encoded.
Encodes == m_state \in State => frame.encoded

-----------------------------------------------------------------------------
(* The invariant.                                                          *)

TickAge == Since(messageLastTime)

\* No tick is left out.
TicksKept ==
  Running => TickAge <= IF pc = "sample" THEN MessagePeriod - 1 ELSE Period

\* A pedestrian on the lamps is what the loop takes for its state.
PedestrianMeant == shown = "PEDESTRIAN" => currentState = "PEDESTRIAN"

Told == /\ Received.eventState = Code[currentState]
        /\ Received.start = Mark(startTime)

\* Ticks that may have passed before the car knows: one that encodes, and
\* the ones whose datagrams are lost.
Allowed(n) == (1 + n) * Period

TellsInTime ==
  Running /\ shown = currentState /\ ~Told =>
    IF Described THEN Age <= TickAge + Allowed(lost)
                 ELSE Age <= TickAge

\* The buffer holds what is drawn, and a datagram waits for the car only while
\* the clock stands still: by then the loop has had at most one tick.
UpToDate == messageLastTime = currentTime /\ currentTime = clock
Waiting ==
  /\ buffer = screen /\ lost \in 0 .. MaxLosses
  /\ socket # <<>> =>
       /\ socket = <<socket[1]>> /\ socket[1].encoded
       /\ socket[1] = frame \/ UpToDate
       /\ pc \in {"branch", "message"} => currentTime = clock

Telling ==
  /\ TypeOK /\ Inductive /\ LagBounded
  /\ TicksKept /\ PedestrianMeant /\ TellsInTime /\ Waiting

-----------------------------------------------------------------------------
(* What the assumptions say, as numbers.                                   *)

LEMMA PeriodNumbers ==
  /\ MessagePeriod \in Nat \ {0} /\ MaxLag \in Nat \ {0} /\ MaxLosses \in Nat
  /\ Wrap \in Nat /\ Period \in Nat \ {0} /\ MessagePeriod <= Period
  /\ Period = MessagePeriod - 1 + MaxLag
BY DurationsAssumption, LossAssumption DEF Period

LEMMA AllowedGrows ==
  ASSUME RoomForLosses, NEW n \in 0 .. MaxLosses
  PROVE  /\ Allowed(n) \in Nat /\ Period <= Allowed(n)
         /\ Allowed(n + 1) = Allowed(n) + Period
         /\ (2 + n) * Period = Allowed(n) + Period
         /\ Allowed(n) + Period <= (2 + MaxLosses) * Period
<1> DEFINE P == Period
<1>1. P \in Nat /\ MaxLosses \in Nat /\ n \in Nat
  BY PeriodNumbers
<1>2. Allowed(n) = (1 + n) * P /\ Allowed(n + 1) = (1 + (n + 1)) * P
  BY DEF Allowed
<1> HIDE DEF P
<1>3. (1 + n) * P = P + n * P /\ (2 + n) * P = (1 + n) * P + P /\ n * P \in Nat
      /\ (1 + (n + 1)) * P = (1 + n) * P + P
  BY <1>1
<1>4. n * P <= MaxLosses * P
  <2>1. PICK k \in Nat : MaxLosses = n + k
    <3>1. MaxLosses - n \in Nat /\ MaxLosses = n + (MaxLosses - n)
      BY <1>1
    <3> QED BY <3>1
  <2>2. MaxLosses * P = n * P + k * P /\ k * P \in Nat
    BY <1>1, <2>1
  <2> QED
    BY <1>3, <2>2
<1>5. (2 + MaxLosses) * P = P + P + MaxLosses * P /\ MaxLosses * P \in Nat
  BY <1>1
<1>6. (1 + n) * P \in Nat /\ P <= (1 + n) * P
      /\ (1 + n) * P + P <= (2 + MaxLosses) * P
  BY <1>1, <1>3, <1>4, <1>5
<1> QED
  BY <1>2, <1>3, <1>6 DEF P

\* The differences the invariant speaks of.
LEMMA TellingNumbers ==
  ASSUME RoomForLosses, Telling
  PROVE  /\ Age \in Nat /\ Lag \in Nat /\ Lag <= MaxLag /\ TickAge \in Nat
         /\ Allowed(lost) \in Nat /\ Period <= Allowed(lost)
         /\ Allowed(lost) + Period < Wrap
         /\ clock \in Clock /\ currentTime \in Clock /\ startTime \in Clock
         /\ messageLastTime \in Clock
<1>1. /\ Age \in Nat /\ Lag \in Nat /\ messageLastTime \in Clock
      /\ clock \in Clock /\ currentTime \in Clock /\ startTime \in Clock
  BY TimeNumbers DEF Telling, TypeOK
<1>2. TickAge \in Nat
  BY <1>1, MinusClock DEF TickAge, Since, Clock
<1>3. /\ Allowed(lost) \in Nat /\ Period <= Allowed(lost)
      /\ Allowed(lost) + Period <= (2 + MaxLosses) * Period
  BY AllowedGrows DEF Telling, Waiting
<1>4. (2 + MaxLosses) * Period < Wrap /\ (2 + MaxLosses) * Period \in Nat
      /\ Wrap \in Nat /\ Period \in Nat
  BY PeriodNumbers DEF RoomForLosses
<1>5. Allowed(lost) + Period < Wrap
  BY <1>3, <1>4
<1> QED
  BY <1>1, <1>2, <1>3, <1>5 DEF Telling, LagBounded, Lag

-----------------------------------------------------------------------------
(* Each step keeps the invariant.                                          *)

LEMMA InitTelling == V2IInit => Telling
<1> SUFFICES ASSUME V2IInit PROVE Telling
  OBVIOUS
<1>1. TypeOK /\ Inductive /\ LagBounded
  BY InitType, InitInductive, InitLag DEF V2IInit
<1>2. TickAge = 0 /\ Age = 0 /\ shown # currentState /\ shown # "PEDESTRIAN"
      /\ pc = "sample"
  BY DEF V2IInit, Init, TickAge, Age, Since, Minus
<1>3. TicksKept
  BY <1>2, PeriodNumbers DEF TicksKept
<1>4. Waiting
  BY LossAssumption DEF V2IInit, OBU!Init, Waiting
<1> QED
  BY <1>1, <1>2, <1>3, <1>4 DEF Telling, PedestrianMeant, TellsInTime

\* A step that leaves the loop's phases and ticks alone.
LEMMA StandsStill ==
  ASSUME Telling, Received' = Received,
         UNCHANGED <<currentTime, miliSecOfHour, startTime, currentState, shown,
                     messageLastTime, m_startTime, m_state, lost>>,
         \/ pc' = pc \/ pc' = "exited"
         \/ pc = "branch" /\ pc' = "message"
  PROVE  TicksKept' /\ PedestrianMeant' /\ TellsInTime'
<1>1. Age' = Age /\ TickAge' = TickAge /\ Told' = Told /\ Described' = Described
      /\ Allowed(lost)' = Allowed(lost)
  BY DEF Age, TickAge, Since, Told, Described, Mark, Allowed
<1>2. Running' => Running /\ (pc' = "sample" <=> pc = "sample")
  BY DEF Running
<1>3. TicksKept'
  BY <1>1, <1>2 DEF Telling, TicksKept
<1>4. PedestrianMeant'
  BY DEF Telling, PedestrianMeant
<1>5. TellsInTime'
  BY <1>1, <1>2 DEF Telling, TellsInTime
<1> QED
  BY <1>3, <1>4, <1>5

LEMMA EnvironmentTelling ==
  ASSUME Telling, UNCHANGED <<obuVars, lost>>,
         \/ Tick /\ socket = <<>>
         \/ pedestrianISR \/ emergencyISR \/ closeProg \/ SendFails
  PROVE  TicksKept' /\ PedestrianMeant' /\ TellsInTime' /\ Waiting'
<1>1. Received' = Received
  BY DEF obuVars, Received
<1>2. /\ UNCHANGED <<currentTime, miliSecOfHour, startTime, currentState, shown,
                     messageLastTime, m_startTime, m_state, frame>>
      /\ pc' = pc \/ pc' = "exited"
  BY DEF Tick, pedestrianISR, emergencyISR, Accepted, closeProg, SendFails,
     AtMessage, phaseVars, frameVars
<1>3. TicksKept' /\ PedestrianMeant' /\ TellsInTime'
  BY <1>1, <1>2, StandsStill
<1>4. socket # <<>> => clock' = clock
  BY DEF pedestrianISR, emergencyISR, Accepted, closeProg, SendFails, AtMessage
<1>5. Waiting'
  BY <1>1, <1>2, <1>4 DEF Telling, Waiting, UpToDate, obuVars
<1> QED
  BY <1>3, <1>5

\* The loop reads the clock.
LEMMA SampleTelling ==
  ASSUME RoomForLosses, Telling, UNCHANGED <<obuVars, lost>>, Sample
  PROVE  TicksKept' /\ PedestrianMeant' /\ TellsInTime' /\ Waiting'
<1>1. /\ Age \in Nat /\ Lag \in Nat /\ Lag <= MaxLag /\ TickAge \in Nat
      /\ Allowed(lost) \in Nat /\ Period <= Allowed(lost)
      /\ Allowed(lost) + Period < Wrap
      /\ clock \in Clock /\ currentTime \in Clock /\ startTime \in Clock
      /\ messageLastTime \in Clock
  BY TellingNumbers
<1>2. /\ MessagePeriod \in Nat \ {0} /\ MaxLag \in Nat \ {0} /\ Period \in Nat
      /\ Period = MessagePeriod - 1 + MaxLag /\ Wrap \in Nat
  BY PeriodNumbers
<1>3. /\ pc = "sample" /\ pc' = "branch" /\ currentTime' = clock
      /\ UNCHANGED <<clock, miliSecOfHour, frameVars>> /\ Running /\ Running'
      /\ Received' = Received
  BY DEF Sample, EnterEmergency, NoEmergency, AtSample, Running, Received, obuVars
<1>4. TickAge <= MessagePeriod - 1
  BY <1>3 DEF Telling, TicksKept
<1>5. TickAge' = TickAge + Lag
  <2>1. TickAge + Lag < Wrap
    BY <1>1, <1>2, <1>4
  <2>2. Minus(clock, messageLastTime) = TickAge + Lag
    BY <1>1, <2>1, MinusAdds DEF TickAge, Since, Lag
  <2> QED
    BY <1>3, <2>2 DEF TickAge, Since, frameVars
<1>6. TicksKept'
  <2>1. TickAge' <= Period
    BY <1>1, <1>2, <1>4, <1>5
  <2>2. Period' = Period
    BY DEF Period
  <2> QED
    BY <1>3, <2>1, <2>2 DEF TicksKept
<1>7. Waiting'
  BY <1>3 DEF Telling, Waiting, UpToDate, obuVars, frameVars
<1>8. CASE EnterEmergency
  <2>1. shown' = "EMERGENCY" /\ startTime' = currentTime'
    BY <1>8 DEF EnterEmergency
  <2>2. Age' = 0
    BY <1>1, <1>3, <2>1 DEF Age, Since, Minus, Clock
  <2>3. Age' <= TickAge' /\ Age' <= TickAge' + Allowed(lost)'
    <3>1. Allowed(lost)' = Allowed(lost)
      BY DEF Allowed
    <3> QED
      BY <1>1, <1>5, <2>2, <3>1
  <2> QED
    BY <1>6, <1>7, <2>1, <2>3 DEF PedestrianMeant, TellsInTime
<1>9. CASE NoEmergency
  <2>1. UNCHANGED <<startTime, currentState, shown, m_startTime, m_state>>
    BY <1>3, <1>9 DEF NoEmergency, phaseVars, frameVars
  <2>2. Told' = Told /\ Described' = Described /\ Allowed(lost)' = Allowed(lost)
    BY <1>3, <2>1 DEF Told, Described, Mark, Allowed
  <2>3. ASSUME shown = currentState, ~Told
        PROVE  Age' = Age + Lag
               /\ (IF Described THEN Age <= TickAge + Allowed(lost) ELSE Age <= TickAge)
    <3>1. IF Described THEN Age <= TickAge + Allowed(lost) ELSE Age <= TickAge
      BY <1>3, <2>3 DEF Telling, TellsInTime
    <3>2. Age <= TickAge + Allowed(lost)
      BY <1>1, <3>1
    <3>3. Age + Lag < Wrap
      BY <1>1, <1>2, <1>4, <3>2
    <3>4. Minus(clock, startTime) = Age + Lag
      BY <1>1, <3>3, MinusAdds DEF Age, Since, Lag
    <3> QED
      BY <1>3, <2>1, <3>1, <3>4 DEF Age, Since
  <2>4. TellsInTime'
    <3> SUFFICES ASSUME shown = currentState, ~Told
                 PROVE  IF Described THEN Age' <= TickAge' + Allowed(lost)
                                     ELSE Age' <= TickAge'
      BY <2>1, <2>2 DEF TellsInTime
    <3> QED
      BY <1>1, <1>5, <2>3
  <2> QED
    BY <1>6, <1>7, <2>1, <2>4 DEF Telling, PedestrianMeant
<1> QED
  BY <1>8, <1>9 DEF Sample

\* The loop decides.  What the lamps show and what the loop is in only come
\* to agree when both are set, and then startTime is now.
LEMMA BranchTelling ==
  ASSUME RoomForLosses, Telling, UNCHANGED <<obuVars, lost>>, Branch
  PROVE  TicksKept' /\ PedestrianMeant' /\ TellsInTime' /\ Waiting'
<1>1. /\ pc = "branch" /\ pc' = "message" /\ Received' = Received
      /\ UNCHANGED <<clock, currentTime, miliSecOfHour, frameVars>>
  BY DEF Branch, LeaveEmergency, Blink, YieldToPedestrian, KeepPedestrianWaiting,
     ChangePhase, NothingDue, AtBranch, Received, obuVars
<1>2. Waiting'
  BY <1>1 DEF Telling, Waiting, UpToDate, obuVars, frameVars
<1>3. CASE UNCHANGED <<startTime, currentState, shown>>
  BY <1>1, <1>2, <1>3, StandsStill DEF frameVars
<1>4. CASE LeaveEmergency \/ (YieldToPedestrian /\ shown # "PEDESTRIAN")
  <2>1. shown' # currentState' /\ shown' # "PEDESTRIAN"
    BY <1>4 DEF LeaveEmergency, YieldToPedestrian, Telling, Inductive,
       EmergencyConsistent, EmergencyRemembered
  <2>2. TickAge' = TickAge /\ Running
    BY <1>1 DEF TickAge, Since, frameVars, Running
  <2>3. TicksKept'
    BY <1>1, <2>2 DEF Telling, TicksKept
  <2> QED
    BY <1>2, <2>1, <2>3 DEF PedestrianMeant, TellsInTime
<1>5. CASE ChangePhase
  <2>1. shown' = currentState' /\ startTime' = currentTime
    BY <1>5 DEF ChangePhase
  <2>2. TickAge' = TickAge /\ Running /\ Allowed(lost)' = Allowed(lost)
    BY <1>1 DEF TickAge, Since, frameVars, Running, Allowed
  <2>3. TicksKept'
    BY <1>1, <2>2 DEF Telling, TicksKept
  <2>4. Age' = 0
    BY <1>1, <2>1, TellingNumbers DEF Age, Since, Minus, Clock
  <2>5. Age' <= TickAge' /\ Age' <= TickAge' + Allowed(lost)'
    BY <2>2, <2>4, TellingNumbers
  <2> QED
    BY <1>2, <2>1, <2>3, <2>5 DEF PedestrianMeant, TellsInTime
<1>6. CASE Blink \/ KeepPedestrianWaiting \/ NothingDue
  BY <1>3, <1>6 DEF Blink, KeepPedestrianWaiting, NothingDue, phaseVars
<1>7. CASE YieldToPedestrian /\ shown = "PEDESTRIAN"
  BY <1>3, <1>7 DEF YieldToPedestrian, Telling, PedestrianMeant
<1> QED
  BY <1>4, <1>5, <1>6, <1>7 DEF Branch

\* A tick that encodes, or none.
LEMMA EncodeTelling ==
  ASSUME RoomForLosses, Telling, UNCHANGED <<obuVars, lost>>,
         EncodeMessage \/ NoMessage
  PROVE  TicksKept' /\ PedestrianMeant' /\ TellsInTime' /\ Waiting'
<1>1. /\ pc = "message" /\ pc' = "sample" /\ Received' = Received
      /\ UNCHANGED <<clock, currentTime, miliSecOfHour, phaseVars>>
      /\ Running /\ Running'
  BY DEF EncodeMessage, NoMessage, AtMessage, Running, Received, obuVars
<1>2. /\ Age \in Nat /\ TickAge \in Nat /\ Allowed(lost) \in Nat
      /\ Period <= Allowed(lost) /\ currentTime \in Clock
  BY TellingNumbers
<1>3. MessagePeriod \in Nat \ {0} /\ Period \in Nat
  BY PeriodNumbers
<1>4. TickAge <= Period
  BY <1>1 DEF Telling, TicksKept
<1>5. Age' = Age /\ Told' = Told /\ Allowed(lost)' = Allowed(lost)
      /\ PedestrianMeant'
  BY <1>1 DEF Age, Since, Told, Mark, Allowed, phaseVars, Telling, PedestrianMeant
<1>6. CASE NoMessage
  <2>1. UNCHANGED frameVars /\ ~(TickAge >= MessagePeriod)
    BY <1>6 DEF NoMessage, MessageDue, TickAge
  <2>2. TickAge' = TickAge /\ Described' = Described
    BY <1>1, <2>1 DEF TickAge, Since, Described, frameVars, phaseVars
  <2>3. TickAge' <= MessagePeriod - 1
    BY <1>2, <1>3, <2>1, <2>2
  <2>4. TicksKept' /\ TellsInTime'
    BY <1>1, <1>5, <2>2, <2>3 DEF Telling, TicksKept, TellsInTime, phaseVars
  <2>5. Waiting'
    BY <1>1, <2>1 DEF Telling, Waiting, UpToDate, obuVars, frameVars
  <2> QED BY <1>5, <2>4, <2>5
<1>7. CASE EncodeMessage
  <2>1. /\ m_startTime' = startTime /\ m_state' = currentState /\ ~Described
        /\ messageLastTime' = currentTime
    BY <1>7 DEF EncodeMessage
  <2>2. TickAge' = 0 /\ Described'
    BY <1>1, <1>2, <2>1 DEF TickAge, Since, Minus, Clock, Described, phaseVars
  <2>3. TicksKept'
    BY <1>1, <1>3, <2>2 DEF TicksKept
  <2>4. TellsInTime'
    <3> SUFFICES ASSUME shown = currentState, ~Told
                 PROVE  Age <= TickAge' + Allowed(lost)
      BY <1>1, <1>5, <2>2 DEF TellsInTime, phaseVars
    <3>1. Age <= TickAge
      BY <1>1, <2>1 DEF Telling, TellsInTime
    <3> QED
      BY <1>2, <1>3, <1>4, <2>2, <3>1
  <2>5. Waiting'
    BY <1>1, <2>1 DEF Telling, Waiting, UpToDate, obuVars
  <2> QED BY <1>5, <2>3, <2>4, <2>5
<1> QED BY <1>6, <1>7

\* At a tick some time has passed since the last.
LEMMA TickNotUpToDate ==
  ASSUME RoomForLosses, Telling, MessageDue
  PROVE  ~UpToDate
<1>1. UpToDate => TickAge = 0
  BY TellingNumbers DEF UpToDate, TickAge, Since, Minus, Clock
<1>2. TickAge >= MessagePeriod /\ MessagePeriod \in Nat \ {0}
  BY PeriodNumbers DEF MessageDue, TickAge
<1> QED
  BY <1>1, <1>2

\* The datagram is the only one in the socket, or already was.
LEMMA FrameArrives ==
  ASSUME RoomForLosses, Telling, Encodes, Broadcast
  PROVE  frame.encoded /\ socket' = <<frame>>
<1>1. /\ socket' = IF alive /\ Len(socket) < 1 THEN Append(socket, frame) ELSE socket
      /\ alive /\ MessageDue /\ Described
  BY DEF Broadcast, OBU!Arrive, SendMessage
<1>2. frame.encoded
  BY <1>1 DEF Encodes, Described, Telling, TypeOK
<1>3. CASE socket = <<>>
  BY <1>1, <1>2, <1>3
<1>4. CASE socket # <<>>
  <2>1. socket = <<frame>>
    BY <1>1, <1>4, TickNotUpToDate DEF Telling, Waiting
  <2> QED
    BY <1>1, <1>2, <2>1
<1> QED
  BY <1>3, <1>4

\* A tick that sends: the datagram arrives, or it is lost.
LEMMA SendTelling ==
  ASSUME RoomForLosses, Telling, Encodes, Broadcast \/ Lose
  PROVE  TicksKept' /\ PedestrianMeant' /\ TellsInTime' /\ Waiting'
<1>1. /\ pc = "message" /\ pc' = "sample" /\ messageLastTime' = currentTime
      /\ UNCHANGED <<clock, currentTime, miliSecOfHour, phaseVars>>
      /\ UNCHANGED <<m_startTime, m_state, frame>>
      /\ MessageDue /\ Described /\ Running
  BY DEF Broadcast, Lose, SendMessage, AtMessage, Running
<1>2. /\ Age \in Nat /\ TickAge \in Nat /\ Allowed(lost) \in Nat
      /\ currentTime \in Clock
  BY TellingNumbers
<1>3. MessagePeriod \in Nat \ {0} /\ Period \in Nat /\ MaxLosses \in Nat
  BY PeriodNumbers
<1>4. TickAge <= Period /\ TickAge >= MessagePeriod
  BY <1>1 DEF Telling, TicksKept, MessageDue, TickAge
<1>5. Age' = Age /\ TickAge' = 0 /\ Described' /\ PedestrianMeant'
  BY <1>1, <1>2 DEF Age, TickAge, Since, Minus, Clock, Described, phaseVars,
     Telling, PedestrianMeant
<1>6. TicksKept'
  BY <1>1, <1>3, <1>5 DEF TicksKept
<1>7. ~UpToDate
  BY <1>1, TickNotUpToDate
<1>8. CASE Broadcast
  <2>1. UNCHANGED <<buffer, screen>> /\ lost' = 0 /\ alive
    BY <1>8 DEF Broadcast, OBU!Arrive
  <2>2. frame.encoded /\ socket' = <<frame>>
    BY <1>8, FrameArrives
  <2>4. Received' = frame
    BY <2>2 DEF Received
  <2>5. Told'
    BY <1>1, <2>2, <2>4 DEF Told, Described, Telling, Inductive, FrameDescribes,
       Mark, phaseVars
  <2>6. Waiting'
    <3>1. socket'[1] = frame
      BY <2>2
    <3>2. socket' = <<socket'[1]>> /\ socket'[1].encoded /\ socket'[1] = frame'
      BY <1>1, <2>2, <3>1
    <3>3. buffer' = screen' /\ lost' \in 0 .. MaxLosses
      BY <1>3, <2>1 DEF Telling, Waiting
    <3> QED
      BY <1>1, <3>2, <3>3 DEF Waiting
  <2> QED
    BY <1>5, <1>6, <2>5, <2>6 DEF TellsInTime
<1>9. CASE Lose
  <2>1. lost < MaxLosses /\ lost' = lost + 1 /\ UNCHANGED obuVars
    BY <1>9 DEF Lose
  <2>2. lost \in 0 .. MaxLosses /\ lost' \in 0 .. MaxLosses
    BY <1>3, <2>1 DEF Telling, Waiting
  <2>3. Allowed(lost)' = Allowed(lost) + Period
    <3>1. Allowed(lost)' = Allowed(lost + 1)
      BY <2>1 DEF Allowed
    <3> QED
      BY <2>2, <3>1, AllowedGrows
  <2>4. Told' = Told
    BY <1>1, <2>1 DEF Told, Received, Mark, obuVars, phaseVars
  <2>5. TellsInTime'
    <3> SUFFICES ASSUME shown = currentState, ~Told
                 PROVE  Age <= TickAge' + Allowed(lost)'
      BY <1>1, <1>5, <2>4 DEF TellsInTime, phaseVars
    <3>1. Age <= TickAge + Allowed(lost)
      BY <1>1 DEF Telling, TellsInTime
    <3> QED
      BY <1>2, <1>3, <1>4, <1>5, <2>3, <3>1
  <2>6. Waiting'
    BY <1>1, <1>7, <2>1, <2>2 DEF Telling, Waiting, obuVars
  <2> QED
    BY <1>5, <1>6, <2>5, <2>6
<1> QED BY <1>8, <1>9

\* The on-board unit shows what it had received.
LEMMA OnBoardTelling ==
  ASSUME Telling, OnBoard
  PROVE  TicksKept' /\ PedestrianMeant' /\ TellsInTime' /\ Waiting'
<1>1. UNCHANGED <<vars, lost>>
  BY DEF OnBoard
<1>2. Received' = Received /\ Waiting'
  <2>1. CASE OBU!Receive
    <3>1. socket # <<>> /\ socket' = Tail(socket)
          /\ buffer' = OBU!Written(Head(socket)) /\ OBU!Show(Head(socket))
      BY <2>1 DEF OBU!Receive
    <3>2. PICK d : socket = <<d>> /\ d.encoded
      BY <3>1 DEF Telling, Waiting
    <3>3. Head(socket) = d /\ Tail(socket) = <<>> /\ socket[Len(socket)] = d
      BY <3>2
    <3>4. d # EmptyFrame
      BY <3>2 DEF EmptyFrame
    <3>5. buffer' = d /\ screen' = d /\ socket' = <<>>
      BY <3>1, <3>3, <3>4 DEF OBU!Written, OBU!Show
    <3> QED
      BY <1>1, <3>1, <3>3, <3>5 DEF Received, Telling, Waiting
  <2>2. CASE OBU!ReceiveFails
    <3>1. UNCHANGED <<socket, buffer>> /\ screen' = screen
      BY <2>2 DEF OBU!ReceiveFails, OBU!Show, Telling, Waiting
    <3> QED
      BY <1>1, <3>1 DEF Received, Telling, Waiting, UpToDate, vars, frameVars
  <2> QED
    BY <2>1, <2>2 DEF OnBoard, OBU!Next
<1>3. TicksKept' /\ PedestrianMeant' /\ TellsInTime'
  BY <1>1, <1>2, StandsStill DEF vars, phaseVars, frameVars
<1> QED BY <1>2, <1>3

LEMMA NextTelling ==
  ASSUME RoomForLosses, Telling, Encodes, [V2INext]_v2iVars
  PROVE  Telling'
<1>1. CASE UNCHANGED v2iVars
  <2>1. UNCHANGED vars /\ UNCHANGED obuVars /\ lost' = lost
    BY <1>1 DEF v2iVars
  <2>2. TypeOK' /\ Inductive' /\ LagBounded'
    BY <2>1, NextType, NextInductive DEF Telling, LagBounded, vars
  <2>3. Received' = Received /\ Waiting'
    BY <2>1 DEF Received, Telling, Waiting, UpToDate, vars, obuVars, frameVars
  <2>4. TicksKept' /\ PedestrianMeant' /\ TellsInTime'
    BY <2>1, <2>3, StandsStill DEF vars, phaseVars, frameVars
  <2> QED
    BY <2>2, <2>3, <2>4 DEF Telling
<1>2. CASE V2INext
  <2>1. Next \/ UNCHANGED vars
    BY <1>2 DEF V2INext, Broadcast, Lose, Quietly, OnBoard, Next, Loop,
       Environment, Message
  <2>2. TypeOK' /\ Inductive'
    BY <2>1, NextType, NextInductive DEF Telling
  <2>3. LagBounded'
    BY <2>1, LagKept DEF Telling, LagBounded, vars
  <2>4. CASE Quietly
    BY <2>4, EnvironmentTelling, SampleTelling, BranchTelling, EncodeTelling,
       <2>2, <2>3 DEF Quietly, Telling
  <2>5. CASE Broadcast \/ Lose
    BY <2>2, <2>3, <2>5, SendTelling DEF Telling
  <2>6. CASE OnBoard
    BY <2>2, <2>3, <2>6, OnBoardTelling DEF Telling
  <2> QED
    BY <1>2, <2>4, <2>5, <2>6 DEF V2INext
<1> QED BY <1>1, <1>2

-----------------------------------------------------------------------------
\* A car that has missed datagrams is behind by no more than they explain
\* (main.c:146-173), whatever the durations and the number of losses, as long
\* as every frame was encoded and whenever the lamps show currentState.
THEOREM CarIsToldInTime ==
  ASSUME RoomForLosses
  PROVE  V2ISpec /\ []Encodes => []CarCatchesUp
<1>1. Telling => CarCatchesUp
  <2> SUFFICES ASSUME Telling, pc = "sample", shown = currentState, ~Told,
                      Age >= (2 + lost) * Period
               PROVE  FALSE
    BY DEF CarCatchesUp, Told, Age, Period
  <2>1. /\ Age \in Nat /\ TickAge \in Nat /\ Allowed(lost) \in Nat
        /\ (2 + lost) * Period = Allowed(lost) + Period
    BY TellingNumbers, AllowedGrows DEF Telling, Waiting
  <2>2. TickAge <= MessagePeriod - 1 /\ (Age <= TickAge + Allowed(lost) \/ Age <= TickAge)
    BY DEF Telling, TicksKept, TellsInTime, Running
  <2> QED
    BY <2>1, <2>2, PeriodNumbers
<1> QED
  BY <1>1, InitTelling, NextTelling, PTL DEF V2ISpec

\* No emergency is over before the car knows of it (main.c:85, 146-173), when
\* it lasts as long as the car may take to be told.
THEOREM EmergencyIsAnnounced ==
  ASSUME RoomForLosses, (2 + MaxLosses) * Period <= Time["EMERGENCY"]
  PROVE  V2ISpec /\ []Encodes => EmergencyAnnounced
<1>1. Telling /\ [V2INext]_v2iVars =>
        [ f_emergency /\ ~f_emergency'
            => Received.eventState = Code["EMERGENCY"] ]_v2iVars
  <2> SUFFICES ASSUME Telling, V2INext, f_emergency, ~f_emergency', ~Told
               PROVE  FALSE
    BY DEF Told, Telling, Inductive, EmergencyConsistent
  <2>1. LeaveEmergency
    BY DEF V2INext, Broadcast, Lose, Quietly, OnBoard, SendMessage, Tick,
       pedestrianISR, emergencyISR, Accepted, closeProg, SendFails, Sample,
       EnterEmergency, NoEmergency, EncodeMessage, NoMessage, AtMessage, Branch,
       Blink, YieldToPedestrian, KeepPedestrianWaiting, ChangePhase, NothingDue,
       vars, phaseVars
  <2>2. /\ shown = currentState /\ stateLastTime = startTime /\ pc = "branch"
        /\ Age > Time["EMERGENCY"]
    BY <2>1 DEF LeaveEmergency, AtBranch, EmergencyOver, Telling, Inductive,
       EmergencyConsistent, EmergencyRemembered, Age
  <2>3. TickAge <= Period /\ (Age <= TickAge + Allowed(lost) \/ Age <= TickAge)
    BY <2>2 DEF Telling, TicksKept, TellsInTime, Running
  <2>4. /\ Age \in Nat /\ TickAge \in Nat /\ Allowed(lost) \in Nat
        /\ Allowed(lost) + Period <= (2 + MaxLosses) * Period
    BY TellingNumbers, AllowedGrows DEF Telling, Waiting
  <2>5. (2 + MaxLosses) * Period \in Nat /\ Time["EMERGENCY"] \in Nat
        /\ Period \in Nat
    BY PeriodNumbers, DurationsAssumption DEF State, Clock
  <2> QED
    BY <2>2, <2>3, <2>4, <2>5
<1> QED
  BY <1>1, InitTelling, NextTelling, PTL DEF V2ISpec, EmergencyAnnounced

-----------------------------------------------------------------------------
(* How many encodings there may be between two datagrams that arrive.      *)

\* The durations of the code: green, a pedestrian and an emergency last two
\* message periods, the other phases as long as they like; and the revisions
\* that six encodings for each datagram lost and for the one that arrives use
\* up are less than there are.
RoomForRevisions ==
  /\ \A s \in {"GREEN", "PEDESTRIAN"} : 2 * Period < TimeMin[s] /\ 2 * Period < Time[s]
  /\ 2 * Period <= Time["EMERGENCY"]
  /\ 6 * (1 + MaxLosses) < RevisionModulus

\* The changes that may follow each other before a frame is sent: an emergency
\* ends, yellow, red, a grant, the pedestrian or green, the next emergency.
Rank  == [YELLOW |-> 2, RED |-> 3, GREEN |-> 5, PEDESTRIAN |-> 5]
Place == IF f_emergency THEN 6
         ELSE IF f_priority /\ currentState = "PEDESTRIAN" THEN 4
         ELSE IF shown \in Phases THEN Rank[shown] ELSE 1

\* The encodings they have used up.
Used == IF Described THEN Place ELSE Place - 1

\* What the loop knows of the phase on the lamps.
PhaseStamped ==
  shown \in Phases =>
    /\ ~f_emergency /\ stateLastTime = startTime /\ waitTime = Time[shown]
    /\ currentState = IF f_priority THEN "PEDESTRIAN" ELSE shown
    /\ nextState = Follow[shown]

\* A change that lasts, before the tick that encodes it and before the next.
FreshChange == Place >= 5 /\ ~Described => Age <= TickAge
Unsent      == Place >= 5 => Age <= TickAge + Period

\* The revision n encodings after r.
Further(r, n) == IF r + n < RevisionModulus THEN r + n ELSE r + n - RevisionModulus

Bound(n) == n <= 6 * lost \/ (n <= 6 * lost + Used /\ Unsent)

CountedFrom ==
  Received.encoded =>
    /\ Received.revision \in 0 .. RevisionModulus - 1
    /\ \E n \in 0 .. 6 * (1 + MaxLosses) :
         /\ revision = Further(Received.revision, n)
         /\ n = 0 => Received = frame
         /\ Bound(n)

RevisionSet == frame.encoded => frame.revision = revision

\* What waits for the car is what it shows, or has another revision.
SocketTells ==
  socket # <<>> /\ screen.encoded /\ screen.revision = socket[1].revision
    => screen = socket[1]

Counting == PhaseStamped /\ FreshChange /\ CountedFrom /\ RevisionSet /\ SocketTells

\* The numbers of the bound.
LEMMA CountNumbers ==
  ASSUME Telling
  PROVE  /\ Place \in 1 .. 6 /\ Used \in 0 .. 6 /\ (Place <= 5 <=> ~f_emergency)
         /\ lost \in 0 .. MaxLosses /\ MaxLosses \in Nat
         /\ RevisionModulus \in Nat \ {0} /\ Described \in BOOLEAN
<1>1. lost \in 0 .. MaxLosses /\ MaxLosses \in Nat
  BY PeriodNumbers DEF Telling, Waiting
<1>2. Place \in 1 .. 6 /\ (Place <= 5 <=> ~f_emergency)
  BY DEF Place, Rank, Phases
<1>3. RevisionModulus \in Nat \ {0}
  BY FrameAssumption
<1>4. Described \in BOOLEAN
  BY DEF Described
<1>5. Used \in 0 .. 6
  BY <1>2 DEF Used
<1> QED
  BY <1>1, <1>2, <1>3, <1>4, <1>5

\* The bound grows with the encodings used up.
LEMMA Wider ==
  ASSUME NEW n \in Nat, NEW l \in Nat, NEW u \in Nat, NEW v \in Nat,
         n <= l \/ n <= l + u, u <= v
  PROVE  n <= l + v
OBVIOUS

LEMMA BoundWidens ==
  ASSUME NEW n \in Nat, Bound(n), lost \in Nat, lost' = lost,
         Used \in Nat, Used' \in Nat, Used <= Used', Unsent'
  PROVE  Bound(n)'
<1>1. n <= 6 * lost \/ n <= 6 * lost + Used
  BY DEF Bound
<1>2. PICK l \in Nat : l = 6 * lost
  OBVIOUS
<1>3. PICK u \in Nat : u = Used
  OBVIOUS
<1>4. PICK v \in Nat : v = Used'
  OBVIOUS
<1>5. u <= v
  BY <1>3, <1>4
<1>6. n <= l \/ n <= l + u
  BY <1>1, <1>2, <1>3
<1>7. n <= l + v
  BY <1>5, <1>6, Wider
<1>8. n <= 6 * lost' + Used'
  BY <1>2, <1>4, <1>7
<1> QED
  BY <1>8 DEF Bound

\* A step that neither encodes nor sends keeps a count that its bound allows.
LEMMA CountKept ==
  ASSUME CountedFrom, Received' = Received, UNCHANGED <<revision, frame>>,
         \A n \in 0 .. 6 * (1 + MaxLosses) : Bound(n) => Bound(n)'
  PROVE  CountedFrom'
<1> SUFFICES ASSUME Received.encoded PROVE CountedFrom'
  BY DEF CountedFrom
<1>1. PICK n \in 0 .. 6 * (1 + MaxLosses) :
        /\ revision = Further(Received.revision, n)
        /\ n = 0 => Received = frame
        /\ Bound(n)
  BY DEF CountedFrom
<1>2. Bound(n)'
  BY <1>1
<1>3. /\ revision' = Further(Received'.revision, n)
      /\ n = 0 => Received' = frame'
      /\ Received'.revision \in 0 .. RevisionModulus - 1
  BY <1>1 DEF CountedFrom
<1> QED
  BY <1>2, <1>3 DEF CountedFrom, Further

\* A step of anything but the phases and the ticks.
LEMMA CountingStands ==
  ASSUME Counting, SocketTells', Received' = Received,
         UNCHANGED <<currentTime, startTime, stateLastTime, waitTime, currentState,
                     shown, f_priority, f_emergency, messageLastTime, m_startTime,
                     m_state, revision, frame, lost>>,
         nextState' = nextState \/ f_emergency
  PROVE  Counting'
<1>1. Place' = Place /\ Described' = Described /\ Age' = Age /\ TickAge' = TickAge
  BY DEF Place, Described, Age, TickAge, Since
<1>2. PhaseStamped' /\ FreshChange' /\ RevisionSet'
  BY <1>1 DEF Counting, PhaseStamped, FreshChange, RevisionSet
<1>3. \A n : Bound(n) => Bound(n)'
  BY <1>1 DEF Bound, Used, Unsent
<1>4. CountedFrom'
  BY <1>3, CountKept DEF Counting
<1> QED
  BY <1>2, <1>4 DEF Counting

\* What waits does not change with a step of the road-side unit.
LEMMA SocketStands ==
  ASSUME Counting, UNCHANGED obuVars
  PROVE  SocketTells' /\ Received' = Received
BY DEF Counting, SocketTells, Received, obuVars

LEMMA InitCounting == V2IInit => Counting
<1> SUFFICES ASSUME V2IInit PROVE Counting
  OBVIOUS
<1>1. shown = "NONE" /\ ~f_emergency /\ ~f_priority /\ frame = EmptyFrame
      /\ socket = <<>> /\ screen = EmptyFrame
  BY DEF V2IInit, Init, OBU!Init
<1>2. Place = 1 /\ ~(shown \in Phases)
  BY <1>1 DEF Place, Phases
<1>3. Received = EmptyFrame /\ ~EmptyFrame.encoded
  BY <1>1 DEF Received, EmptyFrame
<1> QED
  BY <1>1, <1>2, <1>3 DEF Counting, PhaseStamped, FreshChange, CountedFrom,
     RevisionSet, SocketTells

\* The loop reads the clock.
LEMMA SampleCounting ==
  ASSUME RoomForLosses, Telling, Counting, UNCHANGED <<obuVars, lost>>, Sample
  PROVE  Counting'
<1>1. /\ Age \in Nat /\ Lag \in Nat /\ Lag <= MaxLag /\ TickAge \in Nat
      /\ Period + Period < Wrap
      /\ clock \in Clock /\ currentTime \in Clock /\ startTime \in Clock
      /\ messageLastTime \in Clock
  BY TellingNumbers, PeriodNumbers
<1>2. /\ MessagePeriod \in Nat \ {0} /\ MaxLag \in Nat \ {0} /\ Period \in Nat
      /\ Period = MessagePeriod - 1 + MaxLag /\ Wrap \in Nat
  BY PeriodNumbers
<1>3. /\ pc = "sample" /\ currentTime' = clock /\ Running
      /\ UNCHANGED <<clock, frameVars, revision, frame, messageLastTime>>
      /\ Received' = Received /\ SocketTells'
  BY SocketStands
  DEF Sample, EnterEmergency, NoEmergency, AtSample, frameVars, Running
<1>4. TickAge <= MessagePeriod - 1
  BY <1>3 DEF Telling, TicksKept
<1>5. TickAge' = TickAge + Lag
  <2>1. Minus(clock, messageLastTime) = TickAge + Lag
    BY <1>1, <1>2, <1>4, MinusAdds DEF TickAge, Since, Lag
  <2> QED
    BY <1>3, <2>1 DEF TickAge, Since
<1>6. RevisionSet'
  BY <1>3 DEF Counting, RevisionSet
<1>7. /\ Place \in 1 .. 6 /\ Used \in 0 .. 6 /\ (Place <= 5 <=> ~f_emergency)
      /\ lost \in Nat /\ Described \in BOOLEAN
  BY CountNumbers
<1>8. CASE EnterEmergency
  <2>1. /\ ~f_emergency /\ f_emergency' = TRUE /\ shown' = "EMERGENCY"
        /\ startTime' = currentTime'
    BY <1>8 DEF EnterEmergency
  <2>2. Age' = 0
    BY <1>1, <1>3, <2>1 DEF Age, Since, Minus, Clock
  <2>3. Place' = 6 /\ Used' >= 5 /\ Used' \in Nat
    BY <2>1 DEF Place, Used
  <2>4. Used <= 5
    BY <1>7, <2>1 DEF Used
  <2>5. PhaseStamped' /\ FreshChange' /\ Unsent'
    <3>1. PhaseStamped'
      BY <2>1 DEF PhaseStamped, Phases
    <3>2. Age' <= TickAge' /\ Age' <= TickAge' + Period
      BY <1>1, <1>2, <1>5, <2>2
    <3>3. Period' = Period
      BY DEF Period
    <3> QED
      BY <3>1, <3>2, <3>3 DEF FreshChange, Unsent
  <2>6. ASSUME NEW n \in Nat, Bound(n) PROVE Bound(n)'
    <3>1. lost' = lost /\ Used \in Nat /\ Used <= Used'
      BY <1>7, <2>3, <2>4
    <3> QED
      BY <1>7, <2>3, <2>5, <2>6, <3>1, BoundWidens
  <2>7. \A n \in 0 .. 6 * (1 + MaxLosses) : Bound(n) => Bound(n)'
    BY <2>6, PeriodNumbers
  <2> QED
    BY <1>3, <1>6, <2>5, <2>7, CountKept DEF Counting
<1>9. CASE NoEmergency
  <2>1. UNCHANGED <<startTime, stateLastTime, waitTime, currentState, nextState, shown,
                    f_priority, f_emergency, m_startTime, m_state>>
    BY <1>3, <1>9 DEF NoEmergency, phaseVars, frameVars
  <2>2. Place' = Place /\ Described' = Described /\ Used' = Used /\ PhaseStamped'
    BY <2>1 DEF Place, Described, Used, Counting, PhaseStamped
  <2>3. ASSUME Age <= TickAge + Period PROVE Age' = Age + Lag
    <3>1. Age + Lag < Wrap
      BY <1>1, <1>2, <1>4, <2>3
    <3>2. Minus(clock, startTime) = Age + Lag
      BY <1>1, <3>1, MinusAdds DEF Age, Since, Lag
    <3> QED
      BY <1>3, <2>1, <3>2 DEF Age, Since
  <2>4. FreshChange'
    <3> SUFFICES ASSUME Place >= 5, ~Described PROVE Age' <= TickAge'
      BY <2>2 DEF FreshChange
    <3>1. Age <= TickAge
      BY DEF Counting, FreshChange
    <3> QED
      BY <1>1, <1>2, <1>5, <2>3, <3>1
  <2>5. Unsent => Unsent'
    <3> SUFFICES ASSUME Place >= 5, Age <= TickAge + Period
                 PROVE  Age' <= TickAge' + Period
      BY <2>2 DEF Unsent, Period
    <3> QED
      BY <1>1, <1>2, <1>5, <2>3
  <2>6. \A n : Bound(n) => Bound(n)'
    BY <2>2, <2>5 DEF Bound
  <2> QED
    BY <1>3, <1>6, <2>2, <2>4, <2>6, CountKept DEF Counting
<1> QED
  BY <1>8, <1>9 DEF Sample

\* A change that ends what lasts two message periods: a frame was sent.
LEMMA Sent ==
  ASSUME RoomForLosses, Telling, pc = "branch", Place >= 5, Age > 2 * Period,
         NEW n, Bound(n)
  PROVE  n <= 6 * lost
<1>1. TickAge <= Period
  BY DEF Telling, TicksKept, Running
<1>2. Age \in Nat /\ TickAge \in Nat /\ Period \in Nat
  BY TellingNumbers, PeriodNumbers
<1> QED
  BY <1>1, <1>2 DEF Bound, Unsent

\* The loop decides.
LEMMA BranchCounting ==
  ASSUME RoomForLosses, RoomForRevisions, Telling, Counting, UNCHANGED <<obuVars, lost>>,
         Branch
  PROVE  Counting'
<1>1. /\ pc = "branch" /\ Received' = Received /\ SocketTells'
      /\ UNCHANGED <<currentTime, revision, frame, messageLastTime, m_startTime, m_state>>
  BY SocketStands
  DEF Branch, LeaveEmergency, Blink, YieldToPedestrian, KeepPedestrianWaiting,
      ChangePhase, NothingDue, AtBranch, frameVars
<1>2. TickAge' = TickAge /\ RevisionSet' /\ lost' = lost
  BY <1>1 DEF TickAge, Since, Counting, RevisionSet
<1>3. /\ Place \in 1 .. 6 /\ Used \in 0 .. 6 /\ (Place <= 5 <=> ~f_emergency)
      /\ lost \in Nat /\ Described \in BOOLEAN /\ MaxLosses \in Nat
  BY CountNumbers
<1>4. /\ Age \in Nat /\ TickAge \in Nat /\ Period \in Nat /\ currentTime \in Clock
  BY TellingNumbers, PeriodNumbers
<1>5. ASSUME PhaseStamped', FreshChange', \A n \in Nat : Bound(n) => Bound(n)'
      PROVE  Counting'
  <2>1. \A n \in 0 .. 6 * (1 + MaxLosses) : Bound(n) => Bound(n)'
    BY <1>3, <1>5
  <2> QED
    BY <1>1, <1>2, <1>5, <2>1, CountKept DEF Counting
<1>6. CASE Blink \/ KeepPedestrianWaiting \/ NothingDue
  <2>1. /\ UNCHANGED <<startTime, stateLastTime, waitTime, currentState, shown,
                       f_priority, f_emergency>>
        /\ nextState' = nextState \/ f_emergency
    BY <1>6 DEF Blink, KeepPedestrianWaiting, NothingDue, phaseVars
  <2> QED
    BY <1>1, <1>2, <2>1, CountingStands
<1>7. CASE LeaveEmergency
  <2>1. /\ f_emergency /\ ~f_emergency' /\ shown' = "EMERGENCY"
        /\ Age > Time["EMERGENCY"]
    BY <1>7 DEF LeaveEmergency, EmergencyOver, Telling, Inductive,
       EmergencyRemembered, Age
  <2>2. Place = 6 /\ Place' <= 4
    BY <2>1 DEF Place, Phases
  <2>3. PhaseStamped' /\ FreshChange'
    <3>1. ~(Place' >= 5)
      BY <2>1 DEF Place, Phases
    <3> QED
      BY <2>1, <3>1 DEF PhaseStamped, FreshChange, Phases
  <2>4. Age > 2 * Period
    <3>1. Time["EMERGENCY"] \in Nat /\ 2 * Period <= Time["EMERGENCY"]
      BY DurationsAssumption DEF RoomForRevisions, State, Clock
    <3> QED
      BY <1>4, <2>1, <3>1
  <2>5. \A n \in Nat : Bound(n) => Bound(n)'
    BY <1>1, <1>2, <2>2, <2>4, Sent DEF Bound
  <2> QED
    BY <1>5, <2>3, <2>5
<1>8. CASE YieldToPedestrian
  <2>1. /\ ~f_emergency /\ ~f_emergency' /\ f_priority' /\ currentState' = "PEDESTRIAN"
        /\ UNCHANGED <<shown, startTime, stateLastTime, waitTime, nextState>>
        /\ Since(stateLastTime) >= TimeMin[currentState]
    BY <1>8 DEF YieldToPedestrian, MayYield
  <2>2. Place' = 4
    BY <2>1 DEF Place
  <2>3. PhaseStamped' /\ FreshChange'
    BY <2>1, <2>2 DEF Counting, PhaseStamped, FreshChange
  <2>4. Unsent' /\ Used' >= 3 /\ Used' \in Nat
    BY <2>2 DEF Unsent, Used
  <2>5. ASSUME NEW n \in Nat, Bound(n) PROVE Bound(n)'
    <3>1. CASE Place >= 5
      <4>1. shown \in {"GREEN", "PEDESTRIAN"} /\ ~(f_priority /\ currentState = "PEDESTRIAN")
        BY <2>1, <3>1 DEF Place, Rank, Phases
      <4>2. currentState = shown /\ stateLastTime = startTime
        BY <4>1 DEF Counting, PhaseStamped, Phases
      <4>3. Age >= TimeMin[shown] /\ 2 * Period < TimeMin[shown] /\ TimeMin[shown] \in Nat
        BY <2>1, <4>1, <4>2, DurationsAssumption DEF Age, RoomForRevisions, State, Phases, Clock
      <4>4. n <= 6 * lost
        BY <1>1, <1>4, <2>5, <3>1, <4>3, Sent
      <4> QED
        BY <1>2, <4>4 DEF Bound
    <3>2. CASE Place = 4
      <4>1. currentState = "PEDESTRIAN"
        BY <2>1, <3>2 DEF Place, Rank, Phases
      <4>2. Described' = Described
        BY <1>1, <2>1, <4>1 DEF Described
      <4>3. Used' = Used
        BY <2>2, <3>2, <4>2 DEF Used
      <4> QED
        BY <1>2, <2>4, <2>5, <4>3 DEF Bound
    <3>3. CASE Place <= 3
      <4>1. Used <= 3
        BY <1>3, <3>3 DEF Used
      <4>2. Used \in Nat /\ Used <= Used'
        BY <1>3, <2>4, <4>1
      <4> QED
        BY <1>2, <1>3, <2>4, <2>5, <4>2, BoundWidens
    <3> QED
      BY <1>3, <3>1, <3>2, <3>3
  <2> QED
    BY <1>5, <2>3, <2>5
<1>9. CASE ChangePhase
  <2>1. /\ ~f_emergency /\ ~f_emergency' /\ ~f_priority'
        /\ currentState' = Chosen /\ shown' = Chosen /\ nextState' = Follow[Chosen]
        /\ waitTime' = Time[Chosen] /\ startTime' = currentTime /\ stateLastTime' = currentTime
        /\ Since(stateLastTime) >= waitTime \/ f_priority
    BY <1>9 DEF ChangePhase, CallStateFunction, ChangeDue
  <2>2. Chosen \in Phases
    BY <2>1 DEF Chosen, Telling, TypeOK, Inductive, EmergencyConsistent, State
  <2>3. Place' = Rank[Chosen] /\ Age' = 0
    <3>1. Place' = Rank[Chosen]
      BY <2>1, <2>2 DEF Place
    <3>2. Age' = 0
      BY <1>1, <1>4, <2>1 DEF Age, Since, Minus, Clock
    <3> QED
      BY <3>1, <3>2
  <2>4. PhaseStamped' /\ FreshChange' /\ Unsent'
    <3>1. PhaseStamped'
      BY <2>1 DEF PhaseStamped
    <3>2. Age' <= TickAge' /\ Age' <= TickAge' + Period /\ Period' = Period
      BY <1>2, <1>4, <2>3 DEF Period
    <3> QED
      BY <3>1, <3>2 DEF FreshChange, Unsent
  <2>5. Place' \in {2, 3, 5} /\ Used' >= Place' - 1 /\ Used' \in Nat
    <3>1. Place' \in {2, 3, 5}
      BY <2>2, <2>3 DEF Rank, Phases
    <3>2. Used' = Place' \/ Used' = Place' - 1
      BY DEF Used
    <3>3. PICK p \in {2, 3, 5} : p = Place'
      BY <3>1
    <3> QED
      BY <3>2, <3>3
  <2>6. Used <= Place
    BY <1>3 DEF Used
  <2>7. ASSUME NEW n \in Nat, Bound(n) PROVE Bound(n)'
    <3>1. CASE Place >= 5
      <4>1. shown \in {"GREEN", "PEDESTRIAN"} /\ ~(f_priority /\ currentState = "PEDESTRIAN")
        BY <2>1, <3>1 DEF Place, Rank, Phases
      <4>2. ~f_priority /\ stateLastTime = startTime /\ waitTime = Time[shown]
        BY <4>1 DEF Counting, PhaseStamped, Phases
      <4>3. Age >= Time[shown] /\ 2 * Period < Time[shown] /\ Time[shown] \in Nat
        BY <2>1, <4>1, <4>2, DurationsAssumption DEF Age, RoomForRevisions, State, Phases, Clock
      <4>4. n <= 6 * lost
        BY <1>1, <1>4, <2>7, <3>1, <4>3, Sent
      <4> QED
        BY <1>2, <4>4 DEF Bound
    <3>2. CASE Place < 5
      <4>1. Place' > Place
        <5>1. CASE Place = 4
          <6>1. f_priority /\ currentState = "PEDESTRIAN"
            BY <2>1, <5>1 DEF Place, Rank, Phases
          <6> QED
            BY <2>3, <5>1, <6>1 DEF Chosen, Rank
        <5>2. CASE Place \in {2, 3}
          <6>1. /\ shown = IF Place = 2 THEN "YELLOW" ELSE "RED"
                /\ ~(f_priority /\ currentState = "PEDESTRIAN")
            BY <2>1, <5>2 DEF Place, Rank, Phases
          <6>2. ~f_priority /\ nextState = Follow[shown]
            BY <6>1 DEF Counting, PhaseStamped, Phases
          <6>3. Chosen = IF Place = 2 THEN "RED" ELSE "GREEN"
            BY <6>1, <6>2 DEF Chosen, Follow
          <6> QED
            BY <2>3, <5>2, <6>3 DEF Rank
        <5>3. CASE Place = 1
          BY <2>5, <5>3
        <5> QED
          BY <1>3, <3>2, <5>1, <5>2, <5>3
      <4>2. Used <= Used'
        <5>1. PICK p \in {2, 3, 5} : p = Place'
          BY <2>5
        <5>2. PICK v \in Nat : v = Used'
          BY <2>5
        <5>3. v >= p - 1 /\ p > Place
          BY <2>5, <4>1, <5>1, <5>2
        <5>4. Used <= v
          BY <1>3, <2>6, <5>3
        <5> QED
          BY <5>2, <5>4
      <4>3. Used \in Nat
        BY <1>3
      <4> QED
        BY <1>2, <1>3, <2>4, <2>5, <2>7, <4>2, <4>3, BoundWidens
    <3> QED
      BY <1>3, <3>1, <3>2
  <2> QED
    BY <1>5, <2>4, <2>7
<1> QED
  BY <1>6, <1>7, <1>8, <1>9 DEF Branch

\* The next revision is one further.
LEMMA OneFurther ==
  ASSUME NEW r \in 0 .. RevisionModulus - 1, NEW n \in Nat, n + 1 < RevisionModulus,
         revision = Further(r, n)
  PROVE  NextRevision = Further(r, n + 1)
<1> DEFINE M == RevisionModulus
           R == revision
<1>1. M \in Nat \ {0} /\ r \in 0 .. M - 1 /\ n + 1 < M
  BY FrameAssumption
<1>2. R = IF r + n < M THEN r + n ELSE r + n - M
  BY DEF Further
<1>3. NextRevision = (R + 1) % M
  BY DEF NextRevision
<1>4. Further(r, n + 1) = IF r + (n + 1) < M THEN r + (n + 1) ELSE r + (n + 1) - M
  BY DEF Further
<1> HIDE DEF M, R
<1>5. R \in 0 .. M - 1
  BY <1>1, <1>2
<1>6. (R + 1) % M = IF R + 1 = M THEN 0 ELSE R + 1
  <2>1. M % M = 0
    BY <1>1
  <2>2. \A x \in 0 .. M - 1 : x % M = x
    BY <1>1
  <2>3. CASE R + 1 = M
    BY <2>1, <2>3
  <2>4. CASE R + 1 # M
    BY <1>1, <1>5, <2>2, <2>4
  <2> QED
    BY <2>3, <2>4
<1> QED
  BY <1>1, <1>2, <1>3, <1>4, <1>5, <1>6

\* A tick that encodes, or none.
LEMMA EncodeCounting ==
  ASSUME RoomForLosses, RoomForRevisions, Telling, Counting, UNCHANGED <<obuVars, lost>>,
         EncodeMessage \/ NoMessage
  PROVE  Counting'
<1>1. /\ pc = "message" /\ Received' = Received /\ SocketTells'
      /\ UNCHANGED <<currentTime, startTime, stateLastTime, waitTime, currentState,
                     nextState, shown, f_priority, f_emergency>>
  BY SocketStands DEF EncodeMessage, NoMessage, AtMessage, phaseVars
<1>2. CASE NoMessage
  <2>1. UNCHANGED <<messageLastTime, m_startTime, m_state, revision, frame>>
    BY <1>2 DEF NoMessage, frameVars
  <2> QED
    BY <1>1, <2>1, CountingStands
<1>3. CASE EncodeMessage
  <2>1. /\ m_startTime' = startTime /\ m_state' = currentState /\ ~Described
        /\ messageLastTime' = currentTime /\ revision' = NextRevision
        /\ frame' = Encoding
    BY <1>3 DEF EncodeMessage
  <2>2. /\ Place \in 1 .. 6 /\ lost \in 0 .. MaxLosses /\ MaxLosses \in Nat
        /\ RevisionModulus \in Nat
    BY CountNumbers
  <2>3. /\ Age \in Nat /\ TickAge \in Nat /\ Period \in Nat /\ currentTime \in Clock
        /\ TickAge <= Period
    BY <1>1, TellingNumbers, PeriodNumbers DEF Telling, TicksKept, Running
  <2>4. Described' /\ Place' = Place /\ Age' = Age /\ TickAge' = 0
    BY <1>1, <2>1, <2>3 DEF Described, Place, Age, TickAge, Since, Minus, Clock
  <2>5. PhaseStamped' /\ FreshChange'
    BY <1>1, <2>4 DEF Counting, PhaseStamped, FreshChange
  <2>6. RevisionSet'
    BY <2>1 DEF RevisionSet, Encoding, EmptyFrame
  <2>7. Used' = Place /\ Used = Place - 1
    BY <2>1, <2>4 DEF Used
  <2>8. Unsent'
    <3> SUFFICES ASSUME Place >= 5 PROVE Age <= 0 + Period
      BY <2>4 DEF Unsent, Period
    <3>1. Age <= TickAge
      BY <2>1 DEF Counting, FreshChange
    <3> QED
      BY <2>3, <3>1
  <2>9. CountedFrom'
    <3> SUFFICES ASSUME Received.encoded
                 PROVE  /\ Received.revision \in 0 .. RevisionModulus - 1
                        /\ \E n \in 0 .. 6 * (1 + MaxLosses) :
                             /\ revision' = Further(Received.revision, n)
                             /\ n # 0 /\ Bound(n)'
      BY <1>1 DEF CountedFrom, Further
    <3> DEFINE r == Received.revision
    <3>1. r \in 0 .. RevisionModulus - 1
      BY DEF Counting, CountedFrom
    <3>2. PICK n \in 0 .. 6 * (1 + MaxLosses) : revision = Further(r, n) /\ Bound(n)
      BY DEF Counting, CountedFrom
    <3> HIDE DEF r
    <3>3. n \in Nat /\ n + 1 <= 6 * lost + Used'
      BY <2>2, <2>7, <3>2 DEF Bound
    <3>4. n + 1 \in 0 .. 6 * (1 + MaxLosses) /\ n + 1 < RevisionModulus /\ n + 1 # 0
      <4>1. 6 * (1 + MaxLosses) < RevisionModulus
        BY DEF RoomForRevisions
      <4>2. n + 1 <= 6 * lost + Place
        BY <2>7, <3>3
      <4> QED
        BY <2>2, <3>3, <4>1, <4>2
    <3>5. Bound(n + 1)'
      BY <2>8, <3>3 DEF Bound
    <3>6. revision' = Further(r, n + 1)
      BY <2>1, <3>1, <3>2, <3>3, <3>4, OneFurther
    <3> QED
      BY <3>1, <3>4, <3>5, <3>6 DEF r
  <2> QED
    BY <1>1, <2>5, <2>6, <2>9 DEF Counting
<1> QED
  BY <1>2, <1>3

\* No revision comes back within the bound.
LEMMA NotFurther ==
  ASSUME RoomForRevisions, NEW r \in 0 .. RevisionModulus - 1,
         NEW n \in 0 .. 6 * (1 + MaxLosses), r = Further(r, n)
  PROVE  n = 0
<1>1. RevisionModulus \in Nat \ {0} /\ MaxLosses \in Nat
  BY FrameAssumption, LossAssumption
<1>2. n \in Nat /\ n < RevisionModulus
  BY <1>1 DEF RoomForRevisions
<1> QED
  BY <1>1, <1>2 DEF Further

\* A tick that sends.  What the car gets now has the revision of what it had
\* only when it is the same.
LEMMA SendCounting ==
  ASSUME RoomForLosses, RoomForRevisions, Telling, Counting, Encodes, Broadcast \/ Lose
  PROVE  Counting'
<1>1. /\ pc = "message" /\ messageLastTime' = currentTime /\ Described
      /\ UNCHANGED <<currentTime, startTime, stateLastTime, waitTime, currentState,
                     nextState, shown, f_priority, f_emergency, m_startTime, m_state,
                     revision, frame>>
  BY DEF Broadcast, Lose, SendMessage, AtMessage, phaseVars
<1>2. Described' /\ Place' = Place /\ RevisionSet'
  BY <1>1 DEF Described, Place, Counting, RevisionSet
<1>3. PhaseStamped' /\ FreshChange'
  BY <1>1, <1>2 DEF Counting, PhaseStamped, FreshChange
<1>4. /\ Used \in 0 .. 6 /\ lost \in 0 .. MaxLosses /\ MaxLosses \in Nat
      /\ RevisionModulus \in Nat \ {0}
  BY CountNumbers
<1>5. CASE Broadcast
  <2>1. frame.encoded /\ socket' = <<frame>> /\ lost' = 0 /\ screen' = screen
    BY <1>5, FrameArrives DEF Broadcast, OBU!Arrive
  <2>2. Received' = frame
    BY <2>1 DEF Received
  <2>3. frame.revision = revision /\ revision \in 0 .. RevisionModulus - 1
    BY <2>1 DEF Counting, RevisionSet, Telling, TypeOK
  <2>4. CountedFrom'
    <3>1. revision = Further(revision, 0)
      BY <1>4, <2>3 DEF Further
    <3>2. Bound(0)'
      BY <2>1 DEF Bound
    <3>3. 0 \in 0 .. 6 * (1 + MaxLosses)
      BY <1>4
    <3> QED
      BY <1>1, <2>1, <2>2, <2>3, <3>1, <3>2, <3>3 DEF CountedFrom, Further
  <2>5. SocketTells'
    <3> SUFFICES ASSUME screen.encoded, screen.revision = revision
                 PROVE  screen = frame
      BY <2>1, <2>3 DEF SocketTells
    <3>1. CASE socket = <<>>
      <4>1. Received = screen
        BY <3>1 DEF Received
      <4>2. PICK n \in 0 .. 6 * (1 + MaxLosses) :
              revision = Further(screen.revision, n) /\ (n = 0 => screen = frame)
        BY <4>1 DEF Counting, CountedFrom
      <4> QED
        BY <2>3, <4>2, NotFurther
    <3>2. CASE socket # <<>>
      <4>1. socket = <<frame>>
        BY <1>5, <2>1, <3>2 DEF Broadcast, OBU!Arrive, Telling, Waiting
      <4> QED
        BY <2>3, <3>2, <4>1 DEF Counting, SocketTells
    <3> QED
      BY <3>1, <3>2
  <2> QED
    BY <1>2, <1>3, <2>4, <2>5 DEF Counting
<1>6. CASE Lose
  <2>1. lost' = lost + 1 /\ UNCHANGED obuVars
    BY <1>6 DEF Lose
  <2>2. Received' = Received /\ SocketTells'
    BY <2>1, SocketStands
  <2>3. ASSUME NEW n \in Nat, Bound(n) PROVE Bound(n)'
    <3>1. n <= 6 * (lost + 1)
      BY <1>4, <2>3 DEF Bound
    <3> QED
      BY <2>1, <3>1 DEF Bound
  <2>4. \A n \in 0 .. 6 * (1 + MaxLosses) : Bound(n) => Bound(n)'
    BY <1>4, <2>3
  <2>5. CountedFrom'
    BY <1>1, <2>2, <2>4, CountKept DEF Counting
  <2> QED
    BY <1>2, <1>3, <2>2, <2>5 DEF Counting
<1> QED
  BY <1>5, <1>6

\* The on-board unit shows what it had received: the same, or another revision.
LEMMA OnBoardCounting ==
  ASSUME Telling, Counting, OnBoard
  PROVE  /\ Counting'
         /\ screen.encoded /\ screen'.encoded /\ screen.revision = screen'.revision
              => screen = screen'
<1>1. /\ UNCHANGED <<currentTime, startTime, stateLastTime, waitTime, currentState,
                     nextState, shown, f_priority, f_emergency, messageLastTime,
                     m_startTime, m_state, revision, frame, lost>>
  BY DEF OnBoard, vars, phaseVars, frameVars
<1>2. CASE OBU!Receive
  <2>1. socket # <<>> /\ socket' = Tail(socket) /\ OBU!Show(Head(socket))
    BY <1>2 DEF OBU!Receive
  <2>2. PICK d : socket = <<d>> /\ d.encoded
    BY <2>1 DEF Telling, Waiting
  <2>3. /\ Head(socket) = d /\ Tail(socket) = <<>> /\ socket[Len(socket)] = d
        /\ socket[1] = d /\ d # EmptyFrame
    BY <2>2 DEF EmptyFrame
  <2>4. screen' = d /\ socket' = <<>>
    BY <2>1, <2>3 DEF OBU!Show
  <2>5. Received' = Received /\ SocketTells'
    BY <2>1, <2>3, <2>4 DEF Received, SocketTells
  <2>6. Counting'
    BY <1>1, <2>5, CountingStands
  <2> QED
    BY <2>1, <2>3, <2>4, <2>6 DEF Counting, SocketTells
<1>3. CASE OBU!ReceiveFails
  <2>1. socket' = socket /\ screen' = screen
    BY <1>3 DEF OBU!ReceiveFails, OBU!Show, Telling, Waiting
  <2>2. Received' = Received /\ SocketTells'
    BY <2>1 DEF Received, Counting, SocketTells
  <2> QED
    BY <1>1, <2>1, <2>2, CountingStands
<1> QED
  BY <1>2, <1>3 DEF OnBoard, OBU!Next

LEMMA NextCounting ==
  ASSUME RoomForLosses, RoomForRevisions, Telling, Counting, Encodes, [V2INext]_v2iVars
  PROVE  /\ Counting'
         /\ screen.encoded /\ screen'.encoded /\ screen.revision = screen'.revision
              => screen = screen'
<1>1. CASE UNCHANGED v2iVars
  <2>1. /\ UNCHANGED <<currentTime, startTime, stateLastTime, waitTime, currentState,
                       nextState, shown, f_priority, f_emergency, messageLastTime,
                       m_startTime, m_state, revision, frame, lost>>
        /\ UNCHANGED obuVars /\ screen' = screen
    BY <1>1 DEF v2iVars, vars, phaseVars, frameVars, obuVars
  <2> QED
    BY <2>1, SocketStands, CountingStands
<1>2. CASE Quietly
  <2>1. UNCHANGED <<obuVars, lost>> /\ screen' = screen
    BY <1>2 DEF Quietly, obuVars
  <2>2. CASE Tick \/ pedestrianISR \/ emergencyISR \/ closeProg \/ SendFails
    <3>1. UNCHANGED <<currentTime, startTime, stateLastTime, waitTime, currentState,
                      nextState, shown, f_priority, f_emergency, messageLastTime,
                      m_startTime, m_state, revision, frame>>
      BY <2>2 DEF Tick, pedestrianISR, emergencyISR, Accepted, closeProg, SendFails,
         AtMessage, phaseVars, frameVars
    <3> QED
      BY <2>1, <3>1, SocketStands, CountingStands
  <2>3. CASE Sample
    BY <2>1, <2>3, SampleCounting
  <2>4. CASE Branch
    BY <2>1, <2>4, BranchCounting
  <2>5. CASE EncodeMessage \/ NoMessage
    BY <2>1, <2>5, EncodeCounting
  <2> QED
    BY <1>2, <2>2, <2>3, <2>4, <2>5 DEF Quietly
<1>3. CASE Broadcast \/ Lose
  <2>1. screen' = screen
    BY <1>3 DEF Broadcast, OBU!Arrive, Lose, obuVars
  <2> QED
    BY <1>3, <2>1, SendCounting
<1>4. CASE OnBoard
  BY <1>4, OnBoardCounting
<1> QED
  BY <1>1, <1>2, <1>3, <1>4 DEF V2INext

\* The revision tells two frames apart that are shown one after the other
\* (main.c:142, 151-171), with the 127 values of the code when no more than
\* twenty datagrams are lost in a row: between a change and the next that
\* lasts two message periods there are no more than six, and every encoding
\* uses one revision.
THEOREM RevisionsTellFrames ==
  ASSUME RoomForLosses, RoomForRevisions
  PROVE  V2ISpec /\ []Encodes => RevisionTells
<1>1. V2IInit => Telling /\ Counting
  BY InitTelling, InitCounting
<1>2. Telling /\ Counting /\ Encodes /\ [V2INext]_v2iVars => Telling' /\ Counting'
  BY NextTelling, NextCounting
<1>3. Telling /\ Counting /\ Encodes /\ [V2INext]_v2iVars =>
        [ screen.encoded /\ screen'.encoded /\ screen.revision = screen'.revision
            => screen = screen' ]_v2iVars
  BY NextCounting
<1> QED
  BY <1>1, <1>2, <1>3, PTL DEF V2ISpec, RevisionTells

-----------------------------------------------------------------------------
(* The premise of these theorems: frames are encoded within the hour.      *)

\* The largest mark belongs to the hour in which the process was started, and
\* the clock does not wrap in it.
RoomForTheHour ==
  /\ MarkUnit * (MaxTimeMark + 1) < Wrap
  /\ \A s \in State : TimeMin[s] <= Time[s]

\* What is left of that hour is longer than each state lasts.
WithinTheHour ==
  \A s \in State : miliSecOfHour + clock + Time[s] < MarkUnit * (MaxTimeMark + 1)

StampsOrdered == startTime <= currentTime /\ currentTime <= clock

LEMMA DivBelow == \A a, b, m \in Int : b > 0 /\ a < b * m => a \div b < m
OBVIOUS

\* A mark of a time in the hour is one the encoder accepts.
LEMMA MarkFits ==
  ASSUME RoomForTheHour, TypeOK, NEW t \in Nat,
         miliSecOfHour + t < MarkUnit * (MaxTimeMark + 1)
  PROVE  Mark(t) \in 0 .. MaxTimeMark
<1>1. miliSecOfHour \in Nat /\ MarkUnit \in Nat \ {0} /\ MaxTimeMark \in Nat
      /\ Wrap \in Nat
  BY FrameAssumption, DurationsAssumption DEF TypeOK, Clock
<1> DEFINE H == MarkUnit * (MaxTimeMark + 1)
<1>2. H \in Nat /\ H < Wrap /\ miliSecOfHour + t < H
  BY <1>1 DEF RoomForTheHour
<1> HIDE DEF H
<1>3. Plus(miliSecOfHour, t) = miliSecOfHour + t
  BY <1>1, <1>2 DEF Plus
<1>4. (miliSecOfHour + t) \div MarkUnit \in 0 .. MaxTimeMark
  <2>1. miliSecOfHour + t \in Nat /\ MaxTimeMark + 1 \in Int /\ MarkUnit \in Int
        /\ MarkUnit > 0
    BY <1>1
  <2>2. (miliSecOfHour + t) \div MarkUnit < MaxTimeMark + 1
    BY <1>2, <2>1, DivBelow DEF H
  <2>3. (miliSecOfHour + t) \div MarkUnit \in Nat
    BY <1>1, <2>1, DivNat
  <2> QED
    BY <1>1, <2>2, <2>3
<1> QED
  BY <1>3, <1>4 DEF Mark

LEMMA EncodesInTheHour ==
  ASSUME RoomForTheHour, TypeOK, StampsOrdered, WithinTheHour
  PROVE  Encoding.encoded
<1> DEFINE m  == TimeMin[currentState]
           d  == Time[currentState]
           H  == MarkUnit * (MaxTimeMark + 1)
<1>1. /\ startTime \in Nat /\ m \in Nat /\ d \in Nat /\ m <= d
      /\ clock \in Nat /\ currentTime \in Nat
      /\ startTime <= clock /\ miliSecOfHour \in Nat
      /\ Wrap \in Nat
  BY DurationsAssumption DEF RoomForTheHour, TypeOK, StampsOrdered, Clock
<1>2. miliSecOfHour + clock + d < H /\ H < Wrap
  BY DEF WithinTheHour, TypeOK, RoomForTheHour
<1>3. H \in Nat
  BY FrameAssumption
<1> HIDE DEF m, d, H
<1>4. /\ startTime + d < Wrap /\ startTime + m < Wrap
      /\ miliSecOfHour + startTime < H
      /\ miliSecOfHour + (startTime + m) < H
      /\ miliSecOfHour + (startTime + d) < H
  BY <1>1, <1>2, <1>3
<1>5. Plus(startTime, m) = startTime + m /\ Plus(startTime, d) = startTime + d
  BY <1>1, <1>4 DEF Plus
<1>6. Mark(startTime) \in 0 .. MaxTimeMark
  BY <1>1, <1>4, MarkFits DEF H
<1>7. Mark(startTime + m) \in 0 .. MaxTimeMark
  BY <1>1, <1>4, MarkFits DEF H
<1>8. Mark(startTime + d) \in 0 .. MaxTimeMark
  BY <1>1, <1>4, MarkFits DEF H
<1> QED
  BY <1>5, <1>6, <1>7, <1>8 DEF Encoding, m, d

LEMMA NextInTheHour ==
  ASSUME RoomForTheHour, TypeOK, StampsOrdered, Encodes, WithinTheHour, [Next]_vars
  PROVE  StampsOrdered' /\ Encodes'
<1>1. /\ startTime \in Nat /\ currentTime \in Nat /\ clock \in Nat
      /\ startTime <= currentTime /\ currentTime <= clock
  BY DEF TypeOK, Clock, StampsOrdered
<1>2. CASE Tick
  <2>1. clock + 1 < Wrap
    <3> DEFINE H == MarkUnit * (MaxTimeMark + 1)
    <3>1. H \in Nat /\ H < Wrap /\ Wrap \in Nat
      BY FrameAssumption, DurationsAssumption DEF RoomForTheHour
    <3>2. miliSecOfHour + clock + Time["RED"] < H
      BY DEF WithinTheHour, State, Phases
    <3>3. miliSecOfHour \in Nat /\ Time["RED"] \in Nat
      BY DurationsAssumption DEF TypeOK, Clock, State, Phases
    <3> HIDE DEF H
    <3> QED
      BY <1>1, <3>1, <3>2, <3>3
  <2>2. clock' = clock + 1 /\ UNCHANGED <<currentTime, startTime, m_state, frame>>
    BY <1>2, <2>1 DEF Tick, Plus, phaseVars, frameVars
  <2> QED
    BY <1>1, <2>2 DEF StampsOrdered, Encodes
<1>3. CASE Sample
  <2>1. /\ currentTime' = clock /\ clock' = clock /\ startTime' \in {startTime, clock}
        /\ UNCHANGED <<m_state, frame>>
    BY <1>3 DEF Sample, EnterEmergency, NoEmergency, AtSample, phaseVars, frameVars
  <2> QED
    BY <1>1, <2>1 DEF StampsOrdered, Encodes
<1>4. CASE Branch
  <2>1. /\ UNCHANGED <<clock, currentTime, m_state, frame>>
        /\ startTime' \in {startTime, currentTime}
    BY <1>4 DEF Branch, LeaveEmergency, Blink, YieldToPedestrian,
       KeepPedestrianWaiting, ChangePhase, NothingDue, AtBranch, phaseVars, frameVars
  <2> QED
    BY <1>1, <2>1 DEF StampsOrdered, Encodes
<1>5. CASE EncodeMessage
  <2>1. UNCHANGED <<clock, currentTime, startTime>> /\ frame' = Encoding
    BY <1>5 DEF EncodeMessage, AtMessage, phaseVars
  <2> QED
    BY <2>1, EncodesInTheHour DEF StampsOrdered, Encodes
<1>6. CASE \/ SendMessage \/ NoMessage \/ pedestrianISR \/ emergencyISR \/ closeProg
           \/ SendFails \/ UNCHANGED vars
  <2>1. UNCHANGED <<clock, currentTime, startTime, m_state, frame>>
    BY <1>6 DEF SendMessage, NoMessage, pedestrianISR, emergencyISR, Accepted,
       closeProg, SendFails, AtMessage, vars, phaseVars, frameVars
  <2> QED
    BY <2>1 DEF StampsOrdered, Encodes
<1> QED
  BY <1>2, <1>3, <1>4, <1>5, <1>6 DEF Next, Loop, Environment, Message

\* As long as what is left of the hour is longer than each state lasts, every
\* frame is encoded (main.c:59, 158-163), whatever the loop does: the hour is
\* all that the premise of the theorems above takes.
THEOREM FramesFitTheHour ==
  ASSUME RoomForTheHour
  PROVE  Spec /\ []WithinTheHour => []Encodes
<1>1. Init => StampsOrdered /\ Encodes
  BY DEF Init, StampsOrdered, Encodes, State, Phases
<1>2. TypeOK /\ StampsOrdered /\ Encodes /\ WithinTheHour /\ [Next]_vars
        => StampsOrdered' /\ Encodes'
  BY NextInTheHour
<1> QED
  BY <1>1, <1>2, TypeCorrect, PTL DEF Spec

\* The road-side unit runs as if it were alone.
LEMMA RoadSideRuns == V2ISpec => Spec
<1>1. V2IInit => Init
  BY DEF V2IInit
<1>2. [V2INext]_v2iVars => [Next]_vars
  BY DEF V2INext, Broadcast, Lose, Quietly, OnBoard, Next, Loop, Environment,
     Message, v2iVars
<1> QED
  BY <1>1, <1>2, PTL DEF V2ISpec, Spec

\* Until then what waits for the car is a frame (README.md:25), and the car
\* is told in time of what the lamps show, when no other state waits for its
\* display.
THEOREM CarIsServedWithinTheHour ==
  ASSUME RoomForLosses, RoomForTheHour
  PROVE  V2ISpec /\ []WithinTheHour => []ReceivesFrames /\ []CarCatchesUp
<1>1. Telling => ReceivesFrames
  BY DEF Telling, Waiting, ReceivesFrames
<1> QED
  BY <1>1, RoadSideRuns, FramesFitTheHour, CarIsToldInTime, InitTelling,
     NextTelling, PTL DEF V2ISpec
=============================================================================
