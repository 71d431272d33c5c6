------------------------- MODULE TrafficLightProofs -------------------------
(***************************************************************************)
(* What TLAPS proves of the road-side unit, for every choice of durations, *)
(* word size and clock resolution that the assumptions of TrafficLight     *)
(* allow.  The argument is one inductive invariant: TypeOK /\ Inductive.   *)
(***************************************************************************)
EXTENDS TrafficLight, TLAPS

-----------------------------------------------------------------------------
(* Arithmetic and tables.                                                  *)

\* Unsigned sums and differences stay in the range of unsigned int.
LEMMA PlusClock == \A a, b \in Clock : Plus(a, b) \in Clock
  BY DurationsAssumption DEF Plus, Clock

LEMMA MinusClock == \A a, b \in Clock : Minus(a, b) \in Clock
  BY DurationsAssumption DEF Minus, Clock

LEMMA DivNat == \A a \in Nat, b \in Nat \ {0} : a \div b \in Nat
  OBVIOUS

LEMMA ModRange == \A a \in Nat, b \in Nat \ {0} : a % b \in 0 .. b - 1
  OBVIOUS

\* A TimeMark computed from two clock values is a natural number.
LEMMA MarkNat == ASSUME TypeOK PROVE \A t \in Clock : Mark(t) \in Nat
<1>1. TAKE t \in Clock
<1>2. Plus(miliSecOfHour, t) \in Nat
  BY PlusClock DEF TypeOK, Clock
<1>3. QED
  BY <1>2, DivNat, FrameAssumption DEF Mark

\* operations[]: what a state function lights and returns.
LEMMA Tables ==
  /\ \A s \in Phases : Lights[s] \subseteq Lamp /\ s # "EMERGENCY"
  /\ \A s \in State : Follow[s] \in Phases /\ Code[s] \in 0 .. 4
  /\ State = Phases \union {"EMERGENCY"}
  BY DEF Phases, State, Lamp, Lights, Follow, Code

\* What encodeBuffer() leaves in the buffer is a frame.
LEMMA EncodingType == TypeOK => Encoding \in Frames
<1> SUFFICES ASSUME TypeOK PROVE Encoding \in Frames
  OBVIOUS
<1>1. /\ Time[currentState] \in Clock /\ TimeMin[currentState] \in Clock
      /\ startTime \in Clock
  BY DurationsAssumption DEF TypeOK
<1>2. /\ Mark(startTime) \in Nat
      /\ Mark(Plus(startTime, TimeMin[currentState])) \in Nat
      /\ Mark(Plus(startTime, Time[currentState])) \in Nat
  BY <1>1, MarkNat, PlusClock
<1>3. NextRevision \in 0 .. RevisionModulus - 1
  BY ModRange, FrameAssumption DEF TypeOK, NextRevision
<1>4. Code[currentState] \in 0 .. 4
  BY Tables DEF TypeOK
<1>5. 0 \in 0 .. RevisionModulus - 1
  BY FrameAssumption
<1>6. EmptyFrame \in Frames
  BY <1>5 DEF EmptyFrame, Frames
<1>7. QED
  BY <1>2, <1>3, <1>4, <1>6 DEF Encoding, Frames

-----------------------------------------------------------------------------
(* Type correctness.                                                       *)

LEMMA InitType == Init => TypeOK
<1> SUFFICES ASSUME Init PROVE TypeOK
  OBVIOUS
<1>1. 0 \in Clock /\ 0 \in 0 .. RevisionModulus - 1 /\ 0 \in 0 .. debounceDelay + 1
  BY DurationsAssumption, FrameAssumption DEF Clock
<1>2. frame \in Frames
  BY <1>1 DEF Init, EmptyFrame, Frames
<1>3. miliSecOfHour \in Clock
  BY FrameAssumption DEF Init
<1>4. QED
  BY <1>1, <1>2, <1>3 DEF Init, TypeOK, State, Phases, Lamp, Button

\* Ticks and presses only touch the clock and the flags.
LEMMA EnvironmentType ==
  ASSUME TypeOK, Environment PROVE TypeOK'
<1>1. CASE Tick
  <2>1. clock' \in Clock
    <3>1. CASE clock + 1 < Wrap
      BY <1>1, <3>1, DurationsAssumption DEF Tick, Plus, TypeOK, Clock
    <3>2. CASE ~(clock + 1 < Wrap)
      BY <1>1, <3>2, DurationsAssumption DEF Tick, Plus, TypeOK, Clock
    <3>3. QED BY <3>1, <3>2
  <2>2. quiet' \in [Button -> 0 .. debounceDelay + 1]
    BY <1>1, DurationsAssumption DEF Tick, TypeOK
  <2>3. QED
    BY <1>1, <2>1, <2>2 DEF Tick, TypeOK, phaseVars, frameVars
<1>2. CASE pedestrianISR \/ emergencyISR
  <2>1. quiet' \in [Button -> 0 .. debounceDelay + 1]
    BY <1>2, DurationsAssumption
    DEF pedestrianISR, emergencyISR, Accepted, TypeOK
  <2>2. QED
    BY <1>2, <2>1
    DEF pedestrianISR, emergencyISR, Accepted, TypeOK, phaseVars, frameVars
<1>3. CASE closeProg
  BY <1>3 DEF closeProg, TypeOK, buttonVars, frameVars
<1>4. CASE SendFails
  BY <1>4 DEF SendFails, AtMessage, TypeOK, buttonVars, phaseVars, frameVars
<1>5. QED
  BY <1>1, <1>2, <1>3, <1>4 DEF Environment

LEMMA SampleType ==
  ASSUME TypeOK, Sample PROVE TypeOK'
<1>1. CASE EnterEmergency
  BY <1>1 DEF EnterEmergency, AtSample, TypeOK, State, frameVars
<1>2. CASE NoEmergency
  BY <1>2 DEF NoEmergency, AtSample, TypeOK, buttonVars, phaseVars, frameVars
<1>3. QED
  BY <1>1, <1>2 DEF Sample

LEMMA BranchType ==
  ASSUME TypeOK, Branch PROVE TypeOK'
<1> USE DEF AtBranch, frameVars
<1>1. CASE LeaveEmergency
  <2>1. 0 \in Clock
    BY DurationsAssumption DEF Clock
  <2>2. QED
    BY <1>1, <2>1 DEF LeaveEmergency, TypeOK
<1>2. CASE Blink
  <2>1. lamps' \subseteq Lamp /\ dark' \in BOOLEAN /\ nextState' \in State
    BY <1>2, Tables DEF Blink, CallStateFunction, TypeOK, Lamp, State
  <2>2. QED
    BY <1>2, <2>1 DEF Blink, TypeOK
<1>3. CASE YieldToPedestrian
  BY <1>3 DEF YieldToPedestrian, TypeOK, State, Phases
<1>4. CASE KeepPedestrianWaiting
  BY <1>4 DEF KeepPedestrianWaiting, TypeOK
<1>5. CASE ChangePhase
  <2>1. PICK s \in State :
          /\ currentState' = s /\ shown' = s
          /\ CallStateFunction(s)
          /\ waitTime' = Time[s]
    BY <1>5 DEF ChangePhase, Chosen, TypeOK
  <2>2. waitTime' \in Clock
    BY <2>1, DurationsAssumption
  <2>3. lamps' \subseteq Lamp /\ dark' \in BOOLEAN /\ nextState' \in State
    BY <2>1, Tables DEF CallStateFunction, TypeOK, Lamp
  <2>4. QED
    BY <1>5, <2>1, <2>2, <2>3 DEF ChangePhase, TypeOK
<1>6. CASE NothingDue
  BY <1>6 DEF NothingDue, TypeOK, phaseVars
<1>7. QED
  BY <1>1, <1>2, <1>3, <1>4, <1>5, <1>6 DEF Branch

LEMMA MessageType ==
  ASSUME TypeOK, Message PROVE TypeOK'
<1> USE DEF AtMessage, buttonVars, phaseVars
<1>1. CASE EncodeMessage
  <2>1. frame' \in Frames
    BY <1>1, EncodingType DEF EncodeMessage
  <2>2. revision' \in 0 .. RevisionModulus - 1
    BY <1>1, ModRange, FrameAssumption DEF EncodeMessage, NextRevision, TypeOK
  <2>3. QED
    BY <1>1, <2>1, <2>2 DEF EncodeMessage, TypeOK
<1>2. CASE SendMessage
  BY <1>2 DEF SendMessage, TypeOK
<1>3. CASE NoMessage
  BY <1>3 DEF NoMessage, TypeOK, frameVars
<1>4. QED
  BY <1>1, <1>2, <1>3 DEF Message

LEMMA NextType == TypeOK /\ [Next]_vars => TypeOK'
<1> SUFFICES ASSUME TypeOK, [Next]_vars PROVE TypeOK'
  OBVIOUS
<1>1. CASE UNCHANGED vars
  BY <1>1 DEF TypeOK, vars, buttonVars, phaseVars, frameVars
<1>2. QED
  BY <1>1, EnvironmentType, SampleType, BranchType, MessageType DEF Next, Loop

\* Every variable of the loop keeps its type, whatever the durations, the word
\* size and the order in which presses, time and iterations fall.
THEOREM TypeCorrect == Spec => []TypeOK
  BY InitType, NextType, PTL DEF Spec

-----------------------------------------------------------------------------
(* The clock is never further ahead of the loop than the bound of Tick.    *)

LagBounded == Minus(clock, currentTime) <= MaxLag

LEMMA InitLag == Init => LagBounded
  BY DurationsAssumption DEF Init, LagBounded, Minus

LEMMA LagKept ==
  ASSUME TypeOK, LagBounded, Next
  PROVE  LagBounded'
<1>1. CASE Tick
  <2>1. /\ clock \in Clock /\ currentTime \in Clock /\ MaxLag \in Nat \ {0}
        /\ Wrap \in Nat \ {0}
    BY DurationsAssumption DEF TypeOK
  <2>2. /\ Minus(clock, currentTime) < MaxLag /\ clock' = Plus(clock, 1)
        /\ currentTime' = currentTime
    BY <1>1 DEF Tick
  <2> QED
    BY <2>1, <2>2 DEF LagBounded, Minus, Plus, Clock
<1>2. CASE Sample
  <2>1. currentTime' = clock /\ clock' = clock /\ clock \in Clock
    BY <1>2 DEF Sample, EnterEmergency, NoEmergency, AtSample, TypeOK
  <2> QED
    BY <2>1, DurationsAssumption DEF LagBounded, Minus, Clock
<1>3. CASE Branch
  BY <1>3 DEF Branch, LeaveEmergency, Blink, YieldToPedestrian,
     KeepPedestrianWaiting, ChangePhase, NothingDue, AtBranch, LagBounded
<1>4. CASE Message
  BY <1>4 DEF Message, EncodeMessage, SendMessage, NoMessage, AtMessage, LagBounded
<1>5. CASE pedestrianISR \/ emergencyISR \/ closeProg \/ SendFails
  BY <1>5 DEF pedestrianISR, emergencyISR, Accepted, closeProg, SendFails,
     AtMessage, LagBounded
<1> QED
  BY <1>1, <1>2, <1>3, <1>4, <1>5 DEF Next, Loop, Environment

-----------------------------------------------------------------------------
(* The inductive invariant.                                                *)

LEMMA InitInductive == Init => Inductive
  BY DEF Init, Inductive, EmergencyConsistent, EmergencyRemembered,
         EmergencyBounded, FrameDescribes, LampsConsistent, EmptyFrame

\* The frame's part is only touched by EncodeMessage.
LEMMA FrameKept ==
  ASSUME FrameDescribes, UNCHANGED <<m_startTime, m_state, frame, miliSecOfHour>>
  PROVE  FrameDescribes'
  BY DEF FrameDescribes, Mark

LEMMA EnvironmentInductive ==
  ASSUME TypeOK, Inductive, Environment PROVE Inductive'
<1> USE DEF Inductive
<1>1. FrameDescribes'
  BY FrameKept DEF Environment, Tick, pedestrianISR, emergencyISR, Accepted,
     closeProg, SendFails, AtMessage, frameVars
<1>2. EmergencyConsistent' /\ EmergencyRemembered'
  BY DEF EmergencyConsistent, EmergencyRemembered, Environment, Tick,
     pedestrianISR, emergencyISR, Accepted, closeProg, SendFails, AtMessage,
     phaseVars
<1>3. EmergencyBounded'
  BY DEF EmergencyBounded, Since, Environment, Tick, pedestrianISR,
     emergencyISR, Accepted, closeProg, SendFails, AtMessage, phaseVars
<1>4. LampsConsistent'
  BY DEF LampsConsistent, Environment, Tick, pedestrianISR, emergencyISR,
     Accepted, closeProg, SendFails, AtMessage, phaseVars
<1>5. QED
  BY <1>1, <1>2, <1>3, <1>4

LEMMA SampleInductive ==
  ASSUME TypeOK, Inductive, Sample PROVE Inductive'
<1> USE DEF Inductive, AtSample
<1>1. FrameDescribes'
  BY FrameKept DEF Sample, EnterEmergency, NoEmergency, frameVars
<1>2. EmergencyBounded'
  BY DEF EmergencyBounded, Sample, EnterEmergency, NoEmergency
<1>3. CASE EnterEmergency
  BY <1>1, <1>2, <1>3
  DEF EnterEmergency, EmergencyConsistent, EmergencyRemembered, LampsConsistent
<1>4. CASE NoEmergency
  BY <1>1, <1>2, <1>4
  DEF NoEmergency, EmergencyConsistent, EmergencyRemembered, LampsConsistent,
      phaseVars
<1>5. QED
  BY <1>3, <1>4 DEF Sample

LEMMA BranchInductive ==
  ASSUME TypeOK, Inductive, Branch PROVE Inductive'
<1> USE DEF Inductive, AtBranch
<1>1. FrameDescribes'
  BY FrameKept DEF Branch, LeaveEmergency, Blink, YieldToPedestrian,
     KeepPedestrianWaiting, ChangePhase, NothingDue, frameVars
<1>2. CASE LeaveEmergency
  BY <1>1, <1>2
  DEF LeaveEmergency, EmergencyConsistent, EmergencyRemembered,
      EmergencyBounded, LampsConsistent
<1>3. CASE Blink
  <2>1. EmergencyConsistent' /\ EmergencyRemembered'
    BY <1>3 DEF Blink, CallStateFunction, Follow, EmergencyConsistent,
                EmergencyRemembered
  <2>2. EmergencyBounded'
    <3>1. Since(stateLastTime) \in Clock /\ Time["EMERGENCY"] \in Clock
      BY MinusClock, DurationsAssumption DEF Since, TypeOK, State
    <3>2. Since(stateLastTime) <= Time["EMERGENCY"]
      BY <1>3, <3>1 DEF Blink, EmergencyOver, Clock
    <3>3. QED
      BY <1>3, <3>2 DEF Blink, EmergencyBounded, EmergencyRemembered, Since
  <2>3. LampsConsistent'
    BY <1>3 DEF Blink, CallStateFunction, LampsConsistent, EmergencyRemembered
  <2>4. QED
    BY <1>1, <2>1, <2>2, <2>3
<1>4. CASE YieldToPedestrian \/ KeepPedestrianWaiting
  BY <1>1, <1>4
  DEF YieldToPedestrian, KeepPedestrianWaiting, EmergencyConsistent,
      EmergencyRemembered, EmergencyBounded, LampsConsistent
<1>5. CASE ChangePhase
  <2>1. PICK s \in Phases :
          /\ currentState' = s /\ shown' = s
          /\ CallStateFunction(s)
    BY <1>5 DEF ChangePhase, Chosen, EmergencyConsistent, TypeOK, State
  <2>2. EmergencyConsistent' /\ EmergencyRemembered' /\ EmergencyBounded'
    BY <1>5, <2>1, Tables
    DEF ChangePhase, CallStateFunction, EmergencyConsistent,
        EmergencyRemembered, EmergencyBounded, State, Phases
  <2>3. LampsConsistent'
    BY <2>1 DEF CallStateFunction, LampsConsistent, Lights, Phases
  <2>4. QED
    BY <1>1, <2>2, <2>3
<1>6. CASE NothingDue
  <2>1. EmergencyConsistent' /\ EmergencyRemembered' /\ LampsConsistent'
    BY <1>6 DEF NothingDue, EmergencyConsistent, EmergencyRemembered,
                LampsConsistent, phaseVars
  <2>2. EmergencyBounded'
    <3>1. Since(stateLastTime) \in Clock /\ Time["EMERGENCY"] \in Clock
      BY MinusClock, DurationsAssumption DEF Since, TypeOK, State
    <3>2. f_emergency => Since(stateLastTime) <= Time["EMERGENCY"]
      BY <1>6, <3>1 DEF NothingDue, EmergencyOver, Clock
    <3>3. QED
      BY <1>6, <3>2
      DEF NothingDue, EmergencyBounded, EmergencyRemembered, Since, phaseVars
  <2>3. QED
    BY <1>1, <2>1, <2>2
<1>7. QED
  BY <1>2, <1>3, <1>4, <1>5, <1>6 DEF Branch

LEMMA MessageInductive ==
  ASSUME TypeOK, Inductive, Message PROVE Inductive'
<1> USE DEF Inductive, AtMessage
<1>1. EmergencyConsistent' /\ EmergencyRemembered' /\ EmergencyBounded'
  BY DEF Message, EncodeMessage, SendMessage, NoMessage, EmergencyConsistent,
         EmergencyRemembered, EmergencyBounded, phaseVars
<1>2. LampsConsistent'
  BY DEF Message, EncodeMessage, SendMessage, NoMessage, LampsConsistent,
         phaseVars
<1>3. FrameDescribes'
  <2>1. CASE EncodeMessage
    BY <2>1 DEF EncodeMessage, Encoding, EmptyFrame, FrameDescribes, Mark, TypeOK
  <2>2. CASE SendMessage \/ NoMessage
    BY <2>2, FrameKept DEF SendMessage, NoMessage, frameVars
  <2>3. QED
    BY <2>1, <2>2 DEF Message
<1>4. QED
  BY <1>1, <1>2, <1>3

LEMMA NextInductive == TypeOK /\ Inductive /\ [Next]_vars => Inductive'
<1> SUFFICES ASSUME TypeOK, Inductive, [Next]_vars PROVE Inductive'
  OBVIOUS
<1>1. CASE UNCHANGED vars
  BY <1>1 DEF Inductive, EmergencyConsistent, EmergencyRemembered,
              EmergencyBounded, FrameDescribes, LampsConsistent, Since, Mark,
              vars, phaseVars, frameVars
<1>2. QED
  BY <1>1, EnvironmentInductive, SampleInductive, BranchInductive,
     MessageInductive DEF Next, Loop

\* The invariant the safety theorems below are read off.
THEOREM Invariance == Spec => []Inductive
  BY InitType, NextType, InitInductive, NextInductive, PTL DEF Spec

-----------------------------------------------------------------------------
(* Safety.                                                                 *)

\* Flag and state agree on whether there is an emergency (main.c:76-91).
THEOREM EmergencyIsConsistent == Spec => []EmergencyConsistent
<1>1. Inductive => EmergencyConsistent
  BY DEF Inductive
<1>2. QED
  BY <1>1, Invariance, PTL

\* No press prolongs the emergency that is on (main.c:71-91).
THEOREM EmergencyIsBounded == Spec => []EmergencyBounded
<1>1. Inductive => EmergencyBounded
  BY DEF Inductive
<1>2. QED
  BY <1>1, Invariance, PTL

\* The lamps conflict only under an emergency (fsm.c:81-114).
THEOREM LampsAreConsistent == Spec => []LampsConsistent
<1>1. Inductive => LampsConsistent
  BY DEF Inductive
<1>2. QED
  BY <1>1, Invariance, PTL

\* Whatever is broadcast is true of the moment it is broadcast (main.c:151-169).
THEOREM FrameIsTruthful == Spec => []TruthfulFrame
<1>1. Inductive => TruthfulFrame
  BY DEF Inductive, FrameDescribes, TruthfulFrame, Described
<1>2. QED
  BY <1>1, Invariance, PTL

\* A pedestrian's request is only ever lost to an emergency (main.c:101-135).
THEOREM RequestIsKept == Spec => RequestKept
<1>1. TypeOK /\ Inductive /\ [Next]_vars =>
        [Pending /\ ~Pending' => shown' \in {"PEDESTRIAN", "EMERGENCY"}]_vars
  <2> SUFFICES ASSUME TypeOK, Inductive, Next, Pending, ~Pending'
               PROVE  shown' \in {"PEDESTRIAN", "EMERGENCY"}
    OBVIOUS
  <2> USE DEF Pending
  <2>1. CASE Environment \/ Message
    BY <2>1 DEF Environment, Tick, pedestrianISR, emergencyISR, Accepted,
       closeProg, SendFails, Message, EncodeMessage, SendMessage, NoMessage,
       AtMessage, buttonVars, phaseVars
  <2>2. CASE Sample
    BY <2>2 DEF Sample, EnterEmergency, NoEmergency, buttonVars, phaseVars
  <2>3. CASE Branch
    <3>1. CASE LeaveEmergency
      BY <3>1 DEF LeaveEmergency, Inductive, EmergencyConsistent
    <3>2. CASE Blink \/ NothingDue
      BY <3>2 DEF Blink, NothingDue, phaseVars
    <3>3. CASE YieldToPedestrian \/ KeepPedestrianWaiting
      BY <3>3 DEF YieldToPedestrian, KeepPedestrianWaiting
    <3>4. CASE ChangePhase
      BY <3>4 DEF ChangePhase, Chosen, Requested
    <3>5. QED
      BY <2>3, <3>1, <3>2, <3>3, <3>4 DEF Branch
  <2>4. QED
    BY <2>1, <2>2, <2>3 DEF Next, Loop
<1>2. QED
  BY <1>1, TypeCorrect, Invariance, PTL DEF Spec, RequestKept
=============================================================================
