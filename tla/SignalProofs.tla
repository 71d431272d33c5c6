---------------------------- MODULE SignalProofs ----------------------------
(***************************************************************************)
(* The loop implements Signal, for all durations under which an emergency  *)
(* has time to blink.  What the mapping rests on: the next state is always *)
(* the one after what the lamps show, and a grant is a pedestrian's or     *)
(* what an emergency left of one.                                          *)
(***************************************************************************)
EXTENDS TrafficSignal, TrafficLightProofs

\* An emergency that has not blinked would end in the phase that was next
\* before it.  The code has 500 ms and 12 s, and a loop of a few ms.
BlinksInTime == BlinkPeriod + MaxLag <= Time["EMERGENCY"]

\* The static time of the last blink begins every emergency at zero.
BlinkForgotten == ~f_emergency => emergencyLastTime = 0

\* The first blink, which makes green the next state, comes before the end.
BlinksFirst ==
  Running /\ f_emergency =>
    \/ nextState = "GREEN"
    \/ /\ emergencyLastTime = 0
       /\ \/ pc = "branch" /\ stateLastTime = currentTime
          \/ /\ stateLastTime <= currentTime
             /\ currentTime < BlinkPeriod + (IF pc = "branch" THEN MaxLag ELSE 0)

\* What follows is what the state function of the display returned.
NextFollows ==
  /\ nextState \in {"GREEN", "YELLOW", "RED"}
  /\ ~f_emergency => nextState = IF shown = "NONE" THEN "GREEN" ELSE Follow[shown]

\* A grant is a pedestrian's, unless an emergency took the state from it.
GrantMeant ==
  f_priority /\ ~f_emergency =>
    \/ currentState = "PEDESTRIAN"
    \/ currentState = "GREEN" /\ shown = "EMERGENCY"

Mapped ==
  /\ TypeOK /\ Inductive
  /\ LagBounded /\ BlinkForgotten /\ BlinksFirst /\ NextFollows /\ GrantMeant

-----------------------------------------------------------------------------
(* The invariant.                                                          *)

LEMMA InitMapped == Init => Mapped
<1> SUFFICES ASSUME Init PROVE Mapped
  OBVIOUS
<1> QED
  BY InitLag, InitType, InitInductive
  DEF Init, Mapped, BlinkForgotten, BlinksFirst, NextFollows, GrantMeant

\* Nothing but the loop's phases touches what the mapping speaks of.
LEMMA EnvironmentMapped ==
  ASSUME Mapped, Environment \/ Message
  PROVE  BlinkForgotten' /\ BlinksFirst' /\ NextFollows' /\ GrantMeant'
<1>1. /\ UNCHANGED phaseVars /\ UNCHANGED currentTime
      /\ \/ pc' = pc \/ pc' = "exited"
         \/ pc = "message" /\ pc' = "sample"
      \/ closeProg
  BY DEF Environment, Tick, pedestrianISR, emergencyISR, Accepted, SendFails,
     Message, EncodeMessage, SendMessage, NoMessage, AtMessage
<1>2. CASE closeProg
  BY <1>2 DEF closeProg, Mapped, BlinkForgotten, BlinksFirst, NextFollows,
     GrantMeant, Running
<1>3. CASE ~closeProg
  <2>1. BlinkForgotten' /\ NextFollows' /\ GrantMeant'
    BY <1>1, <1>3 DEF phaseVars, Mapped, BlinkForgotten, NextFollows, GrantMeant
  <2>2. BlinksFirst'
    BY <1>1, <1>3 DEF phaseVars, Mapped, BlinksFirst, Running
  <2> QED BY <2>1, <2>2
<1> QED BY <1>2, <1>3

LEMMA SampleMapped ==
  ASSUME BlinksInTime, Mapped, Sample
  PROVE  BlinkForgotten' /\ BlinksFirst' /\ NextFollows' /\ GrantMeant'
<1> USE DEF Mapped
<1>1. CASE EnterEmergency
  BY <1>1 DEF EnterEmergency, AtSample, BlinkForgotten, BlinksFirst, NextFollows,
     GrantMeant
<1>2. CASE NoEmergency
  <2>1. BlinkForgotten' /\ NextFollows' /\ GrantMeant'
    BY <1>2 DEF NoEmergency, phaseVars, BlinkForgotten, NextFollows, GrantMeant
  <2>2. ASSUME f_emergency, nextState # "GREEN"
        PROVE  stateLastTime <= clock /\ clock < BlinkPeriod + MaxLag
    <3>1. stateLastTime <= currentTime /\ currentTime < BlinkPeriod
      BY <1>2, <2>2, DurationsAssumption
      DEF NoEmergency, AtSample, BlinksFirst, Running
    <3>2. Minus(clock, currentTime) <= MaxLag
      BY DEF LagBounded
    <3>3. /\ clock \in Clock /\ currentTime \in Clock /\ stateLastTime \in Clock
          /\ Wrap \in Nat /\ MaxLag \in Nat /\ BlinkPeriod \in Nat
          /\ Time["EMERGENCY"] \in Clock
      BY DurationsAssumption DEF TypeOK, State
    <3>4. BlinkPeriod + MaxLag < Wrap
      BY <3>3 DEF BlinksInTime, Clock
    <3>5. clock >= currentTime
      BY <3>1, <3>2, <3>3, <3>4 DEF Minus, Clock
    <3> QED
      BY <3>1, <3>2, <3>3, <3>5 DEF Minus, Clock
  <2>3. f_emergency /\ nextState # "GREEN" => emergencyLastTime = 0
    BY <1>2 DEF NoEmergency, AtSample, BlinksFirst, Running
  <2>4. BlinksFirst'
    BY <1>2, <2>2, <2>3 DEF NoEmergency, AtSample, phaseVars, BlinksFirst
  <2> QED BY <2>1, <2>4
<1> QED BY <1>1, <1>2 DEF Sample

\* An emergency ends after it has blinked.
LEMMA EndsGreen ==
  ASSUME BlinksInTime, Mapped, LeaveEmergency
  PROVE  nextState = "GREEN"
<1> SUFFICES ASSUME nextState # "GREEN" PROVE FALSE
  OBVIOUS
<1> USE DEF Mapped
<1>1. \/ stateLastTime = currentTime
      \/ stateLastTime <= currentTime /\ currentTime < BlinkPeriod + MaxLag
  BY DEF BlinksFirst, Running, LeaveEmergency, AtBranch
<1>2. Since(stateLastTime) > Time["EMERGENCY"]
  BY DEF LeaveEmergency, EmergencyOver
<1>3. /\ currentTime \in Clock /\ stateLastTime \in Clock
      /\ Wrap \in Nat /\ MaxLag \in Nat /\ BlinkPeriod \in Nat
      /\ Time["EMERGENCY"] \in Clock
  BY DurationsAssumption DEF TypeOK, State
<1> QED
  BY <1>1, <1>2, <1>3 DEF Since, Minus, Clock, BlinksInTime

LEMMA BranchMapped ==
  ASSUME BlinksInTime, Mapped, Branch
  PROVE  BlinkForgotten' /\ BlinksFirst' /\ NextFollows' /\ GrantMeant'
<1> USE DEF Mapped, AtBranch
<1>1. CASE LeaveEmergency
  <2>1. nextState = "GREEN" /\ shown = "EMERGENCY"
    BY <1>1, EndsGreen DEF LeaveEmergency, Inductive, EmergencyRemembered
  <2> QED
    BY <1>1, <2>1 DEF LeaveEmergency, BlinkForgotten, BlinksFirst, NextFollows,
       GrantMeant, Follow
<1>2. CASE Blink
  BY <1>2 DEF Blink, CallStateFunction, Follow, BlinkForgotten, BlinksFirst,
     NextFollows, GrantMeant
<1>3. CASE YieldToPedestrian \/ KeepPedestrianWaiting
  BY <1>3 DEF YieldToPedestrian, KeepPedestrianWaiting, BlinkForgotten,
     BlinksFirst, NextFollows, GrantMeant
<1>4. CASE ChangePhase
  <2>1. Chosen \in Phases
    BY <1>4 DEF ChangePhase, Chosen, Inductive, EmergencyConsistent, TypeOK, State
  <2>2. nextState' = Follow[Chosen] /\ shown' = Chosen
    BY <1>4 DEF ChangePhase, CallStateFunction
  <2>3. NextFollows'
    BY <2>1, <2>2 DEF NextFollows, Follow, Phases
  <2> QED
    BY <1>4, <2>3 DEF ChangePhase, BlinkForgotten, BlinksFirst, GrantMeant
<1>5. CASE NothingDue
  <2>1. BlinkForgotten' /\ NextFollows' /\ GrantMeant'
    BY <1>5 DEF NothingDue, phaseVars, BlinkForgotten, NextFollows, GrantMeant
  <2>2. ASSUME f_emergency, nextState # "GREEN"
        PROVE  /\ emergencyLastTime = 0
               /\ stateLastTime <= currentTime /\ currentTime < BlinkPeriod
    <3>1. /\ currentTime \in Clock /\ stateLastTime \in Clock
          /\ Wrap \in Nat /\ BlinkPeriod \in Nat
      BY DurationsAssumption DEF TypeOK
    <3>2. emergencyLastTime = 0 /\ stateLastTime <= currentTime
      BY <1>5, <2>2, <3>1 DEF NothingDue, BlinksFirst, Running, Clock
    <3>3. ~(Since(0) >= BlinkPeriod)
      BY <1>5, <2>2, <3>2 DEF NothingDue, BlinkDue
    <3> QED
      BY <3>1, <3>2, <3>3 DEF Since, Minus, Clock
  <2>3. BlinksFirst'
    BY <1>5, <2>2, DurationsAssumption DEF NothingDue, phaseVars, BlinksFirst, TypeOK
  <2> QED BY <2>1, <2>3
<1> QED
  BY <1>1, <1>2, <1>3, <1>4, <1>5 DEF Branch

LEMMA NextMapped ==
  ASSUME BlinksInTime, Mapped, [Next]_vars
  PROVE  Mapped'
<1>1. TypeOK' /\ Inductive'
  BY NextType, NextInductive DEF Mapped
<1>2. CASE UNCHANGED vars
  BY <1>1, <1>2 DEF vars, phaseVars, Mapped, LagBounded, BlinkForgotten,
     BlinksFirst, NextFollows, GrantMeant, Running
<1>3. CASE Next
  <2>1. LagBounded'
    BY <1>3, LagKept DEF Mapped
  <2>2. BlinkForgotten' /\ BlinksFirst' /\ NextFollows' /\ GrantMeant'
    BY <1>3, EnvironmentMapped, SampleMapped, BranchMapped DEF Next, Loop
  <2> QED BY <1>1, <2>1, <2>2 DEF Mapped
<1> QED BY <1>2, <1>3

-----------------------------------------------------------------------------
(* Every step is one of Signal, or none.                                   *)

SignalStep == [Roadside!Next]_(Roadside!vars)

LEMMA EnvironmentIsSignal ==
  ASSUME Mapped, Environment \/ Message
  PROVE  SignalStep
<1>1. CASE Tick \/ emergencyISR \/ Message
  <2>1. UNCHANGED <<shown, Pending, Running>>
    BY <1>1 DEF Tick, emergencyISR, Accepted, Message, EncodeMessage, SendMessage,
       NoMessage, AtMessage, buttonVars, phaseVars, Pending, Running
  <2> QED BY <2>1 DEF SignalStep, Roadside!vars
<1>2. CASE pedestrianISR
  <2>1. Roadside!Ask
    BY <1>2 DEF pedestrianISR, Accepted, phaseVars, Pending, Running, Roadside!Ask
  <2> QED BY <2>1 DEF SignalStep, Roadside!Next
<1>3. CASE closeProg \/ SendFails
  <2>1. Roadside!Stop
    BY <1>3 DEF closeProg, SendFails, AtMessage, buttonVars, phaseVars, Pending,
       Running, Roadside!Stop
  <2> QED BY <2>1 DEF SignalStep, Roadside!Next
<1> QED BY <1>1, <1>2, <1>3 DEF Environment

LEMMA SampleIsSignal ==
  ASSUME Mapped, Sample
  PROVE  SignalStep
<1>1. CASE EnterEmergency
  <2>1. Roadside!Preempt
    BY <1>1 DEF EnterEmergency, AtSample, Pending, Running, Roadside!Preempt,
       Mapped, TypeOK
  <2> QED BY <2>1 DEF SignalStep, Roadside!Next
<1>2. CASE NoEmergency
  <2>1. UNCHANGED <<shown, Pending, Running>>
    BY <1>2 DEF NoEmergency, AtSample, buttonVars, phaseVars, Pending, Running
  <2> QED BY <2>1 DEF SignalStep, Roadside!vars
<1> QED BY <1>1, <1>2 DEF Sample

LEMMA BranchIsSignal ==
  ASSUME BlinksInTime, Mapped, Branch
  PROVE  SignalStep
<1> USE DEF AtBranch
<1>1. CASE LeaveEmergency
  <2>1. nextState = "GREEN" /\ currentState = "EMERGENCY"
    BY <1>1, EndsGreen DEF LeaveEmergency, Mapped, Inductive, EmergencyConsistent
  <2>2. UNCHANGED <<shown, Pending, Running>>
    BY <1>1, <2>1 DEF LeaveEmergency, Pending, Running
  <2> QED BY <2>2 DEF SignalStep, Roadside!vars
<1>2. CASE Blink \/ YieldToPedestrian \/ KeepPedestrianWaiting \/ NothingDue
  <2>1. CASE Blink \/ NothingDue
    <3>1. UNCHANGED <<shown, Pending, Running>>
      BY <2>1 DEF Blink, NothingDue, phaseVars, Pending, Running
    <3> QED BY <3>1 DEF SignalStep, Roadside!vars
  <2>2. CASE YieldToPedestrian \/ KeepPedestrianWaiting
    <3>1. Pending /\ Pending' /\ UNCHANGED <<shown, Running>>
      BY <2>2 DEF YieldToPedestrian, KeepPedestrianWaiting, Requested, Pending,
         Running
    <3> QED BY <3>1 DEF SignalStep, Roadside!vars
  <2> QED BY <1>2, <2>1, <2>2
<1>3. CASE ChangePhase
  <2>1. /\ Running /\ Running' /\ ~pedestrianBtn /\ ~f_pedestrianWaiting
        /\ shown' = Chosen /\ ~Pending' /\ ~f_emergency
    BY <1>3 DEF ChangePhase, Requested, Running, Pending
  <2>2. CASE f_priority /\ currentState = "PEDESTRIAN"
    <3>1. Roadside!Serve
      BY <2>1, <2>2 DEF Chosen, Pending, Roadside!Serve
    <3> QED BY <3>1 DEF SignalStep, Roadside!Next
  <2>3. CASE f_priority /\ currentState # "PEDESTRIAN"
    <3>1. currentState = "GREEN" /\ shown = "EMERGENCY"
      BY <2>1, <2>3 DEF Mapped, GrantMeant
    <3>2. Roadside!Restart
      BY <2>1, <2>3, <3>1 DEF Chosen, Pending, Roadside!Restart
    <3> QED BY <3>2 DEF SignalStep, Roadside!Next
  <2>4. CASE ~f_priority
    <3>1. /\ ~Pending /\ shown' = nextState
          /\ nextState = IF shown = "NONE" THEN "GREEN" ELSE Follow[shown]
      BY <2>1, <2>4 DEF Chosen, Pending, Mapped, NextFollows
    <3>2. Pending' = Pending /\ Running' = Running
      <4>1. Pending' = FALSE /\ Pending = FALSE
        BY <2>1, <3>1 DEF Pending
      <4>2. Running' = TRUE /\ Running = TRUE
        BY <2>1 DEF Running
      <4> QED BY <4>1, <4>2
    <3>3. CASE shown \in {"NONE", "EMERGENCY"}
      <4>1. shown' = "GREEN"
        BY <3>1, <3>3 DEF Follow
      <4>2. Roadside!Restart
        BY <2>1, <3>1, <3>2, <3>3, <4>1 DEF Roadside!Restart
      <4> QED BY <4>2 DEF SignalStep, Roadside!Next
    <3>4. CASE shown \in Roadside!Cycle
      <4>1. shown' = CASE shown = "GREEN"  -> "YELLOW"
                       [] shown = "YELLOW" -> "RED"
                       [] OTHER            -> "GREEN"
        BY <3>1, <3>4 DEF Roadside!Cycle, Follow
      <4>2. Roadside!Advance
        BY <2>1, <3>1, <3>2, <3>4, <4>1 DEF Roadside!Advance
      <4> QED BY <4>2 DEF SignalStep, Roadside!Next
    <3> QED
      BY <3>3, <3>4 DEF Mapped, TypeOK, State, Phases, Roadside!Cycle
  <2> QED BY <2>2, <2>3, <2>4
<1> QED BY <1>1, <1>2, <1>3 DEF Branch

\* Whatever the durations, if only an emergency has time to blink, the roadside
\* sees nothing but what Signal allows (main.c:66-136).
THEOREM SignalIsImplemented ==
  ASSUME BlinksInTime
  PROVE  Spec => ImplementsSignal
<1>1. Init => Mapped
  BY InitMapped
<1>2. Mapped /\ [Next]_vars => Mapped'
  BY NextMapped
<1>3. Init => Roadside!Init
  BY DEF Init, Roadside!Init, Pending, Running
<1>4. Mapped /\ [Next]_vars => [Roadside!Next]_(Roadside!vars)
  <2> SUFFICES ASSUME Mapped, [Next]_vars PROVE SignalStep
    BY DEF SignalStep
  <2>1. CASE UNCHANGED vars
    BY <2>1 DEF vars, buttonVars, phaseVars, SignalStep, Roadside!vars, Pending,
       Running
  <2> QED
    BY <2>1, EnvironmentIsSignal, SampleIsSignal, BranchIsSignal DEF Next, Loop
<1> QED
  BY <1>1, <1>2, <1>3, <1>4, PTL DEF Spec, ImplementsSignal, Roadside!Spec
=============================================================================
