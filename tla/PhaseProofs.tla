----------------------------- MODULE PhaseProofs -----------------------------
(***************************************************************************)
(* How long a phase is on the lamps: not less than its minimum time unless *)
(* an emergency comes, and not much more than its time.  The difficulty is *)
(* a grant: it is decided in one iteration and displayed in a later one,   *)
(* and a press that falls between renews it, now against the minimum time  *)
(* of a pedestrian.  An iteration that is short against the debounce has   *)
(* at most one such press, and a word that is long against the phases      *)
(* keeps every difference of times that the loop takes below its wrap.     *)
(* And how long the lamps of an emergency stay when it is over.            *)
(***************************************************************************)
EXTENDS TrafficLightProofs

\* The longest a phase should last.
Longest(s) == IF Time[s] < TimeMin["PEDESTRIAN"] THEN TimeMin["PEDESTRIAN"]
                                                 ELSE Time[s]

\* A loop of a few ms, a debounce of 50 ms, phases of seconds with a minimum
\* below them, and a clock that wraps after 49 days.
ShortIterations ==
  /\ 3 * MaxLag <= debounceDelay
  /\ \A s \in Phases : TimeMin[s] <= Time[s] /\ Longest(s) + 3 * MaxLag < Wrap

-----------------------------------------------------------------------------
(* The invariant.                                                          *)

Lag   == Minus(clock, currentTime)
Age   == Since(startTime)
heard == quiet["pedestrian"]

\* The stamps are those of the phase on the lamps.
PhaseTimed ==
  shown \in Phases =>
    /\ ~f_emergency /\ stateLastTime = startTime /\ waitTime = Time[shown]
    /\ currentState = IF f_priority THEN "PEDESTRIAN" ELSE shown

\* A press that the loop has not looked at yet came after it looked last.
FreshPress(slack) == pedestrianBtn => heard <= slack + Lag

\* A grant of the last iteration that found the minimum time over, or a
\* request that waits for the minimum of a pedestrian.
Granted(slack) ==
  /\ Age <= Longest(shown) + MaxLag + slack
  /\ f_pedestrianWaiting => Age <= Longest(shown) + slack
  /\ FreshPress(slack)

\* A grant that a press renewed: no other press can follow it.
Renewed(slack) ==
  /\ Age <= Longest(shown) + 2 * MaxLag + slack
  /\ ~pedestrianBtn /\ ~f_pedestrianWaiting
  /\ heard <= MaxLag + slack + Lag

\* The sample of the clock lets up to MaxLag pass.
PhaseAged ==
  shown \in Phases /\ Running =>
    LET slack == IF pc = "branch" THEN MaxLag ELSE 0
    IN  /\ ~f_priority => Age <= Longest(shown) + slack
        /\ f_priority => /\ TimeMin[shown] <= Age
                         /\ Granted(slack) \/ Renewed(slack)

Phased == TypeOK /\ Inductive /\ LagBounded /\ PhaseTimed /\ PhaseAged

-----------------------------------------------------------------------------
(* Differences of times.                                                   *)

\* Two differences add up below the wrap.
LEMMA MinusAdds ==
  ASSUME NEW a \in Clock, NEW b \in Clock, NEW c \in Clock,
         Minus(b, a) + Minus(c, b) < Wrap
  PROVE  Minus(c, a) = Minus(b, a) + Minus(c, b)
BY DurationsAssumption DEF Minus, Clock

\* What the assumptions say of a phase, as numbers.
LEMMA PhaseNumbers ==
  ASSUME ShortIterations, NEW s \in Phases
  PROVE  /\ Wrap \in Nat /\ MaxLag \in Nat \ {0} /\ debounceDelay \in Nat
         /\ Time[s] \in Nat /\ TimeMin[s] \in Nat /\ Longest(s) \in Nat
         /\ TimeMin["PEDESTRIAN"] \in Nat /\ TimeMin[s] <= Time[s]
         /\ Time[s] <= Longest(s) /\ TimeMin["PEDESTRIAN"] <= Longest(s)
         /\ Longest(s) + 3 * MaxLag < Wrap /\ 3 * MaxLag <= debounceDelay
<1>1. /\ Time[s] \in Nat /\ TimeMin[s] \in Nat /\ TimeMin["PEDESTRIAN"] \in Nat
      /\ Wrap \in Nat /\ MaxLag \in Nat \ {0} /\ debounceDelay \in Nat
  BY DurationsAssumption DEF State, Phases, Clock
<1>2. /\ TimeMin[s] <= Time[s]
      /\ Longest(s) + 3 * MaxLag < Wrap /\ 3 * MaxLag <= debounceDelay
  BY DEF ShortIterations
<1>3. Longest(s) \in Nat /\ Time[s] <= Longest(s) /\ TimeMin["PEDESTRIAN"] <= Longest(s)
  BY <1>1 DEF Longest
<1> QED
  BY <1>1, <1>2, <1>3

\* The differences the invariant speaks of are natural numbers.
LEMMA TimeNumbers ==
  ASSUME TypeOK
  PROVE  /\ Age \in Nat /\ Lag \in Nat /\ heard \in 0 .. debounceDelay + 1
         /\ clock \in Clock /\ currentTime \in Clock /\ startTime \in Clock
<1>1. clock \in Clock /\ currentTime \in Clock /\ startTime \in Clock
  BY DEF TypeOK
<1>2. Age \in Clock /\ Lag \in Clock
  BY <1>1, MinusClock DEF Age, Since, Lag
<1> QED
  BY <1>1, <1>2 DEF Clock, heard, TypeOK, Button

-----------------------------------------------------------------------------
(* Each step keeps the invariant.                                          *)

LEMMA InitPhased == Init => Phased
<1>1. Init => PhaseTimed /\ PhaseAged
  BY DEF Init, PhaseTimed, PhaseAged, Phases
<1> QED
  BY <1>1, InitType, InitInductive, InitLag DEF Phased

\* Time: the lag grows, and with it the time since a press.
LEMMA TickAged ==
  ASSUME ShortIterations, Phased, Tick
  PROVE  PhaseAged'
<1> SUFFICES ASSUME shown \in Phases, Running
             PROVE  PhaseAged'
  BY DEF Tick, phaseVars, PhaseAged, Running
<1> DEFINE D == debounceDelay
<1>1. /\ Lag \in Nat /\ heard \in 0 .. D + 1 /\ Age \in Nat
      /\ clock \in Clock /\ currentTime \in Clock
  BY TimeNumbers DEF Phased
<1>2. Lag < MaxLag /\ MaxLag < Wrap /\ Wrap \in Nat /\ MaxLag \in Nat /\ D \in Nat
      /\ 3 * MaxLag <= D
  BY PhaseNumbers DEF Tick, Lag
<1>3. Lag' = Lag + 1
  BY <1>1, <1>2 DEF Tick, Lag, Minus, Plus, Clock
<1>4. heard' = IF heard > D THEN heard ELSE heard + 1
  BY DEF Tick, heard, Phased, TypeOK, Button
<1>5. Age' = Age /\ UNCHANGED <<pc, phaseVars, pedestrianBtn>>
  BY DEF Tick, Age, Since, phaseVars
<1>6. heard' <= heard + 1
  BY <1>1, <1>2, <1>4
<1> DEFINE slack == IF pc = "branch" THEN MaxLag ELSE 0
<1>7. slack \in Nat /\ slack' = slack /\ Longest(shown)' = Longest(shown)
      /\ Longest(shown) \in Nat
  BY <1>2, <1>5, PhaseNumbers DEF Longest, phaseVars
<1>8. /\ ~f_priority => Age <= Longest(shown) + slack
      /\ f_priority => /\ TimeMin[shown] <= Age
                       /\ Granted(slack) \/ Renewed(slack)
  BY DEF Phased, PhaseAged
<1> HIDE DEF slack
<1>9. Granted(slack) => Granted(slack)'
  BY <1>1, <1>2, <1>3, <1>4, <1>5, <1>6, <1>7 DEF Granted, FreshPress, phaseVars
<1>10. Renewed(slack) => Renewed(slack)'
  BY <1>1, <1>2, <1>3, <1>4, <1>5, <1>6, <1>7 DEF Renewed, phaseVars
<1> QED
  BY <1>5, <1>8, <1>9, <1>10 DEF PhaseAged, phaseVars, slack

\* A press after a renewal is within the debounce of the one that renewed.
LEMMA PressAged ==
  ASSUME ShortIterations, Phased, pedestrianISR
  PROVE  PhaseAged'
<1> SUFFICES ASSUME shown \in Phases, Running
             PROVE  PhaseAged'
  BY DEF pedestrianISR, Accepted, phaseVars, PhaseAged, Running
<1> DEFINE D == debounceDelay
           slack == IF pc = "branch" THEN MaxLag ELSE 0
<1>1. Lag \in Nat /\ heard \in 0 .. D + 1 /\ Age \in Nat
  BY TimeNumbers DEF Phased
<1>2. /\ Wrap \in Nat /\ MaxLag \in Nat /\ D \in Nat /\ 3 * MaxLag <= D
      /\ Lag <= MaxLag
  BY PhaseNumbers DEF Phased, LagBounded, Lag
<1>3. heard > D /\ heard' = 0
  BY DEF pedestrianISR, Accepted, heard, Phased, TypeOK, Button
<1>4. /\ Age' = Age /\ Lag' = Lag
      /\ UNCHANGED <<pc, phaseVars>>
  BY DEF pedestrianISR, Accepted, Age, Since, Lag, phaseVars
<1>5. slack \in 0 .. MaxLag /\ slack' = slack /\ Longest(shown)' = Longest(shown)
      /\ Longest(shown) \in Nat
  BY <1>2, <1>4, PhaseNumbers DEF Longest, phaseVars
<1>6. /\ ~f_priority => Age <= Longest(shown) + slack
      /\ f_priority => /\ TimeMin[shown] <= Age
                       /\ Granted(slack) \/ Renewed(slack)
  BY DEF Phased, PhaseAged
<1> HIDE DEF slack
<1>7. Granted(slack) => Granted(slack)'
  BY <1>1, <1>2, <1>3, <1>4, <1>5 DEF Granted, FreshPress, phaseVars
<1>8. ~Renewed(slack)
  BY <1>1, <1>2, <1>3, <1>5 DEF Renewed
<1> QED
  BY <1>4, <1>6, <1>7, <1>8 DEF PhaseAged, phaseVars, slack

\* The loop reads the clock: the lag becomes age.
LEMMA SampleAged ==
  ASSUME ShortIterations, Phased, Sample
  PROVE  PhaseAged'
<1>1. CASE EnterEmergency
  BY <1>1 DEF EnterEmergency, PhaseAged, Phases
<1>2. CASE NoEmergency
  <2> SUFFICES ASSUME shown \in Phases
               PROVE  PhaseAged'
    BY <1>2 DEF NoEmergency, phaseVars, PhaseAged
  <2> DEFINE L == Longest(shown)
  <2>1. /\ Lag \in Nat /\ heard \in 0 .. debounceDelay + 1 /\ Age \in Nat
        /\ clock \in Clock /\ currentTime \in Clock /\ startTime \in Clock
    BY TimeNumbers DEF Phased
  <2>2. /\ Wrap \in Nat /\ MaxLag \in Nat /\ L \in Nat /\ L + 3 * MaxLag < Wrap
        /\ Lag <= MaxLag /\ TimeMin[shown] \in Nat
    BY PhaseNumbers DEF Phased, LagBounded, Lag
  <2>3. /\ ~f_priority => Age <= L
        /\ f_priority => TimeMin[shown] <= Age /\ (Granted(0) \/ Renewed(0))
    BY <1>2, <2>1, <2>2 DEF Phased, PhaseAged, NoEmergency, AtSample, Running
  <2>4. Age <= L + 2 * MaxLag
    <3>1. Granted(0) => Age <= L + MaxLag + 0
      BY DEF Granted
    <3>2. Renewed(0) => Age <= L + 2 * MaxLag + 0
      BY DEF Renewed
    <3> HIDE DEF L
    <3> QED
      BY <2>1, <2>2, <2>3, <3>1, <3>2
  <2>5. /\ currentTime' = clock /\ clock' = clock /\ pc' = "branch"
        /\ UNCHANGED <<phaseVars, quiet, pedestrianBtn>>
    BY <1>2 DEF NoEmergency, AtSample, buttonVars
  <2> HIDE DEF L
  <2>6. Age' = Age + Lag
    <3>1. Age + Lag < Wrap
      BY <2>1, <2>2, <2>4
    <3>2. Minus(clock, startTime) = Age + Lag
      BY <2>1, <3>1, MinusAdds DEF Age, Since, Lag
    <3> QED
      BY <2>5, <3>2 DEF Age, Since, phaseVars
  <2>7. Lag' = 0
    BY <2>1, <2>5 DEF Lag, Minus, Clock
  <2>8. heard' = heard /\ Longest(shown)' = L
    BY <2>5 DEF heard, Longest, L, phaseVars
  <2>9. Granted(0) => Granted(MaxLag)'
    BY <2>1, <2>2, <2>5, <2>6, <2>7, <2>8 DEF Granted, FreshPress, phaseVars, L
  <2>10. Renewed(0) => Renewed(MaxLag)'
    BY <2>1, <2>2, <2>5, <2>6, <2>7, <2>8 DEF Renewed, phaseVars, L
  <2>11. ~f_priority => Age' <= L + MaxLag
    BY <2>1, <2>2, <2>3, <2>6
  <2>12. f_priority => TimeMin[shown] <= Age'
    BY <2>1, <2>2, <2>3, <2>6
  <2> QED
    BY <2>3, <2>5, <2>8, <2>9, <2>10, <2>11, <2>12 DEF PhaseAged, phaseVars
<1> QED
  BY <1>1, <1>2 DEF Sample

\* The loop decides: a grant, a renewed grant, a wait, or a new phase.
LEMMA BranchAged ==
  ASSUME ShortIterations, Phased, Branch
  PROVE  PhaseTimed' /\ PhaseAged'
<1> USE DEF AtBranch
<1>1. CASE LeaveEmergency \/ Blink
  <2>1. shown = "EMERGENCY" /\ shown' = shown
    BY <1>1 DEF LeaveEmergency, Blink, Phased, Inductive, EmergencyRemembered
  <2> QED
    BY <2>1 DEF PhaseTimed, PhaseAged, Phases
<1>2. CASE ChangePhase
  <2>1. Chosen \in Phases
    BY <1>2 DEF ChangePhase, Chosen, Phased, Inductive, EmergencyConsistent,
       TypeOK, State
  <2>2. /\ shown' = Chosen /\ currentState' = Chosen /\ ~f_priority'
        /\ waitTime' = Time[Chosen] /\ ~f_emergency' /\ pc' = "message"
        /\ startTime' = currentTime /\ stateLastTime' = currentTime
        /\ currentTime' = currentTime
    BY <1>2 DEF ChangePhase
  <2>3. Age' = 0
    BY <2>2, TimeNumbers DEF Phased, Age, Since, Minus, Clock
  <2>4. Longest(Chosen) \in Nat
    BY <2>1, PhaseNumbers
  <2>5. Age' <= Longest(shown)' + 0
    BY <2>2, <2>3, <2>4 DEF Longest
  <2> QED
    BY <2>2, <2>5 DEF PhaseTimed, PhaseAged
<1>3. CASE YieldToPedestrian \/ KeepPedestrianWaiting \/ NothingDue
  <2>1. shown' = shown /\ pc' = "message" /\ currentTime' = currentTime
        /\ startTime' = startTime /\ stateLastTime' = stateLastTime
        /\ waitTime' = waitTime /\ clock' = clock /\ quiet' = quiet
        /\ f_emergency' = f_emergency
    BY <1>3 DEF YieldToPedestrian, KeepPedestrianWaiting, NothingDue, phaseVars
  <2> SUFFICES ASSUME shown \in Phases PROVE PhaseTimed' /\ PhaseAged'
    BY <2>1 DEF PhaseTimed, PhaseAged
  <2> DEFINE L == Longest(shown)
  <2>2. /\ Lag \in Nat /\ heard \in 0 .. debounceDelay + 1 /\ Age \in Nat
    BY TimeNumbers DEF Phased
  <2>3. /\ Wrap \in Nat /\ MaxLag \in Nat /\ L \in Nat
        /\ TimeMin[shown] \in Nat /\ TimeMin["PEDESTRIAN"] \in Nat
        /\ TimeMin["PEDESTRIAN"] <= L /\ TimeMin[shown] <= Time[shown]
        /\ Time[shown] <= L /\ Time[shown] \in Nat
    BY PhaseNumbers
  <2>4. /\ ~f_priority => Age <= L + MaxLag
        /\ f_priority => /\ TimeMin[shown] <= Age
                         /\ Granted(MaxLag) \/ Renewed(MaxLag)
    BY <1>3 DEF Phased, PhaseAged, Running, YieldToPedestrian,
       KeepPedestrianWaiting, NothingDue
  <2>5. /\ ~f_emergency /\ stateLastTime = startTime /\ waitTime = Time[shown]
        /\ currentState = IF f_priority THEN "PEDESTRIAN" ELSE shown
    BY DEF Phased, PhaseTimed
  <2>6. Since(stateLastTime) = Age
    BY <2>5 DEF Age
  <2>7. Age' = Age /\ Lag' = Lag /\ heard' = heard /\ Longest(shown)' = L
    BY <2>1 DEF Age, Since, Lag, heard, Longest
  <2> HIDE DEF L
  <2>8. CASE YieldToPedestrian
    <3>1. /\ currentState' = "PEDESTRIAN" /\ f_priority'
          /\ ~f_pedestrianWaiting' /\ ~pedestrianBtn'
          /\ pedestrianBtn \/ f_pedestrianWaiting
      BY <2>8 DEF YieldToPedestrian, Requested
    <3>2. TimeMin[shown] <= Age
      BY <2>4, <2>5, <2>6, <2>8 DEF YieldToPedestrian, MayYield
    <3>3. CASE ~f_priority
      <4>1. Granted(0)'
        BY <2>2, <2>3, <2>4, <2>7, <3>1, <3>3 DEF Granted, FreshPress
      <4> QED
        BY <2>1, <2>5, <2>7, <3>1, <3>2, <4>1 DEF PhaseTimed, PhaseAged
    <3>4. CASE f_priority /\ f_pedestrianWaiting
      <4>1. Age <= L + MaxLag
        BY <2>4, <3>4 DEF Granted, Renewed, L
      <4>2. Granted(0)'
        BY <2>2, <2>3, <2>7, <3>1, <4>1 DEF Granted, FreshPress
      <4> QED
        BY <2>1, <2>5, <2>7, <3>1, <3>2, <4>2 DEF PhaseTimed, PhaseAged
    <3>5. CASE f_priority /\ ~f_pedestrianWaiting
      <4>1. pedestrianBtn /\ Granted(MaxLag)
        BY <2>4, <3>1, <3>5 DEF Renewed
      <4>2. Age <= L + MaxLag + MaxLag /\ heard <= MaxLag + Lag
        BY <4>1 DEF Granted, FreshPress, L
      <4>3. Renewed(0)'
        BY <2>2, <2>3, <2>7, <3>1, <4>2 DEF Renewed
      <4> QED
        BY <2>1, <2>5, <2>7, <3>1, <3>2, <4>3 DEF PhaseTimed, PhaseAged
    <3> QED BY <3>3, <3>4, <3>5
  <2>9. CASE KeepPedestrianWaiting
    <3>1. /\ currentState' = currentState /\ f_priority' = f_priority
          /\ f_pedestrianWaiting' /\ ~pedestrianBtn'
      BY <2>9 DEF KeepPedestrianWaiting
    <3>2. ~(Age >= TimeMin[currentState])
      BY <2>5, <2>6, <2>9 DEF KeepPedestrianWaiting, MayYield, Phases
    <3>3. Age <= L
      BY <2>2, <2>3, <2>5, <3>2
    <3>4. Granted(0)'
      BY <2>2, <2>3, <2>7, <3>1, <3>3 DEF Granted, FreshPress
    <3>5. Age' <= Longest(shown)' + 0
      BY <2>2, <2>3, <2>7, <3>3
    <3> QED
      BY <2>1, <2>4, <2>5, <2>7, <3>1, <3>4, <3>5 DEF PhaseTimed, PhaseAged
  <2>10. CASE NothingDue
    <3>1. ~f_priority /\ ~(Age >= waitTime) /\ UNCHANGED phaseVars
      BY <2>5, <2>6, <2>10 DEF NothingDue, ChangeDue
    <3>2. Age' <= Longest(shown)' + 0
      BY <2>2, <2>3, <2>5, <2>7, <3>1
    <3> QED
      BY <2>1, <2>5, <3>1, <3>2 DEF PhaseTimed, PhaseAged, phaseVars
  <2> QED
    BY <1>3, <2>8, <2>9, <2>10
<1> QED
  BY <1>1, <1>2, <1>3 DEF Branch

\* The rest has no say in phases.
LEMMA OthersAged ==
  ASSUME Phased, emergencyISR \/ closeProg \/ SendFails \/ Message
  PROVE  PhaseAged'
<1>1. CASE closeProg \/ SendFails
  BY <1>1 DEF closeProg, SendFails, PhaseAged, Running
<1>2. CASE emergencyISR \/ Message
  <2>1. /\ UNCHANGED <<phaseVars, clock, currentTime, pedestrianBtn, heard>>
        /\ pc' = pc \/ (pc = "message" /\ pc' = "sample")
    <3>1. CASE emergencyISR
      <4>1. heard' = heard
        BY <3>1 DEF emergencyISR, Accepted, heard, Phased, TypeOK, Button
      <4> QED
        BY <3>1, <4>1 DEF emergencyISR, Accepted
    <3>2. CASE Message
      BY <3>2 DEF Message, EncodeMessage, SendMessage, NoMessage, AtMessage,
         buttonVars, heard
    <3> QED
      BY <1>2, <3>1, <3>2
  <2>2. /\ Age' = Age /\ Lag' = Lag /\ heard' = heard
        /\ Longest(shown)' = Longest(shown)
    BY <2>1 DEF Age, Since, Lag, Longest, phaseVars
  <2>3. Granted(0)' = Granted(0) /\ Renewed(0)' = Renewed(0)
    BY <2>1, <2>2 DEF Granted, Renewed, FreshPress, phaseVars
  <2>4. Granted(MaxLag)' = Granted(MaxLag) /\ Renewed(MaxLag)' = Renewed(MaxLag)
    BY <2>1, <2>2 DEF Granted, Renewed, FreshPress, phaseVars
  <2> QED
    BY <2>1, <2>2, <2>3, <2>4 DEF Phased, PhaseAged, Running, phaseVars
<1> QED
  BY <1>1, <1>2

LEMMA NextPhased ==
  ASSUME ShortIterations, Phased, [Next]_vars
  PROVE  Phased'
<1>1. TypeOK' /\ Inductive'
  BY NextType, NextInductive DEF Phased
<1>2. CASE UNCHANGED vars
  <2>1. /\ Age' = Age /\ Lag' = Lag /\ heard' = heard
        /\ Longest(shown)' = Longest(shown)
    BY <1>2 DEF vars, buttonVars, phaseVars, Age, Since, Lag, heard, Longest
  <2>2. PhaseTimed' /\ LagBounded'
    BY <1>2 DEF vars, phaseVars, Phased, PhaseTimed, LagBounded
  <2>3. Granted(0)' = Granted(0) /\ Renewed(0)' = Renewed(0)
    BY <1>2, <2>1 DEF Granted, Renewed, FreshPress, vars, buttonVars, phaseVars
  <2>4. Granted(MaxLag)' = Granted(MaxLag) /\ Renewed(MaxLag)' = Renewed(MaxLag)
    BY <1>2, <2>1 DEF Granted, Renewed, FreshPress, vars, buttonVars, phaseVars
  <2>5. PhaseAged'
    BY <1>2, <2>1, <2>3, <2>4 DEF Phased, PhaseAged, Running, vars, phaseVars
  <2> QED
    BY <1>1, <2>2, <2>5 DEF Phased
<1>3. CASE Next
  <2>1. LagBounded'
    BY <1>3, LagKept DEF Phased
  <2>2. CASE Branch
    BY <1>1, <2>1, <2>2, BranchAged DEF Phased
  <2>3. CASE ~Branch
    <3>1. PhaseTimed'
      BY <1>3, <2>3 DEF Next, Loop, Environment, Tick, pedestrianISR,
         emergencyISR, Accepted, closeProg, SendFails, Sample, EnterEmergency,
         NoEmergency, Message, EncodeMessage, SendMessage, NoMessage, AtSample,
         AtMessage, phaseVars, Phased, PhaseTimed, Phases
    <3>2. PhaseAged'
      BY <1>3, <2>3, TickAged, PressAged, SampleAged, OthersAged
      DEF Next, Loop, Environment
    <3> QED
      BY <1>1, <2>1, <3>1, <3>2 DEF Phased
  <2> QED BY <2>2, <2>3
<1> QED BY <1>2, <1>3

-----------------------------------------------------------------------------
\* A phase leaves the lamps in time although grants that are not displayed
\* yet may be renewed (main.c:101-135), whatever the durations, as long as the
\* debounce is three iterations long and the word has room for a phase.
THEOREM PhasesAreBounded ==
  ASSUME ShortIterations
  PROVE  Spec => []PhaseBounded
<1>1. Phased => PhaseBounded
  <2> SUFFICES ASSUME Phased, pc = "message", shown \in Phases
               PROVE  Age <= Longest(shown) + 2 * MaxLag
    BY DEF PhaseBounded, Longest, Age
  <2>1. Age \in Nat /\ MaxLag \in Nat /\ Longest(shown) \in Nat
    BY PhaseNumbers, TimeNumbers DEF Phased
  <2> QED
    BY <2>1 DEF Phased, PhaseAged, Running, Granted, Renewed
<1> QED
  BY <1>1, InitPhased, NextPhased, PTL DEF Spec

\* No display is cut short below its minimum time but by an emergency: neither
\* by a change of phase nor by a grant, however late it is displayed and
\* however the clock wraps between (main.c:101-135).
THEOREM MinimumIsKept ==
  ASSUME ShortIterations
  PROVE  Spec => MinimumKept
<1>1. Phased /\ [Next]_vars =>
        [ (startTime' # startTime \/ shown' # shown)
            /\ shown \in Phases /\ shown' # "EMERGENCY"
            => Since(startTime) >= TimeMin[shown] ]_vars
  <2> SUFFICES ASSUME Phased, Next, startTime' # startTime \/ shown' # shown,
                      shown \in Phases, shown' # "EMERGENCY"
               PROVE  Age >= TimeMin[shown]
    BY DEF Age
  <2>1. ChangePhase
    BY DEF Next, Loop, Environment, Tick, pedestrianISR, emergencyISR, Accepted,
       closeProg, SendFails, Sample, EnterEmergency, NoEmergency, Message,
       EncodeMessage, SendMessage, NoMessage, Branch, LeaveEmergency, Blink,
       YieldToPedestrian, KeepPedestrianWaiting, NothingDue, AtMessage, phaseVars
  <2>2. stateLastTime = startTime /\ waitTime = Time[shown]
    BY DEF Phased, PhaseTimed
  <2>3. CASE f_priority
    BY <2>1, <2>3, TimeNumbers, PhaseNumbers
    DEF ChangePhase, AtBranch, Phased, PhaseAged, Running
  <2>4. CASE ~f_priority
    BY <2>1, <2>2, <2>4, TimeNumbers, PhaseNumbers
    DEF ChangePhase, ChangeDue, Phased, Age
  <2> QED BY <2>3, <2>4
<1> QED
  BY <1>1, InitPhased, NextPhased, PTL DEF Spec, MinimumKept

-----------------------------------------------------------------------------
(* The way out of an emergency.  The loop sets stateLastTime to 0, which is
   long ago except just after the clock wrapped: then a request waits for its
   minimum time and a phase for its wait, counted from the wrap.  A grant may
   be renewed once before the wrap and once behind it.                      *)

\* The longest wait of a phase.
LongestWait == CHOOSE t \in {Time[s] : s \in Phases} : \A s \in Phases : Time[s] <= t

\* The word has room for an emergency and a phase.
RoomForRelease ==
  ShortIterations /\ Time["EMERGENCY"] + LongestWait + 6 * MaxLag < Wrap

-----------------------------------------------------------------------------
(* Its invariant.                                                          *)

\* Age by which an iteration has found the emergency over and the next one
\* has granted a request that the third found renewed.
Overdue == Time["EMERGENCY"] + 3 * MaxLag

\* Either the emergency has just been left or the clock has wrapped since.
Late(bound) == Age <= Overdue + currentTime /\ currentTime <= LongestWait + bound
Spent(bound) == Age <= Time["EMERGENCY"] + MaxLag + bound \/ Late(bound)

JustLeft(slack) == Age <= Time["EMERGENCY"] + MaxLag + slack
Waits(slack) == Late(slack) /\ FreshPress(slack)
GrantWaits(slack) ==
  /\ f_priority /\ ~f_pedestrianWaiting
  /\ FreshPress(slack) /\ Spent(MaxLag + slack)
RenewalWaits(slack) ==
  /\ f_priority /\ ~pedestrianBtn /\ ~f_pedestrianWaiting
  /\ heard <= MaxLag + slack + Lag /\ Spent(2 * MaxLag + slack)

\* The stages from the end of an emergency to the next display.
Stage(slack) ==
  JustLeft(slack) \/ Waits(slack) \/ GrantWaits(slack) \/ RenewalWaits(slack)

EmergencyAged ==
  Running /\ f_emergency =>
    Age <= Time["EMERGENCY"] + (IF pc = "branch" THEN MaxLag ELSE 0)

\* The sample of the clock lets up to MaxLag pass.
ReleaseAged ==
  Running /\ shown = "EMERGENCY" /\ ~f_emergency =>
    /\ stateLastTime = 0
    /\ IF pc = "branch" THEN Stage(MaxLag) ELSE Stage(0)

WaitBounded == waitTime <= LongestWait

Releasing ==
  TypeOK /\ Inductive /\ LagBounded /\ WaitBounded /\ EmergencyAged /\ ReleaseAged

-----------------------------------------------------------------------------
(* What the assumptions say, as numbers.                                   *)

LEMMA LongestWaitBounds ==
  LongestWait \in Nat /\ \A s \in Phases : Time[s] \in Nat /\ Time[s] <= LongestWait
<1>1. \A s \in Phases : Time[s] \in Nat
  BY DurationsAssumption DEF State, Clock
<1>2. \E s \in Phases : \A r \in Phases : Time[r] <= Time[s]
  BY <1>1 DEF Phases
<1>3. \E t \in {Time[s] : s \in Phases} : \A s \in Phases : Time[s] <= t
  BY <1>2
<1>4. /\ LongestWait \in {Time[s] : s \in Phases}
      /\ \A s \in Phases : Time[s] <= LongestWait
  BY <1>3 DEF LongestWait
<1> QED
  BY <1>1, <1>4

LEMMA ReleaseNumbers ==
  ASSUME RoomForRelease
  PROVE  /\ Wrap \in Nat /\ MaxLag \in Nat \ {0} /\ debounceDelay \in Nat
         /\ 3 * MaxLag <= debounceDelay /\ LongestWait \in Nat
         /\ Time["EMERGENCY"] \in Nat
         /\ Time["EMERGENCY"] + LongestWait + 6 * MaxLag < Wrap
         /\ \A s \in Phases : TimeMin[s] \in Nat /\ TimeMin[s] <= LongestWait
<1>1. /\ Time["EMERGENCY"] \in Nat /\ \A s \in Phases : TimeMin[s] \in Nat
      /\ Wrap \in Nat /\ MaxLag \in Nat \ {0} /\ debounceDelay \in Nat
  BY DurationsAssumption DEF State, Clock
<1>2. \A s \in Phases : TimeMin[s] <= Time[s]
  BY DEF RoomForRelease, ShortIterations
<1> QED
  BY <1>1, <1>2, LongestWaitBounds DEF RoomForRelease, ShortIterations

\* No stage lasts so long that a difference wraps.
LEMMA StageBounds ==
  ASSUME RoomForRelease, TypeOK, Stage(0)
  PROVE  Age <= Time["EMERGENCY"] + LongestWait + 5 * MaxLag
<1> DEFINE E == Time["EMERGENCY"]
<1>1. Age \in Nat /\ currentTime \in Nat
  BY TimeNumbers DEF TypeOK, Clock
<1>2. E \in Nat /\ LongestWait \in Nat /\ MaxLag \in Nat
  BY ReleaseNumbers
<1> HIDE DEF E
<1>3. CASE JustLeft(0)
  BY <1>1, <1>2, <1>3 DEF JustLeft, E
<1>4. CASE Waits(0)
  BY <1>1, <1>2, <1>4 DEF Waits, Late, Overdue, E
<1>5. CASE GrantWaits(0)
  BY <1>1, <1>2, <1>5 DEF GrantWaits, Spent, Late, Overdue, E
<1>6. CASE RenewalWaits(0)
  BY <1>1, <1>2, <1>6 DEF RenewalWaits, Spent, Late, Overdue, E
<1> QED
  BY <1>3, <1>4, <1>5, <1>6 DEF Stage, E

-----------------------------------------------------------------------------
(* Each step keeps the invariant.                                          *)

LEMMA InitReleasing == Init => Releasing
<1>1. Init => WaitBounded /\ EmergencyAged /\ ReleaseAged
  BY LongestWaitBounds DEF Init, WaitBounded, EmergencyAged, ReleaseAged
<1> QED
  BY <1>1, InitType, InitInductive, InitLag DEF Releasing

LEMMA TickReleasing ==
  ASSUME RoomForRelease, Releasing, Tick
  PROVE  EmergencyAged' /\ ReleaseAged'
<1> DEFINE D == debounceDelay
<1>1. /\ Lag \in Nat /\ heard \in 0 .. D + 1 /\ Age \in Nat
      /\ clock \in Clock /\ currentTime \in Clock
  BY TimeNumbers DEF Releasing
<1>2. Lag < MaxLag /\ MaxLag < Wrap /\ Wrap \in Nat /\ MaxLag \in Nat /\ D \in Nat
      /\ 3 * MaxLag <= D /\ LongestWait \in Nat /\ Time["EMERGENCY"] \in Nat
  BY ReleaseNumbers DEF Tick, Lag
<1>3. Lag' = Lag + 1
  BY <1>1, <1>2 DEF Tick, Lag, Minus, Plus, Clock
<1>4. heard' = IF heard > D THEN heard ELSE heard + 1
  BY DEF Tick, heard, Releasing, TypeOK, Button
<1>5. /\ Age' = Age /\ UNCHANGED <<pc, phaseVars, pedestrianBtn, currentTime>>
  BY DEF Tick, Age, Since, phaseVars
<1>6. EmergencyAged'
  BY <1>5 DEF Releasing, EmergencyAged, Running, phaseVars
<1>7. ASSUME NEW s \in Nat, Stage(s) PROVE Stage(s)'
  <2>1. \A b : Late(b)' = Late(b) /\ Spent(b)' = Spent(b) /\ JustLeft(b)' = JustLeft(b)
    BY <1>5 DEF Late, Spent, JustLeft, Overdue
  <2>2. FreshPress(s) => FreshPress(s)'
    BY <1>1, <1>2, <1>3, <1>4, <1>5 DEF FreshPress
  <2>3. heard <= MaxLag + s + Lag => heard' <= MaxLag + s + Lag'
    BY <1>1, <1>2, <1>3, <1>4
  <2>4. UNCHANGED <<f_priority, pedestrianBtn, f_pedestrianWaiting>>
    BY <1>5 DEF phaseVars
  <2>5. JustLeft(s)' = JustLeft(s) /\ (Waits(s) => Waits(s)')
    BY <2>1, <2>2 DEF Waits
  <2>6. GrantWaits(s) => GrantWaits(s)'
    BY <2>1, <2>2, <2>4 DEF GrantWaits
  <2>7. RenewalWaits(s) => RenewalWaits(s)'
    BY <2>1, <2>3, <2>4 DEF RenewalWaits
  <2> QED
    BY <1>7, <2>5, <2>6, <2>7 DEF Stage
<1>8. ReleaseAged'
  BY <1>2, <1>5, <1>7 DEF Releasing, ReleaseAged, Running, phaseVars
<1> QED
  BY <1>6, <1>8

\* A press behind a renewal is within the debounce of the one that renewed.
LEMMA PressReleasing ==
  ASSUME RoomForRelease, Releasing, pedestrianISR
  PROVE  EmergencyAged' /\ ReleaseAged'
<1> DEFINE D == debounceDelay
<1>1. Lag \in Nat /\ heard \in 0 .. D + 1
  BY TimeNumbers DEF Releasing
<1>2. /\ MaxLag \in Nat /\ D \in Nat /\ 3 * MaxLag <= D /\ Lag <= MaxLag
  BY ReleaseNumbers DEF Releasing, LagBounded, Lag
<1>3. heard > D /\ heard' = 0
  BY DEF pedestrianISR, Accepted, heard, Releasing, TypeOK, Button
<1>4. /\ Age' = Age /\ Lag' = Lag
      /\ UNCHANGED <<pc, phaseVars, currentTime>>
  BY DEF pedestrianISR, Accepted, Age, Since, Lag, phaseVars
<1>5. EmergencyAged'
  BY <1>4 DEF Releasing, EmergencyAged, Running, phaseVars
<1>6. ASSUME NEW s \in 0 .. MaxLag, Stage(s) PROVE Stage(s)'
  <2>1. \A b : Late(b)' = Late(b) /\ Spent(b)' = Spent(b) /\ JustLeft(b)' = JustLeft(b)
    BY <1>4 DEF Late, Spent, JustLeft, Overdue
  <2>2. FreshPress(s)'
    BY <1>1, <1>2, <1>3, <1>4 DEF FreshPress
  <2>3. ~RenewalWaits(s)
    BY <1>1, <1>2, <1>3 DEF RenewalWaits
  <2>4. UNCHANGED <<f_priority, f_pedestrianWaiting>>
    BY <1>4 DEF phaseVars
  <2>5. Waits(s) => Waits(s)'
    BY <2>1, <2>2 DEF Waits
  <2>6. GrantWaits(s) => GrantWaits(s)'
    BY <2>1, <2>2, <2>4 DEF GrantWaits
  <2> QED
    BY <1>6, <2>1, <2>3, <2>5, <2>6 DEF Stage
<1>7. ReleaseAged'
  BY <1>2, <1>4, <1>6 DEF Releasing, ReleaseAged, Running, phaseVars
<1> QED
  BY <1>5, <1>7

\* The loop reads the clock: the lag becomes age, and time since the wrap.
LEMMA SampleReleasing ==
  ASSUME RoomForRelease, Releasing, Sample
  PROVE  EmergencyAged' /\ ReleaseAged'
<1>1. CASE EnterEmergency
  <2>1. f_emergency' /\ startTime' = currentTime' /\ currentTime' = clock /\ pc' = "branch"
    BY <1>1 DEF EnterEmergency, AtSample
  <2>2. Age' = 0
    BY <2>1, TimeNumbers DEF Releasing, Age, Since, Minus, Clock
  <2> QED
    BY <2>1, <2>2, ReleaseNumbers DEF EmergencyAged, ReleaseAged
<1>2. CASE NoEmergency
  <2> DEFINE E == Time["EMERGENCY"]
  <2>1. /\ Lag \in Nat /\ heard \in 0 .. debounceDelay + 1 /\ Age \in Nat
        /\ clock \in Clock /\ currentTime \in Clock /\ startTime \in Clock
        /\ currentTime \in Nat
    BY TimeNumbers DEF Releasing, Clock
  <2>2. /\ Wrap \in Nat /\ MaxLag \in Nat /\ LongestWait \in Nat /\ E \in Nat
        /\ E + LongestWait + 6 * MaxLag < Wrap /\ Lag <= MaxLag
    BY ReleaseNumbers DEF Releasing, LagBounded, Lag
  <2>3. /\ currentTime' = clock /\ clock' = clock /\ pc = "sample" /\ pc' = "branch"
        /\ UNCHANGED <<phaseVars, quiet, pedestrianBtn>>
    BY <1>2 DEF NoEmergency, AtSample, buttonVars
  <2> HIDE DEF E
  <2>4. Age + Lag < Wrap => Age' = Age + Lag
    <3>1. Age + Lag < Wrap => Minus(clock, startTime) = Age + Lag
      BY <2>1, MinusAdds DEF Age, Since, Lag
    <3> QED
      BY <2>3, <3>1 DEF Age, Since, phaseVars
  <2>5. Lag' = 0 /\ heard' = heard
    BY <2>1, <2>3 DEF Lag, Minus, Clock, heard
  <2>6. currentTime + Lag < Wrap => currentTime' = currentTime + Lag
    BY <2>1, <2>2, <2>3 DEF Lag, Minus, Clock
  <2>7. EmergencyAged'
    <3>1. f_emergency => Age <= E
      BY <2>1, <2>2, <2>3 DEF Releasing, EmergencyAged, Running, E
    <3>2. f_emergency => Age' <= E + MaxLag
      BY <2>1, <2>2, <2>4, <3>1
    <3> QED
      BY <2>3, <3>2 DEF EmergencyAged, phaseVars, E
  <2>8. ASSUME Stage(0) PROVE Stage(MaxLag)'
    <3>1. Age' = Age + Lag
      BY <2>1, <2>2, <2>4, <2>8, StageBounds DEF Releasing, E
    <3>2. ASSUME NEW b \in 0 .. 2 * MaxLag, NEW c \in Nat, c = b + MaxLag, Late(b)
          PROVE  Late(c)'
      <4>1. Age <= E + 3 * MaxLag + currentTime /\ currentTime <= LongestWait + b
        BY <3>2 DEF Late, Overdue, E
      <4>2. currentTime' = currentTime + Lag
        BY <2>1, <2>2, <2>6, <3>2, <4>1
      <4>3. Age' <= E + 3 * MaxLag + currentTime' /\ currentTime' <= LongestWait + c
        BY <2>1, <2>2, <3>1, <3>2, <4>1, <4>2
      <4> QED
        BY <4>3 DEF Late, Overdue, E
    <3>3. ASSUME NEW b \in 0 .. 2 * MaxLag, NEW c \in Nat, c = b + MaxLag, Spent(b)
          PROVE  Spent(c)'
      <4>1. Age <= E + MaxLag + b => Age' <= E + MaxLag + c
        BY <2>1, <2>2, <3>1, <3>3
      <4> QED
        BY <3>2, <3>3, <4>1 DEF Spent, E
    <3>4. FreshPress(0) => FreshPress(MaxLag)'
      BY <2>1, <2>2, <2>3, <2>5 DEF FreshPress
    <3>5. JustLeft(0) => JustLeft(MaxLag)'
      BY <2>1, <2>2, <3>1 DEF JustLeft, E
    <3>6. Waits(0) => Waits(MaxLag)'
      BY <2>2, <3>2, <3>4 DEF Waits
    <3>7. GrantWaits(0) => GrantWaits(MaxLag)'
      <4>1. MaxLag + 0 = MaxLag /\ MaxLag \in 0 .. 2 * MaxLag /\ MaxLag + MaxLag \in Nat
        BY <2>2
      <4> QED
        BY <2>3, <3>3, <3>4, <4>1 DEF GrantWaits, phaseVars
    <3>8. RenewalWaits(0) => RenewalWaits(MaxLag)'
      <4>1. /\ 2 * MaxLag + 0 = 2 * MaxLag /\ 2 * MaxLag \in 0 .. 2 * MaxLag
            /\ 2 * MaxLag + MaxLag \in Nat
        BY <2>2
      <4>2. heard <= MaxLag + 0 + Lag => heard' <= MaxLag + MaxLag + Lag'
        BY <2>1, <2>2, <2>5
      <4>3. Spent(2 * MaxLag) => Spent(2 * MaxLag + MaxLag)'
        BY <3>3, <4>1
      <4> QED
        BY <2>3, <4>1, <4>2, <4>3 DEF RenewalWaits, phaseVars
    <3> QED
      BY <2>8, <3>5, <3>6, <3>7, <3>8 DEF Stage
  <2>9. ReleaseAged'
    BY <2>3, <2>8 DEF Releasing, ReleaseAged, Running, phaseVars
  <2> QED
    BY <2>7, <2>9
<1> QED
  BY <1>1, <1>2 DEF Sample

\* The loop decides.  Since the stamp is 0 its differences are the time since
\* the wrap.
LEMMA BranchReleasing ==
  ASSUME RoomForRelease, Releasing, Branch
  PROVE  WaitBounded' /\ EmergencyAged' /\ ReleaseAged'
<1> USE DEF AtBranch
<1> DEFINE E == Time["EMERGENCY"]
<1>1. /\ Lag \in Nat /\ heard \in 0 .. debounceDelay + 1 /\ Age \in Nat
      /\ currentTime \in Nat /\ waitTime \in Nat
  BY TimeNumbers DEF Releasing, TypeOK, Clock
<1>2. MaxLag \in Nat /\ LongestWait \in Nat /\ E \in Nat /\ Wrap \in Nat
  BY ReleaseNumbers
<1>3. pc = "branch" /\ pc' = "message" /\ currentTime' = currentTime /\ Running
  BY DEF Branch, LeaveEmergency, Blink, YieldToPedestrian, KeepPedestrianWaiting,
     ChangePhase, NothingDue, Running
<1>4. startTime' = startTime => Age' = Age
  BY <1>3 DEF Age, Since
<1>5. CASE f_emergency
  <2>1. /\ shown = "EMERGENCY" /\ stateLastTime = startTime
        /\ Age <= E + MaxLag
    BY <1>3, <1>5 DEF Releasing, Inductive, EmergencyRemembered, EmergencyAged
  <2>2. UNCHANGED <<startTime, shown, waitTime>>
    BY <1>5 DEF Branch, LeaveEmergency, Blink, YieldToPedestrian,
       KeepPedestrianWaiting, ChangePhase, NothingDue, phaseVars
  <2>3. WaitBounded'
    BY <2>2 DEF Releasing, WaitBounded
  <2>4. CASE LeaveEmergency
    <3>1. stateLastTime' = 0 /\ ~f_emergency'
      BY <2>4 DEF LeaveEmergency
    <3>2. JustLeft(0)'
      BY <1>1, <1>2, <1>4, <2>1, <2>2 DEF JustLeft
    <3> QED
      BY <1>3, <2>3, <3>1, <3>2 DEF EmergencyAged, ReleaseAged, Stage
  <2>5. CASE ~LeaveEmergency
    <3>1. f_emergency' /\ ~(Age > E)
      BY <1>5, <2>1, <2>5 DEF Branch, Blink, YieldToPedestrian, phaseVars, Age,
         KeepPedestrianWaiting, ChangePhase, NothingDue, EmergencyOver
    <3>2. Age' <= E + 0
      BY <1>1, <1>2, <1>4, <2>2, <3>1
    <3> QED
      BY <1>3, <2>3, <3>1, <3>2 DEF EmergencyAged, ReleaseAged
  <2> QED BY <2>4, <2>5
<1>6. CASE ~f_emergency /\ ChangePhase
  <2>1. Chosen \in Phases
    BY <1>6 DEF Chosen, Phases, Releasing, Inductive, EmergencyConsistent,
       TypeOK, State
  <2>2. shown' = Chosen /\ waitTime' = Time[Chosen] /\ ~f_emergency'
    BY <1>6 DEF ChangePhase
  <2>3. shown' # "EMERGENCY"
    BY <2>1, <2>2 DEF Phases
  <2> QED
    BY <2>1, <2>2, <2>3, LongestWaitBounds
    DEF WaitBounded, EmergencyAged, ReleaseAged
<1>7. CASE ~f_emergency /\ ~ChangePhase
  <2>1. /\ UNCHANGED <<startTime, shown, waitTime, stateLastTime, f_emergency>>
        /\ YieldToPedestrian \/ KeepPedestrianWaiting \/ NothingDue
    BY <1>7 DEF Branch, LeaveEmergency, Blink, YieldToPedestrian,
       KeepPedestrianWaiting, NothingDue, phaseVars
  <2>2. WaitBounded' /\ EmergencyAged'
    BY <1>7, <2>1 DEF Releasing, WaitBounded, EmergencyAged
  <2> SUFFICES ASSUME shown = "EMERGENCY" PROVE Stage(0)' /\ stateLastTime' = 0
    BY <1>3, <2>1, <2>2 DEF ReleaseAged
  <2>3. stateLastTime = 0 /\ Stage(MaxLag)
    BY <1>3, <1>7 DEF Releasing, ReleaseAged
  <2>4. Since(stateLastTime) = currentTime
    BY <2>3 DEF Since, Minus, Releasing, TypeOK, Clock
  <2>5. currentState \in Phases
    BY <1>7 DEF Releasing, Inductive, EmergencyConsistent, TypeOK, State
  <2>6. Age' = Age
    BY <1>4, <2>1
  <2>7. Spent(MaxLag + MaxLag) \/ RenewalWaits(MaxLag)
    <3> HIDE DEF E
    <3>1. JustLeft(MaxLag) => Age <= E + MaxLag + (MaxLag + MaxLag)
      BY <1>1, <1>2 DEF JustLeft, E
    <3>2. Waits(MaxLag) => Late(MaxLag + MaxLag)
      BY <1>1, <1>2 DEF Waits, Late
    <3> QED
      BY <2>3, <3>1, <3>2 DEF Stage, GrantWaits, Spent, E
  <2>8. ASSUME Spent(MaxLag + MaxLag), ~pedestrianBtn', currentTime <= LongestWait
        PROVE  Stage(0)'
    <3> HIDE DEF E
    <3>1. Age <= E + 3 * MaxLag + currentTime
      <4>1. Spent(MaxLag + MaxLag) =>
              \/ Age <= E + MaxLag + (MaxLag + MaxLag)
              \/ Age <= E + 3 * MaxLag + currentTime
        BY DEF Spent, Late, Overdue, E
      <4> QED
        BY <1>1, <1>2, <2>8, <4>1
    <3>2. Late(0)'
      BY <1>1, <1>2, <1>3, <2>6, <2>8, <3>1 DEF Late, Overdue, E
    <3> QED
      BY <2>8, <3>2 DEF Stage, Waits, FreshPress
  <2>9. CASE YieldToPedestrian
    <3>1. /\ f_priority' /\ ~f_pedestrianWaiting' /\ ~pedestrianBtn'
          /\ pedestrianBtn \/ f_pedestrianWaiting
      BY <2>9 DEF YieldToPedestrian, Requested
    <3>2. CASE JustLeft(MaxLag) \/ Waits(MaxLag)
      <4>1. Spent(MaxLag + 0)'
        BY <1>1, <1>2, <1>3, <2>6, <3>2 DEF JustLeft, Waits, Spent, Late, Overdue
      <4> QED
        BY <2>1, <2>3, <3>1, <4>1 DEF Stage, GrantWaits, FreshPress
    <3>3. CASE GrantWaits(MaxLag)
      <4>1. pedestrianBtn /\ heard <= MaxLag + Lag
        BY <3>1, <3>3 DEF GrantWaits, FreshPress
      <4>2. heard' = heard /\ Lag' = Lag
        BY <1>3, <2>9 DEF YieldToPedestrian, heard, Lag
      <4>3. Spent(2 * MaxLag + 0)'
        <5>1. Spent(MaxLag + MaxLag)
          BY <3>3 DEF GrantWaits
        <5>2. MaxLag + MaxLag = 2 * MaxLag + 0
          BY <1>2
        <5>3. Spent(2 * MaxLag + 0)
          BY <5>1, <5>2
        <5> QED
          BY <1>3, <2>6, <5>3 DEF Spent, Late, Overdue
      <4>4. heard' <= MaxLag + 0 + Lag'
        BY <1>1, <1>2, <4>1, <4>2
      <4> QED
        BY <2>1, <2>3, <3>1, <4>3, <4>4 DEF Stage, RenewalWaits
    <3> QED
      BY <2>1, <2>3, <3>1, <3>2, <3>3 DEF Stage, RenewalWaits
  <2>10. CASE KeepPedestrianWaiting
    <3>1. ~pedestrianBtn' /\ (pedestrianBtn \/ f_pedestrianWaiting)
      BY <2>10 DEF KeepPedestrianWaiting, Requested
    <3>2. ~(currentTime >= TimeMin[currentState])
      BY <2>4, <2>5, <2>10 DEF KeepPedestrianWaiting, MayYield, Phases
    <3>3. TimeMin[currentState] \in Nat /\ TimeMin[currentState] <= LongestWait
      BY <2>5, ReleaseNumbers
    <3>4. currentTime <= LongestWait
      BY <1>1, <1>2, <3>2, <3>3
    <3>5. Spent(MaxLag + MaxLag)
      BY <2>7, <3>1 DEF RenewalWaits
    <3> QED
      BY <2>1, <2>3, <2>8, <3>1, <3>4, <3>5
  <2>11. CASE NothingDue
    <3>1. /\ ~pedestrianBtn' /\ ~f_priority /\ ~(currentTime >= waitTime)
      BY <1>7, <2>4, <2>11 DEF NothingDue, ChangeDue, Requested
    <3>2. currentTime <= LongestWait
      BY <1>1, <1>2, <3>1 DEF Releasing, WaitBounded
    <3> QED
      BY <2>1, <2>3, <2>7, <2>8, <3>1, <3>2 DEF RenewalWaits
  <2> QED
    BY <2>1, <2>9, <2>10, <2>11
<1> QED
  BY <1>5, <1>6, <1>7

\* The rest has no say in the release.
LEMMA OthersReleasing ==
  ASSUME Releasing, emergencyISR \/ closeProg \/ SendFails \/ Message
  PROVE  EmergencyAged' /\ ReleaseAged'
<1>1. CASE closeProg \/ SendFails
  BY <1>1 DEF closeProg, SendFails, EmergencyAged, ReleaseAged, Running
<1>2. CASE emergencyISR \/ Message
  <2>1. /\ UNCHANGED <<phaseVars, clock, currentTime, pedestrianBtn, heard>>
        /\ pc' = pc \/ (pc = "message" /\ pc' = "sample")
    <3>1. CASE emergencyISR
      <4>1. heard' = heard
        BY <3>1 DEF emergencyISR, Accepted, heard, Releasing, TypeOK, Button
      <4> QED
        BY <3>1, <4>1 DEF emergencyISR, Accepted
    <3>2. CASE Message
      BY <3>2 DEF Message, EncodeMessage, SendMessage, NoMessage, AtMessage,
         buttonVars, heard
    <3> QED
      BY <1>2, <3>1, <3>2
  <2>2. Age' = Age /\ Lag' = Lag
    BY <2>1 DEF Age, Since, Lag, phaseVars
  <2>3. \A s : Stage(s)' = Stage(s)
    BY <2>1, <2>2 DEF Stage, JustLeft, Waits, GrantWaits, RenewalWaits, Spent,
       Late, Overdue, FreshPress, phaseVars
  <2> QED
    BY <2>1, <2>2, <2>3 DEF Releasing, EmergencyAged, ReleaseAged, Running, phaseVars
<1> QED
  BY <1>1, <1>2

LEMMA NextReleasing ==
  ASSUME RoomForRelease, Releasing, [Next]_vars
  PROVE  Releasing'
<1>1. TypeOK' /\ Inductive'
  BY NextType, NextInductive DEF Releasing
<1>2. CASE UNCHANGED vars
  <2>1. Age' = Age /\ Lag' = Lag /\ heard' = heard
    BY <1>2 DEF vars, buttonVars, phaseVars, Age, Since, Lag, heard
  <2>2. \A s : Stage(s)' = Stage(s)
    BY <1>2, <2>1 DEF Stage, JustLeft, Waits, GrantWaits, RenewalWaits, Spent,
       Late, Overdue, FreshPress, vars, buttonVars, phaseVars
  <2> QED
    BY <1>1, <1>2, <2>1, <2>2 DEF Releasing, LagBounded, WaitBounded,
       EmergencyAged, ReleaseAged, Running, vars, phaseVars
<1>3. CASE Next
  <2>1. LagBounded'
    BY <1>3, LagKept DEF Releasing
  <2>2. CASE Branch
    BY <1>1, <2>1, <2>2, BranchReleasing DEF Releasing
  <2>3. CASE ~Branch
    <3>1. WaitBounded'
      BY <1>3, <2>3 DEF Next, Loop, Environment, Tick, pedestrianISR,
         emergencyISR, Accepted, closeProg, SendFails, Sample, EnterEmergency,
         NoEmergency, Message, EncodeMessage, SendMessage, NoMessage, AtSample,
         AtMessage, phaseVars, Releasing, WaitBounded
    <3>2. EmergencyAged' /\ ReleaseAged'
      BY <1>3, <2>3, TickReleasing, PressReleasing, SampleReleasing, OthersReleasing
      DEF Next, Loop, Environment
    <3> QED
      BY <1>1, <2>1, <3>1, <3>2 DEF Releasing
  <2> QED BY <2>2, <2>3
<1> QED BY <1>2, <1>3

-----------------------------------------------------------------------------
\* What an emergency leaves on the lamps is replaced although the clock may
\* wrap just when the loop takes 0 for "long ago" (main.c:85-136), whatever
\* the durations, as long as the word has room for an emergency and a phase.
THEOREM EmergencyIsReleased ==
  ASSUME RoomForRelease
  PROVE  Spec => []EmergencyReleased
<1>1. Releasing => EmergencyReleased
  <2> SUFFICES ASSUME Releasing, pc = "message", shown = "EMERGENCY", ~f_emergency
               PROVE  Age <= Time["EMERGENCY"] + LongestWait + 5 * MaxLag
    BY DEF EmergencyReleased, LongestWait, Age
  <2>1. Stage(0)
    BY DEF Releasing, ReleaseAged, Running
  <2> QED
    BY <2>1, StageBounds DEF Releasing
<1> QED
  BY <1>1, InitReleasing, NextReleasing, PTL DEF Spec
=============================================================================
