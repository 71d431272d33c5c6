---------------------------- MODULE TrafficLight ----------------------------
(***************************************************************************)
(* The road-side unit: the loop of etsi-trafLight/src/main.c, the phases,  *)
(* lamps and button interrupts of etsi-trafLight/src/fsm.c, and the SPATEM *)
(* frame the loop encodes once per change and then broadcasts.             *)
(*                                                                         *)
(* One thread runs the loop; each button has an interrupt thread of its    *)
(* own that shares one flag with the loop.  An iteration is three steps,   *)
(* cut where the loop reads a shared flag:                                 *)
(*   "sample"   currentTime is read and emergencyBtn looked at (68-82)     *)
(*   "branch"   emergency, pedestrian or phase timing is served (83-136)   *)
(*   "message"  the frame is encoded or sent when it is due (146-174)      *)
(* Time, presses and SIGINT may fall between any two of them.              *)
(***************************************************************************)
EXTENDS Integers

CONSTANTS
  Time,             \* Time in fsm.h: how long each state lasts when undisturbed
  TimeMin,          \* TimeMin in fsm.h: how long before it may be cut short
  debounceDelay,    \* presses closer than this are one press
  BlinkPeriod,      \* the 500 of main.c:93
  MessagePeriod,    \* the 1000 of main.c:146
  Wrap,             \* unsigned int counts modulo Wrap
  MaxLag,           \* the loop samples the clock at least this often
  MarkUnit,         \* clock units in one TimeMark unit, the 100 of main.c:159
  MaxTimeMark,      \* largest TimeMark the encoder accepts
  RevisionModulus,  \* the 127 of M_INCREMENT_COUNT
  HourOffsets       \* values getMillisecondsOfHour() may return at startup

VARIABLES
  pc,                 \* where the loop is
  clock,              \* millis() - firstTime
  quiet,              \* time since the last accepted press of each button, capped
  pedestrianBtn, emergencyBtn,                          \* set by the interrupts
  currentTime, stateLastTime, messageLastTime, emergencyLastTime,
  startTime, waitTime,
  currentState, nextState, f_priority, f_emergency, f_pedestrianWaiting,
  lamps,              \* the lamps that are lit
  dark,               \* static state of emergencyState(): the next call clears
  shown,              \* history: the state whose function last took the lamps
  m_startTime, m_state,                                 \* what frame describes
  revision, frame,    \* MsgCount of intersection 0; buffer and bytes_enc
  miliSecOfHour

buttonVars == <<quiet, pedestrianBtn, emergencyBtn>>
phaseVars  == <<stateLastTime, emergencyLastTime, startTime, waitTime,
                currentState, nextState, f_priority, f_emergency,
                f_pedestrianWaiting, lamps, dark, shown>>
frameVars  == <<messageLastTime, m_startTime, m_state, revision, frame>>
vars       == <<pc, clock, currentTime, miliSecOfHour,
                buttonVars, phaseVars, frameVars>>

-----------------------------------------------------------------------------
(* The operations table and the values of the loop.                        *)

Phases == {"GREEN", "YELLOW", "RED", "PEDESTRIAN"}
State  == Phases \union {"EMERGENCY"}
Button == {"pedestrian", "emergency"}
Lamp   == {"green", "yellow", "red"}
Clock  == 0 .. Wrap - 1

\* What each state function lights after clearLeds(), and what it returns.
Lights == [GREEN |-> {"green"}, YELLOW |-> {"yellow"}, RED |-> {"red"},
           PEDESTRIAN |-> {"red", "yellow"}]
FollowItself == [GREEN |-> "YELLOW", YELLOW |-> "RED", RED |-> "GREEN", \* fault
                 PEDESTRIAN |-> "GREEN", EMERGENCY |-> "EMERGENCY"]
FollowSkips  == [GREEN |-> "YELLOW", YELLOW |-> "GREEN", RED |-> "GREEN", \* fault
                 PEDESTRIAN |-> "GREEN", EMERGENCY |-> "GREEN"]
Follow == [GREEN |-> "YELLOW", YELLOW |-> "RED", RED |-> "GREEN",
           PEDESTRIAN |-> "GREEN", EMERGENCY |-> "GREEN"]

\* The value of each enumerator of State, which is what goes on the wire.
Code == [GREEN |-> 0, YELLOW |-> 1, RED |-> 2, PEDESTRIAN |-> 3, EMERGENCY |-> 4]

\* Unsigned arithmetic on two values of Clock.
PlusUnbounded(a, b) == a + b                    \* fault: does not wrap
Plus(a, b)  == IF a + b < Wrap THEN a + b ELSE a + b - Wrap
Minus(a, b) == IF b <= a THEN a - b ELSE a - b + Wrap

Since(t) == Minus(currentTime, t)

Mark(t) == Plus(miliSecOfHour, t) \div MarkUnit

Frames ==
  [encoded : BOOLEAN, revision : 0 .. RevisionModulus - 1, eventState : 0 .. 4,
   start : Nat, minEnd : Nat, maxEnd : Nat]

\* bytes_enc = 0: what a failed encoding leaves, and what is there at startup.
EmptyFrame ==
  [encoded |-> FALSE, revision |-> 0, eventState |-> 0,
   start |-> 0, minEnd |-> 0, maxEnd |-> 0]

ASSUME DurationsAssumption ==
  /\ Wrap \in Nat \ {0}
  /\ Time \in [State -> Clock] /\ TimeMin \in [State -> Clock]
  /\ debounceDelay \in Nat
  /\ BlinkPeriod \in Nat \ {0} /\ MessagePeriod \in Nat \ {0}
  /\ MaxLag \in Nat \ {0}

ASSUME FrameAssumption ==
  /\ MarkUnit \in Nat \ {0} /\ MaxTimeMark \in Nat
  /\ RevisionModulus \in Nat \ {0}
  /\ HourOffsets \subseteq Clock /\ HourOffsets # {}

-----------------------------------------------------------------------------
(* Startup.  The first revision is read from memory malloc() left as it    *)
(* was, so it is any value the counter can hold.                           *)

Init ==
  /\ pc = "sample"
  /\ clock = 0 /\ currentTime = 0
  /\ quiet = [b \in Button |-> 0]
  /\ pedestrianBtn = FALSE /\ emergencyBtn = FALSE
  /\ stateLastTime = 0 /\ messageLastTime = 0 /\ emergencyLastTime = 0
  /\ startTime = 0 /\ waitTime = 0
  /\ currentState = "GREEN" /\ nextState = "GREEN"
  /\ f_priority = FALSE /\ f_emergency = FALSE /\ f_pedestrianWaiting = FALSE
  /\ lamps = {} /\ dark = TRUE /\ shown = "NONE"
  /\ m_startTime = 0 /\ m_state = "NONE"
  /\ revision \in 0 .. RevisionModulus - 1
  /\ frame = EmptyFrame
  /\ miliSecOfHour \in HourOffsets

-----------------------------------------------------------------------------
(* The environment: time, the buttons, Ctrl-C.                             *)

Running == pc # "exited"

Tick ==
  /\ Running
  /\ Minus(clock, currentTime) < MaxLag
  /\ clock' = Plus(clock, 1)
  /\ quiet' = [b \in Button |-> IF quiet[b] > debounceDelay THEN quiet[b]
                                                            ELSE quiet[b] + 1]
  /\ UNCHANGED <<pc, currentTime, miliSecOfHour, pedestrianBtn, emergencyBtn,
                 phaseVars, frameVars>>

\* A press the debounce lets through.  One it rejects changes nothing.
Accepted(b) ==
  /\ Running
  /\ quiet[b] > debounceDelay
  /\ quiet' = [quiet EXCEPT ![b] = 0]
  /\ UNCHANGED <<pc, clock, currentTime, miliSecOfHour, phaseVars, frameVars>>

pedestrianISR ==
  /\ Accepted("pedestrian")
  /\ pedestrianBtn' = TRUE
  /\ UNCHANGED emergencyBtn

emergencyISR ==
  /\ Accepted("emergency")
  /\ emergencyBtn' = TRUE
  /\ UNCHANGED pedestrianBtn

closeProg ==
  /\ Running
  /\ pc' = "exited"
  /\ lamps' = {}
  /\ UNCHANGED <<clock, currentTime, miliSecOfHour, buttonVars,
                 stateLastTime, emergencyLastTime, startTime, waitTime,
                 currentState, nextState, f_priority, f_emergency,
                 f_pedestrianWaiting, dark, shown, frameVars>>

-----------------------------------------------------------------------------
(* "sample".                                                               *)

AtSample ==
  /\ pc = "sample" /\ pc' = "branch"
  /\ currentTime' = clock
  /\ UNCHANGED <<clock, miliSecOfHour, frameVars>>

\* An emergency that is already on leaves a new press latched.
EnterEmergency ==
  /\ AtSample
  /\ emergencyBtn /\ ~f_emergency
  /\ emergencyBtn' = FALSE
  /\ f_emergency' = TRUE
  /\ currentState' = "EMERGENCY" /\ shown' = "EMERGENCY"
  /\ stateLastTime' = currentTime' /\ startTime' = currentTime'
  /\ UNCHANGED <<quiet, pedestrianBtn, emergencyLastTime, waitTime, nextState,
                 f_priority, f_pedestrianWaiting, lamps, dark>>

NoEmergency ==
  /\ AtSample
  /\ ~emergencyBtn \/ f_emergency
  /\ UNCHANGED <<buttonVars, phaseVars>>

-----------------------------------------------------------------------------
(* "branch".                                                               *)

AtBranch ==
  /\ pc = "branch" /\ pc' = "message"
  /\ UNCHANGED <<clock, currentTime, miliSecOfHour, quiet, emergencyBtn,
                 frameVars>>

\* Fault: the last phase's lamps are not cleared.
CallWithoutClear(s) ==
  /\ nextState' = Follow[s]
  /\ lamps' = IF s # "EMERGENCY" THEN lamps \union Lights[s]
              ELSE IF dark THEN {} ELSE lamps \union {"red"}
  /\ dark' = IF s = "EMERGENCY" THEN ~dark ELSE dark

\* operations[s].stateFunction()
CallStateFunction(s) ==
  /\ nextState' = Follow[s]
  /\ lamps' = IF s # "EMERGENCY" THEN Lights[s]
              ELSE IF dark THEN {} ELSE lamps \union {"red"}
  /\ dark' = IF s = "EMERGENCY" THEN ~dark ELSE dark

\* Faults: measured from the last blink; a grant counts as a request; a
\* request that waits does not; no minimum time; the grant is not displayed.
OverAfterBlink   == Since(emergencyLastTime) > Time["EMERGENCY"]
RequestedByGrant == pedestrianBtn \/ f_pedestrianWaiting \/ f_priority
RequestedNow     == pedestrianBtn
MayYieldAnyTime  == currentState # "EMERGENCY"
ChosenNext       == nextState

EmergencyOver == Since(stateLastTime) > Time["EMERGENCY"]
BlinkDue      == Since(emergencyLastTime) >= BlinkPeriod
Requested     == pedestrianBtn \/ f_pedestrianWaiting
MayYield      == /\ currentState # "EMERGENCY"
                 /\ Since(stateLastTime) >= TimeMin[currentState]
ChangeDue     == Since(stateLastTime) >= waitTime \/ f_priority
Chosen        == IF f_priority THEN currentState ELSE nextState

LeaveEmergency ==
  /\ AtBranch
  /\ f_emergency /\ EmergencyOver
  /\ f_emergency' = FALSE
  /\ stateLastTime' = 0 /\ emergencyLastTime' = 0
  /\ currentState' = nextState
  /\ UNCHANGED <<pedestrianBtn, startTime, waitTime, nextState, f_priority,
                 f_pedestrianWaiting, lamps, dark, shown>>

Blink ==
  /\ AtBranch
  /\ f_emergency /\ ~EmergencyOver /\ BlinkDue
  /\ CallStateFunction("EMERGENCY")
  /\ emergencyLastTime' = currentTime
  /\ UNCHANGED <<pedestrianBtn, stateLastTime, startTime, waitTime,
                 currentState, f_priority, f_emergency, f_pedestrianWaiting,
                 shown>>

\* The lamps stay as they are until the next iteration serves f_priority.
YieldToPedestrian ==
  /\ AtBranch
  /\ ~f_emergency /\ Requested /\ MayYield
  /\ currentState' = "PEDESTRIAN"
  /\ f_priority' = TRUE
  /\ f_pedestrianWaiting' = FALSE
  /\ pedestrianBtn' = FALSE
  /\ UNCHANGED <<stateLastTime, emergencyLastTime, startTime, waitTime,
                 nextState, f_emergency, lamps, dark, shown>>

\* While the request waits the loop does not reach the phase change.
KeepPedestrianWaiting ==
  /\ AtBranch
  /\ ~f_emergency /\ Requested /\ ~MayYield
  /\ f_pedestrianWaiting' = TRUE
  /\ pedestrianBtn' = FALSE
  /\ UNCHANGED <<stateLastTime, emergencyLastTime, startTime, waitTime,
                 currentState, nextState, f_priority, f_emergency, lamps, dark,
                 shown>>

ChangePhase ==
  /\ AtBranch
  /\ ~f_emergency /\ ~Requested /\ ChangeDue
  /\ currentState' = Chosen /\ shown' = Chosen
  /\ CallStateFunction(Chosen)
  /\ waitTime' = Time[Chosen]
  /\ startTime' = currentTime /\ stateLastTime' = currentTime
  /\ f_priority' = FALSE
  /\ UNCHANGED <<pedestrianBtn, emergencyLastTime, f_emergency,
                 f_pedestrianWaiting>>

NothingDue ==
  /\ AtBranch
  /\ IF f_emergency THEN ~EmergencyOver /\ ~BlinkDue
                    ELSE ~Requested /\ ~ChangeDue
  /\ UNCHANGED <<pedestrianBtn, phaseVars>>

-----------------------------------------------------------------------------
(* "message".                                                              *)

\* Faults: ">" for ">="; the start or the state is not compared, or the wrong
\* one; the revision stays.
MessageDueLate    == Since(messageLastTime) > MessagePeriod
DescribedByState  == m_state = currentState
DescribedByNext   == m_startTime = startTime /\ m_state = nextState
SameRevision      == revision

MessageDue   == Since(messageLastTime) >= MessagePeriod
Described    == m_startTime = startTime /\ m_state = currentState
NextRevision == (revision + 1) % RevisionModulus

AtMessage ==
  /\ pc = "message"
  /\ UNCHANGED <<clock, currentTime, miliSecOfHour, buttonVars>>

\* The frame of the current state; the encoder rejects a TimeMark out of range.
Encoding ==
  LET start  == Mark(startTime)
      minEnd == Mark(Plus(startTime, TimeMin[currentState]))
      maxEnd == Mark(Plus(startTime, Time[currentState]))
  IN  IF {start, minEnd, maxEnd} \subseteq 0 .. MaxTimeMark
      THEN [encoded |-> TRUE, revision |-> NextRevision,
            eventState |-> Code[currentState],
            start |-> start, minEnd |-> minEnd, maxEnd |-> maxEnd]
      ELSE EmptyFrame

EncodeMessage ==
  /\ AtMessage /\ pc' = "sample"
  /\ MessageDue /\ ~Described
  /\ m_startTime' = startTime /\ m_state' = currentState
  /\ revision' = NextRevision
  /\ frame' = Encoding
  /\ messageLastTime' = currentTime
  /\ UNCHANGED phaseVars

\* The datagram is frame; a module of the network takes it from this step.
SendMessage ==
  /\ AtMessage /\ pc' = "sample"
  /\ MessageDue /\ Described
  /\ messageLastTime' = currentTime
  /\ UNCHANGED <<phaseVars, m_startTime, m_state, revision, frame>>

\* sendto() returns -1: the process exits and the lamps keep their levels.
SendFails ==
  /\ AtMessage /\ pc' = "exited"
  /\ MessageDue /\ Described
  /\ UNCHANGED <<phaseVars, frameVars>>

NoMessage ==
  /\ AtMessage /\ pc' = "sample"
  /\ ~MessageDue
  /\ UNCHANGED <<phaseVars, frameVars>>

-----------------------------------------------------------------------------
Sample  == EnterEmergency \/ NoEmergency
Branch  == \/ LeaveEmergency \/ Blink
           \/ YieldToPedestrian \/ KeepPedestrianWaiting
           \/ ChangePhase \/ NothingDue
Message == EncodeMessage \/ SendMessage \/ NoMessage

Loop        == Sample \/ Branch \/ Message
Environment == Tick \/ pedestrianISR \/ emergencyISR \/ closeProg \/ SendFails

Next == Loop \/ Environment

Spec == Init /\ [][Next]_vars

\* The loop has no blocking call but usleep(1000), and time does not stop.
\* Nothing is assumed of the people who press the buttons.
FairSpec == Spec /\ WF_vars(Loop) /\ WF_vars(Tick)

-----------------------------------------------------------------------------
(* Safety.                                                                 *)

\* Every variable of the loop keeps the type its declaration gives it.
TypeOK ==
  /\ pc \in {"sample", "branch", "message", "exited"}
  /\ clock \in Clock /\ currentTime \in Clock /\ miliSecOfHour \in Clock
  /\ quiet \in [Button -> 0 .. debounceDelay + 1]
  /\ pedestrianBtn \in BOOLEAN /\ emergencyBtn \in BOOLEAN
  /\ stateLastTime \in Clock /\ messageLastTime \in Clock
  /\ emergencyLastTime \in Clock
  /\ startTime \in Clock /\ waitTime \in Clock
  /\ currentState \in State /\ nextState \in State
  /\ f_priority \in BOOLEAN /\ f_emergency \in BOOLEAN
  /\ f_pedestrianWaiting \in BOOLEAN
  /\ lamps \subseteq Lamp /\ dark \in BOOLEAN
  /\ shown \in State \union {"NONE"}
  /\ m_startTime \in Clock /\ m_state \in State \union {"NONE"}
  /\ revision \in 0 .. RevisionModulus - 1
  /\ frame \in Frames

\* The flag and the state agree at every step although they are set, cleared
\* and preempted in three branches of the loop (main.c:76-91): no phase is
\* timed as an emergency, and emergencyState() never runs for a phase.
EmergencyConsistent ==
  /\ f_emergency <=> currentState = "EMERGENCY"
  /\ nextState # "EMERGENCY"

\* An emergency is over when its time is over: presses that arrive during it
\* are latched (main.c:71-73) and never prolong the one that is on.
EmergencyBounded ==
  pc = "message" /\ f_emergency => Since(startTime) <= Time["EMERGENCY"]

\* A frame that goes out (main.c:169) describes the state the loop is in and
\* the time it began, whatever happened since it was encoded (main.c:151-163).
TruthfulFrame ==
  pc = "message" /\ Described /\ frame.encoded =>
    /\ frame.eventState = Code[currentState]
    /\ frame.start  = Mark(startTime)
    /\ frame.minEnd = Mark(Plus(startTime, TimeMin[currentState]))
    /\ frame.maxEnd = Mark(Plus(startTime, Time[currentState]))

\* Only an emergency may light another lamp beside green, and not even an
\* emergency shows green and yellow together (fsm.c:81-114).
LampsConsistent ==
  /\ ~({"green", "yellow"} \subseteq lamps)
  /\ {"green", "red"} \subseteq lamps => shown = "EMERGENCY"
  /\ lamps = {"red", "yellow"} => shown \in {"PEDESTRIAN", "EMERGENCY"}

\* What the lamps show is replaced, within the same tick too, or shown anew,
\* only after its minimum time (main.c:103) or for an emergency.
MinimumKept ==
  [][ (startTime' # startTime \/ shown' # shown)
        /\ shown \in Phases /\ shown' # "EMERGENCY"
        => Since(startTime) >= TimeMin[shown] ]_vars

\* A phase on the lamps ends in time.  A request that arrives between the
\* grant of an earlier one and its display is held to the pedestrian minimum
\* (main.c:103 with currentState already STATE_PEDESTRIAN), no longer: with a
\* debounce of three iterations a grant is not renewed twice.
PhaseBounded ==
  LET longest(s) == IF Time[s] < TimeMin["PEDESTRIAN"]
                    THEN TimeMin["PEDESTRIAN"] ELSE Time[s]
  IN  pc = "message" /\ shown \in Phases /\ ~f_emergency
        => Since(startTime) <= longest(shown) + 2 * MaxLag

\* What an emergency left on the lamps is replaced soon after it is over.  The
\* 0 that stands for "long ago" (main.c:89) is no longer long ago just after
\* the clock wrapped: then the lamps stay for the wait of the phase before the
\* emergency, or for the minimum time of a request, but no longer
\* (before the wrap and after it a grant may be renewed, as in PhaseBounded).
EmergencyReleased ==
  LET longestWait == CHOOSE t \in {Time[s] : s \in Phases} :
                       \A s \in Phases : Time[s] <= t
  IN  pc = "message" /\ shown = "EMERGENCY" /\ ~f_emergency
        => Since(startTime) <= Time["EMERGENCY"] + longestWait + 5 * MaxLag

\* A pedestrian who was heard: the flag of the interrupt, the request that
\* waits for the minimum time, the grant that waits for the next iteration.
Pending == \/ pedestrianBtn \/ f_pedestrianWaiting
           \/ f_priority /\ currentState = "PEDESTRIAN"

\* A request goes from flag to wait to grant to lamps without being dropped
\* on the way (main.c:101-135), unless an emergency overtakes the grant.
RequestKept ==
  [][ Pending /\ ~Pending' => shown' \in {"PEDESTRIAN", "EMERGENCY"} ]_vars

\* What the invariants above rest on, and is kept by every step: what the
\* frame says of the start and state it was encoded for, and what the loop
\* remembers of an emergency while one is on.
FrameDescribes ==
  frame.encoded =>
    /\ m_state \in State
    /\ frame.eventState = Code[m_state]
    /\ frame.start  = Mark(m_startTime)
    /\ frame.minEnd = Mark(Plus(m_startTime, TimeMin[m_state]))
    /\ frame.maxEnd = Mark(Plus(m_startTime, Time[m_state]))

EmergencyRemembered ==
  f_emergency => shown = "EMERGENCY" /\ stateLastTime = startTime

Inductive ==
  /\ EmergencyConsistent /\ EmergencyRemembered /\ EmergencyBounded
  /\ FrameDescribes /\ LampsConsistent

-----------------------------------------------------------------------------
(* What documents and comments say of the loop and the code does not keep. *)

\* "eventState: State (generally signal phase) of the current movement"
\* (Documentation/Connected_Traffic_Light.pdf, p. 11): a frame that goes out
\* names the state that is on the lamps.
SentIsShown ==
  pc = "message" /\ MessageDue /\ Described => currentState = shown

\* The state functions "are practically all the same, starting by deactivating
\* the LEDs and then turning on only the LED corresponding to the current
\* state" (p. 27): green never burns beside another lamp.
GreenAlone == "green" \in lamps => lamps = {"green"}

-----------------------------------------------------------------------------
(* Liveness, under FairSpec.  "exited" is Ctrl-C or a failed sendto().     *)

Exited == pc = "exited"

\* Every emergency ends although its time is compared with ">" against a
\* clock the loop may read late (main.c:85).
EmergencyEnds == f_emergency ~> ~f_emergency \/ Exited

\* No accepted emergency press is forgotten: those latched during an emergency
\* share one flag and start one more when it is over (main.c:71-81).
EmergencyServed == emergencyBtn ~> ~emergencyBtn \/ Exited

\* A pedestrian gets the lamps unless an emergency comes (main.c:101-136).
PedestrianServed == Pending ~> shown = "PEDESTRIAN" \/ f_emergency \/ Exited

\* When nobody presses a button any more the lamps go round for ever.
GoesRound ==
  <>[](~pedestrianBtn /\ ~emergencyBtn /\ ~Exited) =>
    \A s \in {"GREEN", "YELLOW", "RED"} : []<>(shown = s)

\* The broadcast never falls silent: changes cannot come so fast for ever
\* that every message tick encodes and none sends (main.c:151-171).
KeepsSending ==
  []<>(Exited \/ (pc = "message" /\ MessageDue /\ Described))
=============================================================================
