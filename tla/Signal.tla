------------------------------- MODULE Signal -------------------------------
(***************************************************************************)
(* What the road-side unit promises at the roadside, without clocks,       *)
(* flags or loop: which display may follow which, and what a pedestrian    *)
(* who asked may expect.  TrafficLight implements it.                      *)
(***************************************************************************)
VARIABLES
  display,  \* the state on the lamps, "NONE" before the first
  asked,    \* a pedestrian was heard and has not been served
  on        \* the program runs

vars == <<display, asked, on>>

Cycle == {"GREEN", "YELLOW", "RED", "PEDESTRIAN"}

Init == display = "NONE" /\ asked = FALSE /\ on = TRUE

Ask == on /\ asked' = TRUE /\ UNCHANGED <<display, on>>

\* The cycle goes on only when nobody waits to cross.
Advance ==
  /\ on /\ ~asked /\ display \in Cycle
  /\ display' = CASE display = "GREEN"  -> "YELLOW"
                  [] display = "YELLOW" -> "RED"
                  [] OTHER              -> "GREEN"
  /\ UNCHANGED <<asked, on>>

\* The first display, and the one after an emergency, is green ...
Restart ==
  /\ on /\ ~asked /\ display \in {"NONE", "EMERGENCY"}
  /\ display' = "GREEN"
  /\ UNCHANGED <<asked, on>>

\* ... unless someone waits: then a pedestrian phase comes next, from any.
Serve ==
  /\ on /\ asked
  /\ display' = "PEDESTRIAN" /\ asked' = FALSE
  /\ UNCHANGED on

\* An emergency comes at any time and may overtake a pedestrian's turn.
Preempt ==
  /\ on
  /\ display' = "EMERGENCY"
  /\ asked' \in {asked, FALSE}
  /\ UNCHANGED on

Stop == on /\ on' = FALSE /\ UNCHANGED <<display, asked>>

Next == Ask \/ Advance \/ Restart \/ Serve \/ Preempt \/ Stop

Spec == Init /\ [][Next]_vars
=============================================================================
