--------------------------- MODULE TrafficSignal ----------------------------
(***************************************************************************)
(* TrafficLight implements Signal: the lamps' history variable is the      *)
(* display, Pending is the request, and the program is on until it exits.  *)
(***************************************************************************)
EXTENDS TrafficLight

Roadside == INSTANCE Signal WITH display <- shown, asked <- Pending, on <- Running

\* Whatever the loop, the interrupts and the clock do, the roadside only sees
\* the displays Signal allows in the order it allows them (main.c:66-136).
ImplementsSignal == Roadside!Spec
=============================================================================
