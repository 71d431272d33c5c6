------------------------------- MODULE MCV2I --------------------------------
(***************************************************************************)
(* V2I on small durations: MCTrafficLight's for the two units together.    *)
(***************************************************************************)
EXTENDS V2I

TinyTime     == [GREEN |-> 2, YELLOW |-> 1, RED |-> 1, PEDESTRIAN |-> 3, EMERGENCY |-> 3]
TinyTimeMin  == [GREEN |-> 1, YELLOW |-> 1, RED |-> 1, PEDESTRIAN |-> 2, EMERGENCY |-> 3]

\* The shortest durations that last as many message periods as the code's:
\* more than two for green and a pedestrian, two for an emergency.
PeriodTime    == [GREEN |-> 3, YELLOW |-> 1, RED |-> 1, PEDESTRIAN |-> 3, EMERGENCY |-> 2]
PeriodTimeMin == PeriodTime
=============================================================================
