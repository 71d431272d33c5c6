--------------------------- MODULE MCTrafficLight ---------------------------
EXTENDS TrafficSignal
ShortTime == [GREEN |-> 4, YELLOW |-> 2, RED |-> 2, PEDESTRIAN |-> 5, EMERGENCY |-> 6]
ShortTimeMin == [GREEN |-> 2, YELLOW |-> 1, RED |-> 1, PEDESTRIAN |-> 3, EMERGENCY |-> 6]

TinyTime == [GREEN |-> 2, YELLOW |-> 1, RED |-> 1, PEDESTRIAN |-> 3, EMERGENCY |-> 3]
TinyTimeMin == [GREEN |-> 1, YELLOW |-> 1, RED |-> 1, PEDESTRIAN |-> 2, EMERGENCY |-> 3]
=============================================================================
