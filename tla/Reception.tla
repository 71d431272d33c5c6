----------------------------- MODULE Reception ------------------------------
(***************************************************************************)
(* What the on-board unit promises: fed with frames numbered in the order  *)
(* they were encoded, each sent any number of times, it shows no other.    *)
(* Some never arrive, some wait in the socket while older ones are shown,  *)
(* and recvfrom() may fail at any time.  The datagram with no bytes, which *)
(* the road-side unit sends when it could not encode, is frame 0.          *)
(***************************************************************************)
EXTENDS Receiver

CONSTANT MaxFrames   \* frames that are encoded

VARIABLE sent        \* the last frame sent

receptionVars == <<receiverVars, sent>>

\* What a module that numbers its frames assumes of the constants.
Numbering ==
  /\ NoFrame = 0 /\ MaxFrames \in Nat
  /\ SocketSize \in Nat \ {0} /\ CountCap \in Nat \ {0}

ReceptionInit == Init /\ sent = 0

\* A frame arrives, the last one again or a new one; those between were lost
\* or never sent.
Frame ==
  \E d \in sent .. MaxFrames : d # NoFrame /\ sent' = d /\ Arrive(d)

NoBytes == Arrive(NoFrame) /\ UNCHANGED sent

OnBoard == Next /\ UNCHANGED sent

ReceptionNext == Frame \/ NoBytes \/ OnBoard

ReceptionSpec == ReceptionInit /\ [][ReceptionNext]_receptionVars

-----------------------------------------------------------------------------
\* The picture never goes back to an older frame, neither when datagrams wait
\* or are lost nor when a failed reception has the loop decode whatever the
\* buffer holds (main.c:35-46, udp.c:45-52).
NeverBack == [][ screen' >= screen ]_receptionVars
=============================================================================
