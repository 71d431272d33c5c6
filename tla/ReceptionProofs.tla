--------------------------- MODULE ReceptionProofs ---------------------------
(***************************************************************************)
(* Theorems about Reception, for every queue and every number of frames.   *)
(* Each frame that waits is no older than the one in the buffer, which is  *)
(* the one that is shown, and no newer than the last one sent.             *)
(***************************************************************************)
EXTENDS Reception, TLAPS

FrameNumber == 0 .. MaxFrames

ReceptionTypeOK ==
  /\ alive \in BOOLEAN
  /\ socket \in Seq(FrameNumber)
  /\ buffer \in FrameNumber /\ screen \in FrameNumber /\ sent \in FrameNumber

\* What failed receptions show again is what is shown.
ShowsBuffer == screen = buffer

\* The queue between what is shown and what was sent.
InOrder ==
  /\ buffer <= sent
  /\ \A i \in 1 .. Len(socket) :
       socket[i] # NoFrame =>
         /\ buffer <= socket[i] /\ socket[i] <= sent
         /\ \A j \in i .. Len(socket) :
              socket[j] # NoFrame => socket[i] <= socket[j]

OrderKept == ReceptionTypeOK /\ ShowsBuffer /\ InOrder

\* The invariant holds before anything was sent.
LEMMA OrderInit ==
  ASSUME Numbering, ReceptionInit
  PROVE  OrderKept
  BY DEF Numbering, ReceptionInit, Init, OrderKept, ReceptionTypeOK, ShowsBuffer, InOrder,
         FrameNumber

\* A datagram that arrives is behind the others, and no frame is older than
\* those that wait.
LEMMA ArriveKeepsOrder ==
  ASSUME Numbering, OrderKept, NEW d \in FrameNumber, Arrive(d), sent' \in FrameNumber,
         sent <= sent', d # NoFrame => d = sent'
  PROVE  OrderKept'
<1> USE DEF Numbering, OrderKept
<1>1. ReceptionTypeOK'
  <2>1. /\ alive' \in BOOLEAN /\ buffer' \in FrameNumber
        /\ screen' \in FrameNumber
    BY DEF ReceptionTypeOK, Arrive
  <2>2. Append(socket, d) \in Seq(FrameNumber) /\ socket \in Seq(FrameNumber)
    BY DEF ReceptionTypeOK
  <2>3. socket' \in Seq(FrameNumber)
    BY <2>2 DEF Arrive
  <2> QED BY <2>1, <2>3 DEF ReceptionTypeOK
<1>2. ShowsBuffer'
  BY DEF ShowsBuffer, Arrive
<1>3. InOrder'
  <2>1. CASE socket' = socket
    BY <2>1 DEF InOrder, Arrive, ReceptionTypeOK, FrameNumber
  <2>2. CASE socket' = Append(socket, d)
    <3>1. /\ Len(socket') = Len(socket) + 1 /\ Len(socket) \in Nat
          /\ socket'[Len(socket) + 1] = d
          /\ \A i \in 1 .. Len(socket) : socket'[i] = socket[i]
      BY <2>2 DEF ReceptionTypeOK
    <3>2. \A i \in 1 .. Len(socket) : socket[i] \in FrameNumber
      BY DEF ReceptionTypeOK
    <3>3. buffer' = buffer /\ buffer <= sent'
      BY DEF Arrive, InOrder, ReceptionTypeOK, FrameNumber
    <3>4. ASSUME NEW i \in 1 .. Len(socket'), socket'[i] # NoFrame
          PROVE  /\ buffer' <= socket'[i] /\ socket'[i] <= sent'
                 /\ \A j \in i .. Len(socket') :
                      socket'[j] # NoFrame => socket'[i] <= socket'[j]
      <4>1. CASE i = Len(socket) + 1
        BY <3>1, <3>3, <3>4, <4>1 DEF FrameNumber
      <4>2. CASE i \in 1 .. Len(socket)
        <5>1. /\ socket[i] # NoFrame /\ buffer <= socket[i] /\ socket[i] <= sent
              /\ \A j \in i .. Len(socket) :
                   socket[j] # NoFrame => socket[i] <= socket[j]
          BY <3>1, <3>4, <4>2 DEF InOrder
        <5>2. socket[i] <= sent'
          BY <3>2, <4>2, <5>1 DEF ReceptionTypeOK, FrameNumber
        <5> QED
          BY <3>1, <3>2, <3>3, <4>2, <5>1, <5>2 DEF FrameNumber
      <4> QED BY <3>1, <4>1, <4>2
    <3> QED BY <3>3, <3>4 DEF InOrder
  <2> QED BY <2>1, <2>2 DEF Arrive
<1> QED BY <1>1, <1>2, <1>3

\* Whatever is taken from the queue leaves newer frames behind.
LEMMA ReceiveKeepsOrder ==
  ASSUME Numbering, OrderKept, Receive, UNCHANGED sent
  PROVE  OrderKept' /\ screen' >= screen
<1> USE DEF Numbering, OrderKept
<1> DEFINE d == Head(socket)
<1>1. /\ d \in FrameNumber /\ d = socket[1] /\ Len(socket) \in Nat \ {0}
      /\ socket' = Tail(socket) /\ socket' \in Seq(FrameNumber)
      /\ Len(socket') = Len(socket) - 1
      /\ \A i \in 1 .. Len(socket') : socket'[i] = socket[i + 1]
  BY DEF Receive, ReceptionTypeOK
<1>2. \A i \in 1 .. Len(socket) : socket[i] \in FrameNumber
  BY DEF ReceptionTypeOK
<1>3. IF d = NoFrame THEN buffer' = buffer /\ screen' = screen /\ alive' = FALSE
      ELSE buffer' = d /\ screen' = d /\ alive' = alive
  BY DEF Receive, Show, Written
<1>4. ReceptionTypeOK'
  BY <1>1, <1>3 DEF ReceptionTypeOK
<1>5. ShowsBuffer'
  BY <1>3 DEF ShowsBuffer
<1>6. d # NoFrame => buffer <= d /\ d <= sent
  BY <1>1 DEF InOrder
<1>7. buffer' <= sent
  BY <1>3, <1>6 DEF InOrder
<1>8. ASSUME NEW i \in 1 .. Len(socket'), socket'[i] # NoFrame
      PROVE  /\ buffer' <= socket'[i] /\ socket'[i] <= sent
             /\ \A j \in i .. Len(socket') :
                  socket'[j] # NoFrame => socket'[i] <= socket'[j]
  <2>1. i + 1 \in 1 .. Len(socket) /\ socket'[i] = socket[i + 1]
    BY <1>1
  <2>2. /\ buffer <= socket[i + 1] /\ socket[i + 1] <= sent
        /\ \A j \in i + 1 .. Len(socket) :
             socket[j] # NoFrame => socket[i + 1] <= socket[j]
    BY <1>8, <2>1 DEF InOrder
  <2>3. d # NoFrame => d <= socket[i + 1]
    BY <1>1, <1>8, <2>1 DEF InOrder
  <2>4. buffer' <= socket'[i]
    BY <1>3, <2>1, <2>2, <2>3
  <2>5. ASSUME NEW j \in i .. Len(socket'), socket'[j] # NoFrame
        PROVE  socket'[i] <= socket'[j]
    <3>1. j + 1 \in i + 1 .. Len(socket) /\ socket'[j] = socket[j + 1]
      BY <1>1
    <3> QED BY <2>1, <2>2, <2>5, <3>1
  <2> QED BY <2>1, <2>2, <2>4, <2>5
<1>9. screen' >= screen
  BY <1>1, <1>3, <1>6 DEF ShowsBuffer, ReceptionTypeOK, FrameNumber
<1> QED BY <1>4, <1>5, <1>7, <1>8, <1>9 DEF InOrder

\* A failed reception shows what is shown, or ends the process.
LEMMA FailureKeepsOrder ==
  ASSUME Numbering, OrderKept, ReceiveFails, UNCHANGED sent
  PROVE  OrderKept' /\ screen' = screen
  BY DEF OrderKept, ReceiveFails, Show, ReceptionTypeOK, ShowsBuffer, InOrder

\* Each step keeps the order, and the picture with it.
LEMMA StepKeepsOrder ==
  ASSUME Numbering, OrderKept, [ReceptionNext]_receptionVars
  PROVE  OrderKept' /\ screen' >= screen
<1> USE DEF Numbering
<1>0. screen \in Nat
  BY DEF OrderKept, ReceptionTypeOK, FrameNumber
<1>1. CASE Frame
  <2>1. PICK d \in sent .. MaxFrames : d # NoFrame /\ sent' = d /\ Arrive(d)
    BY <1>1 DEF Frame
  <2>2. d \in FrameNumber /\ sent <= d
    BY DEF OrderKept, ReceptionTypeOK, FrameNumber
  <2> QED BY <1>0, <2>1, <2>2, ArriveKeepsOrder DEF Arrive
<1>2. CASE NoBytes
  <2>1. NoFrame \in FrameNumber /\ sent' \in FrameNumber /\ sent <= sent'
    BY <1>2 DEF NoBytes, OrderKept, ReceptionTypeOK, FrameNumber
  <2> QED BY <1>0, <1>2, <2>1, ArriveKeepsOrder DEF NoBytes, Arrive
<1>3. CASE OnBoard
  BY <1>0, <1>3, ReceiveKeepsOrder, FailureKeepsOrder DEF OnBoard, Next
<1>4. CASE UNCHANGED receptionVars
  BY <1>0, <1>4 DEF receptionVars, receiverVars, OrderKept, ReceptionTypeOK,
                    ShowsBuffer, InOrder
<1> QED BY <1>1, <1>2, <1>3, <1>4 DEF ReceptionNext

-----------------------------------------------------------------------------
\* Whatever waits, was lost or was repeated lies between what is shown and what
\* was sent (etsi-car main.c:35-46).
THEOREM OrderIsKept ==
  ASSUME Numbering
  PROVE  ReceptionSpec => []OrderKept
<1>1. ReceptionInit => OrderKept
  BY OrderInit
<1>2. OrderKept /\ [ReceptionNext]_receptionVars => OrderKept'
  BY StepKeepsOrder
<1> QED BY <1>1, <1>2, PTL DEF ReceptionSpec

\* The picture never goes back to an older frame, whatever the size of the
\* queue and however often a reception fails (etsi-car main.c:35-46).
THEOREM PictureNeverGoesBack ==
  ASSUME Numbering
  PROVE  ReceptionSpec => NeverBack
<1>1. OrderKept /\ [ReceptionNext]_receptionVars => [screen' >= screen]_receptionVars
  BY StepKeepsOrder
<1> QED BY <1>1, OrderIsKept, PTL DEF ReceptionSpec, NeverBack
=============================================================================
