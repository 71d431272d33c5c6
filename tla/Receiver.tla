------------------------------ MODULE Receiver ------------------------------
(***************************************************************************)
(* The on-board unit: etsi-car/src/main.c receives a datagram, decodes it, *)
(* prints it and draws it on the OLED, and starts again.  It is one thread *)
(* that shares nothing but the socket with the kernel, so an iteration is  *)
(* one step.  It keeps no record of what it received before: the buffer    *)
(* and the picture are all its memory.                                     *)
(***************************************************************************)
EXTENDS Naturals, Sequences

CONSTANTS
  NoFrame,      \* no decodable bytes: an empty datagram, the zeroed buffer
  SocketSize,   \* datagrams the kernel keeps for the socket
  CountCap      \* allocated is counted up to this number

VARIABLES
  alive,        \* the process is running
  socket,       \* datagrams the kernel holds
  buffer,       \* the frame in buffer
  screen,       \* the frame the OLED shows
  allocated     \* decoded messages whose memory is not freed

receiverVars == <<alive, socket, buffer, screen, allocated>>

Init ==
  /\ alive = TRUE
  /\ socket = <<>>
  /\ buffer = NoFrame /\ screen = NoFrame
  /\ allocated = 0

\* The kernel queues a datagram, or drops it when its queue is full or there
\* is no process any more.
Arrive(d) ==
  /\ socket' = IF alive /\ Len(socket) < SocketSize THEN Append(socket, d)
                                                    ELSE socket
  /\ UNCHANGED <<alive, buffer, screen, allocated>>

\* memset, decodeBuffer, printMessage and printDisplay.  The memset forgets
\* what the last decoding allocated.  The result of decodeBuffer is ignored:
\* when it fails timeStamp is NULL and printHeader reads through it.
Show(bytes) ==
  IF bytes = NoFrame
  THEN alive' = FALSE /\ UNCHANGED <<screen, allocated>>
  ELSE /\ screen' = bytes
       /\ allocated' = IF allocated < CountCap THEN allocated + 1 ELSE allocated
       /\ UNCHANGED alive

\* An empty datagram writes no byte of the buffer.
Written(d) == IF d = NoFrame THEN buffer ELSE d

Receive ==
  /\ alive /\ socket # <<>>
  /\ socket' = Tail(socket)
  /\ buffer' = Written(Head(socket))
  /\ Show(Head(socket))

\* recvfrom() returns -1, which decodeBuffer takes for 65535 bytes: what is
\* in the buffer is decoded again.
ReceiveFails ==
  /\ alive
  /\ UNCHANGED <<socket, buffer>>
  /\ Show(buffer)

Next == Receive \/ ReceiveFails

-----------------------------------------------------------------------------
\* main.c:55: memory that was allocated is freed.  At any time no more than
\* the message that is being shown is needed.
NothingLeaks == allocated <= 1
=============================================================================
