-------------------------- MODULE DatagramsProofs ---------------------------
(***************************************************************************)
(* Datagrams implements Reception, for every number of messages below the  *)
(* range of the revision, every queue, everything the loop may write into  *)
(* a message and every codec that gives back what it was given.            *)
(***************************************************************************)
EXTENDS Datagrams, SequenceTheorems, TLAPS

\* What may be in the socket, the buffer and on the screen.
Bytes    == {<< >>} \union {datagrams[k] : k \in DOMAIN datagrams}
Screens  == {NoMessage} \union {Delivered(messages[k]) : k \in DOMAIN messages}

MessageSet ==
  {Message(counts, c) : counts \in [1 .. NumOfIntersections -> Int], c \in Contents}

DatagramsTypeOK ==
  /\ revision \in [1 .. NumOfIntersections -> Int]
  /\ messages \in Seq(MessageSet) /\ Len(messages) <= MaxFrames
  /\ datagrams \in Seq(Seq(0 .. 255)) /\ Len(datagrams) = Len(messages)
  /\ sent \in 0 .. Len(messages)
  /\ alive \in BOOLEAN
  /\ socket \in Seq(Bytes) /\ buffer \in Bytes /\ screen \in Screens

Revision(m) == m.spat.intersections[1].revision

\* The revision of the i-th message is as many below the last as there are
\* messages between, unless the counter has wrapped since.
Counted ==
  /\ messages # << >> => revision[1] \in -126 .. 126
  /\ \A i \in 1 .. Len(messages) :
       LET r == revision[1] - (Len(messages) - i)
       IN  \/ Revision(messages[i]) = r
           \/ /\ revision[1] >= 0 /\ r < 0
              /\ Revision(messages[i]) = r + 127

DatagramsInv == DatagramsTypeOK /\ Counted

-----------------------------------------------------------------------------
\* What a number is given to has that number, if it occurs once.
LEMMA NumberInUnique ==
  ASSUME NEW seq, NEW k \in DOMAIN seq, \A i \in DOMAIN seq : seq[i] = seq[k] => i = k
  PROVE  NumberIn(seq, seq[k]) = k
BY DEF NumberIn

\* The revision of a message is the count it was made with, and arrives.
LEMMA RevisionOfMessage ==
  ASSUME NEW counts \in [1 .. NumOfIntersections -> Int], NEW c
  PROVE  /\ Revision(Message(counts, c)) = counts[1]
         /\ Revision(Delivered(Message(counts, c))) = counts[1]
         /\ Delivered(Message(counts, c)) # NoMessage
<1> DEFINE m == Message(counts, c)
           ints == m.spat.intersections
<1>1. 1 \in 1 .. NumOfIntersections
  BY ContentsAssumption
<1>2. /\ m = [header |-> genHeader, spat |-> m.spat]
      /\ m.spat = [timeStamp |-> c.timeStamp, intersections |-> ints]
      /\ DOMAIN ints = 1 .. NumOfIntersections
  BY DEF Message
<1>3. ints[1] = genIntersection(1, counts[1], c.eventState,
                  [startTime |-> c.startTime, minEndTime |-> c.minEndTime,
                   maxEndTime |-> c.maxEndTime])
  BY <1>1 DEF Message
<1>4. ints[1].revision = counts[1]
  BY <1>3 DEF genIntersection
<1> DEFINE full(i) == [ints[i] EXCEPT !.status = << @, 0 >>]
<1>5. full(1).revision = counts[1]
  BY <1>3 DEF genIntersection
<1> HIDE DEF m
<1>6. Delivered(m) = [m EXCEPT !.spat.intersections = [i \in DOMAIN @ |-> full(i)]]
  BY DEF Delivered
<1> HIDE DEF full
<1>7. Delivered(m).spat.intersections = [i \in 1 .. NumOfIntersections |-> full(i)]
  BY <1>2, <1>6
<1>8. Delivered(m).header = genHeader
  BY <1>2, <1>6
<1>9. genHeader # << >>
  BY DEF genHeader
<1> QED
  BY <1>1, <1>4, <1>5, <1>7, <1>8, <1>9 DEF m, Revision, NoMessage

\* No two messages have the same revision, and none is lost on the way.
LEMMA RevisionsDiffer ==
  ASSUME DatagramsInv
  PROVE  /\ \A i, j \in DOMAIN messages : Revision(messages[i]) = Revision(messages[j]) => i = j
         /\ \A i \in DOMAIN messages : /\ Revision(Delivered(messages[i])) = Revision(messages[i])
                                       /\ Delivered(messages[i]) # NoMessage
<1> DEFINE n == Len(messages)
           R == revision[1]
           rev(i) == Revision(messages[i])
<1>1. n \in 0 .. 126 /\ DOMAIN messages = 1 .. n
  <2>1. messages \in Seq(MessageSet) /\ n <= MaxFrames
    BY DEF DatagramsInv, DatagramsTypeOK
  <2>2. n \in Nat /\ DOMAIN messages = 1 .. n
    BY <2>1
  <2> HIDE DEF n
  <2> QED
    BY <2>1, <2>2, ContentsAssumption
<1>2. R \in Int
  <2>1. revision \in [1 .. NumOfIntersections -> Int]
    BY DEF DatagramsInv, DatagramsTypeOK
  <2>2. 1 \in 1 .. NumOfIntersections
    BY ContentsAssumption
  <2> QED
    BY <2>1, <2>2
<1>3. \A i \in 1 .. n : rev(i) = R - (n - i) \/ (R - (n - i) < 0 /\ rev(i) = R - (n - i) + 127 /\ R >= 0)
  BY DEF DatagramsInv, Counted
<1> HIDE DEF n, R, rev
<1>4. ASSUME NEW i \in 1 .. n, NEW j \in 1 .. n, rev(i) = rev(j) PROVE i = j
  <2>1. \/ rev(i) = R - (n - i)
        \/ (R - (n - i) < 0 /\ rev(i) = R - (n - i) + 127 /\ R >= 0)
    BY <1>3
  <2>2. \/ rev(j) = R - (n - j)
        \/ (R - (n - j) < 0 /\ rev(j) = R - (n - j) + 127 /\ R >= 0)
    BY <1>3
  <2>3. PICK x \in Int : x = rev(i) /\ x = rev(j)
    BY <1>1, <1>2, <1>4, <2>1
  <2>4. i \in 1 .. 126 /\ j \in 1 .. 126 /\ i <= n /\ j <= n /\ n \in Int
    BY <1>1
  <2> QED
    BY <1>2, <2>1, <2>2, <2>3, <2>4
<1>5. ASSUME NEW i \in DOMAIN messages
      PROVE  /\ Revision(Delivered(messages[i])) = Revision(messages[i])
             /\ Delivered(messages[i]) # NoMessage
  <2>1. messages[i] \in MessageSet
    BY DEF DatagramsInv, DatagramsTypeOK
  <2> QED
    BY <2>1, RevisionOfMessage DEF MessageSet
<1> QED
  BY <1>1, <1>4, <1>5 DEF rev

\* The decoder gives back the message of some bytes, told their number or more.
LEMMA GivenBack ==
  ASSUME RoundTrip, NEW k \in DOMAIN datagrams, datagrams[k] # << >>,
         NEW size \in {Len(datagrams[k]), AnySize}
  PROVE  /\ Readable(FromBytes(datagrams[k], size))
         /\ FromBytes(datagrams[k], size).value = Delivered(messages[k])
<1> DEFINE S == 0 .. 255
<1>1. datagrams[k] \in Seq(S)
  BY DEF RoundTrip
<1> HIDE DEF S
<1>2. Len(datagrams[k]) # 0
  BY <1>1
<1>3. size # 0
  BY <1>2 DEF AnySize
<1> QED
  BY <1>3 DEF RoundTrip

\* It has nothing to give back of no bytes.
LEMMA NotGivenBack ==
  ASSUME RoundTrip, NEW bytes \in Bytes, NEW size,
         size = 0 \/ (bytes = << >> /\ size = AnySize)
  PROVE  ~Readable(FromBytes(bytes, size))
BY DEF RoundTrip, Bytes

\* Messages and bytes have their numbers.
LEMMA Numbers ==
  ASSUME DatagramsInv, RoundTrip, NEW k \in DOMAIN messages
  PROVE  /\ NumberIn([i \in DOMAIN messages |-> Delivered(messages[i])],
                     Delivered(messages[k])) = k
         /\ datagrams[k] # << >> => ByteNumber(datagrams[k]) = k
<1>1. DOMAIN datagrams = DOMAIN messages
  BY DEF DatagramsInv, DatagramsTypeOK
<1>2. ASSUME NEW i \in DOMAIN messages, Delivered(messages[i]) = Delivered(messages[k])
      PROVE  i = k
  BY <1>2, RevisionsDiffer
<1>3. NumberIn([i \in DOMAIN messages |-> Delivered(messages[i])],
               Delivered(messages[k])) = k
  <2> DEFINE seq == [i \in DOMAIN messages |-> Delivered(messages[i])]
  <2>1. k \in DOMAIN seq /\ seq[k] = Delivered(messages[k])
    OBVIOUS
  <2>2. \A i \in DOMAIN seq : seq[i] = seq[k] => i = k
    BY <1>2
  <2> HIDE DEF seq
  <2>3. NumberIn(seq, seq[k]) = k
    BY <2>1, <2>2, NumberInUnique
  <2> QED
    BY <2>1, <2>3 DEF seq
<1>4. ASSUME datagrams[k] # << >> PROVE ByteNumber(datagrams[k]) = k
  <2>1. ASSUME NEW i \in DOMAIN datagrams, datagrams[i] = datagrams[k] PROVE i = k
    <3>1. /\ FromBytes(datagrams[i], AnySize).value = Delivered(messages[i])
          /\ FromBytes(datagrams[k], AnySize).value = Delivered(messages[k])
      BY <1>1, <1>4, <2>1, GivenBack
    <3> QED
      BY <1>1, <1>2, <2>1, <3>1
  <2>2. NumberIn(datagrams, datagrams[k]) = k
    BY <1>1, <2>1, NumberInUnique
  <2> QED
    BY <1>4, <2>2 DEF ByteNumber
<1> QED
  BY <1>3, <1>4

\* The numbering gives back the place of what was encoded.
NumbersKept ==
  /\ \A k \in DOMAIN datagrams : datagrams[k] # << >> => ByteNumber(datagrams[k]) = k
  /\ \A k \in DOMAIN messages :
       /\ Delivered(messages[k]) # NoMessage
       /\ NumberIn([i \in DOMAIN messages |-> Delivered(messages[i])],
                   Delivered(messages[k])) = k

LEMMA NumberingHolds ==
  DatagramsInv /\ RoundTrip => NumbersKept
<1> SUFFICES ASSUME DatagramsInv, RoundTrip PROVE NumbersKept
  OBVIOUS
<1>1. DOMAIN datagrams = DOMAIN messages
  BY DEF DatagramsInv, DatagramsTypeOK
<1>2. ASSUME NEW k \in DOMAIN messages
      PROVE  /\ datagrams[k] # << >> => ByteNumber(datagrams[k]) = k
             /\ Delivered(messages[k]) # NoMessage
             /\ NumberIn([i \in DOMAIN messages |-> Delivered(messages[i])],
                         Delivered(messages[k])) = k
  BY Numbers, RevisionsDiffer
<1> QED
  BY <1>1, <1>2 DEF NumbersKept

LEMMA NumberingHoldsNext ==
  DatagramsInv' /\ RoundTrip' => NumbersKept'
BY NumberingHolds, PTL

\* The socket as Reception has it.
SocketNumbers == [i \in DOMAIN socket |-> ByteNumber(socket[i])]

-----------------------------------------------------------------------------
\* The counter as a sum, where it counts.
LEMMA CountStep ==
  /\ \A r \in Int : Count(r) \in -126 .. 126
  /\ \A r \in -126 .. 126 : Count(r) = IF r = 126 THEN 0 ELSE r + 1
<1>1. ASSUME NEW r \in Int, r + 1 >= 0 PROVE Count(r) = (r + 1) % 127 /\ (r + 1) % 127 \in 0 .. 126
  BY <1>1 DEF Count
<1>2. ASSUME NEW r \in Int, ~(r + 1 >= 0)
      PROVE  Count(r) = -(-(r + 1) % 127) /\ -(r + 1) % 127 \in 0 .. 126
  BY <1>2 DEF Count
<1>3. ASSUME NEW r \in Int PROVE Count(r) \in -126 .. 126
  <2>1. CASE r + 1 >= 0
    BY <1>1, <2>1
  <2>2. CASE ~(r + 1 >= 0)
    <3>1. PICK k \in 0 .. 126 : k = -(r + 1) % 127
      BY <1>2, <2>2
    <3> QED
      BY <1>2, <2>2, <3>1
  <2> QED
    BY <2>1, <2>2
<1>4. ASSUME NEW r \in -126 .. 126 PROVE Count(r) = IF r = 126 THEN 0 ELSE r + 1
  <2>1. CASE r + 1 >= 0
    <3>1. (r + 1) % 127 = IF r = 126 THEN 0 ELSE r + 1
      BY <2>1
    <3> QED
      BY <1>1, <2>1, <3>1
  <2>2. CASE ~(r + 1 >= 0)
    <3>1. -(r + 1) % 127 = -(r + 1) /\ -(-(r + 1)) = r + 1 /\ r # 126
      BY <2>2
    <3>2. Count(r) = -(-(r + 1) % 127)
      BY <1>2, <2>2
    <3> QED
      BY <3>1, <3>2
  <2> QED
    BY <2>1, <2>2
<1> QED
  BY <1>3, <1>4

\* A new message is behind the others, with a revision of its own.
LEMMA EncodeKeepsInv ==
  ASSUME DatagramsInv, RoundTrip', encodeBuffer
  PROVE  DatagramsInv'
<1> DEFINE n == Len(messages)
<1>1. PICK c \in Contents :
        /\ messages' = Append(messages, Message(revision', c))
        /\ datagrams' = Append(datagrams, ToBytes(Message(revision', c)))
  BY DEF encodeBuffer
<1>2. /\ n < MaxFrames /\ revision' = [revision EXCEPT ![1] = Count(@)]
      /\ UNCHANGED <<signalGroup, sent, alive, socket, buffer, screen, allocated>>
  BY DEF encodeBuffer, onBoardVars
<1>3. /\ revision \in [1 .. NumOfIntersections -> Int] /\ 1 \in 1 .. NumOfIntersections
      /\ messages \in Seq(MessageSet) /\ datagrams \in Seq(Seq(0 .. 255))
      /\ Len(datagrams) = n
  BY ContentsAssumption DEF DatagramsInv, DatagramsTypeOK
<1>4. revision' \in [1 .. NumOfIntersections -> Int] /\ revision'[1] = Count(revision[1])
  <2>1. revision[1] \in Int
    BY <1>3
  <2>2. Count(revision[1]) \in Int
    BY <2>1, CountStep
  <2> QED
    BY <1>2, <1>3, <2>2
<1>5. Message(revision', c) \in MessageSet /\ MessageSet' = MessageSet
  <2>1. MessageSet' = MessageSet
    BY <1>2 DEF MessageSet, Message, genIntersection
  <2> QED
    BY <1>4, <2>1 DEF MessageSet
<1> DEFINE m == Message(revision', c)
<1> HIDE DEF m
<1>6. n \in Nat /\ DOMAIN messages = 1 .. n /\ DOMAIN datagrams = 1 .. n
  BY <1>3
<1>7. /\ messages' \in Seq(MessageSet) /\ Len(messages') = n + 1
      /\ DOMAIN messages' = 1 .. n + 1
      /\ messages'[n + 1] = m /\ \A i \in 1 .. n : messages'[i] = messages[i]
  BY <1>1, <1>3, <1>5 DEF m
<1>8. /\ Len(datagrams') = n + 1 /\ DOMAIN datagrams' = 1 .. n + 1
      /\ \A i \in 1 .. n : datagrams'[i] = datagrams[i]
      /\ datagrams' \in Seq(Seq(0 .. 255))
  <2> DEFINE b == ToBytes(Message(revision', c))
  <2>1. datagrams' = Append(datagrams, b)
    BY <1>1
  <2> HIDE DEF b
  <2> DEFINE S == Seq(0 .. 255) \union {b}
  <2>2. datagrams \in Seq(S) /\ b \in S
    BY <1>3
  <2> HIDE DEF S
  <2>3. /\ Len(datagrams') = n + 1 /\ DOMAIN datagrams' = 1 .. n + 1
        /\ datagrams'[n + 1] = b
        /\ \A i \in 1 .. n : datagrams'[i] = datagrams[i]
    <3>1. /\ Len(datagrams') = Len(datagrams) + 1
          /\ DOMAIN datagrams' = 1 .. Len(datagrams) + 1
          /\ datagrams'[Len(datagrams) + 1] = b
          /\ \A i \in 1 .. Len(datagrams) : datagrams'[i] = datagrams[i]
      BY <2>1, <2>2
    <3>2. Len(datagrams) = n
      BY <1>3
    <3> HIDE DEF n
    <3> QED
      BY <3>1, <3>2
  <2>4. b \in Seq(0 .. 255)
    <3>1. \A i \in DOMAIN datagrams' : datagrams'[i] \in Seq(0 .. 255)
      BY Zenon DEF RoundTrip
    <3>2. n + 1 \in DOMAIN datagrams'
      BY <1>6, <2>3
    <3> QED
      BY <2>3, <3>1, <3>2
  <2> QED
    BY <1>3, <2>1, <2>3, <2>4
<1>9. Bytes \subseteq Bytes' /\ Screens \subseteq Screens'
  <2>1. \A k \in 1 .. n : k \in 1 .. n + 1
    BY <1>6
  <2>2. Bytes \subseteq Bytes'
    BY <1>6, <1>8, <2>1 DEF Bytes
  <2>3. Screens \subseteq Screens'
    BY <1>6, <1>7, <2>1 DEF Screens, Delivered
  <2> QED
    BY <2>2, <2>3
<1>10. DatagramsTypeOK'
  <2>1. /\ Len(messages') <= MaxFrames /\ sent' \in 0 .. Len(messages')
        /\ Len(datagrams') = Len(messages')
    <3>1. sent \in 0 .. n /\ MaxFrames \in Nat
      BY ContentsAssumption DEF DatagramsInv, DatagramsTypeOK
    <3> HIDE DEF n
    <3> QED
      BY <1>2, <1>6, <1>7, <1>8, <3>1
  <2>2. socket \in Seq(Bytes) /\ buffer \in Bytes /\ screen \in Screens /\ alive \in BOOLEAN
    BY DEF DatagramsInv, DatagramsTypeOK
  <2>3. socket' \in Seq(Bytes')
    BY <1>2, <1>9, <2>2
  <2> QED
    BY <1>2, <1>4, <1>5, <1>7, <1>8, <1>9, <2>1, <2>2, <2>3 DEF DatagramsTypeOK
<1>11. Counted'
  <2> DEFINE R == revision[1]
             rev(i) == Revision(messages[i])
  <2>1. R \in Int /\ n \in 0 .. 125
    <3>1. MaxFrames \in 0 .. 126
      BY ContentsAssumption
    <3> HIDE DEF n
    <3> QED
      BY <1>2, <1>3, <1>6, <3>1
  <2>2. /\ n # 0 => R \in -126 .. 126
        /\ \A i \in 1 .. n : rev(i) = R - (n - i) \/ (R >= 0 /\ R - (n - i) < 0 /\ rev(i) = R - (n - i) + 127)
    BY <1>3 DEF DatagramsInv, Counted
  <2>3. revision'[1] \in -126 .. 126
        /\ (R \in -126 .. 126 => revision'[1] = IF R = 126 THEN 0 ELSE R + 1)
    BY <1>4, <2>1, CountStep
  <2>4. Revision(messages'[n + 1]) = revision'[1]
    BY <1>4, <1>7, RevisionOfMessage DEF m
  <2>5. ASSUME NEW i \in 1 .. n + 1
        PROVE  \/ Revision(messages'[i]) = revision'[1] - ((n + 1) - i)
               \/ /\ revision'[1] >= 0 /\ revision'[1] - ((n + 1) - i) < 0
                  /\ Revision(messages'[i]) = revision'[1] - ((n + 1) - i) + 127
    <3>1. CASE i = n + 1
      <4>1. revision'[1] - ((n + 1) - i) = revision'[1]
        <5>1. PICK x \in -126 .. 126 : x = revision'[1]
          BY <2>3
        <5> HIDE DEF n
        <5> QED
          BY <2>1, <3>1, <5>1
      <4> QED
        BY <2>4, <3>1, <4>1
    <3>2. CASE i \in 1 .. n
      <4>1. Revision(messages'[i]) = rev(i)
        BY <1>7, <3>2
      <4>2. \/ rev(i) = R - (n - i)
            \/ (R >= 0 /\ R - (n - i) < 0 /\ rev(i) = R - (n - i) + 127)
        BY <2>2, <3>2
      <4> HIDE DEF n, R, rev
      <4>3. /\ R \in -126 .. 126 /\ n \in 1 .. 125 /\ i \in 1 .. 125 /\ i <= n
            /\ revision'[1] = IF R = 126 THEN 0 ELSE R + 1
        BY <2>1, <2>2, <2>3, <3>2
      <4> QED
        BY <4>1, <4>2, <4>3
    <3> QED
      BY <1>6, <3>1, <3>2
  <2> QED
    BY <1>7, <2>3, <2>5 DEF Counted
<1> QED
  BY <1>10, <1>11 DEF DatagramsInv

\* What was numbered keeps its number when a message is added.
LEMMA EncodeStutters ==
  ASSUME DatagramsInv, NumbersKept, DatagramsInv', NumbersKept', encodeBuffer
  PROVE  UNCHANGED Numbered!receptionVars
<1>1. /\ \E c : /\ messages' = Append(messages, Message(revision', c))
                /\ datagrams' = Append(datagrams, ToBytes(Message(revision', c)))
      /\ UNCHANGED <<sent, alive, socket, buffer, screen, allocated>>
  BY DEF encodeBuffer, onBoardVars
<1> DEFINE n == Len(messages)
<1>2. /\ messages \in Seq(MessageSet) /\ datagrams \in Seq(Seq(0 .. 255)) /\ Len(datagrams) = n
      /\ messages' \in Seq(MessageSet') /\ datagrams' \in Seq(Seq(0 .. 255))
      /\ Len(datagrams') = Len(messages')
  BY DEF DatagramsInv, DatagramsTypeOK
<1>3. n \in Nat /\ DOMAIN messages = 1 .. n /\ DOMAIN datagrams = 1 .. n
  BY <1>2
<1>4. DOMAIN messages' = 1 .. n + 1 /\ DOMAIN datagrams' = 1 .. n + 1
  <2>1. PICK m : messages' = Append(messages, m)
    BY <1>1
  <2>2. Len(messages') = n + 1
    BY <1>2, <2>1
  <2> HIDE DEF n
  <2> QED
    BY <1>2, <2>2
<1>5. ASSUME NEW k \in 1 .. n
      PROVE  messages'[k] = messages[k] /\ datagrams'[k] = datagrams[k]
  <2>1. PICK m, b : messages' = Append(messages, m) /\ datagrams' = Append(datagrams, b)
    BY <1>1
  <2>2. messages'[k] = messages[k]
    BY <1>2, <2>1
  <2>3. k \in 1 .. Len(datagrams)
    BY <1>2
  <2>4. datagrams'[k] = datagrams[k]
    BY <1>2, <2>1, <2>3
  <2> QED
    BY <2>2, <2>4
<1> HIDE DEF n
<1>6. \A k \in 1 .. n : k \in 1 .. n + 1
  BY <1>3
<1>7. ASSUME NEW b \in Bytes PROVE ByteNumber(b)' = ByteNumber(b)
  <2>1. CASE b = << >>
    BY <2>1 DEF ByteNumber
  <2>2. CASE b # << >>
    <3>1. PICK k \in 1 .. n : b = datagrams[k]
      BY <1>3, <2>2 DEF Bytes
    <3>2. ByteNumber(b) = k
      BY <1>3, <2>2, <3>1 DEF NumbersKept
    <3>3. k \in DOMAIN datagrams' /\ datagrams'[k] = b
      BY <1>4, <1>5, <1>6, <3>1
    <3>4. (\A i \in DOMAIN datagrams : datagrams[i] # << >> => ByteNumber(datagrams[i]) = i)'
      BY Zenon DEF NumbersKept
    <3>5. ByteNumber(b)' = k
      BY <2>2, <3>3, <3>4
    <3> QED
      BY <3>2, <3>5
  <2> QED
    BY <2>1, <2>2
<1>8. SocketNumbers' = SocketNumbers
  <2>1. socket \in Seq(Bytes) /\ socket' = socket
    BY <1>1 DEF DatagramsInv, DatagramsTypeOK
  <2>2. \A i \in DOMAIN socket : socket[i] \in Bytes
    BY <2>1
  <2> QED
    BY <1>7, <2>1, <2>2 DEF SocketNumbers
<1>9. ByteNumber(buffer)' = ByteNumber(buffer)
  <2>1. buffer \in Bytes /\ buffer' = buffer
    BY <1>1 DEF DatagramsInv, DatagramsTypeOK
  <2> QED
    BY <1>7, <2>1 DEF ByteNumber
<1>10. ScreenNumber' = ScreenNumber
  <2>1. screen \in Screens /\ screen' = screen
    BY <1>1 DEF DatagramsInv, DatagramsTypeOK
  <2>2. CASE screen = NoMessage
    BY <2>1, <2>2 DEF ScreenNumber
  <2>3. CASE screen # NoMessage
    <3>1. PICK k \in 1 .. n : screen = Delivered(messages[k])
      BY <1>3, <2>1, <2>3 DEF Screens
    <3>2. ScreenNumber = k
      BY <1>3, <2>3, <3>1 DEF NumbersKept, ScreenNumber
    <3>3. k \in DOMAIN messages' /\ screen' = Delivered(messages'[k]) /\ screen' # NoMessage
      BY <1>4, <1>5, <1>6, <2>1, <2>3, <3>1
    <3>4. \A i \in DOMAIN messages' :
            NumberIn([j \in DOMAIN messages' |-> Delivered(messages'[j])],
                     Delivered(messages'[i])) = i
      BY Zenon DEF NumbersKept
    <3>5. ScreenNumber' = NumberIn([j \in DOMAIN messages' |-> Delivered(messages'[j])], screen')
      BY <3>3 DEF ScreenNumber, NoMessage, NumberIn, Delivered
    <3>6. ScreenNumber' = k
      BY <3>3, <3>4, <3>5
    <3> QED
      BY <3>2, <3>6
  <2> QED
    BY <2>2, <2>3
<1> QED
  BY <1>1, <1>8, <1>9, <1>10 DEF Numbered!receptionVars, Numbered!receiverVars, SocketNumbers

-----------------------------------------------------------------------------
\* What a step that encodes nothing keeps.
LEMMA NoneEncoded ==
  ASSUME UNCHANGED <<messages, datagrams>>
  PROVE  /\ \A b : ByteNumber(b)' = ByteNumber(b)
         /\ Bytes' = Bytes /\ Screens' = Screens
         /\ screen' = screen => ScreenNumber' = ScreenNumber
<1>1. ASSUME NEW b PROVE ByteNumber(b)' = ByteNumber(b)
  BY DEF ByteNumber
<1>2. Bytes' = Bytes /\ Screens' = Screens
  BY DEF Bytes, Screens
<1>3. screen' = screen => ScreenNumber' = ScreenNumber
  BY DEF ScreenNumber
<1> QED
  BY <1>1, <1>2, <1>3

\* The numbers of a socket are a sequence of its length.
LEMMA SocketNumbered ==
  ASSUME socket \in Seq(Bytes)
  PROVE  /\ Len(socket) \in Nat /\ DOMAIN socket = 1 .. Len(socket)
         /\ SocketNumbers \in Seq({ByteNumber(b) : b \in Bytes})
         /\ Len(SocketNumbers) = Len(socket)
         /\ \A i \in 1 .. Len(socket) :
              socket[i] \in Bytes /\ SocketNumbers[i] = ByteNumber(socket[i])
<1> DEFINE S == {ByteNumber(b) : b \in Bytes}
<1>1. Len(socket) \in Nat /\ DOMAIN socket = 1 .. Len(socket)
  OBVIOUS
<1>2. \A i \in 1 .. Len(socket) : socket[i] \in Bytes
  OBVIOUS
<1>3. SocketNumbers = [i \in 1 .. Len(socket) |-> ByteNumber(socket[i])]
  BY <1>1 DEF SocketNumbers
<1>4. \A i \in 1 .. Len(socket) : ByteNumber(socket[i]) \in S
  BY <1>2
<1> HIDE DEF S
<1>5. SocketNumbers \in Seq(S) /\ Len(SocketNumbers) = Len(socket)
  BY <1>1, <1>3, <1>4
<1> QED
  BY <1>1, <1>2, <1>3, <1>5 DEF S

\* A datagram that arrives is the last number.
LEMMA SocketGrows ==
  ASSUME socket \in Seq(Bytes), NEW b \in Bytes, socket' = Append(socket, b),
         UNCHANGED <<messages, datagrams>>
  PROVE  /\ SocketNumbers' = Append(SocketNumbers, ByteNumber(b))
         /\ socket' \in Seq(Bytes)
<1> DEFINE n == Len(socket)
           S == {ByteNumber(x) : x \in Bytes}
<1>1. /\ n \in Nat /\ SocketNumbers \in Seq(S) /\ Len(SocketNumbers) = n
      /\ \A i \in 1 .. n : /\ socket[i] \in Bytes
                           /\ SocketNumbers[i] = ByteNumber(socket[i])
  BY SocketNumbered
<1>2. ByteNumber(b) \in S
  OBVIOUS
<1>3. /\ Len(socket') = n + 1 /\ DOMAIN socket' = 1 .. n + 1 /\ socket'[n + 1] = b
      /\ \A i \in 1 .. n : socket'[i] = socket[i]
      /\ socket' \in Seq(Bytes)
  OBVIOUS
<1> HIDE DEF n, S
<1>4. SocketNumbers' = [i \in 1 .. n + 1 |-> ByteNumber(socket'[i])]
  BY <1>3, NoneEncoded DEF SocketNumbers
<1>5. /\ Append(SocketNumbers, ByteNumber(b)) \in Seq(S)
      /\ Len(Append(SocketNumbers, ByteNumber(b))) = n + 1
      /\ Append(SocketNumbers, ByteNumber(b))[n + 1] = ByteNumber(b)
      /\ \A i \in 1 .. n : Append(SocketNumbers, ByteNumber(b))[i] = SocketNumbers[i]
  BY <1>1, <1>2
<1>6. ASSUME NEW i \in 1 .. n + 1
      PROVE  SocketNumbers'[i] = Append(SocketNumbers, ByteNumber(b))[i]
  <2>1. CASE i = n + 1
    BY <1>3, <1>4, <1>5, <2>1
  <2>2. CASE i \in 1 .. n
    BY <1>1, <1>3, <1>4, <1>5, <2>2
  <2> QED
    BY <1>1, <2>1, <2>2
<1>7. SocketNumbers' \in Seq(S) /\ Len(SocketNumbers') = n + 1
  <2>1. ASSUME NEW i \in 1 .. n + 1 PROVE socket'[i] \in Bytes
    <3>1. CASE i = n + 1
      <4>1. socket'[i] = b
        BY <1>3, <3>1
      <4> QED
        BY <4>1
    <3>2. CASE i \in 1 .. n
      BY <1>1, <1>3, <3>2
    <3>3. i = n + 1 \/ i \in 1 .. n
      BY <1>1
    <3> QED
      BY <3>1, <3>2, <3>3
  <2>2. \A i \in 1 .. n + 1 : ByteNumber(socket'[i]) \in S
    BY <2>1 DEF S
  <2>3. PICK m \in Nat : m = n + 1
    BY <1>1
  <2>4. SocketNumbers' = [i \in 1 .. m |-> ByteNumber(socket'[i])]
    BY <1>4, <2>3
  <2>5. \A i \in 1 .. m : ByteNumber(socket'[i]) \in S
    BY <2>2, <2>3
  <2>6. SocketNumbers' \in Seq(S) /\ Len(SocketNumbers') = m
    <3>1. SocketNumbers' \in [1 .. m -> S]
      BY <2>4, <2>5
    <3>2. \A f \in [1 .. m -> S] : f \in Seq(S) /\ Len(f) = m
      OBVIOUS
    <3> QED
      BY <3>1, <3>2
  <2> QED
    BY <2>3, <2>6
<1>8. SocketNumbers' = Append(SocketNumbers, ByteNumber(b))
  BY <1>5, <1>6, <1>7, SeqEqual
<1> QED
  BY <1>3, <1>8

\* What is received is the first number.
LEMMA SocketShrinks ==
  ASSUME socket \in Seq(Bytes), socket # << >>, socket' = Tail(socket),
         UNCHANGED <<messages, datagrams>>
  PROVE  /\ SocketNumbers # << >>
         /\ SocketNumbers' = Tail(SocketNumbers)
         /\ Head(SocketNumbers) = ByteNumber(Head(socket))
         /\ Head(socket) \in Bytes /\ socket' \in Seq(Bytes)
<1> DEFINE n == Len(socket)
           S == {ByteNumber(x) : x \in Bytes}
<1>1. /\ n \in Nat /\ SocketNumbers \in Seq(S) /\ Len(SocketNumbers) = n
      /\ \A i \in 1 .. n : SocketNumbers[i] = ByteNumber(socket[i])
  BY SocketNumbered
<1>2. /\ n > 0 /\ Len(socket') = n - 1 /\ DOMAIN socket' = 1 .. n - 1
      /\ \A i \in 1 .. n - 1 : socket'[i] = socket[i + 1]
      /\ socket' \in Seq(Bytes) /\ Head(socket) = socket[1] /\ Head(socket) \in Bytes
  OBVIOUS
<1> HIDE DEF n, S
<1>3. SocketNumbers' = [i \in 1 .. n - 1 |-> ByteNumber(socket'[i])]
  BY <1>2, NoneEncoded DEF SocketNumbers
<1>4. SocketNumbers # << >> /\ Head(SocketNumbers) = SocketNumbers[1]
  BY <1>1, <1>2
<1>5. /\ Tail(SocketNumbers) \in Seq(S) /\ Len(Tail(SocketNumbers)) = n - 1
      /\ \A i \in 1 .. n - 1 : Tail(SocketNumbers)[i] = SocketNumbers[i + 1]
  BY <1>1, <1>2, <1>4
<1>6. \A i \in 1 .. n - 1 : i + 1 \in 1 .. n
  BY <1>1, <1>2
<1>7. \A i \in 1 .. n - 1 : SocketNumbers'[i] = Tail(SocketNumbers)[i]
  BY <1>1, <1>2, <1>3, <1>5, <1>6
<1>8. SocketNumbers' \in Seq(S) /\ Len(SocketNumbers') = n - 1
  <2>1. \A i \in 1 .. n - 1 : ByteNumber(socket'[i]) \in S
    BY <1>2 DEF S
  <2> QED
    BY <1>1, <1>2, <1>3, <2>1
<1>9. SocketNumbers' = Tail(SocketNumbers)
  BY <1>5, <1>7, <1>8, SeqEqual
<1>10. SocketNumbers[1] = ByteNumber(Head(socket))
  BY <1>1, <1>2
<1> QED
  BY <1>2, <1>4, <1>9, <1>10

\* Sending puts the number of the last message, or of no bytes, in the socket.
LEMMA SendStep ==
  ASSUME DatagramsInv, NumbersKept, sendMessage
  PROVE  DatagramsInv' /\ (Numbered!Frame \/ Numbered!NoBytes)
<1> DEFINE n == Len(datagrams)
           b == Last(datagrams)
<1>1. /\ datagrams # << >>
      /\ socket' = IF alive /\ Len(socket) < SocketSize THEN Append(socket, b) ELSE socket
      /\ sent' = IF b = << >> THEN sent ELSE n
      /\ UNCHANGED <<signalGroup, revision, messages, datagrams, alive, buffer, screen, allocated>>
  BY DEF sendMessage
<1>2. /\ datagrams \in Seq(Seq(0 .. 255)) /\ messages \in Seq(MessageSet)
      /\ n = Len(messages) /\ n <= MaxFrames /\ sent \in 0 .. Len(messages)
      /\ socket \in Seq(Bytes)
  BY DEF DatagramsInv, DatagramsTypeOK
<1>3. n \in Nat /\ n > 0 /\ DOMAIN datagrams = 1 .. n /\ b = datagrams[n]
  BY <1>1, <1>2 DEF Last
<1>4. b \in Bytes
  BY <1>3 DEF Bytes
<1>5. sent \in 0 .. n /\ sent' \in 0 .. n /\ MaxFrames \in Nat
  BY <1>1, <1>2, <1>3, ContentsAssumption
<1> HIDE DEF n, b
<1>6. /\ \A x : ByteNumber(x)' = ByteNumber(x)
      /\ Bytes' = Bytes /\ Screens' = Screens /\ ScreenNumber' = ScreenNumber
  BY <1>1, NoneEncoded
<1>7. /\ socket' \in Seq(Bytes)
      /\ SocketNumbers' = IF alive /\ Len(SocketNumbers) < SocketSize
                          THEN Append(SocketNumbers, ByteNumber(b)) ELSE SocketNumbers
  <2>1. Len(SocketNumbers) = Len(socket)
    BY <1>2, SocketNumbered
  <2>2. CASE alive /\ Len(socket) < SocketSize
    <3>1. socket' = Append(socket, b) /\ UNCHANGED <<messages, datagrams>>
      BY <1>1, <2>2
    <3> QED
      BY <1>2, <1>4, <2>1, <2>2, <3>1, SocketGrows
  <2>3. CASE ~(alive /\ Len(socket) < SocketSize)
    <3>1. socket' = socket
      BY <1>1, <2>3
    <3>2. SocketNumbers' = SocketNumbers
      BY <1>6, <3>1 DEF SocketNumbers
    <3> QED
      BY <1>2, <2>1, <2>3, <3>1, <3>2
  <2> QED
    BY <2>2, <2>3
<1>8. Numbered!Arrive(ByteNumber(b))
  BY <1>1, <1>6, <1>7 DEF Numbered!Arrive, SocketNumbers
<1>9. DatagramsInv'
  <2>1. MessageSet' = MessageSet
    BY <1>1 DEF MessageSet, Message, genIntersection
  <2>2. DatagramsTypeOK'
    BY <1>1, <1>2, <1>5, <1>6, <1>7, <2>1 DEF DatagramsInv, DatagramsTypeOK
  <2>3. Counted'
    BY <1>1 DEF DatagramsInv, Counted, Revision
  <2> QED
    BY <2>2, <2>3 DEF DatagramsInv
<1>10. CASE b = << >>
  <2>1. ByteNumber(b) = 0 /\ UNCHANGED sent
    BY <1>1, <1>10 DEF ByteNumber
  <2> QED
    BY <1>8, <1>9, <2>1 DEF Numbered!NoBytes
<1>11. CASE b # << >>
  <2>1. ByteNumber(b) = n /\ sent' = n
    BY <1>1, <1>3, <1>11 DEF NumbersKept
  <2>2. n \in sent .. MaxFrames /\ n # 0
    BY <1>2, <1>3, <1>5
  <2> QED
    BY <1>8, <1>9, <2>1, <2>2 DEF Numbered!Frame
<1> QED
  BY <1>10, <1>11

\* The decoder gives back the message of the bytes, told their number or more.
LEMMA MessageShown ==
  ASSUME DatagramsInv, RoundTrip, NumbersKept, UNCHANGED <<messages, datagrams>>, alive,
         NEW bytes \in Bytes, bytes # << >>, NEW size \in {Len(bytes), AnySize},
         Show(bytes, size)
  PROVE  /\ alive' = TRUE /\ screen' \in Screens'
         /\ ScreenNumber' = ByteNumber(bytes) /\ ByteNumber(bytes) # 0
         /\ allocated' = IF allocated < CountCap THEN allocated + 1 ELSE allocated
<1>1. PICK k \in DOMAIN datagrams : bytes = datagrams[k]
  BY DEF Bytes
<1>2. /\ Readable(FromBytes(bytes, size))
      /\ FromBytes(bytes, size).value = Delivered(messages[k])
  BY <1>1, GivenBack
<1>3. /\ alive' = TRUE /\ screen' = Delivered(messages[k])
      /\ allocated' = IF allocated < CountCap THEN allocated + 1 ELSE allocated
  BY <1>2 DEF Show, Readable
<1>4. k \in DOMAIN messages /\ k # 0
  BY <1>1 DEF DatagramsInv, DatagramsTypeOK
<1>5. ByteNumber(bytes) = k
  BY <1>1 DEF NumbersKept
<1>6. /\ Delivered(messages[k]) # NoMessage
      /\ NumberIn([i \in DOMAIN messages |-> Delivered(messages[i])],
                  Delivered(messages[k])) = k
  BY <1>4 DEF NumbersKept
<1>7. /\ messages' = messages
      /\ ScreenNumber' = IF screen' = NoMessage THEN 0
           ELSE NumberIn([i \in DOMAIN messages |-> Delivered(messages[i])], screen')
  BY DEF ScreenNumber, NoMessage, NumberIn, Delivered
<1>8. ScreenNumber' = k
  BY <1>3, <1>6, <1>7
<1>9. screen' \in Screens'
  BY <1>3, <1>4, NoneEncoded DEF Screens
<1> QED
  BY <1>3, <1>4, <1>5, <1>8, <1>9

\* Without bytes there is no message, and the process ends.
LEMMA NothingShown ==
  ASSUME DatagramsInv, RoundTrip, UNCHANGED <<messages, datagrams>>,
         NEW bytes \in Bytes, NEW size, size = 0 \/ (bytes = << >> /\ size = AnySize),
         Show(bytes, size)
  PROVE  /\ alive' = FALSE /\ screen' = screen /\ allocated' = allocated
         /\ screen' \in Screens' /\ ScreenNumber' = ScreenNumber
<1>1. ~Readable(FromBytes(bytes, size))
  BY NotGivenBack
<1>2. Readable(FromBytes(bytes, size)) \in BOOLEAN
  BY DEF Readable
<1>3. alive' = FALSE /\ screen' = screen /\ allocated' = allocated
  BY <1>1, <1>2 DEF Show
<1> QED
  BY <1>3, NoneEncoded DEF DatagramsInv, DatagramsTypeOK

\* The buffer is never cleared, but holds nothing that is longer than what
\* comes.
LEMMA BufferOverwritten ==
  ASSUME DatagramsInv, RoundTrip, NEW bytes \in Bytes
  PROVE  Overwritten(bytes) = IF bytes = << >> THEN buffer ELSE bytes
<1> DEFINE S == 0 .. 255
<1>1. /\ buffer \in Bytes
      /\ \A k \in DOMAIN datagrams : datagrams[k] \in Seq(S)
  BY DEF DatagramsInv, DatagramsTypeOK, RoundTrip
<1> HIDE DEF S
<1>2. ASSUME NEW b \in Bytes PROVE b \in Seq(S)
  <2>1. << >> \in Seq(S)
    OBVIOUS
  <2>2. b = << >> \/ \E k \in DOMAIN datagrams : b = datagrams[k]
    BY DEF Bytes
  <2> QED
    BY <1>1, <2>1, <2>2
<1>3. bytes \in Seq(S) /\ buffer \in Seq(S)
  BY <1>1, <1>2
<1>4. CASE bytes = << >>
  <2>1. Len(bytes) + 1 = 1
    BY <1>4
  <2>2. SubSeq(buffer, 1, Len(buffer)) = buffer /\ << >> \o buffer = buffer
    BY <1>3, SubSeqFull, ConcatEmptySeq
  <2> QED
    BY <1>4, <2>1, <2>2 DEF Overwritten
<1>5. CASE bytes # << >>
  <2>1. Len(buffer) = 0 \/ Len(buffer) = Len(bytes)
    BY <1>1, <1>5 DEF Bytes, RoundTrip
  <2>2. Len(buffer) \in Nat /\ Len(bytes) \in Nat
    BY <1>3
  <2>3. Len(bytes) + 1 \in Int /\ Len(buffer) \in Int /\ Len(buffer) < Len(bytes) + 1
    BY <2>1, <2>2
  <2>4. SubSeq(buffer, Len(bytes) + 1, Len(buffer)) = << >>
    BY <2>3, SubSeqEmpty
  <2>5. bytes \o << >> = bytes
    BY <1>3, ConcatEmptySeq
  <2> QED
    BY <1>5, <2>4, <2>5 DEF Overwritten
<1> QED
  BY <1>4, <1>5

\* What an on-board step has to keep.
LEMMA OnBoardKeepsInv ==
  ASSUME DatagramsInv, UNCHANGED roadsideVars, alive' \in BOOLEAN,
         socket' \in Seq(Bytes), buffer' \in Bytes, screen' \in Screens'
  PROVE  DatagramsInv'
<1>1. UNCHANGED <<signalGroup, revision, messages, datagrams, sent>>
  BY DEF roadsideVars
<1>2. MessageSet' = MessageSet /\ Bytes' = Bytes
  BY <1>1, NoneEncoded DEF MessageSet, Message, genIntersection
<1>3. DatagramsTypeOK'
  BY <1>1, <1>2 DEF DatagramsInv, DatagramsTypeOK
<1>4. Counted'
  BY <1>1 DEF DatagramsInv, Counted, Revision
<1> QED
  BY <1>3, <1>4 DEF DatagramsInv

\* A reception shows the message of the first number, or ends the process.
LEMMA ReceiveStep ==
  ASSUME DatagramsInv, RoundTrip, NumbersKept, receiveMessage
  PROVE  DatagramsInv' /\ Numbered!OnBoard
<1> DEFINE h == Head(socket)
<1>1. /\ alive /\ socket # << >> /\ socket' = Tail(socket)
      /\ buffer' = Overwritten(h) /\ Show(Overwritten(h), Len(h))
      /\ UNCHANGED <<messages, datagrams, sent>> /\ UNCHANGED roadsideVars
  BY DEF receiveMessage, roadsideVars
<1>2. socket \in Seq(Bytes) /\ buffer \in Bytes
  BY DEF DatagramsInv, DatagramsTypeOK
<1>3. /\ SocketNumbers # << >> /\ SocketNumbers' = Tail(SocketNumbers)
      /\ Head(SocketNumbers) = ByteNumber(h) /\ h \in Bytes /\ socket' \in Seq(Bytes)
  BY <1>1, <1>2, SocketShrinks
<1> HIDE DEF h
<1>4. Overwritten(h) = IF h = << >> THEN buffer ELSE h
  BY <1>3, BufferOverwritten
<1>5. buffer' \in Bytes
  BY <1>1, <1>2, <1>3, <1>4
<1>6. \A b : ByteNumber(b)' = ByteNumber(b)
  BY <1>1, NoneEncoded
<1>7. ByteNumber(buffer)' = ByteNumber(buffer')
  BY <1>1 DEF ByteNumber
<1>8. CASE h = << >>
  <2>1. buffer' = buffer /\ Show(buffer, 0) /\ ByteNumber(h) = 0
    BY <1>1, <1>4, <1>8 DEF ByteNumber
  <2>2. /\ alive' = FALSE /\ allocated' = allocated
        /\ screen' \in Screens' /\ ScreenNumber' = ScreenNumber
    BY <1>1, <1>2, <2>1, NothingShown
  <2>3. DatagramsInv'
    BY <1>1, <1>3, <1>5, <2>2, OnBoardKeepsInv
  <2>4. Numbered!Show(0) /\ Numbered!Written(0) = ByteNumber(buffer)
    BY <2>2 DEF Numbered!Show, Numbered!Written
  <2>5. ByteNumber(buffer)' = ByteNumber(buffer)
    BY <1>7, <2>1
  <2> QED
    BY <1>1, <1>3, <2>1, <2>3, <2>4, <2>5
    DEF Numbered!OnBoard, Numbered!Next, Numbered!Receive, SocketNumbers
<1>9. CASE h # << >>
  <2>1. buffer' = h /\ Show(h, Len(h))
    BY <1>1, <1>4, <1>9
  <2>2. /\ alive' = TRUE /\ screen' \in Screens'
        /\ ScreenNumber' = ByteNumber(h) /\ ByteNumber(h) # 0
        /\ allocated' = IF allocated < CountCap THEN allocated + 1 ELSE allocated
    BY <1>1, <1>3, <1>9, <2>1, MessageShown
  <2>3. DatagramsInv'
    BY <1>1, <1>3, <1>5, <2>2, OnBoardKeepsInv
  <2>4. alive' = alive
    BY <1>1, <2>2 DEF DatagramsInv, DatagramsTypeOK
  <2>5. Numbered!Show(ByteNumber(h)) /\ Numbered!Written(ByteNumber(h)) = ByteNumber(h)
    BY <2>2, <2>4 DEF Numbered!Show, Numbered!Written
  <2>6. ByteNumber(buffer)' = ByteNumber(h)
    BY <1>7, <2>1
  <2> QED
    BY <1>1, <1>3, <2>3, <2>5, <2>6
    DEF Numbered!OnBoard, Numbered!Next, Numbered!Receive, SocketNumbers
<1> QED
  BY <1>8, <1>9

\* A failed reception shows what the buffer holds.
LEMMA FailStep ==
  ASSUME DatagramsInv, RoundTrip, NumbersKept, receiveFails
  PROVE  DatagramsInv' /\ Numbered!OnBoard
<1>1. /\ alive /\ Show(buffer, AnySize) /\ socket' = socket /\ buffer' = buffer
      /\ UNCHANGED <<messages, datagrams, sent>> /\ UNCHANGED roadsideVars
  BY DEF receiveFails, roadsideVars
<1>2. socket \in Seq(Bytes) /\ buffer \in Bytes
  BY DEF DatagramsInv, DatagramsTypeOK
<1>3. ByteNumber(buffer)' = ByteNumber(buffer) /\ SocketNumbers' = SocketNumbers
  BY <1>1, NoneEncoded DEF ByteNumber, SocketNumbers
<1>4. CASE buffer = << >>
  <2>1. /\ alive' = FALSE /\ allocated' = allocated
        /\ screen' \in Screens' /\ ScreenNumber' = ScreenNumber
    BY <1>1, <1>2, <1>4, NothingShown
  <2>2. DatagramsInv'
    BY <1>1, <1>2, <2>1, OnBoardKeepsInv
  <2>3. Numbered!Show(ByteNumber(buffer))
    BY <1>4, <2>1 DEF Numbered!Show, ByteNumber
  <2> QED
    BY <1>1, <1>3, <2>2, <2>3
    DEF Numbered!OnBoard, Numbered!Next, Numbered!ReceiveFails, SocketNumbers
<1>5. CASE buffer # << >>
  <2>1. /\ alive' = TRUE /\ screen' \in Screens'
        /\ ScreenNumber' = ByteNumber(buffer) /\ ByteNumber(buffer) # 0
        /\ allocated' = IF allocated < CountCap THEN allocated + 1 ELSE allocated
    BY <1>1, <1>2, <1>5, MessageShown
  <2>2. DatagramsInv'
    BY <1>1, <1>2, <2>1, OnBoardKeepsInv
  <2>3. alive' = alive
    BY <1>1, <2>1 DEF DatagramsInv, DatagramsTypeOK
  <2>4. Numbered!Show(ByteNumber(buffer))
    BY <2>1, <2>3 DEF Numbered!Show
  <2> QED
    BY <1>1, <1>3, <2>2, <2>4
    DEF Numbered!OnBoard, Numbered!Next, Numbered!ReceiveFails, SocketNumbers
<1> QED
  BY <1>4, <1>5

-----------------------------------------------------------------------------
\* Nothing was encoded and nothing is shown.
LEMMA DatagramsStart ==
  ASSUME DatagramsInit
  PROVE  DatagramsInv /\ Numbered!ReceptionInit
<1>1. /\ messages = << >> /\ datagrams = << >> /\ sent = 0
      /\ alive = TRUE /\ socket = << >> /\ buffer = << >>
      /\ screen = NoMessage /\ allocated = 0
  BY DEF DatagramsInit
<1>2. revision \in [1 .. NumOfIntersections -> Int]
  BY ContentsAssumption DEF DatagramsInit
<1>3. 0 <= MaxFrames
  BY ContentsAssumption
<1>4. DatagramsTypeOK
  BY <1>1, <1>2, <1>3 DEF DatagramsTypeOK, Bytes, Screens
<1>5. Counted
  BY <1>1 DEF Counted
<1>6. ByteNumber(buffer) = 0 /\ ScreenNumber = 0 /\ SocketNumbers = << >>
  BY <1>1 DEF ByteNumber, ScreenNumber, SocketNumbers
<1> QED
  BY <1>1, <1>4, <1>5, <1>6
  DEF DatagramsInv, Numbered!ReceptionInit, Numbered!Init, SocketNumbers

\* Each step is one of Reception or none.
LEMMA DatagramsStep ==
  ASSUME DatagramsInv, RoundTrip, RoundTrip', [DatagramsNext]_datagramsVars
  PROVE  DatagramsInv' /\ [Numbered!ReceptionNext]_Numbered!receptionVars
<1>1. NumbersKept
  BY NumberingHolds
<1>2. CASE encodeBuffer
  <2>1. DatagramsInv'
    BY <1>2, EncodeKeepsInv
  <2>2. NumbersKept'
    BY <2>1, NumberingHoldsNext
  <2> QED
    BY <1>1, <1>2, <2>1, <2>2, EncodeStutters
<1>3. CASE sendMessage
  BY <1>1, <1>3, SendStep DEF Numbered!ReceptionNext
<1>4. CASE receiveMessage
  BY <1>1, <1>4, ReceiveStep DEF Numbered!ReceptionNext
<1>5. CASE receiveFails
  BY <1>1, <1>5, FailStep DEF Numbered!ReceptionNext
<1>6. CASE UNCHANGED datagramsVars
  <2>1. /\ UNCHANGED <<messages, datagrams, sent, alive, socket, buffer, screen, allocated>>
        /\ UNCHANGED roadsideVars
    BY <1>6 DEF datagramsVars, roadsideVars, onBoardVars
  <2>2. Bytes' = Bytes /\ Screens' = Screens /\ ScreenNumber' = ScreenNumber
    BY <2>1, NoneEncoded
  <2>3. ByteNumber(buffer)' = ByteNumber(buffer) /\ SocketNumbers' = SocketNumbers
    BY <2>1, NoneEncoded DEF ByteNumber, SocketNumbers
  <2>4. DatagramsInv'
    BY <2>1, <2>2, OnBoardKeepsInv DEF DatagramsInv, DatagramsTypeOK
  <2> QED
    BY <2>1, <2>2, <2>3, <2>4 DEF Numbered!receptionVars, Numbered!receiverVars, SocketNumbers
<1> QED
  BY <1>2, <1>3, <1>4, <1>5, <1>6 DEF DatagramsNext

\* As long as the decoder gives back what was encoded, what is shown is a
\* message that was encoded, whole and the one whose bytes came, although the
\* buffer is never cleared and a failed reception decodes it again
\* (etsi-car main.c:35-46, udp.c:45-52).
THEOREM DatagramsImplementReception ==
  DatagramsSpec /\ []RoundTrip => ImplementsReception
<1>1. DatagramsInit => DatagramsInv /\ Numbered!ReceptionInit
  BY DatagramsStart
<1>2. DatagramsInv /\ RoundTrip /\ RoundTrip' /\ [DatagramsNext]_datagramsVars
        => DatagramsInv' /\ [Numbered!ReceptionNext]_Numbered!receptionVars
  BY DatagramsStep
<1> QED
  BY <1>1, <1>2, PTL DEF DatagramsSpec, ImplementsReception, Numbered!ReceptionSpec

Order == INSTANCE ReceptionProofs
  WITH NoFrame <- 0,
       socket <- [i \in DOMAIN socket |-> ByteNumber(socket[i])],
       buffer <- ByteNumber(buffer),
       screen <- ScreenNumber

\* As long as the decoder gives back what was encoded, the picture never goes
\* back to an older message (etsi-car main.c:35-46).
THEOREM ScreenNeverGoesBack ==
  DatagramsSpec /\ []RoundTrip => NeverBack
<1>1. Order!ReceptionSpec => Order!NeverBack
  <2>1. Order!Numbering
    BY NumberingAssumption DEF Numbered!Numbering, Order!Numbering
  <2> QED
    BY <2>1, Order!PictureNeverGoesBack
<1>2. Numbered!ReceptionInit => Order!ReceptionInit
  BY DEF Numbered!ReceptionInit, Order!ReceptionInit, Numbered!Init, Order!Init
<1>3. [Numbered!ReceptionNext]_Numbered!receptionVars
        => [Order!ReceptionNext]_Order!receptionVars
  BY DEF Numbered!ReceptionNext, Order!ReceptionNext, Numbered!receptionVars,
         Order!receptionVars, Numbered!receiverVars, Order!receiverVars,
         Numbered!Frame, Order!Frame, Numbered!NoBytes, Order!NoBytes,
         Numbered!OnBoard, Order!OnBoard, Numbered!Next, Order!Next,
         Numbered!Receive, Order!Receive, Numbered!ReceiveFails, Order!ReceiveFails,
         Numbered!Show, Order!Show, Numbered!Written, Order!Written,
         Numbered!Arrive, Order!Arrive
<1>4. [ScreenNumber' >= ScreenNumber]_Order!receptionVars
        => [ScreenNumber' >= ScreenNumber]_Numbered!receptionVars
  BY DEF Numbered!receptionVars, Order!receptionVars, Numbered!receiverVars,
         Order!receiverVars
<1> QED
  BY <1>1, <1>2, <1>3, <1>4, DatagramsImplementReception, PTL
  DEF ImplementsReception, Numbered!ReceptionSpec, Order!ReceptionSpec,
      NeverBack, Numbered!NeverBack, Order!NeverBack
=============================================================================
