-------------------------- MODULE ConnectionIOProofs --------------------------
(***************************************************************************)
(* No edge is lost for good and send() never meets a full buffer, for any  *)
(* message size, send buffer and number of requests.                       *)
(***************************************************************************)
EXTENDS ConnectionIO, TLAPS

(* Counters are naturals; TypeOK's bounds follow with PiecesConserved.     *)
CountsInv ==
  /\ rst \in {"no", "err", "seen"} /\ handled \in Nat
  /\ put \in Nat /\ got \in Nat /\ rcv \in Nat
  /\ snd \in 0 .. SendBuf
  /\ m_inputBuffer \in Nat /\ m_outputBuffer \in Nat

(* The read event is registered as long as the connection is open; what    *)
(* epoll_wait reported is of interest, and never the empty set.            *)
EventsInv ==
  /\ fault \in {"none", "send_failed", "peer_reset"}
  /\ pc \in {"wait", "event", "read", "pick", "closed"}
  /\ m_events \subseteq {"IN", "OUT"} /\ m_revents \subseteq {"IN", "OUT"}
  /\ Open => "IN" \in m_events
  /\ pc = "event" => m_revents # {}

(* Unread input is on the ready list, unless the loop is about to read. *)
ReadInv ==
  (rcv > 0 \/ Ended) =>
    \/ onList
    \/ pc \in {"read", "closed"}
    \/ pc = "event" /\ "IN" \in m_revents

(* Only the loop fills the send buffer, so room reported is room still. *)
RoomInv == pc = "event" /\ "OUT" \in m_revents => snd < SendBuf

(* A full send buffer with more to come was noticed by the kernel. *)
NospaceInv == Open /\ m_outputBuffer > 0 /\ snd = SendBuf => nospace

(* What the loop goes to read is there, and what it has read makes up for  *)
(* the write event it dropped.                                             *)
Unfinished == m_outputBuffer > 0 /\ snd < SendBuf

ReplyInv ==
  /\ pc = "event" /\ "IN" \in m_revents => rcv > 0 \/ Ended
  /\ pc = "read" => rcv > 0 \/ Ended \/ m_inputBuffer > 0
  /\ pc = "pick" /\ Unfinished => onList \/ m_inputBuffer > 0
  /\ pc = "wait" /\ Unfinished => onList \/ m_inputBuffer \in 1 .. Pieces - 1

IInv ==
  /\ CountsInv
  /\ EventsInv
  /\ InterestMatchesOutput
  /\ ReadInv
  /\ RoomInv
  /\ NospaceInv
  /\ ReplyInv
  /\ NeverSendsWhenFull

-----------------------------------------------------------------------------
(* A new connection is idle, registered for reading, with empty buffers. *)
LEMMA InitIInv == Init => IInv
BY IOAssumption
   DEF Init, IInv, CountsInv, EventsInv, InterestMatchesOutput, ReadInv, RoomInv,
       NospaceInv, ReplyInv, Unfinished, NeverSendsWhenFull, Open, Ended

(* What fits in the send buffer is some of what there is to send. *)
LEMMA FitsIsRoom ==
  ASSUME CountsInv
  PROVE  /\ Fits \in 0 .. m_outputBuffer
         /\ snd + Fits \in 0 .. SendBuf
         /\ Fits < m_outputBuffer => snd + Fits = SendBuf
         /\ m_outputBuffer > 0 /\ snd < SendBuf => Fits > 0
BY IOAssumption DEF CountsInv, Fits

(* The client's steps: input or an end of stream wakes epoll. *)
LEMMA ClientKeepsIInv ==
  ASSUME IInv, ClientSend \/ ClientShutdown \/ ClientReset \/ ClientRead
  PROVE  IInv'
<1> USE DEF IInv, EventsInv, InterestMatchesOutput, ReadInv, NeverSendsWhenFull, Open, Ended,
            conn
<1>1. CASE ClientSend
  BY <1>1 DEF ClientSend, CountsInv, RoomInv, NospaceInv, ReplyInv, Unfinished
<1>2. CASE ClientShutdown
  BY <1>2 DEF ClientShutdown, CountsInv, RoomInv, NospaceInv, ReplyInv, Unfinished
<1>3. CASE ClientRead
  <2>1. /\ snd \in 0 .. SendBuf /\ snd > 0 /\ snd' = snd - 1 /\ got' = got + 1
        /\ onList => onList'
        /\ UNCHANGED <<put, fin, rst, rcv, conn, pc, fault>>
    BY <1>3 DEF ClientRead, CountsInv
  <2>2. snd' \in 0 .. SendBuf /\ snd' < SendBuf
    BY <2>1, IOAssumption
  <2>3. CountsInv'
    BY <2>1, <2>2 DEF CountsInv
  <2>4. RoomInv' /\ NospaceInv'
    BY <2>2, IOAssumption DEF RoomInv, NospaceInv
  <2>5. EventsInv' /\ InterestMatchesOutput' /\ ReadInv' /\ NeverSendsWhenFull'
    BY <2>1
  <2>6. CASE Open /\ m_outputBuffer > 0 /\ snd = SendBuf
    <3>1. onList'
      BY <1>3, <2>6 DEF ClientRead, NospaceInv
    <3>2. QED BY <2>1, <2>3, <2>4, <2>5, <3>1 DEF ReplyInv, Unfinished
  <2>7. CASE ~(Open /\ m_outputBuffer > 0 /\ snd = SendBuf)
    <3>1. Open /\ Unfinished' => Unfinished
      BY <2>1, <2>7, IOAssumption DEF Unfinished
    <3>2. ReplyInv'
      BY <2>1, <3>1 DEF ReplyInv
    <3>3. QED BY <2>3, <2>4, <2>5, <3>2
  <2>8. QED BY <2>6, <2>7
<1>4. CASE ClientReset
  BY <1>4, IOAssumption DEF ClientReset, CountsInv, RoomInv, NospaceInv, ReplyInv, Unfinished
<1>5. QED BY <1>1, <1>2, <1>3, <1>4

(* epoll_wait takes the descriptor off the list with what is ready. *)
LEMMA WaitKeepsIInv ==
  ASSUME IInv, EpollWait
  PROVE  IInv'
<1>1. CountsInv' /\ NeverSendsWhenFull' /\ InterestMatchesOutput' /\ NospaceInv'
  BY DEF IInv, EpollWait, Goto, client, CountsInv, EventsInv, NeverSendsWhenFull,
         InterestMatchesOutput, NospaceInv, Open
<1>2. EventsInv'
  BY DEF IInv, EpollWait, Goto, EventsInv, Open
<1>3. "IN" \in m_events
  BY DEF IInv, EpollWait, Goto, EventsInv, Open
<1>4. (rcv > 0 \/ Ended) => "IN" \in m_revents'
  BY <1>3 DEF EpollWait, PollMask
<1>5. ReadInv'
  BY <1>4 DEF ReadInv, EpollWait, Goto, client, Ended
<1>6. "OUT" \in m_revents' => snd < SendBuf
  BY DEF EpollWait, PollMask
<1>7. RoomInv'
  BY <1>6 DEF RoomInv, EpollWait
<1>8. ReplyInv'
  <2>1. CASE m_revents' = {}
    <3>1. "OUT" \notin m_events \/ ~(snd < SendBuf)
      BY <2>1 DEF EpollWait, PollMask
    <3>2. ~Unfinished
      BY <3>1 DEF IInv, InterestMatchesOutput, EpollWait, Goto, Open, Unfinished
    <3>3. pc' = "wait" /\ ~Unfinished'
      BY <2>1, <3>2 DEF EpollWait, Goto, Unfinished
    <3>4. QED BY <3>3 DEF ReplyInv
  <2>2. CASE m_revents' # {}
    <3>1. pc' = "event"
      BY <2>2 DEF EpollWait, Goto
    <3>2. "IN" \in m_revents' => rcv' > 0 \/ Ended'
      BY DEF EpollWait, PollMask, Ended, client
    <3>3. QED BY <3>1, <3>2 DEF ReplyInv
  <2>3. QED BY <2>1, <2>2
<1>9. QED BY <1>1, <1>2, <1>5, <1>7, <1>8 DEF IInv

(* Reading, to EAGAIN or to the end of the stream, and dispatching. *)
LEMMA ReadKeepsIInv ==
  ASSUME IInv, HandleIn \/ ReadSome \/ ReadAgain \/ ReadError \/ ReadEof \/ NoMessage
  PROVE  IInv'
<1> USE IOAssumption
        DEF IInv, CountsInv, EventsInv, InterestMatchesOutput, ReadInv, RoomInv,
            NospaceInv, ReplyInv, Unfinished, NeverSendsWhenFull, Open, Ended,
            Goto, client, kernel, conn
<1>1. CASE HandleIn
  BY <1>1 DEF HandleIn
<1>2. CASE ReadSome
  BY <1>2 DEF ReadSome
<1>3. CASE ReadAgain
  BY <1>3 DEF ReadAgain
<1>4. CASE ReadEof
  BY <1>4 DEF ReadEof
<1>5. CASE NoMessage
  BY <1>5 DEF NoMessage
<1>6. CASE ReadError
  BY <1>6 DEF ReadError
<1>7. QED BY <1>1, <1>2, <1>3, <1>4, <1>5, <1>6

(* A handled message leaves a reply to write and the write event with it. *)
LEMMA PickKeepsIInv ==
  ASSUME IInv, PickMessage
  PROVE  IInv'
<1> USE DEF IInv
<1>1. /\ pc = "pick" /\ pc' = "pick"
      /\ m_events' = m_events \union {"OUT"} /\ (onList => onList')
      /\ nospace' = (nospace \/ snd = SendBuf)
      /\ snd < SendBuf => onList'
      /\ UNCHANGED <<client, rcv, snd, m_revents, fault>>
  BY DEF PickMessage, UpdateChannel, PollMask, Goto
<1>2. /\ m_inputBuffer' \in Nat /\ handled' \in Nat
      /\ m_outputBuffer' \in Nat /\ m_outputBuffer' > 0
  BY IOAssumption DEF PickMessage, CountsInv
<1>3. CountsInv'
  BY <1>1, <1>2 DEF CountsInv, client
<1>4. EventsInv' /\ RoomInv' /\ NeverSendsWhenFull'
  BY <1>1 DEF EventsInv, RoomInv, NeverSendsWhenFull, Open
<1>5. InterestMatchesOutput' /\ NospaceInv'
  BY <1>1, <1>2 DEF InterestMatchesOutput, NospaceInv, Open
<1>6. ReadInv'
  BY <1>1 DEF ReadInv, client, Ended
<1>7. ReplyInv'
  BY <1>1 DEF ReplyInv, Unfinished
<1>8. QED BY <1>3, <1>4, <1>5, <1>6, <1>7

(* Writing: an event other than IN is OUT, and OUT means there is room. *)
LEMMA WriteKeepsIInv ==
  ASSUME IInv, HandleOut
  PROVE  IInv'
<1> USE DEF IInv
<1>1. pc = "event" /\ pc' = "wait" /\ "IN" \notin m_revents
  BY DEF HandleOut, Goto
<1>2. snd < SendBuf
  BY <1>1 DEF EventsInv, RoomInv
<1>3. fault' = fault
  <2>1. ~(m_outputBuffer > 0 /\ snd = SendBuf)
    BY <1>2, IOAssumption DEF CountsInv
  <2>2. QED BY <2>1, ZenonT(30) DEF HandleOut
<1>4. /\ Fits \in 0 .. m_outputBuffer /\ snd + Fits \in 0 .. SendBuf
      /\ Fits < m_outputBuffer => snd + Fits = SendBuf
  BY FitsIsRoom
<1>5. CountsInv'
  BY <1>4 DEF HandleOut, CountsInv, client
<1>6. CASE Fits = m_outputBuffer
  <2>1. m_outputBuffer' = m_outputBuffer - Fits
    BY DEF HandleOut
  <2>2. UpdateChannel(m_events \ {"OUT"}, snd + Fits)
    BY <1>6, Zenon DEF HandleOut
  <2>3. m_outputBuffer' = 0
    BY <1>6, <2>1 DEF CountsInv
  <2>4. m_events' = m_events \ {"OUT"} /\ (onList => onList')
    BY <2>2, Zenon DEF UpdateChannel
  <2>5. QED
    BY <1>1, <1>3, <1>5, <2>2, <2>3, <2>4
       DEF HandleOut, client, EventsInv, InterestMatchesOutput, ReadInv, RoomInv,
           NospaceInv, ReplyInv, Unfinished, NeverSendsWhenFull, Open, Ended
<1>7. CASE Fits # m_outputBuffer
  <2>1. /\ m_outputBuffer' > 0 /\ m_outputBuffer > 0
        /\ nospace' /\ m_events' = m_events /\ onList' = onList
    BY <1>7, <1>4 DEF HandleOut, CountsInv
  <2>2. snd + Fits = SendBuf
    BY <1>4, <1>7 DEF CountsInv
  <2>3. ~(snd' < SendBuf)
    BY <2>2, IOAssumption DEF HandleOut
  <2>4. ReplyInv'
    BY <1>1, <2>3 DEF ReplyInv, Unfinished
  <2>5. QED
    BY <1>1, <1>3, <1>5, <2>1, <2>4
       DEF HandleOut, client, EventsInv, InterestMatchesOutput, ReadInv, RoomInv,
           NospaceInv, NeverSendsWhenFull, Open, Ended
<1>8. QED BY <1>6, <1>7

(* A send that a reset has overtaken ends the process, and changes nothing *)
(* else.                                                                   *)
LEMMA ResetKeepsIInv ==
  ASSUME IInv, HandleOutReset
  PROVE  IInv'
<1>1. /\ pc = "event" /\ pc' = "wait" /\ "IN" \notin m_revents
      /\ rst # "no" /\ fault' = "peer_reset"
      /\ UNCHANGED <<client, kernel, conn>>
  BY DEF HandleOutReset, Goto
<1>2. onList'
  BY <1>1 DEF IInv, ReadInv, Ended, kernel
<1>3. ReplyInv' /\ RoomInv' /\ ReadInv'
  BY <1>1, <1>2 DEF ReplyInv, RoomInv, ReadInv
<1>4. CountsInv' /\ NospaceInv' /\ InterestMatchesOutput'
  BY <1>1 DEF IInv, CountsInv, NospaceInv, InterestMatchesOutput, Open, client, kernel, conn
<1>5. EventsInv' /\ NeverSendsWhenFull'
  BY <1>1 DEF IInv, EventsInv, NeverSendsWhenFull, Open, conn
<1>6. QED BY <1>3, <1>4, <1>5 DEF IInv

LEMMA NextIInv == IInv /\ [Next]_vars => IInv'
<1> SUFFICES ASSUME IInv, [Next]_vars PROVE IInv'
  OBVIOUS
<1>1. CASE Next
  BY <1>1, ClientKeepsIInv, WaitKeepsIInv, ReadKeepsIInv, PickKeepsIInv, WriteKeepsIInv,
     ResetKeepsIInv
     DEF Next, Loop
<1>2. CASE UNCHANGED vars
  BY <1>2 DEF vars, client, kernel, conn, IInv, CountsInv, EventsInv,
     InterestMatchesOutput, ReadInv, RoomInv, NospaceInv, ReplyInv, Unfinished,
     NeverSendsWhenFull, Open, Ended
<1>3. QED BY <1>1, <1>2

-----------------------------------------------------------------------------
(***************************************************************************)
(* Conservation, and the bounds that follow from it.                       *)
(***************************************************************************)

(* The two facts of multiplication that are needed. *)
LEMMA OneMore ==
  ASSUME NEW p \in Nat, NEW h \in Nat
  PROVE  p * (h + 1) = p * h + p /\ p * h \in Nat
OBVIOUS

LEMMA Cancel ==
  ASSUME NEW p \in Nat \ {0}, NEW h \in Nat, NEW m \in Nat, p * h <= p * m
  PROVE  h <= m
<1> SUFFICES ASSUME h >= m + 1 PROVE FALSE
  OBVIOUS
<1>1. PICK d \in Nat : h = (m + 1) + d
  <2>1. h - (m + 1) \in Nat /\ h = (m + 1) + (h - (m + 1))
    OBVIOUS
  <2>2. QED BY <2>1
<1>2. p * h = p * m + p + p * d /\ p * d \in Nat /\ p * m \in Nat
  BY <1>1
<1>3. QED BY <1>2

FlagsInv == fin \in BOOLEAN /\ nospace \in BOOLEAN /\ onList \in BOOLEAN

ConservedInv ==
  /\ IInv
  /\ PiecesConserved
  /\ put <= Pieces * MaxMsgs

LEMMA InitConserved == Init => ConservedInv /\ FlagsInv
<1>1. ASSUME Init PROVE PiecesConserved /\ put <= Pieces * MaxMsgs /\ FlagsInv
  <2>1. Pieces * 0 = 0 /\ Pieces * MaxMsgs \in Nat
    BY IOAssumption
  <2>2. /\ put = 0 /\ got = 0 /\ rcv = 0 /\ snd = 0 /\ handled = 0
        /\ m_inputBuffer = 0 /\ m_outputBuffer = 0
    BY <1>1 DEF Init
  <2>3. PiecesConserved /\ put <= Pieces * MaxMsgs
    BY <2>1, <2>2 DEF PiecesConserved
  <2>4. FlagsInv
    BY <1>1, Zenon DEF Init, FlagsInv
  <2>5. QED BY <2>3, <2>4
<1>2. QED BY <1>1, InitIInv DEF ConservedInv

LEMMA FlagsKept == FlagsInv /\ [Next]_vars => FlagsInv'
BY Zenon
   DEF FlagsInv, Next, vars, client, kernel, conn, Loop, ClientSend, ClientShutdown,
       ClientReset, ClientRead, EpollWait, HandleIn, ReadSome, ReadAgain, ReadError, ReadEof,
       PickMessage, NoMessage, HandleOut, HandleOutReset, UpdateChannel

(* Every step but the ones named moves pieces about, or moves none. *)
LEMMA NextConserved == ConservedInv /\ [Next]_vars => ConservedInv'
<1> SUFFICES ASSUME ConservedInv, [Next]_vars
             PROVE  PiecesConserved' /\ (put <= Pieces * MaxMsgs)'
  BY NextIInv DEF ConservedInv
<1> USE DEF ConservedInv, IInv, CountsInv
<1>0. Pieces \in Nat /\ MaxMsgs \in Nat /\ Pieces * handled \in Nat
  BY IOAssumption, OneMore
<1>1. CASE ClientSend
  <2>1. put' = put + 1 /\ rcv' = rcv + 1 /\ put < Pieces * MaxMsgs
        /\ UNCHANGED <<got, rst, snd, m_inputBuffer, m_outputBuffer, handled>>
    BY <1>1 DEF ClientSend, conn
  <2>2. QED BY <2>1, <1>0 DEF PiecesConserved
<1>2. CASE ClientRead
  <2>1. snd' = snd - 1 /\ got' = got + 1
        /\ UNCHANGED <<put, rst, rcv, m_inputBuffer, m_outputBuffer, handled>>
    BY <1>2 DEF ClientRead, conn
  <2>2. QED BY <2>1, <1>0, IOAssumption DEF PiecesConserved
<1>3. CASE ClientReset
  <2>1. snd' = 0 /\ rst' = "err"
        /\ UNCHANGED <<put, got, rcv, m_inputBuffer, m_outputBuffer, handled>>
    BY <1>3 DEF ClientReset, conn
  <2>2. QED BY <2>1, <1>0, IOAssumption DEF PiecesConserved
<1>4. CASE ReadSome
  <2>1. PICK n \in 1 .. rcv : rcv' = rcv - n /\ m_inputBuffer' = m_inputBuffer + n
    BY <1>4 DEF ReadSome
  <2>2. UNCHANGED <<put, got, rst, snd, m_outputBuffer, handled>>
    BY <1>4 DEF ReadSome, client
  <2>3. QED BY <2>1, <2>2, <1>0 DEF PiecesConserved
<1>5. CASE ReadError
  <2>1. rst' = "seen" /\ rst = "err"
        /\ UNCHANGED <<put, got, rcv, snd, m_inputBuffer, m_outputBuffer, handled>>
    BY <1>5 DEF ReadError, kernel, conn
  <2>2. QED BY <2>1, <1>0 DEF PiecesConserved
<1>6. CASE PickMessage
  <2>1. /\ m_inputBuffer' = m_inputBuffer - Pieces /\ handled' = handled + 1
        /\ m_outputBuffer' = m_outputBuffer + Pieces
        /\ UNCHANGED <<put, got, rst, rcv, snd>>
    BY <1>6 DEF PickMessage, client
  <2>2. Pieces * handled' = Pieces * handled + Pieces
    BY <2>1, <1>0, OneMore
  <2>3. QED BY <2>1, <2>2, <1>0, IOAssumption DEF PiecesConserved
<1>7. CASE HandleOut
  <2>1. /\ snd' = snd + Fits /\ m_outputBuffer' = m_outputBuffer - Fits
        /\ UNCHANGED <<put, got, rst, rcv, m_inputBuffer, handled>>
    BY <1>7 DEF HandleOut, client
  <2>2. Fits \in 0 .. m_outputBuffer
    BY FitsIsRoom
  <2>3. QED BY <2>1, <2>2, <1>0, IOAssumption DEF PiecesConserved
<1>8. CASE \/ ClientShutdown \/ EpollWait \/ HandleIn \/ ReadAgain \/ ReadEof
           \/ NoMessage \/ HandleOutReset \/ UNCHANGED vars
  <2>1. UNCHANGED <<put, got, rst, rcv, snd, m_inputBuffer, m_outputBuffer, handled>>
    BY <1>8
       DEF ClientShutdown, EpollWait, HandleIn, ReadAgain, ReadEof, NoMessage,
           HandleOutReset, vars, client, kernel, conn
  <2>2. QED BY <2>1 DEF PiecesConserved
<1>9. QED
  BY <1>1, <1>2, <1>3, <1>4, <1>5, <1>6, <1>7, <1>8 DEF Next, Loop

(* What is in the buffers is part of what was put, so TypeOK's bounds hold. *)
LEMMA ConservedBounds == ConservedInv /\ FlagsInv => TypeOK
<1> SUFFICES ASSUME ConservedInv, FlagsInv PROVE TypeOK
  OBVIOUS
<1> USE DEF ConservedInv, IInv, CountsInv, PiecesConserved
<1>1. Pieces \in Nat \ {0} /\ MaxMsgs \in Nat /\ Pieces * handled \in Nat
      /\ Pieces * MaxMsgs \in Nat
  BY IOAssumption, OneMore
<1>2. Pieces * handled <= Pieces * MaxMsgs
  BY <1>1
<1>3. handled \in 0 .. MaxMsgs
  BY <1>1, <1>2, Cancel
<1>4. /\ put \in 0 .. Pieces * MaxMsgs /\ got \in 0 .. Pieces * MaxMsgs
      /\ rcv \in 0 .. Pieces * MaxMsgs
      /\ m_inputBuffer \in 0 .. Pieces * MaxMsgs /\ m_outputBuffer \in 0 .. Pieces * MaxMsgs
  BY <1>1, <1>2, IOAssumption
<1>5. QED BY <1>3, <1>4 DEF TypeOK, FlagsInv, EventsInv

(* Types, and the bounds of every counter and buffer. *)
THEOREM TypeCorrect == Spec => []TypeOK
BY InitConserved, NextConserved, FlagsKept, ConservedBounds, PTL DEF Spec

(* Between the socket, the two buffers and the handler no piece of a       *)
(* request or of a reply is lost or used twice.                            *)
THEOREM PiecesAlwaysConserved == Spec => []PiecesConserved
<1>1. ConservedInv => PiecesConserved
  BY DEF ConservedInv
<1>2. QED BY InitConserved, NextConserved, <1>1, PTL DEF Spec

-----------------------------------------------------------------------------
(* Edge-triggered reading loses no input and no end of stream. *)
THEOREM NoReadEdgeIsLost == Spec => []NoLostReadEdge
<1>1. IInv => NoLostReadEdge
  BY DEF IInv, ReadInv, NoLostReadEdge
<1>2. QED BY InitIInv, NextIInv, <1>1, PTL DEF Spec

(* A reply that the loop has left waits for room that will be reported,    *)
(* for epoll_wait, or behind half a request (Channel.cpp:80).              *)
THEOREM RepliesAlwaysWaitForCause == Spec => []ReplyWaitsForCause
<1>1. ASSUME IInv PROVE ReplyWaitsForCause
  <2>1. snd # SendBuf => snd < SendBuf
    BY <1>1, IOAssumption DEF IInv, CountsInv
  <2>2. QED
    BY <1>1, <2>1
       DEF IInv, NospaceInv, ReplyInv, Unfinished, ReplyWaitsForCause, InterestMatchesOutput, Open
<1>2. QED BY InitIInv, NextIInv, <1>1, PTL DEF Spec

(* writeCallback's exit(-1) is never taken for a full send buffer. *)
THEOREM SendAlwaysHasRoom == Spec => []NeverSendsWhenFull
<1>1. IInv => NeverSendsWhenFull
  BY DEF IInv
<1>2. QED BY InitIInv, NextIInv, <1>1, PTL DEF Spec
=============================================================================
