----------------------------- MODULE ConnectionIO -----------------------------
(***************************************************************************)
(* The reading and writing of one Connection on its event loop, against    *)
(* the kernel's socket buffers and an edge-triggered epoll, for a client   *)
(* that sends requests, reads the replies at its own pace and may shut     *)
(* down its sending side, or reset the connection, at any point: navClient *)
(* exits with its replies unread, which makes the kernel send a reset.     *)
(*                                                                         *)
(* Streams are counted in pieces: a request is Pieces of them and so is a  *)
(* reply; module Buffer has the bytes.  Epoll is modelled as Linux has it: *)
(* an event of interest puts the descriptor on the ready list, epoll_wait  *)
(* takes it off and reports what is ready then; EPOLL_CTL_MOD puts it back *)
(* if anything of interest is ready.                                       *)
(***************************************************************************)
EXTENDS Naturals, FiniteSets

CONSTANTS
  Pieces,    (* pieces of a message: 2 or more, so that it can arrive in part *)
  MaxMsgs,   (* bound: requests the client sends                              *)
  SendBuf    (* pieces the kernel's send buffer holds                         *)

ASSUME IOAssumption ==
  Pieces \in Nat \ {0, 1} /\ MaxMsgs \in Nat /\ SendBuf \in Nat \ {0}

VARIABLES
  put, fin,         (* client: pieces sent, sending side shut down           *)
  rst,              (* a reset came: "no", "err" (error pending), "seen"     *)
  got,              (* client: pieces of replies read                        *)
  rcv, snd,         (* pieces in the socket's receive and send buffer        *)
  nospace,          (* SOCK_NOSPACE: the kernel is to report new space       *)
  onList,           (* the descriptor is on epoll's ready list               *)
  m_events,         (* what is registered                                    *)
  m_revents,        (* what epoll_wait reported                              *)
  m_inputBuffer, m_outputBuffer,  (* pieces in each                          *)
  handled,          (* history: requests handled, each with a reply          *)
  pc,               (* where the loop is with this connection                *)
  fault

client == <<put, fin, got, rst>>
kernel == <<rcv, snd, nospace, onList>>
conn == <<m_events, m_revents, m_inputBuffer, m_outputBuffer, handled>>
vars == <<client, kernel, conn, pc, fault>>

TypeOK ==
  /\ put \in 0 .. Pieces * MaxMsgs /\ fin \in BOOLEAN
  /\ rst \in {"no", "err", "seen"}
  /\ got \in 0 .. Pieces * MaxMsgs
  /\ rcv \in 0 .. Pieces * MaxMsgs /\ snd \in 0 .. SendBuf
  /\ nospace \in BOOLEAN /\ onList \in BOOLEAN
  /\ m_events \subseteq {"IN", "OUT"} /\ m_revents \subseteq {"IN", "OUT"}
  /\ m_inputBuffer \in 0 .. Pieces * MaxMsgs
  /\ m_outputBuffer \in 0 .. Pieces * MaxMsgs
  /\ handled \in 0 .. MaxMsgs
  /\ pc \in {"wait", "event", "read", "pick", "closed"}
  /\ fault \in {"none", "send_failed", "peer_reset"}

(* The constructor registers the read event. *)
Init ==
  /\ put = 0 /\ fin = FALSE /\ got = 0 /\ rst = "no"
  /\ rcv = 0 /\ snd = 0 /\ nospace = FALSE /\ onList = FALSE
  /\ m_events = {"IN"} /\ m_revents = {}
  /\ m_inputBuffer = 0 /\ m_outputBuffer = 0 /\ handled = 0
  /\ pc = "wait" /\ fault = "none"

-----------------------------------------------------------------------------
Ended == fin \/ rst # "no"

(* What poll reports of the socket, with s pieces in the send buffer. *)
PollMask(s) ==
  (IF rcv > 0 \/ Ended THEN {"IN"} ELSE {}) \union (IF s < SendBuf THEN {"OUT"} ELSE {})

(* EPOLL_CTL_MOD to the given interest, with s pieces in the send buffer. *)
UpdateChannel(events, s) ==
  /\ m_events' = events
  /\ onList' = (onList \/ events \intersect PollMask(s) # {})

(***************************************************************************)
(* The client.                                                             *)
(***************************************************************************)
Open == pc # "closed"

ClientSend ==
  /\ Open /\ ~Ended /\ put < Pieces * MaxMsgs
  /\ put' = put + 1
  /\ rcv' = rcv + 1
  /\ onList' = TRUE
  /\ UNCHANGED <<fin, got, rst, snd, nospace, conn, pc, fault>>

ClientShutdown ==
  /\ Open /\ ~Ended
  /\ fin' = TRUE
  /\ onList' = TRUE
  /\ UNCHANGED <<put, got, rst, rcv, snd, nospace, conn, pc, fault>>

(* What the server has sent and the client has not read is discarded.      *)
ClientReset ==
  /\ Open /\ rst = "no"
  /\ rst' = "err"
  /\ snd' = 0
  /\ onList' = TRUE
  /\ UNCHANGED <<put, fin, got, rcv, nospace, conn, pc, fault>>

(* Space in the send buffer is an event only if it had run out. *)
ClientRead ==
  /\ snd > 0
  /\ snd' = snd - 1
  /\ got' = got + 1
  /\ nospace' = FALSE
  /\ onList' = (onList \/ (nospace /\ "OUT" \in m_events))
  /\ UNCHANGED <<put, fin, rst, rcv, conn, pc, fault>>

(***************************************************************************)
(* The event loop.                                                         *)
(***************************************************************************)
Goto(from, to) == pc = from /\ pc' = to

EpollWait ==
  /\ onList
  /\ onList' = FALSE
  /\ nospace' = (nospace \/ snd = SendBuf)
  /\ m_revents' = m_events \intersect PollMask(snd)
  /\ Goto("wait", IF m_revents' = {} THEN "wait" ELSE "event")
  /\ UNCHANGED <<client, rcv, snd, m_events, m_inputBuffer, m_outputBuffer, handled, fault>>

(* handleEvent: with both events the read callback alone is called. *)
HandleIn ==
  /\ Goto("event", "read")
  /\ "IN" \in m_revents
  /\ UNCHANGED <<client, kernel, conn, fault>>

ReadSome ==
  /\ Goto("read", "read")
  /\ \E n \in 1 .. rcv :
       /\ rcv' = rcv - n
       /\ m_inputBuffer' = m_inputBuffer + n
  /\ UNCHANGED <<client, snd, nospace, onList, m_events, m_revents, m_outputBuffer, handled, fault>>

(* EAGAIN.  Variant: one read per event. *)
ReadOnce ==
  /\ Goto("read", "pick")
  /\ UNCHANGED <<client, kernel, conn, fault>>

ReadAgain ==
  /\ Goto("read", "pick")
  /\ rcv = 0 /\ ~Ended
  /\ UNCHANGED <<client, kernel, conn, fault>>

(* Variant: an error ends the reading as EAGAIN does. *)
ReadErrorAsAgain ==
  /\ Goto("read", "pick")
  /\ rcv = 0 /\ ~fin /\ rst = "err"
  /\ rst' = "seen"
  /\ UNCHANGED <<put, fin, got, kernel, conn, fault>>

(* read() = -1 with ECONNRESET, once: no branch is for it, so read again.  *)
ReadError ==
  /\ Goto("read", "read")
  /\ rcv = 0 /\ ~fin /\ rst = "err"
  /\ rst' = "seen"
  /\ UNCHANGED <<put, fin, got, kernel, conn, fault>>

(* read() = 0: closeCallback, whatever m_inputBuffer has. *)
ReadEof ==
  /\ Goto("read", "closed")
  /\ rcv = 0
  /\ fin \/ rst = "seen"
  /\ m_events' = {}
  /\ onList' = FALSE
  /\ UNCHANGED <<client, rcv, snd, nospace, m_revents, m_inputBuffer, m_outputBuffer, handled, fault>>

(* A whole message: handle it, which ends with sendInLoop of the reply.    *)
(* Variants: one message per event; a message left in the buffer; the write *)
(* event registered only if it was not yet.                                *)
PickOne ==
  /\ Goto("pick", "wait")
  /\ m_inputBuffer >= Pieces
  /\ m_inputBuffer' = m_inputBuffer - Pieces
  /\ handled' = handled + 1
  /\ m_outputBuffer' = m_outputBuffer + Pieces
  /\ UpdateChannel(m_events \union {"OUT"}, snd)
  /\ nospace' = (nospace \/ snd = SendBuf)
  /\ UNCHANGED <<client, rcv, snd, m_revents, fault>>

PickAndLeave ==
  /\ Goto("pick", "pick")
  /\ m_inputBuffer >= Pieces
  /\ handled' = handled + 1
  /\ m_outputBuffer' = m_outputBuffer + Pieces
  /\ UpdateChannel(m_events \union {"OUT"}, snd)
  /\ nospace' = (nospace \/ snd = SendBuf)
  /\ UNCHANGED <<client, rcv, snd, m_revents, m_inputBuffer, fault>>

PickWithoutRearm ==
  /\ Goto("pick", "pick")
  /\ m_inputBuffer >= Pieces
  /\ m_inputBuffer' = m_inputBuffer - Pieces
  /\ handled' = handled + 1
  /\ m_outputBuffer' = m_outputBuffer + Pieces
  /\ \/ "OUT" \in m_events /\ UNCHANGED <<m_events, onList>>
     \/ "OUT" \notin m_events /\ UpdateChannel(m_events \union {"OUT"}, snd)
  /\ nospace' = (nospace \/ snd = SendBuf)
  /\ UNCHANGED <<client, rcv, snd, m_revents, fault>>

PickMessage ==
  /\ Goto("pick", "pick")
  /\ m_inputBuffer >= Pieces
  /\ m_inputBuffer' = m_inputBuffer - Pieces
  /\ handled' = handled + 1
  /\ m_outputBuffer' = m_outputBuffer + Pieces
  /\ UpdateChannel(m_events \union {"OUT"}, snd)
  /\ nospace' = (nospace \/ snd = SendBuf)
  /\ UNCHANGED <<client, rcv, snd, m_revents, fault>>

NoMessage ==
  /\ Goto("pick", "wait")
  /\ m_inputBuffer < Pieces
  /\ UNCHANGED <<client, kernel, conn, fault>>

(* writeCallback: send what fits; when all is gone, disableWriting.  With  *)
(* no room at all send() is -1, for EAGAIN too: exit(-1).                  *)
Fits == IF m_outputBuffer <= SendBuf - snd THEN m_outputBuffer ELSE SendBuf - snd

(* Variants: what was not sent erased with what was; send() called again    *)
(* until the buffer is empty.                                              *)
HandleOutEraseAll ==
  /\ Goto("event", "wait")
  /\ "IN" \notin m_revents
  /\ rst = "no"
  /\ snd' = snd + Fits
  /\ m_outputBuffer' = 0
  /\ UpdateChannel(m_events \ {"OUT"}, snd + Fits)
  /\ UNCHANGED <<client, rcv, nospace, m_revents, m_inputBuffer, handled, fault>>

HandleOutUntilEmpty ==
  /\ Goto("event", "wait")
  /\ "IN" \notin m_revents
  /\ fault' = IF m_outputBuffer > SendBuf - snd THEN "send_failed" ELSE fault
  /\ snd' = snd + Fits
  /\ m_outputBuffer' = m_outputBuffer - Fits
  /\ IF Fits = m_outputBuffer
       THEN UpdateChannel(m_events \ {"OUT"}, snd + Fits)
       ELSE UNCHANGED <<m_events, onList>>
  /\ nospace' = (nospace \/ Fits < m_outputBuffer)
  /\ UNCHANGED <<client, rcv, m_revents, m_inputBuffer, handled>>

HandleOut ==
  /\ Goto("event", "wait")
  /\ "IN" \notin m_revents
  /\ rst = "no"
  /\ fault' = IF m_outputBuffer > 0 /\ snd = SendBuf THEN "send_failed" ELSE fault
  /\ snd' = snd + Fits
  /\ m_outputBuffer' = m_outputBuffer - Fits
  /\ IF Fits = m_outputBuffer
       THEN UpdateChannel(m_events \ {"OUT"}, snd + Fits) /\ UNCHANGED nospace
       ELSE nospace' = TRUE /\ UNCHANGED <<m_events, onList>>
  /\ UNCHANGED <<client, rcv, m_revents, m_inputBuffer, handled>>

(* A reset that came after the report: send() is -1, or raises SIGPIPE.    *)
HandleOutReset ==
  /\ Goto("event", "wait")
  /\ "IN" \notin m_revents
  /\ rst # "no"
  /\ fault' = "peer_reset"
  /\ UNCHANGED <<client, kernel, conn>>

Loop ==
  \/ EpollWait \/ HandleIn
  \/ ReadSome \/ ReadAgain \/ ReadError \/ ReadEof \/ PickMessage \/ NoMessage
  \/ HandleOut \/ HandleOutReset

Next ==
  /\ fault = "none"
  /\ Loop \/ ClientSend \/ ClientShutdown \/ ClientReset \/ ClientRead

Spec == Init /\ [][Next]_vars

(* The loop's thread runs, and the client goes on reading replies. *)
Fairness == WF_vars(fault = "none" /\ Loop) /\ WF_vars(fault = "none" /\ ClientRead)

FairSpec == Spec /\ Fairness

-----------------------------------------------------------------------------
(***************************************************************************)
(* What holds.                                                             *)
(***************************************************************************)

InterestMatchesOutput == Open => ("OUT" \in m_events <=> m_outputBuffer > 0)

(* What holds a reply up.  The write event is registered exactly while     *)
(* there is output, so that no empty send loops on it either.  A reply the *)
(* loop has left there waits for one of three things: for the client to    *)
(* make room, which the kernel is then to report; for the next epoll_wait, *)
(* which has the descriptor; or, with part of a request in m_inputBuffer,  *)
(* for the client to go on sending it.  That is the one way to lose a      *)
(* write event: handleEvent calls the read callback alone when both are    *)
(* reported (Channel.cpp:80), and only another message registers it anew.  *)
ReplyWaitsForCause ==
  /\ InterestMatchesOutput
  /\ pc = "wait" /\ m_outputBuffer > 0 =>
       IF snd = SendBuf THEN nospace ELSE onList \/ m_inputBuffer \in 1 .. Pieces - 1

(* No piece is lost or used twice between the socket, the two buffers and  *)
(* the handler, in either direction, short of a reset.                     *)
PiecesConserved ==
  /\ put = rcv + m_inputBuffer + Pieces * handled
  /\ got + snd + m_outputBuffer <= Pieces * handled
  /\ rst = "no" => got + snd + m_outputBuffer = Pieces * handled

(* No input edge is lost: when the loop is done with this connection and   *)
(* unread input, an end of stream or a reset is there, epoll will report   *)
(* it, and as input: only a reset that comes between the report and the    *)
(* send can make send() fail.                                              *)
NoLostReadEdge == pc = "wait" /\ (rcv > 0 \/ Ended) => onList

(* writeCallback, which exits the process if send() fails, never meets a   *)
(* full send buffer, although the client reads whenever it likes.          *)
NeverSendsWhenFull == fault # "send_failed"

(* Every request that has arrived is handled, unless the end of the stream *)
(* is noticed first or the process exits in writeCallback.                 *)
RequestsAreHandled ==
  \A k \in 1 .. MaxMsgs :
    put >= k * Pieces ~> (handled >= k \/ ~Open \/ fault = "peer_reset")

(* The end of the stream, or a reset, is noticed, however slow the client  *)
(* reads, unless the process exits in writeCallback first.                 *)
ShutdownIsNoticed == Ended ~> (~Open \/ fault = "peer_reset")
=============================================================================
