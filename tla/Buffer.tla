-------------------------------- MODULE Buffer --------------------------------
(***************************************************************************)
(* Message framing: one Connection's m_outputBuffer puts a 4-byte          *)
(* little-endian length before each message (separator 1, the only one in  *)
(* use), TCP delivers the bytes in any fragments, and the peer's           *)
(* m_inputBuffer cuts the messages out again.                              *)
(*                                                                         *)
(* A byte has Base values: 256 in the program, fewer in the runs, so that  *)
(* short messages have lengths of several digits.                          *)
(***************************************************************************)
EXTENDS Integers, Sequences, SequencesExt

CONSTANTS
  Base,      (* values of a byte                               *)
  Messages,  (* the payloads that are sent, sequences of bytes *)
  MaxSent    (* bound: messages sent                           *)

Byte == 0 .. Base - 1

(* What a one is worth in each of the 4 bytes, and how many values an int  *)
(* has (products: the prover knows no powers).                             *)
Weight == <<1, Base, Base * Base, Base * Base * Base>>
Ints == Base * Weight[4]

(* A length below half the int's range is what the program ever sends. *)
ASSUME BufferAssumption ==
  /\ Base \in Nat /\ Base >= 4 /\ Base % 2 = 0
  /\ MaxSent \in Nat
  /\ \A m \in Messages : m \in Seq(Byte) /\ Len(m) < Ints \div 2

VARIABLES
  m_outputBuffer,
  wire,            (* bytes the sender's kernel took, not yet read      *)
  m_inputBuffer,
  rpc,             (* where the reader is in handleMessage              *)
  sent,            (* history: messages appended                        *)
  received         (* history: messages picked                          *)

vars == <<m_outputBuffer, wire, m_inputBuffer, rpc, sent, received>>

TypeOK ==
  /\ {m_outputBuffer, wire, m_inputBuffer} \subseteq Seq(Byte)
  /\ rpc \in {"idle", "reading", "picking"}
  /\ sent \in Seq(Messages)
  /\ received \in Seq(Messages)

Init ==
  /\ m_outputBuffer = <<>> /\ wire = <<>> /\ m_inputBuffer = <<>>
  /\ rpc = "idle"
  /\ sent = <<>> /\ received = <<>>

(* The first 4 bytes of a size_t. *)
Header(size) == [i \in 1 .. 4 |-> (size \div Weight[i]) % Base]

Frame(m) == Header(Len(m)) \o m

(* memcpy(&len, data(), 4), however short the string: after its end come   *)
(* the terminating 0 and then whatever the string's storage holds, which   *)
(* for a string that is not empty can only be the third and fourth byte.   *)
Junk == [3 .. 4 -> Byte]
HeaderByte(b, junk, i) ==
  IF i <= Len(b) THEN b[i] ELSE IF i = Len(b) + 1 THEN 0 ELSE junk[i]
LenField(b, junk) ==
  LET u == HeaderByte(b, junk, 1) + Weight[2] * HeaderByte(b, junk, 2)
             + Weight[3] * HeaderByte(b, junk, 3) + Weight[4] * HeaderByte(b, junk, 4)
  IN  IF u < Ints \div 2 THEN u ELSE u - Ints

(* Variant: a signed comparison. *)
HasMessageSigned(b, junk) == b # <<>> /\ Len(b) >= LenField(b, junk) + 4

(* size() < len + 4 compares as size_t: a negative sum is a huge number. *)
HasMessage(b, junk) ==
  /\ b # <<>>
  /\ LenField(b, junk) + 4 >= 0
  /\ Len(b) >= LenField(b, junk) + 4

(***************************************************************************)
(* The sender.                                                             *)
(***************************************************************************)

(* appendWithSeparator *)
Send(m) ==
  /\ Len(sent) < MaxSent
  /\ m_outputBuffer' = m_outputBuffer \o Frame(m)
  /\ sent' = Append(sent, m)
  /\ UNCHANGED <<wire, m_inputBuffer, rpc, received>>

(* send() takes any first part of the buffer, which is then erased. *)
Transmit ==
  /\ \E n \in 1 .. Len(m_outputBuffer) :
       /\ wire' = wire \o SubSeq(m_outputBuffer, 1, n)
       /\ m_outputBuffer' = SubSeq(m_outputBuffer, n + 1, Len(m_outputBuffer))
  /\ UNCHANGED <<m_inputBuffer, rpc, sent, received>>

(***************************************************************************)
(* The reader: read until EAGAIN, then pick until there is no message.     *)
(***************************************************************************)
Goto(from, to) == rpc = from /\ rpc' = to

HandleRead ==
  /\ Goto("idle", "reading")
  /\ wire # <<>>
  /\ UNCHANGED <<m_outputBuffer, wire, m_inputBuffer, sent, received>>

ReadSome ==
  /\ Goto("reading", "reading")
  /\ \E n \in 1 .. Len(wire) :
       /\ m_inputBuffer' = m_inputBuffer \o SubSeq(wire, 1, n)
       /\ wire' = SubSeq(wire, n + 1, Len(wire))
  /\ UNCHANGED <<m_outputBuffer, sent, received>>

ReadAgain ==
  /\ Goto("reading", "picking")
  /\ wire = <<>>
  /\ UNCHANGED <<m_outputBuffer, wire, m_inputBuffer, sent, received>>

(* Variant: one message per read event. *)
PickOne ==
  /\ Goto("picking", "idle")
  /\ \E junk \in Junk :
       LET len == LenField(m_inputBuffer, junk)
       IN  /\ HasMessage(m_inputBuffer, junk)
           /\ received' = Append(received, SubSeq(m_inputBuffer, 5, len + 4))
           /\ m_inputBuffer' = SubSeq(m_inputBuffer, len + 5, Len(m_inputBuffer))
  /\ UNCHANGED <<m_outputBuffer, wire, sent>>

(* Variants: substr without the length; only as many bytes as the message  *)
(* has are erased.                                                         *)
PickWhatIsThere ==
  /\ Goto("picking", "picking")
  /\ \E junk \in Junk :
       LET len == LenField(m_inputBuffer, junk)
       IN  /\ HasMessage(m_inputBuffer, junk)
           /\ received' = Append(received, SubSeq(m_inputBuffer, 5, Len(m_inputBuffer)))
           /\ m_inputBuffer' = SubSeq(m_inputBuffer, len + 5, Len(m_inputBuffer))
  /\ UNCHANGED <<m_outputBuffer, wire, sent>>

PickMessageLeaving4 ==
  /\ Goto("picking", "picking")
  /\ \E junk \in Junk :
       LET len == LenField(m_inputBuffer, junk)
       IN  /\ HasMessage(m_inputBuffer, junk)
           /\ received' = Append(received, SubSeq(m_inputBuffer, 5, len + 4))
           /\ m_inputBuffer' = SubSeq(m_inputBuffer, len + 1, Len(m_inputBuffer))
  /\ UNCHANGED <<m_outputBuffer, wire, sent>>

(* pickMessage returns true: substr(4, len), then erase(0, len + 4). *)
PickMessage ==
  /\ Goto("picking", "picking")
  /\ \E junk \in Junk :
       LET len == LenField(m_inputBuffer, junk)
       IN  /\ HasMessage(m_inputBuffer, junk)
           /\ received' = Append(received, SubSeq(m_inputBuffer, 5, len + 4))
           /\ m_inputBuffer' = SubSeq(m_inputBuffer, len + 5, Len(m_inputBuffer))
  /\ UNCHANGED <<m_outputBuffer, wire, sent>>

(* pickMessage returns false. *)
NoMessage ==
  /\ Goto("picking", "idle")
  /\ \E junk \in Junk : ~HasMessage(m_inputBuffer, junk)
  /\ UNCHANGED <<m_outputBuffer, wire, m_inputBuffer, sent, received>>

Next ==
  \/ \E m \in Messages : Send(m)
  \/ Transmit
  \/ HandleRead \/ ReadSome \/ ReadAgain \/ PickMessage \/ NoMessage

Spec == Init /\ [][Next]_vars

-----------------------------------------------------------------------------
(* The two buffers and the wire as a mailbox of numbered messages.         *)
OnTheWay ==
  [i \in 1 .. Len(sent) - Len(received) |-> <<Len(received) + i, sent[Len(received) + i]>>]
Arrived == [i \in 1 .. Len(received) |-> <<i, received[i]>>]
Box == INSTANCE Mailbox WITH
  Tasks <- (1 .. MaxSent) \X Messages, box <- OnTheWay, log <- Arrived

(* However the stream is cut, each message comes out once, whole, and      *)
(* after those that went in before it.                                     *)
ImplementsMailbox == Box!BoxSpec

(* What has come out is what went in first. *)
InOrder == IsPrefix(received, sent)

(* Nothing complete is ever held back: when the reader waits for more, its *)
(* buffer is empty or the beginning of the next frame, but not all of it.  *)
OnlyPartialFrameWaits ==
  rpc = "idle" /\ m_inputBuffer # <<>> =>
    /\ Len(received) < Len(sent)
    /\ IsStrictPrefix(m_inputBuffer, Frame(sent[Len(received) + 1]))

(* With fewer than 4 bytes the length is read past the string's end; the   *)
(* terminating 0 makes the outcome the same whatever lies there.           *)
JunkIsHarmless ==
  \A j1 \in Junk :
    m_inputBuffer # <<>> /\ HasMessage(m_inputBuffer, j1)
      => \A j2 \in Junk : HasMessage(m_inputBuffer, j2)
=============================================================================
