---------------------------- MODULE DeviceSession ----------------------------
(***************************************************************************)
(* What a client's messages do to its DeviceInfo, and what a DeviceInfo    *)
(* does to the files: login opens a device's two files, data are put in    *)
(* the streams, logout or the end of the connection closes them.  A        *)
(* session is one connection and the DeviceInfo made for it.  Sessions     *)
(* run on different loops, so one may come between the steps of another.   *)
(*                                                                         *)
(* A std::ofstream buffers what is put in it and writes it where its own   *)
(* file offset stands; put into a stream in a failed state is nothing.     *)
(* The length of a line matters only where two streams write over one      *)
(* file; all lines are taken to be of one length.                          *)
(***************************************************************************)
EXTENDS Naturals, Sequences, SequencesExt, FiniteSetsExt

CONSTANTS
  Sessions,
  Devices,   (* the device ids clients log in with                 *)
  MaxData,   (* bound: data messages sent, by all sessions         *)
  NoID,      (* m_deviceID is empty; a stream that is closed       *)
  Hole       (* the zeros between the end of a file and an offset  *)

ASSUME DeviceAssumption ==
  /\ NoID \notin Devices
  /\ MaxData \in Nat
  /\ Hole \notin Sessions

Kinds == {"gnss", "imu"}

(* A data message as it is acknowledged, with its login; tagged if its data *)
(* are between the tags that are looked for, gnssdata or imudata.           *)
Message == [from : Sessions, id : Devices, n : 1 .. MaxData, tagged : BOOLEAN]

(* A line that is output: the data of message n, or nothing for 0. *)
Line == [from : Sessions, id : Devices, n : 0 .. MaxData]

VARIABLES
  conn,            (* of each session: open, timed out, ended              *)
  spc,             (* where its handler is                                 *)
  m_deviceLogin,
  m_deviceID,
  path,            (* the device whose file each stream has open, or NoID  *)
  fail,            (* failbit of each stream                               *)
  buf, pos,        (* its buffered lines; its offset in the file, 0 closed *)
  files,           (* lines in each file                                   *)
  sent,            (* data messages sent, which are known by their number  *)
  acked,           (* history: acknowledged since the file was opened      *)
  spoilt,          (* history: the file did not have one login to itself   *)
  exited           (* the process called exit(-1)                          *)

info == <<m_deviceLogin, m_deviceID>>
streams == <<path, fail, buf, pos>>
disk == <<files, acked, spoilt>>
vars == <<conn, spc, info, streams, disk, sent, exited>>

Streams == Sessions \X Kinds

TypeOK ==
  /\ conn \in [Sessions -> {"open", "timed_out", "ended"}]
  /\ spc \in [Sessions -> {"idle", "open_imu", "close_imu"}]
  /\ m_deviceLogin \in [Sessions -> BOOLEAN]
  /\ m_deviceID \in [Sessions -> Devices \union {NoID}]
  /\ path \in [Streams -> Devices \union {NoID}]
  /\ fail \in [Streams -> BOOLEAN]
  /\ buf \in [Streams -> Seq(Line)]
  /\ pos \in [Streams -> Nat]
  /\ files \in [Kinds \X Devices -> Seq(Line \union {Hole})]
  /\ sent \in 0 .. MaxData
  /\ acked \in [Kinds \X Devices -> Seq(Message)]
  /\ spoilt \in [Kinds \X Devices -> BOOLEAN]
  /\ exited \in BOOLEAN

Init ==
  /\ conn = [s \in Sessions |-> "open"]
  /\ spc = [s \in Sessions |-> "idle"]
  /\ m_deviceLogin = [s \in Sessions |-> FALSE]
  /\ m_deviceID = [s \in Sessions |-> NoID]
  /\ path = [t \in Streams |-> NoID]
  /\ fail = [t \in Streams |-> FALSE]
  /\ buf = [t \in Streams |-> <<>>]
  /\ pos = [t \in Streams |-> 0]
  /\ files = [f \in Kinds \X Devices |-> <<>>]
  /\ sent = 0
  /\ acked = [f \in Kinds \X Devices |-> <<>>]
  /\ spoilt = [f \in Kinds \X Devices |-> FALSE]
  /\ exited = FALSE

(***************************************************************************)
(* Streams.                                                                *)
(***************************************************************************)
IsOpen(s, k) == path[<<s, k>>] # NoID

OtherUses(s, k, d) ==
  \E r \in Sessions \ {s} : path[<<r, k>>] = d \/ m_deviceID[r] = d

(* Variants: opening an open stream is passed over; no std::ios::trunc. *)
OpenStreamOnce(s, k, d) ==
  \/ /\ IsOpen(s, k)
     /\ UNCHANGED <<streams, disk>>
  \/ /\ ~IsOpen(s, k)
     /\ path' = [path EXCEPT ![<<s, k>>] = d]
     /\ fail' = [fail EXCEPT ![<<s, k>>] = FALSE]
     /\ files' = [files EXCEPT ![<<k, d>>] = <<>>]
     /\ acked' = [acked EXCEPT ![<<k, d>>] = <<>>]
     /\ spoilt' = [spoilt EXCEPT ![<<k, d>>] = OtherUses(s, k, d)]
     /\ UNCHANGED <<buf, pos>>

OpenStreamKeepingFile(s, k, d) ==
  \/ /\ IsOpen(s, k)
     /\ fail' = [fail EXCEPT ![<<s, k>>] = TRUE]
     /\ spoilt' = [spoilt EXCEPT ![<<k, d>>] = TRUE]
     /\ UNCHANGED <<path, buf, pos, files, acked>>
  \/ /\ ~IsOpen(s, k)
     /\ path' = [path EXCEPT ![<<s, k>>] = d]
     /\ fail' = [fail EXCEPT ![<<s, k>>] = FALSE]
     /\ acked' = [acked EXCEPT ![<<k, d>>] = <<>>]
     /\ spoilt' = [spoilt EXCEPT ![<<k, d>>] = OtherUses(s, k, d)]
     /\ UNCHANGED <<buf, pos, files>>

(* ofstream::open.  An open stream stays open as it is, with failbit set;  *)
(* a closed one is opened and the file truncated, or cannot be opened.     *)
OpenStream(s, k, d) ==
  \/ /\ IsOpen(s, k)
     /\ fail' = [fail EXCEPT ![<<s, k>>] = TRUE]
     /\ spoilt' = [spoilt EXCEPT ![<<k, d>>] = TRUE]
     /\ UNCHANGED <<path, buf, pos, files, acked>>
  \/ /\ ~IsOpen(s, k)
     /\ path' = [path EXCEPT ![<<s, k>>] = d]
     /\ fail' = [fail EXCEPT ![<<s, k>>] = FALSE]
     /\ files' = [files EXCEPT ![<<k, d>>] = <<>>]
     /\ acked' = [acked EXCEPT ![<<k, d>>] = <<>>]
     /\ spoilt' = [spoilt EXCEPT ![<<k, d>>] = OtherUses(s, k, d)]
     /\ UNCHANGED <<buf, pos>>
  \/ /\ ~IsOpen(s, k)
     /\ fail' = [fail EXCEPT ![<<s, k>>] = TRUE]
     /\ UNCHANGED <<path, buf, pos, disk>>

(* write() of lines at offset p: over what is there, or past the end. *)
WrittenAt(file, p, lines) ==
  [i \in 1 .. Max({Len(file), p + Len(lines)}) |->
     IF i \in p + 1 .. p + Len(lines) THEN lines[i - p]
     ELSE IF i <= Len(file) THEN file[i] ELSE Hole]

(* A file after the stream wrote these lines of its to it. *)
Flushed(s, k, file, lines) ==
  IF lines = <<>> THEN file ELSE WrittenAt(file, pos[<<s, k>>], lines)

(* ofstream::close; of a stream that is not open it only sets failbit. *)
CloseStream(s, k) ==
  \/ /\ IsOpen(s, k)
     /\ files' = [files EXCEPT ![<<k, path[<<s, k>>]>>] = Flushed(s, k, @, buf[<<s, k>>])]
     /\ buf' = [buf EXCEPT ![<<s, k>>] = <<>>]
     /\ pos' = [pos EXCEPT ![<<s, k>>] = 0]
     /\ path' = [path EXCEPT ![<<s, k>>] = NoID]
     /\ UNCHANGED fail
  \/ /\ ~IsOpen(s, k)
     /\ fail' = [fail EXCEPT ![<<s, k>>] = TRUE]
     /\ UNCHANGED <<path, buf, pos, files>>

(***************************************************************************)
(* A session's messages.                                                   *)
(***************************************************************************)
Goto(s, from, to) == spc[s] = from /\ spc' = [spc EXCEPT ![s] = to]

(* 00101 with a deviceid: deviceInit opens one stream ... *)
Login(s, d) ==
  /\ conn[s] = "open"
  /\ Goto(s, "idle", "open_imu")
  /\ m_deviceID' = [m_deviceID EXCEPT ![s] = d]
  /\ OpenStream(s, "gnss", d)
  /\ UNCHANGED <<conn, m_deviceLogin, sent, exited>>

(* ... then the other, and asks is_open() of both: if not, exit(-1). *)
LoginImu(s) ==
  /\ Goto(s, "open_imu", "idle")
  /\ OpenStream(s, "imu", m_deviceID[s])
  /\ exited' = ~(IsOpen(s, "gnss") /\ IsOpen(s, "imu")')
  /\ m_deviceLogin' = [m_deviceLogin EXCEPT ![s] = @ \/ ~exited']
  /\ UNCHANGED <<conn, m_deviceID, sent>>

NewMessage(s, tagged) ==
  [from |-> s, id |-> m_deviceID[s], n |-> sent + 1, tagged |-> tagged]

(* getXMLBuffer's result is not asked: without the tags an empty line. *)
LineOf(m) == [from |-> m.from, id |-> m.id, n |-> IF m.tagged THEN m.n ELSE 0]

LinesOf(messages) == [i \in DOMAIN messages |-> LineOf(messages[i])]

(* Variant: hasLogin() is not asked. *)
OutputAnyway(s, k) ==
  /\ conn[s] = "open" /\ spc[s] = "idle"
  /\ sent < MaxData
  /\ sent' = sent + 1
  /\ \E tagged \in BOOLEAN :
       buf' = [buf EXCEPT ![<<s, k>>] = Append(@, LineOf(NewMessage(s, tagged)))]
  /\ UNCHANGED <<conn, spc, info, path, fail, pos, disk, exited>>

(* 00201 and 00202 of a session that is logged in: a line is put in the    *)
(* stream, which may just then be full and written; the reply is ok, with  *)
(* the tags or without.                                                    *)
Output(s, k) ==
  /\ conn[s] = "open" /\ spc[s] = "idle"
  /\ m_deviceLogin[s]
  /\ sent < MaxData
  /\ sent' = sent + 1
  /\ \E tagged \in BOOLEAN :
       LET message == NewMessage(s, tagged)
           lines == Append(buf[<<s, k>>], LineOf(message))
       IN  /\ acked' = [acked EXCEPT ![<<k, m_deviceID[s]>>] = Append(@, message)]
           /\ \/ fail[<<s, k>>] /\ UNCHANGED <<buf, pos, files>>
              \/ /\ ~fail[<<s, k>>]
                 /\ buf' = [buf EXCEPT ![<<s, k>>] = lines]
                 /\ UNCHANGED <<pos, files>>
              \/ /\ ~fail[<<s, k>>]
                 /\ files' = [files EXCEPT ![<<k, path[<<s, k>>]>>] = Flushed(s, k, @, lines)]
                 /\ pos' = [pos EXCEPT ![<<s, k>>] = @ + Len(lines)]
                 /\ buf' = [buf EXCEPT ![<<s, k>>] = <<>>]
  /\ UNCHANGED <<conn, spc, info, path, fail, spoilt, exited>>

(* 00901 of a session that is logged in: deviceClose closes one stream ... *)
Logout(s) ==
  /\ conn[s] = "open"
  /\ m_deviceLogin[s]
  /\ Goto(s, "idle", "close_imu")
  /\ CloseStream(s, "gnss")
  /\ UNCHANGED <<conn, info, acked, spoilt, sent, exited>>

(* Variant: the flag is not reset. *)
CloseImuOnly(s) ==
  /\ Goto(s, "close_imu", "idle")
  /\ CloseStream(s, "imu")
  /\ m_deviceID' = [m_deviceID EXCEPT ![s] = NoID]
  /\ UNCHANGED <<conn, m_deviceLogin, acked, spoilt, sent, exited>>

(* ... then the other. *)
CloseImu(s) ==
  /\ Goto(s, "close_imu", "idle")
  /\ CloseStream(s, "imu")
  /\ m_deviceID' = [m_deviceID EXCEPT ![s] = NoID]
  /\ m_deviceLogin' = [m_deviceLogin EXCEPT ![s] = FALSE]
  /\ UNCHANGED <<conn, acked, spoilt, sent, exited>>

(***************************************************************************)
(* The end of a session.                                                   *)
(***************************************************************************)

(* handleCloseConnection erases the DeviceInfo; so does handleNewConnection *)
(* when a later connection gets the descriptor of one that timed out.       *)
(* ~DeviceInfo is deviceClose.                                              *)
End(s) ==
  /\ conn[s] \in {"open", "timed_out"}
  /\ conn' = [conn EXCEPT ![s] = "ended"]
  /\ Goto(s, "idle", "close_imu")
  /\ CloseStream(s, "gnss")
  /\ UNCHANGED <<info, acked, spoilt, sent, exited>>

(* The idle timer takes the Connection and leaves the DeviceInfo. *)
TimeOut(s) ==
  /\ conn[s] = "open" /\ spc[s] = "idle"
  /\ conn' = [conn EXCEPT ![s] = "timed_out"]
  /\ UNCHANGED <<spc, info, streams, disk, sent, exited>>

Session(s) ==
  \/ \E d \in Devices : Login(s, d)
  \/ LoginImu(s)
  \/ \E k \in Kinds : Output(s, k)
  \/ Logout(s) \/ CloseImu(s)
  \/ End(s) \/ TimeOut(s)

Next == ~exited /\ \E s \in Sessions : Session(s)

Spec == Init /\ [][Next]_vars

-----------------------------------------------------------------------------
(* Between messages a session is logged in exactly if both its streams are *)
(* open, whatever logins, logouts and ends of connection came before.      *)
LoginMatchesStreams ==
  \A s \in Sessions :
    spc[s] = "idle" /\ ~exited =>
      \A k \in Kinds : m_deviceLogin[s] <=> IsOpen(s, k)

(* No line is filed under the wrong device: all that is in a device's file *)
(* or on its way there was acknowledged under a login with that id, also   *)
(* when a session logs in as another device without logging out.           *)
NotMisfiled ==
  /\ \A k \in Kinds, d \in Devices :
       \A x \in ToSet(files[<<k, d>>]) \ {Hole} : x.id = d
  /\ \A t \in Streams : \A x \in ToSet(buf[t]) : x.id = path[t]

(* The lines of a file's stream that have not been written yet. *)
Pending(k, d) ==
  LET writers == {s \in Sessions : path[<<s, k>>] = d}
  IN  IF writers = {} THEN <<>> ELSE buf[<<CHOOSE s \in writers : TRUE, k>>]

(* As long as one login at a time has a device's file, and none is         *)
(* repeated without a logout, the file and what is still buffered for it   *)
(* have one line for each message acknowledged since it was opened, in     *)
(* order: its data, or an empty line, its data lost, if they did not come  *)
(* between the tags.                                                       *)
LinePerAck ==
  \A k \in Kinds, d \in Devices :
    ~spoilt[<<k, d>>] => files[<<k, d>>] \o Pending(k, d) = LinesOf(acked[<<k, d>>])

-----------------------------------------------------------------------------
(* Navigation.cpp:155: data of a logged-in device are output to its file:  *)
(* those that came between the tags and were answered "ok" to a session    *)
(* are in its stream's buffer or its file.                                 *)
AckedIsOutput ==
  \A k \in Kinds, d \in Devices :
    \A m \in ToSet(acked[<<k, d>>]) :
      m.tagged => LineOf(m) \in ToSet(files[<<k, d>>]) \union ToSet(buf[<<m.from, k>>])
=============================================================================
