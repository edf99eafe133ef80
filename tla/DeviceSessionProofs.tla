-------------------------- MODULE DeviceSessionProofs --------------------------
(***************************************************************************)
(* Login state and files, for any number of sessions, devices and lines.   *)
(***************************************************************************)
EXTENDS DeviceSession, SequenceTheorems, TLAPS

(* How login flag, id and streams go together at each step of a handler: a *)
(* stream that takes lines has the file of the id the session has now,     *)
(* except the second one while a login is half done.                       *)
SessionInv(s) ==
  /\ spc[s] = "idle" /\ ~exited => \A k \in Kinds : m_deviceLogin[s] <=> IsOpen(s, k)
  /\ spc[s] = "idle" /\ m_deviceLogin[s] => m_deviceID[s] \in Devices
  /\ spc[s] = "open_imu" =>
       /\ m_deviceID[s] \in Devices
       /\ m_deviceLogin[s] <=> IsOpen(s, "imu")
       /\ m_deviceLogin[s] => IsOpen(s, "gnss")
  /\ spc[s] = "close_imu" => ~IsOpen(s, "gnss")
  /\ \A k \in Kinds :
       /\ ~IsOpen(s, k) => buf[<<s, k>>] = <<>>
       /\ IsOpen(s, k) /\ ~fail[<<s, k>>] /\ ~(k = "imu" /\ spc[s] = "open_imu")
            => path[<<s, k>>] = m_deviceID[s]

IInv == TypeOK /\ NotMisfiled /\ \A s \in Sessions : SessionInv(s)

-----------------------------------------------------------------------------
(* The greater of two numbers. *)
LEMMA MaxOfTwo ==
  ASSUME NEW a \in Nat, NEW b \in Nat
  PROVE  /\ Max({a, b}) \in Nat
         /\ Max({a, b}) >= a /\ Max({a, b}) >= b
<1>1. \E x \in {a, b} : \A y \in {a, b} : x >= y
  BY DEF Max
<1>2. Max({a, b}) \in {a, b} /\ \A y \in {a, b} : Max({a, b}) >= y
  BY <1>1 DEF Max
<1>3. QED BY <1>2

(* What writing leaves in a file: what was there, what is written, zeros. *)
LEMMA Written ==
  ASSUME NEW S, NEW file \in Seq(S \union {Hole}), NEW lines \in Seq(S), NEW p \in Nat
  PROVE  /\ WrittenAt(file, p, lines) \in Seq(S \union {Hole})
         /\ ToSet(WrittenAt(file, p, lines)) \subseteq ToSet(file) \union ToSet(lines) \union {Hole}
<1> DEFINE n == Max({Len(file), p + Len(lines)})
           F == WrittenAt(file, p, lines)
<1>1. /\ Len(file) \in Nat /\ Len(lines) \in Nat
      /\ DOMAIN file = 1 .. Len(file) /\ DOMAIN lines = 1 .. Len(lines)
      /\ \A i \in 1 .. Len(lines) : lines[i] \in S
      /\ \A i \in 1 .. Len(file) : file[i] \in S \union {Hole}
  OBVIOUS
<1>2. n \in Nat
  BY <1>1, MaxOfTwo
<1> HIDE DEF n
<1>3. F = [i \in 1 .. n |-> IF i \in p + 1 .. p + Len(lines) THEN lines[i - p]
                            ELSE IF i <= Len(file) THEN file[i] ELSE Hole]
  BY DEF WrittenAt, n
<1> HIDE DEF F
<1>4. ASSUME NEW i \in 1 .. n
      PROVE  \/ \E j \in DOMAIN lines : F[i] = lines[j]
             \/ \E j \in DOMAIN file : F[i] = file[j]
             \/ F[i] = Hole
  <2>1. CASE i \in p + 1 .. p + Len(lines)
    <3>1. i - p \in DOMAIN lines /\ F[i] = lines[i - p]
      BY <1>1, <1>3, <2>1
    <3>2. QED BY <3>1
  <2>2. CASE i \notin p + 1 .. p + Len(lines) /\ i <= Len(file)
    <3>1. i \in DOMAIN file /\ F[i] = file[i]
      BY <1>1, <1>2, <1>3, <2>2
    <3>2. QED BY <3>1
  <2>3. CASE i \notin p + 1 .. p + Len(lines) /\ ~(i <= Len(file))
    BY <1>3, <2>3
  <2>4. QED BY <2>1, <2>2, <2>3
<1>5. F \in [1 .. n -> S \union {Hole}]
  <2>1. DOMAIN F = 1 .. n /\ \A i \in 1 .. n : F[i] \in S \union {Hole}
    BY <1>1, <1>3, <1>4
  <2>2. QED BY <1>3, <2>1
<1>6. F \in Seq(S \union {Hole})
  BY <1>2, <1>5, SeqDef
<1>7. ToSet(F) \subseteq ToSet(file) \union ToSet(lines) \union {Hole}
  BY <1>4, <1>5 DEF ToSet
<1>8. QED BY <1>6, <1>7 DEF F

(* A line put in a stream. *)
LEMMA Appended ==
  ASSUME NEW S, NEW q \in Seq(S), NEW x \in S
  PROVE  /\ Append(q, x) \in Seq(S)
         /\ \A y \in ToSet(Append(q, x)) : y \in ToSet(q) \/ y = x
<1> DEFINE r == Append(q, x)
<1>1. /\ r \in Seq(S) /\ Len(q) \in Nat
      /\ DOMAIN r = 1 .. Len(q) + 1 /\ DOMAIN q = 1 .. Len(q)
      /\ \A i \in 1 .. Len(q) : r[i] = q[i]
      /\ r[Len(q) + 1] = x
  OBVIOUS
<1> HIDE DEF r
<1>2. ASSUME NEW i \in DOMAIN r PROVE r[i] = x \/ \E j \in DOMAIN q : r[i] = q[j]
  <2>1. CASE i = Len(q) + 1
    BY <1>1, <2>1
  <2>2. CASE i # Len(q) + 1
    <3>1. i \in DOMAIN q
      BY <1>1, <2>2
    <3>2. QED BY <1>1, <3>1
  <2>3. QED BY <2>1, <2>2
<1>3. QED BY <1>1, <1>2 DEF ToSet, r

(* The empty sequence has no elements. *)
LEMMA EmptyHasNone == ToSet(<<>>) = {}
<1>1. DOMAIN <<>> = {}
  OBVIOUS
<1>2. QED BY <1>1 DEF ToSet

(* A message becomes a line of its login. *)
LEMMA LineOfMessage ==
  ASSUME NEW m \in Message
  PROVE  LineOf(m) \in Line /\ LineOf(m).id = m.id
<1>1. m.from \in Sessions /\ m.id \in Devices /\ m.n \in 1 .. MaxData /\ m.tagged \in BOOLEAN
  BY DEF Message
<1>2. (IF m.tagged THEN m.n ELSE 0) \in 0 .. MaxData
  BY <1>1, DeviceAssumption
<1>3. QED BY <1>1, <1>2 DEF LineOf, Line

(* One more message is one more line. *)
LEMMA OneMoreLine ==
  ASSUME NEW q \in Seq(Message), NEW m \in Message
  PROVE  LinesOf(Append(q, m)) = Append(LinesOf(q), LineOf(m))
<1> DEFINE r == Append(q, m)
           L == LinesOf(q)
           x == LineOf(m)
<1>1. /\ r \in Seq(Message) /\ Len(q) \in Nat /\ Len(r) = Len(q) + 1
      /\ DOMAIN r = 1 .. Len(q) + 1 /\ DOMAIN q = 1 .. Len(q)
      /\ \A i \in 1 .. Len(q) : q[i] \in Message /\ r[i] = q[i]
      /\ r[Len(q) + 1] = m
  OBVIOUS
<1> HIDE DEF r
<1>2. /\ L = [i \in 1 .. Len(q) |-> LineOf(q[i])]
      /\ LinesOf(r) = [i \in 1 .. Len(q) + 1 |-> LineOf(r[i])]
  BY <1>1 DEF LinesOf
<1>3. x \in Line /\ \A i \in 1 .. Len(q) : LineOf(q[i]) \in Line
  BY <1>1, LineOfMessage
<1> HIDE DEF L, x
<1>4. L \in Seq(Line) /\ Len(L) = Len(q)
  <2>1. L \in [1 .. Len(q) -> Line]
    BY <1>2, <1>3
  <2>2. L \in Seq(Line)
    BY <1>1, <2>1, SeqDef
  <2>3. QED BY <1>1, <1>2, <2>2, LenProperties
<1>5. /\ Append(L, x) \in Seq(Line) /\ DOMAIN Append(L, x) = 1 .. Len(q) + 1
      /\ \A i \in 1 .. Len(q) : Append(L, x)[i] = L[i]
      /\ Append(L, x)[Len(q) + 1] = x
  BY <1>3, <1>4, AppendProperties
<1>6. ASSUME NEW i \in 1 .. Len(q) + 1 PROVE LinesOf(r)[i] = Append(L, x)[i]
  <2>1. CASE i = Len(q) + 1
    BY <1>1, <1>2, <1>5, <2>1 DEF x
  <2>2. CASE i # Len(q) + 1
    <3>1. i \in 1 .. Len(q)
      BY <1>1, <2>2
    <3>2. LinesOf(r)[i] = LineOf(q[i]) /\ Append(L, x)[i] = LineOf(q[i])
      BY <1>1, <1>2, <1>5, <3>1
    <3>3. QED BY <3>2
  <2>3. QED BY <2>1, <2>2
<1>7. LinesOf(r) = Append(L, x)
  <2>1. Len(q) + 1 \in Nat /\ \A i \in 1 .. Len(q) + 1 : r[i] \in Message
    BY <1>1
  <2>2. \A i \in 1 .. Len(q) + 1 : LineOf(r[i]) \in Line
    BY <2>1, LineOfMessage
  <2>3. LinesOf(r) \in [1 .. Len(q) + 1 -> Line]
    BY <1>2, <2>2
  <2>4. LinesOf(r) \in Seq(Line) /\ Len(LinesOf(r)) = Len(q) + 1
    BY <2>1, <2>3, SeqDef, LenProperties
  <2>5. Len(Append(L, x)) = Len(q) + 1
    BY <1>3, <1>4, AppendProperties
  <2>6. QED BY <1>5, <1>6, <2>4, <2>5, SeqEqual
<1>8. QED BY <1>7 DEF r, L, x

(* No messages are no lines. *)
LEMMA NoLines == LinesOf(<<>>) = <<>>
BY DEF LinesOf

-----------------------------------------------------------------------------
(* Opening a stream, with whatever result. *)
LEMMA Opening ==
  ASSUME IInv, NEW s \in Sessions, NEW k \in Kinds, NEW d \in Devices, OpenStream(s, k, d)
  PROVE  /\ path' \in [Streams -> Devices \union {NoID}]
         /\ fail' \in [Streams -> BOOLEAN]
         /\ files' \in [Kinds \X Devices -> Seq(Line \union {Hole})]
         /\ acked' \in [Kinds \X Devices -> Seq(Message)]
         /\ spoilt' \in [Kinds \X Devices -> BOOLEAN]
         /\ UNCHANGED <<buf, pos>>
         /\ \A t \in Streams : t # <<s, k>> => path'[t] = path[t] /\ fail'[t] = fail[t]
         /\ IsOpen(s, k) => path'[<<s, k>>] = path[<<s, k>>] /\ fail'[<<s, k>>]
         /\ ~fail'[<<s, k>>] => path'[<<s, k>>] = d
         /\ NotMisfiled'
<1>1. /\ TypeOK /\ NotMisfiled
      /\ <<s, k>> \in Streams /\ <<k, d>> \in Kinds \X Devices
  BY DEF IInv, Streams
<1>2. ~IsOpen(s, k) => buf[<<s, k>>] = <<>>
  BY DEF IInv, SessionInv
<1>3. CASE IsOpen(s, k)
  <2>1. /\ fail' = [fail EXCEPT ![<<s, k>>] = TRUE]
        /\ spoilt' = [spoilt EXCEPT ![<<k, d>>] = TRUE]
        /\ UNCHANGED <<path, buf, pos, files, acked>>
    BY <1>3 DEF OpenStream
  <2>2. NotMisfiled'
    BY <1>1, <2>1 DEF NotMisfiled
  <2>3. QED BY <1>1, <1>3, <2>1, <2>2 DEF TypeOK
<1>4. CASE ~IsOpen(s, k) /\ path' # path
  <2>1. /\ path' = [path EXCEPT ![<<s, k>>] = d]
        /\ fail' = [fail EXCEPT ![<<s, k>>] = FALSE]
        /\ files' = [files EXCEPT ![<<k, d>>] = <<>>]
        /\ acked' = [acked EXCEPT ![<<k, d>>] = <<>>]
        /\ spoilt' = [spoilt EXCEPT ![<<k, d>>] = OtherUses(s, k, d)]
        /\ UNCHANGED <<buf, pos>>
    BY <1>4 DEF OpenStream, streams
  <2>2. \A j \in Kinds, e \in Devices :
          files'[<<j, e>>] = files[<<j, e>>] \/ files'[<<j, e>>] = <<>>
    BY <1>1, <2>1 DEF TypeOK
  <2>3. \A t \in Streams : path'[t] = path[t] \/ buf[t] = <<>>
    BY <1>1, <1>2, <1>4, <2>1 DEF TypeOK
  <2>4. NotMisfiled'
    BY <1>1, <2>1, <2>2, <2>3, EmptyHasNone DEF NotMisfiled
  <2>5. OtherUses(s, k, d) \in BOOLEAN
    BY DEF OtherUses
  <2>6. <<>> \in Seq(Line \union {Hole}) /\ <<>> \in Seq(Message)
    OBVIOUS
  <2>7. /\ path' \in [Streams -> Devices \union {NoID}]
        /\ fail' \in [Streams -> BOOLEAN]
        /\ spoilt' \in [Kinds \X Devices -> BOOLEAN]
    BY <1>1, <2>1, <2>5 DEF TypeOK
  <2>8. /\ files' \in [Kinds \X Devices -> Seq(Line \union {Hole})]
        /\ acked' \in [Kinds \X Devices -> Seq(Message)]
    BY <1>1, <2>1, <2>6 DEF TypeOK
  <2>9. /\ \A t \in Streams : t # <<s, k>> => path'[t] = path[t] /\ fail'[t] = fail[t]
        /\ path'[<<s, k>>] = d
    BY <1>1, <2>1 DEF TypeOK
  <2>10. QED BY <1>4, <2>1, <2>4, <2>7, <2>8, <2>9
<1>5. CASE ~IsOpen(s, k) /\ path' = path
  <2>1. /\ fail' = [fail EXCEPT ![<<s, k>>] = TRUE]
        /\ UNCHANGED <<path, buf, pos, files, acked, spoilt>>
    <3>1. path[<<s, k>>] # d
      BY <1>5, DeviceAssumption DEF IsOpen
    <3>2. path' # [path EXCEPT ![<<s, k>>] = d]
      BY <1>1, <1>5, <3>1 DEF TypeOK
    <3>3. QED BY <1>5, <3>2 DEF OpenStream, disk
  <2>2. NotMisfiled'
    BY <1>1, <2>1 DEF NotMisfiled
  <2>3. QED BY <1>1, <1>5, <2>1, <2>2 DEF TypeOK
<1>6. QED BY <1>3, <1>4, <1>5

(* What a write adds to a file of its own device is that device's. *)
LEMMA Flushing ==
  ASSUME IInv, NEW s \in Sessions, NEW k \in Kinds, IsOpen(s, k),
         NEW lines \in Seq(Line), \A x \in ToSet(lines) : x.id = path[<<s, k>>],
         files' = [files EXCEPT ![<<k, path[<<s, k>>]>>] = Flushed(s, k, @, lines)]
  PROVE  /\ files' \in [Kinds \X Devices -> Seq(Line \union {Hole})]
         /\ \A j \in Kinds, e \in Devices :
              \A x \in ToSet(files'[<<j, e>>]) \ {Hole} : x.id = e
<1> DEFINE d == path[<<s, k>>]
           file == files[<<k, d>>]
           new == Flushed(s, k, file, lines)
<1>1. /\ TypeOK /\ NotMisfiled
      /\ <<s, k>> \in Streams
  BY DEF IInv, Streams
<1>2. d \in Devices
  BY <1>1 DEF TypeOK, IsOpen
<1>3. <<k, d>> \in Kinds \X Devices
  BY <1>2
<1>4. file \in Seq(Line \union {Hole}) /\ pos[<<s, k>>] \in Nat
  BY <1>1, <1>3 DEF TypeOK
<1> HIDE DEF file, d
<1>5. /\ new \in Seq(Line \union {Hole})
      /\ ToSet(new) \subseteq ToSet(file) \union ToSet(lines) \union {Hole}
  BY <1>4, Written DEF Flushed
<1> HIDE DEF new
<1>6. files' = [files EXCEPT ![<<k, d>>] = new]
  BY DEF d, file, new
<1>7. \A x \in ToSet(new) \ {Hole} : x.id = d
  BY <1>1, <1>2, <1>5 DEF NotMisfiled, d, file
<1>8. files' \in [Kinds \X Devices -> Seq(Line \union {Hole})]
  BY <1>1, <1>5, <1>6 DEF TypeOK
<1>9. ASSUME NEW j \in Kinds, NEW e \in Devices
      PROVE  \A x \in ToSet(files'[<<j, e>>]) \ {Hole} : x.id = e
  <2>1. CASE <<j, e>> = <<k, d>>
    <3>1. files'[<<j, e>>] = new /\ e = d
      BY <1>1, <1>3, <1>6, <2>1 DEF TypeOK
    <3>2. QED BY <1>7, <3>1
  <2>2. CASE <<j, e>> # <<k, d>>
    <3>1. files'[<<j, e>>] = files[<<j, e>>]
      BY <1>1, <1>6, <2>2 DEF TypeOK
    <3>2. QED BY <1>1, <3>1 DEF NotMisfiled
  <2>3. QED BY <2>1, <2>2
<1>10. QED BY <1>8, <1>9

(* Closing a stream, open or not. *)
LEMMA Closing ==
  ASSUME IInv, NEW s \in Sessions, NEW k \in Kinds, CloseStream(s, k)
  PROVE  /\ path' \in [Streams -> Devices \union {NoID}]
         /\ fail' \in [Streams -> BOOLEAN]
         /\ buf' \in [Streams -> Seq(Line)]
         /\ pos' \in [Streams -> Nat]
         /\ files' \in [Kinds \X Devices -> Seq(Line \union {Hole})]
         /\ \A t \in Streams : t # <<s, k>> =>
              path'[t] = path[t] /\ fail'[t] = fail[t] /\ buf'[t] = buf[t]
         /\ path'[<<s, k>>] = NoID /\ buf'[<<s, k>>] = <<>>
         /\ NotMisfiled'
<1>1. /\ TypeOK /\ NotMisfiled
      /\ <<s, k>> \in Streams
  BY DEF IInv, Streams
<1>2. ~IsOpen(s, k) => buf[<<s, k>>] = <<>>
  BY DEF IInv, SessionInv
<1>3. CASE ~IsOpen(s, k)
  <2>1. /\ fail' = [fail EXCEPT ![<<s, k>>] = TRUE]
        /\ UNCHANGED <<path, buf, pos, files>>
    BY <1>3 DEF CloseStream
  <2>2. NotMisfiled'
    BY <1>1, <2>1 DEF NotMisfiled
  <2>3. QED BY <1>1, <1>2, <1>3, <2>1, <2>2 DEF TypeOK, IsOpen
<1>4. CASE IsOpen(s, k)
  <2>1. /\ files' = [files EXCEPT ![<<k, path[<<s, k>>]>>] = Flushed(s, k, @, buf[<<s, k>>])]
        /\ buf' = [buf EXCEPT ![<<s, k>>] = <<>>]
        /\ pos' = [pos EXCEPT ![<<s, k>>] = 0]
        /\ path' = [path EXCEPT ![<<s, k>>] = NoID]
        /\ fail' = fail
    BY <1>4 DEF CloseStream
  <2>2. buf[<<s, k>>] \in Seq(Line) /\ \A x \in ToSet(buf[<<s, k>>]) : x.id = path[<<s, k>>]
    BY <1>1 DEF TypeOK, NotMisfiled
  <2>3. /\ files' \in [Kinds \X Devices -> Seq(Line \union {Hole})]
        /\ \A j \in Kinds, e \in Devices :
             \A x \in ToSet(files'[<<j, e>>]) \ {Hole} : x.id = e
    BY <1>4, <2>1, <2>2, Flushing
  <2>4. /\ \A t \in Streams : t # <<s, k>> => path'[t] = path[t] /\ buf'[t] = buf[t]
        /\ path'[<<s, k>>] = NoID /\ buf'[<<s, k>>] = <<>>
    BY <1>1, <2>1 DEF TypeOK
  <2>5. \A t \in Streams : \A x \in ToSet(buf'[t]) : x.id = path'[t]
    BY <1>1, <2>4, EmptyHasNone DEF NotMisfiled
  <2>6. <<>> \in Seq(Line)
    OBVIOUS
  <2>7. /\ path' \in [Streams -> Devices \union {NoID}]
        /\ buf' \in [Streams -> Seq(Line)]
        /\ pos' \in [Streams -> Nat]
    BY <1>1, <2>1, <2>6 DEF TypeOK
  <2>8. NotMisfiled'
    BY <2>3, <2>5 DEF NotMisfiled
  <2>9. QED BY <1>1, <2>1, <2>3, <2>4, <2>7, <2>8 DEF TypeOK
<1>5. QED BY <1>3, <1>4

-----------------------------------------------------------------------------
(* One session's handlers leave the others' login state and streams alone. *)
LEMMA OthersKeep ==
  ASSUME IInv, ~exited, NEW s \in Sessions, NEW r \in Sessions, r # s,
         spc'[r] = spc[r], m_deviceLogin'[r] = m_deviceLogin[r], m_deviceID'[r] = m_deviceID[r],
         \A k \in Kinds : /\ path'[<<r, k>>] = path[<<r, k>>]
                         /\ fail'[<<r, k>>] = fail[<<r, k>>]
                         /\ buf'[<<r, k>>] = buf[<<r, k>>]
  PROVE  SessionInv(r)'
<1>1. SessionInv(r)
  BY DEF IInv
<1>2. \A k \in Kinds : IsOpen(r, k)' <=> IsOpen(r, k)
  BY DEF IsOpen
<1>3. IsOpen(r, "gnss")' <=> IsOpen(r, "gnss")
  BY <1>2 DEF Kinds
<1>4. IsOpen(r, "imu")' <=> IsOpen(r, "imu")
  BY <1>2 DEF Kinds
<1>5. \A k \in Kinds :
        /\ ~IsOpen(r, k)' => buf'[<<r, k>>] = <<>>
        /\ IsOpen(r, k)' /\ ~fail'[<<r, k>>] /\ ~(k = "imu" /\ spc'[r] = "open_imu")
             => path'[<<r, k>>] = m_deviceID'[r]
  BY <1>1, <1>2 DEF SessionInv
<1>6. spc'[r] = "idle" /\ ~exited' => \A k \in Kinds : m_deviceLogin'[r] <=> IsOpen(r, k)'
  BY <1>1, <1>2 DEF SessionInv
<1>7. QED BY <1>1, <1>3, <1>4, <1>5, <1>6 DEF SessionInv

(* A session's streams are its own. *)
LEMMA OwnStreams ==
  ASSUME NEW s \in Sessions
  PROVE  /\ <<s, "gnss">> \in Streams /\ <<s, "imu">> \in Streams
         /\ \A k \in Kinds : k = "gnss" \/ k = "imu"
         /\ <<s, "gnss">> # <<s, "imu">>
         /\ \A r \in Sessions, k \in Kinds :
              /\ <<r, k>> \in Streams
              /\ r # s => <<r, k>> # <<s, "gnss">> /\ <<r, k>> # <<s, "imu">>
BY DEF Streams, Kinds

(* Half a login: the id is the new one, and the first stream may have its file. *)
LEMMA LoginKeeps ==
  ASSUME IInv, ~exited, NEW s \in Sessions, NEW d \in Devices, Login(s, d)
  PROVE  IInv'
<1>1. TypeOK /\ SessionInv(s)
  BY DEF IInv
<1>2. /\ spc[s] = "idle" /\ spc' = [spc EXCEPT ![s] = "open_imu"]
      /\ m_deviceID' = [m_deviceID EXCEPT ![s] = d]
      /\ OpenStream(s, "gnss", d)
      /\ UNCHANGED <<conn, m_deviceLogin, sent, exited>>
  BY DEF Login, Goto
<1>3. /\ path' \in [Streams -> Devices \union {NoID}]
      /\ fail' \in [Streams -> BOOLEAN]
      /\ files' \in [Kinds \X Devices -> Seq(Line \union {Hole})]
      /\ acked' \in [Kinds \X Devices -> Seq(Message)]
      /\ spoilt' \in [Kinds \X Devices -> BOOLEAN]
      /\ UNCHANGED <<buf, pos>>
      /\ \A t \in Streams : t # <<s, "gnss">> => path'[t] = path[t] /\ fail'[t] = fail[t]
      /\ IsOpen(s, "gnss") => path'[<<s, "gnss">>] = path[<<s, "gnss">>] /\ fail'[<<s, "gnss">>]
      /\ ~fail'[<<s, "gnss">>] => path'[<<s, "gnss">>] = d
      /\ NotMisfiled'
  BY <1>2, Opening DEF Kinds
<1>4. TypeOK'
  BY <1>1, <1>2, <1>3 DEF TypeOK
<1>5. /\ spc'[s] = "open_imu" /\ m_deviceID'[s] = d
      /\ m_deviceLogin'[s] = m_deviceLogin[s]
      /\ path'[<<s, "imu">>] = path[<<s, "imu">>] /\ fail'[<<s, "imu">>] = fail[<<s, "imu">>]
  BY <1>1, <1>2, <1>3, OwnStreams DEF TypeOK
<1>6. SessionInv(s)'
  <2>1. /\ m_deviceLogin[s] <=> IsOpen(s, "gnss")
        /\ m_deviceLogin[s] <=> IsOpen(s, "imu")
    BY <1>1, <1>2 DEF SessionInv, Kinds
  <2>2. /\ IsOpen(s, "imu")' <=> IsOpen(s, "imu")
        /\ IsOpen(s, "gnss") => IsOpen(s, "gnss")'
    BY <1>3, <1>5 DEF IsOpen
  <2>3. \A k \in Kinds : ~IsOpen(s, k)' => buf'[<<s, k>>] = <<>>
    BY <1>1, <1>3, <2>2, OwnStreams DEF SessionInv
  <2>4. IsOpen(s, "gnss")' /\ ~fail'[<<s, "gnss">>] => path'[<<s, "gnss">>] = m_deviceID'[s]
    BY <1>3, <1>5
  <2>5. QED BY <1>5, <2>1, <2>2, <2>3, <2>4, OwnStreams DEF SessionInv
<1>7. ASSUME NEW r \in Sessions, r # s PROVE SessionInv(r)'
  BY <1>1, <1>2, <1>3, <1>7, OthersKeep, OwnStreams DEF TypeOK
<1>8. QED BY <1>3, <1>4, <1>6, <1>7 DEF IInv

(* The login is complete, or the process ends. *)
LEMMA LoginImuKeeps ==
  ASSUME IInv, ~exited, NEW s \in Sessions, LoginImu(s)
  PROVE  IInv'
<1>1. TypeOK /\ SessionInv(s)
  BY DEF IInv
<1> DEFINE d == m_deviceID[s]
<1>2. /\ spc[s] = "open_imu" /\ spc' = [spc EXCEPT ![s] = "idle"]
      /\ OpenStream(s, "imu", d)
      /\ exited' = ~(IsOpen(s, "gnss") /\ IsOpen(s, "imu")')
      /\ m_deviceLogin' = [m_deviceLogin EXCEPT ![s] = @ \/ ~exited']
      /\ UNCHANGED <<conn, m_deviceID, sent>>
  BY DEF LoginImu, Goto
<1>3. d \in Devices
  BY <1>1, <1>2 DEF SessionInv
<1> HIDE DEF d
<1>4. /\ path' \in [Streams -> Devices \union {NoID}]
      /\ fail' \in [Streams -> BOOLEAN]
      /\ files' \in [Kinds \X Devices -> Seq(Line \union {Hole})]
      /\ acked' \in [Kinds \X Devices -> Seq(Message)]
      /\ spoilt' \in [Kinds \X Devices -> BOOLEAN]
      /\ UNCHANGED <<buf, pos>>
      /\ \A t \in Streams : t # <<s, "imu">> => path'[t] = path[t] /\ fail'[t] = fail[t]
      /\ IsOpen(s, "imu") => path'[<<s, "imu">>] = path[<<s, "imu">>] /\ fail'[<<s, "imu">>]
      /\ ~fail'[<<s, "imu">>] => path'[<<s, "imu">>] = d
      /\ NotMisfiled'
  BY <1>2, <1>3, Opening DEF Kinds
<1>5. exited' \in BOOLEAN /\ m_deviceLogin' \in [Sessions -> BOOLEAN]
  BY <1>1, <1>2 DEF TypeOK
<1>6. TypeOK'
  BY <1>1, <1>2, <1>4, <1>5 DEF TypeOK
<1>7. /\ spc'[s] = "idle" /\ m_deviceID'[s] = d
      /\ m_deviceLogin'[s] <=> m_deviceLogin[s] \/ ~exited'
      /\ path'[<<s, "gnss">>] = path[<<s, "gnss">>] /\ fail'[<<s, "gnss">>] = fail[<<s, "gnss">>]
  BY <1>1, <1>2, <1>4, OwnStreams DEF TypeOK, d
<1>8. SessionInv(s)'
  <2>1. IsOpen(s, "gnss")' <=> IsOpen(s, "gnss")
    BY <1>7 DEF IsOpen
  <2>2. IsOpen(s, "imu") => IsOpen(s, "imu")'
    BY <1>4 DEF IsOpen
  <2>3. ~exited' => m_deviceLogin'[s] /\ IsOpen(s, "gnss")' /\ IsOpen(s, "imu")'
    BY <1>2, <1>7, <2>1
  <2>4. \A k \in Kinds : ~IsOpen(s, k)' => buf'[<<s, k>>] = <<>>
    BY <1>1, <1>4, <2>1, <2>2, OwnStreams DEF SessionInv
  <2>5. IsOpen(s, "gnss")' /\ ~fail'[<<s, "gnss">>] => path'[<<s, "gnss">>] = m_deviceID'[s]
    BY <1>1, <1>7, <2>1 DEF SessionInv, Kinds, d
  <2>6. IsOpen(s, "imu")' /\ ~fail'[<<s, "imu">>] => path'[<<s, "imu">>] = m_deviceID'[s]
    BY <1>4, <1>7
  <2>7. QED BY <1>3, <1>7, <2>3, <2>4, <2>5, <2>6, OwnStreams DEF SessionInv
<1>9. ASSUME NEW r \in Sessions, r # s PROVE SessionInv(r)'
  BY <1>1, <1>2, <1>4, <1>9, OthersKeep, OwnStreams DEF TypeOK
<1>10. QED BY <1>4, <1>6, <1>8, <1>9 DEF IInv

(* What Output does with message m. *)
OutputOf(s, k, m) ==
  /\ acked' = [acked EXCEPT ![<<k, m_deviceID[s]>>] = Append(@, m)]
  /\ LET lines == Append(buf[<<s, k>>], LineOf(m))
     IN  \/ fail[<<s, k>>] /\ UNCHANGED <<buf, pos, files>>
         \/ /\ ~fail[<<s, k>>]
            /\ buf' = [buf EXCEPT ![<<s, k>>] = lines]
            /\ UNCHANGED <<pos, files>>
         \/ /\ ~fail[<<s, k>>]
            /\ files' = [files EXCEPT ![<<k, path[<<s, k>>]>>] = Flushed(s, k, @, lines)]
            /\ pos' = [pos EXCEPT ![<<s, k>>] = @ + Len(lines)]
            /\ buf' = [buf EXCEPT ![<<s, k>>] = <<>>]

(* It is a message of the login that the session has. *)
LEMMA OutputsMessage ==
  ASSUME IInv, ~exited, NEW s \in Sessions, NEW k \in Kinds, Output(s, k)
  PROVE  /\ m_deviceID[s] \in Devices /\ IsOpen(s, k)
         /\ sent + 1 \in 1 .. MaxData
         /\ \E m \in Message : m.id = m_deviceID[s] /\ OutputOf(s, k, m)
<1>1. TypeOK /\ SessionInv(s) /\ spc[s] = "idle" /\ m_deviceLogin[s] /\ sent < MaxData
  BY DEF IInv, Output
<1>2. m_deviceID[s] \in Devices /\ IsOpen(s, k)
  BY <1>1 DEF SessionInv
<1>3. sent + 1 \in 1 .. MaxData
  BY <1>1, DeviceAssumption DEF TypeOK
<1>4. PICK tagged \in BOOLEAN : OutputOf(s, k, NewMessage(s, tagged))
  BY DEF Output, OutputOf
<1>5. NewMessage(s, tagged) \in Message /\ NewMessage(s, tagged).id = m_deviceID[s]
  BY <1>2, <1>3 DEF Message, NewMessage
<1>6. QED BY <1>2, <1>3, <1>4, <1>5

(* A line goes into a stream that has the file of the session's id, or     *)
(* into a failed one, where it is lost.                                    *)
LEMMA OutputKeeps ==
  ASSUME IInv, ~exited, NEW s \in Sessions, NEW k \in Kinds, Output(s, k)
  PROVE  IInv'
<1>0. PICK m \in Message : m.id = m_deviceID[s] /\ OutputOf(s, k, m)
  BY OutputsMessage
<1> DEFINE new == LineOf(m)
           lines == Append(buf[<<s, k>>], new)
<1>1. TypeOK /\ NotMisfiled /\ SessionInv(s) /\ <<s, k>> \in Streams
  BY OwnStreams DEF IInv
<1>2. /\ spc[s] = "idle" /\ m_deviceLogin[s] /\ sent < MaxData /\ sent' = sent + 1
      /\ acked' = [acked EXCEPT ![<<k, m_deviceID[s]>>] = Append(@, m)]
      /\ UNCHANGED <<conn, spc, m_deviceLogin, m_deviceID, path, fail, spoilt, exited>>
  BY <1>0 DEF Output, OutputOf, info
<1>3. m_deviceID[s] \in Devices /\ IsOpen(s, k)
  BY OutputsMessage
<1>4. sent + 1 \in 1 .. MaxData
  BY OutputsMessage
<1>5. new \in Line /\ new.id = m_deviceID[s]
  BY <1>0, LineOfMessage
<1> HIDE DEF new
<1>6. acked' \in [Kinds \X Devices -> Seq(Message)]
  <2>1. <<k, m_deviceID[s]>> \in Kinds \X Devices
    BY <1>3
  <2>2. Append(acked[<<k, m_deviceID[s]>>], m) \in Seq(Message)
    BY <1>1, <2>1, Appended DEF TypeOK
  <2>3. QED BY <1>1, <1>2, <2>2 DEF TypeOK
<1>7. /\ lines \in Seq(Line)
      /\ \A y \in ToSet(lines) : y \in ToSet(buf[<<s, k>>]) \/ y = new
  <2>1. buf[<<s, k>>] \in Seq(Line)
    BY <1>1 DEF TypeOK
  <2>2. QED BY <1>5, <2>1, Appended
<1> HIDE DEF lines
<1>8. SUFFICES /\ files' \in [Kinds \X Devices -> Seq(Line \union {Hole})]
               /\ buf' \in [Streams -> Seq(Line)]
               /\ pos' \in [Streams -> Nat]
               /\ NotMisfiled'
               /\ \A t \in Streams : t # <<s, k>> => buf'[t] = buf[t]
  <2>1. sent' \in 0 .. MaxData
    BY <1>2, <1>4
  <2>2. TypeOK'
    BY <1>1, <1>2, <1>6, <1>8, <2>1 DEF TypeOK
  <2>3. \A r \in Sessions, j \in Kinds : IsOpen(r, j)' <=> IsOpen(r, j)
    BY <1>2 DEF IsOpen
  <2>4. ASSUME NEW j \in Kinds, ~IsOpen(s, j)' PROVE buf'[<<s, j>>] = <<>>
    <3>1. <<s, j>> # <<s, k>> /\ <<s, j>> \in Streams
      BY <1>3, <2>3, <2>4, OwnStreams
    <3>2. QED BY <1>1, <1>8, <2>3, <2>4, <3>1 DEF SessionInv
  <2>5. SessionInv(s)'
    BY <1>1, <1>2, <2>3, <2>4, OwnStreams DEF SessionInv
  <2>6. ASSUME NEW r \in Sessions, r # s PROVE SessionInv(r)'
    <3>1. \A j \in Kinds : <<r, j>> \in Streams /\ <<r, j>> # <<s, k>>
      BY <2>6, OwnStreams
    <3>2. QED BY <1>2, <1>8, <2>6, <3>1, OthersKeep
  <2>7. QED BY <1>8, <2>2, <2>5, <2>6 DEF IInv
<1>9. CASE fail[<<s, k>>]
  <2>1. UNCHANGED <<buf, pos, files>>
    BY <1>0, <1>9 DEF OutputOf
  <2>2. QED BY <1>1, <1>2, <2>1 DEF TypeOK, NotMisfiled
<1>10. ASSUME ~fail[<<s, k>>] PROVE \A x \in ToSet(lines) : x.id = path[<<s, k>>]
  <2>1. path[<<s, k>>] = m_deviceID[s]
    BY <1>1, <1>2, <1>3, <1>10 DEF SessionInv
  <2>2. QED BY <1>1, <1>5, <1>7, <2>1 DEF NotMisfiled
<1>11. CASE ~fail[<<s, k>>] /\ files' = files /\ pos' = pos /\ buf' = [buf EXCEPT ![<<s, k>>] = lines]
  <2>1. buf' \in [Streams -> Seq(Line)]
    BY <1>1, <1>7, <1>11 DEF TypeOK
  <2>2. \A t \in Streams : IF t = <<s, k>> THEN buf'[t] = lines ELSE buf'[t] = buf[t]
    BY <1>1, <1>11 DEF TypeOK
  <2>3. NotMisfiled'
    BY <1>1, <1>2, <1>10, <1>11, <2>2 DEF NotMisfiled
  <2>4. QED BY <1>1, <1>11, <2>1, <2>2, <2>3 DEF TypeOK
<1>12. CASE /\ ~fail[<<s, k>>]
            /\ files' = [files EXCEPT ![<<k, path[<<s, k>>]>>] = Flushed(s, k, @, lines)]
            /\ pos' = [pos EXCEPT ![<<s, k>>] = @ + Len(lines)]
            /\ buf' = [buf EXCEPT ![<<s, k>>] = <<>>]
  <2>1. /\ files' \in [Kinds \X Devices -> Seq(Line \union {Hole})]
        /\ \A j \in Kinds, e \in Devices :
             \A x \in ToSet(files'[<<j, e>>]) \ {Hole} : x.id = e
    BY <1>3, <1>7, <1>10, <1>12, Flushing
  <2>2. \A t \in Streams : IF t = <<s, k>> THEN buf'[t] = <<>> ELSE buf'[t] = buf[t]
    BY <1>1, <1>12 DEF TypeOK
  <2>3. \A t \in Streams : \A x \in ToSet(buf'[t]) : x.id = path'[t]
    BY <1>1, <1>2, <2>2, EmptyHasNone DEF NotMisfiled
  <2>4. Len(lines) \in Nat /\ <<>> \in Seq(Line)
    BY <1>7
  <2>5. buf' \in [Streams -> Seq(Line)]
    BY <1>1, <1>12, <2>4 DEF TypeOK
  <2>6. pos' \in [Streams -> Nat]
    BY <1>1, <1>12, <2>4 DEF TypeOK
  <2>7. QED BY <2>1, <2>2, <2>3, <2>5, <2>6 DEF NotMisfiled
<1>13. QED BY <1>0, <1>9, <1>11, <1>12 DEF OutputOf, lines, new

(* The first stream of a session that logs out or ends is closed. *)
LEMMA CloseGnssKeeps ==
  ASSUME IInv, ~exited, NEW s \in Sessions, Logout(s) \/ End(s)
  PROVE  IInv'
<1>1. TypeOK /\ SessionInv(s)
  BY DEF IInv
<1>2. /\ spc[s] = "idle" /\ spc' = [spc EXCEPT ![s] = "close_imu"]
      /\ CloseStream(s, "gnss")
      /\ UNCHANGED <<m_deviceLogin, m_deviceID, acked, spoilt, sent, exited>>
      /\ conn' \in [Sessions -> {"open", "timed_out", "ended"}]
  BY <1>1 DEF Logout, End, Goto, info, TypeOK
<1>3. /\ path' \in [Streams -> Devices \union {NoID}]
      /\ fail' \in [Streams -> BOOLEAN]
      /\ buf' \in [Streams -> Seq(Line)]
      /\ pos' \in [Streams -> Nat]
      /\ files' \in [Kinds \X Devices -> Seq(Line \union {Hole})]
      /\ \A t \in Streams : t # <<s, "gnss">> =>
           path'[t] = path[t] /\ fail'[t] = fail[t] /\ buf'[t] = buf[t]
      /\ path'[<<s, "gnss">>] = NoID /\ buf'[<<s, "gnss">>] = <<>>
      /\ NotMisfiled'
  BY <1>2, Closing DEF Kinds
<1>4. TypeOK'
  BY <1>1, <1>2, <1>3 DEF TypeOK
<1>5. /\ spc'[s] = "close_imu" /\ m_deviceID'[s] = m_deviceID[s]
      /\ path'[<<s, "imu">>] = path[<<s, "imu">>] /\ fail'[<<s, "imu">>] = fail[<<s, "imu">>]
      /\ buf'[<<s, "imu">>] = buf[<<s, "imu">>]
  BY <1>1, <1>2, <1>3, OwnStreams DEF TypeOK
<1>6. SessionInv(s)'
  <2>1. ~IsOpen(s, "gnss")' /\ (IsOpen(s, "imu")' <=> IsOpen(s, "imu"))
    BY <1>3, <1>5 DEF IsOpen
  <2>2. /\ ~IsOpen(s, "imu")' => buf'[<<s, "imu">>] = <<>>
        /\ IsOpen(s, "imu")' /\ ~fail'[<<s, "imu">>] => path'[<<s, "imu">>] = m_deviceID'[s]
    BY <1>1, <1>2, <1>5, <2>1 DEF SessionInv, Kinds
  <2>3. QED BY <1>3, <1>5, <2>1, <2>2, OwnStreams DEF SessionInv
<1>7. ASSUME NEW r \in Sessions, r # s PROVE SessionInv(r)'
  BY <1>1, <1>2, <1>3, <1>7, OthersKeep, OwnStreams DEF TypeOK
<1>8. QED BY <1>3, <1>4, <1>6, <1>7 DEF IInv

(* The second stream is closed, and the session is not logged in. *)
LEMMA CloseImuKeeps ==
  ASSUME IInv, ~exited, NEW s \in Sessions, CloseImu(s)
  PROVE  IInv'
<1>1. TypeOK /\ SessionInv(s)
  BY DEF IInv
<1>2. /\ spc[s] = "close_imu" /\ spc' = [spc EXCEPT ![s] = "idle"]
      /\ CloseStream(s, "imu")
      /\ m_deviceID' = [m_deviceID EXCEPT ![s] = NoID]
      /\ m_deviceLogin' = [m_deviceLogin EXCEPT ![s] = FALSE]
      /\ UNCHANGED <<conn, acked, spoilt, sent, exited>>
  BY DEF CloseImu, Goto
<1>3. /\ path' \in [Streams -> Devices \union {NoID}]
      /\ fail' \in [Streams -> BOOLEAN]
      /\ buf' \in [Streams -> Seq(Line)]
      /\ pos' \in [Streams -> Nat]
      /\ files' \in [Kinds \X Devices -> Seq(Line \union {Hole})]
      /\ \A t \in Streams : t # <<s, "imu">> =>
           path'[t] = path[t] /\ fail'[t] = fail[t] /\ buf'[t] = buf[t]
      /\ path'[<<s, "imu">>] = NoID /\ buf'[<<s, "imu">>] = <<>>
      /\ NotMisfiled'
  BY <1>2, Closing DEF Kinds
<1>4. TypeOK'
  BY <1>1, <1>2, <1>3 DEF TypeOK
<1>5. /\ spc'[s] = "idle" /\ ~m_deviceLogin'[s]
      /\ path'[<<s, "gnss">>] = path[<<s, "gnss">>]
      /\ buf'[<<s, "gnss">>] = buf[<<s, "gnss">>]
  BY <1>1, <1>2, <1>3, OwnStreams DEF TypeOK
<1>6. SessionInv(s)'
  <2>1. ~IsOpen(s, "gnss") /\ buf[<<s, "gnss">>] = <<>>
    BY <1>1, <1>2 DEF SessionInv, Kinds
  <2>2. \A k \in Kinds : ~IsOpen(s, k)' /\ buf'[<<s, k>>] = <<>>
    BY <1>3, <1>5, <2>1, OwnStreams DEF IsOpen
  <2>3. QED BY <1>5, <2>2 DEF SessionInv
<1>7. ASSUME NEW r \in Sessions, r # s PROVE SessionInv(r)'
  BY <1>1, <1>2, <1>3, <1>7, OthersKeep, OwnStreams DEF TypeOK
<1>8. QED BY <1>3, <1>4, <1>6, <1>7 DEF IInv

(* Steps that change nothing of all this. *)
LEMMA QuietKeeps ==
  ASSUME IInv, conn' \in [Sessions -> {"open", "timed_out", "ended"}],
         UNCHANGED <<spc, info, streams, disk, sent, exited>>
  PROVE  IInv'
BY DEF IInv, TypeOK, NotMisfiled, SessionInv, IsOpen, info, streams, disk

(* The invariant holds at the start ... *)
LEMMA InitIInv ==
  ASSUME Init
  PROVE  IInv
<1>1. <<>> \in Seq(Line) /\ <<>> \in Seq(Line \union {Hole}) /\ <<>> \in Seq(Message)
  OBVIOUS
<1>2. TypeOK
  <2>1. /\ buf \in [Streams -> Seq(Line)]
        /\ files \in [Kinds \X Devices -> Seq(Line \union {Hole})]
        /\ acked \in [Kinds \X Devices -> Seq(Message)]
    BY <1>1 DEF Init
  <2>2. sent \in 0 .. MaxData /\ pos \in [Streams -> Nat]
    BY DeviceAssumption DEF Init
  <2>3. QED BY <2>1, <2>2 DEF Init, TypeOK
<1>3. NotMisfiled
  BY EmptyHasNone DEF Init, NotMisfiled
<1>4. \A s \in Sessions, k \in Kinds : ~IsOpen(s, k) /\ buf[<<s, k>>] = <<>>
  BY OwnStreams DEF Init, IsOpen
<1>5. \A s \in Sessions : SessionInv(s)
  BY <1>4 DEF Init, SessionInv
<1>6. QED BY <1>2, <1>3, <1>5 DEF IInv

(* ... and every step keeps it. *)
LEMMA NextIInv ==
  ASSUME IInv, [Next]_vars
  PROVE  IInv'
<1>1. CASE UNCHANGED vars
  BY <1>1, QuietKeeps DEF vars, IInv, TypeOK
<1>2. ASSUME ~exited, NEW s \in Sessions, TimeOut(s) PROVE IInv'
  BY <1>2, QuietKeeps DEF TimeOut, IInv, TypeOK
<1>3. ASSUME ~exited, NEW s \in Sessions, Session(s) PROVE IInv'
  <2>1. ASSUME NEW d \in Devices, Login(s, d) PROVE IInv'
    BY <1>3, <2>1, LoginKeeps
  <2>2. ASSUME NEW k \in Kinds, Output(s, k) PROVE IInv'
    BY <1>3, <2>2, OutputKeeps
  <2>3. CASE LoginImu(s)
    BY <1>3, <2>3, LoginImuKeeps
  <2>4. CASE Logout(s) \/ End(s)
    BY <1>3, <2>4, CloseGnssKeeps
  <2>5. CASE CloseImu(s)
    BY <1>3, <2>5, CloseImuKeeps
  <2>6. QED BY <1>2, <1>3, <2>1, <2>2, <2>3, <2>4, <2>5 DEF Session
<1>4. QED BY <1>1, <1>3 DEF Next

-----------------------------------------------------------------------------
(* Types are kept by every order of the sessions' messages and ends. *)
THEOREM TypeCorrect == Spec => []TypeOK
<1>1. IInv => TypeOK
  BY DEF IInv
<1>2. QED BY <1>1, InitIInv, NextIInv, PTL DEF Spec

(* Between messages the login flag says what the streams are               *)
(* (Navigation.h:27-44).                                                   *)
THEOREM LoginAlwaysMatchesStreams == Spec => []LoginMatchesStreams
<1>1. IInv => LoginMatchesStreams
  BY DEF IInv, SessionInv, LoginMatchesStreams
<1>2. QED BY <1>1, InitIInv, NextIInv, PTL DEF Spec

(* No line comes into another device's file, logins without a logout in    *)
(* between included (Navigation.h:29-30, 50).                              *)
THEOREM NothingIsMisfiled == Spec => []NotMisfiled
<1>1. IInv => NotMisfiled
  BY DEF IInv
<1>2. QED BY <1>1, InitIInv, NextIInv, PTL DEF Spec

-----------------------------------------------------------------------------
(* What is in the files.  The file of a login that has it to itself, and   *)
(* that was not repeated, has one writer at most, which stands at its end; *)
(* with what the writer has buffered it has a line for each message that   *)
(* was acknowledged.                                                       *)
FileInv(k, d) ==
  ~spoilt[<<k, d>>] =>
    /\ \A s, r \in Sessions : path[<<s, k>>] = d /\ path[<<r, k>>] = d => s = r
    /\ \A s \in Sessions :
         path[<<s, k>>] = d =>
           /\ pos[<<s, k>>] = Len(files[<<k, d>>])
           /\ files[<<k, d>>] \o buf[<<s, k>>] = LinesOf(acked[<<k, d>>])
    /\ (\A s \in Sessions : path[<<s, k>>] # d) => files[<<k, d>>] = LinesOf(acked[<<k, d>>])

(* A closed stream stands at 0.  A session whose stream has failed loses   *)
(* its lines; the file they are acknowledged for is noted.                 *)
FailInv(s, k) ==
  /\ ~IsOpen(s, k) => pos[<<s, k>>] = 0
  /\ IsOpen(s, k) /\ fail[<<s, k>>] /\ spc[s] # "close_imu" /\ ~(k = "imu" /\ spc[s] = "open_imu")
       => spoilt[<<k, m_deviceID[s]>>]

RecordInv ==
  /\ \A k \in Kinds, d \in Devices : FileInv(k, d)
  /\ \A s \in Sessions, k \in Kinds : FailInv(s, k)

(* Lines written at the end of a file are appended to it. *)
LEMMA WrittenAtEnd ==
  ASSUME NEW S, NEW file \in Seq(S \union {Hole}), NEW lines \in Seq(S)
  PROVE  WrittenAt(file, Len(file), lines) = file \o lines
<1> DEFINE T == S \union {Hole}
           n == Len(file) + Len(lines)
           F == WrittenAt(file, Len(file), lines)
<1>1. /\ lines \in Seq(T) /\ Len(file) \in Nat /\ Len(lines) \in Nat
  BY SeqMonotonic
<1>2. /\ file \o lines \in Seq(T) /\ Len(file \o lines) = n
      /\ \A i \in 1 .. n :
           (file \o lines)[i] = IF i <= Len(file) THEN file[i] ELSE lines[i - Len(file)]
  BY <1>1, ConcatProperties
<1>3. F \in Seq(T)
  BY <1>1, Written
<1>4. Max({Len(file), n}) = n
  <2>1. n \in {Len(file), n} /\ \A y \in {Len(file), n} : n >= y
    BY <1>1
  <2>2. /\ Max({Len(file), n}) \in {Len(file), n}
        /\ \A y \in {Len(file), n} : Max({Len(file), n}) >= y
    BY <2>1 DEF Max
  <2>3. QED BY <1>1, <2>2
<1>5. F = [i \in 1 .. n |-> IF i \in Len(file) + 1 .. n THEN lines[i - Len(file)]
                            ELSE IF i <= Len(file) THEN file[i] ELSE Hole]
  BY <1>4 DEF WrittenAt
<1> HIDE DEF F
<1>6. n \in Nat
  BY <1>1
<1> HIDE DEF n
<1>7. DOMAIN F = 1 .. n
  BY <1>5
<1>8. Len(F) = n
  BY <1>3, <1>6, <1>7, LenProperties
<1>9. ASSUME NEW i \in 1 .. n PROVE F[i] = (file \o lines)[i]
  BY <1>1, <1>2, <1>5, <1>6, <1>9
<1>10. F = file \o lines
  BY <1>2, <1>3, <1>8, <1>9, SeqEqual
<1>11. QED BY <1>10 DEF F

(* So it is with what a stream at the end of its file writes. *)
LEMMA FlushedAtEnd ==
  ASSUME NEW S, NEW file \in Seq(S \union {Hole}), NEW lines \in Seq(S),
         NEW s, NEW k, pos[<<s, k>>] = Len(file)
  PROVE  Flushed(s, k, file, lines) = file \o lines
<1>1. CASE lines = <<>>
  BY <1>1, ConcatEmptySeq DEF Flushed
<1>2. CASE lines # <<>>
  BY <1>2, WrittenAtEnd DEF Flushed
<1>3. QED BY <1>1, <1>2

(* One more line, acknowledged and buffered. *)
LEMMA AppendBehind ==
  ASSUME NEW S, NEW q \in Seq(S), NEW r \in Seq(S), NEW x \in S
  PROVE  q \o Append(r, x) = Append(q \o r, x)
<1>1. /\ <<x>> \in Seq(S)
      /\ Append(r, x) = r \o <<x>>
  OBVIOUS
<1>2. q \o r \in Seq(S)
  BY ConcatProperties
<1>3. Append(q \o r, x) = (q \o r) \o <<x>>
  BY <1>2
<1>4. QED BY <1>1, <1>3, ConcatAssociative

(* RecordInv is what is wanted. *)
LEMMA RecordIsKept ==
  ASSUME IInv, RecordInv
  PROVE  LinePerAck
<1> SUFFICES ASSUME NEW k \in Kinds, NEW d \in Devices, ~spoilt[<<k, d>>]
             PROVE  files[<<k, d>>] \o Pending(k, d) = LinesOf(acked[<<k, d>>])
  BY DEF LinePerAck
<1> DEFINE writers == {s \in Sessions : path[<<s, k>>] = d}
<1>1. FileInv(k, d) /\ files[<<k, d>>] \in Seq(Line \union {Hole})
  BY DEF RecordInv, IInv, TypeOK
<1>2. CASE writers = {}
  <2>1. Pending(k, d) = <<>>
    BY <1>2 DEF Pending
  <2>2. files[<<k, d>>] = LinesOf(acked[<<k, d>>])
    BY <1>1, <1>2 DEF FileInv
  <2>3. QED BY <1>1, <2>1, <2>2, ConcatEmptySeq
<1>3. CASE writers # {}
  <2>1. (CHOOSE s \in writers : TRUE) \in writers
    BY <1>3
  <2>2. PICK s \in writers : Pending(k, d) = buf[<<s, k>>]
    BY <1>3, <2>1 DEF Pending
  <2>3. QED BY <1>1, <2>2 DEF FileInv
<1>4. QED BY <1>2, <1>3

(* A file, and its writers, that a step leaves alone. *)
LEMMA FileFrame ==
  ASSUME NEW j \in Kinds, NEW e \in Devices, FileInv(j, e),
         spoilt[<<j, e>>] => spoilt'[<<j, e>>],
         files'[<<j, e>>] = files[<<j, e>>], acked'[<<j, e>>] = acked[<<j, e>>],
         \A r \in Sessions : path'[<<r, j>>] = e <=> path[<<r, j>>] = e,
         \A r \in Sessions : path[<<r, j>>] = e =>
           pos'[<<r, j>>] = pos[<<r, j>>] /\ buf'[<<r, j>>] = buf[<<r, j>>]
  PROVE  FileInv(j, e)'
BY DEF FileInv

(* A stream that a step leaves alone. *)
LEMMA FailFrame ==
  ASSUME NEW r \in Sessions, NEW j \in Kinds, FailInv(r, j),
         path'[<<r, j>>] = path[<<r, j>>], pos'[<<r, j>>] = pos[<<r, j>>],
         fail'[<<r, j>>] = fail[<<r, j>>],
         spc'[r] = spc[r], m_deviceID'[r] = m_deviceID[r],
         spoilt[<<j, m_deviceID[r]>>] => spoilt'[<<j, m_deviceID[r]>>]
  PROVE  FailInv(r, j)'
<1>1. IsOpen(r, j)' <=> IsOpen(r, j)
  BY DEF IsOpen
<1>2. QED BY <1>1 DEF FailInv

(* Opening a stream keeps the files right, or notes that one is not. *)
LEMMA OpeningKeepsRecord ==
  ASSUME IInv, RecordInv, NEW s \in Sessions, NEW k \in Kinds, NEW d \in Devices,
         OpenStream(s, k, d), m_deviceID'[s] = d,
         \A r \in Sessions : r # s => m_deviceID'[r] = m_deviceID[r] /\ spc'[r] = spc[r]
  PROVE  /\ \A j \in Kinds, e \in Devices : FileInv(j, e)'
         /\ \A r \in Sessions, j \in Kinds : r # s => FailInv(r, j)'
         /\ FailInv(s, k)'
         /\ \A j \in Kinds, e \in Devices : j # k => spoilt'[<<j, e>>] = spoilt[<<j, e>>]
<1>1. /\ TypeOK /\ <<k, d>> \in Kinds \X Devices /\ <<s, k>> \in Streams
      /\ \A r \in Sessions, j \in Kinds : <<r, j>> \in Streams
      /\ \A r \in Sessions, j \in Kinds : r # s \/ j # k => <<r, j>> # <<s, k>>
      /\ \A j \in Kinds, e \in Devices : j # k \/ e # d => <<j, e>> # <<k, d>>
      /\ \A j \in Kinds, e \in Devices : FileInv(j, e)
      /\ \A r \in Sessions, j \in Kinds : FailInv(r, j)
  BY DEF IInv, Streams, RecordInv
<1>2. CASE IsOpen(s, k)
  <2>1. /\ fail' = [fail EXCEPT ![<<s, k>>] = TRUE]
        /\ spoilt' = [spoilt EXCEPT ![<<k, d>>] = TRUE]
        /\ UNCHANGED <<path, buf, pos, files, acked>>
    BY <1>2 DEF OpenStream
  <2>2. /\ \A r \in Sessions, j \in Kinds : r # s => fail'[<<r, j>>] = fail[<<r, j>>]
        /\ \A j \in Kinds, e \in Devices : spoilt[<<j, e>>] => spoilt'[<<j, e>>]
        /\ spoilt'[<<k, d>>]
        /\ \A j \in Kinds, e \in Devices : j # k => spoilt'[<<j, e>>] = spoilt[<<j, e>>]
    BY <1>1, <2>1 DEF TypeOK
  <2>3. \A j \in Kinds, e \in Devices : FileInv(j, e)'
    BY <1>1, <2>1, <2>2, FileFrame
  <2>4. FailInv(s, k)'
    BY <1>2, <2>1, <2>2 DEF FailInv, IsOpen
  <2>5. ASSUME NEW r \in Sessions, NEW j \in Kinds, r # s PROVE FailInv(r, j)'
    <3>1. spoilt[<<j, m_deviceID[r]>>] => spoilt'[<<j, m_deviceID[r]>>]
      BY <1>1, <2>1 DEF TypeOK
    <3>2. QED BY <1>1, <2>1, <2>2, <2>5, <3>1, FailFrame
  <2>6. QED BY <2>2, <2>3, <2>4, <2>5
<1>3. CASE ~IsOpen(s, k) /\ path' # path
  <2>1. /\ path' = [path EXCEPT ![<<s, k>>] = d]
        /\ fail' = [fail EXCEPT ![<<s, k>>] = FALSE]
        /\ files' = [files EXCEPT ![<<k, d>>] = <<>>]
        /\ acked' = [acked EXCEPT ![<<k, d>>] = <<>>]
        /\ spoilt' = [spoilt EXCEPT ![<<k, d>>] = OtherUses(s, k, d)]
        /\ UNCHANGED <<buf, pos>>
    BY <1>3 DEF OpenStream, streams
  <2>2. /\ pos[<<s, k>>] = 0 /\ buf[<<s, k>>] = <<>> /\ path[<<s, k>>] = NoID
    BY <1>1, <1>3 DEF FailInv, IInv, SessionInv, IsOpen
  <2>3. /\ path'[<<s, k>>] = d /\ ~fail'[<<s, k>>]
        /\ \A r \in Sessions, j \in Kinds :
             r # s \/ j # k => path'[<<r, j>>] = path[<<r, j>>] /\ fail'[<<r, j>>] = fail[<<r, j>>]
        /\ files'[<<k, d>>] = <<>> /\ acked'[<<k, d>>] = <<>>
        /\ spoilt'[<<k, d>>] <=> OtherUses(s, k, d)
        /\ \A j \in Kinds, e \in Devices : j # k \/ e # d =>
             /\ files'[<<j, e>>] = files[<<j, e>>] /\ acked'[<<j, e>>] = acked[<<j, e>>]
             /\ spoilt'[<<j, e>>] = spoilt[<<j, e>>]
    BY <1>1, <2>1 DEF TypeOK
  <2>4. FileInv(k, d)'
    <3> SUFFICES ASSUME ~spoilt'[<<k, d>>]
                 PROVE  /\ \A r \in Sessions : path'[<<r, k>>] = d => r = s
                        /\ pos'[<<s, k>>] = Len(files'[<<k, d>>])
                        /\ files'[<<k, d>>] \o buf'[<<s, k>>] = LinesOf(acked'[<<k, d>>])
      BY <2>3 DEF FileInv
    <3>1. \A r \in Sessions : path'[<<r, k>>] = d => r = s
      BY <2>3 DEF OtherUses
    <3>2. <<>> \o <<>> = LinesOf(<<>>) /\ Len(<<>>) = 0
      BY EmptySeq, ConcatEmptySeq, NoLines
    <3>3. QED BY <2>1, <2>2, <2>3, <3>1, <3>2
  <2>5. ASSUME NEW j \in Kinds, NEW e \in Devices, j # k \/ e # d PROVE FileInv(j, e)'
    <3>1. \A r \in Sessions : path'[<<r, j>>] = e <=> path[<<r, j>>] = e
      BY <2>2, <2>3, <2>5, DeviceAssumption
    <3>2. /\ spoilt[<<j, e>>] => spoilt'[<<j, e>>]
          /\ files'[<<j, e>>] = files[<<j, e>>] /\ acked'[<<j, e>>] = acked[<<j, e>>]
      BY <2>3, <2>5
    <3>3. FileInv(j, e) /\ UNCHANGED <<buf, pos>>
      BY <1>1, <2>1
    <3>4. QED BY <3>1, <3>2, <3>3, FileFrame
  <2>6. FailInv(s, k)'
    BY <2>1, <2>3, DeviceAssumption DEF FailInv, IsOpen
  <2>7. ASSUME NEW r \in Sessions, NEW j \in Kinds, r # s PROVE FailInv(r, j)'
    <3>1. IsOpen(r, j)' <=> IsOpen(r, j)
      BY <2>3, <2>7 DEF IsOpen
    <3>2. spoilt[<<j, m_deviceID[r]>>] => spoilt'[<<j, m_deviceID[r]>>]
      <4>1. CASE j = k /\ m_deviceID[r] = d
        BY <2>3, <2>7, <4>1 DEF OtherUses
      <4>2. CASE ~(j = k /\ m_deviceID[r] = d)
        BY <1>1, <2>1, <4>2 DEF TypeOK
      <4>3. QED BY <4>1, <4>2
    <3>3. QED BY <1>1, <2>1, <2>3, <2>7, <3>1, <3>2, FailFrame, ZenonT(60)
  <2>8. QED BY <2>3, <2>4, <2>5, <2>6, <2>7
<1>4. CASE ~IsOpen(s, k) /\ path' = path
  <2>1. /\ fail' = [fail EXCEPT ![<<s, k>>] = TRUE]
        /\ UNCHANGED <<path, buf, pos, files, acked, spoilt>>
    <3>1. path[<<s, k>>] # d
      BY <1>4, DeviceAssumption DEF IsOpen
    <3>2. path' # [path EXCEPT ![<<s, k>>] = d]
      BY <1>1, <1>4, <3>1 DEF TypeOK
    <3>3. QED BY <1>4, <3>2 DEF OpenStream, disk
  <2>2. \A r \in Sessions, j \in Kinds : r # s => fail'[<<r, j>>] = fail[<<r, j>>]
    BY <1>1, <2>1 DEF TypeOK
  <2>3. \A j \in Kinds, e \in Devices : FileInv(j, e)'
    BY <1>1, <2>1, FileFrame
  <2>4. FailInv(s, k)'
    BY <1>1, <1>4, <2>1 DEF FailInv, IsOpen
  <2>5. \A r \in Sessions, j \in Kinds : r # s => FailInv(r, j)'
    BY <1>1, <2>1, <2>2, FailFrame
  <2>6. QED BY <2>1, <2>3, <2>4, <2>5
<1>5. QED BY <1>2, <1>3, <1>4

(* Closing a stream leaves the file complete. *)
LEMMA ClosingKeepsRecord ==
  ASSUME IInv, RecordInv, NEW s \in Sessions, NEW k \in Kinds, CloseStream(s, k),
         UNCHANGED <<acked, spoilt>>,
         \A r \in Sessions : r # s => m_deviceID'[r] = m_deviceID[r] /\ spc'[r] = spc[r]
  PROVE  /\ \A j \in Kinds, e \in Devices : FileInv(j, e)'
         /\ \A r \in Sessions, j \in Kinds : r # s => FailInv(r, j)'
         /\ pos'[<<s, k>>] = 0
         /\ \A j \in Kinds : j # k => pos'[<<s, j>>] = pos[<<s, j>>]
<1>1. /\ TypeOK /\ <<s, k>> \in Streams
      /\ \A r \in Sessions, j \in Kinds : <<r, j>> \in Streams
      /\ \A r \in Sessions, j \in Kinds : r # s \/ j # k => <<r, j>> # <<s, k>>
      /\ \A j \in Kinds, e \in Devices : FileInv(j, e)
      /\ \A r \in Sessions, j \in Kinds : FailInv(r, j)
  BY DEF IInv, Streams, RecordInv
<1>2. CASE ~IsOpen(s, k)
  <2>1. /\ fail' = [fail EXCEPT ![<<s, k>>] = TRUE]
        /\ UNCHANGED <<path, buf, pos, files>>
    BY <1>2 DEF CloseStream
  <2>2. \A r \in Sessions, j \in Kinds : r # s => fail'[<<r, j>>] = fail[<<r, j>>]
    BY <1>1, <2>1 DEF TypeOK
  <2>3. \A j \in Kinds, e \in Devices : FileInv(j, e)'
    BY <1>1, <2>1, FileFrame
  <2>4. \A r \in Sessions, j \in Kinds : r # s => FailInv(r, j)'
    BY <1>1, <2>1, <2>2, FailFrame
  <2>5. pos[<<s, k>>] = 0
    BY <1>1, <1>2 DEF FailInv
  <2>6. QED BY <2>1, <2>3, <2>4, <2>5
<1>3. CASE IsOpen(s, k)
  <2>0. PICK d \in Devices : d = path[<<s, k>>]
    BY <1>1, <1>3 DEF TypeOK, IsOpen
  <2>1. /\ files' = [files EXCEPT ![<<k, d>>] = Flushed(s, k, @, buf[<<s, k>>])]
        /\ buf' = [buf EXCEPT ![<<s, k>>] = <<>>]
        /\ pos' = [pos EXCEPT ![<<s, k>>] = 0]
        /\ path' = [path EXCEPT ![<<s, k>>] = NoID]
        /\ fail' = fail
    BY <1>3, <2>0 DEF CloseStream
  <2>2. <<k, d>> \in Kinds \X Devices
    OBVIOUS
  <2>3. \A j \in Kinds, e \in Devices : j # k \/ e # d => <<j, e>> # <<k, d>>
    OBVIOUS
  <2>4. /\ path'[<<s, k>>] = NoID /\ pos'[<<s, k>>] = 0
        /\ \A r \in Sessions, j \in Kinds : r # s \/ j # k =>
             /\ path'[<<r, j>>] = path[<<r, j>>] /\ pos'[<<r, j>>] = pos[<<r, j>>]
             /\ buf'[<<r, j>>] = buf[<<r, j>>]
    BY <1>1, <2>1 DEF TypeOK
  <2>5. /\ files'[<<k, d>>] = Flushed(s, k, files[<<k, d>>], buf[<<s, k>>])
        /\ \A j \in Kinds, e \in Devices : j # k \/ e # d => files'[<<j, e>>] = files[<<j, e>>]
    BY <1>1, <2>1, <2>2, <2>3 DEF TypeOK
  <2>6. files[<<k, d>>] \in Seq(Line \union {Hole}) /\ buf[<<s, k>>] \in Seq(Line)
    BY <1>1, <2>2 DEF TypeOK
  <2>7. FileInv(k, d)'
    <3> SUFFICES ASSUME ~spoilt[<<k, d>>]
                 PROVE  /\ \A r \in Sessions : path'[<<r, k>>] # d
                        /\ files'[<<k, d>>] = LinesOf(acked[<<k, d>>])
      BY DEF FileInv
    <3>1. \A r \in Sessions : path[<<r, k>>] = d => r = s
      BY <1>1, <2>0, ZenonT(60) DEF FileInv
    <3>2. \A r \in Sessions : path'[<<r, k>>] # d
      BY <2>4, <3>1, DeviceAssumption
    <3>3. /\ pos[<<s, k>>] = Len(files[<<k, d>>])
          /\ files[<<k, d>>] \o buf[<<s, k>>] = LinesOf(acked[<<k, d>>])
      BY <1>1, <2>0 DEF FileInv
    <3>4. Flushed(s, k, files[<<k, d>>], buf[<<s, k>>]) = files[<<k, d>>] \o buf[<<s, k>>]
      BY <2>6, <3>3, FlushedAtEnd
    <3>5. QED BY <2>5, <3>2, <3>3, <3>4
  <2>8. ASSUME NEW j \in Kinds, NEW e \in Devices, j # k \/ e # d PROVE FileInv(j, e)'
    <3>1. \A r \in Sessions : path'[<<r, j>>] = e <=> path[<<r, j>>] = e /\ (r # s \/ j # k)
      BY <2>4, <2>8, DeviceAssumption
    <3>2. \A r \in Sessions : path[<<r, j>>] = e => r # s \/ j # k
      BY <2>0, <2>8
    <3>3. FileInv(j, e) /\ files'[<<j, e>>] = files[<<j, e>>]
      BY <1>1, <2>5, <2>8
    <3>4. QED BY <2>4, <3>1, <3>2, <3>3, FileFrame
  <2>9. ASSUME NEW r \in Sessions, NEW j \in Kinds, r # s PROVE FailInv(r, j)'
    BY <1>1, <2>1, <2>4, <2>9, FailFrame
  <2>10. QED BY <2>4, <2>7, <2>8, <2>9
<1>4. QED BY <1>2, <1>3

(* The line for a message that a session has acknowledged is in the        *)
(* stream, or the file, of its login, unless that file is noted.           *)
LEMMA OutputKeepsRecord ==
  ASSUME IInv, RecordInv, ~exited, NEW s \in Sessions, NEW k \in Kinds, Output(s, k)
  PROVE  RecordInv'
<1>0. PICK m \in Message : OutputOf(s, k, m)
  BY OutputsMessage
<1>1. /\ TypeOK /\ SessionInv(s) /\ <<s, k>> \in Streams
      /\ \A r \in Sessions, j \in Kinds : <<r, j>> \in Streams
      /\ \A r \in Sessions, j \in Kinds : r # s \/ j # k => <<r, j>> # <<s, k>>
      /\ \A j \in Kinds, e \in Devices : FileInv(j, e)
      /\ \A r \in Sessions, j \in Kinds : FailInv(r, j)
  BY DEF IInv, Streams, RecordInv
<1>2. /\ spc[s] = "idle" /\ m_deviceLogin[s]
      /\ acked' = [acked EXCEPT ![<<k, m_deviceID[s]>>] = Append(@, m)]
      /\ UNCHANGED <<spc, m_deviceID, path, fail, spoilt>>
  BY <1>0 DEF Output, OutputOf, info
<1>3. m_deviceID[s] \in Devices /\ IsOpen(s, k)
  BY OutputsMessage
<1>4. PICK d \in Devices : d = m_deviceID[s]
  BY <1>3
<1>5. PICK new \in Line : new = LineOf(m)
  BY LineOfMessage
<1>6. /\ <<k, d>> \in Kinds \X Devices
      /\ \A j \in Kinds, e \in Devices : j # k \/ e # d => <<j, e>> # <<k, d>>
  OBVIOUS
<1>7. /\ acked'[<<k, d>>] = Append(acked[<<k, d>>], m)
      /\ \A j \in Kinds, e \in Devices : j # k \/ e # d => acked'[<<j, e>>] = acked[<<j, e>>]
  BY <1>1, <1>2, <1>4, <1>6 DEF TypeOK
<1>8. CASE fail[<<s, k>>]
  <2>1. UNCHANGED <<buf, pos, files>>
    BY <1>0, <1>8 DEF OutputOf
  <2>2. spoilt[<<k, d>>]
    BY <1>1, <1>2, <1>3, <1>4, <1>8 DEF FailInv
  <2>3. ASSUME NEW j \in Kinds, NEW e \in Devices PROVE FileInv(j, e)'
    <3>1. CASE j = k /\ e = d
      BY <1>2, <2>2, <3>1 DEF FileInv
    <3>2. CASE j # k \/ e # d
      BY <1>1, <1>2, <1>7, <2>1, <3>2, FileFrame
    <3>3. QED BY <3>1, <3>2
  <2>4. ASSUME NEW r \in Sessions, NEW j \in Kinds PROVE FailInv(r, j)'
    BY <1>1, <1>2, <2>1, FailFrame
  <2>5. QED BY <2>3, <2>4 DEF RecordInv
<1>9. CASE ~fail[<<s, k>>]
  <2> DEFINE lines == Append(buf[<<s, k>>], new)
  <2>1. path[<<s, k>>] = d
    BY <1>1, <1>2, <1>3, <1>4, <1>9 DEF SessionInv
  <2>2. /\ files[<<k, d>>] \in Seq(Line \union {Hole})
        /\ buf[<<s, k>>] \in Seq(Line)
        /\ pos[<<s, k>>] \in Nat
    BY <1>1, <1>6 DEF TypeOK
  <2>3. lines \in Seq(Line) /\ lines \in Seq(Line \union {Hole})
    <3>1. lines \in Seq(Line)
      BY <2>2, Appended
    <3>2. QED BY <3>1, SeqMonotonic
  <2>4. ~spoilt[<<k, d>>] =>
          /\ \A r \in Sessions : path[<<r, k>>] = d => r = s
          /\ pos[<<s, k>>] = Len(files[<<k, d>>])
          /\ files[<<k, d>>] \o buf[<<s, k>>] = LinesOf(acked[<<k, d>>])
    <3>1. FileInv(k, d)
      BY <1>1
    <3>2. QED BY <2>1, <3>1 DEF FileInv
  <2>5. ~spoilt[<<k, d>>] => files[<<k, d>>] \o lines = LinesOf(acked'[<<k, d>>])
    <3> DEFINE T == Line \union {Hole}
    <3>1. files[<<k, d>>] \in Seq(T) /\ buf[<<s, k>>] \in Seq(T) /\ new \in T
      BY <1>5, <2>2, SeqMonotonic
    <3> HIDE DEF lines, T
    <3>2. \A q \in Seq(T), r \in Seq(T), x \in T : q \o Append(r, x) = Append(q \o r, x)
      BY AppendBehind
    <3>3. files[<<k, d>>] \o Append(buf[<<s, k>>], new) = Append(files[<<k, d>>] \o buf[<<s, k>>], new)
      BY <3>1, <3>2
    <3>4. acked[<<k, d>>] \in Seq(Message)
      BY <1>1, <1>6 DEF TypeOK
    <3>5. LinesOf(acked'[<<k, d>>]) = Append(LinesOf(acked[<<k, d>>]), new)
      BY <1>5, <1>7, <3>4, OneMoreLine
    <3>6. QED BY <2>4, <3>3, <3>5 DEF lines
  <2> HIDE DEF lines
  <2>6. SUFFICES /\ \A j \in Kinds, e \in Devices : j # k \/ e # d => files'[<<j, e>>] = files[<<j, e>>]
                 /\ \A r \in Sessions, j \in Kinds : r # s \/ j # k =>
                      buf'[<<r, j>>] = buf[<<r, j>>] /\ pos'[<<r, j>>] = pos[<<r, j>>]
                 /\ ~spoilt[<<k, d>>] =>
                      /\ pos'[<<s, k>>] = Len(files'[<<k, d>>])
                      /\ files'[<<k, d>>] \o buf'[<<s, k>>] = LinesOf(acked'[<<k, d>>])
    <3>1. FileInv(k, d)'
      BY <1>2, <2>1, <2>4, <2>6 DEF FileInv
    <3>2. ASSUME NEW j \in Kinds, NEW e \in Devices, j # k \/ e # d PROVE FileInv(j, e)'
      <4>1. \A r \in Sessions : path[<<r, j>>] = e => r # s \/ j # k
        BY <2>1, <3>2
      <4>2. /\ FileInv(j, e) /\ UNCHANGED <<path, spoilt>>
            /\ acked'[<<j, e>>] = acked[<<j, e>>] /\ files'[<<j, e>>] = files[<<j, e>>]
        BY <1>1, <1>2, <1>7, <2>6, <3>2
      <4>3. QED BY <2>6, <4>1, <4>2, FileFrame
    <3>3. FailInv(s, k)'
      BY <1>2, <1>3, <1>9 DEF FailInv, IsOpen
    <3>4. ASSUME NEW r \in Sessions, NEW j \in Kinds, r # s \/ j # k PROVE FailInv(r, j)'
      BY <1>1, <1>2, <2>6, <3>4, FailFrame
    <3>5. QED BY <3>1, <3>2, <3>3, <3>4 DEF RecordInv
  <2>7. CASE files' = files /\ pos' = pos /\ buf' = [buf EXCEPT ![<<s, k>>] = lines]
    <3>1. /\ buf'[<<s, k>>] = lines
          /\ \A r \in Sessions, j \in Kinds : r # s \/ j # k => buf'[<<r, j>>] = buf[<<r, j>>]
      BY <1>1, <2>7 DEF TypeOK
    <3>2. QED BY <2>4, <2>5, <2>7, <3>1
  <2>8. CASE /\ files' = [files EXCEPT ![<<k, d>>] = Flushed(s, k, @, lines)]
             /\ pos' = [pos EXCEPT ![<<s, k>>] = @ + Len(lines)]
             /\ buf' = [buf EXCEPT ![<<s, k>>] = <<>>]
    <3>1. /\ buf'[<<s, k>>] = <<>> /\ pos'[<<s, k>>] = pos[<<s, k>>] + Len(lines)
          /\ \A r \in Sessions, j \in Kinds : r # s \/ j # k =>
               buf'[<<r, j>>] = buf[<<r, j>>] /\ pos'[<<r, j>>] = pos[<<r, j>>]
      BY <1>1, <2>8 DEF TypeOK
    <3>2. /\ files'[<<k, d>>] = Flushed(s, k, files[<<k, d>>], lines)
          /\ \A j \in Kinds, e \in Devices : j # k \/ e # d => files'[<<j, e>>] = files[<<j, e>>]
      BY <1>1, <1>6, <2>8 DEF TypeOK
    <3>3. ASSUME ~spoilt[<<k, d>>]
          PROVE  /\ pos'[<<s, k>>] = Len(files'[<<k, d>>])
                 /\ files'[<<k, d>>] \o buf'[<<s, k>>] = LinesOf(acked'[<<k, d>>])
      <4>1. pos[<<s, k>>] = Len(files[<<k, d>>])
        BY <2>4, <3>3
      <4>2. files'[<<k, d>>] = files[<<k, d>>] \o lines
        BY <2>2, <2>3, <3>2, <4>1, FlushedAtEnd
      <4>3. /\ files[<<k, d>>] \o lines \in Seq(Line \union {Hole})
            /\ Len(files[<<k, d>>] \o lines) = Len(files[<<k, d>>]) + Len(lines)
        BY <2>2, <2>3, ConcatProperties
      <4>4. (files[<<k, d>>] \o lines) \o <<>> = files[<<k, d>>] \o lines
        BY <4>3, ConcatEmptySeq
      <4>5. QED BY <2>5, <3>1, <3>3, <4>1, <4>2, <4>3, <4>4
    <3>4. QED BY <3>1, <3>2, <3>3
  <2>9. QED BY <1>0, <1>5, <1>9, <2>1, <2>7, <2>8 DEF OutputOf, lines
<1>10. QED BY <1>8, <1>9

(* The first half of a login: the gnss stream. *)
LEMMA LoginKeepsRecord ==
  ASSUME IInv, RecordInv, NEW s \in Sessions, NEW d \in Devices, Login(s, d)
  PROVE  RecordInv'
<1>1. /\ OpenStream(s, "gnss", d) /\ m_deviceID'[s] = d /\ spc'[s] = "open_imu"
      /\ \A r \in Sessions : r # s => m_deviceID'[r] = m_deviceID[r] /\ spc'[r] = spc[r]
  BY DEF IInv, TypeOK, Login, Goto
<1>2. "gnss" \in Kinds /\ \A k \in Kinds : k = "gnss" \/ k = "imu"
  BY DEF Kinds
<1>3. /\ \A j \in Kinds, e \in Devices : FileInv(j, e)'
      /\ \A r \in Sessions, j \in Kinds : r # s => FailInv(r, j)'
      /\ FailInv(s, "gnss")'
  BY <1>1, <1>2, OpeningKeepsRecord
<1>4. FailInv(s, "imu")'
  <2>1. <<s, "imu">> # <<s, "gnss">> /\ <<s, "imu">> \in Streams
    BY DEF Streams, Kinds
  <2>2. path'[<<s, "imu">>] = path[<<s, "imu">>] /\ pos' = pos
    BY <1>1, <2>1 DEF OpenStream, IInv, TypeOK, streams
  <2>3. FailInv(s, "imu")
    BY DEF RecordInv, Kinds
  <2>4. QED BY <1>1, <2>2, <2>3 DEF FailInv, IsOpen
<1>5. QED BY <1>2, <1>3, <1>4 DEF RecordInv

(* The second half: the imu stream.  The gnss stream stays as it is. *)
LEMMA LoginImuKeepsRecord ==
  ASSUME IInv, RecordInv, NEW s \in Sessions, LoginImu(s)
  PROVE  RecordInv'
<1>1. /\ spc[s] = "open_imu" /\ spc'[s] = "idle" /\ m_deviceID' = m_deviceID
      /\ \A r \in Sessions : r # s => m_deviceID'[r] = m_deviceID[r] /\ spc'[r] = spc[r]
  BY DEF IInv, TypeOK, LoginImu, Goto
<1>2. PICK d \in Devices : d = m_deviceID[s]
  BY <1>1 DEF IInv, SessionInv
<1>3. OpenStream(s, "imu", d) /\ m_deviceID'[s] = d
  BY <1>1, <1>2 DEF LoginImu
<1>4. "imu" \in Kinds /\ "gnss" \in Kinds /\ "gnss" # "imu"
      /\ \A k \in Kinds : k = "gnss" \/ k = "imu"
  BY DEF Kinds
<1>5. /\ \A j \in Kinds, e \in Devices : FileInv(j, e)'
      /\ \A r \in Sessions, j \in Kinds : r # s => FailInv(r, j)'
      /\ FailInv(s, "imu")'
      /\ \A j \in Kinds, e \in Devices : j # "imu" => spoilt'[<<j, e>>] = spoilt[<<j, e>>]
  BY <1>1, <1>3, <1>4, OpeningKeepsRecord
<1>6. FailInv(s, "gnss")'
  <2>1. <<s, "imu">> # <<s, "gnss">> /\ <<s, "gnss">> \in Streams
    BY DEF Streams, Kinds
  <2>2. /\ path'[<<s, "gnss">>] = path[<<s, "gnss">>]
        /\ fail'[<<s, "gnss">>] = fail[<<s, "gnss">>] /\ pos' = pos
    BY <1>3, <2>1 DEF OpenStream, IInv, TypeOK, streams
  <2>3. spoilt'[<<"gnss", d>>] = spoilt[<<"gnss", d>>]
    BY <1>4, <1>5
  <2>4. FailInv(s, "gnss")
    BY <1>4 DEF RecordInv
  <2>5. QED BY <1>1, <1>2, <1>3, <1>4, <2>2, <2>3, <2>4 DEF FailInv, IsOpen
<1>7. QED BY <1>4, <1>5, <1>6 DEF RecordInv

(* Logout and the end of a connection: the gnss stream ... *)
LEMMA CloseGnssKeepsRecord ==
  ASSUME IInv, RecordInv, NEW s \in Sessions, Logout(s) \/ End(s)
  PROVE  RecordInv'
<1>1. /\ CloseStream(s, "gnss") /\ spc'[s] = "close_imu" /\ UNCHANGED <<acked, spoilt>>
      /\ \A r \in Sessions : r # s => m_deviceID'[r] = m_deviceID[r] /\ spc'[r] = spc[r]
  BY DEF IInv, TypeOK, Logout, End, Goto, info
<1>2. "gnss" \in Kinds /\ "imu" \in Kinds /\ "imu" # "gnss"
      /\ \A k \in Kinds : k = "gnss" \/ k = "imu"
  BY DEF Kinds
<1>3. /\ \A j \in Kinds, e \in Devices : FileInv(j, e)'
      /\ \A r \in Sessions, j \in Kinds : r # s => FailInv(r, j)'
      /\ pos'[<<s, "gnss">>] = 0 /\ pos'[<<s, "imu">>] = pos[<<s, "imu">>]
  BY <1>1, <1>2, ClosingKeepsRecord
<1>4. FailInv(s, "gnss")'
  BY <1>1, <1>3 DEF FailInv
<1>5. FailInv(s, "imu")'
  <2>1. <<s, "imu">> # <<s, "gnss">> /\ <<s, "imu">> \in Streams
    BY DEF Streams, Kinds
  <2>2. path'[<<s, "imu">>] = path[<<s, "imu">>]
    BY <1>1, <2>1 DEF CloseStream, IInv, TypeOK
  <2>3. FailInv(s, "imu")
    BY <1>2 DEF RecordInv
  <2>4. QED BY <1>1, <1>3, <2>2, <2>3 DEF FailInv, IsOpen
<1>6. QED BY <1>2, <1>3, <1>4, <1>5 DEF RecordInv

(* ... then the imu stream, after which both stand at 0. *)
LEMMA CloseImuKeepsRecord ==
  ASSUME IInv, RecordInv, NEW s \in Sessions, CloseImu(s)
  PROVE  RecordInv'
<1>1. /\ CloseStream(s, "imu") /\ spc[s] = "close_imu" /\ UNCHANGED <<acked, spoilt>>
      /\ \A r \in Sessions : r # s => m_deviceID'[r] = m_deviceID[r] /\ spc'[r] = spc[r]
  BY DEF IInv, TypeOK, CloseImu, Goto
<1>2. "gnss" \in Kinds /\ "imu" \in Kinds /\ "imu" # "gnss"
      /\ \A k \in Kinds : k = "gnss" \/ k = "imu"
  BY DEF Kinds
<1>3. /\ \A j \in Kinds, e \in Devices : FileInv(j, e)'
      /\ \A r \in Sessions, j \in Kinds : r # s => FailInv(r, j)'
      /\ pos'[<<s, "imu">>] = 0 /\ pos'[<<s, "gnss">>] = pos[<<s, "gnss">>]
  BY <1>1, <1>2, ClosingKeepsRecord
<1>4. pos[<<s, "gnss">>] = 0 /\ ~IsOpen(s, "gnss")
  BY <1>1, <1>2 DEF IInv, SessionInv, RecordInv, FailInv
<1>5. ~IsOpen(s, "imu")' /\ ~IsOpen(s, "gnss")'
  <2>1. /\ <<s, "imu">> # <<s, "gnss">>
        /\ <<s, "imu">> \in Streams /\ <<s, "gnss">> \in Streams
    BY DEF Streams, Kinds
  <2>2. path'[<<s, "imu">>] = NoID /\ path'[<<s, "gnss">>] = path[<<s, "gnss">>]
    BY <1>1, <2>1 DEF CloseStream, IsOpen, IInv, TypeOK
  <2>3. QED BY <1>4, <2>2 DEF IsOpen
<1>6. FailInv(s, "imu")' /\ FailInv(s, "gnss")'
  BY <1>3, <1>4, <1>5 DEF FailInv
<1>7. QED BY <1>2, <1>3, <1>6 DEF RecordInv

(* Steps that touch neither ids, streams nor files. *)
LEMMA QuietKeepsRecord ==
  ASSUME RecordInv, UNCHANGED <<spc, info, streams, disk>>
  PROVE  RecordInv'
<1>1. /\ UNCHANGED <<spc, m_deviceID, path, fail, buf, pos, files, acked, spoilt>>
      /\ \A j \in Kinds, e \in Devices : FileInv(j, e)
      /\ \A r \in Sessions, j \in Kinds : FailInv(r, j)
  BY DEF RecordInv, info, streams, disk
<1>2. \A j \in Kinds, e \in Devices : FileInv(j, e)'
  BY <1>1, FileFrame
<1>3. \A r \in Sessions, j \in Kinds : FailInv(r, j)'
  BY <1>1, FailFrame
<1>4. QED BY <1>2, <1>3 DEF RecordInv

LEMMA InitRecord == Init => RecordInv
<1> SUFFICES ASSUME Init PROVE RecordInv
  OBVIOUS
<1>1. \A s \in Sessions, k \in Kinds : <<s, k>> \in Streams
  BY DEF Streams
<1>2. ASSUME NEW k \in Kinds, NEW d \in Devices PROVE FileInv(k, d)
  <2>1. (\A s \in Sessions : path[<<s, k>>] # d) /\ files[<<k, d>>] = <<>> /\ acked[<<k, d>>] = <<>>
    BY <1>1, DeviceAssumption DEF Init
  <2>2. QED BY <2>1, NoLines DEF FileInv
<1>3. ASSUME NEW s \in Sessions, NEW k \in Kinds PROVE FailInv(s, k)
  BY <1>1 DEF Init, FailInv, IsOpen
<1>4. QED BY <1>2, <1>3 DEF RecordInv

LEMMA NextRecord ==
  ASSUME IInv, RecordInv, [Next]_vars
  PROVE  RecordInv'
<1>1. CASE UNCHANGED vars
  BY <1>1, QuietKeepsRecord DEF vars
<1>2. ASSUME ~exited, NEW s \in Sessions, Session(s) PROVE RecordInv'
  <2>1. ASSUME NEW d \in Devices, Login(s, d) PROVE RecordInv'
    BY <2>1, LoginKeepsRecord
  <2>2. ASSUME NEW k \in Kinds, Output(s, k) PROVE RecordInv'
    BY <1>2, <2>2, OutputKeepsRecord
  <2>3. CASE LoginImu(s)
    BY <2>3, LoginImuKeepsRecord
  <2>4. CASE Logout(s) \/ End(s)
    BY <2>4, CloseGnssKeepsRecord
  <2>5. CASE CloseImu(s)
    BY <2>5, CloseImuKeepsRecord
  <2>6. CASE TimeOut(s)
    BY <2>6, QuietKeepsRecord DEF TimeOut
  <2>7. QED BY <1>2, <2>1, <2>2, <2>3, <2>4, <2>5, <2>6 DEF Session
<1>3. QED BY <1>1, <1>2 DEF Next

(* The file of a login that has it to itself, with what is still buffered  *)
(* for it, has a line for each message acknowledged since it was opened,   *)
(* in order, wherever the stream was flushed: its data, or an empty line   *)
(* if they were not between the tags (Navigation.h:27-44, 50-75,           *)
(* Navigation.cpp:152-156, 166-170).                                       *)
THEOREM AlwaysLinePerAck == Spec => []LinePerAck
<1>1. IInv /\ RecordInv => LinePerAck
  BY RecordIsKept
<1>2. QED BY <1>1, InitIInv, NextIInv, InitRecord, NextRecord, PTL DEF Spec
=============================================================================
