----------------------------- MODULE BufferProofs -----------------------------
(***************************************************************************)
(* Framing, for any number of values of a byte, any set of messages and    *)
(* any number of messages.                                                 *)
(***************************************************************************)
EXTENDS Buffer, SequenceTheorems, TLAPS

(***************************************************************************)
(* Numbers and their digits.                                               *)
(***************************************************************************)
LEMMA Division ==
  ASSUME NEW b \in Nat \ {0}, NEW n \in Nat
  PROVE  /\ n = (b * (n \div b)) + (n % b)
         /\ n \div b \in Nat /\ n % b \in 0 .. b - 1
OBVIOUS

LEMMA Monotone ==
  ASSUME NEW b \in Nat, NEW x \in Nat, NEW y \in Nat, x <= y
  PROVE  b * x <= b * y
OBVIOUS

LEMMA Distribute ==
  ASSUME NEW a \in Nat, NEW b \in Nat, NEW c \in Nat
  PROVE  /\ a * (b + c) = (a * b) + (a * c)
         /\ a * (b * c) = (a * b) * c
         /\ a * b = b * a /\ a * b \in Nat
OBVIOUS

(* Quotient and remainder are unique. *)
LEMMA Quotient ==
  ASSUME NEW b \in Nat \ {0}, NEW q \in Nat, NEW r \in 0 .. b - 1
  PROVE  ((b * q) + r) \div b = q
<1> DEFINE n == (b * q) + r
           k == n \div b
           s == n % b
<1>1. n \in Nat /\ b * q \in Nat
  OBVIOUS
<1>2. n = (b * k) + s /\ k \in Nat /\ s \in 0 .. b - 1
  BY <1>1, Division
<1>3. n = (b * q) + r /\ k = ((b * q) + r) \div b
  OBVIOUS
<1> HIDE DEF n, k, s
<1>4. CASE k + 1 <= q
  <2>1. b * (k + 1) <= b * q
    BY <1>2, <1>4, Monotone
  <2>2. b * (k + 1) = (b * k) + b
    BY <1>2
  <2>3. b * k \in Nat /\ b * q \in Nat
    BY <1>1, <1>2
  <2>4. QED BY <1>2, <1>3, <2>1, <2>2, <2>3
<1>5. CASE q + 1 <= k
  <2>1. b * (q + 1) <= b * k
    BY <1>2, <1>5, Monotone
  <2>2. b * (q + 1) = (b * q) + b
    OBVIOUS
  <2>3. b * k \in Nat /\ b * q \in Nat
    BY <1>1, <1>2
  <2>4. QED BY <1>2, <1>3, <2>1, <2>2, <2>3
<1>6. k = q
  BY <1>2, <1>3, <1>4, <1>5
<1>7. QED BY <1>3, <1>6

(* Dividing by one number and then by another. *)
LEMMA DivideTwice ==
  ASSUME NEW a \in Nat \ {0}, NEW b \in Nat \ {0}, NEW n \in Nat
  PROVE  n \div (a * b) = (n \div a) \div b
<1> DEFINE q == n \div a
           r == n % a
           t == q \div b
           s == q % b
           u == (a * s) + r
<1>1. n = (a * q) + r /\ q \in Nat /\ r \in 0 .. a - 1
  BY Division
<1>2. q = (b * t) + s /\ t \in Nat /\ s \in 0 .. b - 1
  BY <1>1, Division
<1>3. u = (a * s) + r
  OBVIOUS
<1>4. t = (n \div a) \div b
  OBVIOUS
<1> HIDE DEF q, r, t, s, u
<1>5. a * b \in Nat \ {0}
  OBVIOUS
<1>6. n = ((a * b) * t) + u
  <2>1. a * q = (a * (b * t)) + (a * s)
    BY <1>2
  <2>2. a * (b * t) = (a * b) * t
    BY <1>2
  <2>3. a * s \in Nat /\ (a * b) * t \in Nat
    BY <1>2
  <2>4. QED BY <1>1, <1>3, <2>1, <2>2, <2>3
<1>7. u \in 0 .. (a * b) - 1
  <2>1. a * s \in Nat /\ a * (s + 1) = (a * s) + a
    BY <1>2
  <2>2. a * (s + 1) <= a * b
    BY <1>2, Monotone
  <2>3. QED BY <1>1, <1>3, <1>5, <2>1, <2>2
<1>8. (((a * b) * t) + u) \div (a * b) = t
  BY <1>2, <1>5, <1>7, Quotient
<1>9. QED BY <1>4, <1>6, <1>8

(* A function on 1 .. k is a sequence of length k. *)
LEMMA FunIsSeq ==
  ASSUME NEW S, NEW k \in Nat, NEW f \in [1 .. k -> S]
  PROVE  f \in Seq(S) /\ Len(f) = k
<1>1. f \in Seq(S)
  BY SeqDef
<1>2. DOMAIN f = 1 .. k /\ DOMAIN f = 1 .. Len(f) /\ Len(f) \in Nat
  BY <1>1, LenProperties
<1>3. QED BY <1>1, <1>2

(* What the bytes of an int are worth. *)
LEMMA Weights ==
  /\ Base \in Nat \ {0, 1, 2, 3}
  /\ Weight[1] = 1 /\ Weight[2] = Base
  /\ Weight[3] = Base * Base /\ Weight[4] = (Base * Base) * Base
  /\ \A i \in 1 .. 4 : Weight[i] \in Nat \ {0}
  /\ Ints = Base * Weight[4] /\ Ints \in Nat
<1>1. Base \in Nat \ {0, 1, 2, 3}
  BY BufferAssumption
<1>2. /\ Weight[1] = 1 /\ Weight[2] = Base
      /\ Weight[3] = Base * Base /\ Weight[4] = (Base * Base) * Base
  BY <1>1 DEF Weight
<1>3. Base * Base \in Nat \ {0}
  BY <1>1
<1>4. (Base * Base) * Base \in Nat \ {0}
  BY <1>1, <1>3
<1>5. \A i \in 1 .. 4 : Weight[i] \in Nat \ {0}
  BY <1>1, <1>2, <1>3, <1>4
<1>6. QED BY <1>1, <1>2, <1>4, <1>5 DEF Ints

(* A number's header is its digits. *)
LEMMA Digits ==
  ASSUME NEW n \in Nat, n < Ints
  PROVE  /\ Header(n) \in Seq(Byte) /\ Len(Header(n)) = 4
         /\ n = Header(n)[1] + Weight[2] * Header(n)[2]
                  + Weight[3] * Header(n)[3] + Weight[4] * Header(n)[4]
<1>0. /\ Base \in Nat \ {0} /\ Base * Base \in Nat \ {0}
      /\ (Base * Base) * Base \in Nat \ {0}
  BY Weights
<1>1. PICK q1 \in Nat, d1 \in Byte :
        n = (Base * q1) + d1 /\ q1 = n \div Base /\ d1 = n % Base
  BY <1>0, Division DEF Byte
<1>2. PICK q2 \in Nat, d2 \in Byte :
        q1 = (Base * q2) + d2 /\ q2 = q1 \div Base /\ d2 = q1 % Base
  BY <1>0, Division DEF Byte
<1>3. PICK q3 \in Nat, d3 \in Byte :
        q2 = (Base * q3) + d3 /\ q3 = q2 \div Base /\ d3 = q2 % Base
  BY <1>0, Division DEF Byte
<1>4. d1 \in Nat /\ d2 \in Nat /\ d3 \in Nat
  BY <1>0 DEF Byte
<1>5. n \div Weight[1] = n /\ n \div Weight[2] = q1
  BY <1>1, Weights
<1>6. n \div Weight[3] = q2
  <2>1. n \div (Base * Base) = (n \div Base) \div Base
    BY <1>0, DivideTwice
  <2>2. QED BY <1>1, <1>2, <2>1, Weights
<1>7. n \div Weight[4] = q3
  <2>1. n \div ((Base * Base) * Base) = (n \div (Base * Base)) \div Base
    BY <1>0, DivideTwice
  <2>2. QED BY <1>3, <1>6, <2>1, Weights
<1>8. n = d1 + Base * d2 + (Base * Base) * d3 + ((Base * Base) * Base) * q3
  <2>1. Base * q1 = (Base * (Base * q2)) + (Base * d2)
    <3>1. Base * ((Base * q2) + d2) = (Base * (Base * q2)) + (Base * d2)
      BY <1>0, <1>4, Distribute
    <3>2. QED BY <1>2, <3>1
  <2>2. Base * (Base * q2) = (Base * Base) * q2
    BY <1>0, Distribute
  <2>3. (Base * Base) * q2 = ((Base * Base) * (Base * q3)) + ((Base * Base) * d3)
    <3>1. Base * q3 \in Nat
      BY <1>0
    <3>2. (Base * Base) * ((Base * q3) + d3)
            = ((Base * Base) * (Base * q3)) + ((Base * Base) * d3)
      BY <1>0, <1>4, <3>1, Distribute
    <3>3. QED BY <1>3, <3>2
  <2>4. (Base * Base) * (Base * q3) = ((Base * Base) * Base) * q3
    BY <1>0, Distribute
  <2>5. {Base * d2, (Base * Base) * d3, ((Base * Base) * Base) * q3} \subseteq Nat
    BY <1>0, <1>4, Distribute
  <2>6. QED BY <1>1, <1>4, <2>1, <2>2, <2>3, <2>4, <2>5
<1>9. q3 \in Byte /\ q3 % Base = q3
  <2>1. SUFFICES q3 < Base
    BY <1>0 DEF Byte
  <2>2. SUFFICES ASSUME Base <= q3 PROVE FALSE
    BY <1>0
  <2>3. ((Base * Base) * Base) * Base <= ((Base * Base) * Base) * q3
    BY <1>0, <2>2, Monotone
  <2>4. ((Base * Base) * Base) * q3 <= n
    <3>1. {Base * d2, (Base * Base) * d3, ((Base * Base) * Base) * q3} \subseteq Nat
      BY <1>0, <1>4, Distribute
    <3>2. QED BY <1>4, <1>8, <3>1
  <2>5. Ints = ((Base * Base) * Base) * Base
    BY <1>0, Weights, Distribute
  <2>6. ((Base * Base) * Base) * Base \in Nat /\ ((Base * Base) * Base) * q3 \in Nat
    BY <1>0, Distribute
  <2>7. QED BY <2>3, <2>4, <2>5, <2>6
<1>10. Header(n) = [i \in 1 .. 4 |-> (n \div Weight[i]) % Base]
  BY DEF Header
<1>11. \A i \in 1 .. 4 : Header(n)[i] = (n \div Weight[i]) % Base
  BY <1>10, Zenon
<1>12. /\ Header(n)[1] = n % Base /\ Header(n)[2] = q1 % Base
       /\ Header(n)[3] = q2 % Base /\ Header(n)[4] = q3 % Base
  <2>1. 1 \in 1 .. 4 /\ 2 \in 1 .. 4 /\ 3 \in 1 .. 4 /\ 4 \in 1 .. 4
    OBVIOUS
  <2>2. QED BY <1>5, <1>6, <1>7, <1>11, <2>1, Zenon
<1>13. /\ Header(n)[1] = d1 /\ Header(n)[2] = d2 /\ Header(n)[3] = d3 /\ Header(n)[4] = q3
  BY <1>1, <1>2, <1>3, <1>9, <1>12, Zenon
<1>14. Header(n) \in Seq(Byte) /\ Len(Header(n)) = 4
  <2>1. DOMAIN Header(n) = 1 .. 4 /\ Header(n) = [i \in 1 .. 4 |-> Header(n)[i]]
    BY <1>10
  <2>2. \A i \in 1 .. 4 : Header(n)[i] \in Byte
    BY <1>9, <1>13
  <2>3. Header(n) \in [1 .. 4 -> Byte]
    BY <2>1, <2>2
  <2>4. QED BY <2>3, FunIsSeq
<1>15. QED BY <1>8, <1>13, <1>14, Weights

(* The length field of a buffer that begins with a header is the length,   *)
(* whatever lies after the buffer.                                         *)
LEMMA LenOfHeader ==
  ASSUME NEW n \in Nat, n < Ints \div 2, NEW b, NEW junk, 4 <= Len(b), Len(b) \in Nat,
         \A i \in 1 .. 4 : b[i] = Header(n)[i]
  PROVE  LenField(b, junk) = n
<1>1. n < Ints
  BY Weights
<1>2. \A i \in 1 .. 4 : HeaderByte(b, junk, i) = Header(n)[i]
  BY DEF HeaderByte
<1>3. n = HeaderByte(b, junk, 1) + Weight[2] * HeaderByte(b, junk, 2)
            + Weight[3] * HeaderByte(b, junk, 3) + Weight[4] * HeaderByte(b, junk, 4)
  BY <1>1, <1>2, Digits
<1>4. QED BY <1>3 DEF LenField

LEMMA BelowTheTop ==
  ASSUME NEW w1 \in Nat, NEW w2 \in Nat, NEW w3 \in Nat, NEW w4 \in Nat,
         w1 >= 4, w2 >= 4 * w1, w3 >= 4 * w2, w4 >= 4 * w3,
         NEW d1 \in Nat, NEW d2 \in Nat, NEW d3 \in Nat, NEW d4 \in Nat,
         d1 <= w1 - 1, d2 <= w2 - w1, d3 <= w3 - w2, d4 <= w4 - w3,
         d2 = 0 \/ d3 = 0 \/ d4 = 0
  PROVE  d1 + d2 + d3 + d4 + 4 < w4
OBVIOUS

(* A digit below the base times its weight. *)
LEMMA DigitTimes ==
  ASSUME NEW b \in Nat \ {0}, NEW w \in Nat, NEW d \in 0 .. b - 1
  PROVE  /\ w * d \in Nat /\ w * d <= (w * b) - w
         /\ d = 0 => w * d = 0
<1>1. w * d <= w * (b - 1) /\ w * d \in Nat
  BY Monotone
<1>2. w * (b - 1) = (w * b) - w
  OBVIOUS
<1>3. QED BY <1>1, <1>2

(* Less than a header is no message: one of its missing bytes is the       *)
(* string's terminating 0, so the length is not one of -4 to -1.           *)
LEMMA ShortHasNone ==
  ASSUME NEW b \in Seq(Byte), Len(b) < 4, NEW junk \in Junk
  PROVE  ~HasMessage(b, junk)
<1> DEFINE h(i) == HeaderByte(b, junk, i)
           u == h(1) + Weight[2] * h(2) + Weight[3] * h(3) + Weight[4] * h(4)
<1>1. SUFFICES ASSUME b # <<>> PROVE ~HasMessage(b, junk)
  BY DEF HasMessage
<1>2. Len(b) \in Nat /\ 1 <= Len(b) /\ Len(b) <= 3
  <2>1. Len(b) \in Nat /\ Len(b) # 0
    BY <1>1, EmptySeq
  <2>2. QED BY <2>1
<1>3. /\ \A i \in 1 .. 4 : h(i) \in Byte
      /\ h(2) = 0 \/ h(3) = 0 \/ h(4) = 0
  <2>1. 0 \in Byte
    BY Weights DEF Byte
  <2>2. junk[3] \in Byte /\ junk[4] \in Byte
    BY DEF Junk
  <2>3. \A i \in 1 .. 4 : h(i) \in Byte
    <3>1. TAKE i \in 1 .. 4
    <3>2. CASE i <= Len(b)
      <4>1. h(i) = b[i] /\ i \in 1 .. Len(b)
        BY <1>2, <3>2 DEF HeaderByte
      <4>2. QED BY <4>1, ElementOfSeq
    <3>3. CASE i = Len(b) + 1
      BY <1>2, <2>1, <3>3 DEF HeaderByte
    <3>4. CASE i > Len(b) + 1
      BY <1>2, <2>2, <3>4 DEF HeaderByte
    <3>5. QED BY <1>2, <3>2, <3>3, <3>4
  <2>4. h(2) = 0 \/ h(3) = 0 \/ h(4) = 0
    BY <1>2 DEF HeaderByte
  <2>5. QED BY <2>3, <2>4
<1>4. u \in Nat /\ u + 4 < Ints
  <2>0. /\ Base \in Nat \ {0} /\ Base >= 4 /\ Weight[2] = Base
        /\ Weight[2] \in Nat /\ Weight[3] \in Nat /\ Weight[4] \in Nat /\ Ints \in Nat
        /\ Weight[3] = Weight[2] * Base /\ Weight[4] = Weight[3] * Base
        /\ Ints = Weight[4] * Base
    BY Weights, Distribute
  <2>1. /\ Weight[3] >= 4 * Weight[2]
        /\ Weight[4] >= 4 * Weight[3]
        /\ Ints >= 4 * Weight[4]
    <3>1. \A w \in Nat : w * Base >= 4 * w
      BY <2>0, Monotone
    <3>2. QED BY <2>0, <3>1
  <2>2. \A i \in 1 .. 4 : h(i) \in 0 .. Base - 1
    BY <1>3 DEF Byte
  <2> HIDE DEF h, u
  <2>3. h(1) \in Nat /\ h(1) <= Weight[2] - 1
    BY <2>0, <2>2
  <2> DEFINE digits(w, d) == /\ w * d \in Nat /\ w * d <= (w * Base) - w
                             /\ d = 0 => w * d = 0
  <2>4. \A w \in Nat, d \in 0 .. Base - 1 : digits(w, d)
    BY <2>0, DigitTimes
  <2>5. h(2) \in 0 .. Base - 1 /\ h(3) \in 0 .. Base - 1 /\ h(4) \in 0 .. Base - 1
    BY <2>2
  <2>6. digits(Weight[2], h(2)) /\ digits(Weight[3], h(3)) /\ digits(Weight[4], h(4))
    <3> HIDE DEF digits
    <3>1. QED BY <2>0, <2>4, <2>5, Zenon
  <2>7. PICK p2 \in Nat :
          p2 = Weight[2] * h(2) /\ p2 <= Weight[3] - Weight[2] /\ (h(2) = 0 => p2 = 0)
    BY <2>0, <2>6, Zenon
  <2>8. PICK p3 \in Nat :
          p3 = Weight[3] * h(3) /\ p3 <= Weight[4] - Weight[3] /\ (h(3) = 0 => p3 = 0)
    BY <2>0, <2>6, Zenon
  <2>9. PICK p4 \in Nat :
          p4 = Weight[4] * h(4) /\ p4 <= Ints - Weight[4] /\ (h(4) = 0 => p4 = 0)
    BY <2>0, <2>6, Zenon
  <2>10. h(1) + p2 + p3 + p4 + 4 < Ints
    <3>1. p2 = 0 \/ p3 = 0 \/ p4 = 0
      BY <1>3, <2>7, <2>8, <2>9, Zenon
    <3>2. /\ Weight[2] \in Nat /\ Weight[3] \in Nat /\ Weight[4] \in Nat /\ Ints \in Nat
          /\ Weight[2] >= 4
      BY <2>0
    <3>3. p2 <= Weight[3] - Weight[2] /\ p3 <= Weight[4] - Weight[3] /\ p4 <= Ints - Weight[4]
      BY <2>7, <2>8, <2>9
    <3>4. QED BY <2>1, <2>3, <3>1, <3>2, <3>3, BelowTheTop
  <2>11. u = h(1) + p2 + p3 + p4
    BY <2>7, <2>8, <2>9, Zenon DEF u
  <2>12. QED BY <2>3, <2>10, <2>11
<1>5. LenField(b, junk) = IF u < Ints \div 2 THEN u ELSE u - Ints
  BY DEF LenField
<1> HIDE DEF u
<1>6. QED BY <1>2, <1>4, <1>5, Weights DEF HasMessage

-----------------------------------------------------------------------------
(***************************************************************************)
(* A byte stream as frames.                                                *)
(***************************************************************************)

(* The stream is the frames of the messages after the first n; at[i] is    *)
(* where the i-th frame begins, counted from the first frame of all.       *)
Framed(stream, n, msgs, at) ==
  /\ at \in [1 .. Len(msgs) + 1 -> Nat]
  /\ \A i \in 1 .. Len(msgs) : at[i + 1] = at[i] + 4 + Len(msgs[i])
  /\ \A i, j \in 1 .. Len(msgs) + 1 : i <= j => at[i] <= at[j]
  /\ Len(stream) = at[Len(msgs) + 1] - at[n + 1]
  /\ \A i \in n + 1 .. Len(msgs) : \A j \in 1 .. 4 + Len(msgs[i]) :
       stream[(at[i] - at[n + 1]) + j] = Frame(msgs[i])[j]

LEMMA FrameBytes ==
  ASSUME NEW m \in Messages
  PROVE  /\ m \in Seq(Byte) /\ Len(m) \in Nat /\ Len(m) < Ints \div 2
         /\ Frame(m) \in Seq(Byte) /\ Len(Frame(m)) = 4 + Len(m)
         /\ \A j \in 1 .. 4 : Frame(m)[j] = Header(Len(m))[j]
         /\ \A j \in 1 .. Len(m) : Frame(m)[j + 4] = m[j]
<1>1. m \in Seq(Byte) /\ Len(m) \in Nat /\ Len(m) < Ints \div 2
  BY BufferAssumption, LenProperties
<1>2. Len(m) < Ints
  BY <1>1, Weights
<1>3. Header(Len(m)) \in Seq(Byte) /\ Len(Header(Len(m))) = 4
  BY <1>1, <1>2, Digits
<1> DEFINE h == Header(Len(m))
<1> HIDE DEF h
<1>4. h \in Seq(Byte) /\ Len(h) = 4 /\ Frame(m) = h \o m
  BY <1>3 DEF Frame, h
<1>5. /\ Frame(m) \in Seq(Byte) /\ Len(Frame(m)) = 4 + Len(m)
      /\ \A i \in 1 .. 4 + Len(m) : Frame(m)[i] = IF i <= 4 THEN h[i] ELSE m[i - 4]
  <2>1. /\ h \o m \in Seq(Byte) /\ Len(h \o m) = Len(h) + Len(m)
        /\ \A i \in 1 .. Len(h) + Len(m) :
             (h \o m)[i] = IF i <= Len(h) THEN h[i] ELSE m[i - Len(h)]
    BY <1>1, <1>4, ConcatProperties
  <2>2. QED BY <1>4, <2>1, Zenon
<1>6. \A j \in 1 .. 4 : Frame(m)[j] = h[j]
  BY <1>1, <1>5
<1>7. \A j \in 1 .. Len(m) : Frame(m)[j + 4] = m[j]
  <2>1. TAKE j \in 1 .. Len(m)
  <2>2. j + 4 \in 1 .. 4 + Len(m) /\ ~(j + 4 <= 4) /\ (j + 4) - 4 = j
    BY <1>1
  <2>3. QED BY <1>5, <2>2
<1>8. QED BY <1>1, <1>5, <1>6, <1>7 DEF h

(* A message is sent. *)
LEMMA FramedAppend ==
  ASSUME NEW msgs \in Seq(Messages), NEW m \in Messages, NEW n \in Nat, n <= Len(msgs),
         NEW stream \in Seq(Byte), NEW at, Framed(stream, n, msgs, at)
  PROVE  \E to : Framed(stream \o Frame(m), n, Append(msgs, m), to)
<1> DEFINE k == Len(msgs)
           new == Append(msgs, m)
           longer == stream \o Frame(m)
           to == [i \in 1 .. k + 2 |-> IF i <= k + 1 THEN at[i] ELSE at[k + 1] + 4 + Len(m)]
<1>1. k \in Nat /\ Len(m) \in Nat /\ n \in 0 .. k
  BY LenProperties, FrameBytes
<1>2. /\ Len(new) = k + 1 /\ \A i \in 1 .. k : new[i] = msgs[i]
      /\ new[k + 1] = m
  BY AppendProperties
<1>3. /\ Len(longer) = Len(stream) + (4 + Len(m)) /\ Len(stream) \in Nat
      /\ \A i \in 1 .. Len(stream) + (4 + Len(m)) :
           longer[i] = IF i <= Len(stream) THEN stream[i] ELSE Frame(m)[i - Len(stream)]
  <2>1. Frame(m) \in Seq(Byte) /\ Len(Frame(m)) = 4 + Len(m)
    BY FrameBytes
  <2>2. /\ Len(longer) = Len(stream) + Len(Frame(m))
        /\ \A i \in 1 .. Len(stream) + Len(Frame(m)) :
             longer[i] = IF i <= Len(stream) THEN stream[i] ELSE Frame(m)[i - Len(stream)]
    <3> DEFINE f == Frame(m)
    <3>1. f \in Seq(Byte)
      BY <2>1
    <3> HIDE DEF f
    <3>2. /\ Len(stream \o f) = Len(stream) + Len(f)
          /\ \A i \in 1 .. Len(stream) + Len(f) :
               (stream \o f)[i] = IF i <= Len(stream) THEN stream[i] ELSE f[i - Len(stream)]
      BY <3>1, ConcatProperties
    <3>3. QED BY <3>2 DEF f
  <2>3. QED BY <2>1, <2>2, LenProperties, Zenon
<1>4. /\ at \in [1 .. k + 1 -> Nat]
      /\ \A i \in 1 .. k : at[i + 1] = at[i] + 4 + Len(msgs[i])
      /\ \A i, j \in 1 .. k + 1 : i <= j => at[i] <= at[j]
      /\ Len(stream) = at[k + 1] - at[n + 1]
      /\ \A i \in n + 1 .. k : \A j \in 1 .. 4 + Len(msgs[i]) :
           stream[(at[i] - at[n + 1]) + j] = Frame(msgs[i])[j]
  BY DEF Framed
<1>5. /\ \A i \in 1 .. k + 1 : to[i] = at[i] /\ to[i] \in Nat
      /\ to[k + 2] = at[k + 1] + 4 + Len(m)
      /\ to \in [1 .. k + 2 -> Nat]
  <2>1. \A i \in 1 .. k + 1 : at[i] \in Nat
    BY <1>4
  <2>2. \A i \in 1 .. k + 1 : i \in 1 .. k + 2 /\ i <= k + 1
    BY <1>1
  <2>3. k + 2 \in 1 .. k + 2 /\ ~(k + 2 <= k + 1) /\ k + 1 \in 1 .. k + 1
    BY <1>1
  <2>4. \A i \in 1 .. k + 1 : to[i] = at[i]
    BY <2>2
  <2>5. to[k + 2] = at[k + 1] + 4 + Len(m)
    BY <2>3
  <2>6. at[k + 1] + 4 + Len(m) \in Nat
    BY <1>1, <2>1, <2>3
  <2>7. \A i \in 1 .. k + 2 : (IF i <= k + 1 THEN at[i] ELSE at[k + 1] + 4 + Len(m)) \in Nat
    BY <1>1, <2>1, <2>6
  <2>8. to \in [1 .. k + 2 -> Nat]
    BY <2>7
  <2>9. QED BY <2>1, <2>4, <2>5, <2>8
<1> HIDE DEF k, new, longer, to
<1>6. \A i \in 1 .. k + 1 : to[i + 1] = to[i] + 4 + Len(new[i])
  <2>1. TAKE i \in 1 .. k + 1
  <2>2. CASE i <= k
    <3>1. i \in 1 .. k /\ i + 1 \in 1 .. k + 1
      BY <1>1, <2>2
    <3>2. QED BY <1>2, <1>4, <1>5, <3>1
  <2>3. CASE i = k + 1
    BY <1>1, <1>2, <1>5, <2>3
  <2>4. QED BY <1>1, <2>2, <2>3
<1>7. \A i, j \in 1 .. k + 2 : i <= j => to[i] <= to[j]
  <2>1. TAKE i, j \in 1 .. k + 2
  <2>2. HAVE i <= j
  <2>3. CASE j <= k + 1
    <3>1. i \in 1 .. k + 1 /\ j \in 1 .. k + 1
      BY <1>1, <2>2, <2>3
    <3>2. QED BY <1>4, <1>5, <2>2, <3>1
  <2>4. CASE j = k + 2 /\ i <= k + 1
    <3>1. i \in 1 .. k + 1 /\ k + 1 \in 1 .. k + 1
      BY <1>1, <2>4
    <3>2. at[i] <= at[k + 1] /\ at[i] \in Nat /\ at[k + 1] \in Nat
      BY <1>4, <2>4, <3>1
    <3>3. QED BY <1>1, <1>5, <2>4, <3>1, <3>2
  <2>5. CASE j = k + 2 /\ i = k + 2
    BY <1>1, <1>5, <2>5
  <2>6. QED BY <1>1, <2>2, <2>3, <2>4, <2>5
<1>8. /\ to[n + 1] = at[n + 1] /\ at[n + 1] \in Nat
      /\ at[k + 1] \in Nat
  <2>1. n + 1 \in 1 .. k + 1 /\ k + 1 \in 1 .. k + 1
    BY <1>1
  <2>2. QED BY <1>4, <1>5, <2>1
<1>9. Len(longer) = to[k + 2] - to[n + 1]
  <2>1. PICK an \in Nat, ak \in Nat, lm \in Nat : an = at[n + 1] /\ ak = at[k + 1] /\ lm = Len(m)
    BY <1>1, <1>8
  <2>2. /\ Len(longer) = (ak - an) + (4 + lm)
        /\ to[k + 2] = ak + 4 + lm /\ to[n + 1] = an
    BY <1>3, <1>4, <1>5, <1>8, <2>1, Zenon
  <2>3. (ak - an) + (4 + lm) = (ak + 4 + lm) - an
    OBVIOUS
  <2>4. QED BY <2>2, <2>3, Zenon
<1>10. \A i \in n + 1 .. k + 1 : \A j \in 1 .. 4 + Len(new[i]) :
         longer[(to[i] - to[n + 1]) + j] = Frame(new[i])[j]
  <2>1. TAKE i \in n + 1 .. k + 1
  <2>2. TAKE j \in 1 .. 4 + Len(new[i])
  <2>3. i \in 1 .. k + 1 /\ at[i] \in Nat /\ at[n + 1] <= at[i] /\ to[i] = at[i]
    <3>1. n + 1 \in 1 .. k + 1 /\ i \in 1 .. k + 1 /\ n + 1 <= i
      BY <1>1
    <3>2. QED BY <1>4, <1>5, <3>1
  <2>4. CASE i <= k
    <3>1. i \in 1 .. k /\ i \in n + 1 .. k /\ i + 1 \in 1 .. k + 1 /\ k + 1 \in 1 .. k + 1
      BY <1>1, <2>4
    <3>2. new[i] = msgs[i] /\ Len(msgs[i]) \in Nat
      BY <1>2, <3>1, FrameBytes, ElementOfSeq DEF k
    <3>3. at[i + 1] <= at[k + 1] /\ at[i + 1] = at[i] + 4 + Len(msgs[i])
      BY <1>1, <1>4, <3>1
    <3>4. PICK p \in Nat : p = (at[i] - at[n + 1]) + j /\ 1 <= p /\ p <= Len(stream)
      <4>1. PICK an \in Nat, ai \in Nat, ak \in Nat, li \in Nat, jj \in Nat :
              /\ an = at[n + 1] /\ ai = at[i] /\ ak = at[k + 1] /\ li = Len(msgs[i]) /\ jj = j
              /\ 1 <= jj /\ jj <= 4 + li
        BY <1>8, <2>3, <3>2, SMTT(30)
      <4>2. an <= ai /\ (ai + 4) + li <= ak /\ Len(stream) = ak - an
        BY <1>4, <2>3, <3>3, <4>1, Zenon
      <4>3. an <= ai /\ (ai + 4) + li <= ak /\ 1 <= jj /\ jj <= 4 + li
        BY <4>1, <4>2
      <4>4. (ai - an) + jj \in Nat /\ 1 <= (ai - an) + jj /\ (ai - an) + jj <= ak - an
        BY <4>3
      <4>5. QED BY <4>1, <4>2, <4>4, Zenon
    <3>5. longer[p] = stream[p]
      BY <1>1, <1>3, <3>4
    <3>6. stream[(at[i] - at[n + 1]) + j] = Frame(msgs[i])[j]
      BY <1>4, <3>1, <3>2
    <3>7. QED BY <1>8, <2>3, <3>2, <3>4, <3>5, <3>6
  <2>5. CASE i = k + 1
    <3>1. new[i] = m
      BY <1>2, <2>5
    <3>2. (to[i] - to[n + 1]) + j = Len(stream) + j
      BY <1>4, <1>8, <2>3, <2>5
    <3>3. /\ Len(stream) + j \in 1 .. Len(stream) + (4 + Len(m))
          /\ ~(Len(stream) + j <= Len(stream)) /\ (Len(stream) + j) - Len(stream) = j
      BY <1>1, <1>3, <3>1
    <3>4. QED BY <1>3, <3>1, <3>2, <3>3
  <2>6. QED BY <1>1, <2>3, <2>4, <2>5
<1>11. k + 1 + 1 = k + 2
  BY <1>1
<1>12. Framed(longer, n, new, to)
  BY <1>2, <1>5, <1>6, <1>7, <1>9, <1>10, <1>11 DEF Framed
<1>13. QED BY <1>12 DEF longer, new

(* A stream that is not empty begins with a whole frame. *)
LEMMA FramedHead ==
  ASSUME NEW msgs \in Seq(Messages), NEW n \in Nat, n <= Len(msgs),
         NEW stream \in Seq(Byte), stream # <<>>, NEW at, Framed(stream, n, msgs, at)
  PROVE  /\ n < Len(msgs) /\ msgs[n + 1] \in Messages
         /\ Len(stream) >= 4 + Len(msgs[n + 1])
         /\ \A j \in 1 .. 4 + Len(msgs[n + 1]) : stream[j] = Frame(msgs[n + 1])[j]
<1>1. Len(msgs) \in Nat /\ Len(stream) \in Nat /\ Len(stream) # 0
  BY LenProperties, EmptySeq
<1>2. n + 1 \in 1 .. Len(msgs) + 1 /\ Len(msgs) + 1 \in 1 .. Len(msgs) + 1
  BY <1>1
<1>3. at[n + 1] \in Nat /\ at[Len(msgs) + 1] \in Nat
  BY <1>2 DEF Framed
<1>4. n # Len(msgs)
  BY <1>1, <1>3 DEF Framed
<1>5. n + 1 \in 1 .. Len(msgs) /\ n + 1 \in n + 1 .. Len(msgs) /\ (n + 1) + 1 \in 1 .. Len(msgs) + 1
  BY <1>1, <1>4
<1>6. msgs[n + 1] \in Messages
  BY <1>5, ElementOfSeq
<1>7. Len(msgs[n + 1]) \in Nat
  BY <1>6, FrameBytes
<1>8. /\ at[(n + 1) + 1] = at[n + 1] + 4 + Len(msgs[n + 1])
      /\ at[(n + 1) + 1] <= at[Len(msgs) + 1]
  BY <1>1, <1>2, <1>5 DEF Framed
<1>9. Len(stream) >= 4 + Len(msgs[n + 1])
  BY <1>1, <1>3, <1>7, <1>8 DEF Framed
<1>10. \A j \in 1 .. 4 + Len(msgs[n + 1]) : stream[j] = Frame(msgs[n + 1])[j]
  <2>1. TAKE j \in 1 .. 4 + Len(msgs[n + 1])
  <2>2. (at[n + 1] - at[n + 1]) + j = j
    BY <1>3, <1>7
  <2>3. stream[(at[n + 1] - at[n + 1]) + j] = Frame(msgs[n + 1])[j]
    BY <1>5 DEF Framed
  <2>4. QED BY <2>2, <2>3
<1>11. QED BY <1>1, <1>4, <1>6, <1>9, <1>10

(* What is left when the first frame is cut off. *)
LEMMA FramedRest ==
  ASSUME NEW msgs \in Seq(Messages), NEW n \in Nat, n < Len(msgs),
         NEW stream \in Seq(Byte), NEW at, Framed(stream, n, msgs, at),
         NEW rest, Len(rest) = Len(stream) - (4 + Len(msgs[n + 1])),
         \A j \in 1 .. Len(rest) : rest[j] = stream[j + (4 + Len(msgs[n + 1]))]
  PROVE  Framed(rest, n + 1, msgs, at)
<1> DEFINE l == Len(msgs[n + 1])
           k == Len(msgs)
<1>1. k \in Nat /\ Len(stream) \in Nat
  BY LenProperties
<1>2. n + 1 \in 1 .. k /\ n + 1 \in 1 .. k + 1 /\ n + 2 \in 1 .. k + 1 /\ k + 1 \in 1 .. k + 1
  BY <1>1
<1>3. l \in Nat
  BY <1>2, ElementOfSeq, FrameBytes
<1>4. /\ at \in [1 .. k + 1 -> Nat]
      /\ \A i \in 1 .. k : at[i + 1] = at[i] + 4 + Len(msgs[i])
      /\ \A i, j \in 1 .. k + 1 : i <= j => at[i] <= at[j]
      /\ Len(stream) = at[k + 1] - at[n + 1]
      /\ \A i \in n + 1 .. k : \A j \in 1 .. 4 + Len(msgs[i]) :
           stream[(at[i] - at[n + 1]) + j] = Frame(msgs[i])[j]
  BY DEF Framed
<1>5. /\ Len(rest) = Len(stream) - (4 + l)
      /\ \A j \in 1 .. Len(rest) : rest[j] = stream[j + (4 + l)]
  OBVIOUS
<1> HIDE DEF l, k
<1>6. /\ at[n + 2] = at[n + 1] + 4 + l
      /\ at[n + 1] \in Nat /\ at[n + 2] \in Nat /\ at[k + 1] \in Nat
  <2>1. (n + 1) + 1 = n + 2
    OBVIOUS
  <2>2. at[(n + 1) + 1] = at[n + 1] + 4 + l
    BY <1>2, <1>4 DEF l
  <2>3. QED BY <1>2, <1>4, <2>1, <2>2
<1>7. Len(rest) = at[k + 1] - at[n + 2]
  <2>1. PICK an \in Nat, ak \in Nat, ll \in Nat : an = at[n + 1] /\ ak = at[k + 1] /\ ll = l
    BY <1>3, <1>6
  <2>2. Len(rest) = (ak - an) - (4 + ll) /\ at[n + 2] = (an + 4) + ll
    BY <1>4, <1>5, <1>6, <2>1, Zenon
  <2>3. (ak - an) - (4 + ll) = ak - ((an + 4) + ll)
    OBVIOUS
  <2>4. QED BY <2>1, <2>2, <2>3, Zenon
<1>8. \A i \in n + 2 .. k : \A j \in 1 .. 4 + Len(msgs[i]) :
        rest[(at[i] - at[n + 2]) + j] = Frame(msgs[i])[j]
  <2>1. TAKE i \in n + 2 .. k
  <2>2. TAKE j \in 1 .. 4 + Len(msgs[i])
  <2>3. i \in 1 .. k /\ i \in 1 .. k + 1 /\ i + 1 \in 1 .. k + 1 /\ i \in n + 1 .. k /\ n + 2 <= i
    BY <1>1
  <2>4. Len(msgs[i]) \in Nat
    BY <2>3, ElementOfSeq, FrameBytes DEF k
  <2>5. /\ at[i] \in Nat /\ at[n + 2] <= at[i]
        /\ at[i + 1] = at[i] + 4 + Len(msgs[i]) /\ at[i + 1] <= at[k + 1]
    <3>1. i + 1 <= k + 1
      BY <1>1
    <3>2. QED BY <1>2, <1>4, <2>3, <3>1
  <2>6. PICK an \in Nat, ai \in Nat, ak \in Nat, ll \in Nat, li \in Nat, jj \in Nat :
          /\ an = at[n + 1] /\ ai = at[i] /\ ak = at[k + 1] /\ ll = l /\ li = Len(msgs[i])
          /\ jj = j /\ 1 <= jj /\ jj <= 4 + li
    <3>1. PICK li \in Nat : li = Len(msgs[i])
      BY <2>4
    <3>2. j \in 1 .. 4 + li
      BY <3>1
    <3>3. j \in Nat /\ 1 <= j /\ j <= 4 + li
      BY <3>2
    <3>4. QED BY <1>3, <1>6, <2>5, <3>1, <3>3, Zenon
  <2>7. /\ at[n + 2] = (an + 4) + ll /\ (an + 4) + ll <= ai
        /\ (ai + 4) + li <= ak /\ Len(rest) = ak - ((an + 4) + ll)
    BY <1>6, <1>7, <2>5, <2>6, Zenon
  <2>8. PICK p \in Nat : p = (ai - ((an + 4) + ll)) + jj /\ p \in 1 .. ak - ((an + 4) + ll)
    <3>1. (an + 4) + ll <= ai /\ (ai + 4) + li <= ak /\ 1 <= jj /\ jj <= 4 + li
      BY <2>6, <2>7
    <3>2. (ai - ((an + 4) + ll)) + jj \in Nat
      BY <3>1
    <3>3. (ai - ((an + 4) + ll)) + jj \in 1 .. ak - ((an + 4) + ll)
      BY <3>1
    <3>4. QED BY <3>2, <3>3, Zenon
  <2>9. rest[p] = stream[p + (4 + ll)]
    BY <1>5, <2>6, <2>7, <2>8, Zenon
  <2>10. p + (4 + ll) = (ai - an) + jj
    BY <2>8
  <2>11. stream[(at[i] - at[n + 1]) + j] = Frame(msgs[i])[j]
    BY <1>4, <2>3
  <2>12. QED BY <2>6, <2>7, <2>8, <2>9, <2>10, <2>11, Zenon
<1>9. n + 1 + 1 = n + 2
  OBVIOUS
<1>10. QED BY <1>4, <1>7, <1>8, <1>9 DEF Framed, k

-----------------------------------------------------------------------------
(***************************************************************************)
(* The invariant.                                                          *)
(***************************************************************************)

(* All that is on its way. *)
Stream == m_inputBuffer \o (wire \o m_outputBuffer)

PickedInv ==
  /\ Len(received) <= Len(sent)
  /\ \A i \in 1 .. Len(received) : received[i] = sent[i]

StreamInv == \E at : Framed(Stream, Len(received), sent, at)

(* The reader that waits has not got the next frame yet. *)
WaitInv ==
  rpc = "idle" /\ m_inputBuffer # <<>>
    => Len(m_inputBuffer) < 4 + Len(sent[Len(received) + 1])

IInv == TypeOK /\ PickedInv /\ StreamInv /\ WaitInv

(* The server starts with nothing on its way. *)
LEMMA InitIInv == Init => IInv
<1> SUFFICES ASSUME Init PROVE IInv
  OBVIOUS
<1> USE DEF Init
<1>1. TypeOK
  BY EmptySeq DEF TypeOK
<1>2. PickedInv /\ WaitInv
  BY EmptySeq DEF PickedInv, WaitInv
<1>3. StreamInv
  <2>1. Stream = <<>> /\ Len(sent) = 0 /\ Len(received) = 0
    BY ConcatEmptySeq, EmptySeq DEF Stream
  <2> DEFINE at == [i \in 1 .. 1 |-> 0]
  <2>2. at \in [1 .. 1 -> Nat] /\ at[1] = 0
    OBVIOUS
  <2> HIDE DEF at
  <2>3. Framed(<<>>, 0, <<>>, at)
    <3>1. Len(<<>>) = 0 /\ 0 + 1 = 1 /\ at[0 + 1] = 0
      BY <2>2
    <3>2. \A i, j \in 1 .. 1 : at[i] <= at[j]
      BY <2>2
    <3>3. QED BY <2>2, <3>1, <3>2 DEF Framed
  <2>4. QED BY <2>1, <2>3 DEF StreamInv
<1>4. QED BY <1>1, <1>2, <1>3 DEF IInv

(* Appending to the last of three buffers appends to the three. *)
LEMMA Regroup ==
  ASSUME NEW S, NEW s \in Seq(S), NEW t \in Seq(S), NEW u \in Seq(S), NEW v \in Seq(S)
  PROVE  s \o (t \o (u \o v)) = (s \o (t \o u)) \o v
<1>1. \A x, y, z \in Seq(S) : x \o (y \o z) = (x \o y) \o z
  OBVIOUS
<1>2. t \o u \in Seq(S)
  BY ConcatProperties, Zenon
<1>3. PICK w \in Seq(S) : w = t \o u
  BY <1>2, Zenon
<1>4. t \o (u \o v) = w \o v
  <2>1. t \o (u \o v) = (t \o u) \o v
    BY <1>1
  <2>2. QED BY <1>3, <2>1, Zenon
<1>5. s \o (w \o v) = (s \o w) \o v
  BY <1>1
<1>6. QED BY <1>3, <1>4, <1>5, Zenon

(* Bytes move from the front of one buffer to the end of another. *)
LEMMA Moved ==
  ASSUME NEW S, NEW a \in Seq(S), NEW b \in Seq(S), NEW n \in 1 .. Len(b)
  PROVE  /\ a \o SubSeq(b, 1, n) \in Seq(S) /\ SubSeq(b, n + 1, Len(b)) \in Seq(S)
         /\ (a \o SubSeq(b, 1, n)) \o SubSeq(b, n + 1, Len(b)) = a \o b
<1>1. Len(b) \in Nat
  BY LenProperties
<1>2. SubSeq(b, 1, n) \in Seq(S)
  <2>1. \A i \in 1 .. n : i \in 1 .. Len(b)
    BY <1>1
  <2>2. \A i \in 1 .. n : b[i] \in S
    BY <2>1, ElementOfSeq
  <2>3. QED BY <1>1, <2>2, SubSeqProperties
<1>3. SubSeq(b, n + 1, Len(b)) \in Seq(S)
  <2>1. \A i \in n + 1 .. Len(b) : i \in 1 .. Len(b)
    BY <1>1
  <2>2. \A i \in n + 1 .. Len(b) : b[i] \in S
    BY <2>1, ElementOfSeq
  <2>3. QED BY <1>1, <2>2, SubSeqProperties
<1>4. SubSeq(b, 1, n) \o SubSeq(b, n + 1, Len(b)) = b
  <2>1. SubSeq(b, 1, n) \o SubSeq(b, n + 1, Len(b)) = SubSeq(b, 1, Len(b))
    <3>1. 1 \in 1 .. Len(b) + 1 /\ n \in 1 - 1 .. Len(b) /\ Len(b) \in n .. Len(b)
      BY <1>1
    <3>2. QED BY <3>1, ConcatAdjacentSubSeq
  <2>2. QED BY <2>1, SubSeqFull
<1> DEFINE p == SubSeq(b, 1, n)
           q == SubSeq(b, n + 1, Len(b))
<1>5. p \in Seq(S) /\ q \in Seq(S) /\ p \o q = b
  BY <1>2, <1>3, <1>4
<1> HIDE DEF p, q
<1>6. a \o p \in Seq(S)
  BY <1>5, ConcatProperties
<1>7. (a \o p) \o q = a \o (p \o q)
  <2>1. \A s, t, u \in Seq(S) : (s \o t) \o u = s \o (t \o u)
    OBVIOUS
  <2>2. QED BY <1>5, <2>1, Zenon
<1>8. (a \o p) \o q = a \o b
  BY <1>5, <1>7, Zenon
<1>9. QED BY <1>5, <1>6, <1>8, Zenon DEF p, q

(* The front of a concatenation is cut off. *)
LEMMA CutFront ==
  ASSUME NEW S, NEW a \in Seq(S), NEW b \in Seq(S), NEW k \in Nat, k <= Len(a)
  PROVE  /\ SubSeq(a, k + 1, Len(a)) \in Seq(S)
         /\ Len(SubSeq(a, k + 1, Len(a)) \o b) = Len(a \o b) - k
         /\ \A j \in 1 .. Len(SubSeq(a, k + 1, Len(a)) \o b) :
              (SubSeq(a, k + 1, Len(a)) \o b)[j] = (a \o b)[j + k]
<1> DEFINE c == SubSeq(a, k + 1, Len(a))
<1>1. PICK la \in Nat, lb \in Nat : la = Len(a) /\ lb = Len(b) /\ k <= la
  BY LenProperties
<1>2. c \in Seq(S) /\ Len(c) = la - k /\ \A i \in 1 .. la - k : c[i] = a[k + i]
  <2>1. \A i \in k + 1 .. la : i \in 1 .. la
    BY <1>1
  <2>2. \A i \in k + 1 .. la : a[i] \in S
    BY <1>1, <2>1, ElementOfSeq
  <2>3. /\ SubSeq(a, k + 1, la) \in Seq(S)
        /\ Len(SubSeq(a, k + 1, la)) = IF k + 1 <= la THEN la - (k + 1) + 1 ELSE 0
        /\ \A i \in 1 .. la - (k + 1) + 1 : SubSeq(a, k + 1, la)[i] = a[(k + 1) + i - 1]
    BY <1>1, <2>2, SubSeqProperties
  <2>4. la - (k + 1) + 1 = la - k /\ (~(k + 1 <= la) => la - k = 0)
    BY <1>1
  <2>5. \A i \in 1 .. la - k : (k + 1) + i - 1 = k + i
    BY <1>1
  <2>6. QED BY <1>1, <2>3, <2>4, <2>5
<1> HIDE DEF c
<1>3. /\ Len(c \o b) = (la - k) + lb
      /\ \A i \in 1 .. (la - k) + lb : (c \o b)[i] = IF i <= la - k THEN c[i] ELSE b[i - (la - k)]
  <2>1. /\ Len(c \o b) = Len(c) + Len(b)
        /\ \A i \in 1 .. Len(c) + Len(b) : (c \o b)[i] = IF i <= Len(c) THEN c[i] ELSE b[i - Len(c)]
    BY <1>2, ConcatProperties
  <2>2. QED BY <1>1, <1>2, <2>1, Zenon
<1>4. /\ Len(a \o b) = la + lb
      /\ \A i \in 1 .. la + lb : (a \o b)[i] = IF i <= la THEN a[i] ELSE b[i - la]
  BY <1>1, ConcatProperties
<1>5. ASSUME NEW j \in 1 .. (la - k) + lb
      PROVE  (c \o b)[j] = (a \o b)[j + k]
  <2>1. j + k \in 1 .. la + lb
    BY <1>1
  <2>2. CASE j <= la - k
    <3>1. j \in 1 .. la - k /\ j + k <= la /\ k + j = j + k
      BY <1>1, <2>2
    <3>2. QED BY <1>2, <1>3, <1>4, <2>1, <2>2, <3>1, Zenon
  <2>3. CASE ~(j <= la - k)
    <3>1. ~(j + k <= la) /\ (j + k) - la = j - (la - k)
      BY <1>1, <2>3
    <3>2. QED BY <1>3, <1>4, <2>1, <2>3, <3>1, Zenon
  <2>4. QED BY <2>2, <2>3
<1>6. Len(c \o b) = Len(a \o b) - k
  <2>1. (la - k) + lb = (la + lb) - k
    BY <1>1
  <2>2. QED BY <1>3, <1>4, <2>1, Zenon
<1>7. QED BY <1>2, <1>3, <1>5, <1>6 DEF c

(* The stream is bytes and begins with the input buffer. *)
LEMMA StreamBytes ==
  ASSUME TypeOK
  PROVE  /\ Stream \in Seq(Byte) /\ wire \o m_outputBuffer \in Seq(Byte)
         /\ Len(m_inputBuffer) \in Nat /\ Len(Stream) \in Nat
         /\ Len(m_inputBuffer) <= Len(Stream)
         /\ \A i \in 1 .. Len(m_inputBuffer) : Stream[i] = m_inputBuffer[i]
         /\ m_inputBuffer # <<>> => Stream # <<>>
<1> DEFINE rest == wire \o m_outputBuffer
<1>1. m_inputBuffer \in Seq(Byte) /\ rest \in Seq(Byte)
  BY ConcatProperties DEF TypeOK
<1> HIDE DEF rest
<1>2. PICK k \in Nat, l \in Nat : k = Len(m_inputBuffer) /\ l = Len(rest)
  BY <1>1, LenProperties
<1>3. /\ m_inputBuffer \o rest \in Seq(Byte)
      /\ Len(m_inputBuffer \o rest) = k + l
      /\ \A i \in 1 .. k + l :
           (m_inputBuffer \o rest)[i] = IF i <= k THEN m_inputBuffer[i] ELSE rest[i - k]
  BY <1>1, <1>2, ConcatProperties
<1>4. \A i \in 1 .. k : i \in 1 .. k + l /\ i <= k
  OBVIOUS
<1>5. k + l \in Nat /\ k <= k + l
  OBVIOUS
<1>6. m_inputBuffer # <<>> => m_inputBuffer \o rest # <<>>
  BY <1>1, ConcatEqualIffEmpty
<1>7. QED BY <1>1, <1>2, <1>3, <1>4, <1>5, <1>6, Zenon DEF Stream, rest

(* What waits at the reader is the beginning of the next frame, and more   *)
(* when there is more.                                                     *)
LEMMA NextFrame ==
  ASSUME TypeOK, PickedInv, StreamInv, m_inputBuffer # <<>>
  PROVE  /\ Len(received) < Len(sent) /\ sent[Len(received) + 1] \in Messages
         /\ \A j \in 1 .. 4 + Len(sent[Len(received) + 1]) :
              j <= Len(m_inputBuffer)
                => m_inputBuffer[j] = Frame(sent[Len(received) + 1])[j]
<1> DEFINE r == Len(received)
           m == sent[r + 1]
<1>1. r \in Nat /\ r <= Len(sent) /\ sent \in Seq(Messages)
  BY LenProperties DEF TypeOK, PickedInv
<1>2. PICK at : Framed(Stream, r, sent, at)
  BY DEF StreamInv
<1> HIDE DEF r
<1>3. Stream \in Seq(Byte) /\ Stream # <<>>
  BY StreamBytes
<1>4. /\ r < Len(sent) /\ m \in Messages
      /\ \A j \in 1 .. 4 + Len(m) : Stream[j] = Frame(m)[j]
  BY <1>1, <1>2, <1>3, FramedHead
<1>5. Len(m) \in Nat
  BY <1>4, FrameBytes
<1>6. \A j \in 1 .. 4 + Len(m) : j <= Len(m_inputBuffer) => m_inputBuffer[j] = Frame(m)[j]
  <2>1. TAKE j \in 1 .. 4 + Len(m)
  <2>2. HAVE j <= Len(m_inputBuffer)
  <2>3. j \in 1 .. Len(m_inputBuffer)
    BY <1>5, <2>2, StreamBytes
  <2>4. QED BY <1>4, <2>3, StreamBytes
<1>7. QED BY <1>4, <1>6 DEF r

(* With four bytes of it the length field is the next message's length.    *)
LEMMA NextLength ==
  ASSUME TypeOK, PickedInv, StreamInv, NEW junk \in Junk, Len(m_inputBuffer) >= 4
  PROVE  LenField(m_inputBuffer, junk) = Len(sent[Len(received) + 1])
<1> DEFINE m == sent[Len(received) + 1]
<1>1. m_inputBuffer \in Seq(Byte) /\ Len(m_inputBuffer) \in Nat /\ m_inputBuffer # <<>>
  BY LenProperties, EmptySeq DEF TypeOK
<1>2. /\ m \in Messages
      /\ \A j \in 1 .. 4 + Len(m) : j <= Len(m_inputBuffer) => m_inputBuffer[j] = Frame(m)[j]
  BY <1>1, NextFrame
<1> HIDE DEF m
<1>3. /\ Len(m) \in Nat /\ Len(m) < Ints \div 2
      /\ \A j \in 1 .. 4 : Frame(m)[j] = Header(Len(m))[j]
  BY <1>2, FrameBytes
<1>4. \A j \in 1 .. 4 : m_inputBuffer[j] = Header(Len(m))[j]
  <2>1. \A j \in 1 .. 4 : j \in 1 .. 4 + Len(m) /\ j <= Len(m_inputBuffer)
    BY <1>1, <1>3
  <2>2. QED BY <1>2, <1>3, <2>1
<1>5. QED BY <1>1, <1>3, <1>4, LenOfHeader DEF m

(* What the reader picks is the next message. *)
LEMMA NextMessage ==
  ASSUME TypeOK, PickedInv, StreamInv, NEW junk \in Junk, HasMessage(m_inputBuffer, junk)
  PROVE  /\ Len(received) < Len(sent) /\ sent[Len(received) + 1] \in Messages
         /\ LenField(m_inputBuffer, junk) = Len(sent[Len(received) + 1])
         /\ Len(sent[Len(received) + 1]) + 4 <= Len(m_inputBuffer)
         /\ SubSeq(m_inputBuffer, 5, Len(sent[Len(received) + 1]) + 4)
              = sent[Len(received) + 1]
<1> DEFINE m == sent[Len(received) + 1]
<1>1. m_inputBuffer # <<>> /\ m_inputBuffer \in Seq(Byte) /\ Len(m_inputBuffer) \in Nat
  BY LenProperties DEF HasMessage, TypeOK
<1>2. ~(Len(m_inputBuffer) < 4)
  BY <1>1, ShortHasNone
<1>3. LenField(m_inputBuffer, junk) = Len(m)
  BY <1>1, <1>2, NextLength
<1>4. Len(m) + 4 <= Len(m_inputBuffer)
  <2>1. Len(m_inputBuffer) >= LenField(m_inputBuffer, junk) + 4
    BY DEF HasMessage
  <2>2. Len(m_inputBuffer) >= Len(m) + 4
    BY <1>3, <2>1, Zenon
  <2>3. QED BY <2>2
<1>5. /\ Len(received) < Len(sent) /\ m \in Messages
      /\ \A j \in 1 .. 4 + Len(m) : j <= Len(m_inputBuffer) => m_inputBuffer[j] = Frame(m)[j]
  BY <1>1, NextFrame
<1> HIDE DEF m
<1>6. /\ m \in Seq(Byte) /\ \A j \in 1 .. Len(m) : Frame(m)[j + 4] = m[j]
  BY <1>5, FrameBytes
<1>7. PICK l \in Nat : l = Len(m) /\ l + 4 <= Len(m_inputBuffer)
  BY <1>4, <1>6, LenProperties
<1>8. SubSeq(m_inputBuffer, 5, l + 4) = m
  <2>1. \A i \in 5 .. l + 4 : i \in 1 .. Len(m_inputBuffer)
    BY <1>1, <1>7
  <2>2. \A i \in 5 .. l + 4 : m_inputBuffer[i] \in Byte
    BY <1>1, <2>1, ElementOfSeq
  <2>3. /\ SubSeq(m_inputBuffer, 5, l + 4) \in Seq(Byte)
        /\ Len(SubSeq(m_inputBuffer, 5, l + 4)) = IF 5 <= l + 4 THEN (l + 4) - 5 + 1 ELSE 0
        /\ \A i \in 1 .. (l + 4) - 5 + 1 :
             SubSeq(m_inputBuffer, 5, l + 4)[i] = m_inputBuffer[5 + i - 1]
    BY <2>2, SubSeqProperties
  <2>4. (l + 4) - 5 + 1 = l /\ (IF 5 <= l + 4 THEN (l + 4) - 5 + 1 ELSE 0) = l
    OBVIOUS
  <2> DEFINE s == SubSeq(m_inputBuffer, 5, l + 4)
  <2>5. s \in Seq(Byte) /\ Len(s) = l /\ \A i \in 1 .. l : s[i] = m_inputBuffer[5 + i - 1]
    BY <2>3, <2>4
  <2> HIDE DEF s
  <2>6. \A i \in 1 .. l : s[i] = m[i]
    <3>1. TAKE i \in 1 .. l
    <3>2. 5 + i - 1 = i + 4 /\ i + 4 \in 1 .. 4 + l /\ i + 4 <= Len(m_inputBuffer)
      BY <1>1, <1>7
    <3>3. s[i] = m_inputBuffer[i + 4]
      BY <2>5, <3>2, Zenon
    <3>4. QED BY <1>5, <1>6, <1>7, <3>2, <3>3, Zenon
  <2>7. s = m
    BY <1>6, <1>7, <2>5, <2>6, SeqEqual
  <2>8. QED BY <2>7 DEF s
<1>9. QED BY <1>3, <1>4, <1>5, <1>7, <1>8, Zenon DEF m

(* With a whole frame waiting there is a message. *)
LEMMA WholeFrame ==
  ASSUME TypeOK, PickedInv, StreamInv, NEW junk \in Junk, m_inputBuffer # <<>>,
         ~HasMessage(m_inputBuffer, junk)
  PROVE  Len(m_inputBuffer) < 4 + Len(sent[Len(received) + 1])
<1>1. Len(m_inputBuffer) \in Nat
  BY LenProperties DEF TypeOK
<1>2. PICK l \in Nat : l = Len(sent[Len(received) + 1])
  BY NextFrame, FrameBytes
<1>3. SUFFICES ASSUME 4 + l <= Len(m_inputBuffer) PROVE FALSE
  BY <1>1, <1>2
<1>4. LenField(m_inputBuffer, junk) = l
  <2>1. Len(m_inputBuffer) >= 4
    BY <1>1, <1>3
  <2>2. QED BY <1>2, <2>1, NextLength
<1>5. HasMessage(m_inputBuffer, junk)
  BY <1>1, <1>3, <1>4 DEF HasMessage
<1>6. QED BY <1>5

(* The sender appends a message. *)
LEMMA SendIInv == ASSUME IInv, NEW m \in Messages, Send(m) PROVE IInv'
<1> USE DEF IInv
<1> DEFINE r == Len(received)
<1>1. /\ m_outputBuffer' = m_outputBuffer \o Frame(m) /\ sent' = Append(sent, m)
      /\ wire' = wire /\ m_inputBuffer' = m_inputBuffer /\ rpc' = rpc /\ received' = received
  BY DEF Send
<1>2. Frame(m) \in Seq(Byte)
  BY FrameBytes
<1>3. /\ sent' \in Seq(Messages) /\ Len(sent') = Len(sent) + 1
      /\ \A i \in 1 .. Len(sent) : sent'[i] = sent[i]
      /\ Len(sent) \in Nat /\ r \in Nat /\ r <= Len(sent)
  BY <1>1, AppendProperties, LenProperties DEF TypeOK, PickedInv
<1>4. TypeOK'
  BY <1>1, <1>2, <1>3, ConcatProperties DEF TypeOK
<1>5. PickedInv'
  <2>1. \A i \in 1 .. r : i \in 1 .. Len(sent)
    BY <1>3
  <2>2. QED BY <1>1, <1>3, <2>1 DEF PickedInv
<1>6. StreamInv'
  <2>1. Stream' = Stream \o Frame(m)
    <3> DEFINE f == Frame(m)
    <3>1. m_inputBuffer \in Seq(Byte) /\ wire \in Seq(Byte) /\ m_outputBuffer \in Seq(Byte)
          /\ f \in Seq(Byte)
      BY <1>2 DEF TypeOK
    <3> HIDE DEF f
    <3>3. m_inputBuffer \o (wire \o (m_outputBuffer \o f))
            = (m_inputBuffer \o (wire \o m_outputBuffer)) \o f
      BY <3>1, Regroup, SMTT(30)
    <3>4. QED BY <1>1, <3>3, Zenon DEF Stream, f
  <2>2. PICK at : Framed(Stream, r, sent, at)
    BY DEF StreamInv
  <2>3. sent \in Seq(Messages)
    BY DEF TypeOK
  <2> HIDE DEF r
  <2>4. \E to : Framed(Stream \o Frame(m), r, Append(sent, m), to)
    BY <1>3, <2>2, <2>3, FramedAppend, StreamBytes
  <2>5. QED BY <1>1, <2>1, <2>4, Zenon DEF StreamInv, r
<1>7. WaitInv'
  <2>1. SUFFICES ASSUME rpc = "idle", m_inputBuffer # <<>>
                 PROVE  Len(m_inputBuffer) < 4 + Len(sent'[r + 1])
    BY <1>1 DEF WaitInv
  <2>2. r + 1 \in 1 .. Len(sent)
    BY <1>3, <2>1, NextFrame
  <2>3. sent'[r + 1] = sent[r + 1]
    BY <1>3, <2>2
  <2>4. QED BY <2>1, <2>3 DEF WaitInv
<1>8. QED BY <1>4, <1>5, <1>6, <1>7

(* Bytes go from one buffer to the next. *)
LEMMA TransmitIInv == ASSUME IInv, Transmit PROVE IInv'
<1> USE DEF IInv
<1>1. PICK n \in 1 .. Len(m_outputBuffer) :
        /\ wire' = wire \o SubSeq(m_outputBuffer, 1, n)
        /\ m_outputBuffer' = SubSeq(m_outputBuffer, n + 1, Len(m_outputBuffer))
  BY DEF Transmit
<1>2. UNCHANGED <<m_inputBuffer, rpc, sent, received>>
  BY DEF Transmit
<1>3. wire \in Seq(Byte) /\ m_outputBuffer \in Seq(Byte)
  BY DEF TypeOK
<1>4. /\ wire' \in Seq(Byte) /\ m_outputBuffer' \in Seq(Byte)
      /\ wire' \o m_outputBuffer' = wire \o m_outputBuffer
  BY <1>1, <1>3, Moved
<1>5. TypeOK'
  BY <1>2, <1>4 DEF TypeOK
<1>6. Stream' = Stream
  BY <1>2, <1>4, Zenon DEF Stream
<1>7. PickedInv' /\ StreamInv' /\ WaitInv'
  BY <1>2, <1>6 DEF PickedInv, StreamInv, WaitInv
<1>8. QED BY <1>5, <1>7

LEMMA ReadSomeIInv == ASSUME IInv, ReadSome PROVE IInv'
<1> USE DEF IInv
<1>1. PICK n \in 1 .. Len(wire) :
        /\ m_inputBuffer' = m_inputBuffer \o SubSeq(wire, 1, n)
        /\ wire' = SubSeq(wire, n + 1, Len(wire))
  BY DEF ReadSome
<1>2. UNCHANGED <<m_outputBuffer, sent, received>> /\ rpc' = "reading"
  BY DEF ReadSome, Goto
<1>3. wire \in Seq(Byte) /\ m_inputBuffer \in Seq(Byte) /\ m_outputBuffer \in Seq(Byte)
  BY DEF TypeOK
<1>4. /\ m_inputBuffer' \in Seq(Byte) /\ wire' \in Seq(Byte)
      /\ m_inputBuffer' \o wire' = m_inputBuffer \o wire
  BY <1>1, <1>3, Moved
<1>5. TypeOK'
  BY <1>2, <1>4 DEF TypeOK
<1>6. Stream' = Stream
  <2>1. \A s, t, u \in Seq(Byte) : s \o (t \o u) = (s \o t) \o u
    OBVIOUS
  <2>2. m_inputBuffer' \o (wire' \o m_outputBuffer) = (m_inputBuffer' \o wire') \o m_outputBuffer
    BY <1>3, <1>4, <2>1, Zenon
  <2>3. m_inputBuffer \o (wire \o m_outputBuffer) = (m_inputBuffer \o wire) \o m_outputBuffer
    BY <1>3, <2>1, Zenon
  <2>4. QED BY <1>2, <1>4, <2>2, <2>3, Zenon DEF Stream
<1>7. PickedInv' /\ StreamInv' /\ WaitInv'
  BY <1>2, <1>6 DEF PickedInv, StreamInv, WaitInv
<1>8. QED BY <1>5, <1>7

(* What a pick does: the next message comes out. *)
LEMMA Picked ==
  ASSUME IInv, PickMessage
  PROVE  /\ Len(received) < Len(sent) /\ sent[Len(received) + 1] \in Messages
         /\ received' = Append(received, sent[Len(received) + 1])
         /\ Len(sent[Len(received) + 1]) + 4 <= Len(m_inputBuffer)
         /\ m_inputBuffer' = SubSeq(m_inputBuffer, (Len(sent[Len(received) + 1]) + 4) + 1,
                                    Len(m_inputBuffer))
         /\ UNCHANGED <<m_outputBuffer, wire, sent>> /\ rpc' = "picking"
<1> DEFINE m == sent[Len(received) + 1]
<1>1. PICK junk \in Junk :
        /\ HasMessage(m_inputBuffer, junk)
        /\ received' = Append(received,
                              SubSeq(m_inputBuffer, 5, LenField(m_inputBuffer, junk) + 4))
        /\ m_inputBuffer' = SubSeq(m_inputBuffer, LenField(m_inputBuffer, junk) + 5,
                                   Len(m_inputBuffer))
  BY DEF PickMessage
<1>2. UNCHANGED <<m_outputBuffer, wire, sent>> /\ rpc' = "picking"
  BY DEF PickMessage, Goto
<1>3. /\ Len(received) < Len(sent) /\ m \in Messages
      /\ LenField(m_inputBuffer, junk) = Len(m)
      /\ Len(m) + 4 <= Len(m_inputBuffer)
      /\ SubSeq(m_inputBuffer, 5, Len(m) + 4) = m
  BY <1>1, NextMessage DEF IInv
<1> HIDE DEF m
<1>4. (Len(m) + 4) + 1 = Len(m) + 5
  BY <1>3, FrameBytes
<1>5. QED BY <1>1, <1>2, <1>3, <1>4, Zenon DEF m

LEMMA PickMessageIInv == ASSUME IInv, PickMessage PROVE IInv'
<1> USE DEF IInv
<1> DEFINE r == Len(received)
           m == sent[r + 1]
<1>1. /\ r < Len(sent) /\ m \in Messages /\ received' = Append(received, m)
      /\ Len(m) + 4 <= Len(m_inputBuffer)
      /\ m_inputBuffer' = SubSeq(m_inputBuffer, (Len(m) + 4) + 1, Len(m_inputBuffer))
      /\ UNCHANGED <<m_outputBuffer, wire, sent>> /\ rpc' = "picking"
  BY Picked
<1>2. r \in Nat /\ Len(sent) \in Nat /\ Len(m) \in Nat
  BY <1>1, FrameBytes, LenProperties DEF TypeOK
<1>3. /\ received' \in Seq(Messages) /\ Len(received') = r + 1
      /\ \A i \in 1 .. r : received'[i] = received[i]
      /\ received'[r + 1] = m
  BY <1>1, AppendProperties DEF TypeOK
<1>4. PickedInv'
  <2>1. Len(received') <= Len(sent')
    BY <1>1, <1>2, <1>3
  <2>2. \A i \in 1 .. r + 1 : received'[i] = sent'[i]
    <3>1. TAKE i \in 1 .. r + 1
    <3>2. i \in 1 .. r \/ i = r + 1
      BY <1>2
    <3>3. QED BY <1>1, <1>3, <3>2 DEF PickedInv
  <2>3. QED BY <1>3, <2>1, <2>2 DEF PickedInv
<1> DEFINE rest == wire \o m_outputBuffer
<1>5. m_inputBuffer \in Seq(Byte) /\ rest \in Seq(Byte) /\ sent \in Seq(Messages)
  BY StreamBytes DEF TypeOK
<1>6. /\ Stream = m_inputBuffer \o rest /\ Stream' = m_inputBuffer' \o rest
  BY <1>1 DEF Stream
<1> HIDE DEF rest
<1>7. PICK k \in Nat : k = Len(m) + 4 /\ k <= Len(m_inputBuffer) /\ 4 + Len(m) = k
  BY <1>1, <1>2
<1>8. /\ m_inputBuffer' \in Seq(Byte)
      /\ Len(Stream') = Len(Stream) - k
      /\ \A j \in 1 .. Len(Stream') : Stream'[j] = Stream[j + k]
  <2>1. /\ SubSeq(m_inputBuffer, k + 1, Len(m_inputBuffer)) \in Seq(Byte)
        /\ Len(SubSeq(m_inputBuffer, k + 1, Len(m_inputBuffer)) \o rest)
             = Len(m_inputBuffer \o rest) - k
        /\ \A j \in 1 .. Len(SubSeq(m_inputBuffer, k + 1, Len(m_inputBuffer)) \o rest) :
             (SubSeq(m_inputBuffer, k + 1, Len(m_inputBuffer)) \o rest)[j]
               = (m_inputBuffer \o rest)[j + k]
    <3>1. PICK a \in Seq(Byte), b \in Seq(Byte) : a = m_inputBuffer /\ b = rest
      BY <1>5
    <3>2. k <= Len(a)
      BY <1>7, <3>1
    <3>3. /\ SubSeq(a, k + 1, Len(a)) \in Seq(Byte)
          /\ Len(SubSeq(a, k + 1, Len(a)) \o b) = Len(a \o b) - k
          /\ \A j \in 1 .. Len(SubSeq(a, k + 1, Len(a)) \o b) :
               (SubSeq(a, k + 1, Len(a)) \o b)[j] = (a \o b)[j + k]
      BY <3>2, CutFront
    <3>4. QED BY <3>1, <3>3, Zenon
  <2>2. m_inputBuffer' = SubSeq(m_inputBuffer, k + 1, Len(m_inputBuffer))
    BY <1>1, <1>7, Zenon
  <2>3. QED BY <1>6, <2>1, <2>2, Zenon
<1>9. TypeOK'
  BY <1>1, <1>3, <1>8 DEF TypeOK
<1>10. StreamInv'
  <2>1. PICK at : Framed(Stream, r, sent, at)
    BY DEF StreamInv
  <2>2. Stream \in Seq(Byte)
    BY StreamBytes
  <2>3. /\ Len(Stream') = Len(Stream) - (4 + Len(sent[r + 1]))
        /\ \A j \in 1 .. Len(Stream') : Stream'[j] = Stream[j + (4 + Len(sent[r + 1]))]
    BY <1>7, <1>8, Zenon
  <2> HIDE DEF r
  <2>4. Framed(Stream', r + 1, sent, at)
    BY <1>1, <1>2, <1>5, <2>1, <2>2, <2>3, FramedRest
  <2>5. QED BY <1>1, <1>3, <2>4, Zenon DEF StreamInv
<1>11. WaitInv'
  BY <1>1 DEF WaitInv
<1>12. QED BY <1>4, <1>9, <1>10, <1>11

(* Every step keeps the invariant. *)
LEMMA NextIInv == IInv /\ [Next]_vars => IInv'
<1> SUFFICES ASSUME IInv, [Next]_vars PROVE IInv'
  OBVIOUS
<1>1. ASSUME HandleRead \/ ReadAgain PROVE IInv'
  <2>1. UNCHANGED <<m_outputBuffer, wire, m_inputBuffer, sent, received>>
        /\ rpc' \in {"reading", "picking"}
    BY <1>1 DEF HandleRead, ReadAgain, Goto
  <2>2. QED BY <2>1 DEF IInv, TypeOK, PickedInv, StreamInv, Stream, WaitInv
<1>2. ASSUME NoMessage PROVE IInv'
  <2>1. /\ UNCHANGED <<m_outputBuffer, wire, m_inputBuffer, sent, received>>
        /\ rpc' = "idle"
        /\ \E junk \in Junk : ~HasMessage(m_inputBuffer, junk)
    BY <1>2 DEF NoMessage, Goto
  <2>2. m_inputBuffer # <<>> => Len(m_inputBuffer) < 4 + Len(sent[Len(received) + 1])
    BY <2>1, WholeFrame DEF IInv
  <2>3. QED BY <2>1, <2>2 DEF IInv, TypeOK, PickedInv, StreamInv, Stream, WaitInv
<1>3. CASE UNCHANGED vars
  BY <1>3 DEF vars, IInv, TypeOK, PickedInv, StreamInv, Stream, WaitInv
<1>4. QED
  BY <1>1, <1>2, <1>3, SendIInv, TransmitIInv, ReadSomeIInv, PickMessageIInv DEF Next

-----------------------------------------------------------------------------
(***************************************************************************)
(* The theorems.                                                           *)
(***************************************************************************)

(* The buffers hold bytes; what is sent and received are messages.         *)
THEOREM TypeCorrect == Spec => []TypeOK
<1>1. IInv => TypeOK
  BY DEF IInv
<1>2. QED BY InitIInv, NextIInv, <1>1, PTL DEF Spec

(* The peer has received the first of the messages sent, in their order    *)
(* and byte for byte, however the stream was cut on its way.               *)
THEOREM MessagesComeInOrder == Spec => []InOrder
<1>1. ASSUME IInv PROVE InOrder
  <2>1. /\ received \in Seq(Messages) /\ sent \in Seq(Messages)
        /\ Len(received) \in Nat /\ Len(sent) \in Nat /\ Len(received) <= Len(sent)
        /\ \A i \in 1 .. Len(received) : received[i] = sent[i]
    BY <1>1, LenProperties DEF IInv, TypeOK, PickedInv
  <2>2. SubSeq(received, 1, Len(received)) = SubSeq(sent, 1, Len(received))
    <3>1. \A i \in 1 .. Len(received) : received[i] = sent[i] /\ sent[i] \in Messages
      BY <2>1
    <3>2. QED BY <2>1, <3>1
  <2>3. QED BY <2>1, <2>2 DEF InOrder, IsPrefix
<1>2. QED BY InitIInv, NextIInv, <1>1, PTL DEF Spec

(* When the reader waits for more bytes, no complete message waits with it. *)
THEOREM OnlyPartialFramesWait == Spec => []OnlyPartialFrameWaits
<1>1. ASSUME IInv, rpc = "idle", m_inputBuffer # <<>>
      PROVE  /\ Len(received) < Len(sent)
             /\ IsStrictPrefix(m_inputBuffer, Frame(sent[Len(received) + 1]))
  <2> DEFINE m == sent[Len(received) + 1]
             f == Frame(m)
  <2>1. /\ Len(received) < Len(sent) /\ m \in Messages
        /\ \A j \in 1 .. 4 + Len(m) : j <= Len(m_inputBuffer) => m_inputBuffer[j] = f[j]
    BY <1>1, NextFrame DEF IInv
  <2>2. Len(m_inputBuffer) < 4 + Len(m)
    BY <1>1 DEF IInv, WaitInv
  <2> HIDE DEF m
  <2>3. Len(m) \in Nat /\ f \in Seq(Byte) /\ Len(f) = 4 + Len(m)
    BY <2>1, FrameBytes
  <2> HIDE DEF f
  <2>4. m_inputBuffer \in Seq(Byte) /\ Len(m_inputBuffer) \in Nat
    BY <1>1, LenProperties DEF IInv, TypeOK
  <2>5. Len(m_inputBuffer) < Len(f)
    BY <2>2, <2>3, <2>4
  <2>6. \A j \in 1 .. Len(m_inputBuffer) : m_inputBuffer[j] = f[j]
    <3>1. \A j \in 1 .. Len(m_inputBuffer) : j \in 1 .. 4 + Len(m) /\ j <= Len(m_inputBuffer)
      BY <2>2, <2>3, <2>4
    <3>2. QED BY <2>1, <3>1
  <2>7. SubSeq(m_inputBuffer, 1, Len(m_inputBuffer)) = SubSeq(f, 1, Len(m_inputBuffer))
    <3>1. \A j \in 1 .. Len(m_inputBuffer) : j \in 1 .. Len(f)
      BY <2>3, <2>4, <2>5
    <3>2. QED BY <2>3, <2>4, <2>6, <3>1
  <2>8. IsStrictPrefix(m_inputBuffer, f)
    BY <2>3, <2>4, <2>5, <2>7 DEF IsStrictPrefix, IsPrefix
  <2>9. QED BY <2>1, <2>8 DEF f, m
<1>2. IInv => OnlyPartialFrameWaits
  BY <1>1 DEF OnlyPartialFrameWaits
<1>3. QED BY InitIInv, NextIInv, <1>2, PTL DEF Spec

(* Whether there is a message does not depend on what lies behind the      *)
(* bytes of a string of less than four.                                    *)
THEOREM JunkIsAlwaysHarmless == Spec => []JunkIsHarmless
<1>1. ASSUME TypeOK, NEW j1 \in Junk, HasMessage(m_inputBuffer, j1), NEW j2 \in Junk
      PROVE  HasMessage(m_inputBuffer, j2)
  <2>1. m_inputBuffer \in Seq(Byte) /\ Len(m_inputBuffer) \in Nat
    BY <1>1, LenProperties DEF TypeOK
  <2>2. ~(Len(m_inputBuffer) < 4)
    BY <1>1, <2>1, ShortHasNone
  <2>3. \A i \in 1 .. 4 :
          HeaderByte(m_inputBuffer, j1, i) = HeaderByte(m_inputBuffer, j2, i)
    BY <2>1, <2>2 DEF HeaderByte
  <2>4. LenField(m_inputBuffer, j1) = LenField(m_inputBuffer, j2)
    BY <2>3 DEF LenField
  <2>5. QED BY <1>1, <2>4 DEF HasMessage
<1>2. IInv => JunkIsHarmless
  BY <1>1 DEF IInv, JunkIsHarmless
<1>3. QED BY InitIInv, NextIInv, <1>2, PTL DEF Spec

-----------------------------------------------------------------------------
(***************************************************************************)
(* The two buffers and the wire are a mailbox.                             *)
(***************************************************************************)

(* What the mailbox holds: the messages from the first not received.       *)
LEMMA Mapping ==
  ASSUME NEW in \in Seq(Messages), NEW out \in Seq(Messages), Len(in) <= Len(out),
         NEW box, box = [i \in 1 .. Len(out) - Len(in) |-> <<Len(in) + i, out[Len(in) + i]>>],
         NEW log, log = [i \in 1 .. Len(in) |-> <<i, in[i]>>]
  PROVE  /\ box \in Seq(Nat \X Messages) /\ Len(box) = Len(out) - Len(in)
         /\ \A i \in 1 .. Len(out) - Len(in) : box[i] = <<Len(in) + i, out[Len(in) + i]>>
         /\ log \in Seq(Nat \X Messages) /\ Len(log) = Len(in)
         /\ \A i \in 1 .. Len(in) : log[i] = <<i, in[i]>>
<1>1. PICK r \in Nat, n \in Nat : r = Len(in) /\ n = Len(out) /\ r <= n
  BY LenProperties
<1>2. PICK k \in Nat : k = n - r /\ r + k = n
  <2>1. n - r \in Nat /\ r + (n - r) = n
    BY <1>1
  <2>2. QED BY <2>1, Zenon
<1>3. \A i \in 1 .. k : r + i \in Nat /\ out[r + i] \in Messages
  <2>1. TAKE i \in 1 .. k
  <2>2. r + i \in 1 .. n
    BY <1>2
  <2>3. QED BY <1>1, <2>2, ElementOfSeq
<1>4. \A i \in 1 .. r : in[i] \in Messages
  BY <1>1, ElementOfSeq
<1>5. box = [i \in 1 .. k |-> <<r + i, out[r + i]>>]
  BY <1>1, <1>2, Zenon
<1>6. log = [i \in 1 .. r |-> <<i, in[i]>>]
  BY <1>1, Zenon
<1>7. box \in [1 .. k -> Nat \X Messages]
  <2>1. \A i \in 1 .. k : <<r + i, out[r + i]>> \in Nat \X Messages
    BY <1>3
  <2>2. [i \in 1 .. k |-> <<r + i, out[r + i]>>] \in [1 .. k -> Nat \X Messages]
    BY <2>1, Zenon
  <2>3. QED BY <1>5, <2>2, Zenon
<1>8. log \in [1 .. r -> Nat \X Messages]
  <2>1. \A i \in 1 .. r : <<i, in[i]>> \in Nat \X Messages
    BY <1>4
  <2>2. [i \in 1 .. r |-> <<i, in[i]>>] \in [1 .. r -> Nat \X Messages]
    BY <2>1, Zenon
  <2>3. QED BY <1>6, <2>2, Zenon
<1>9. box \in Seq(Nat \X Messages) /\ Len(box) = k
  BY <1>7, FunIsSeq
<1>10. log \in Seq(Nat \X Messages) /\ Len(log) = r
  BY <1>8, FunIsSeq
<1>11. \A i \in 1 .. k : box[i] = <<r + i, out[r + i]>>
  BY <1>5, Zenon
<1>12. \A i \in 1 .. r : log[i] = <<i, in[i]>>
  BY <1>6, Zenon
<1>13. QED BY <1>1, <1>2, <1>9, <1>10, <1>11, <1>12, Zenon

LEMMA MappingNow ==
  ASSUME IInv
  PROVE  /\ OnTheWay \in Seq(Nat \X Messages) /\ Len(OnTheWay) = Len(sent) - Len(received)
         /\ \A i \in 1 .. Len(sent) - Len(received) :
              OnTheWay[i] = <<Len(received) + i, sent[Len(received) + i]>>
         /\ Arrived \in Seq(Nat \X Messages) /\ Len(Arrived) = Len(received)
         /\ \A i \in 1 .. Len(received) : Arrived[i] = <<i, received[i]>>
<1>1. received \in Seq(Messages) /\ sent \in Seq(Messages) /\ Len(received) <= Len(sent)
  BY DEF IInv, TypeOK, PickedInv
<1>2. /\ OnTheWay = [i \in 1 .. Len(sent) - Len(received) |->
                       <<Len(received) + i, sent[Len(received) + i]>>]
      /\ Arrived = [i \in 1 .. Len(received) |-> <<i, received[i]>>]
  BY DEF OnTheWay, Arrived
<1>3. QED BY <1>1, <1>2, Mapping

LEMMA MappingNext ==
  ASSUME IInv'
  PROVE  /\ OnTheWay' \in Seq(Nat \X Messages) /\ Len(OnTheWay') = Len(sent') - Len(received')
         /\ \A i \in 1 .. Len(sent') - Len(received') :
              OnTheWay'[i] = <<Len(received') + i, sent'[Len(received') + i]>>
         /\ Arrived' \in Seq(Nat \X Messages) /\ Len(Arrived') = Len(received')
         /\ \A i \in 1 .. Len(received') : Arrived'[i] = <<i, received'[i]>>
<1>1. received' \in Seq(Messages) /\ sent' \in Seq(Messages) /\ Len(received') <= Len(sent')
  BY DEF IInv, TypeOK, PickedInv
<1>2. /\ OnTheWay' = [i \in 1 .. Len(sent') - Len(received') |->
                        <<Len(received') + i, sent'[Len(received') + i]>>]
      /\ Arrived' = [i \in 1 .. Len(received') |-> <<i, received'[i]>>]
  BY DEF OnTheWay, Arrived
<1>3. QED BY <1>1, <1>2, Mapping

(* The program starts as an empty mailbox. *)
LEMMA InitRefines == Init => Box!BoxInit
<1> SUFFICES ASSUME Init PROVE OnTheWay = <<>> /\ Arrived = <<>>
  BY DEF Box!BoxInit
<1>1. /\ OnTheWay \in Seq(Nat \X Messages) /\ Len(OnTheWay) = Len(sent) - Len(received)
      /\ Arrived \in Seq(Nat \X Messages) /\ Len(Arrived) = Len(received)
  BY InitIInv, MappingNow
<1>2. Len(received) = 0 /\ Len(sent) = 0
  BY EmptySeq DEF Init
<1>3. Len(OnTheWay) = 0 /\ Len(Arrived) = 0
  BY <1>1, <1>2
<1>4. QED BY <1>1, <1>3, EmptySeq

(* A message that is sent is a task that is posted. *)
LEMMA SendPosts ==
  ASSUME IInv, NEW m \in Messages, Send(m)
  PROVE  Box!Post(<<Len(sent) + 1, m>>) /\ Len(sent) + 1 \in 1 .. MaxSent
<1> DEFINE t == <<Len(sent) + 1, m>>
           T == Nat \X Messages
<1>1. PICK n \in Nat, r \in Nat : n = Len(sent) /\ r = Len(received) /\ r <= n
  BY LenProperties DEF IInv, TypeOK, PickedInv
<1>2. PICK k \in Nat : k = n - r /\ r + k = n /\ k + 1 = (n + 1) - r /\ r + (k + 1) = n + 1
  <2>1. n - r \in Nat /\ r + (n - r) = n /\ (n - r) + 1 = (n + 1) - r /\ r + ((n - r) + 1) = n + 1
    BY <1>1
  <2>2. QED BY <2>1, Zenon
<1>3. /\ sent' = Append(sent, m) /\ received' = received
      /\ n + 1 \in 1 .. MaxSent
  BY <1>1, BufferAssumption DEF Send
<1>4. /\ Len(sent') = n + 1 /\ sent'[n + 1] = m
      /\ \A i \in 1 .. n : sent'[i] = sent[i]
  BY <1>1, <1>3, AppendProperties DEF IInv, TypeOK
<1>5. IInv'
  BY SendIInv
<1>6. /\ OnTheWay \in Seq(T) /\ Len(OnTheWay) = k
      /\ \A i \in 1 .. k : OnTheWay[i] = <<r + i, sent[r + i]>>
      /\ Len(Arrived) = r /\ Arrived \in Seq(T) /\ \A i \in 1 .. r : Arrived[i] = <<i, received[i]>>
  BY <1>1, <1>2, MappingNow, Zenon
<1>7. /\ OnTheWay' \in Seq(T) /\ Len(OnTheWay') = k + 1
      /\ \A i \in 1 .. k + 1 : OnTheWay'[i] = <<r + i, sent'[r + i]>>
  <2>1. /\ OnTheWay' \in Seq(T) /\ Len(OnTheWay') = Len(sent') - Len(received')
        /\ \A i \in 1 .. Len(sent') - Len(received') :
             OnTheWay'[i] = <<Len(received') + i, sent'[Len(received') + i]>>
    BY <1>5, MappingNext, Zenon
  <2>2. QED BY <1>1, <1>2, <1>3, <1>4, <2>1, Zenon
<1>8. Arrived' = Arrived
  BY <1>3 DEF Arrived
<1>9. t = <<n + 1, m>> /\ t \in T
  BY <1>1
<1> HIDE DEF t, T
<1>10. OnTheWay' = Append(OnTheWay, t)
  <2>1. /\ Append(OnTheWay, t) \in Seq(T) /\ Len(Append(OnTheWay, t)) = k + 1
        /\ \A i \in 1 .. k : Append(OnTheWay, t)[i] = OnTheWay[i]
        /\ Append(OnTheWay, t)[k + 1] = t
    BY <1>6, <1>9, AppendProperties
  <2>2. \A i \in 1 .. k : OnTheWay'[i] = Append(OnTheWay, t)[i]
    <3>1. TAKE i \in 1 .. k
    <3>2. r + i \in 1 .. n /\ i \in 1 .. k + 1
      BY <1>2
    <3>3. OnTheWay'[i] = <<r + i, sent[r + i]>>
      BY <1>4, <1>7, <3>2, Zenon
    <3>4. QED BY <1>6, <2>1, <3>3, Zenon
  <2>3. OnTheWay'[k + 1] = Append(OnTheWay, t)[k + 1]
    <3>1. k + 1 \in 1 .. k + 1
      OBVIOUS
    <3>2. OnTheWay'[k + 1] = <<n + 1, m>>
      BY <1>2, <1>4, <1>7, <3>1, Zenon
    <3>3. QED BY <1>9, <2>1, <3>2
  <2> DEFINE w == OnTheWay'
             z == Append(OnTheWay, t)
  <2>4. /\ w \in Seq(T) /\ z \in Seq(T) /\ Len(w) = k + 1 /\ Len(z) = k + 1
        /\ w[k + 1] = z[k + 1] /\ \A i \in 1 .. k : w[i] = z[i]
    BY <1>7, <2>1, <2>2, <2>3
  <2> HIDE DEF w, z
  <2>5. \A i \in 1 .. k + 1 : i \in 1 .. k \/ i = k + 1
    OBVIOUS
  <2>6. w = z
    BY <2>4, <2>5, SeqEqual
  <2>7. QED BY <2>6 DEF w, z
<1>11. t \notin ToSet(OnTheWay) \union ToSet(Arrived)
  <2>1. DOMAIN OnTheWay = 1 .. k /\ DOMAIN Arrived = 1 .. r
    BY <1>6, LenProperties
  <2>2. \A i \in 1 .. k : OnTheWay[i] # t
    <3>1. TAKE i \in 1 .. k
    <3>2. r + i # n + 1
      BY <1>2
    <3>3. QED BY <1>6, <1>9, <3>2
  <2>3. \A i \in 1 .. r : Arrived[i] # t
    <3>1. TAKE i \in 1 .. r
    <3>2. i # n + 1
      BY <1>1
    <3>3. QED BY <1>6, <1>9, <3>2
  <2>4. QED BY <2>1, <2>2, <2>3, Zenon DEF ToSet
<1>12. Box!Post(t)
  BY <1>8, <1>10, <1>11 DEF Box!Post, Box!ToSet, ToSet
<1>13. QED BY <1>1, <1>3, <1>12 DEF t

(* A message that is picked is the oldest task that is run. *)
LEMMA PickRunsOldest == ASSUME IInv, PickMessage PROVE Box!RunOldest
<1> DEFINE T == Nat \X Messages
<1>1. PICK n \in Nat, r \in Nat : n = Len(sent) /\ r = Len(received) /\ r <= n
  BY LenProperties DEF IInv, TypeOK, PickedInv
<1>2. /\ r < n /\ sent[r + 1] \in Messages
      /\ received' = Append(received, sent[r + 1]) /\ sent' = sent
  BY <1>1, Picked
<1>3. PICK k \in Nat :
        k + 1 = n - r /\ k = n - (r + 1) /\ \A i \in 1 .. k : (r + 1) + i = r + (i + 1)
  <2>1. /\ n - (r + 1) \in Nat /\ (n - (r + 1)) + 1 = n - r
        /\ \A i \in 1 .. n - (r + 1) : (r + 1) + i = r + (i + 1)
    BY <1>1, <1>2
  <2>2. QED BY <2>1, Zenon
<1>4. IInv'
  BY PickMessageIInv
<1>5. /\ Len(received') = r + 1 /\ received'[r + 1] = sent[r + 1]
      /\ \A i \in 1 .. r : received'[i] = received[i]
  BY <1>1, <1>2, AppendProperties DEF IInv, TypeOK
<1>6. /\ OnTheWay \in Seq(T) /\ Len(OnTheWay) = k + 1
      /\ \A i \in 1 .. k + 1 : OnTheWay[i] = <<r + i, sent[r + i]>>
      /\ Len(Arrived) = r /\ Arrived \in Seq(T) /\ \A i \in 1 .. r : Arrived[i] = <<i, received[i]>>
  BY <1>1, <1>3, MappingNow, Zenon
<1>7. /\ OnTheWay' \in Seq(T) /\ Len(OnTheWay') = k
      /\ \A i \in 1 .. k : OnTheWay'[i] = <<(r + 1) + i, sent[(r + 1) + i]>>
      /\ Len(Arrived') = r + 1 /\ Arrived' \in Seq(T)
      /\ \A i \in 1 .. r + 1 : Arrived'[i] = <<i, received'[i]>>
  <2>1. /\ OnTheWay' \in Seq(T) /\ Len(OnTheWay') = Len(sent') - Len(received')
        /\ \A i \in 1 .. Len(sent') - Len(received') :
             OnTheWay'[i] = <<Len(received') + i, sent'[Len(received') + i]>>
        /\ Arrived' \in Seq(T) /\ Len(Arrived') = Len(received')
        /\ \A i \in 1 .. Len(received') : Arrived'[i] = <<i, received'[i]>>
    BY <1>4, MappingNext, Zenon
  <2>2. Len(sent') = n /\ Len(received') = r + 1 /\ Len(sent') - Len(received') = k
    BY <1>1, <1>2, <1>3, <1>5, Zenon
  <2>3. OnTheWay' \in Seq(T) /\ Len(OnTheWay') = k
    BY <2>1, <2>2, Zenon
  <2>4. \A i \in 1 .. k : OnTheWay'[i] = <<(r + 1) + i, sent[(r + 1) + i]>>
    BY <1>2, <2>1, <2>2, Zenon
  <2>5. /\ Len(Arrived') = r + 1 /\ Arrived' \in Seq(T)
        /\ \A i \in 1 .. r + 1 : Arrived'[i] = <<i, received'[i]>>
    BY <2>1, <2>2, Zenon
  <2>6. QED BY <2>3, <2>4, <2>5, Zenon
<1> HIDE DEF T
<1> DEFINE w == OnTheWay
           z == OnTheWay'
           a == Arrived
           d == Arrived'
<1>8. 1 \in 1 .. k + 1 /\ \A i \in 1 .. k : i + 1 \in 1 .. k + 1
  OBVIOUS
<1>9. /\ w \in Seq(T) /\ Len(w) = k + 1 /\ w # <<>> /\ w[1] = <<r + 1, sent[r + 1]>>
      /\ z \in Seq(T) /\ Len(z) = k /\ \A i \in 1 .. k : z[i] = w[i + 1]
  <2>1. \A i \in 1 .. k : w[i + 1] = <<r + (i + 1), sent[r + (i + 1)]>>
    BY <1>6, <1>8, Zenon
  <2>2. \A i \in 1 .. k : z[i] = w[i + 1]
    BY <1>3, <1>7, <2>1, Zenon
  <2>3. w # <<>>
    BY <1>6, EmptySeq
  <2>4. QED BY <1>6, <1>7, <1>8, <2>2, <2>3, Zenon
<1>10. /\ a \in Seq(T) /\ Len(a) = r /\ d \in Seq(T) /\ Len(d) = r + 1
       /\ d[r + 1] = <<r + 1, sent[r + 1]>> /\ \A i \in 1 .. r : d[i] = a[i]
  <2>1. r + 1 \in 1 .. r + 1 /\ \A i \in 1 .. r : i \in 1 .. r + 1
    OBVIOUS
  <2>2. d[r + 1] = <<r + 1, sent[r + 1]>>
    BY <1>5, <1>7, <2>1, Zenon
  <2>3. \A i \in 1 .. r : d[i] = a[i]
    <3>1. TAKE i \in 1 .. r
    <3>2. d[i] = <<i, received'[i]>>
      BY <1>7, <2>1, Zenon
    <3>3. a[i] = <<i, received[i]>>
      BY <1>6, Zenon
    <3>4. QED BY <1>5, <3>2, <3>3, Zenon
  <2>4. QED BY <1>6, <1>7, <2>2, <2>3, Zenon
<1> HIDE DEF w, z, a, d
<1>11. z = Tail(w)
  <2>1. /\ Tail(w) \in Seq(T) /\ Len(Tail(w)) = k
        /\ \A i \in 1 .. k : Tail(w)[i] = w[i + 1]
    BY <1>9, HeadTailProperties
  <2>2. QED BY <1>9, <2>1, SeqEqual
<1>12. Head(w) = w[1] /\ w[1] \in T
  <2>1. Head(w) = w[1]
    BY <1>9
  <2>2. 1 \in 1 .. Len(w)
    BY <1>8, <1>9, Zenon
  <2>3. QED BY <1>9, <2>1, <2>2, ElementOfSeq
<1>13. d = Append(a, Head(w))
  <2>1. PICK e \in T : e = Head(w) /\ e = d[r + 1]
    BY <1>9, <1>10, <1>12, Zenon
  <2>2. /\ Append(a, e) \in Seq(T) /\ Len(Append(a, e)) = r + 1
        /\ \A i \in 1 .. r : Append(a, e)[i] = a[i]
        /\ Append(a, e)[r + 1] = e
    BY <1>10, AppendProperties
  <2>3. \A i \in 1 .. r + 1 : i \in 1 .. r \/ i = r + 1
    OBVIOUS
  <2>4. \A i \in 1 .. r + 1 : d[i] = Append(a, e)[i]
    BY <1>10, <2>1, <2>2, <2>3, Zenon
  <2>5. QED BY <1>10, <2>1, <2>2, <2>4, SeqEqual
<1>14. QED BY <1>9, <1>11, <1>13 DEF Box!RunOldest, w, z, a, d

(* Every step posts, runs the oldest or is invisible. *)
LEMMA NextRefines == IInv /\ [Next]_vars => [Box!BoxNext]_Box!boxVars
<1> SUFFICES ASSUME IInv, [Next]_vars PROVE [Box!BoxNext]_Box!boxVars
  OBVIOUS
<1>1. ASSUME NEW m \in Messages, Send(m) PROVE Box!BoxNext
  <2>1. <<Len(sent) + 1, m>> \in (1 .. MaxSent) \X Messages
    BY <1>1, SendPosts
  <2>2. Box!Post(<<Len(sent) + 1, m>>)
    BY <1>1, SendPosts
  <2>3. QED BY <2>1, <2>2 DEF Box!BoxNext
<1>2. ASSUME PickMessage PROVE Box!BoxNext
  BY <1>2, PickRunsOldest DEF Box!BoxNext
<1>3. ASSUME UNCHANGED <<sent, received>> PROVE UNCHANGED Box!boxVars
  BY <1>3 DEF OnTheWay, Arrived, Box!boxVars
<1>4. Transmit \/ HandleRead \/ ReadSome \/ ReadAgain \/ NoMessage \/ UNCHANGED vars
        => UNCHANGED <<sent, received>>
  BY DEF Transmit, HandleRead, ReadSome, ReadAgain, NoMessage, vars
<1>5. QED BY <1>1, <1>2, <1>3, <1>4 DEF Next

(* Framing implements the mailbox: each message once, whole, in order. *)
THEOREM BufferImplementsMailbox == Spec => ImplementsMailbox
BY InitIInv, NextIInv, InitRefines, NextRefines, PTL
   DEF Spec, ImplementsMailbox, Box!BoxSpec
=============================================================================
