------------------------- MODULE FrameStreamProofs -------------------------
(***************************************************************************)
(* However the reads cut the connection into pieces, the caller gets the   *)
(* container's output: proofs of what FrameStream promises.                *)
(***************************************************************************)
EXTENDS FrameStream, SequenceTheorems, TLAPS

-----------------------------------------------------------------------------
(* Sequences of bytes                                                      *)

(* A read takes the first k bytes and leaves the others.                   *)
LEMMA TakeDrop ==
    ASSUME NEW S, NEW s \in Seq(S), NEW k \in 0..Len(s)
    PROVE  /\ Take(s, k) \in Seq(S) /\ Len(Take(s, k)) = k
           /\ \A i \in 1..k : Take(s, k)[i] = s[i]
           /\ Drop(s, k) \in Seq(S) /\ Len(Drop(s, k)) = Len(s) - k
           /\ \A i \in 1..(Len(s) - k) : Drop(s, k)[i] = s[i + k]
  <1>1. Len(s) \in Nat /\ \A i \in 1..Len(s) : s[i] \in S
    BY LenProperties, ElementOfSeq
  <1>2. \A i \in 1..k : s[i] \in S
    BY <1>1
  <1>3. /\ Take(s, k) \in Seq(S) /\ Len(Take(s, k)) = k
        /\ \A i \in 1..k : Take(s, k)[i] = s[i]
    BY <1>1, <1>2, SubSeqProperties DEF Take
  <1>4. \A i \in (k + 1)..Len(s) : s[i] \in S
    BY <1>1
  <1>5. /\ Drop(s, k) \in Seq(S) /\ Len(Drop(s, k)) = Len(s) - k
        /\ \A i \in 1..(Len(s) - k) : Drop(s, k)[i] = s[i + k]
    BY <1>1, <1>4, SubSeqProperties DEF Drop
  <1> QED
    BY <1>3, <1>5

(* What is written comes after what was there.                             *)
LEMMA Joined ==
    ASSUME NEW S, NEW s \in Seq(S), NEW t \in Seq(S)
    PROVE  /\ s \o t \in Seq(S) /\ Len(s \o t) = Len(s) + Len(t)
           /\ \A i \in 1..Len(s) : (s \o t)[i] = s[i]
           /\ \A i \in 1..Len(t) : (s \o t)[Len(s) + i] = t[i]
  <1>1. Len(s) \in Nat /\ Len(t) \in Nat
    BY LenProperties
  <1>2. /\ s \o t \in Seq(S) /\ Len(s \o t) = Len(s) + Len(t)
        /\ \A i \in 1..(Len(s) + Len(t)) :
              (s \o t)[i] = IF i <= Len(s) THEN s[i] ELSE t[i - Len(s)]
    BY ConcatProperties
  <1>3. ASSUME NEW i \in 1..Len(t) PROVE (s \o t)[Len(s) + i] = t[i]
    <2>1. Len(s) + i \in 1..(Len(s) + Len(t)) /\ ~(Len(s) + i <= Len(s)) /\ (Len(s) + i) - Len(s) = i
      BY <1>1
    <2> QED
      BY <1>2, <2>1
  <1>4. ASSUME NEW i \in 1..Len(s) PROVE (s \o t)[i] = s[i]
    BY <1>1, <1>2
  <1> QED
    BY <1>2, <1>3, <1>4

(* What a frame adds to the output and to the connection.                  *)
LEMMA Bytes ==
    ASSUME NEW s \in Stream \union {STDOUT}, NEW n \in Nat, NEW k \in Nat
    PROVE  /\ [i \in 1..n |-> PayloadByte(s, k + i)] \in Seq(ByteType)
           /\ Len([i \in 1..n |-> PayloadByte(s, k + i)]) = n
           /\ [i \in 1..HeaderSize |-> HeaderByte(s, n)] \in Seq(ByteType)
           /\ Len([i \in 1..HeaderSize |-> HeaderByte(s, n)]) = HeaderSize
  <1>1. \A i \in 1..n : PayloadByte(s, k + i) \in ByteType
    BY DEF PayloadByte, ByteType
  <1>2. HeaderByte(s, n) \in ByteType
    BY DEF HeaderByte, ByteType
  <1> QED
    BY <1>1, <1>2, FrameConstants

(* One sequence is the beginning of another.                               *)
LEMMA ExtendsPointwise ==
    ASSUME NEW S, NEW s \in Seq(S), NEW t \in Seq(S), Len(t) <= Len(s),
           \A i \in 1..Len(t) : t[i] = s[i]
    PROVE  Ordered!Extends(s, t)
  <1>1. Len(t) \in Nat /\ Len(s) \in Nat /\ \A i \in 1..Len(t) : s[i] \in S
    BY LenProperties, ElementOfSeq
  <1>2. /\ SubSeq(s, 1, Len(t)) \in Seq(S) /\ Len(SubSeq(s, 1, Len(t))) = Len(t)
        /\ \A i \in 1..Len(t) : SubSeq(s, 1, Len(t))[i] = s[i]
    BY <1>1, SubSeqProperties
  <1>3. t = SubSeq(s, 1, Len(t))
    BY <1>2, SeqEqual
  <1> QED
    BY <1>3 DEF Ordered!Extends

-----------------------------------------------------------------------------
(* The inductive invariant                                                 *)

(* Where the frames are that have been sent: frame f follows at[f] bytes   *)
(* of the connection, and pos[f] bytes of each channel's output.           *)
Plan == [at : [Nat -> Nat], stream : [Nat -> Stream \union {STDOUT}], size : [Nat -> 0..MaxPayload],
         pos : [Nat -> [Channel -> Nat]]]

Planned(L) ==
    /\ \A f \in Nat : f < frames =>
          /\ L.at[f + 1] = L.at[f] + HeaderSize + L.size[f]
          /\ \A c \in Channel : L.pos[f + 1][c] =
                IF c = Into(mode, L.stream[f]) THEN L.pos[f][c] + L.size[f] ELSE L.pos[f][c]
    /\ \A f, g \in Nat : f < g /\ g <= frames => L.at[f] + HeaderSize + L.size[f] <= L.at[g]
    /\ \A f \in Nat, c \in Channel : f <= frames => L.pos[f][c] <= Len(sent[c])
    /\ \A c \in Channel : L.pos[frames][c] = Len(sent[c])

(* N bytes of the connection have been read, and those that have not are   *)
(* the ones that were planned.                                             *)
Carried(L, N) ==
    /\ N + Len(wire) <= L.at[frames]
    /\ ~cut => N + Len(wire) = L.at[frames]
    /\ \A f \in Nat, i \in 1..HeaderSize, j \in 1..Len(wire) :
          f < frames /\ N + j = L.at[f] + i => wire[j] = HeaderByte(L.stream[f], L.size[f])
    /\ \A f \in Nat, i \in 1..MaxPayload, j \in 1..Len(wire) :
          f < frames /\ i <= L.size[f] /\ N + j = L.at[f] + HeaderSize + i =>
             wire[j] = sent[Into(mode, L.stream[f])][L.pos[f][Into(mode, L.stream[f])] + i]

(* The reader is in the header or in the payload of frame r.               *)
Reading(L, N, r) ==
    /\ r <= frames
    /\ pc \in {"head", "frame"} =>
          /\ N = L.at[r] + Len(buf)
          /\ Len(buf) > 0 => r < frames
          /\ \A i \in 1..Len(buf) : buf[i] = HeaderByte(L.stream[r], L.size[r])
          /\ \A c \in Channel : Len(got[c]) = L.pos[r][c]
    /\ pc = "body" =>
          /\ r < frames /\ stream = L.stream[r] /\ 0 < left /\ left <= L.size[r]
          /\ N + left = L.at[r + 1]
          /\ \A c \in Channel : L.pos[r + 1][c] =
                IF c = Into(mode, stream) THEN Len(got[c]) + left ELSE Len(got[c])

Framing == pc \in {"frame", "body"} \/ (pc = "head" /\ ~mode.tty) =>
              \E L \in Plan, N \in Nat, r \in Nat : Planned(L) /\ Carried(L, N) /\ Reading(L, N, r)

\* With a terminal the connection carries what has been written and not read.
Raw == pc = "raw" \/ (pc = "head" /\ mode.tty) =>
          LET c == Into(mode, STDOUT)
          IN  /\ Len(got[c]) + Len(wire) <= Len(sent[c])
              /\ ~cut => Len(got[c]) + Len(wire) = Len(sent[c])
              /\ \A j \in 1..Len(wire) : wire[j] = sent[c][Len(got[c]) + j]
              /\ \A d \in Channel \ {c} : sent[d] = <<>>

\* The caller has the beginning of the output of every channel.
Beginning == \A c \in Channel : /\ Len(got[c]) <= Len(sent[c])
                                /\ \A i \in 1..Len(got[c]) : got[c][i] = sent[c][i]

\* What a quiet end tells.
Ended == pc = "done" /\ ~MayEndEarly =>
            /\ wire = <<>> /\ (closed \/ cut)
            /\ closed => \A c \in Channel : Len(got[c]) = Len(sent[c])
            /\ ~Socket => closed

Sound == /\ pc \in {"frame", "body"} => ~mode.tty
         /\ pc = "raw" => mode.tty
         /\ pc \in {"head", "body"} => buf = <<>>
         /\ ~Socket => buf = <<>>
         /\ ~(closed /\ cut)

IInv == TypeOK /\ Sound /\ Framing /\ Raw /\ Beginning /\ Ended

-----------------------------------------------------------------------------
(* The daemon and the connection                                           *)

\* The effect of sending a frame or, to a terminal, of writing.
Sent(c, s, n) ==
    /\ sent' \in [Channel -> Seq(ByteType)]
    /\ \A d \in Channel \ {c} : sent'[d] = sent[d]
    /\ Len(sent'[c]) = Len(sent[c]) + n
    /\ \A i \in 1..Len(sent[c]) : sent'[c][i] = sent[c][i]
    /\ wire' \in Seq(ByteType)
    /\ \A j \in 1..Len(wire) : wire'[j] = wire[j]

(* Every stream belongs to a channel.                                      *)
LEMMA ChannelOfStream == ASSUME NEW m, NEW s PROVE Into(m, s) \in Channel
  BY DEF Into, Channel

(* What is sent comes last, in the output and on the connection.           *)
LEMMA SendEffect ==
    ASSUME TypeOK, NEW s \in Stream \union {STDOUT}, NEW n \in 0..MaxPayload, Send(s, n)
    PROVE  LET c == Into(mode, s)
               h == IF mode.tty THEN 0 ELSE HeaderSize
           IN  /\ Sent(c, s, n)
               /\ Len(wire') = Len(wire) + h + n
               /\ \A i \in 1..h : wire'[Len(wire) + i] = HeaderByte(s, n)
               /\ \A i \in 1..n : wire'[Len(wire) + h + i] = sent'[c][Len(sent[c]) + i]
  <1> DEFINE c == Into(mode, s)
             h == IF mode.tty THEN 0 ELSE HeaderSize
             payload == [i \in 1..n |-> PayloadByte(s, Len(sent[c]) + i)]
             header == [i \in 1..HeaderSize |-> HeaderByte(s, n)]
             added == IF mode.tty THEN payload ELSE header \o payload
  <1>1. c \in Channel /\ sent[c] \in Seq(ByteType) /\ Len(sent[c]) \in Nat /\ n \in Nat /\ HeaderSize \in Nat
    BY ChannelOfStream, LenProperties, FrameConstants DEF TypeOK
  <1>2. /\ payload \in Seq(ByteType) /\ Len(payload) = n
        /\ header \in Seq(ByteType) /\ Len(header) = HeaderSize
    BY <1>1, Bytes
  <1>3. sent' = [sent EXCEPT ![c] = sent[c] \o payload] /\ wire' = wire \o added
    BY DEF Send
  <1>4. /\ sent'[c] = sent[c] \o payload /\ \A d \in Channel \ {c} : sent'[d] = sent[d]
        /\ DOMAIN sent' = Channel
    BY <1>1, <1>3 DEF TypeOK
  <1>5. /\ sent'[c] \in Seq(ByteType)
        /\ Len(sent'[c]) = Len(sent[c]) + n
        /\ \A i \in 1..Len(sent[c]) : sent'[c][i] = sent[c][i]
        /\ \A i \in 1..n : sent'[c][Len(sent[c]) + i] = payload[i]
    <2> HIDE DEF payload, c
    <2>0. sent[c] \in Seq(ByteType) /\ payload \in Seq(ByteType)
      BY <1>1, <1>2
    <2>1. /\ sent[c] \o payload \in Seq(ByteType)
          /\ Len(sent[c] \o payload) = Len(sent[c]) + Len(payload)
          /\ \A i \in 1..Len(sent[c]) : (sent[c] \o payload)[i] = sent[c][i]
          /\ \A i \in 1..Len(payload) : (sent[c] \o payload)[Len(sent[c]) + i] = payload[i]
      BY <2>0, Joined
    <2> QED
      BY <1>2, <1>4, <2>1
  <1>6. sent' \in [Channel -> Seq(ByteType)]
    BY <1>1, <1>3, <1>5 DEF TypeOK
  <1>7. /\ added \in Seq(ByteType) /\ Len(added) = h + n
        /\ \A i \in 1..h : added[i] = header[i]
        /\ \A i \in 1..n : added[h + i] = payload[i]
    <2> HIDE DEF payload, header
    <2>1. PICK x \in Seq(ByteType), y \in Seq(ByteType) : x = header /\ y = payload
      BY <1>2
    <2>2. PICK both : both = x \o y
      OBVIOUS
    <2>3. /\ both \in Seq(ByteType) /\ Len(both) = Len(x) + Len(y)
          /\ \A i \in 1..Len(x) : both[i] = x[i]
          /\ \A i \in 1..Len(y) : both[Len(x) + i] = y[i]
      BY <2>2, Joined
    <2>4. /\ both \in Seq(ByteType) /\ Len(both) = HeaderSize + n
          /\ \A i \in 1..HeaderSize : both[i] = header[i]
          /\ \A i \in 1..n : both[HeaderSize + i] = payload[i]
      BY <1>2, <2>1, <2>3
    <2>5. /\ mode.tty => h = 0 /\ added = payload
          /\ ~mode.tty => h = HeaderSize /\ added = both
      BY <2>1, <2>2
    <2> HIDE DEF h, added
    <2>6. CASE mode.tty
      BY <1>1, <1>2, <2>5, <2>6
    <2>7. CASE ~mode.tty
      BY <2>4, <2>5, <2>7
    <2> QED
      BY <2>6, <2>7
  <1>8. /\ wire' \in Seq(ByteType) /\ Len(wire') = Len(wire) + h + n
        /\ \A j \in 1..Len(wire) : wire'[j] = wire[j]
        /\ \A j \in 1..(h + n) : wire'[Len(wire) + j] = added[j]
    <2> HIDE DEF added
    <2>1. wire \in Seq(ByteType) /\ Len(wire) \in Nat /\ h \in Nat
      BY <1>1, LenProperties DEF TypeOK
    <2>2. /\ wire \o added \in Seq(ByteType)
          /\ Len(wire \o added) = Len(wire) + Len(added)
          /\ \A j \in 1..Len(wire) : (wire \o added)[j] = wire[j]
          /\ \A j \in 1..Len(added) : (wire \o added)[Len(wire) + j] = added[j]
      <3>1. wire \in Seq(ByteType) /\ added \in Seq(ByteType)
        BY <1>7, <2>1
      <3> QED
        BY <3>1, Joined
    <2> HIDE DEF h
    <2>3. Len(wire \o added) = Len(wire) + h + n
      BY <1>1, <1>7, <2>1, <2>2
    <2> QED
      BY <1>3, <1>7, <2>2, <2>3
  <1>9. \A i \in 1..h : wire'[Len(wire) + i] = HeaderByte(s, n)
    <2> SUFFICES ASSUME NEW i \in 1..h PROVE wire'[Len(wire) + i] = HeaderByte(s, n)
      OBVIOUS
    <2>1. i \in 1..HeaderSize /\ i \in 1..(h + n)
      BY <1>1
    <2>2. header[i] = HeaderByte(s, n)
      BY <2>1
    <2> HIDE DEF payload, header, added, h
    <2> QED
      BY <1>7, <1>8, <2>1, <2>2
  <1>10. \A i \in 1..n : wire'[Len(wire) + h + i] = sent'[c][Len(sent[c]) + i]
    <2> SUFFICES ASSUME NEW i \in 1..n PROVE wire'[Len(wire) + h + i] = payload[i]
      BY <1>5
    <2>1. Len(wire) \in Nat /\ h \in Nat
      BY <1>1, LenProperties DEF TypeOK
    <2>2. h + i \in 1..(h + n) /\ Len(wire) + h + i = Len(wire) + (h + i)
      BY <1>1, <2>1
    <2> HIDE DEF payload, added, h
    <2> QED
      BY <1>7, <1>8, <2>2
  <1> QED
    BY <1>4, <1>5, <1>6, <1>8, <1>9, <1>10 DEF Sent

(* Plan M is plan L with a frame F of n bytes of stream s after the others. *)
Extended(L, M, s, n, F) ==
    /\ \A f \in Nat : f <= F => M.at[f] = L.at[f] /\ M.pos[f] = L.pos[f]
    /\ \A f \in Nat : f < F => M.stream[f] = L.stream[f] /\ M.size[f] = L.size[f]
    /\ M.stream[F] = s /\ M.size[F] = n
    /\ M.at[F + 1] = L.at[F] + HeaderSize + n
    /\ \A d \in Channel : M.pos[F + 1][d] =
          IF d = Into(mode, s) THEN L.pos[F][d] + n ELSE L.pos[F][d]

(* Sending a frame extends the plan: the numbers ...                       *)
LEMMA PlanExtended ==
    ASSUME NEW L \in Plan, NEW s \in Stream \union {STDOUT}, NEW n \in 0..MaxPayload, NEW F \in Nat
    PROVE  \E M \in Plan : Extended(L, M, s, n, F)
  <1> DEFINE end == L.at[F] + HeaderSize + n
             next == [d \in Channel |-> IF d = Into(mode, s) THEN L.pos[F][d] + n ELSE L.pos[F][d]]
             M == [at |-> [L.at EXCEPT ![F + 1] = end], stream |-> [L.stream EXCEPT ![F] = s],
                   size |-> [L.size EXCEPT ![F] = n], pos |-> [L.pos EXCEPT ![F + 1] = next]]
  <1>1. /\ L.at \in [Nat -> Nat] /\ L.stream \in [Nat -> Stream \union {STDOUT}]
        /\ L.size \in [Nat -> 0..MaxPayload] /\ L.pos \in [Nat -> [Channel -> Nat]]
    BY DEF Plan
  <1>2. L.at[F] \in Nat /\ HeaderSize \in Nat /\ n \in Nat /\ F + 1 \in Nat
    BY <1>1, FrameConstants
  <1>3. end \in Nat
    BY <1>2
  <1>4. next \in [Channel -> Nat]
    <2>1. \A d \in Channel : L.pos[F][d] \in Nat
      BY <1>1
    <2>2. \A d \in Channel : L.pos[F][d] + n \in Nat
      BY <1>2, <2>1
    <2> QED
      BY <2>1, <2>2
  <1>5. \A d \in Channel : next[d] = IF d = Into(mode, s) THEN L.pos[F][d] + n ELSE L.pos[F][d]
    OBVIOUS
  <1> HIDE DEF next
  <1>6. M \in Plan
    <2> HIDE DEF end
    <2> QED
      BY <1>1, <1>2, <1>3, <1>4 DEF Plan
  <1>7. \A f \in Nat : (f <= F => f # F + 1) /\ (f < F => f # F)
    OBVIOUS
  <1>8. /\ \A f \in Nat : f <= F => M.at[f] = L.at[f]
        /\ M.at[F + 1] = end
    <2> HIDE DEF end
    <2> QED
      BY <1>1, <1>2, <1>7
  <1>9. /\ \A f \in Nat : f <= F => M.pos[f] = L.pos[f]
        /\ M.pos[F + 1] = next
    BY <1>1, <1>2, <1>7
  <1>10. /\ \A f \in Nat : f < F => M.stream[f] = L.stream[f] /\ M.size[f] = L.size[f]
         /\ M.stream[F] = s /\ M.size[F] = n
    BY <1>1, <1>2, <1>7
  <1> HIDE DEF M
  <1> QED
    BY <1>5, <1>6, <1>8, <1>9, <1>10 DEF Extended

(* The parts of a plan have their types.                                   *)
LEMMA PlanTypes ==
    ASSUME NEW L \in Plan, NEW f \in Nat
    PROVE  /\ L.at[f] \in Nat /\ L.size[f] \in Nat /\ L.size[f] <= MaxPayload
           /\ L.stream[f] \in Stream \union {STDOUT} /\ Into(mode, L.stream[f]) \in Channel
           /\ \A d \in Channel : L.pos[f][d] \in Nat
  <1>1. /\ L.at[f] \in Nat /\ L.size[f] \in 0..MaxPayload /\ L.stream[f] \in Stream \union {STDOUT}
        /\ L.pos[f] \in [Channel -> Nat]
    BY DEF Plan
  <1>2. L.size[f] \in Nat /\ L.size[f] <= MaxPayload
    BY <1>1, FrameConstants
  <1> QED
    BY <1>1, <1>2, ChannelOfStream

(* What is counted is a number.                                            *)
LEMMA Counts ==
    ASSUME TypeOK
    PROVE  /\ frames \in Nat /\ HeaderSize \in Nat /\ HeaderSize > 0 /\ MaxPayload \in Nat
           /\ left \in Nat /\ Len(wire) \in Nat /\ Len(buf) \in Nat
           /\ \A d \in Channel : Len(sent[d]) \in Nat /\ Len(got[d]) \in Nat
  <1>1. frames \in Nat /\ HeaderSize \in Nat /\ HeaderSize > 0 /\ MaxPayload \in Nat /\ left \in Nat
    BY FrameConstants DEF TypeOK
  <1>2. wire \in Seq(ByteType) /\ buf \in Seq(ByteType)
        /\ \A d \in Channel : sent[d] \in Seq(ByteType) /\ got[d] \in Seq(ByteType)
    BY DEF TypeOK
  <1> QED
    BY <1>1, <1>2, LenProperties

(* A byte of a payload of a frame that ends before the unread bytes do is  *)
(* one of them.                                                            *)
LEMMA InPayload ==
    ASSUME NEW N \in Nat, NEW a \in Nat, NEW h \in Nat, NEW z \in Nat, NEW t \in Nat, NEW w \in Nat,
           NEW j \in Nat, NEW i \in Nat, 1 <= j, i <= z, a + h + z <= t, N + w = t, N + j = a + h + i
    PROVE  j \in 1..w
  OBVIOUS

(* A frame ends before the end of a frame that follows it.                 *)
LEMMA Further ==
    ASSUME NEW a \in Nat, NEW b \in Nat, NEW h \in Nat, NEW n \in Nat, NEW k \in Nat, a + h + k <= b
    PROVE  a + h + k <= b + h + n
  OBVIOUS

(* Places are told apart from the end of the unread bytes.                 *)
LEMMA Offset ==
    ASSUME NEW N \in Nat, NEW i \in Nat, NEW j \in Nat, NEW w \in Nat, N + j = N + w + i
    PROVE  j = w + i
  OBVIOUS

(* A payload's place in the output is within the output.                   *)
LEMMA Within ==
    ASSUME NEW p \in Nat, NEW i \in Nat, NEW k \in Nat, NEW m \in Nat, 1 <= i, i <= k, p + k <= m
    PROVE  p + i \in 1..m
  OBVIOUS

(* ... and with them the bytes that are new.                               *)
LEMMA SendFraming ==
    ASSUME TypeOK, NEW s \in Stream \union {STDOUT}, NEW n \in 0..MaxPayload, Send(s, n), ~mode.tty,
           NEW L \in Plan, NEW N \in Nat, NEW r \in Nat,
           Planned(L), Carried(L, N), Reading(L, N, r)
    PROVE  \E M \in Plan : Planned(M)' /\ Carried(M, N)' /\ Reading(M, N, r)'
  <1>1. frames \in Nat /\ HeaderSize \in Nat /\ Len(wire) \in Nat /\ n \in Nat
    BY Counts, FrameConstants
  <1>0. \E M \in Plan : Extended(L, M, s, n, frames)
    BY <1>1, PlanExtended
  <1>p. PICK M \in Plan : Extended(L, M, s, n, frames)
    BY <1>0
  <1>2. /\ \A f \in Nat : f <= frames => M.at[f] = L.at[f] /\ M.pos[f] = L.pos[f]
        /\ \A f \in Nat : f < frames => M.stream[f] = L.stream[f] /\ M.size[f] = L.size[f]
        /\ M.stream[frames] = s /\ M.size[frames] = n
        /\ M.at[frames + 1] = L.at[frames] + HeaderSize + n
        /\ \A d \in Channel : M.pos[frames + 1][d] =
              IF d = Into(mode, s) THEN L.pos[frames][d] + n ELSE L.pos[frames][d]
    BY <1>p DEF Extended
  <1>3. /\ frames' = frames + 1 /\ ~cut /\ ~cut'
        /\ UNCHANGED <<mode, pc, buf, stream, left, got>>
    BY DEF Send, Open, reader
  <1>4. /\ Sent(Into(mode, s), s, n)
        /\ Len(wire') = Len(wire) + HeaderSize + n
        /\ \A i \in 1..HeaderSize : wire'[Len(wire) + i] = HeaderByte(s, n)
        /\ \A i \in 1..n : wire'[Len(wire) + HeaderSize + i] = sent'[Into(mode, s)][Len(sent[Into(mode, s)]) + i]
    BY SendEffect
  <1>5. \A f \in Nat : f < frames + 1 <=> f < frames \/ f = frames
    BY <1>1
  <1>6. \A f \in Nat : f <= frames + 1 <=> f <= frames \/ f = frames + 1
    BY <1>1
  <1>7. /\ M.at[frames] = L.at[frames] /\ M.pos[frames] = L.pos[frames] /\ L.at[frames] \in Nat
        /\ \A d \in Channel : L.pos[frames][d] = Len(sent[d]) /\ Len(sent[d]) \in Nat
    BY <1>1, <1>2, PlanTypes, Counts DEF Planned
  <1>8. \A d \in Channel : Len(sent'[d]) = IF d = Into(mode, s) THEN Len(sent[d]) + n ELSE Len(sent[d])
    BY <1>4 DEF Sent
  <1>10. Planned(M)'
    <2>1. ASSUME NEW f \in Nat, f < frames + 1
          PROVE  /\ M.at[f + 1] = M.at[f] + HeaderSize + M.size[f]
                 /\ \A d \in Channel : M.pos[f + 1][d] =
                       IF d = Into(mode, M.stream[f]) THEN M.pos[f][d] + M.size[f] ELSE M.pos[f][d]
      <3>1. CASE f = frames
        BY <1>2, <1>7, <3>1
      <3>2. CASE f < frames
        <4>1. f + 1 \in Nat /\ f + 1 <= frames /\ f <= frames
          BY <1>1, <3>2
        <4>2. /\ M.at[f + 1] = L.at[f + 1] /\ M.at[f] = L.at[f] /\ M.size[f] = L.size[f]
              /\ M.pos[f + 1] = L.pos[f + 1] /\ M.pos[f] = L.pos[f] /\ M.stream[f] = L.stream[f]
          BY <1>2, <3>2, <4>1
        <4> QED
          BY <3>2, <4>2 DEF Planned
      <3> QED
        BY <1>5, <2>1, <3>1, <3>2
    <2>2. ASSUME NEW f \in Nat, NEW g \in Nat, f < g, g <= frames + 1
          PROVE  M.at[f] + HeaderSize + M.size[f] <= M.at[g]
      <3>1. CASE g <= frames
        <4>1. f < frames /\ f <= frames
          BY <1>1, <2>2, <3>1
        <4>2. M.at[f] = L.at[f] /\ M.size[f] = L.size[f] /\ M.at[g] = L.at[g]
          BY <1>2, <3>1, <4>1
        <4> QED
          BY <2>2, <3>1, <4>2 DEF Planned
      <3>2. CASE g = frames + 1 /\ f = frames
        <4>1. M.at[g] = M.at[f] + HeaderSize + M.size[f] /\ M.at[g] \in Nat
          BY <1>2, <1>7, <3>2, PlanTypes
        <4> QED
          BY <4>1
      <3>3. CASE g = frames + 1 /\ f < frames
        <4>1. L.at[f] + HeaderSize + L.size[f] <= L.at[frames]
          BY <1>1, <3>3 DEF Planned
        <4>2. M.at[f] = L.at[f] /\ M.size[f] = L.size[f] /\ M.at[g] = L.at[frames] + HeaderSize + n
          BY <1>1, <1>2, <3>3
        <4>3. L.at[f] \in Nat /\ L.size[f] \in Nat
          BY PlanTypes
        <4> QED
          <5>1. L.at[f] + HeaderSize + L.size[f] <= L.at[frames] + HeaderSize + n
            BY <1>1, <1>7, <4>1, <4>3, Further
          <5> QED
            BY <4>2, <5>1
      <3>4. g <= frames \/ (g = frames + 1 /\ (f = frames \/ f < frames))
        BY <1>1, <2>2
      <3> QED
        BY <3>1, <3>2, <3>3, <3>4
    <2>3. ASSUME NEW f \in Nat, NEW d \in Channel, f <= frames + 1
          PROVE  M.pos[f][d] <= Len(sent'[d])
      <3>1. Len(sent'[d]) = (IF d = Into(mode, s) THEN Len(sent[d]) + n ELSE Len(sent[d])) /\ Len(sent[d]) \in Nat
        BY <1>7, <1>8
      <3>2. CASE f <= frames
        <4>1. M.pos[f][d] = L.pos[f][d] /\ L.pos[f][d] <= Len(sent[d]) /\ L.pos[f][d] \in Nat
          BY <1>2, <3>2, PlanTypes DEF Planned
        <4> QED
          BY <1>1, <3>1, <4>1
      <3>3. CASE f = frames + 1
        <4>1. M.pos[f][d] = IF d = Into(mode, s) THEN Len(sent[d]) + n ELSE Len(sent[d])
          BY <1>2, <1>7, <3>3
        <4> QED
          BY <1>1, <3>1, <4>1
      <3> QED
        BY <1>6, <2>3, <3>2, <3>3
    <2>4. ASSUME NEW d \in Channel PROVE M.pos[frames + 1][d] = Len(sent'[d])
      BY <1>2, <1>7, <1>8
    <2> QED
      BY <1>3, <2>1, <2>2, <2>3, <2>4 DEF Planned
  <1>11. Carried(M, N)'
    <2>1. N + Len(wire) = L.at[frames]
      BY <1>3 DEF Carried
    <2>2. N + Len(wire') = M.at[frames + 1]
      BY <1>1, <1>2, <1>4, <2>1
    <2>3. ASSUME NEW f \in Nat, NEW i \in 1..HeaderSize, NEW j \in 1..Len(wire'),
                 f < frames + 1, N + j = M.at[f] + i
          PROVE  wire'[j] = HeaderByte(M.stream[f], M.size[f])
      <3>1. CASE f = frames
        <4>1. M.at[f] = N + Len(wire)
          BY <1>7, <2>1, <3>1
        <4>2. i \in Nat /\ j \in Nat
          BY <1>1, <1>4
        <4>3. j = Len(wire) + i
          BY <1>1, <2>3, <4>1, <4>2, Offset
        <4> QED
          BY <1>2, <1>4, <3>1, <4>3
      <3>2. CASE f < frames
        <4>1. M.at[f] = L.at[f] /\ M.stream[f] = L.stream[f] /\ M.size[f] = L.size[f]
          BY <1>1, <1>2, <3>2
        <4>2. L.at[f] + HeaderSize + L.size[f] <= L.at[frames]
          BY <1>1, <3>2 DEF Planned
        <4>3. L.at[f] \in Nat /\ L.size[f] \in Nat
          BY PlanTypes
        <4>4. i \in Nat /\ j \in Nat /\ 1 <= j /\ i <= HeaderSize
          BY <1>1, <1>4
        <4>5. j \in 1..Len(wire) /\ N + j = L.at[f] + i
          <5>1. N + j = L.at[f] + i
            BY <2>3, <4>1
          <5>2. L.at[frames] \in Nat /\ HeaderSize \in Nat /\ Len(wire) \in Nat
            BY <1>1, <1>7
          <5>3. /\ N + j = L.at[f] + i /\ 1 <= j /\ i <= HeaderSize /\ i \in Nat /\ j \in Nat
                /\ L.at[f] + HeaderSize + L.size[f] <= L.at[frames] /\ N + Len(wire) = L.at[frames]
                /\ L.at[f] \in Nat /\ L.size[f] \in Nat /\ L.at[frames] \in Nat
            BY <2>1, <4>2, <4>3, <4>4, <5>1, <5>2
          <5>4. j \in 1..Len(wire)
            <6> DEFINE a == L.at[f]  z == L.size[f]  t == L.at[frames]  w == Len(wire)
            <6>1. /\ N + j = a + i /\ 1 <= j /\ i <= HeaderSize /\ i \in Nat /\ j \in Nat
                  /\ a + HeaderSize + z <= t /\ N + w = t
                  /\ a \in Nat /\ z \in Nat /\ t \in Nat /\ w \in Nat
              BY <5>2, <5>3
            <6> HIDE DEF a, z, t, w
            <6>2. j \in 1..w
              BY <5>2, <6>1
            <6> QED
              BY <6>2 DEF w
          <5> QED
            BY <5>1, <5>4
        <4>6. wire[j] = HeaderByte(L.stream[f], L.size[f])
          BY <3>2, <4>5 DEF Carried
        <4> QED
          BY <1>4, <4>1, <4>5, <4>6 DEF Sent
      <3> QED
        BY <1>5, <2>3, <3>1, <3>2
    <2>4. ASSUME NEW f \in Nat, NEW i \in 1..MaxPayload, NEW j \in 1..Len(wire'),
                 f < frames + 1, i <= M.size[f], N + j = M.at[f] + HeaderSize + i
          PROVE  wire'[j] = sent'[Into(mode, M.stream[f])][M.pos[f][Into(mode, M.stream[f])] + i]
      <3>0. i \in Nat /\ j \in Nat /\ 1 <= j /\ 1 <= i
        BY <1>1, <1>4, FrameConstants
      <3>1. CASE f = frames
        <4>1. M.at[f] = N + Len(wire) /\ M.size[f] = n
          BY <1>2, <1>7, <2>1, <3>1
        <4>2. j = Len(wire) + HeaderSize + i /\ i \in 1..n
          BY <1>1, <2>4, <3>0, <4>1
        <4>3. Into(mode, s) \in Channel
          BY ChannelOfStream
        <4>4. M.pos[f][Into(mode, s)] = Len(sent[Into(mode, s)]) /\ M.stream[f] = s
          BY <1>2, <1>7, <3>1, <4>3
        <4> QED
          BY <1>4, <4>2, <4>4
      <3>2. CASE f < frames
        <4> DEFINE d == Into(mode, L.stream[f])
        <4>1. /\ M.at[f] = L.at[f] /\ M.size[f] = L.size[f]
              /\ M.pos[f] = L.pos[f] /\ M.stream[f] = L.stream[f]
          BY <1>1, <1>2, <3>2
        <4>2. L.at[f] + HeaderSize + L.size[f] <= L.at[frames]
          BY <1>1, <3>2 DEF Planned
        <4>3. /\ L.at[f] \in Nat /\ L.size[f] \in Nat /\ d \in Channel
              /\ L.pos[f][d] \in Nat /\ Len(sent[d]) \in Nat
          BY PlanTypes, Counts
        <4> HIDE DEF d
        <4>4. j \in 1..Len(wire) /\ N + j = L.at[f] + HeaderSize + i
          <5>1. N + j = L.at[f] + HeaderSize + i /\ i <= L.size[f]
            BY <2>4, <4>1
          <5>2. L.at[frames] \in Nat /\ HeaderSize \in Nat /\ Len(wire) \in Nat
            BY <1>1, <1>7
          <5>3. j \in 1..Len(wire)
            BY <2>1, <3>0, <4>2, <4>3, <5>1, <5>2, InPayload
          <5> QED
            BY <5>1, <5>3
        <4>5. wire[j] = sent[d][L.pos[f][d] + i]
          BY <2>4, <3>2, <4>1, <4>4 DEF Carried, d
        <4>6. f + 1 \in Nat /\ f + 1 <= frames
          BY <1>1, <3>2
        <4>7. L.pos[f + 1][d] = L.pos[f][d] + L.size[f] /\ L.pos[f + 1][d] <= Len(sent[d])
          BY <3>2, <4>3, <4>6 DEF Planned, d
        <4>8. L.pos[f][d] + i \in 1..Len(sent[d])
          BY <2>4, <3>0, <4>1, <4>3, <4>7, Within
        <4>9. sent'[d][L.pos[f][d] + i] = sent[d][L.pos[f][d] + i]
          BY <1>4, <4>3, <4>8 DEF Sent
        <4>10. wire'[j] = wire[j]
          BY <1>4, <4>4 DEF Sent
        <4> QED
          BY <4>1, <4>5, <4>9, <4>10 DEF d
      <3> QED
        BY <1>5, <2>4, <3>1, <3>2
    <2>5. N + Len(wire') \in Nat /\ N + Len(wire') <= M.at[frames']
      BY <1>1, <1>3, <1>4, <2>2
    <2>6. /\ N + Len(wire') = M.at[frames']
          /\ \A f \in Nat, i \in 1..HeaderSize, j \in 1..Len(wire') :
                f < frames' /\ N + j = M.at[f] + i => wire'[j] = HeaderByte(M.stream[f], M.size[f])
      BY <1>3, <2>2, <2>3
    <2>7. \A f \in Nat, i \in 1..MaxPayload, j \in 1..Len(wire') :
             f < frames' /\ i <= M.size[f] /\ N + j = M.at[f] + HeaderSize + i =>
                wire'[j] = sent'[Into(mode', M.stream[f])][M.pos[f][Into(mode', M.stream[f])] + i]
      BY <1>3, <2>4
    <2> QED
      BY <2>5, <2>6, <2>7 DEF Carried
  <1>12. Reading(M, N, r)'
    <2>1. r <= frames /\ r <= frames + 1
      BY <1>1 DEF Reading
    <2>2. M.at[r] = L.at[r] /\ M.pos[r] = L.pos[r]
      BY <1>2, <2>1
    <2>3. r < frames => /\ M.stream[r] = L.stream[r] /\ M.size[r] = L.size[r] /\ r < frames + 1
                        /\ M.at[r + 1] = L.at[r + 1] /\ M.pos[r + 1] = L.pos[r + 1]
      <3>1. r < frames => r + 1 \in Nat /\ r + 1 <= frames /\ r < frames + 1
        BY <1>1
      <3> QED
        BY <1>2, <3>1
    <2>4. Len(buf) \in Nat /\ ~(Len(buf) > 0) => \A i \in 1..Len(buf) : FALSE
      OBVIOUS
    <2> QED
      BY <1>3, <2>1, <2>2, <2>3, <2>4, Counts DEF Reading
  <1> QED
    BY <1>10, <1>11, <1>12

-----------------------------------------------------------------------------
(* The reader                                                              *)

(* Where the reader's frame ends, and where the last frame does.           *)
LEMMA Ends ==
    ASSUME TypeOK, NEW L \in Plan, NEW r \in Nat, Planned(L), r <= frames
    PROVE  /\ L.at[r] \in Nat /\ L.at[frames] \in Nat
           /\ r = frames => L.at[r] = L.at[frames]
           /\ r < frames => /\ L.at[r + 1] = L.at[r] + HeaderSize + L.size[r]
                            /\ L.at[r + 1] <= L.at[frames] /\ L.at[r + 1] \in Nat
                            /\ L.size[r] \in Nat /\ L.size[r] <= MaxPayload
                            /\ L.stream[r] \in Stream \union {STDOUT}
                            /\ \A c \in Channel :
                                  /\ L.pos[r][c] \in Nat /\ L.pos[r + 1][c] <= Len(sent[c])
                                  /\ L.pos[r + 1][c] = IF c = Into(mode, L.stream[r]) THEN L.pos[r][c] + L.size[r]
                                                                             ELSE L.pos[r][c]
  <1>1. frames \in Nat /\ r \in Nat /\ r + 1 \in Nat
    BY Counts
  <1>2. L.at[r] \in Nat /\ L.at[frames] \in Nat
    BY <1>1, PlanTypes
  <1>3. ASSUME r < frames
        PROVE  /\ L.at[r + 1] = L.at[r] + HeaderSize + L.size[r]
               /\ L.at[r] + HeaderSize + L.size[r] <= L.at[frames]
               /\ \A c \in Channel : /\ L.pos[r + 1][c] <= Len(sent[c])
                                     /\ L.pos[r + 1][c] = IF c = Into(mode, L.stream[r]) THEN L.pos[r][c] + L.size[r]
                                                                               ELSE L.pos[r][c]
    <2>1. r + 1 <= frames /\ frames <= frames
      BY <1>1, <1>3
    <2> QED
      BY <1>1, <1>3, <2>1 DEF Planned
  <1>4. /\ L.at[r + 1] \in Nat /\ L.size[r] \in Nat /\ L.size[r] <= MaxPayload
        /\ L.stream[r] \in Stream \union {STDOUT} /\ \A c \in Channel : L.pos[r][c] \in Nat
    BY <1>1, PlanTypes
  <1> QED
    BY <1>2, <1>3, <1>4

(* What a read of the header finds on the connection.                      *)
LEMMA HeaderNext ==
    ASSUME TypeOK, NEW L \in Plan, NEW N \in Nat, NEW r \in Nat, Planned(L), Carried(L, N), Reading(L, N, r),
           pc \in {"head", "frame"}, Len(wire) > 0
    PROVE  /\ r < frames
           /\ \A j \in 1..Len(wire) :
                 Len(buf) + j <= HeaderSize => wire[j] = HeaderByte(L.stream[r], L.size[r])
  <1>1. /\ frames \in Nat /\ Len(wire) \in Nat /\ Len(buf) \in Nat /\ HeaderSize \in Nat
        /\ r <= frames /\ N = L.at[r] + Len(buf) /\ N + Len(wire) <= L.at[frames]
    BY Counts DEF Reading, Carried
  <1>2. L.at[r] \in Nat /\ L.at[frames] \in Nat /\ (r = frames => L.at[r] = L.at[frames])
    BY <1>1, Ends
  <1>3. r # frames
    <2> DEFINE a == L.at[r]  t == L.at[frames]  w == Len(wire)  b == Len(buf)
    <2>1. a \in Nat /\ t \in Nat /\ w \in Nat /\ b \in Nat /\ w > 0 /\ N = a + b /\ N + w <= t
      BY <1>1, <1>2
    <2> HIDE DEF a, t, w, b
    <2>2. a # t
      BY <2>1
    <2> QED
      BY <1>2, <2>2 DEF a, t
  <1>4. r < frames
    BY <1>1, <1>3
  <1>5. ASSUME NEW j \in 1..Len(wire), Len(buf) + j <= HeaderSize
        PROVE  wire[j] = HeaderByte(L.stream[r], L.size[r])
    <2> DEFINE i == Len(buf) + j
    <2>1. j \in Nat /\ i \in 1..HeaderSize
      BY <1>1, <1>5
    <2>2. N + j = L.at[r] + i
      <3> DEFINE a == L.at[r]  b == Len(buf)
      <3>1. a \in Nat /\ b \in Nat /\ N = a + b /\ i = b + j
        BY <1>1, <1>2
      <3> HIDE DEF a, b, i
      <3>2. N + j = a + i
        BY <2>1, <3>1
      <3> QED
        BY <3>2 DEF a
    <2> HIDE DEF i
    <2> QED
      BY <1>4, <2>1, <2>2 DEF Carried
  <1> QED
    BY <1>4, <1>5

(* What a read of the payload finds on the connection.                     *)
LEMMA PayloadNext ==
    ASSUME TypeOK, NEW L \in Plan, NEW N \in Nat, NEW r \in Nat, Planned(L), Carried(L, N), Reading(L, N, r),
           pc = "body"
    PROVE  LET c == Into(mode, stream)
           IN  /\ c \in Channel /\ left > 0 /\ Len(got[c]) + left <= Len(sent[c])
               /\ \A j \in 1..Len(wire) : j <= left => wire[j] = sent[c][Len(got[c]) + j]
  <1> DEFINE c == Into(mode, stream)  g == Len(got[c])  z == L.size[r]  p == L.pos[r][c]  a == L.at[r]
  <1>1. /\ r < frames /\ stream = L.stream[r] /\ 0 < left /\ left <= L.size[r] /\ N + left = L.at[r + 1]
        /\ \A d \in Channel : L.pos[r + 1][d] = IF d = Into(mode, stream) THEN Len(got[d]) + left ELSE Len(got[d])
    BY DEF Reading
  <1>2. c \in Channel /\ g \in Nat /\ left \in Nat /\ Len(wire) \in Nat /\ HeaderSize \in Nat /\ MaxPayload \in Nat
        /\ frames \in Nat /\ r <= frames
    BY <1>1, ChannelOfStream, Counts
  <1>3. /\ L.at[r + 1] = L.at[r] + HeaderSize + L.size[r] /\ a \in Nat
        /\ L.size[r] \in Nat /\ L.size[r] <= MaxPayload
        /\ \A d \in Channel :
              /\ L.pos[r][d] \in Nat /\ L.pos[r + 1][d] <= Len(sent[d])
              /\ L.pos[r + 1][d] = IF d = Into(mode, L.stream[r]) THEN L.pos[r][d] + L.size[r] ELSE L.pos[r][d]
    BY <1>1, <1>2, Ends
  <1>4. /\ p \in Nat /\ z \in Nat /\ a \in Nat /\ z <= MaxPayload
        /\ g + left = p + z /\ N + left = a + HeaderSize + z /\ left <= z
    BY <1>1, <1>2, <1>3
  <1>5. g + left <= Len(sent[c])
    BY <1>1, <1>2, <1>3
  <1>6. ASSUME NEW j \in 1..Len(wire), j <= left
        PROVE  wire[j] = sent[c][g + j]
    <2> DEFINE i == z - left + j
    <2> HIDE DEF a, z, p, g, c
    <2>1. i \in 1..MaxPayload /\ i <= z /\ N + j = a + HeaderSize + i /\ p + i = g + j
      BY <1>2, <1>4, <1>6
    <2> HIDE DEF i
    <2>2. wire[j] = sent[Into(mode, L.stream[r])][L.pos[r][Into(mode, L.stream[r])] + i]
      <3>1. i \in 1..MaxPayload /\ i <= L.size[r] /\ N + j = L.at[r] + HeaderSize + i /\ r < frames
        BY <1>1, <2>1 DEF a, z
      <3> QED
        BY <3>1 DEF Carried
    <2>3. wire[j] = sent[c][p + i]
      BY <1>1, <2>2 DEF c, p
    <2> QED
      BY <2>1, <2>3
  <1> QED
    BY <1>1, <1>2, <1>5, <1>6

(* Nothing is left to read of what was sent in order only when the reader  *)
(* is between two frames, and then it has given everything to the caller.  *)
LEMMA AtEnd ==
    ASSUME TypeOK, NEW L \in Plan, NEW N \in Nat, NEW r \in Nat, Planned(L), Carried(L, N), Reading(L, N, r),
           pc \in {"frame", "body"}, wire = <<>>, ~cut
    PROVE  pc = "frame" /\ \A c \in Channel : Len(got[c]) = Len(sent[c])
  <1>1. /\ Len(wire) = 0 /\ frames \in Nat /\ HeaderSize \in Nat /\ HeaderSize > 0
        /\ left \in Nat /\ Len(buf) \in Nat /\ Len(buf) < HeaderSize /\ r <= frames
    BY Counts DEF Reading, TypeOK
  <1>2. L.at[frames] \in Nat /\ L.at[r] \in Nat /\ N = L.at[frames]
    BY <1>1, Ends DEF Carried
  <1>3. r < frames => /\ L.at[r + 1] = L.at[r] + HeaderSize + L.size[r]
                      /\ L.at[r + 1] <= L.at[frames] /\ L.at[r + 1] \in Nat /\ L.size[r] \in Nat
    BY <1>1, Ends
  <1> DEFINE a == L.at[r]  e == L.at[r + 1]  t == L.at[frames]  z == L.size[r]  b == Len(buf)
  <1>4. /\ t \in Nat /\ a \in Nat /\ N = t /\ b \in Nat /\ b < HeaderSize
        /\ r < frames => e = a + HeaderSize + z /\ e <= t /\ e \in Nat /\ z \in Nat
    BY <1>1, <1>2, <1>3
  <1>5. CASE pc = "body"
    <2>1. r < frames /\ 0 < left /\ N + left = e
      BY <1>5 DEF Reading
    <2> HIDE DEF a, e, t, z, b
    <2> QED
      BY <1>1, <1>4, <2>1
  <1>6. CASE pc = "frame"
    <2>1. N = a + b
      BY <1>6 DEF Reading
    <2>2. ~(r < frames)
      <3> HIDE DEF a, e, t, z, b
      <3> QED
        BY <1>1, <1>4, <2>1
    <2>3. r = frames
      BY <1>1, <2>2
    <2> QED
      BY <1>6, <2>3 DEF Reading, Planned
  <1> QED
    BY <1>5, <1>6

(* A read moves on in the plan.                                            *)
LEMMA CarriedOn ==
    ASSUME TypeOK, NEW L \in Plan, NEW N \in Nat, NEW k \in 0..Len(wire), Carried(L, N),
           wire' = Drop(wire, k), UNCHANGED <<frames, sent, cut, mode>>
    PROVE  Carried(L, N + k)' /\ wire' \in Seq(ByteType) /\ Len(wire') = Len(wire) - k
  <1>1. wire \in Seq(ByteType) /\ Len(wire) \in Nat /\ k \in Nat
    BY Counts DEF TypeOK
  <1>2. /\ wire' \in Seq(ByteType) /\ Len(wire') = Len(wire) - k
        /\ \A j \in 1..(Len(wire) - k) : wire'[j] = wire[j + k]
    BY <1>1, TakeDrop
  <1>3. \A j \in 1..(Len(wire) - k) : j + k \in 1..Len(wire) /\ (N + k) + j = N + (j + k)
    BY <1>1
  <1>4. (N + k) + (Len(wire) - k) = N + Len(wire)
    BY <1>1
  <1>5. /\ (N + k) + Len(wire') <= L.at[frames]
        /\ ~cut => (N + k) + Len(wire') = L.at[frames]
    BY <1>2, <1>4 DEF Carried
  <1>6. ASSUME NEW f \in Nat, NEW i \in 1..HeaderSize, NEW j \in 1..Len(wire'),
               f < frames, (N + k) + j = L.at[f] + i
        PROVE  wire'[j] = HeaderByte(L.stream[f], L.size[f])
    <2>1. j \in 1..(Len(wire) - k)
      BY <1>2
    <2>2. j + k \in 1..Len(wire) /\ N + (j + k) = L.at[f] + i /\ wire'[j] = wire[j + k]
      BY <1>2, <1>3, <1>6, <2>1
    <2> QED
      BY <1>6, <2>2 DEF Carried
  <1>7. ASSUME NEW f \in Nat, NEW i \in 1..MaxPayload, NEW j \in 1..Len(wire'),
               f < frames, i <= L.size[f], (N + k) + j = L.at[f] + HeaderSize + i
        PROVE  wire'[j] = sent[Into(mode, L.stream[f])][L.pos[f][Into(mode, L.stream[f])] + i]
    <2>1. j \in 1..(Len(wire) - k)
      BY <1>2
    <2>2. j + k \in 1..Len(wire) /\ N + (j + k) = L.at[f] + HeaderSize + i /\ wire'[j] = wire[j + k]
      BY <1>2, <1>3, <1>7, <2>1
    <2> QED
      BY <1>7, <2>2 DEF Carried
  <1> QED
    BY <1>2, <1>5, <1>6, <1>7 DEF Carried

(* A cut loses the end of what was in flight.                              *)
LEMMA CarriedCut ==
    ASSUME TypeOK, NEW L \in Plan, NEW N \in Nat, NEW k \in 0..Len(wire), Carried(L, N),
           wire' = Take(wire, k), UNCHANGED <<frames, sent, mode>>, cut'
    PROVE  Carried(L, N)'
  <1>1. wire \in Seq(ByteType) /\ Len(wire) \in Nat /\ k \in Nat /\ k <= Len(wire)
    BY Counts DEF TypeOK
  <1>2. Len(wire') = k /\ \A j \in 1..k : wire'[j] = wire[j] /\ j \in 1..Len(wire)
    <2>1. Len(wire') = k /\ \A j \in 1..k : wire'[j] = wire[j]
      <3>1. wire \in Seq(ByteType)
        BY <1>1
      <3> QED
        BY <3>1, TakeDrop
    <2>2. \A j \in 1..k : j \in 1..Len(wire)
      BY <1>1
    <2> QED
      BY <2>1, <2>2
  <1>3. L.at[frames] \in Nat
    BY Counts, PlanTypes
  <1>4. N + Len(wire') <= L.at[frames]
    <2>1. N + Len(wire) <= L.at[frames]
      BY DEF Carried
    <2> DEFINE t == L.at[frames]  w == Len(wire)
    <2>2. t \in Nat /\ w \in Nat /\ N + w <= t /\ k <= w
      BY <1>1, <1>3, <2>1
    <2> HIDE DEF t, w
    <2>3. N + k <= t
      BY <1>1, <2>2
    <2> QED
      BY <1>2, <2>3 DEF t
  <1> QED
    BY <1>2, <1>4 DEF Carried

\* The caller gets k more bytes of channel c.
Gave(c, k) ==
    /\ Len(got'[c]) = Len(got[c]) + k
    /\ \A i \in 1..Len(got[c]) : got'[c][i] = got[c][i]
    /\ \A d \in Channel \ {c} : got'[d] = got[d]

(* Bytes that are the next ones of the channel's output leave the caller   *)
(* with a beginning of it.                                                 *)
LEMMA Yielded ==
    ASSUME TypeOK, Beginning, NEW s, NEW next, NEW k \in 0..Len(wire), Into(mode, s) \in Channel,
           Len(got[Into(mode, s)]) + k <= Len(sent[Into(mode, s)]),
           \A j \in 1..k : wire[j] = sent[Into(mode, s)][Len(got[Into(mode, s)]) + j],
           Yield(s, Take(wire, k), next), UNCHANGED sent
    PROVE  /\ got' \in [Channel -> Seq(ByteType)] /\ Beginning'
           /\ \/ pc' = "raised" /\ got' = got
              \/ pc' = next /\ Gave(Into(mode, s), k)
  <1> DEFINE c == Into(mode, s)  data == Take(wire, k)
  <1>1. /\ got[c] \in Seq(ByteType) /\ Len(got[c]) \in Nat /\ Len(sent[c]) \in Nat /\ k \in Nat
        /\ wire \in Seq(ByteType)
    BY Counts DEF TypeOK
  <1>2. data \in Seq(ByteType) /\ Len(data) = k /\ \A j \in 1..k : data[j] = wire[j]
    BY <1>1, TakeDrop
  <1>3. CASE got' = got /\ pc' = "raised"
    BY <1>3 DEF TypeOK, Beginning
  <1>4. CASE pc' = next /\ got' = [got EXCEPT ![c] = got[c] \o data]
    <2> HIDE DEF data, c
    <2>1. /\ got[c] \o data \in Seq(ByteType) /\ Len(got[c] \o data) = Len(got[c]) + Len(data)
          /\ \A i \in 1..Len(got[c]) : (got[c] \o data)[i] = got[c][i]
          /\ \A i \in 1..Len(data) : (got[c] \o data)[Len(got[c]) + i] = data[i]
      <3>1. PICK x \in Seq(ByteType), y \in Seq(ByteType) : x = got[c] /\ y = data
        BY <1>1, <1>2
      <3>2. /\ x \o y \in Seq(ByteType) /\ Len(x \o y) = Len(x) + Len(y)
            /\ \A i \in 1..Len(x) : (x \o y)[i] = x[i]
            /\ \A i \in 1..Len(y) : (x \o y)[Len(x) + i] = y[i]
        BY Joined
      <3> QED
        BY <3>1, <3>2
    <2>2. c \in Channel
      BY DEF c
    <2>3. got'[c] = got[c] \o data /\ \A d \in Channel \ {c} : got'[d] = got[d]
      BY <1>4, <2>2 DEF TypeOK
    <2>4. got' \in [Channel -> Seq(ByteType)]
      BY <1>4, <2>1, <2>2 DEF TypeOK
    <2>5. /\ Len(got'[c]) = Len(got[c]) + k
          /\ \A i \in 1..Len(got[c]) : got'[c][i] = got[c][i]
          /\ \A j \in 1..k : got'[c][Len(got[c]) + j] = wire[j]
      BY <1>2, <2>1, <2>3
    <2>6. ASSUME NEW i \in 1..Len(got'[c]) PROVE got'[c][i] = sent[c][i]
      <3>1. CASE i \in 1..Len(got[c])
        BY <2>2, <2>5, <3>1 DEF Beginning
      <3>2. CASE i \notin 1..Len(got[c])
        <4> DEFINE g == Len(got[c])  j == i - g
        <4>1. i \in 1..(g + k) /\ i \notin 1..g /\ g \in Nat
          BY <1>1, <2>5, <3>2
        <4> HIDE DEF g
        <4>2. j \in 1..k /\ i = g + j
          BY <1>1, <4>1
        <4> HIDE DEF j
        <4>3. got'[c][g + j] = wire[j] /\ wire[j] = sent[c][g + j]
          BY <2>5, <4>2 DEF g, c
        <4> QED
          BY <4>2, <4>3
      <3> QED
        BY <3>1, <3>2
    <2>7. Beginning'
      <3>1. Len(got'[c]) <= Len(sent[c])
        BY <2>5 DEF c
      <3>2. \A d \in Channel \ {c} :
              /\ Len(got'[d]) <= Len(sent[d])
              /\ \A i \in 1..Len(got'[d]) : got'[d][i] = sent[d][i]
        BY <2>3 DEF Beginning
      <3> QED
        BY <2>6, <3>1, <3>2 DEF Beginning
    <2> QED
      BY <1>4, <2>3, <2>4, <2>5, <2>7 DEF Gave, c
  <1>5. \/ got' = got /\ pc' = "raised"
        \/ pc' = next /\ got' = [got EXCEPT ![c] = got[c] \o data]
    BY DEF Yield
  <1> QED
    BY <1>3, <1>4, <1>5

(* A caller that has the right number of bytes has the output.             *)
LEMMA Complete ==
    ASSUME TypeOK, Beginning, \A c \in Channel : Len(got[c]) = Len(sent[c])
    PROVE  got = sent
  <1>1. ASSUME NEW c \in Channel PROVE got[c] = sent[c]
    <2>1. /\ got[c] \in Seq(ByteType) /\ sent[c] \in Seq(ByteType) /\ Len(got[c]) = Len(sent[c])
          /\ \A i \in 1..Len(got[c]) : got[c][i] = sent[c][i]
      BY DEF TypeOK, Beginning
    <2> QED
      BY <2>1, SeqEqual
  <1> QED
    BY <1>1 DEF TypeOK

-----------------------------------------------------------------------------
(* The invariant is kept                                                   *)

(* Initially nothing has been sent or read.                                *)
LEMMA InitIInv == Init => IInv
  <1> SUFFICES ASSUME Init PROVE IInv
    OBVIOUS
  <1>1. TypeOK
    <2>1. <<>> \in Seq(ByteType) /\ Len(<<>>) = 0
      OBVIOUS
    <2>2. [c \in Channel |-> <<>>] \in [Channel -> Seq(ByteType)]
      BY <2>1
    <2>3. frames \in 0..MaxFrames /\ left \in 0..MaxPayload /\ 0 < HeaderSize
      BY FrameConstants DEF Init
    <2> QED
      BY <2>1, <2>2, <2>3 DEF Init, TypeOK
  <1>2. /\ wire = <<>> /\ Len(wire) = 0 /\ buf = <<>> /\ Len(buf) = 0 /\ frames = 0 /\ pc = "head"
        /\ \A c \in Channel : /\ sent[c] = <<>> /\ got[c] = <<>>
                              /\ Len(sent[c]) = 0 /\ Len(got[c]) = 0
    BY DEF Init
  <1>3. Into(mode, STDOUT) \in Channel
    BY ChannelOfStream
  <1>4. Sound /\ Beginning /\ Ended
    BY <1>2 DEF Init, Sound, Socket, Beginning, Ended
  <1>5. Raw
    BY <1>2, <1>3 DEF Raw
  <1>6. Framing
    <2> DEFINE L == [at |-> [f \in Nat |-> 0], stream |-> [f \in Nat |-> STDOUT],
                     size |-> [f \in Nat |-> 0], pos |-> [f \in Nat |-> [c \in Channel |-> 0]]]
    <2>1. L \in Plan
      BY FrameConstants DEF Plan
    <2>2. L.at[0] = 0 /\ L.pos[0] = [c \in Channel |-> 0]
      OBVIOUS
    <2>3. \A f \in Nat : ~(f < 0) /\ (f <= 0 => f = 0)
      OBVIOUS
    <2> HIDE DEF L
    <2>4. Planned(L)
      BY <1>2, <2>2, <2>3 DEF Planned
    <2>5. Carried(L, 0)
      BY <1>2, <2>2, <2>3 DEF Carried
    <2>6. Reading(L, 0, 0)
      BY <1>2, <2>2, <2>3 DEF Reading
    <2> QED
      BY <2>1, <2>4, <2>5, <2>6 DEF Framing
  <1> QED
    BY <1>1, <1>4, <1>5, <1>6 DEF IInv

(* The daemon writes: to a terminal, or a frame.                           *)
LEMMA WriteStep ==
    ASSUME IInv, Write
    PROVE  IInv'
  <1>1. PICK s \in (IF mode.tty THEN {STDOUT} ELSE Stream), n \in 0..MaxPayload : Send(s, n)
    BY DEF Write
  <1>2. s \in Stream \union {STDOUT} /\ (mode.tty => s = STDOUT)
    BY <1>1
  <1>3. TypeOK /\ Sound /\ Framing /\ Raw /\ Beginning /\ Ended
    BY DEF IInv
  <1> DEFINE c == Into(mode, s)  h == IF mode.tty THEN 0 ELSE HeaderSize
  <1>4. /\ Sent(c, s, n)
        /\ Len(wire') = Len(wire) + h + n
        /\ \A i \in 1..n : wire'[Len(wire) + h + i] = sent'[c][Len(sent[c]) + i]
    BY <1>1, <1>2, <1>3, SendEffect
  <1>5. /\ frames' = frames + 1 /\ frames < MaxFrames /\ ~closed /\ ~cut
        /\ UNCHANGED <<closed, cut, mode, pc, buf, stream, left, got>>
    BY <1>1 DEF Send, Open, reader
  <1>6. c \in Channel
    BY ChannelOfStream
  <1>7. TypeOK'
    <2>1. frames' \in 0..MaxFrames
      BY <1>3, <1>5, FrameConstants DEF TypeOK
    <2>2. sent' \in [Channel -> Seq(ByteType)] /\ wire' \in Seq(ByteType)
      BY <1>4 DEF Sent
    <2> QED
      BY <1>3, <1>5, <2>1, <2>2 DEF TypeOK
  <1>8. Sound'
    BY <1>3, <1>5 DEF Sound, Socket
  <1>9. Ended'
    BY <1>3, <1>5 DEF Ended, MayEndEarly, Socket
  <1>10. Framing'
    <2>1. CASE ~mode.tty /\ pc \in {"head", "frame", "body"}
      <3>1. PICK L \in Plan, N \in Nat, r \in Nat : Planned(L) /\ Carried(L, N) /\ Reading(L, N, r)
        BY <1>3, <2>1 DEF Framing
      <3>2. \E M \in Plan : Planned(M)' /\ Carried(M, N)' /\ Reading(M, N, r)'
        BY <1>1, <1>2, <1>3, <2>1, <3>1, SendFraming
      <3> QED
        BY <3>2 DEF Framing
    <2>2. CASE mode.tty \/ pc \notin {"head", "frame", "body"}
      BY <1>3, <1>5, <2>2 DEF Framing, Sound
    <2> QED
      BY <2>1, <2>2
  <1>11. /\ \A d \in Channel : /\ Len(got[d]) \in Nat /\ Len(sent[d]) \in Nat
                               /\ Len(sent'[d]) = IF d = c THEN Len(sent[d]) + n ELSE Len(sent[d])
         /\ Len(wire) \in Nat /\ n \in Nat
    BY <1>3, <1>4, Counts, FrameConstants DEF Sent
  <1>12. Beginning'
    <2> SUFFICES ASSUME NEW d \in Channel
                 PROVE  Len(got[d]) <= Len(sent'[d]) /\ \A i \in 1..Len(got[d]) : got[d][i] = sent'[d][i]
      BY <1>5 DEF Beginning
    <2>1. Len(got[d]) <= Len(sent[d]) /\ \A i \in 1..Len(got[d]) : got[d][i] = sent[d][i]
      BY <1>3 DEF Beginning
    <2>2. \A i \in 1..Len(got[d]) : i \in 1..Len(sent[d])
      BY <1>11, <2>1
    <2>3. \A i \in 1..Len(sent[d]) : sent'[d][i] = sent[d][i]
      BY <1>4 DEF Sent
    <2>4. Len(got[d]) <= Len(sent'[d])
      BY <1>11, <2>1
    <2> QED
      BY <2>1, <2>2, <2>3, <2>4
  <1>13. Raw'
    <2>1. CASE pc = "raw" \/ (pc = "head" /\ mode.tty)
      <3>1. mode.tty /\ s = STDOUT /\ h = 0
        BY <1>2, <1>3, <2>1 DEF Sound
      <3> DEFINE g == Len(got[c])  w == Len(wire)  t == Len(sent[c])
      <3>2. /\ g + w = t /\ g \in Nat /\ w \in Nat /\ t \in Nat
            /\ \A j \in 1..w : wire[j] = sent[c][g + j]
            /\ \A d \in Channel \ {c} : sent[d] = <<>>
        BY <1>3, <1>5, <1>6, <1>11, <2>1, <3>1 DEF Raw
      <3>3. /\ Len(wire') = w + n /\ Len(sent'[c]) = t + n
            /\ \A i \in 1..n : wire'[w + i] = sent'[c][t + i]
            /\ \A i \in 1..t : sent'[c][i] = sent[c][i]
            /\ \A j \in 1..w : wire'[j] = wire[j]
            /\ \A d \in Channel \ {c} : sent'[d] = sent[d]
        <4>1. w + h + n = w + n /\ \A i \in 1..n : w + h + i = w + i
          BY <1>11, <3>1, <3>2
        <4> QED
          BY <1>4, <1>6, <1>11, <4>1 DEF Sent
      <3>4. ASSUME NEW j \in 1..Len(wire') PROVE wire'[j] = sent'[c][g + j]
        <4> HIDE DEF g, w, t, c
        <4>1. CASE j \in 1..w
          <5>1. g + j \in 1..t
            BY <3>2, <4>1
          <5> QED
            BY <3>2, <3>3, <4>1, <5>1
        <4>2. CASE j \notin 1..w
          <5> DEFINE i == j - w
          <5>1. i \in 1..n /\ j = w + i /\ g + j = t + i
            BY <1>11, <3>2, <3>3, <4>2
          <5> HIDE DEF i
          <5> QED
            BY <3>3, <5>1
        <4> QED
          BY <4>1, <4>2
      <3>5. g + Len(wire') = Len(sent'[c])
        <4> HIDE DEF g, w, t
        <4> QED
          BY <1>11, <3>2, <3>3
      <3>6. g + Len(wire') <= Len(sent'[c])
        <4>1. Len(sent'[c]) \in Nat
          <5> HIDE DEF t, c
          <5> QED
            BY <1>11, <3>2, <3>3
        <4> QED
          BY <3>5, <4>1
      <3> QED
        BY <1>5, <3>1, <3>2, <3>3, <3>4, <3>5, <3>6 DEF Raw
    <2>2. CASE ~(pc = "raw" \/ (pc = "head" /\ mode.tty))
      BY <1>5, <2>2 DEF Raw
    <2> QED
      BY <2>1, <2>2
  <1> QED
    BY <1>7, <1>8, <1>9, <1>10, <1>12, <1>13 DEF IInv

(* The daemon closes the connection: everything it sent is still to come.  *)
LEMMA CloseStep ==
    ASSUME IInv, Close
    PROVE  IInv'
  <1>1. /\ ~cut /\ ~closed /\ closed' = TRUE
        /\ UNCHANGED <<frames, sent, cut, wire, mode, pc, buf, stream, left, got>>
    BY DEF Close, Open, reader
  <1>2. TypeOK /\ Sound /\ Framing /\ Raw /\ Beginning /\ Ended
    BY DEF IInv
  <1>3. TypeOK' /\ Sound' /\ Beginning'
    BY <1>1, <1>2 DEF TypeOK, Sound, Socket, Beginning
  <1>4. Raw'
    BY <1>1, <1>2 DEF Raw
  <1>5. Ended'
    BY <1>1, <1>2 DEF Ended, MayEndEarly, Socket
  <1>6. Framing'
    BY <1>1, <1>2 DEF Framing, Planned, Carried, Reading
  <1> QED
    BY <1>3, <1>4, <1>5, <1>6 DEF IInv

(* The connection breaks.                                                  *)
LEMMA CutStep ==
    ASSUME IInv, Cut
    PROVE  IInv'
  <1>1. /\ ~cut /\ ~closed /\ cut' = TRUE
        /\ UNCHANGED <<frames, sent, closed, mode, pc, buf, stream, left, got>>
    BY DEF Cut, Open, reader
  <1>2. PICK k \in 0..Len(wire) : wire' = Take(wire, k)
    BY DEF Cut
  <1>3. TypeOK /\ Sound /\ Framing /\ Raw /\ Beginning /\ Ended
    BY DEF IInv
  <1>4. wire \in Seq(ByteType) /\ Len(wire) \in Nat /\ k \in Nat /\ k <= Len(wire)
    BY <1>3, Counts DEF TypeOK
  <1>5. wire' \in Seq(ByteType) /\ Len(wire') = k /\ \A j \in 1..k : wire'[j] = wire[j]
    <2>1. wire \in Seq(ByteType)
      BY <1>4
    <2> QED
      BY <1>2, <2>1, TakeDrop
  <1>6. TypeOK' /\ Sound' /\ Beginning'
    BY <1>1, <1>3, <1>5 DEF TypeOK, Sound, Socket, Beginning
  <1>7. Raw'
    <2> SUFFICES ASSUME pc = "raw" \/ (pc = "head" /\ mode.tty) PROVE Raw'
      BY <1>1 DEF Raw
    <2> DEFINE c == Into(mode, STDOUT)  g == Len(got[c])  w == Len(wire)  t == Len(sent[c])
    <2>1. /\ g + w = t /\ g \in Nat /\ w \in Nat /\ t \in Nat
          /\ \A j \in 1..w : wire[j] = sent[c][g + j]
          /\ \A d \in Channel \ {c} : sent[d] = <<>>
      BY <1>1, <1>3, Counts, ChannelOfStream DEF Raw
    <2>2. g + k <= t /\ \A j \in 1..k : j \in 1..w
      <3>1. k \in Nat /\ k <= w
        BY <1>4
      <3> HIDE DEF g, w, t
      <3> QED
        BY <2>1, <3>1
    <2> QED
      BY <1>1, <1>5, <2>1, <2>2 DEF Raw
  <1>8. Ended'
    <2>1. wire = <<>> => wire' = <<>>
      <3>1. wire = <<>> => Len(wire) = 0
        OBVIOUS
      <3>2. wire = <<>> => k = 0
        BY <1>4, <3>1
      <3> QED
        BY <1>5, <3>2, EmptySeq
    <2> QED
      BY <1>1, <1>3, <2>1 DEF Ended, MayEndEarly, Socket
  <1>9. Framing'
    <2> SUFFICES ASSUME pc \in {"frame", "body"} \/ (pc = "head" /\ ~mode.tty) PROVE Framing'
      BY <1>1 DEF Framing
    <2>1. PICK L \in Plan, N \in Nat, r \in Nat : Planned(L) /\ Carried(L, N) /\ Reading(L, N, r)
      BY <1>3 DEF Framing
    <2>2. Planned(L)' /\ Reading(L, N, r)'
      BY <1>1, <2>1 DEF Planned, Reading
    <2>3. Carried(L, N)'
      <3>1. UNCHANGED <<frames, sent, mode>> /\ cut'
        BY <1>1
      <3> QED
        BY <1>2, <1>3, <2>1, <3>1, CarriedCut
    <2> QED
      BY <2>2, <2>3 DEF Framing
  <1> QED
    BY <1>6, <1>7, <1>8, <1>9 DEF IInv

(* The response's head is parsed.                                          *)
LEMMA HeadStep ==
    ASSUME ~ReadAhead, IInv, ParseHead
    PROVE  IInv'
  <1>1. TypeOK /\ Sound /\ Framing /\ Raw /\ Beginning /\ Ended
    BY DEF IInv
  <1>2. wire \in Seq(ByteType) /\ Len(wire) \in Nat
    BY <1>1, Counts DEF TypeOK
  <1>3. wire' = Drop(wire, 0)
    BY DEF ParseHead
  <1>4. wire' = wire
    <2>1. 0 \in 0..Len(wire) /\ wire \in Seq(ByteType)
      BY <1>2
    <2>2. /\ Drop(wire, 0) \in Seq(ByteType) /\ Len(Drop(wire, 0)) = Len(wire) - 0
          /\ \A i \in 1..(Len(wire) - 0) : Drop(wire, 0)[i] = wire[i + 0]
      BY <2>1, TakeDrop
    <2>3. Len(wire) - 0 = Len(wire) /\ \A i \in 1..Len(wire) : i + 0 = i
      BY <1>2
    <2> QED
      BY <1>2, <1>3, <2>2, <2>3, SeqEqual
  <1>5. /\ pc = "head" /\ pc' = (IF mode.tty THEN "raw" ELSE "frame")
        /\ UNCHANGED <<frames, sent, closed, cut, mode, buf, stream, left, got>>
    BY DEF ParseHead, daemon
  <1>6. TypeOK' /\ Sound' /\ Beginning' /\ Ended'
    BY <1>1, <1>4, <1>5 DEF TypeOK, Sound, Socket, Beginning, Ended
  <1>7. Raw'
    BY <1>1, <1>4, <1>5 DEF Raw
  <1>8. Framing'
    <2> SUFFICES ASSUME ~mode.tty PROVE Framing'
      BY <1>5 DEF Framing
    <2>1. PICK L \in Plan, N \in Nat, r \in Nat : Planned(L) /\ Carried(L, N) /\ Reading(L, N, r)
      BY <1>1, <1>5 DEF Framing
    <2>2. Planned(L)' /\ Carried(L, N)' /\ Reading(L, N, r)'
      BY <1>4, <1>5, <2>1 DEF Planned, Carried, Reading
    <2> QED
      BY <2>2 DEF Framing
  <1> QED
    BY <1>6, <1>7, <1>8 DEF IInv

(* The rest of a header has been read: the frame's payload is next, or the *)
(* next header when it has none.                                           *)
LEMMA UnpackStep ==
    ASSUME IInv, NEW data, NEW k \in 1..Len(wire), pc = "frame", Len(buf) + k = HeaderSize,
           data[1] = (IF Len(buf) > 0 THEN buf[1] ELSE wire[1]),
           wire' = Drop(wire, k), Unpack(data), UNCHANGED <<daemon, mode>>
    PROVE  IInv'
  <1>1. TypeOK /\ Sound /\ Framing /\ Raw /\ Beginning /\ Ended
    BY DEF IInv
  <1>2. PICK L \in Plan, N \in Nat, r \in Nat : Planned(L) /\ Carried(L, N) /\ Reading(L, N, r)
    BY <1>1 DEF Framing
  <1>3. /\ Len(wire) \in Nat /\ Len(wire) > 0 /\ k \in Nat /\ Len(buf) \in Nat /\ frames \in Nat
        /\ HeaderSize \in Nat /\ HeaderSize > 0 /\ MaxPayload \in Nat
    BY <1>1, Counts
  <1>4. /\ r < frames
        /\ \A j \in 1..Len(wire) : Len(buf) + j <= HeaderSize => wire[j] = HeaderByte(L.stream[r], L.size[r])
    BY <1>1, <1>2, <1>3, HeaderNext
  <1>5. /\ N = L.at[r] + Len(buf) /\ r <= frames
        /\ \A i \in 1..Len(buf) : buf[i] = HeaderByte(L.stream[r], L.size[r])
        /\ \A c \in Channel : Len(got[c]) = L.pos[r][c]
    BY <1>2 DEF Reading
  <1>6. data[1] = HeaderByte(L.stream[r], L.size[r])
    <2>1. CASE Len(buf) > 0
      <3>1. 1 \in 1..Len(buf)
        BY <1>3, <2>1
      <3> QED
        BY <1>5, <2>1, <3>1
    <2>2. CASE ~(Len(buf) > 0)
      <3>1. 1 \in 1..Len(wire) /\ Len(buf) + 1 <= HeaderSize
        BY <1>3, <2>2
      <3> QED
        BY <1>4, <2>2, <3>1
    <2> QED
      BY <2>1, <2>2
  <1>7. /\ L.at[r] \in Nat /\ L.at[r + 1] = L.at[r] + HeaderSize + L.size[r]
        /\ L.size[r] \in Nat /\ L.size[r] <= MaxPayload /\ L.stream[r] \in Stream \union {STDOUT}
        /\ \A c \in Channel :
              /\ L.pos[r][c] \in Nat
              /\ L.pos[r + 1][c] = IF c = Into(mode, L.stream[r]) THEN L.pos[r][c] + L.size[r] ELSE L.pos[r][c]
    BY <1>1, <1>2, <1>4, <1>5, Ends
  <1>8. /\ stream' = L.stream[r] /\ left' = L.size[r] /\ buf' = <<>>
        /\ pc' = (IF L.size[r] > 0 THEN "body" ELSE "frame")
        /\ UNCHANGED <<frames, sent, closed, cut, mode, got>>
    BY <1>6 DEF Unpack, HeaderByte, daemon
  <1>9. Carried(L, N + k)' /\ wire' \in Seq(ByteType)
    <2>1. k \in 0..Len(wire) /\ UNCHANGED <<frames, sent, cut, mode>>
      BY <1>3, <1>8
    <2> QED
      BY <1>1, <1>2, <2>1, CarriedOn
  <1>10. N + k = L.at[r] + HeaderSize
    <2> DEFINE a == L.at[r]  b == Len(buf)
    <2>1. a \in Nat /\ b \in Nat /\ N = a + b /\ b + k = HeaderSize
      BY <1>3, <1>5, <1>7
    <2> HIDE DEF a, b
    <2>2. N + k = a + HeaderSize
      BY <1>3, <2>1
    <2> QED
      BY <2>2 DEF a
  <1>11. TypeOK'
    <2>1. <<>> \in Seq(ByteType) /\ Len(<<>>) = 0
      OBVIOUS
    <2>2. left' \in 0..MaxPayload /\ pc' \in {"frame", "body"}
      BY <1>3, <1>7, <1>8
    <2> QED
      BY <1>1, <1>3, <1>7, <1>8, <1>9, <2>1, <2>2 DEF TypeOK
  <1>12. Sound' /\ Raw' /\ Beginning' /\ Ended'
    BY <1>1, <1>8 DEF Sound, Socket, Raw, Beginning, Ended
  <1>13. Planned(L)'
    BY <1>2, <1>8 DEF Planned
  <1>14. N + k \in Nat /\ Len(buf') = 0 /\ (\A i \in 1..Len(buf') : FALSE)
    BY <1>3, <1>8
  <1>15. CASE L.size[r] > 0
    <2>1. N + k + L.size[r] = L.at[r + 1]
      BY <1>7, <1>10
    <2>2. Reading(L, N + k, r)'
      BY <1>4, <1>5, <1>7, <1>8, <1>15, <2>1 DEF Reading
    <2> QED
      BY <1>9, <1>11, <1>12, <1>13, <1>14, <2>2 DEF IInv, Framing
  <1>16. CASE ~(L.size[r] > 0)
    <2>1. L.size[r] = 0 /\ r + 1 \in Nat /\ r + 1 <= frames
      BY <1>3, <1>4, <1>7, <1>16
    <2>2. N + k = L.at[r + 1] + Len(buf') /\ ~(Len(buf') > 0)
      BY <1>7, <1>10, <1>14, <2>1
    <2>3. \A c \in Channel : Len(got[c]) = L.pos[r + 1][c]
      BY <1>5, <1>7, <2>1
    <2>4. Reading(L, N + k, r + 1)'
      BY <1>8, <1>14, <1>16, <2>1, <2>2, <2>3 DEF Reading
    <2> QED
      BY <1>9, <1>11, <1>12, <1>13, <1>14, <2>1, <2>4 DEF IInv, Framing
  <1> QED
    BY <1>15, <1>16

(* A read of the header: a part of it, or what was missing.                *)
LEMMA ReadHeaderStep ==
    ASSUME IInv, ReadHeader
    PROVE  IInv'
  <1>1. TypeOK /\ Sound /\ Framing /\ Raw /\ Beginning /\ Ended
    BY DEF IInv
  <1> DEFINE data(k) == buf \o Take(wire, k)
  <1>2. PICK k \in 1..Len(wire) :
          /\ Len(data(k)) <= HeaderSize /\ wire' = Drop(wire, k)
          /\ IF Len(data(k)) = HeaderSize
             THEN Unpack(data(k))
             ELSE buf' = data(k) /\ UNCHANGED <<pc, stream, left, got>>
    BY DEF ReadHeader
  <1>3. pc = "frame" /\ Socket /\ UNCHANGED <<frames, sent, closed, cut, mode>>
    BY DEF ReadHeader, daemon
  <1>4. /\ Len(wire) \in Nat /\ Len(wire) > 0 /\ k \in Nat /\ k > 0 /\ Len(buf) \in Nat /\ HeaderSize \in Nat
        /\ k \in 0..Len(wire)
    BY <1>1, Counts
  <1>5. /\ Take(wire, k) \in Seq(ByteType) /\ Len(Take(wire, k)) = k
        /\ \A i \in 1..k : Take(wire, k)[i] = wire[i]
    <2>1. wire \in Seq(ByteType) /\ k \in 0..Len(wire)
      BY <1>1, <1>4 DEF TypeOK
    <2> QED
      BY <2>1, TakeDrop
  <1>6. /\ data(k) \in Seq(ByteType) /\ Len(data(k)) = Len(buf) + k
        /\ \A i \in 1..Len(buf) : data(k)[i] = buf[i]
        /\ \A i \in 1..k : data(k)[Len(buf) + i] = wire[i]
    <2>1. buf \in Seq(ByteType) /\ Take(wire, k) \in Seq(ByteType)
      BY <1>1, <1>5 DEF TypeOK
    <2>2. /\ buf \o Take(wire, k) \in Seq(ByteType) /\ Len(buf \o Take(wire, k)) = Len(buf) + Len(Take(wire, k))
          /\ \A i \in 1..Len(buf) : (buf \o Take(wire, k))[i] = buf[i]
          /\ \A i \in 1..Len(Take(wire, k)) : (buf \o Take(wire, k))[Len(buf) + i] = Take(wire, k)[i]
      BY <2>1, Joined
    <2> QED
      BY <1>5, <2>2
  <1> HIDE DEF data
  <1>7. CASE Len(data(k)) = HeaderSize
    <2>1. data(k)[1] = (IF Len(buf) > 0 THEN buf[1] ELSE wire[1])
      <3>1. CASE Len(buf) > 0
        <4>1. 1 \in 1..Len(buf)
          BY <1>4, <3>1
        <4> QED
          BY <1>6, <3>1, <4>1
      <3>2. CASE ~(Len(buf) > 0)
        <4>1. 1 \in 1..k /\ Len(buf) + 1 = 1
          BY <1>4, <3>2
        <4> QED
          BY <1>6, <3>2, <4>1
      <3> QED
        BY <3>1, <3>2
    <2>2. Len(buf) + k = HeaderSize /\ Unpack(data(k)) /\ wire' = Drop(wire, k) /\ UNCHANGED <<daemon, mode>>
      BY <1>2, <1>3, <1>6, <1>7 DEF daemon
    <2> QED
      BY <1>3, <2>1, <2>2, UnpackStep
  <1>8. CASE Len(data(k)) # HeaderSize
    <2>1. PICK L \in Plan, N \in Nat, r \in Nat : Planned(L) /\ Carried(L, N) /\ Reading(L, N, r)
      BY <1>1, <1>3 DEF Framing
    <2>2. /\ r < frames
          /\ \A j \in 1..Len(wire) : Len(buf) + j <= HeaderSize => wire[j] = HeaderByte(L.stream[r], L.size[r])
      BY <1>1, <1>3, <1>4, <2>1, HeaderNext
    <2>3. /\ N = L.at[r] + Len(buf) /\ r <= frames
          /\ \A i \in 1..Len(buf) : buf[i] = HeaderByte(L.stream[r], L.size[r])
          /\ \A c \in Channel : Len(got[c]) = L.pos[r][c]
      BY <1>3, <2>1 DEF Reading
    <2>4. Len(buf) + k < HeaderSize /\ buf' = data(k) /\ UNCHANGED <<pc, stream, left, got>>
      BY <1>2, <1>4, <1>6, <1>8
    <2>5. Carried(L, N + k)' /\ wire' \in Seq(ByteType)
      <3>1. UNCHANGED <<frames, sent, cut, mode>> /\ wire' = Drop(wire, k)
        BY <1>2, <1>3
      <3> QED
        BY <1>1, <1>4, <2>1, <3>1, CarriedOn
    <2>6. TypeOK'
      BY <1>1, <1>3, <1>6, <2>4, <2>5 DEF TypeOK
    <2>7. Sound' /\ Raw' /\ Beginning' /\ Ended'
      BY <1>1, <1>3, <2>4 DEF Sound, Socket, Raw, Beginning, Ended
    <2>8. Planned(L)'
      BY <1>3, <2>1, <2>4 DEF Planned
    <2>9. N + k = L.at[r] + Len(buf')
      <3> DEFINE a == L.at[r]  b == Len(buf)
      <3>1. a \in Nat /\ b \in Nat /\ N = a + b /\ Len(buf') = b + k
        BY <1>4, <1>6, <2>3, <2>4, PlanTypes
      <3> HIDE DEF a, b
      <3>2. N + k = a + Len(buf')
        BY <1>4, <3>1
      <3> QED
        BY <3>2 DEF a
    <2>10. ASSUME NEW i \in 1..Len(buf') PROVE buf'[i] = HeaderByte(L.stream[r], L.size[r])
      <3>1. CASE i \in 1..Len(buf)
        BY <1>6, <2>3, <2>4, <3>1
      <3>2. CASE i \notin 1..Len(buf)
        <4> DEFINE b == Len(buf)  j == i - b
        <4>1. i \in 1..(b + k) /\ i \notin 1..b /\ b \in Nat /\ b + k < HeaderSize
          BY <1>4, <1>6, <2>4, <3>2
        <4> HIDE DEF b
        <4>2. j \in 1..k /\ i = b + j /\ j \in 1..Len(wire) /\ b + j <= HeaderSize
          BY <1>4, <4>1
        <4> HIDE DEF j
        <4> QED
          BY <1>6, <2>2, <2>4, <4>2 DEF b
      <3> QED
        BY <3>1, <3>2
    <2>11. Reading(L, N + k, r)'
      BY <1>3, <2>2, <2>3, <2>4, <2>9, <2>10 DEF Reading
    <2>12. N + k \in Nat
      BY <1>4
    <2> QED
      BY <2>5, <2>6, <2>7, <2>8, <2>11, <2>12 DEF IInv, Framing
  <1> QED
    BY <1>7, <1>8

(* A read of the payload, whole or in part.                                *)
LEMMA PayloadStep ==
    ASSUME IInv, NEW k \in 1..Len(wire), pc = "body", k <= left, wire' = Drop(wire, k), left' = left - k,
           Yield(stream, Take(wire, k), IF left' = 0 THEN "frame" ELSE "body"),
           UNCHANGED <<daemon, mode, buf, stream>>
    PROVE  /\ IInv' /\ Into(mode, stream) \in Channel
           /\ \/ pc' = "raised" /\ got' = got
              \/ pc' \in {"frame", "body"} /\ Gave(Into(mode, stream), k)
  <1> DEFINE c == Into(mode, stream)
  <1>1. TypeOK /\ Sound /\ Framing /\ Raw /\ Beginning /\ Ended
    BY DEF IInv
  <1>2. PICK L \in Plan, N \in Nat, r \in Nat : Planned(L) /\ Carried(L, N) /\ Reading(L, N, r)
    BY <1>1 DEF Framing
  <1>3. /\ Len(wire) \in Nat /\ k \in Nat /\ k > 0 /\ k \in 0..Len(wire) /\ frames \in Nat /\ left \in Nat
        /\ MaxPayload \in Nat /\ \A d \in Channel : Len(got[d]) \in Nat /\ Len(sent[d]) \in Nat
    BY <1>1, Counts
  <1>4. /\ c \in Channel /\ left > 0 /\ Len(got[c]) + left <= Len(sent[c])
        /\ \A j \in 1..Len(wire) : j <= left => wire[j] = sent[c][Len(got[c]) + j]
    BY <1>1, <1>2, PayloadNext
  <1>5. UNCHANGED <<frames, sent, closed, cut, mode, buf, stream>>
    BY DEF daemon
  <1>6. /\ got' \in [Channel -> Seq(ByteType)] /\ Beginning'
        /\ \/ pc' = "raised" /\ got' = got
           \/ pc' = (IF left' = 0 THEN "frame" ELSE "body") /\ Gave(c, k)
    <2>1. \A j \in 1..k : j \in 1..Len(wire) /\ j <= left
      BY <1>3
    <2>2. \A j \in 1..k : wire[j] = sent[c][Len(got[c]) + j]
      BY <1>4, <2>1
    <2>3. Len(got[c]) + k <= Len(sent[c])
      <3> DEFINE g == Len(got[c])  t == Len(sent[c])
      <3>1. g \in Nat /\ t \in Nat /\ g + left <= t
        BY <1>3, <1>4
      <3> HIDE DEF g, t
      <3>2. g + k <= t
        BY <1>3, <3>1
      <3> QED
        BY <3>2 DEF g, t
    <2>4. PICK next \in {"frame", "body"} : next = IF left' = 0 THEN "frame" ELSE "body"
      OBVIOUS
    <2>5. PICK s : s = stream
      OBVIOUS
    <2>6. /\ TypeOK /\ Beginning /\ k \in 0..Len(wire) /\ Into(mode, s) \in Channel /\ UNCHANGED sent
          /\ Len(got[Into(mode, s)]) + k <= Len(sent[Into(mode, s)])
          /\ \A j \in 1..k : wire[j] = sent[Into(mode, s)][Len(got[Into(mode, s)]) + j]
          /\ Yield(s, Take(wire, k), next)
      BY <1>1, <1>3, <1>4, <1>5, <2>2, <2>3, <2>4, <2>5
    <2>7. /\ got' \in [Channel -> Seq(ByteType)] /\ Beginning'
          /\ \/ pc' = "raised" /\ got' = got
             \/ pc' = next /\ Gave(Into(mode, s), k)
      BY <2>6, Yielded
    <2> QED
      BY <2>4, <2>5, <2>7
  <1>7. Carried(L, N + k)' /\ wire' \in Seq(ByteType)
    BY <1>1, <1>2, <1>3, <1>5, CarriedOn
  <1>8. left' \in Nat /\ left' <= left /\ left' \in 0..MaxPayload
    BY <1>1, <1>3 DEF TypeOK
  <1>9. TypeOK'
    BY <1>1, <1>5, <1>6, <1>7, <1>8 DEF TypeOK
  <1>10. Sound' /\ Raw' /\ Ended'
    BY <1>1, <1>5, <1>6 DEF Sound, Socket, Raw, Ended
  <1>11. Planned(L)'
    BY <1>2, <1>5 DEF Planned
  <1>12. /\ r < frames /\ stream = L.stream[r] /\ left <= L.size[r] /\ N + left = L.at[r + 1]
         /\ \A d \in Channel : L.pos[r + 1][d] = IF d = c THEN Len(got[d]) + left ELSE Len(got[d])
    BY <1>2 DEF Reading
  <1>13. L.size[r] \in Nat /\ N + k \in Nat
    BY <1>3, PlanTypes
  <1>14. CASE pc' = "raised" /\ got' = got
    <2>1. Framing'
      BY <1>14 DEF Framing
    <2> QED
      BY <1>4, <1>6, <1>9, <1>10, <1>14, <2>1 DEF IInv
  <1>15. CASE pc' = (IF left' = 0 THEN "frame" ELSE "body") /\ Gave(c, k)
    <2>1. \A d \in Channel : Len(got'[d]) = IF d = c THEN Len(got[d]) + k ELSE Len(got[d])
      BY <1>15 DEF Gave
    <2>2. \A d \in Channel : L.pos[r + 1][d] = IF d = c THEN Len(got'[d]) + left' ELSE Len(got'[d])
      <3> SUFFICES ASSUME NEW d \in Channel
                   PROVE  L.pos[r + 1][d] = IF d = c THEN Len(got'[d]) + left' ELSE Len(got'[d])
        OBVIOUS
      <3> DEFINE g == Len(got[d])  h == Len(got'[d])  e == L.pos[r + 1][d]
      <3>1. g \in Nat /\ (h = IF d = c THEN g + k ELSE g) /\ (e = IF d = c THEN g + left ELSE g)
        BY <1>3, <1>12, <2>1
      <3> HIDE DEF g, h, e
      <3>2. e = IF d = c THEN h + left' ELSE h
        BY <1>3, <3>1
      <3> QED
        BY <3>2 DEF h, e
    <2>3. CASE left' # 0
      <3>1. 0 < left' /\ left' <= L.size[r] /\ pc' = "body"
        BY <1>3, <1>8, <1>12, <1>13, <1>15, <2>3
      <3>2. (N + k) + left' = L.at[r + 1]
        <4>1. (N + k) + left' = N + left
          BY <1>3
        <4> QED
          BY <1>12, <4>1
      <3>3. r <= frames
        BY <1>3, <1>12
      <3>4. Reading(L, N + k, r)'
        BY <1>5, <1>12, <2>2, <3>1, <3>2, <3>3 DEF Reading
      <3> QED
        BY <1>4, <1>6, <1>7, <1>9, <1>10, <1>11, <1>13, <1>15, <3>1, <3>4 DEF IInv, Framing
    <2>4. CASE left' = 0
      <3>1. r + 1 \in Nat /\ r + 1 <= frames /\ pc' = "frame"
        BY <1>3, <1>12, <1>15, <2>4
      <3>2. N + k = L.at[r + 1]
        <4>1. N + k = N + left
          BY <1>3, <2>4
        <4> QED
          BY <1>12, <4>1
      <3>3. buf' = <<>> /\ Len(buf') = 0 /\ (\A i \in 1..Len(buf') : FALSE)
        BY <1>1, <1>5 DEF Sound
      <3>4. N + k = L.at[r + 1] + Len(buf') /\ ~(Len(buf') > 0)
        <4>1. L.at[r + 1] \in Nat
          BY <3>1, PlanTypes
        <4> QED
          BY <3>2, <3>3, <4>1
      <3>5. \A d \in Channel : Len(got'[d]) = L.pos[r + 1][d]
        <4>1. \A d \in Channel : Len(got'[d]) \in Nat
          BY <1>3, <2>1
        <4> QED
          BY <2>2, <2>4, <4>1
      <3>6. Reading(L, N + k, r + 1)'
        BY <1>5, <3>1, <3>3, <3>4, <3>5 DEF Reading
      <3> QED
        BY <1>4, <1>6, <1>7, <1>9, <1>10, <1>11, <1>13, <1>15, <3>1, <3>6 DEF IInv, Framing
    <2> QED
      BY <2>3, <2>4
  <1> QED
    BY <1>6, <1>14, <1>15

(* A read of a terminal's output.                                          *)
LEMMA ReadRawStep ==
    ASSUME IInv, ReadRaw
    PROVE  /\ IInv' /\ Into(mode, STDOUT) \in Channel
           /\ \/ pc' = "raised" /\ got' = got
              \/ pc' = "raw" /\ \E k \in Nat : Gave(Into(mode, STDOUT), k)
  <1> DEFINE c == Into(mode, STDOUT)  g == Len(got[c])  w == Len(wire)  t == Len(sent[c])
  <1>1. TypeOK /\ Sound /\ Framing /\ Raw /\ Beginning /\ Ended
    BY DEF IInv
  <1>2. PICK k \in 1..Len(wire) : wire' = Drop(wire, k) /\ Yield(STDOUT, Take(wire, k), "raw")
    BY DEF ReadRaw
  <1>3. pc = "raw" /\ UNCHANGED <<frames, sent, closed, cut, mode, buf, stream, left>>
    BY DEF ReadRaw, daemon
  <1>4. /\ c \in Channel /\ w \in Nat /\ k \in Nat /\ k > 0 /\ k <= w /\ k \in 0..w /\ g \in Nat /\ t \in Nat
        /\ wire \in Seq(ByteType)
    BY <1>1, Counts, ChannelOfStream DEF TypeOK
  <1>5. /\ g + w <= t /\ (~cut => g + w = t)
        /\ \A j \in 1..w : wire[j] = sent[c][g + j]
        /\ \A d \in Channel \ {c} : sent[d] = <<>>
    BY <1>1, <1>3 DEF Raw
  <1>6. /\ got' \in [Channel -> Seq(ByteType)] /\ Beginning'
        /\ \/ pc' = "raised" /\ got' = got
           \/ pc' = "raw" /\ Gave(c, k)
    <2>1. \A j \in 1..k : j \in 1..w
      BY <1>4
    <2>2. \A j \in 1..k : wire[j] = sent[c][g + j]
      BY <1>5, <2>1
    <2>3. g + k <= t
      <3> HIDE DEF g, w, t
      <3> QED
        BY <1>4, <1>5
    <2>4. TypeOK /\ Beginning /\ k \in 0..Len(wire) /\ UNCHANGED sent
      BY <1>1, <1>3, <1>4
    <2>5. Yield(STDOUT, Take(wire, k), "raw") /\ c \in Channel
      BY <1>2, <1>4
    <2> QED
      BY <2>2, <2>3, <2>4, <2>5, Yielded
  <1>7. wire' \in Seq(ByteType) /\ Len(wire') = w - k /\ \A j \in 1..(w - k) : wire'[j] = wire[j + k]
    <2>1. wire \in Seq(ByteType) /\ k \in 0..Len(wire)
      BY <1>4
    <2> QED
      BY <1>2, <2>1, TakeDrop
  <1>8. TypeOK'
    BY <1>1, <1>3, <1>6, <1>7 DEF TypeOK
  <1>9. Sound' /\ Framing' /\ Ended'
    BY <1>1, <1>3, <1>6 DEF Sound, Socket, Framing, Ended
  <1>10. Raw'
    <2>1. CASE pc' = "raised"
      BY <2>1 DEF Raw
    <2>2. CASE pc' = "raw" /\ Gave(c, k)
      <3> DEFINE h == Len(got'[c])  v == Len(wire')
      <3>1. h = g + k /\ v = w - k
        BY <1>7, <2>2 DEF Gave
      <3>2. ASSUME NEW j \in 1..v PROVE wire'[j] = sent[c][h + j]
        <4> HIDE DEF g, w, t, h, v, c
        <4>1. j \in 1..(w - k) /\ j + k \in 1..w /\ h + j = g + (j + k)
          BY <1>4, <3>1
        <4> QED
          BY <1>5, <1>7, <4>1
      <3>3. h + v <= t /\ (~cut => h + v = t)
        <4> HIDE DEF g, w, t, h, v
        <4> QED
          BY <1>4, <1>5, <3>1
      <3> QED
        BY <1>3, <1>5, <3>2, <3>3 DEF Raw
    <2> QED
      BY <1>6, <2>1, <2>2
  <1> QED
    BY <1>4, <1>6, <1>8, <1>9, <1>10 DEF IInv

(* A payload through the socket, or whole through the response.            *)
LEMMA BodyStep ==
    ASSUME IInv, ReadBody \/ ResponseBody
    PROVE  /\ IInv' /\ Into(mode, stream) \in Channel
           /\ \/ pc' = "raised" /\ got' = got
              \/ pc' \in {"frame", "body"} /\ \E k \in Nat : Gave(Into(mode, stream), k)
  <1>1. TypeOK /\ Sound /\ Framing
    BY DEF IInv
  <1>2. Len(wire) \in Nat /\ left \in Nat
    BY <1>1, Counts
  <1>3. \E k \in 1..Len(wire) :
           /\ pc = "body" /\ k <= left /\ wire' = Drop(wire, k) /\ left' = left - k
           /\ Yield(stream, Take(wire, k), IF left' = 0 THEN "frame" ELSE "body")
           /\ UNCHANGED <<daemon, mode, buf, stream>>
    <2>1. CASE ReadBody
      BY <2>1 DEF ReadBody
    <2>2. CASE ResponseBody
      <3>1. PICK L \in Plan, N \in Nat, r \in Nat : Planned(L) /\ Carried(L, N) /\ Reading(L, N, r)
        BY <1>1, <2>2 DEF Framing, ResponseBody
      <3>2. left > 0
        BY <2>2, <3>1 DEF Reading, ResponseBody
      <3>3. /\ Len(wire) >= left /\ wire' = Drop(wire, left) /\ pc' = "frame"
            /\ got' = [got EXCEPT !["joined"] = @ \o Take(wire, left)]
            /\ left' = 0 /\ pc = "body" /\ UNCHANGED <<daemon, mode, buf, stream>>
        BY <2>2 DEF ResponseBody
      <3>j. Into(mode, stream) = "joined"
        BY <1>1, <2>2, FrameConstants DEF TypeOK, ResponseBody, Socket, Into
      <3>y. Yield(stream, Take(wire, left), "frame")
        BY <3>3, <3>j DEF Yield
      <3>4. left \in 1..Len(wire) /\ left <= left /\ left' = left - left
        BY <1>2, <3>2, <3>3
      <3> QED
        BY <3>3, <3>4, <3>y
    <2> QED
      BY <2>1, <2>2
  <1>4. PICK k \in 1..Len(wire) :
           /\ pc = "body" /\ k <= left /\ wire' = Drop(wire, k) /\ left' = left - k
           /\ Yield(stream, Take(wire, k), IF left' = 0 THEN "frame" ELSE "body")
           /\ UNCHANGED <<daemon, mode, buf, stream>>
    BY <1>3
  <1>5. k \in Nat
    BY <1>2
  <1> QED
    BY <1>4, <1>5, PayloadStep

(* A header through the response, which reads it whole.                    *)
LEMMA ResponseHeaderStep ==
    ASSUME IInv, ResponseHeader
    PROVE  IInv'
  <1>1. TypeOK /\ Sound /\ Framing
    BY DEF IInv
  <1>2. PICK k : k = HeaderSize
    OBVIOUS
  <1>3. /\ Len(wire) \in Nat /\ k \in Nat /\ k > 0 /\ k <= Len(wire) /\ pc = "frame" /\ buf = <<>>
        /\ wire' = Drop(wire, k) /\ Unpack(Take(wire, k)) /\ UNCHANGED <<daemon, mode>>
    BY <1>1, <1>2, Counts DEF Sound, ResponseHeader
  <1>4. k \in 1..Len(wire) /\ k \in 0..Len(wire) /\ 1 \in 1..k /\ Len(buf) = 0 /\ Len(buf) + k = HeaderSize
    BY <1>2, <1>3
  <1>5. Take(wire, k)[1] = wire[1]
    <2>1. wire \in Seq(ByteType) /\ k \in 0..Len(wire)
      BY <1>1, <1>4 DEF TypeOK
    <2>2. \A i \in 1..k : Take(wire, k)[i] = wire[i]
      BY <2>1, TakeDrop
    <2> QED
      BY <1>4, <2>2
  <1>6. Take(wire, k)[1] = (IF Len(buf) > 0 THEN buf[1] ELSE wire[1])
    BY <1>4, <1>5
  <1> QED
    BY <1>3, <1>4, <1>6, UnpackStep

(* The reader ends, with or without an error.                              *)
LEMMA EndStep ==
    ASSUME IInv, ReadEOF \/ ReadError \/ ReadNone \/ ResponseEnd
    PROVE  /\ IInv' /\ pc \notin {"done", "raised"}
           /\ pc' = "raised" \/ (pc' = "done" /\ (cut \/ MayEndEarly \/ got = sent))
           /\ UNCHANGED <<sent, got, cut, mode>>
  <1>1. TypeOK /\ Sound /\ Framing /\ Raw /\ Beginning /\ Ended
    BY DEF IInv
  <1>2. /\ pc \in {"frame", "body", "raw"} /\ pc' \in {"done", "raised"}
        /\ UNCHANGED <<frames, sent, closed, cut, mode, wire, buf, stream, left, got>>
    BY DEF ReadEOF, ReadError, ReadNone, ResponseEnd, daemon
  <1>3. pc' = "done" => \/ MayEndEarly
                        \/ wire = <<>> /\ (closed \/ cut) /\ (~Socket => closed /\ pc = "frame")
    BY <1>1 DEF ReadEOF, ReadError, ReadNone, ResponseEnd, Open, Sound, MayEndEarly
  <1>4. ASSUME wire = <<>>, ~cut
        PROVE  \A c \in Channel : Len(got[c]) = Len(sent[c])
    <2>1. CASE pc \in {"frame", "body"}
      <3>1. PICK L \in Plan, N \in Nat, r \in Nat : Planned(L) /\ Carried(L, N) /\ Reading(L, N, r)
        BY <1>1, <2>1 DEF Framing
      <3> QED
        BY <1>1, <1>4, <2>1, <3>1, AtEnd
    <2>2. CASE pc = "raw"
      <3> DEFINE c == Into(mode, STDOUT)
      <3>1. /\ Len(got[c]) + Len(wire) = Len(sent[c]) /\ Len(wire) = 0 /\ c \in Channel
            /\ \A d \in Channel \ {c} : sent[d] = <<>>
        BY <1>1, <1>4, <2>2, ChannelOfStream DEF Raw
      <3>2. \A d \in Channel : Len(got[d]) \in Nat /\ Len(sent[d]) \in Nat /\ Len(got[d]) <= Len(sent[d])
        BY <1>1, Counts DEF Beginning
      <3>3. \A d \in Channel \ {c} : Len(sent[d]) = 0
        BY <3>1
      <3> HIDE DEF c
      <3> QED
        BY <3>1, <3>2, <3>3
    <2> QED
      BY <1>2, <2>1, <2>2
  <1>5. TypeOK' /\ Sound' /\ Beginning' /\ Framing' /\ Raw'
    BY <1>1, <1>2 DEF TypeOK, Sound, Socket, Beginning, Framing, Raw
  <1>6. Ended'
    <2>1. pc' = "done" /\ ~MayEndEarly => /\ wire = <<>> /\ (closed \/ cut)
                                          /\ closed => \A c \in Channel : Len(got[c]) = Len(sent[c])
                                          /\ ~Socket => closed
      BY <1>1, <1>3, <1>4 DEF Sound
    <2> QED
      BY <1>2, <2>1 DEF Ended, MayEndEarly, Socket
  <1>7. (\A c \in Channel : Len(got[c]) = Len(sent[c])) => got = sent
    BY <1>1, Complete
  <1>8. pc' = "done" => cut \/ MayEndEarly \/ got = sent
    BY <1>3, <1>4, <1>7
  <1> QED
    BY <1>2, <1>5, <1>6, <1>8 DEF IInv

(* Every step keeps the invariant.                                         *)
LEMMA NextIInv ==
    ASSUME ~ReadAhead, IInv, [Next]_vars
    PROVE  IInv'
  <1>1. CASE Write
    BY <1>1, WriteStep
  <1>2. CASE Close
    BY <1>2, CloseStep
  <1>3. CASE Cut
    BY <1>3, CutStep
  <1>4. CASE ParseHead
    BY <1>4, HeadStep
  <1>5. CASE ReadHeader
    BY <1>5, ReadHeaderStep
  <1>6. CASE ReadBody \/ ResponseBody
    BY <1>6, BodyStep
  <1>7. CASE ReadRaw
    BY <1>7, ReadRawStep
  <1>8. CASE ReadEOF \/ ReadError \/ ReadNone \/ ResponseEnd
    BY <1>8, EndStep
  <1>9. CASE ResponseHeader
    BY <1>9, ResponseHeaderStep
  <1>10. CASE UNCHANGED vars
    BY <1>10 DEF vars, daemon, IInv, TypeOK, Sound, Socket, Framing, Planned, Carried, Reading, Raw,
                 Beginning, Ended, MayEndEarly
  <1> QED
    BY <1>1, <1>2, <1>3, <1>4, <1>5, <1>6, <1>7, <1>8, <1>9, <1>10
       DEF Next, Read, ReadSocket, ReadResponse

-----------------------------------------------------------------------------
(* Theorems                                                                *)

(* Whatever the reads return, the reader is at a place of the connection   *)
(* that the plan of the frames sent accounts for, unless part of the       *)
(* output came with the response's head.                                   *)
THEOREM FrameInvariance ==
    ASSUME ~ReadAhead
    PROVE  Spec => []IInv
  <1>1. IInv /\ [Next]_vars => IInv'
    BY NextIInv
  <1> QED
    BY <1>1, InitIInv, PTL DEF Spec

(* The output ends quietly only when there is nothing left to read and     *)
(* nothing can come any more: no frame, the empty one included, ends it;   *)
(* and through the response a connection cut short is never taken for the  *)
(* end.                                                                    *)
THEOREM EndsRightlyHolds ==
    ASSUME ~ReadAhead
    PROVE  Spec => []EndsRightly
  <1>1. IInv => EndsRightly
    <2> SUFFICES ASSUME IInv PROVE EndsRightly
      OBVIOUS
    <2>1. TypeOK /\ Sound /\ Beginning /\ Ended
      BY DEF IInv
    <2>2. EndsOnlyAtEOF
      BY <2>1 DEF EndsOnlyAtEOF, Ended
    <2>3. CutIsReported
      <3> SUFFICES ASSUME ~Socket, pc = "done" PROVE closed /\ got = sent
        BY DEF CutIsReported
      <3>1. ~MayEndEarly
        BY <2>1, FrameConstants DEF TypeOK, Socket, MayEndEarly
      <3>2. closed /\ \A c \in Channel : Len(got[c]) = Len(sent[c])
        BY <2>1, <3>1 DEF Ended
      <3> QED
        BY <2>1, <3>2, Complete
    <2> QED
      BY <2>1, <2>2, <2>3 DEF EndsRightly
  <1> QED
    BY <1>1, FrameInvariance, PTL

\* What the abstract output is in: the state of Ordered, and its losses.
Phase == CASE pc = "done" -> "ended" [] pc = "raised" -> "failed" [] OTHER -> "open"
Lossy == cut \/ MayEndEarly

(* A step that gives the caller more of a channel delivers it.             *)
LEMMA GaveDelivers ==
    ASSUME TypeOK, TypeOK', Beginning', NEW c \in Channel, NEW k \in Nat, Gave(c, k), UNCHANGED sent
    PROVE  /\ Ordered!Extends(got'[c], got[c]) /\ Ordered!Extends(sent[c], got'[c])
           /\ \A d \in Channel \ {c} : got'[d] = got[d]
           /\ DOMAIN got' = Channel
  <1>1. /\ got[c] \in Seq(ByteType) /\ got'[c] \in Seq(ByteType) /\ sent[c] \in Seq(ByteType)
        /\ DOMAIN got' = Channel
    BY DEF TypeOK
  <1>2. /\ Len(got[c]) <= Len(got'[c])
        /\ \A i \in 1..Len(got[c]) : got[c][i] = got'[c][i]
    <2>1. Len(got'[c]) = Len(got[c]) + k /\ Len(got[c]) \in Nat
      BY Counts DEF Gave
    <2>2. Len(got[c]) <= Len(got'[c])
      <3> DEFINE g == Len(got[c])
      <3>1. Len(got'[c]) = g + k /\ g \in Nat
        BY <2>1
      <3> HIDE DEF g
      <3>2. g <= Len(got'[c])
        BY <3>1
      <3> QED
        BY <3>2 DEF g
    <2> QED
      BY <2>2 DEF Gave
  <1>3. Len(got'[c]) <= Len(sent[c]) /\ \A i \in 1..Len(got'[c]) : got'[c][i] = sent[c][i]
    BY DEF Beginning
  <1>4. Ordered!Extends(got'[c], got[c])
    <2>1. got[c] \in Seq(ByteType) /\ got'[c] \in Seq(ByteType)
      BY <1>1
    <2> QED
      BY <1>2, <2>1, ExtendsPointwise
  <1>5. Ordered!Extends(sent[c], got'[c])
    <2>1. sent[c] \in Seq(ByteType) /\ got'[c] \in Seq(ByteType)
      BY <1>1
    <2>2. \A i \in 1..Len(got'[c]) : sent[c][i] = got'[c][i]
      BY <1>3
    <2> QED
      BY <1>3, <2>1, <2>2, ExtendsPointwise
  <1> QED
    BY <1>1, <1>4, <1>5 DEF Gave

(* A step of the connection or of the reader is a step of the abstract     *)
(* output, or leaves it alone.                                             *)
LEMMA StepInOrder ==
    ASSUME ~ReadAhead, IInv, [Next]_vars
    PROVE  [Ordered!Next]_(Ordered!vars)
  <1>1. TypeOK /\ IInv' /\ TypeOK' /\ Beginning'
    BY NextIInv DEF IInv
  <1>2. ASSUME Phase' = Phase, Lossy' = Lossy, UNCHANGED <<sent, got>>
        PROVE  UNCHANGED Ordered!vars
    BY <1>2 DEF Ordered!vars, Phase, Lossy
  <1>3. ASSUME NEW c \in Channel, Ordered!Extends(sent'[c], sent[c]),
               \A d \in Channel \ {c} : sent'[d] = sent[d], DOMAIN sent' = Channel,
               Phase' = Phase, Lossy' = Lossy, got' = got
        PROVE  Ordered!Next
    BY <1>3 DEF Ordered!Next, Ordered!Write, Phase, Lossy
  <1>4. ASSUME NEW c \in Channel, NEW k \in Nat, Gave(c, k), Phase = "open", Phase' = "open",
               Lossy' = Lossy, sent' = sent
        PROVE  Ordered!Next
    <2>1. /\ Ordered!Extends(got'[c], got[c]) /\ Ordered!Extends(sent[c], got'[c])
          /\ \A d \in Channel \ {c} : got'[d] = got[d]
          /\ DOMAIN got' = Channel
      BY <1>1, <1>4, GaveDelivers
    <2> QED
      BY <1>4, <2>1 DEF Ordered!Next, Ordered!Deliver, Phase, Lossy
  <1>5. ASSUME Phase = "open", Phase' = "ended", Lossy \/ got = sent, Lossy' = Lossy,
               UNCHANGED <<sent, got>>
        PROVE  Ordered!Next
    BY <1>5 DEF Ordered!Next, Ordered!End, Phase, Lossy
  <1>6. ASSUME Phase = "open", Phase' = "failed", Lossy' = Lossy, UNCHANGED <<sent, got>>
        PROVE  Ordered!Next
    BY <1>6 DEF Ordered!Next, Ordered!Fail, Phase, Lossy
  <1>7. ASSUME Lossy', Phase' = Phase, UNCHANGED <<sent, got>>
        PROVE  Ordered!Next
    BY <1>7 DEF Ordered!Next, Ordered!Cut, Phase, Lossy
  <1>8. CASE Write
    <2>1. PICK s \in (IF mode.tty THEN {STDOUT} ELSE Stream), n \in 0..MaxPayload : Send(s, n)
      BY <1>8 DEF Write
    <2>2. s \in Stream \union {STDOUT} /\ Into(mode, s) \in Channel /\ n \in Nat
      BY <2>1, FrameConstants, ChannelOfStream
    <2>3. Sent(Into(mode, s), s, n)
      BY <1>1, <2>1, <2>2, SendEffect
    <2>4. UNCHANGED <<cut, mode, pc, got>>
      BY <2>1 DEF Send, reader
    <2> DEFINE c == Into(mode, s)
    <2>5. /\ sent[c] \in Seq(ByteType) /\ sent'[c] \in Seq(ByteType) /\ Len(sent[c]) \in Nat
          /\ DOMAIN sent' = Channel
      BY <1>1, <2>2, Counts DEF TypeOK
    <2>6. /\ Len(sent'[c]) = Len(sent[c]) + n
          /\ \A i \in 1..Len(sent[c]) : sent'[c][i] = sent[c][i]
          /\ \A d \in Channel \ {c} : sent'[d] = sent[d]
      BY <2>3 DEF Sent
    <2> HIDE DEF c
    <2>7. Len(sent[c]) <= Len(sent'[c])
      <3> DEFINE t == Len(sent[c])
      <3>1. Len(sent'[c]) = t + n /\ t \in Nat
        BY <2>5, <2>6
      <3> HIDE DEF t
      <3>2. t <= Len(sent'[c])
        BY <2>2, <3>1
      <3> QED
        BY <3>2 DEF t
    <2>8. Ordered!Extends(sent'[c], sent[c])
      <3>1. sent[c] \in Seq(ByteType) /\ sent'[c] \in Seq(ByteType)
        BY <2>5
      <3> QED
        BY <2>6, <2>7, <3>1, ExtendsPointwise
    <2>9. c \in Channel /\ Phase' = Phase /\ Lossy' = Lossy /\ got' = got
      BY <2>2, <2>4 DEF c, Phase, Lossy, MayEndEarly
    <2> QED
      BY <1>3, <2>5, <2>6, <2>8, <2>9
  <1>9. CASE Close \/ ParseHead \/ ReadHeader \/ ResponseHeader
    <2>1. /\ UNCHANGED <<sent, got, cut, mode>>
          /\ pc' = pc \/ {pc, pc'} \cap {"done", "raised"} = {}
      BY <1>9 DEF Close, ParseHead, ReadHeader, ResponseHeader, Unpack, daemon, reader
    <2>2. Phase' = Phase /\ Lossy' = Lossy /\ UNCHANGED <<sent, got>>
      BY <2>1 DEF Phase, Lossy, MayEndEarly
    <2> QED
      BY <1>2, <2>2
  <1>10. CASE Cut
    <2>1. cut' /\ UNCHANGED <<sent, got, mode, pc>>
      BY <1>10 DEF Cut, reader
    <2>2. Lossy' /\ Phase' = Phase
      BY <2>1 DEF Phase, Lossy
    <2> QED
      BY <1>7, <2>1, <2>2
  <1>11. CASE ReadBody \/ ResponseBody \/ ReadRaw
    <2>1. /\ UNCHANGED <<sent, cut, mode>> /\ pc \in {"body", "raw"}
      BY <1>11 DEF ReadBody, ResponseBody, ReadRaw, daemon
    <2>2. \E c \in Channel :
             \/ pc' = "raised" /\ got' = got
             \/ pc' \in {"frame", "body", "raw"} /\ \E k \in Nat : Gave(c, k)
      <3>1. CASE ReadBody \/ ResponseBody
        <4>1. PICK c : c = Into(mode, stream)
          OBVIOUS
        <4>2. /\ c \in Channel
              /\ \/ pc' = "raised" /\ got' = got
                 \/ pc' \in {"frame", "body", "raw"} /\ \E k \in Nat : Gave(c, k)
          BY <3>1, <4>1, BodyStep
        <4> QED
          BY <4>2
      <3>2. CASE ReadRaw
        <4>1. PICK c : c = Into(mode, STDOUT)
          OBVIOUS
        <4>2. /\ c \in Channel
              /\ \/ pc' = "raised" /\ got' = got
                 \/ pc' \in {"frame", "body", "raw"} /\ \E k \in Nat : Gave(c, k)
          BY <3>2, <4>1, ReadRawStep
        <4> QED
          BY <4>2
      <3> QED
        BY <1>11, <3>1, <3>2
    <2>3. Phase = "open" /\ Lossy' = Lossy
      BY <2>1 DEF Phase, Lossy, MayEndEarly
    <2>4. CASE pc' = "raised" /\ got' = got
      BY <1>6, <2>1, <2>3, <2>4 DEF Phase
    <2>5. CASE \E c \in Channel : pc' \in {"frame", "body", "raw"} /\ \E k \in Nat : Gave(c, k)
      <3>1. Phase' = "open"
        BY <2>5 DEF Phase
      <3> QED
        BY <1>4, <2>1, <2>3, <2>5, <3>1
    <2> QED
      BY <2>2, <2>4, <2>5
  <1>12. CASE ReadEOF \/ ReadError \/ ReadNone \/ ResponseEnd
    <2>1. /\ pc \notin {"done", "raised"} /\ UNCHANGED <<sent, got, cut, mode>>
          /\ pc' = "raised" \/ (pc' = "done" /\ (cut \/ MayEndEarly \/ got = sent))
      BY <1>12, EndStep
    <2>2. Phase = "open" /\ Lossy' = Lossy
      BY <2>1 DEF Phase, Lossy, MayEndEarly
    <2>3. Phase' = "failed" \/ (Phase' = "ended" /\ (Lossy \/ got = sent))
      BY <2>1 DEF Phase, Lossy
    <2> QED
      BY <1>5, <1>6, <2>1, <2>2, <2>3
  <1>13. CASE UNCHANGED vars
    <2>1. Phase' = Phase /\ Lossy' = Lossy /\ UNCHANGED <<sent, got>>
      BY <1>13 DEF vars, daemon, Phase, Lossy, MayEndEarly
    <2> QED
      BY <1>2, <2>1
  <1> QED
    BY <1>8, <1>9, <1>10, <1>11, <1>12, <1>13 DEF Next, Read, ReadSocket, ReadResponse

(* The output is the container's, in order, each byte once and on the      *)
(* right channel, whatever the reads return; and it is complete when it    *)
(* ends without an error, unless the connection broke or MayEndEarly.      *)
THEOREM InOrderHolds ==
    ASSUME ~ReadAhead
    PROVE  Spec => InOrder
  <1>1. Init => Ordered!Init
    BY DEF Init, Ordered!Init, MayEndEarly
  <1>2. IInv /\ [Next]_vars => [Ordered!Next]_(Ordered!vars)
    BY StepInOrder
  <1> QED
    BY <1>1, <1>2, FrameInvariance, PTL DEF Spec, InOrder, Ordered!Spec
=============================================================================
