------------------------ MODULE ProgressStreamProofs ------------------------
(***************************************************************************)
(* However chunks cut the text of a stream, its entries are yielded once,  *)
(* in order and at once, and no operation reports anything but what its    *)
(* stream said: proofs of the safety properties of ProgressStream, for     *)
(* streams of any length.                                                  *)
(***************************************************************************)
EXTENDS ProgressStream, SequenceTheorems, TLAPS

-----------------------------------------------------------------------------
(* The inductive invariant                                                 *)

Char == {Space} \union ((1..MaxSent) \X {1, 2})

\* x is character q of the text of a stream.
IsChar(x, q) ==
    \A k \in Nat : /\ q = 3 * k + 1 => x = <<k + 1, 1>>
                   /\ q = 3 * k + 2 => x = <<k + 1, 2>>
                   /\ q = 3 * k + 3 => x = Space

\* The text s follows the first b characters.
Follows(s, b) == \A p \in 1..Len(s) : IsChar(s[p], b + p)

\* The buffer begins after as many entries as have been yielded, or with the
\* line end of the last one, and the connection where the buffer ends.
Framed(b) ==
    /\ b \in {3 * Len(got) - 1, 3 * Len(got)}
    /\ Follows(buffer, b) /\ Follows(wire, b + Len(buffer))
    /\ b + Len(buffer) + Len(wire) <= 3 * Len(sent)
    /\ line # "cut" => b + Len(buffer) + Len(wire) = 3 * Len(sent)

Framing == \E b \in Nat : Framed(b)

\* What has been yielded is the beginning of what was sent.
Beginning == Len(got) <= Len(sent) /\ \A i \in 1..Len(got) : got[i] = sent[i]

\* The step the reader is at.
Placed ==
    /\ pc \in {"request", "read"} => ~Whole(buffer)
    /\ buffer = <<Space>> => bare
    /\ pc = "consume" => item = Len(got) /\ item > 0
    /\ pc \in {"finish", "get"} => line = "ended" /\ Len(got) = Len(sent)
    /\ pc = "get" => use \in Loader \union {"pull"}
    /\ pc = "request" => ~Streamed
    /\ ~Streamed => sent = <<>> /\ wire = <<>> /\ line = "open"

\* What the daemon ends the stream of a build with.
Built ==
    use = "build" =>
        /\ \A i \in Tells("made") : i = Len(sent)
        /\ line = "ended" /\ answer = "chunked" => HasError \/ Tells("made") # {}

\* A message tells of no image, and a build looks up one that it has read of.
Worded ==
    /\ pc = "request" => found = <<>>
    /\ answer = "message" => found = <<>> /\ \A i \in 1..Len(sent) : sent[i].id = None
    /\ pc = "get" /\ use = "build" => found # <<>>

\* The first n entries hold no error, and the images of those that make one
\* have been found, the last of them by a build, all of them by a load.
Clean(n) == \A i \in 1..n : sent[i].kind # "error"
Listed(n) ==
    \E f \in [DOMAIN found -> Tells("made") \intersect 1..n] :
        /\ Increasing(f)
        /\ \A i \in Tells("made") \intersect 1..n : \E j \in DOMAIN found : f[j] = i
        /\ \A j \in DOMAIN found : found[j] = sent[f[j]].id
Found(n) ==
    /\ use \in Loader => Clean(n)
    /\ use = "build" /\ n > 0 /\ sent[n].id # None => found = <<sent[n].id>>
    /\ use = "load" => Listed(n)
Consumed ==
    /\ pc \in {"request", "read", "split", "finish", "get"} => Found(Len(got))
    /\ pc = "consume" => Found(Len(got) - 1)

\* Images are looked up in the order they were found in.
LookedUp ==
    /\ pc \notin {"get", "idle"} => held = <<>>
    /\ Len(held) <= Len(found) /\ \A j \in 1..Len(held) : held[j] = found[j]

\* Why an operation ended as it did.
Reasons ==
    /\ Idle <=> result # "none"
    /\ result = "APIError" => answer \in {"error", "message"}
    /\ result = "ProtocolError" => line = "cut"
    /\ result \in {"BuildError", "ImageLoadError"} => HasError \/ answer = "message"
    /\ result = "StreamParseError" => bare

IInv == /\ TypeOK /\ Framing /\ Beginning /\ Placed /\ Built /\ Worded /\ Consumed /\ LookedUp
        /\ Reasons /\ SuccessIsWhole /\ ReturnsWhatWasMade

-----------------------------------------------------------------------------
(* Text                                                                    *)

(* A chunk takes the first k characters and leaves the others.             *)
LEMMA TakeDrop ==
    ASSUME NEW S, NEW s \in Seq(S), NEW k \in 0..Len(s)
    PROVE  /\ Take(s, k) \in Seq(S) /\ Len(Take(s, k)) = k
           /\ \A i \in 1..k : Take(s, k)[i] = s[i]
           /\ Drop(s, k) \in Seq(S) /\ Len(Drop(s, k)) = Len(s) - k
           /\ \A i \in 1..(Len(s) - k) : Drop(s, k)[i] = s[i + k]
  <1>1. Len(s) \in Nat /\ \A i \in 1..Len(s) : s[i] \in S
    BY LenProperties, ElementOfSeq
  <1>2. \A i \in 1..k : s[i] \in S
    BY <1>1
  <1>3. /\ Take(s, k) \in Seq(S) /\ Len(Take(s, k)) = k
        /\ \A i \in 1..k : Take(s, k)[i] = s[i]
    BY <1>1, <1>2, SubSeqProperties DEF Take
  <1>4. \A i \in (k + 1)..Len(s) : s[i] \in S
    BY <1>1
  <1>5. /\ Drop(s, k) \in Seq(S) /\ Len(Drop(s, k)) = Len(s) - k
        /\ \A i \in 1..(Len(s) - k) : Drop(s, k)[i] = s[i + k]
    BY <1>1, <1>4, SubSeqProperties DEF Drop
  <1> QED
    BY <1>3, <1>5

(* Text that follows is cut anywhere into texts that follow.               *)
LEMMA FollowsCut ==
    ASSUME NEW s \in Seq(Char), NEW b \in Nat, Follows(s, b), NEW k \in 0..Len(s)
    PROVE  Follows(Take(s, k), b) /\ Follows(Drop(s, k), b + k)
  <1>1. PICK n : n = Len(s)
    OBVIOUS
  <1>2. n \in Nat /\ k \in 0..n
    BY <1>1, LenProperties
  <1>3. /\ Len(Take(s, k)) = k /\ \A i \in 1..k : Take(s, k)[i] = s[i]
        /\ Len(Drop(s, k)) = n - k /\ \A i \in 1..(n - k) : Drop(s, k)[i] = s[i + k]
    BY <1>1, TakeDrop
  <1>4. \A p \in 1..n : IsChar(s[p], b + p)
    BY <1>1 DEF Follows
  <1>5. ASSUME NEW p \in 1..(n - k)
        PROVE  IsChar(s[p + k], b + k + p)
    <2>1. p + k \in 1..n /\ b + (p + k) = b + k + p
      BY <1>2
    <2> QED
      BY <1>4, <2>1
  <1>6. \A p \in 1..k : p \in 1..n
    BY <1>2
  <1> QED
    BY <1>3, <1>4, <1>5, <1>6 DEF Follows

(* ... and put together again.                                             *)
LEMMA FollowsJoined ==
    ASSUME NEW s \in Seq(Char), NEW t \in Seq(Char), NEW b \in Nat,
           Follows(s, b), Follows(t, b + Len(s))
    PROVE  s \o t \in Seq(Char) /\ Len(s \o t) = Len(s) + Len(t) /\ Follows(s \o t, b)
  <1>1. PICK m, n : m = Len(s) /\ n = Len(t)
    OBVIOUS
  <1>2. m \in Nat /\ n \in Nat
    BY <1>1, LenProperties
  <1>3. /\ s \o t \in Seq(Char) /\ Len(s \o t) = m + n
        /\ \A i \in 1..(m + n) : (s \o t)[i] = IF i <= m THEN s[i] ELSE t[i - m]
    BY <1>1, ConcatProperties
  <1>4. /\ \A p \in 1..m : IsChar(s[p], b + p)
        /\ \A p \in 1..n : IsChar(t[p], b + m + p)
    BY <1>1 DEF Follows
  <1>5. ASSUME NEW p \in 1..(m + n)
        PROVE  IsChar((s \o t)[p], b + p)
    <2>1. CASE p <= m
      <3>1. p \in 1..m
        BY <1>2, <2>1
      <3> QED
        BY <1>3, <1>4, <2>1, <3>1
    <2>2. CASE ~(p <= m)
      <3>1. p - m \in 1..n /\ b + m + (p - m) = b + p
        BY <1>2, <2>2
      <3>2. IsChar(t[p - m], b + p)
        BY <1>4, <3>1
      <3> QED
        BY <1>3, <2>2, <3>2
    <2> QED
      BY <2>1, <2>2
  <1> QED
    BY <1>1, <1>3, <1>5 DEF Follows

(* What comes after m entries, or with the line end of the m-th, begins    *)
(* with entry m + 1 when it has been stripped.                             *)
LEMMA Stripped ==
    ASSUME NEW s \in Seq(Char), NEW b \in Nat, NEW m \in Nat, b \in {3 * m - 1, 3 * m}, Follows(s, b)
    PROVE  \E c \in Nat :
              /\ c \in {3 * m - 1, 3 * m} /\ Strip(s) \in Seq(Char) /\ c + Len(Strip(s)) = b + Len(s)
              /\ Follows(Strip(s), c) /\ (Strip(s) # <<>> => c = 3 * m)
  <1>1. CASE s = <<>>
    <2>1. Strip(s) = s
      BY <1>1 DEF Strip
    <2> QED
      BY <1>1, <2>1
  <1>2. CASE s # <<>> /\ b = 3 * m - 1
    <2>1. Len(s) \in Nat /\ Len(s) >= 1 /\ Head(s) = s[1]
      BY <1>2
    <2>2. 1 \in 1..Len(s) /\ m > 0 /\ m - 1 \in Nat /\ b + 1 = 3 * (m - 1) + 3
      BY <1>2, <2>1
    <2>3. s[1] = Space
      BY <2>2 DEF Follows, IsChar
    <2>4. Strip(s) = Tail(s)
      BY <1>2, <2>1, <2>3 DEF Strip
    <2>5. Tail(s) \in Seq(Char) /\ Len(Tail(s)) = Len(s) - 1 /\ \A i \in 1..(Len(s) - 1) : Tail(s)[i] = s[i + 1]
      BY <1>2, HeadTailProperties
    <2>6. ASSUME NEW p \in 1..(Len(s) - 1)
          PROVE  IsChar(s[p + 1], 3 * m + p)
      <3>1. p + 1 \in 1..Len(s) /\ b + (p + 1) = 3 * m + p
        BY <1>2, <2>1
      <3> QED
        BY <3>1 DEF Follows
    <2>7. Follows(Tail(s), 3 * m)
      BY <2>5, <2>6 DEF Follows
    <2>8. 3 * m + (Len(s) - 1) = b + Len(s) /\ 3 * m \in Nat
      BY <1>2, <2>1
    <2> QED
      BY <2>4, <2>5, <2>7, <2>8
  <1>3. CASE s # <<>> /\ b = 3 * m
    <2>1. Len(s) \in Nat /\ Len(s) >= 1 /\ Head(s) = s[1]
      BY <1>3
    <2>2. 1 \in 1..Len(s) /\ b + 1 = 3 * m + 1
      BY <1>3, <2>1
    <2>3. s[1] = <<m + 1, 1>>
      BY <2>2 DEF Follows, IsChar
    <2>4. s[1] # Space
      BY <2>3 DEF Space
    <2>5. Strip(s) = s
      BY <2>1, <2>4 DEF Strip
    <2> QED
      BY <1>3, <2>5
  <1> QED
    BY <1>1, <1>2, <1>3

(* There is an object at the front once both halves of entry m + 1 are.    *)
LEMMA WholeWhen ==
    ASSUME NEW s \in Seq(Char), NEW b \in Nat, NEW m \in Nat, b \in {3 * m - 1, 3 * m}, Follows(s, b)
    PROVE  /\ Whole(s) <=> b + Len(s) >= 3 * m + 2
           /\ Whole(s) => Strip(s)[1] = <<m + 1, 1>>
  <1>1. PICK c \in Nat :
              /\ c \in {3 * m - 1, 3 * m} /\ Strip(s) \in Seq(Char) /\ c + Len(Strip(s)) = b + Len(s)
              /\ Follows(Strip(s), c) /\ (Strip(s) # <<>> => c = 3 * m)
    BY Stripped
  <1>2. PICK t, n, z : t = Strip(s) /\ n = Len(t) /\ z = b + Len(s)
    OBVIOUS
  <1>3. n \in Nat /\ z = c + n /\ t \in Seq(Char) /\ (t = <<>> <=> n = 0) /\ (n > 0 => c = 3 * m)
    BY <1>1, <1>2
  <1>4. n >= 2 <=> z >= 3 * m + 2
    BY <1>1, <1>3
  <1>5. ASSUME n >= 2
        PROVE  t[1] = <<m + 1, 1>> /\ t[2] = <<m + 1, 2>>
    <2>1. c = 3 * m /\ 1 \in 1..n /\ 2 \in 1..n
      BY <1>3, <1>5
    <2>2. IsChar(t[1], 3 * m + 1) /\ IsChar(t[2], 3 * m + 2)
      BY <1>1, <1>2, <2>1 DEF Follows
    <2> QED
      BY <2>2 DEF IsChar
  <1>6. Decodes(t) <=> n >= 2
    <2>1. Decodes(t) => n >= 2
      BY <1>2 DEF Decodes
    <2>2. ASSUME n >= 2
          PROVE  Decodes(t)
      <3>1. t[1] = <<m + 1, 1>> /\ t[2] = <<m + 1, 2>> /\ Len(t) >= 2
        BY <1>2, <1>5, <2>2
      <3>2. t[1] # Space /\ t[1][1] = m + 1
        BY <3>1 DEF Space
      <3> QED
        BY <3>1, <3>2 DEF Decodes
    <2> QED
      BY <2>1, <2>2
  <1> QED
    BY <1>2, <1>4, <1>5, <1>6 DEF Whole

(* What is left begins after entry m + 1, or with its line end.            *)
LEMMA RestFollows ==
    ASSUME NEW s \in Seq(Char), NEW b \in Nat, NEW m \in Nat, b \in {3 * m - 1, 3 * m}, Follows(s, b),
           Whole(s)
    PROVE  /\ Rest(s) \in Seq(Char) /\ Rest(s) # <<Space>>
           /\ \E c \in Nat : /\ c \in {3 * (m + 1) - 1, 3 * (m + 1)} /\ c + Len(Rest(s)) = b + Len(s)
                             /\ Follows(Rest(s), c)
  <1>1. PICK d \in Nat :
              /\ d \in {3 * m - 1, 3 * m} /\ Strip(s) \in Seq(Char) /\ d + Len(Strip(s)) = b + Len(s)
              /\ Follows(Strip(s), d) /\ (Strip(s) # <<>> => d = 3 * m)
    BY Stripped
  <1>2. PICK t, n, z : t = Strip(s) /\ n = Len(t) /\ z = b + Len(s)
    OBVIOUS
  <1>3. n >= 2 /\ n \in Nat /\ t \in Seq(Char) /\ d = 3 * m /\ d + n = z /\ Follows(t, 3 * m)
    <2>1. n >= 2
      BY <1>2 DEF Whole, Decodes
    <2>2. t # <<>>
      BY <1>2, <2>1
    <2> QED
      BY <1>1, <1>2, <2>1, <2>2
  <1>4. PICK u, k : u = Drop(t, 2) /\ k = m + 1
    OBVIOUS
  <1>5. /\ u \in Seq(Char) /\ Len(u) = n - 2 /\ Follows(u, 3 * m + 2)
        /\ 3 * m + 2 \in {3 * k - 1, 3 * k} /\ 3 * m + 2 \in Nat /\ k \in Nat
    <2>1. 2 \in 0..Len(t)
      BY <1>2, <1>3
    <2>2. Follows(u, 3 * m + 2)
      BY <1>3, <1>4, <2>1, FollowsCut
    <2>3. u \in Seq(Char) /\ Len(u) = n - 2
      BY <1>2, <1>3, <1>4, <2>1, TakeDrop
    <2> QED
      BY <1>4, <2>2, <2>3
  <1>6. PICK c \in Nat :
              /\ c \in {3 * k - 1, 3 * k} /\ Strip(u) \in Seq(Char) /\ c + Len(Strip(u)) = (3 * m + 2) + Len(u)
              /\ Follows(Strip(u), c) /\ (Strip(u) # <<>> => c = 3 * k)
    BY <1>5, Stripped
  <1>7. Rest(s) = Strip(u)
    BY <1>2, <1>4 DEF Rest
  <1>8. Strip(u) # <<Space>>
    <2> SUFFICES ASSUME Strip(u) = <<Space>> PROVE FALSE
      OBVIOUS
    <2>1. Len(Strip(u)) = 1 /\ Strip(u)[1] = Space /\ Strip(u) # <<>>
      OBVIOUS
    <2>2. c = 3 * k /\ 1 \in 1..Len(Strip(u))
      BY <1>6, <2>1
    <2>3. Strip(u)[1] = <<k + 1, 1>>
      BY <1>5, <1>6, <2>2 DEF Follows, IsChar
    <2> QED
      BY <1>5, <2>1, <2>3 DEF Space
  <1>9. c + Len(Strip(u)) = z
    <2>1. PICK x, y : x = Len(Strip(u)) /\ y = Len(u)
      OBVIOUS
    <2>2. c + x = (3 * m + 2) + y /\ y = n - 2 /\ z = 3 * m + n
      BY <1>3, <1>5, <1>6, <2>1
    <2>3. c + x = z
      BY <1>3, <2>2
    <2> QED
      BY <2>1, <2>3
  <1> QED
    BY <1>2, <1>4, <1>6, <1>7, <1>8, <1>9

-----------------------------------------------------------------------------
(* Reading, splitting and writing                                          *)

Unread == <<sent, wire, line, buffer, got>>

(* Text is made of characters.                                             *)
LEMMA Texts ==
    ASSUME TypeOK
    PROVE  /\ wire \in Seq(Char) /\ buffer \in Seq(Char) /\ sent \in Seq(Entry) /\ got \in Seq(Entry)
           /\ Len(wire) \in Nat /\ Len(buffer) \in Nat /\ Len(sent) \in Nat /\ Len(got) \in Nat
  BY LenProperties DEF TypeOK, Char

(* Nothing else moves text.                                                *)
LEMMA FramingSame ==
    ASSUME Framing, Beginning, UNCHANGED Unread
    PROVE  Framing' /\ Beginning'
  BY DEF Framing, Framed, Follows, Beginning, Unread

(* A chunk goes from the connection to the end of the buffer.              *)
LEMMA ReadChunkText ==
    ASSUME TypeOK, Framing, Beginning, ReadChunk
    PROVE  /\ Framing' /\ Beginning'
           /\ wire' \in Seq(Char) /\ buffer' \in Seq(Char) /\ (buffer' = <<Space>> => bare')
  <1>1. PICK b \in Nat : Framed(b)
    BY DEF Framing
  <1>2. PICK k \in 1..Len(wire) :
              /\ buffer' = buffer \o Take(wire, k) /\ wire' = Drop(wire, k)
              /\ bare' = (Take(wire, k) = <<Space>>)
    BY DEF ReadChunk
  <1>3. PICK n, w, t, d : n = Len(buffer) /\ w = Len(wire) /\ t = Take(wire, k) /\ d = Drop(wire, k)
    OBVIOUS
  <1>4. n \in Nat /\ w \in Nat /\ k \in 1..w /\ k \in 0..Len(wire)
    BY <1>3, Texts
  <1>5. Follows(buffer, b) /\ Follows(wire, b + n) /\ b + n \in Nat
    BY <1>1, <1>3, <1>4 DEF Framed
  <1>6. /\ t \in Seq(Char) /\ Len(t) = k /\ d \in Seq(Char) /\ Len(d) = w - k
        /\ \A i \in 1..k : t[i] = wire[i]
    BY <1>3, <1>4, TakeDrop, Texts
  <1>7. Follows(t, b + n) /\ Follows(d, b + n + k)
    BY <1>3, <1>4, <1>5, FollowsCut, Texts
  <1>8. buffer' \in Seq(Char) /\ Len(buffer') = n + k /\ Follows(buffer', b)
    <2>1. Follows(t, b + Len(buffer)) /\ t \in Seq(Char) /\ buffer \in Seq(Char)
      BY <1>3, <1>6, <1>7, Texts
    <2>2. /\ buffer \o t \in Seq(Char) /\ Len(buffer \o t) = Len(buffer) + Len(t)
          /\ Follows(buffer \o t, b)
      BY <1>5, <2>1, FollowsJoined
    <2> QED
      BY <1>2, <1>3, <1>6, <2>2
  <1>9. UNCHANGED <<sent, line, got>>
    BY DEF ReadChunk
  <1>10. Framed(b)'
    <2>1. Follows(wire', b + Len(buffer'))
      <3>1. b + Len(buffer') = b + n + k
        BY <1>4, <1>8
      <3> QED
        BY <1>2, <1>3, <1>7, <3>1
    <2>2. b + Len(buffer') + Len(wire') = b + Len(buffer) + Len(wire)
      <3>1. Len(buffer') = n + k /\ Len(wire') = w - k
        BY <1>2, <1>3, <1>6, <1>8
      <3>2. b + (n + k) + (w - k) = b + n + w
        BY <1>4
      <3> QED
        BY <1>3, <3>1, <3>2
    <2> QED
      BY <1>1, <1>8, <1>9, <2>1, <2>2 DEF Framed
  <1>11. ASSUME buffer' = <<Space>>
         PROVE  bare'
    <2>1. n + k = 1 /\ k = 1 /\ n = 0
      BY <1>4, <1>8, <1>11
    <2>2. buffer = <<>>
      <3>1. buffer \in Seq(Char) /\ Len(buffer) = 0
        BY <1>3, <2>1, Texts
      <3> QED
        BY <3>1, EmptySeq
    <2>3. buffer' = t
      BY <1>2, <1>3, <1>6, <2>2
    <2> QED
      BY <1>2, <1>3, <1>11, <2>3
  <1> QED
    BY <1>2, <1>3, <1>6, <1>8, <1>9, <1>10, <1>11 DEF Framing, Beginning

(* An object at the front of the buffer is the next entry.                 *)
LEMMA SplitText ==
    ASSUME TypeOK, Framing, Beginning, Split, Whole(buffer)
    PROVE  /\ Framing' /\ Beginning' /\ buffer' \in Seq(Char) /\ buffer' # <<Space>>
           /\ item' = Len(got) + 1 /\ item' \in 1..Len(sent) /\ Len(got') = Len(got) + 1
           /\ got' = Append(got, sent[item']) /\ got' \in Seq(Entry)
  <1>1. PICK b \in Nat : Framed(b)
    BY DEF Framing
  <1>2. /\ item' = Strip(buffer)[1][1] /\ got' = Append(got, sent[item']) /\ buffer' = Rest(buffer)
        /\ UNCHANGED <<sent, line, wire>>
    BY DEF Split, daemon
  <1>3. PICK m, n, w, z : m = Len(got) /\ n = Len(buffer) /\ w = Len(wire) /\ z = Len(sent)
    OBVIOUS
  <1>4. m \in Nat /\ n \in Nat /\ w \in Nat /\ z \in Nat
    BY <1>3, Texts
  <1>5. /\ b \in {3 * m - 1, 3 * m} /\ Follows(buffer, b) /\ b + n + w <= 3 * z
        /\ line # "cut" => b + n + w = 3 * z
        /\ Follows(wire, b + n)
    BY <1>1, <1>3 DEF Framed
  <1>6. b + n >= 3 * m + 2 /\ Strip(buffer)[1] = <<m + 1, 1>>
    BY <1>3, <1>4, <1>5, Texts, WholeWhen
  <1>7. item' = m + 1 /\ m + 1 \in 1..z
    BY <1>2, <1>4, <1>5, <1>6
  <1>8. PICK c \in Nat : /\ buffer' \in Seq(Char) /\ buffer' # <<Space>>
                         /\ c \in {3 * (m + 1) - 1, 3 * (m + 1)} /\ c + Len(buffer') = b + n
                         /\ Follows(buffer', c)
    BY <1>2, <1>3, <1>4, <1>5, Texts, RestFollows
  <1>9. sent[m + 1] \in Entry
    BY <1>3, <1>7, Texts, ElementOfSeq
  <1>10. /\ got' \in Seq(Entry) /\ Len(got') = m + 1 /\ got'[m + 1] = sent[m + 1]
         /\ \A i \in 1..m : got'[i] = got[i]
    <2>1. PICK e \in Entry : e = sent[m + 1]
      BY <1>9
    <2> QED
      BY <1>2, <1>3, <1>7, <2>1, Texts, AppendProperties
  <1>11. Framed(c)'
    <2>1. c + Len(buffer') + w = b + n + w
      <3>1. PICK x : x = Len(buffer')
        OBVIOUS
      <3>2. c + x = b + n
        BY <1>8, <3>1
      <3> QED
        BY <3>1, <3>2
    <2>2. Follows(wire', c + Len(buffer'))
      BY <1>2, <1>5, <1>8
    <2> QED
      BY <1>2, <1>3, <1>5, <1>8, <1>10, <2>1, <2>2 DEF Framed
  <1>12. Beginning'
    <2>1. \A i \in 1..(m + 1) : i \in 1..m \/ i = m + 1
      BY <1>4
    <2>2. \A i \in 1..m : got[i] = sent[i]
      BY <1>3 DEF Beginning
    <2>3. m + 1 <= z
      BY <1>4, <1>7
    <2> QED
      BY <1>2, <1>3, <1>10, <2>1, <2>2, <2>3 DEF Beginning
  <1> QED
    BY <1>2, <1>3, <1>7, <1>8, <1>10, <1>11, <1>12 DEF Framing

(* An entry is written after everything that has been.                     *)
LEMMA WriteText ==
    ASSUME TypeOK, Framing, Beginning, Write
    PROVE  /\ Framing' /\ Beginning' /\ wire' \in Seq(Char)
           /\ sent' \in Seq(Entry) /\ Len(sent') = Len(sent) + 1
           /\ \A i \in 1..Len(sent) : sent'[i] = sent[i]
  <1>1. PICK b \in Nat : Framed(b)
    BY DEF Framing
  <1>2. PICK e \in Entry : sent' = Append(sent, e)
    BY DEF Write
  <1>3. PICK z, n, w : z = Len(sent) /\ n = Len(buffer) /\ w = Len(wire)
    OBVIOUS
  <1>4. z \in Nat /\ n \in Nat /\ w \in Nat
    BY <1>3, Texts
  <1>5. /\ sent' \in Seq(Entry) /\ Len(sent') = z + 1 /\ \A i \in 1..z : sent'[i] = sent[i]
    BY <1>2, <1>3, AppendProperties, Texts
  <1>6. wire' = wire \o Text(z + 1) /\ line = "open" /\ UNCHANGED <<line, got, buffer>> /\ z < MaxSent
    BY <1>3, <1>5 DEF Write, program
  <1>7. b + n + w = 3 * z /\ Follows(wire, b + n)
    BY <1>1, <1>3, <1>6 DEF Framed
  <1>8. Text(z + 1) \in Seq(Char) /\ Len(Text(z + 1)) = 3 /\ Follows(Text(z + 1), 3 * z)
    <2>1. <<z + 1, 1>> \in Char /\ <<z + 1, 2>> \in Char /\ Space \in Char
      BY <1>4, <1>6, ProgressConstants DEF Char
    <2>2. PICK x \in Char, y \in Char, s \in Char : x = <<z + 1, 1>> /\ y = <<z + 1, 2>> /\ s = Space
      BY <2>1
    <2>3. Text(z + 1) = <<x, y, s>>
      BY <2>2 DEF Text
    <2>4. IsChar(x, 3 * z + 1) /\ IsChar(y, 3 * z + 2) /\ IsChar(s, 3 * z + 3)
      <3>1. IsChar(x, 3 * z + 1)
        BY <1>4, <2>2 DEF IsChar
      <3>2. IsChar(y, 3 * z + 2)
        BY <1>4, <2>2 DEF IsChar
      <3>3. IsChar(s, 3 * z + 3)
        BY <1>4, <2>2 DEF IsChar
      <3> QED
        BY <3>1, <3>2, <3>3
    <2>5. PICK t : t = Text(z + 1)
      OBVIOUS
    <2>6. t \in Seq(Char) /\ Len(t) = 3 /\ t[1] = x /\ t[2] = y /\ t[3] = s
      <3>1. Len(t) = 3 /\ t[1] = x /\ t[2] = y /\ t[3] = s
        BY <2>3, <2>5
      <3>2. <<x, y, s>> \in Seq(Char)
        BY <2>2
      <3> QED
        BY <2>3, <2>5, <3>1, <3>2
    <2>7. Follows(t, 3 * z)
      BY <2>4, <2>6 DEF Follows
    <2> QED
      BY <2>5, <2>6, <2>7
  <1>9. wire' \in Seq(Char) /\ Len(wire') = w + 3 /\ Follows(wire', b + n)
    <2>1. PICK t : t = Text(z + 1)
      OBVIOUS
    <2>2. t \in Seq(Char) /\ Len(t) = 3 /\ Follows(t, b + n + Len(wire)) /\ b + n \in Nat
      BY <1>3, <1>4, <1>7, <1>8, <2>1
    <2>3. Follows(wire, b + n)
      BY <1>7
    <2>4. wire \o t \in Seq(Char) /\ Len(wire \o t) = Len(wire) + Len(t) /\ Follows(wire \o t, b + n)
      BY <2>2, <2>3, FollowsJoined, Texts
    <2> QED
      BY <1>3, <1>6, <2>1, <2>2, <2>4
  <1>10. Framed(b)'
    <2>1. b + n + (w + 3) = 3 * (z + 1)
      BY <1>4, <1>7
    <2>2. b + Len(buffer') + Len(wire') = 3 * Len(sent')
      BY <1>3, <1>5, <1>6, <1>9, <2>1
    <2> QED
      BY <1>1, <1>3, <1>4, <1>5, <1>6, <1>9, <2>2 DEF Framed
  <1>11. Beginning'
    <2>1. Len(got) <= z + 1 /\ \A i \in 1..Len(got) : i \in 1..z
      BY <1>3, <1>4, Texts DEF Beginning
    <2> QED
      BY <1>3, <1>5, <1>6, <2>1 DEF Beginning
  <1> QED
    BY <1>3, <1>5, <1>9, <1>10, <1>11 DEF Framing

(* A connection that breaks loses the end of what it carries.              *)
LEMMA CutText ==
    ASSUME TypeOK, Framing, Beginning, UNCHANGED <<sent, got, buffer>>, line' = "cut",
           NEW k \in 0..Len(wire), wire' = Take(wire, k)
    PROVE  Framing' /\ Beginning' /\ wire' \in Seq(Char)
  <1>1. PICK b \in Nat : Framed(b)
    BY DEF Framing
  <1>2. PICK w, n, z : w = Len(wire) /\ n = Len(buffer) /\ z = Len(sent)
    OBVIOUS
  <1>3. w \in Nat /\ n \in Nat /\ z \in Nat /\ b + n \in Nat
    BY <1>2, Texts
  <1>4. wire' \in Seq(Char) /\ Len(wire') = k
    BY TakeDrop, Texts
  <1>5. Follows(wire', b + n)
    <2>1. Follows(wire, b + n)
      BY <1>1, <1>2 DEF Framed
    <2> QED
      BY <1>3, <2>1, FollowsCut, Texts
  <1>6. b + n + k <= 3 * z
    BY <1>1, <1>2, <1>3 DEF Framed
  <1>7. Framed(b)'
    BY <1>1, <1>2, <1>4, <1>5, <1>6 DEF Framed
  <1> QED
    BY <1>4, <1>7 DEF Framing, Beginning

(* At the end of the stream everything has been yielded, or a line end was *)
(* left alone in the buffer.                                               *)
LEMMA EndText ==
    ASSUME TypeOK, Framing, Beginning, ~Whole(buffer), wire = <<>>, line = "ended"
    PROVE  /\ buffer = <<>> => Len(got) = Len(sent)
           /\ buffer # <<>> => buffer = <<Space>>
  <1>1. PICK b \in Nat : Framed(b)
    BY DEF Framing
  <1>2. PICK m, n, z : m = Len(got) /\ n = Len(buffer) /\ z = Len(sent)
    OBVIOUS
  <1>3. m \in Nat /\ n \in Nat /\ z \in Nat /\ m <= z /\ Len(wire) = 0
    BY <1>2, Texts DEF Beginning
  <1>4. b \in {3 * m - 1, 3 * m} /\ b + n = 3 * z /\ Follows(buffer, b)
    <2>1. b + n + 0 = 3 * z
      BY <1>1, <1>2, <1>3 DEF Framed
    <2> QED
      BY <1>1, <1>2, <1>3, <2>1 DEF Framed
  <1>5. ~(b + n >= 3 * m + 2)
    BY <1>2, <1>3, <1>4, Texts, WholeWhen
  <1>6. m = z /\ (n = 0 \/ (n = 1 /\ b = 3 * m - 1 /\ m > 0))
    BY <1>3, <1>4, <1>5
  <1>7. ASSUME buffer # <<>>
        PROVE  buffer = <<Space>>
    <2>1. n = 1 /\ b = 3 * m - 1 /\ m > 0
      BY <1>2, <1>6, <1>7, Texts
    <2>2. m - 1 \in Nat /\ b + 1 = 3 * (m - 1) + 3 /\ 1 \in 1..Len(buffer)
      BY <1>2, <1>3, <2>1
    <2>3. buffer[1] = Space
      BY <1>4, <2>2 DEF Follows, IsChar
    <2>4. PICK s : s = <<Space>>
      OBVIOUS
    <2>5. s \in Seq(Char) /\ Len(s) = 1 /\ s[1] = Space
      BY <2>4 DEF Char
    <2>6. buffer \in Seq(Char) /\ Len(buffer) = 1 /\ \A i \in 1..1 : buffer[i] = s[i]
      BY <1>2, <2>1, <2>3, <2>5, Texts
    <2>7. buffer = s
      BY <2>5, <2>6, SeqEqual
    <2> QED
      BY <2>4, <2>7
  <1> QED
    BY <1>2, <1>6, <1>7

-----------------------------------------------------------------------------
(* The steps                                                               *)

Environment == Write \/ Done \/ Cut \/ Close \/ Others

(* A step is one of these.                                                 *)
LEMMA Steps ==
    ASSUME [Next]_vars
    PROVE  \/ UNCHANGED vars \/ \E looks \in BOOLEAN : Ask(looks) /\ UNCHANGED <<daemon, given>>
           \/ ReadError \/ ReadChunk \/ Split \/ EndOfStream \/ CutRead \/ Handed \/ BuildReads
           \/ LoadReads \/ Finish \/ Get \/ GetLost \/ Environment
  BY DEF Next, Request, Read, Events, Build, Load, Pull, Push, Ask, Environment, given

(* The daemon and others leave the program alone.                          *)
LEMMA EnvironmentLeaves ==
    ASSUME Environment
    PROVE  UNCHANGED <<program, use, ssh, answer>>
  BY DEF Environment, Write, Done, Cut, Close, Others, given

(* ... and write only to a connection that is open, after what there is.   *)
LEMMA EnvironmentAdds ==
    ASSUME TypeOK, Framing, Beginning, Environment
    PROVE  /\ Framing' /\ Beginning'
           /\ line # "open" => UNCHANGED <<line, sent, wire>>
           /\ sent' \in Seq(Entry) /\ Len(sent) <= Len(sent') /\ Len(sent') \in Nat
           /\ \A i \in 1..Len(sent) : sent'[i] = sent[i]
           /\ wire' \in Seq(Char) /\ line' \in {"open", "ended", "cut"}
           /\ ~Streamed => UNCHANGED <<line, sent, wire>>
  <1>0. line \in {"open", "ended", "cut"} /\ sent \in Seq(Entry) /\ wire \in Seq(Char) /\ Len(sent) \in Nat
    BY Texts DEF TypeOK
  <1>1. CASE Write
    <2>1. /\ Framing' /\ Beginning' /\ wire' \in Seq(Char)
          /\ sent' \in Seq(Entry) /\ Len(sent') = Len(sent) + 1
          /\ \A i \in 1..Len(sent) : sent'[i] = sent[i]
      BY <1>1, WriteText
    <2>2. line = "open" /\ Streamed /\ line' = line
      BY <1>1 DEF Write
    <2> QED
      BY <1>0, <2>1, <2>2
  <1>2. CASE Done
    <2>1. line = "open" /\ line' = "ended" /\ Streamed /\ UNCHANGED <<sent, wire, buffer, got>>
      BY <1>2 DEF Done, program
    <2>2. Framing' /\ Beginning'
      BY <2>1 DEF Framing, Framed, Follows, Beginning
    <2> QED
      BY <1>0, <2>1, <2>2
  <1>3. CASE Cut
    <2>1. line = "open" /\ line' = "cut" /\ Streamed /\ UNCHANGED <<sent, buffer, got>>
      BY <1>3 DEF Cut, program
    <2>2. Framing' /\ Beginning' /\ wire' \in Seq(Char)
      BY <1>3, <2>1, CutText DEF Cut
    <2> QED
      BY <1>0, <2>1, <2>2
  <1>4. CASE Close
    <2>1. UNCHANGED <<sent, buffer, got, answer>>
      BY <1>4 DEF Close, program
    <2>2. CASE line = "open" /\ Streamed /\ ~(ssh /\ ~Exhausted)
      <3>1. line' = "cut" /\ \E k \in 0..Len(wire) : wire' = Take(wire, k)
        BY <1>4, <2>2 DEF Close
      <3>2. Framing' /\ Beginning' /\ wire' \in Seq(Char)
        BY <2>1, <3>1, CutText
      <3> QED
        BY <1>0, <2>1, <2>2, <3>1, <3>2
    <2>3. CASE ~(line = "open" /\ Streamed /\ ~(ssh /\ ~Exhausted))
      <3>1. UNCHANGED <<line, wire>>
        BY <1>4, <2>3 DEF Close
      <3>2. Framing' /\ Beginning'
        BY <2>1, <3>1, FramingSame DEF Unread
      <3> QED
        BY <1>0, <2>1, <2>3, <3>1, <3>2
    <2> QED
      BY <2>2, <2>3
  <1>5. CASE Others
    <2>1. UNCHANGED Unread
      BY <1>5 DEF Others, program, Unread
    <2>2. Framing' /\ Beginning'
      BY <2>1, FramingSame
    <2> QED
      BY <1>0, <2>1, <2>2 DEF Unread
  <1> QED
    BY <1>1, <1>2, <1>3, <1>4, <1>5 DEF Environment

(* Steps that only move on, and read no text.                              *)
Onward == \/ \E looks \in BOOLEAN : Ask(looks) /\ UNCHANGED <<daemon, given>>
          \/ ReadError \/ EndOfStream \/ CutRead \/ Handed \/ BuildReads \/ LoadReads
          \/ Finish \/ Get \/ GetLost

(* ... leave the text as it is.                                            *)
LEMMA OnwardLeaves ==
    ASSUME Onward
    PROVE  UNCHANGED <<Unread, daemon, item, use, ssh, bare, closed>>
  BY DEF Onward, Ask, ReadError, EndOfStream, CutRead, Handed, BuildReads, LoadReads, Finish, Get,
         GetLost, Unread, daemon, given

Results == {"none", "ended", "ok", "old", "new", "lost", "APIError", "ProtocolError",
            "StreamParseError", "BuildError", "ImageLoadError", "ImageNotFound"}
Places == {"request", "read", "split", "consume", "finish", "get", "idle"}

(* Variables keep their types.                                             *)
LEMMA TypedOnward ==
    ASSUME TypeOK, Placed, LookedUp, Onward
    PROVE  /\ pc' \in Places /\ result' \in Results /\ answer' \in {"none", "chunked", "error", "message"}
           /\ found' \in Seq(Id) /\ held' \in Seq(Id)
  <1>0. /\ pc \in Places /\ result \in Results /\ answer \in {"none", "chunked", "error", "message"}
        /\ found \in Seq(Id) /\ held \in Seq(Id) /\ images \subseteq Id
        /\ tag \in {None, "old", "new"}
    BY DEF TypeOK, Places, Results
  <1>1. pc' \in Places /\ result' \in Results
    <2>1. CASE \E looks \in BOOLEAN : Ask(looks)
      BY <1>0, <2>1 DEF Ask, Goto, Return, Places, Results
    <2>2. CASE ReadError \/ CutRead \/ EndOfStream
      BY <1>0, <2>2 DEF ReadError, CutRead, EndOfStream, Raise, Goto, Return, Places, Results
    <2>3. CASE Handed \/ BuildReads \/ LoadReads
      BY <1>0, <2>3 DEF Handed, BuildReads, LoadReads, Goto, Return, Places, Results
    <2>4. CASE Finish
      BY <1>0, <2>4 DEF Finish, Goto, Return, Places, Results
    <2>5. CASE Get \/ GetLost
      BY <1>0, <2>5 DEF Get, GetLost, Goto, Return, Places, Results
    <2> QED
      BY <2>1, <2>2, <2>3, <2>4, <2>5 DEF Onward
  <1>2. answer' \in {"none", "chunked", "error", "message"}
    BY <1>0 DEF Onward, Ask, ReadError, EndOfStream, CutRead, Handed, BuildReads, LoadReads, Finish, Get,
                GetLost
  <1>3. found' \in Seq(Id)
    <2>0. pc = "consume" => sent[item] \in Entry
      <3>1. pc = "consume" => item \in 1..Len(sent)
        BY Texts DEF Placed, TypeOK
      <3> QED
        BY <3>1, Texts, ElementOfSeq
    <2>1. CASE BuildReads
      <3>1. sent[item].id = None \/ sent[item].id \in Id
        BY <2>0, <2>1 DEF BuildReads, Entry
      <3>2. PICK i : i = sent[item].id
        OBVIOUS
      <3>3. found' = found \/ (i # None /\ found' = <<i>>)
        BY <2>1, <3>2 DEF BuildReads
      <3>4. i \in Id => <<i>> \in Seq(Id)
        OBVIOUS
      <3> QED
        BY <1>0, <3>1, <3>2, <3>3, <3>4
    <2>2. CASE LoadReads
      <3>1. sent[item].kind = "made" => sent[item].id \in Id
        BY <2>0, <2>2 DEF LoadReads, Entry
      <3>2. PICK i : i = sent[item].id
        OBVIOUS
      <3> QED
        BY <1>0, <2>2, <3>1, <3>2, AppendProperties DEF LoadReads
    <2>3. CASE ~BuildReads /\ ~LoadReads
      <3>1. found' = found
        BY <2>3 DEF Onward, Ask, ReadError, EndOfStream, CutRead, Handed, Finish, Get, GetLost
      <3> QED
        BY <1>0, <3>1
    <2> QED
      BY <2>1, <2>2, <2>3
  <1>4. held' \in Seq(Id)
    <2>1. CASE Get
      <3>1. held' = held \/ \E i \in images : held' = Append(held, i)
        BY <2>1 DEF Get
      <3> QED
        BY <1>0, <3>1, AppendProperties
    <2>2. CASE ~Get
      <3>1. held' = held
        BY <2>2 DEF Onward, Ask, ReadError, EndOfStream, CutRead, Handed, BuildReads, LoadReads, Finish,
                    GetLost
      <3> QED
        BY <1>0, <3>1
    <2> QED
      BY <2>1, <2>2
  <1> QED
    BY <1>1, <1>2, <1>3, <1>4

(* ... whatever the step.                                                  *)
LEMMA Typed ==
    ASSUME TypeOK, Framing, Beginning, Placed, LookedUp, [Next]_vars
    PROVE  TypeOK' /\ Framing' /\ Beginning'
  <1>0. /\ use \in Use /\ ssh \in BOOLEAN /\ answer \in {"none", "chunked", "error", "message"}
        /\ sent \in Seq(Entry) /\ got \in Seq(Entry) /\ item \in 0..Len(sent)
        /\ wire \in Seq(Char) /\ buffer \in Seq(Char)
        /\ line \in {"open", "ended", "cut"}
        /\ images \subseteq Id /\ tag \in {None, "old", "new"} /\ pc \in Places
        /\ found \in Seq(Id) /\ held \in Seq(Id) /\ result \in Results
        /\ closed \in {"no", "returned", "raised"} /\ bare \in BOOLEAN /\ others \in 0..MaxOthers
        /\ Len(sent) \in Nat
    BY Texts DEF TypeOK, Places, Results
  <1>1. CASE Onward
    <2>1. UNCHANGED <<sent, got, item, wire, buffer, line, images, tag, use, ssh, bare, closed, others>>
      BY <1>1, OnwardLeaves DEF Unread, daemon
    <2>2. /\ pc' \in Places /\ result' \in Results /\ answer' \in {"none", "chunked", "error", "message"}
          /\ found' \in Seq(Id) /\ held' \in Seq(Id)
      BY <1>1, TypedOnward
    <2>3. TypeOK'
      BY <1>0, <2>1, <2>2 DEF TypeOK, Char, Places, Results
    <2> QED
      BY <2>1, <2>3, FramingSame DEF Unread
  <1>2. CASE ReadChunk
    <2>1. Framing' /\ Beginning' /\ wire' \in Seq(Char) /\ buffer' \in Seq(Char)
      BY <1>2, ReadChunkText
    <2>2. /\ UNCHANGED <<use, ssh, answer, sent, line, images, tag, others, item, got, found, held, closed,
                        result>>
          /\ pc' \in Places /\ bare' \in BOOLEAN
      BY <1>2 DEF ReadChunk, Goto, Places, given
    <2> QED
      BY <1>0, <2>1, <2>2 DEF TypeOK, Char, Places, Results
  <1>3. CASE Split /\ Whole(buffer)
    <2>1. /\ Framing' /\ Beginning' /\ buffer' \in Seq(Char) /\ item' \in 1..Len(sent) /\ got' \in Seq(Entry)
      BY <1>3, SplitText
    <2>2. /\ UNCHANGED <<use, ssh, answer, sent, wire, line, images, tag, others, found, held, bare, closed,
                        result>>
          /\ pc' \in Places
      BY <1>3 DEF Split, Goto, Places, daemon, given
    <2> QED
      BY <1>0, <2>1, <2>2 DEF TypeOK, Char, Places, Results
  <1>4. CASE Split /\ ~Whole(buffer)
    <2>1. /\ UNCHANGED <<use, ssh, answer, sent, wire, line, images, tag, others, found, held, bare, closed,
                        result, item, got, buffer>>
          /\ pc' \in Places
      BY <1>4 DEF Split, Goto, Places, daemon, given
    <2>2. TypeOK'
      BY <1>0, <2>1 DEF TypeOK, Char, Places, Results
    <2> QED
      BY <2>1, <2>2, FramingSame DEF Unread
  <1>5. CASE Environment
    <2>1. /\ Framing' /\ Beginning' /\ sent' \in Seq(Entry) /\ Len(sent) <= Len(sent') /\ Len(sent') \in Nat
          /\ wire' \in Seq(Char) /\ line' \in {"open", "ended", "cut"}
      BY <1>5, EnvironmentAdds
    <2>2. UNCHANGED <<pc, buffer, item, got, found, held, result, bare, use, ssh, answer>>
      BY <1>5, EnvironmentLeaves DEF program
    <2>3. closed' \in {"no", "returned", "raised"} /\ others' \in 0..MaxOthers
      <3>1. others' = others \/ (others < MaxOthers /\ others' = others + 1)
        BY <1>5 DEF Environment, Write, Done, Cut, Close, Others
      <3>2. closed' = closed \/ closed' \in {"returned", "raised"}
        BY <1>5 DEF Environment, Write, Done, Cut, Close, Others
      <3>3. others' \in 0..MaxOthers
        BY <1>0, <3>1, ProgressConstants
      <3>4. closed' \in {"no", "returned", "raised"}
        BY <1>0, <3>2
      <3> QED
        BY <3>3, <3>4
    <2>4. tag' \in {None, "old", "new"}
      BY <1>0, <1>5 DEF Environment, Write, Done, Cut, Close, Others
    <2>5. images' \subseteq Id
      <3>1. CASE Write
        BY <1>0, <3>1 DEF Write, Entry
      <3>2. CASE ~Write
        BY <1>0, <1>5, <3>2 DEF Environment, Done, Cut, Close, Others
      <3> QED
        BY <3>1, <3>2
    <2>6. item' \in 0..Len(sent')
      BY <1>0, <2>1, <2>2
    <2> QED
      BY <1>0, <2>1, <2>2, <2>3, <2>4, <2>5, <2>6 DEF TypeOK, Char, Places, Results
  <1>6. CASE UNCHANGED vars
    <2>1. UNCHANGED Unread
      BY <1>6 DEF vars, daemon, program, Unread
    <2>2. TypeOK'
      BY <1>6 DEF TypeOK, vars, daemon, program, given
    <2> QED
      BY <2>1, <2>2, FramingSame
  <1> QED
    BY <1>1, <1>2, <1>3, <1>4, <1>5, <1>6, Steps DEF Onward

(* Without a request nothing is buffered, found or said.                   *)
LEMMA InitIInv == ASSUME Init PROVE IInv
  <1>1. Len(sent) = 0 /\ Len(got) = 0 /\ Len(wire) = 0 /\ Len(buffer) = 0 /\ Len(held) = 0 /\ Len(found) = 0
    BY DEF Init
  <1>2. TypeOK
    <2>1. /\ use \in Use /\ ssh \in BOOLEAN /\ answer \in {"none", "chunked", "error", "message"}
          /\ line \in {"open", "ended", "cut"} /\ images \subseteq Id /\ tag \in {None, "old", "new"}
          /\ pc = "request" /\ result = "none"
      BY DEF Init
    <2>2. /\ sent \in Seq(Entry) /\ got \in Seq(Entry) /\ wire \in Seq(Char) /\ buffer \in Seq(Char)
          /\ found \in Seq(Id) /\ held \in Seq(Id)
      BY DEF Init
    <2>3. item \in 0..Len(sent) /\ others \in 0..MaxOthers
      BY <1>1, ProgressConstants DEF Init
    <2>4. closed \in {"no", "returned", "raised"} /\ bare \in BOOLEAN
      BY DEF Init
    <2> QED
      BY <2>1, <2>2, <2>3, <2>4 DEF TypeOK, Char
  <1>3. Framing /\ Beginning
    <2>1. Framed(0)
      BY <1>1 DEF Framed, Follows
    <2> QED
      BY <1>1, <2>1 DEF Framing, Beginning
  <1>4. ~Whole(buffer) /\ buffer # <<Space>>
    BY DEF Init, Whole, Decodes, Strip
  <1>5. Tells("made") = {}
    BY DEF Init, Tells
  <1>6. Placed /\ Built /\ Worded /\ LookedUp /\ Reasons /\ SuccessIsWhole /\ ReturnsWhatWasMade
    BY <1>1, <1>4, <1>5 DEF Init, Placed, Built, Worded, LookedUp, Reasons, SuccessIsWhole,
                            ReturnsWhatWasMade, Idle, Streamed
  <1>7. Consumed
    <2>1. Listed(0)
      <3>1. PICK f : f = [j \in {} |-> 1]
        OBVIOUS
      <3>2. DOMAIN found = {} /\ DOMAIN f = {} /\ f \in [{} -> {}]
        BY <1>1, <3>1 DEF Init
      <3> QED
        BY <1>5, <3>2 DEF Listed, Increasing
    <2>2. Found(0)
      BY <2>1 DEF Found, Clean
    <2> QED
      BY <1>1, <2>2 DEF Consumed, Init
  <1> QED
    BY <1>2, <1>3, <1>6, <1>7 DEF IInv

(* The reader waits for a chunk only when nothing in the buffer is whole.  *)
LEMMA PlacedNext ==
    ASSUME TypeOK, Framing, Beginning, Placed, Reasons, [Next]_vars
    PROVE  Placed'
  <1>1. CASE Onward /\ ~EndOfStream
    <2>1. UNCHANGED <<buffer, bare, got, sent, wire, line, item, use>>
      BY <1>1, OnwardLeaves DEF Unread, daemon
    <2>2. CASE \E looks \in BOOLEAN : Ask(looks)
      <3>1. pc = "request" /\ pc' \in {"read", "idle"}
        BY <2>2 DEF Ask, Goto, Return
      <3> QED
        BY <2>1, <3>1 DEF Placed, Streamed
    <2>3. CASE ReadError \/ CutRead
      <3>1. pc' = "idle" /\ answer' = answer
        BY <2>3 DEF ReadError, CutRead, Raise, Return
      <3> QED
        BY <2>1, <3>1 DEF Placed, Streamed
    <2>4. CASE Handed \/ BuildReads \/ LoadReads
      <3>1. pc' \in {"split", "idle"} /\ answer' = answer
        BY <2>4 DEF Handed, BuildReads, LoadReads, Goto, Return
      <3> QED
        BY <2>1, <3>1 DEF Placed, Streamed
    <2>5. CASE Finish \/ Get \/ GetLost
      <3>1. pc \in {"finish", "get"} /\ pc' \in {"get", "idle"} /\ answer' = answer
        BY <2>5 DEF Finish, Get, GetLost, Goto, Return
      <3>2. pc' = "get" => use \in Loader \union {"pull"}
        BY <2>5 DEF Finish, Get, GetLost, Goto, Return, Placed, Loader
      <3> QED
        BY <2>1, <3>1, <3>2 DEF Placed, Streamed
    <2> QED
      BY <1>1, <2>2, <2>3, <2>4, <2>5 DEF Onward
  <1>2. CASE EndOfStream
    <2>1. /\ UNCHANGED <<buffer, bare, got, sent, wire, line, item, answer>>
          /\ pc = "read" /\ wire = <<>> /\ line = "ended" /\ pc' \in {"finish", "idle"}
          /\ pc' = "finish" => buffer = <<>>
      BY <1>2 DEF EndOfStream, Goto, Return, daemon
    <2>2. buffer = <<>> => Len(got) = Len(sent)
      BY <2>1, EndText DEF Placed, Streamed
    <2> QED
      BY <2>1, <2>2 DEF Placed, Streamed
  <1>3. CASE ReadChunk
    <2>1. buffer' = <<Space>> => bare'
      BY <1>3, ReadChunkText
    <2>2. pc' = "split" /\ Streamed /\ answer' = answer
      BY <1>3 DEF ReadChunk, Goto
    <2> QED
      BY <2>1, <2>2 DEF Placed, Streamed
  <1>4. CASE Split /\ Whole(buffer)
    <2>1. buffer' # <<Space>> /\ item' = Len(got) + 1 /\ Len(got') = Len(got) + 1 /\ Len(got) \in Nat
      BY <1>4, SplitText, Texts
    <2>2. pc' = "consume" /\ UNCHANGED <<answer, sent, wire, line>>
      BY <1>4 DEF Split, Goto, daemon
    <2> QED
      BY <2>1, <2>2 DEF Placed, Streamed
  <1>5. CASE Split /\ ~Whole(buffer)
    <2>1. pc' = "read" /\ UNCHANGED <<answer, sent, wire, line, buffer, bare>>
      BY <1>5 DEF Split, Goto, daemon
    <2>2. ~Whole(buffer)'
      BY <1>5, <2>1
    <2> QED
      BY <2>1, <2>2 DEF Placed, Streamed
  <1>6. CASE Environment
    <2>1. UNCHANGED <<pc, buffer, bare, got, item, answer, use>>
      BY <1>6, EnvironmentLeaves DEF program
    <2>2. /\ line # "open" => UNCHANGED <<line, sent, wire>>
          /\ ~Streamed => UNCHANGED <<line, sent, wire>>
      BY <1>6, EnvironmentAdds
    <2> QED
      BY <2>1, <2>2 DEF Placed, Streamed
  <1>7. CASE UNCHANGED vars
    BY <1>7 DEF Placed, Streamed, vars, daemon, program, given
  <1> QED
    BY <1>1, <1>2, <1>3, <1>4, <1>5, <1>6, <1>7, Steps DEF Onward

(* What was told is told again, after more has been written.               *)
LEMMA ToldLonger ==
    ASSUME sent \in Seq(Entry), sent' \in Seq(Entry), Len(sent) <= Len(sent'),
           \A i \in 1..Len(sent) : sent'[i] = sent[i], NEW k
    PROVE  Tells(k) \subseteq Tells(k)' /\ Tells(k) = Tells(k)' \intersect 1..Len(sent)
  <1>1. Len(sent) \in Nat /\ Len(sent') \in Nat /\ DOMAIN sent = 1..Len(sent) /\ DOMAIN sent' = 1..Len(sent')
    BY LenProperties
  <1>2. \A i \in 1..Len(sent) : i \in 1..Len(sent')
    BY <1>1
  <1> QED
    BY <1>1, <1>2 DEF Tells

(* A build is told of one image, last, and ends with it or with an error.  *)
LEMMA BuiltNext ==
    ASSUME TypeOK, Framing, Beginning, Placed, Built, [Next]_vars
    PROVE  Built'
  <1>1. CASE Write
    <2>1. /\ use' = use /\ line' = "open" /\ ~HasError
          /\ use = "build" => Tells("made") = {}
      BY <1>1 DEF Write, given
    <2>2. /\ sent' \in Seq(Entry) /\ Len(sent') = Len(sent) + 1 /\ Len(sent) \in Nat /\ sent \in Seq(Entry)
          /\ \A i \in 1..Len(sent) : sent'[i] = sent[i]
      BY <1>1, WriteText, Texts
    <2>3. ASSUME use = "build", NEW i \in Tells("made")'
          PROVE  i = Len(sent')
      <3>1. Tells("made")' \intersect 1..Len(sent) = {}
        BY <2>1, <2>2, <2>3, ToldLonger
      <3>2. i \in 1..(Len(sent) + 1)
        BY <2>2, <2>3 DEF Tells
      <3> QED
        BY <2>2, <2>3, <3>1, <3>2
    <2> QED
      BY <2>1, <2>3 DEF Built
  <1>2. CASE Done
    BY <1>2 DEF Done, Built, Tells, HasError, given
  <1>3. CASE ~Write /\ ~Done
    <2>1. CASE Environment
      <3>1. UNCHANGED <<use, sent, answer>> /\ (line' = "ended" => line = "ended")
        BY <1>3, <2>1 DEF Environment, Cut, Close, Others, given
      <3> QED
        BY <3>1 DEF Built, Tells, HasError
    <2>2. CASE ~Environment
      <3>1. UNCHANGED <<use, sent, line>> /\ (line = "ended" => answer' = answer)
        <4>1. CASE Onward
          <5>1. UNCHANGED <<use, sent, line>>
            BY <4>1, OnwardLeaves DEF Unread
          <5>2. line = "ended" => answer' = answer
            BY <4>1 DEF Onward, Ask, ReadError, EndOfStream, CutRead, Handed, BuildReads, LoadReads,
                        Finish, Get, GetLost, Placed
          <5> QED
            BY <5>1, <5>2
        <4>2. CASE ReadChunk \/ Split
          BY <4>2 DEF ReadChunk, Split, daemon, given
        <4>3. CASE UNCHANGED vars
          BY <4>3 DEF vars, daemon, given
        <4> QED
          BY <2>2, <4>1, <4>2, <4>3, Steps DEF Onward
      <3> QED
        BY <3>1 DEF Built, Tells, HasError
    <2> QED
      BY <2>1, <2>2
  <1> QED
    BY <1>1, <1>2, <1>3

(* What is known of the first n entries stays so when others follow.       *)
LEMMA FoundLonger ==
    ASSUME sent \in Seq(Entry), sent' \in Seq(Entry), Len(sent) <= Len(sent'),
           \A i \in 1..Len(sent) : sent'[i] = sent[i], UNCHANGED <<use, found>>,
           NEW n \in 0..Len(sent), Found(n)
    PROVE  Found(n)'
  <1>1. Len(sent) \in Nat /\ \A i \in 1..n : i \in 1..Len(sent) /\ sent'[i] = sent[i]
    BY LenProperties
  <1>2. Tells("made")' \intersect 1..n = Tells("made") \intersect 1..n
    <2>1. Tells("made") = Tells("made")' \intersect 1..Len(sent)
      BY ToldLonger
    <2> QED
      BY <1>1, <2>1
  <1>3. Clean(n) => Clean(n)'
    BY <1>1 DEF Clean
  <1>4. Listed(n) => Listed(n)'
    <2> SUFFICES ASSUME Listed(n) PROVE Listed(n)'
      OBVIOUS
    <2>1. PICK f \in [DOMAIN found -> Tells("made") \intersect 1..n] :
              /\ Increasing(f)
              /\ \A i \in Tells("made") \intersect 1..n : \E j \in DOMAIN found : f[j] = i
              /\ \A j \in DOMAIN found : found[j] = sent[f[j]].id
      BY DEF Listed
    <2>2. \A j \in DOMAIN found : found'[j] = sent'[f[j]].id
      <3>1. \A j \in DOMAIN found : f[j] \in 1..n
        BY <2>1
      <3> QED
        BY <1>1, <2>1, <3>1
    <2> QED
      BY <1>2, <2>1, <2>2 DEF Listed, Increasing
  <1>5. n > 0 => n \in 1..n
    OBVIOUS
  <1> QED
    BY <1>1, <1>3, <1>4, <1>5 DEF Found

(* An image that load reads of is listed after the others.                 *)
LEMMA ListedNext ==
    ASSUME TypeOK, NEW n \in 1..Len(sent), UNCHANGED sent, Listed(n - 1),
           found' = IF sent[n].kind = "made" THEN Append(found, sent[n].id) ELSE found,
           found' \in Seq(Id)
    PROVE  Listed(n)'
  <1>0. Len(sent) \in Nat /\ n \in Nat /\ n - 1 \in Nat /\ DOMAIN sent = 1..Len(sent)
    BY Texts
  <1>1. PICK f \in [DOMAIN found -> Tells("made") \intersect 1..(n - 1)] :
              /\ Increasing(f)
              /\ \A i \in Tells("made") \intersect 1..(n - 1) : \E j \in DOMAIN found : f[j] = i
              /\ \A j \in DOMAIN found : found[j] = sent[f[j]].id
    BY DEF Listed
  <1>2. Tells("made")' = Tells("made")
    BY DEF Tells
  <1>3. \A i \in 1..n : i \in 1..(n - 1) \/ i = n
    BY <1>0
  <1>4. \A i \in 1..(n - 1) : i \in 1..n /\ i < n
    BY <1>0
  <1>5. n \in 1..n /\ (n \in Tells("made") <=> sent[n].kind = "made")
    BY <1>0 DEF Tells
  <1>6. CASE sent[n].kind # "made"
    <2>1. Tells("made") \intersect 1..n = Tells("made") \intersect 1..(n - 1) /\ found' = found
      BY <1>3, <1>4, <1>5, <1>6
    <2>2. f \in [DOMAIN found' -> Tells("made")' \intersect 1..n]
      BY <1>1, <1>2, <2>1
    <2>3. /\ \A j, k \in DOMAIN f : j < k => f[j] < f[k]
          /\ \A i \in Tells("made")' \intersect 1..n : \E j \in DOMAIN found' : f[j] = i
          /\ \A j \in DOMAIN found' : found'[j] = sent'[f[j]].id
      BY <1>1, <1>2, <2>1 DEF Increasing
    <2> QED
      BY <2>2, <2>3 DEF Listed, Increasing
  <1>7. CASE sent[n].kind = "made"
    <2>1. PICK l, x : l = Len(found) /\ x = sent[n].id
      OBVIOUS
    <2>2. l \in Nat /\ DOMAIN found = 1..l /\ found \in Seq(Id)
      BY <2>1, LenProperties DEF TypeOK
    <2>3. x \in Id
      <3>1. sent[n] \in Entry
        BY Texts, ElementOfSeq
      <3> QED
        BY <1>7, <2>1, <3>1 DEF Entry
    <2>4. found' = Append(found, x)
      BY <1>7, <2>1
    <2>5. /\ DOMAIN found' = 1..(l + 1) /\ found'[l + 1] = x
          /\ \A j \in 1..l : found'[j] = found[j]
      BY <2>1, <2>2, <2>3, <2>4, AppendProperties
    <2>6. PICK g : g = [j \in 1..(l + 1) |-> IF j = l + 1 THEN n ELSE f[j]]
      OBVIOUS
    <2>7. \A j \in 1..(l + 1) : j = l + 1 \/ (j \in 1..l /\ j # l + 1)
      BY <2>2
    <2>8. \A j \in 1..l : j \in 1..(l + 1) /\ j # l + 1 /\ j < l + 1
      BY <2>2
    <2>9. l + 1 \in 1..(l + 1)
      BY <2>2
    <2>10. /\ DOMAIN g = 1..(l + 1) /\ g[l + 1] = n
           /\ \A j \in 1..l : g[j] = f[j] /\ f[j] \in Tells("made") \intersect 1..(n - 1)
      BY <1>1, <2>2, <2>6, <2>8, <2>9
    <2>11. g \in [DOMAIN found' -> Tells("made") \intersect 1..n]
      <3>1. \A j \in 1..(l + 1) : g[j] \in Tells("made") \intersect 1..n
        BY <1>4, <1>5, <1>7, <2>7, <2>10
      <3> QED
        BY <2>5, <2>6, <3>1
    <2>12. Increasing(g)
      <3> SUFFICES ASSUME NEW j \in 1..(l + 1), NEW k \in 1..(l + 1), j < k PROVE g[j] < g[k]
        BY <2>10 DEF Increasing
      <3>1. j \in 1..l
        BY <2>2
      <3>2. CASE k = l + 1
        BY <1>4, <2>10, <3>1, <3>2
      <3>3. CASE k \in 1..l
        BY <1>1, <2>2, <2>10, <3>1, <3>3 DEF Increasing
      <3> QED
        BY <2>7, <3>2, <3>3
    <2>13. \A i \in Tells("made") \intersect 1..n : \E j \in 1..(l + 1) : g[j] = i
      BY <1>1, <1>3, <2>2, <2>8, <2>9, <2>10
    <2>14. \A j \in 1..(l + 1) : found'[j] = sent[g[j]].id
      BY <1>1, <2>1, <2>2, <2>5, <2>7, <2>10
    <2>15. g \in [DOMAIN found' -> Tells("made")' \intersect 1..n]
      BY <1>2, <2>11
    <2>16. /\ \A j, k \in DOMAIN g : j < k => g[j] < g[k]
           /\ \A i \in Tells("made")' \intersect 1..n : \E j \in DOMAIN found' : g[j] = i
           /\ \A j \in DOMAIN found' : found'[j] = sent'[g[j]].id
      BY <1>2, <2>5, <2>12, <2>13, <2>14 DEF Increasing
    <2> QED
      BY <2>15, <2>16 DEF Listed, Increasing
  <1> QED
    BY <1>6, <1>7

(* The consumer has read every entry it was given.                         *)
LEMMA ConsumedNext ==
    ASSUME TypeOK, TypeOK', Framing, Beginning, Placed, Consumed, [Next]_vars
    PROVE  Consumed'
  <1>0. PICK n, z : n = Len(got) /\ z = Len(sent)
    OBVIOUS
  <1>1. n \in Nat /\ z \in Nat /\ n <= z /\ sent \in Seq(Entry) /\ sent' \in Seq(Entry)
    BY <1>0, Texts DEF Beginning, TypeOK
  <1>2. ASSUME UNCHANGED <<sent, use, found>>, NEW k \in Nat, Found(k)
        PROVE  Found(k)'
    BY <1>2 DEF Found, Clean, Listed, Tells, Increasing
  <1>3. CASE Onward /\ pc # "consume"
    <2>1. UNCHANGED <<sent, use, got>>
      BY <1>3, OnwardLeaves DEF Unread
    <2>2. found' = found /\ pc' # "consume" /\ pc \in {"request", "read", "split", "finish", "get"}
      BY <1>3 DEF Onward, Ask, ReadError, EndOfStream, CutRead, Handed, BuildReads, LoadReads, Finish,
                  Get, GetLost, Goto, Return, Raise
    <2>3. Found(n)'
      BY <1>0, <1>1, <1>2, <2>1, <2>2 DEF Consumed
    <2> QED
      BY <1>0, <2>1, <2>2, <2>3 DEF Consumed
  <1>4. CASE Onward /\ pc = "consume"
    <2>1. UNCHANGED <<sent, use, got, item>> /\ item = n /\ n > 0 /\ n - 1 \in Nat /\ Found(n - 1)
      BY <1>0, <1>1, <1>4, OnwardLeaves DEF Unread, Placed, Consumed
    <2>2. pc' \in {"split", "idle"}
      BY <1>4 DEF Onward, Ask, ReadError, EndOfStream, CutRead, Handed, BuildReads, LoadReads, Finish,
                  Get, GetLost, Goto, Return, Raise
    <2>3. ASSUME pc' = "split"
          PROVE  Found(n)'
      <3>1. CASE Handed
        <4>1. use' \notin Loader
          BY <2>1, <3>1 DEF Handed
        <4> QED
          BY <4>1 DEF Found, Loader
      <3>2. CASE BuildReads \/ LoadReads
        <4>1. use' \in Loader /\ sent[n].kind # "error"
          BY <2>1, <2>3, <3>2 DEF BuildReads, LoadReads, Return, Goto, Loader
        <4>2. Clean(n)'
          <5>1. Clean(n - 1)
            BY <2>1, <4>1 DEF Found
          <5>2. \A i \in 1..n : i = n \/ i \in 1..(n - 1)
            BY <1>1, <2>1
          <5> QED
            BY <2>1, <4>1, <5>1, <5>2 DEF Clean
        <4>3. use = "build" /\ sent[n].id # None => found' = <<sent[n].id>>
          BY <2>1, <2>3, <3>2 DEF BuildReads, LoadReads, Return, Goto
        <4>4. use = "load" => Listed(n)'
          <5> SUFFICES ASSUME use = "load" PROVE Listed(n)'
            OBVIOUS
          <5>1. found' = IF sent[n].kind = "made" THEN Append(found, sent[n].id) ELSE found
            BY <2>1, <2>3, <3>2 DEF BuildReads, LoadReads, Return, Goto
          <5>2. Listed(n - 1) /\ n \in 1..Len(sent) /\ found' \in Seq(Id)
            BY <1>0, <1>1, <2>1 DEF Found, TypeOK
          <5> QED
            BY <2>1, <5>1, <5>2, ListedNext
        <4> QED
          BY <2>1, <4>1, <4>2, <4>3, <4>4 DEF Found
      <3> QED
        BY <1>4, <3>1, <3>2 DEF Onward, Ask, ReadError, EndOfStream, CutRead, Finish, Get, GetLost
    <2> QED
      BY <1>0, <2>1, <2>2, <2>3 DEF Consumed
  <1>5. CASE ReadChunk \/ (Split /\ ~Whole(buffer))
    <2>1. UNCHANGED <<sent, use, got, found>> /\ pc \in {"read", "split"} /\ pc' \in {"read", "split"}
      BY <1>5 DEF ReadChunk, Split, Goto, daemon, given
    <2>2. Found(n)'
      BY <1>0, <1>1, <1>2, <2>1 DEF Consumed
    <2> QED
      BY <1>0, <2>1, <2>2 DEF Consumed
  <1>6. CASE Split /\ Whole(buffer)
    <2>1. UNCHANGED <<sent, use, found>> /\ pc = "split" /\ pc' = "consume"
      BY <1>6 DEF Split, Goto, daemon, given
    <2>2. Len(got') = n + 1 /\ Len(got') - 1 = n
      BY <1>0, <1>1, <1>6, SplitText
    <2>3. Found(n)'
      BY <1>0, <1>1, <1>2, <2>1 DEF Consumed
    <2> QED
      BY <2>1, <2>2, <2>3 DEF Consumed
  <1>7. CASE Environment
    <2>1. UNCHANGED <<pc, got, use, found>>
      BY <1>7, EnvironmentLeaves DEF program
    <2>2. Len(sent) <= Len(sent') /\ \A i \in 1..Len(sent) : sent'[i] = sent[i]
      BY <1>7, EnvironmentAdds
    <2>3. \A k \in 0..Len(sent) : Found(k) => Found(k)'
      BY <1>1, <2>1, <2>2, FoundLonger
    <2>4. n \in 0..Len(sent) /\ (pc = "consume" => n - 1 \in 0..Len(sent))
      BY <1>0, <1>1 DEF Placed
    <2> QED
      BY <1>0, <2>1, <2>3, <2>4 DEF Consumed
  <1>8. CASE UNCHANGED vars
    <2>1. UNCHANGED <<sent, use, found, got, pc>>
      BY <1>8 DEF vars, daemon, program, given
    <2>2. pc = "consume" => n - 1 \in Nat
      BY <1>0, <1>1 DEF Placed
    <2> QED
      BY <1>0, <1>1, <1>2, <2>1, <2>2 DEF Consumed
  <1> QED
    BY <1>3, <1>4, <1>5, <1>6, <1>7, <1>8, Steps DEF Onward

(* get looks up the next image it has read of.                             *)
LEMMA LookedUpNext ==
    ASSUME TypeOK, Placed, LookedUp, [Next]_vars
    PROVE  LookedUp'
  <1>0. held \in Seq(Id) /\ found \in Seq(Id) /\ Len(held) \in Nat /\ Len(found) \in Nat
    BY LenProperties DEF TypeOK
  <1>1. CASE Get
    <2>1. found' = found /\ pc = "get" /\ pc' \in {"get", "idle"}
      BY <1>1 DEF Get, Return
    <2>2. CASE held' = held
      BY <2>1, <2>2 DEF LookedUp
    <2>3. CASE held' # held
      <3>1. held # found /\ found[Len(held) + 1] \in images /\ held' = Append(held, found[Len(held) + 1])
        BY <1>1, <2>3 DEF Get
      <3>2. PICK h, l, i : h = Len(held) /\ l = Len(found) /\ i = found[Len(held) + 1]
        OBVIOUS
      <3>3. h < l
        <4> SUFFICES ASSUME ~(h < l) PROVE FALSE
          OBVIOUS
        <4>1. Len(held) = Len(found) /\ \A j \in 1..Len(held) : held[j] = found[j]
          BY <1>0, <3>2 DEF LookedUp
        <4>2. held = found
          BY <1>0, <4>1, SeqEqual
        <4> QED
          BY <3>1, <4>2
      <3>4. i \in Id
        BY <3>1, <3>2 DEF TypeOK
      <3>5. held' = Append(held, i) /\ h \in Nat /\ l \in Nat
        BY <1>0, <3>1, <3>2
      <3>6. Len(held') = h + 1 /\ held'[h + 1] = i /\ \A j \in 1..h : held'[j] = held[j]
        BY <1>0, <3>2, <3>4, <3>5, AppendProperties
      <3>7. \A j \in 1..(h + 1) : j \in 1..h \/ j = h + 1
        BY <3>5
      <3>8. \A j \in 1..(h + 1) : held'[j] = found[j]
        BY <3>2, <3>6, <3>7 DEF LookedUp
      <3>9. Len(held') <= Len(found')
        BY <2>1, <3>2, <3>3, <3>5, <3>6
      <3> QED
        BY <2>1, <3>6, <3>8, <3>9 DEF LookedUp
    <2> QED
      BY <2>2, <2>3
  <1>2. CASE BuildReads \/ LoadReads
    <2>1. held' = held /\ pc = "consume"
      BY <1>2 DEF BuildReads, LoadReads
    <2>2. held' = <<>> /\ Len(held') = 0
      BY <2>1 DEF LookedUp
    <2>3. Len(found') \in Nat
      <3>1. Onward
        BY <1>2 DEF Onward
      <3> QED
        BY <3>1, TypedOnward, LenProperties
    <2> QED
      BY <2>2, <2>3 DEF LookedUp
  <1>3. CASE ~Get /\ ~BuildReads /\ ~LoadReads
    <2>1. held' = held /\ found' = found /\ (pc' \notin {"get", "idle"} => pc \notin {"get", "idle"})
      <3>1. CASE Environment
        BY <3>1, EnvironmentLeaves DEF program
      <3>2. CASE ~Environment
        <4>1. CASE Onward
          BY <1>3, <4>1 DEF Onward, Ask, ReadError, EndOfStream, CutRead, Handed, Finish, GetLost, Goto,
                            Return, Raise
        <4>2. CASE ReadChunk \/ Split
          BY <4>2 DEF ReadChunk, Split, Goto
        <4>3. CASE UNCHANGED vars
          BY <4>3 DEF vars, program
        <4> QED
          BY <3>2, <4>1, <4>2, <4>3, Steps DEF Onward
      <3> QED
        BY <3>1, <3>2
    <2> QED
      BY <2>1 DEF LookedUp
  <1> QED
    BY <1>1, <1>2, <1>3

(* Build has found the image its stream told of, when there was no error.  *)
LEMMA BuildFinds ==
    ASSUME TypeOK, Beginning, Placed, Built, Consumed, answer = "chunked", use = "build", pc \in {"finish", "get"}
    PROVE  /\ ~HasError /\ Len(sent) \in Tells("made")
           /\ \A i \in Tells("made") : i = Len(sent)
           /\ found = <<sent[Len(sent)].id>> /\ sent[Len(sent)].id \in Id
  <1>1. line = "ended" /\ Len(got) = Len(sent) /\ Found(Len(sent))
    BY DEF Placed, Consumed
  <1>2. ~HasError
    BY <1>1, Texts DEF Found, Clean, HasError, Tells, Loader
  <1>3. Len(sent) \in Tells("made") /\ \A i \in Tells("made") : i = Len(sent)
    BY <1>1, <1>2 DEF Built
  <1>4. Len(sent) > 0 /\ sent[Len(sent)] \in Entry /\ sent[Len(sent)].kind = "made"
    <2>1. Len(sent) \in 1..Len(sent) /\ sent[Len(sent)].kind = "made"
      BY <1>3, Texts DEF Tells
    <2> QED
      BY <2>1, Texts, ElementOfSeq
  <1>5. sent[Len(sent)].id \in Id
    BY <1>4 DEF Entry
  <1> QED
    BY <1>1, <1>2, <1>3, <1>4, <1>5, ProgressConstants DEF Found

(* A message has one entry, that says nothing; build goes on with an image. *)
LEMMA WordedNext ==
    ASSUME TypeOK, Framing, Beginning, Placed, Worded, [Next]_vars
    PROVE  Worded'
  <1>1. CASE Write
    <2>1. PICK e \in Entry : sent' = Append(sent, e) /\ (answer = "message" => e.kind = "status")
      BY <1>1 DEF Write
    <2>2. answer = "message" => sent = <<>> /\ e.id = None
      BY <1>1, <2>1 DEF Write, Entry
    <2>3. answer = "message" => \A i \in 1..Len(sent') : sent'[i].id = None
      <3>1. sent = <<>> => sent' = <<e>>
        BY <2>1
      <3> QED
        BY <2>2, <3>1
    <2>4. UNCHANGED <<pc, found, answer, use>>
      BY <1>1 DEF Write, program, given
    <2> QED
      BY <2>3, <2>4 DEF Worded
  <1>2. CASE Environment /\ ~Write
    <2>1. UNCHANGED <<pc, found, answer, use>>
      BY <1>2, EnvironmentLeaves DEF program
    <2>2. sent' = sent
      BY <1>2 DEF Environment, Done, Cut, Close, Others
    <2> QED
      BY <2>1, <2>2 DEF Worded
  <1>3. CASE \E looks \in BOOLEAN : Ask(looks) /\ UNCHANGED <<daemon, given>>
    <2>1. /\ pc = "request" /\ pc' \in {"read", "idle"} /\ UNCHANGED <<found, sent>>
      BY <1>3 DEF Ask, Goto, Return, daemon
    <2>2. sent = <<>> /\ found = <<>>
      BY <2>1 DEF Placed, Worded
    <2>3. Len(sent') = 0 /\ found' = <<>>
      BY <2>1, <2>2
    <2> QED
      BY <2>1, <2>3 DEF Worded
  <1>4. CASE BuildReads \/ LoadReads
    <2>1. /\ UNCHANGED <<answer, sent, use>> /\ pc = "consume" /\ pc' \in {"split", "idle"}
      BY <1>4 DEF BuildReads, LoadReads, Goto, Return, daemon, given
    <2>2. item \in 1..Len(sent) /\ sent[item] \in Entry
      <3>1. item \in 1..Len(sent)
        BY <2>1, Texts DEF Placed, TypeOK
      <3> QED
        BY <3>1, Texts, ElementOfSeq
    <2>3. answer = "message" => sent[item].id = None /\ sent[item].kind # "made"
      BY <2>2, ProgressConstants DEF Worded, Entry
    <2>4. answer = "message" => found' = found
      BY <1>4, <2>3 DEF BuildReads, LoadReads, Return
    <2> QED
      BY <2>1, <2>4 DEF Worded
  <1>5. CASE Finish
    <2>1. UNCHANGED <<answer, sent, use, found>> /\ pc' \in {"get", "idle"}
          /\ (pc' = "get" /\ use = "build" => found # <<>>)
      BY <1>5 DEF Finish, Goto, Return, daemon, given
    <2> QED
      BY <2>1 DEF Worded
  <1>6. CASE Onward /\ ~Finish /\ ~BuildReads /\ ~LoadReads
             /\ ~\E looks \in BOOLEAN : Ask(looks) /\ UNCHANGED <<daemon, given>>
    <2>1. /\ UNCHANGED <<answer, sent, use, found>> /\ pc' # "request"
          /\ (pc' = "get" => pc = "get")
      BY <1>6 DEF Onward, ReadError, EndOfStream, CutRead, Handed, Get, GetLost, Goto, Return, Raise,
                  daemon, given
    <2> QED
      BY <2>1 DEF Worded
  <1>7. CASE ReadChunk \/ Split
    <2>1. UNCHANGED <<answer, sent, use, found>> /\ pc' \in {"read", "split", "consume"}
      BY <1>7 DEF ReadChunk, Split, Goto, daemon, given
    <2> QED
      BY <2>1 DEF Worded
  <1>8. CASE UNCHANGED vars
    BY <1>8 DEF Worded, vars, daemon, program, given
  <1> QED
    BY <1>1, <1>2, <1>3, <1>4, <1>5, <1>6, <1>7, <1>8, Steps DEF Onward

(* What the reader reports stays true, and has one of these reasons.       *)
LEMMA ReasonsNext ==
    ASSUME TypeOK, Framing, Beginning, Placed, Built, Consumed, Reasons, [Next]_vars
    PROVE  Reasons'
  <1>1. CASE Environment
    <2>1. UNCHANGED <<pc, result, answer, bare>>
      BY <1>1, EnvironmentLeaves DEF program
    <2>2. HasError => HasError'
      <3>1. /\ sent \in Seq(Entry) /\ sent' \in Seq(Entry) /\ Len(sent) <= Len(sent')
            /\ \A i \in 1..Len(sent) : sent'[i] = sent[i]
        BY <1>1, EnvironmentAdds, Texts
      <3>2. Tells("error") \subseteq Tells("error")'
        BY <3>1, ToldLonger
      <3> QED
        BY <3>2 DEF HasError
    <2>3. line = "cut" => line' = "cut"
      BY <1>1, EnvironmentAdds
    <2> QED
      BY <2>1, <2>2, <2>3 DEF Reasons, Idle
  <1>2. CASE ReadChunk \/ Split
    <2>1. /\ pc \in {"read", "split"} /\ pc' \in {"read", "split", "consume"} /\ result' = result
      BY <1>2 DEF ReadChunk, Split, Goto
    <2>2. result = "none"
      BY <2>1 DEF Reasons, Idle
    <2> QED
      BY <2>1, <2>2 DEF Reasons, Idle
  <1>3. CASE Onward
    <2>0. UNCHANGED <<sent, line, bare, use>> /\ (HasError' <=> HasError)
      BY <1>3, OnwardLeaves DEF Unread, HasError, Tells
    <2>1. CASE \E looks \in BOOLEAN : Ask(looks)
      <3>1. /\ pc = "request"
            /\ \/ pc' = "read" /\ result' = result
               \/ pc' = "idle" /\ result' = "lost"
               \/ pc' = "idle" /\ result' = "APIError" /\ answer' \in {"error", "message"}
        BY <2>1 DEF Ask, Goto, Return
      <3>2. result = "none"
        BY <3>1 DEF Reasons, Idle
      <3> QED
        BY <2>0, <3>1, <3>2 DEF Reasons, Idle
    <2>2. CASE ReadError \/ CutRead
      <3>1. /\ pc' = "idle" /\ answer' = answer
            /\ \/ result' = "ended"
               \/ result' = "APIError" /\ answer = "error"
               \/ result' = "ProtocolError" /\ line = "cut"
        BY <2>2 DEF ReadError, CutRead, Raise, Return
      <3> QED
        BY <2>0, <3>1 DEF Reasons, Idle
    <2>3. CASE EndOfStream
      <3>1. /\ pc = "read" /\ wire = <<>> /\ line = "ended" /\ answer' = answer
            /\ \/ pc' = "finish" /\ result' = result
               \/ pc' = "idle" /\ result' = "StreamParseError" /\ buffer # <<>>
        BY <2>3 DEF EndOfStream, Goto, Return
      <3>2. buffer # <<>> => bare
        BY <3>1, EndText DEF Placed
      <3>3. result = "none"
        BY <3>1 DEF Reasons, Idle
      <3> QED
        BY <2>0, <3>1, <3>2, <3>3 DEF Reasons, Idle
    <2>4. CASE Handed \/ BuildReads \/ LoadReads
      <3>1. /\ pc = "consume" /\ answer' = answer
            /\ \/ pc' = "split" /\ result' = result
               \/ /\ pc' = "idle" /\ result' \in {"BuildError", "ImageLoadError"}
                  /\ sent[item].kind = "error"
        BY <2>4 DEF Handed, BuildReads, LoadReads, Goto, Return
      <3>2. result = "none"
        BY <3>1 DEF Reasons, Idle
      <3>3. item \in DOMAIN sent
        BY <3>1, Texts DEF Placed, TypeOK
      <3>4. sent[item].kind = "error" => HasError
        BY <3>3 DEF HasError, Tells
      <3> QED
        BY <2>0, <3>1, <3>2, <3>4 DEF Reasons, Idle
    <2>5. CASE Finish \/ Get \/ GetLost
      <3>1. /\ pc \in {"finish", "get"} /\ answer' = answer
            /\ \/ pc' = "get" /\ result' = result
               \/ pc' = "idle" /\ result' \in {"ended", "ok", "old", "new", "lost", "ImageNotFound"}
               \/ /\ pc' = "idle" /\ result' = "BuildError" /\ use = "build" /\ found = <<>>
        BY <2>5 DEF Finish, Get, GetLost, Goto, Return, TypeOK
      <3>2. result = "none"
        BY <3>1 DEF Reasons, Idle
      <3>3. use = "build" /\ found = <<>> => answer = "message"
        <4>1. answer \in {"chunked", "message"}
          BY <3>1 DEF Placed, Streamed
        <4>2. use = "build" /\ answer = "chunked" => found = <<sent[Len(sent)].id>>
          BY <3>1, BuildFinds
        <4> QED
          BY <4>1, <4>2
      <3> QED
        BY <2>0, <3>1, <3>2, <3>3 DEF Reasons, Idle
    <2> QED
      BY <1>3, <2>1, <2>2, <2>3, <2>4, <2>5 DEF Onward
  <1>4. CASE UNCHANGED vars
    BY <1>4 DEF Reasons, Idle, HasError, Tells, vars, daemon, program
  <1> QED
    BY <1>1, <1>2, <1>3, <1>4, Steps DEF Onward

(* Only get succeeds.                                                      *)
LEMMA SucceedsByGet ==
    ASSUME TypeOK, Framing, Beginning, [Next]_vars, Idle', result' \in {"ok", "old", "new"}
    PROVE  \/ Get /\ pc = "get" /\ UNCHANGED <<sent, got, line, use, found>>
           \/ Idle /\ UNCHANGED <<result, got, use, held>> /\ (line # "open" => UNCHANGED <<sent, line>>)
  <1>1. CASE Get
    BY <1>1 DEF Get, daemon, given
  <1>2. CASE Onward /\ ~Get
    BY <1>2 DEF Idle, Onward, Ask, ReadError, EndOfStream, CutRead, Handed, BuildReads, LoadReads, Finish,
                GetLost, Goto, Return, Raise
  <1>3. CASE ReadChunk \/ Split
    BY <1>3 DEF Idle, ReadChunk, Split, Goto
  <1>4. CASE Environment
    BY <1>4, EnvironmentLeaves, EnvironmentAdds DEF Idle, program
  <1>5. CASE UNCHANGED vars
    BY <1>5 DEF Idle, vars, daemon, program, given
  <1> QED
    BY <1>1, <1>2, <1>3, <1>4, <1>5, Steps DEF Onward

(* Success is that of a whole stream.                                      *)
LEMMA SuccessNext ==
    ASSUME TypeOK, Framing, Beginning, Placed, Consumed, SuccessIsWhole, [Next]_vars
    PROVE  SuccessIsWhole'
  <1> SUFFICES ASSUME Idle', result' \in {"ok", "old", "new"}
               PROVE  line' = "ended" /\ got' = sent' /\ (use' \in Loader => ~HasError')
    BY DEF SuccessIsWhole
  <1>1. CASE Get /\ pc = "get" /\ UNCHANGED <<sent, got, line, use, found>>
    <2>1. line = "ended" /\ Len(got) = Len(sent) /\ Found(Len(sent))
      BY <1>1 DEF Placed, Consumed
    <2>2. got = sent
      <3>1. \A i \in 1..Len(got) : got[i] = sent[i]
        BY DEF Beginning
      <3> QED
        BY <2>1, <3>1, Texts, SeqEqual
    <2>3. use \in Loader => ~HasError
      BY <2>1, Texts DEF Found, Clean, HasError, Tells
    <2> QED
      BY <1>1, <2>1, <2>2, <2>3 DEF HasError, Tells
  <1>2. CASE Idle /\ UNCHANGED <<result, got, use, held>> /\ (line # "open" => UNCHANGED <<sent, line>>)
    <2>1. line = "ended" /\ got = sent /\ (use \in Loader => ~HasError)
      BY <1>2 DEF SuccessIsWhole
    <2> QED
      BY <1>2, <2>1 DEF HasError, Tells
  <1> QED
    BY <1>1, <1>2, SucceedsByGet

(* The images that are returned are those the stream told of.              *)
LEMMA ReturnsNext ==
    ASSUME TypeOK, Framing, Beginning, Placed, Built, Worded, Consumed, SuccessIsWhole,
           ReturnsWhatWasMade, [Next]_vars
    PROVE  ReturnsWhatWasMade'
  <1> SUFFICES ASSUME Idle', result' = "ok"
               PROVE  ReturnsWhatWasMade'
    BY DEF ReturnsWhatWasMade
  <1>1. CASE Get /\ pc = "get" /\ UNCHANGED <<sent, got, line, use, found>>
    <2>0. held' = held /\ held = found /\ use \in Loader
      <3>1. use # "pull" /\ held = found /\ held' = held
        BY <1>1 DEF Get, Return, Idle, TypeOK
      <3>2. use \in Loader
        BY <1>1, <3>1 DEF Placed
      <3> QED
        BY <3>1, <3>2
    <2>1. Len(got) = Len(sent) /\ Found(Len(sent)) /\ Len(sent) \in Nat
      BY <1>1, Texts DEF Placed, Consumed
    <2>2. Tells("made")' = Tells("made")
      BY <1>1 DEF Tells
    <2>3. \E f \in [DOMAIN found -> Tells("made")] :
              /\ Increasing(f) /\ \A i \in Tells("made") : \E j \in DOMAIN found : f[j] = i
              /\ \A j \in DOMAIN found : found[j] = sent[f[j]].id
      <3>1. CASE use = "load"
        <4>1. Tells("made") \intersect 1..Len(sent) = Tells("made")
          BY <2>1, Texts DEF Tells
        <4> QED
          BY <2>1, <3>1, <4>1 DEF Found, Listed
      <3>2. CASE use = "build"
        <4>1. PICK n : n = Len(sent)
          OBVIOUS
        <4>2. /\ n \in Tells("made") /\ \A i \in Tells("made") : i = n
              /\ found = <<sent[n].id>>
          <5>1. answer = "chunked"
            BY <1>1, <3>2 DEF Placed, Worded, Streamed
          <5> QED
            BY <1>1, <3>2, <4>1, <5>1, BuildFinds
        <4>3. PICK f : f = [j \in {1} |-> n]
          OBVIOUS
        <4>4. DOMAIN found = {1} /\ found[1] = sent[n].id
          BY <4>2
        <4>5. f \in [{1} -> Tells("made")] /\ DOMAIN f = {1} /\ f[1] = n
          BY <4>2, <4>3
        <4>6. Increasing(f)
          BY <4>5 DEF Increasing
        <4> QED
          BY <4>2, <4>4, <4>5, <4>6
      <3> QED
        BY <2>0, <3>1, <3>2 DEF Loader
    <2>4. PICK f \in [DOMAIN found -> Tells("made")] :
              /\ Increasing(f) /\ \A i \in Tells("made") : \E j \in DOMAIN found : f[j] = i
              /\ \A j \in DOMAIN found : found[j] = sent[f[j]].id
      BY <2>3
    <2>5. /\ f \in [DOMAIN held' -> Tells("made")']
          /\ \A j, k \in DOMAIN f : j < k => f[j] < f[k]
          /\ \A i \in Tells("made")' : \E j \in DOMAIN held' : f[j] = i
          /\ \A j \in DOMAIN held' : held'[j] = sent'[f[j]].id
      BY <1>1, <2>0, <2>2, <2>4 DEF Increasing
    <2> QED
      BY <2>5 DEF ReturnsWhatWasMade, Increasing
  <1>2. CASE Idle /\ UNCHANGED <<result, got, use, held>> /\ (line # "open" => UNCHANGED <<sent, line>>)
    <2>1. line = "ended"
      BY <1>2 DEF SuccessIsWhole
    <2>2. UNCHANGED <<sent, held>> /\ Tells("made")' = Tells("made")
      BY <1>2, <2>1 DEF Tells
    <2>3. PICK f \in [DOMAIN held -> Tells("made")] :
              /\ Increasing(f) /\ \A i \in Tells("made") : \E j \in DOMAIN held : f[j] = i
              /\ \A j \in DOMAIN held : held[j] = sent[f[j]].id
      BY <1>2 DEF ReturnsWhatWasMade
    <2>4. /\ f \in [DOMAIN held' -> Tells("made")']
          /\ \A j, k \in DOMAIN f : j < k => f[j] < f[k]
          /\ \A i \in Tells("made")' : \E j \in DOMAIN held' : f[j] = i
          /\ \A j \in DOMAIN held' : held'[j] = sent'[f[j]].id
      BY <2>2, <2>3 DEF Increasing
    <2> QED
      BY <2>4 DEF ReturnsWhatWasMade, Increasing
  <1> QED
    BY <1>1, <1>2, SucceedsByGet

-----------------------------------------------------------------------------
(* The properties                                                          *)

(* The invariant is kept by every step.                                    *)
LEMMA NextIInv == IInv /\ [Next]_vars => IInv'
  <1> SUFFICES ASSUME IInv, [Next]_vars
               PROVE  IInv'
    OBVIOUS
  <1>1. TypeOK' /\ Framing' /\ Beginning'
    BY Typed DEF IInv
  <1>2. Placed'
    BY PlacedNext DEF IInv
  <1>3. Built'
    BY BuiltNext DEF IInv
  <1>4. Consumed'
    BY <1>1, ConsumedNext DEF IInv
  <1>5. LookedUp'
    BY LookedUpNext DEF IInv
  <1>6. Reasons'
    BY ReasonsNext DEF IInv
  <1>7. SuccessIsWhole' /\ ReturnsWhatWasMade'
    BY SuccessNext, ReturnsNext DEF IInv
  <1>8. Worded'
    BY WordedNext DEF IInv
  <1> QED
    BY <1>1, <1>2, <1>3, <1>4, <1>5, <1>6, <1>7, <1>8 DEF IInv

(* However the text is cut into chunks, the buffer and the connection hold  *)
(* the rest of it, and every result has the reason it states.              *)
THEOREM StreamInvariance == Spec => []IInv
  <1>1. Init => IInv
    BY InitIInv
  <1> QED
    BY <1>1, NextIInv, PTL DEF Spec

(* An entry whose second half has been read is in the buffer, whole, and    *)
(* the reader does not wait for a chunk then.                              *)
LEMMA PromptAlways == ASSUME IInv PROVE Prompt
  <1> SUFFICES ASSUME pc = "read", line = "open", NEW i \in DOMAIN sent, Arrived(i)
               PROVE  i <= Len(got)
    BY DEF Prompt
  <1>0. TypeOK /\ Beginning /\ Placed
    BY DEF IInv
  <1>1. PICK b \in Nat : Framed(b)
    BY DEF IInv, Framing
  <1>2. PICK m, n, w, z : m = Len(got) /\ n = Len(buffer) /\ w = Len(wire) /\ z = Len(sent)
    OBVIOUS
  <1>3. m \in Nat /\ n \in Nat /\ w \in Nat /\ z \in Nat /\ i \in 1..z
    BY <1>0, <1>2, Texts, LenProperties
  <1>4. b \in {3 * m - 1, 3 * m} /\ Follows(buffer, b) /\ Follows(wire, b + n) /\ b + n + w = 3 * z
    BY <1>1, <1>2 DEF Framed
  <1>5. b + n < 3 * m + 2
    <2>1. Whole(buffer) <=> b + n >= 3 * m + 2
      BY <1>0, <1>2, <1>3, <1>4, WholeWhen, Texts
    <2>2. ~Whole(buffer)
      BY <1>0 DEF Placed
    <2> QED
      BY <1>3, <2>1, <2>2
  <1>6. ASSUME i > m
        PROVE  FALSE
    <2>1. PICK p, k : p = 3 * i - 1 - (b + n) /\ k = i - 1
      OBVIOUS
    <2>2. p \in 1..w /\ k \in Nat /\ b + n + p = 3 * k + 2 /\ k + 1 = i
      BY <1>3, <1>4, <1>5, <1>6, <2>1
    <2>3. IsChar(wire[p], b + n + p)
      BY <1>2, <1>4, <2>2 DEF Follows
    <2>4. wire[p] = <<i, 2>>
      BY <2>2, <2>3 DEF IsChar
    <2>5. p \in DOMAIN wire
      BY <1>0, <1>2, <2>2, Texts, LenProperties
    <2> QED
      BY <2>4, <2>5 DEF Arrived
  <1> QED
    BY <1>2, <1>3, <1>6

(* No entry that has arrived is held back, and a stream that was completed  *)
(* without an error fails only when its last line end came alone.          *)
THEOREM ReadsFaithfullyHolds == Spec => []ReadsFaithfully
  <1>1. ASSUME IInv
        PROVE  FailsForAReason
    <2> SUFFICES ASSUME Idle, answer = "chunked", line = "ended", ~HasError
                 PROVE  \/ result \in {"ended", "ok", "old", "new", "lost", "ImageNotFound"}
                        \/ result = "StreamParseError" /\ bare
      BY DEF FailsForAReason
    <2>1. /\ result \in {"ended", "ok", "old", "new", "lost", "APIError", "ProtocolError",
                         "StreamParseError", "BuildError", "ImageLoadError", "ImageNotFound"}
      BY <1>1 DEF IInv, TypeOK, Reasons
    <2>2. result \notin {"APIError", "ProtocolError", "BuildError", "ImageLoadError"}
      BY <1>1 DEF IInv, Reasons, Placed
    <2> QED
      BY <1>1, <2>1, <2>2 DEF IInv, Reasons
  <1>2. IInv => ReadsFaithfully
    BY <1>1, PromptAlways DEF IInv, ReadsFaithfully
  <1> QED
    BY <1>2, StreamInvariance, PTL

(* Success is the end of a whole stream without an error, and what is       *)
(* returned is every image the stream says was made, in its order.         *)
THEOREM ResultIsTrueHolds == Spec => []ResultIsTrue
  <1>1. IInv => ResultIsTrue
    BY DEF IInv, ResultIsTrue
  <1> QED
    BY <1>1, StreamInvariance, PTL

-----------------------------------------------------------------------------
(* The stream implements OrderedOutput                                     *)

(* One sequence is the beginning of another.                               *)
LEMMA ExtendsPointwise ==
    ASSUME NEW S, NEW s \in Seq(S), NEW t \in Seq(S), Len(t) <= Len(s),
           \A i \in 1..Len(t) : t[i] = s[i]
    PROVE  Promise!Extends(s, t)
  <1>1. Len(t) \in Nat /\ Len(s) \in Nat /\ \A i \in 1..Len(t) : s[i] \in S
    BY LenProperties, ElementOfSeq
  <1>2. /\ SubSeq(s, 1, Len(t)) \in Seq(S) /\ Len(SubSeq(s, 1, Len(t))) = Len(t)
        /\ \A i \in 1..Len(t) : SubSeq(s, 1, Len(t))[i] = s[i]
    BY <1>1, SubSeqProperties
  <1>3. t = SubSeq(s, 1, Len(t))
    BY <1>2, SeqEqual
  <1> QED
    BY <1>3 DEF Promise!Extends

(* An iteration that ends without an error has yielded everything, or the   *)
(* connection was cut.                                                     *)
LEMMA EndsWhole ==
    ASSUME TypeOK, Beginning, Placed, Onward, Idle',
           result' \in {"ended", "ok", "old", "new", "ImageNotFound"}
    PROVE  line = "cut" \/ got = sent
  <1>0. \A i \in 1..Len(got) : got[i] = sent[i]
    BY DEF Beginning
  <1>1. CASE ReadError
    <2>1. sent = <<>>
      BY <1>1 DEF ReadError, Placed, Streamed
    <2>2. Len(got) = Len(sent)
      BY <2>1, Texts DEF Beginning
    <2> QED
      BY <1>0, <2>2, Texts, SeqEqual
  <1>2. CASE CutRead
    BY <1>2 DEF CutRead
  <1>3. CASE Finish \/ Get
    <2>1. Len(got) = Len(sent)
      BY <1>3 DEF Finish, Get, Placed
    <2> QED
      BY <1>0, <2>1, Texts, SeqEqual
  <1> QED
    BY <1>1, <1>2, <1>3 DEF Onward, Idle, Ask, EndOfStream, Handed, BuildReads, LoadReads, GetLost,
                            Goto, Return

(* A step that only moves on is made by a program that has not ended.      *)
LEMMA OnwardFromOpen ==
    ASSUME Onward
    PROVE  ~Idle
  BY DEF Onward, Idle, Ask, ReadError, EndOfStream, CutRead, Handed, BuildReads, LoadReads, Finish, Get,
         GetLost

(* Every step writes, yields, ends, fails, cuts or shows nothing.          *)
LEMMA StepImplements ==
    ASSUME IInv, [Next]_vars
    PROVE  [Promise!Next]_(Promise!vars)
  <1>0. TypeOK /\ Framing /\ Beginning /\ Placed
    BY DEF IInv
  <1>1. ASSUME UNCHANGED <<sent, got>>, State' = State, (line = "cut")' = (line = "cut")
        PROVE  UNCHANGED Promise!vars
    BY <1>1 DEF Promise!vars
  <1>2. CASE Write
    <2>1. sent' \in Seq(Entry) /\ Len(sent) <= Len(sent') /\ \A i \in 1..Len(sent) : sent'[i] = sent[i]
      BY <1>0, <1>2, WriteText, Texts
    <2>2. Promise!Extends(sent', sent)
      BY <1>0, <2>1, Texts, ExtendsPointwise
    <2>3. UNCHANGED <<got, pc, result, line>>
      BY <1>2 DEF Write, program
    <2>4. State' = State
      BY <2>3 DEF State, Idle
    <2>5. Promise!Write("entries")
      BY <2>2, <2>3, <2>4 DEF Promise!Write, Promise!Extends
    <2> QED
      BY <2>5 DEF Promise!Next
  <1>3. CASE Done \/ Others
    <2>1. UNCHANGED <<sent, got, pc, result>> /\ (line = "cut")' = (line = "cut")
      BY <1>3 DEF Done, Others, program
    <2> QED
      BY <1>1, <2>1 DEF State, Idle
  <1>4. CASE Cut \/ Close
    <2>1. UNCHANGED <<sent, got, pc, result>> /\ (line' = "cut" \/ line' = line)
      BY <1>4 DEF Cut, Close, program
    <2>2. State' = State
      BY <2>1 DEF State, Idle
    <2>3. CASE line' = "cut"
      <3>1. Promise!Cut
        BY <2>1, <2>2, <2>3 DEF Promise!Cut
      <3> QED
        BY <3>1 DEF Promise!Next
    <2> QED
      BY <1>1, <2>1, <2>2, <2>3
  <1>5. CASE Onward
    <2>1. UNCHANGED <<sent, got, line>> /\ State = "open"
      BY <1>5, OnwardLeaves, OnwardFromOpen DEF Unread, State
    <2>2. CASE ~Idle'
      <3>1. State' = State
        BY <2>1, <2>2 DEF State
      <3> QED
        BY <1>1, <2>1, <3>1
    <2>3. CASE Idle' /\ result' \in {"ended", "ok", "old", "new", "ImageNotFound"}
      <3>1. line = "cut" \/ got = sent
        BY <1>0, <1>5, <2>3, EndsWhole
      <3>2. State' = "ended"
        BY <2>3 DEF State
      <3>3. Promise!End
        BY <2>1, <3>1, <3>2 DEF Promise!End
      <3> QED
        BY <3>3 DEF Promise!Next
    <2>4. CASE Idle' /\ result' \notin {"ended", "ok", "old", "new", "ImageNotFound"}
      <3>1. State' = "failed"
        BY <2>4 DEF State
      <3>2. Promise!Fail
        BY <2>1, <3>1 DEF Promise!Fail
      <3> QED
        BY <3>2 DEF Promise!Next
    <2> QED
      BY <2>2, <2>3, <2>4
  <1>6. CASE Split /\ Whole(buffer)
    <2>1. /\ got' = Append(got, sent[item']) /\ got' \in Seq(Entry) /\ Len(got') = Len(got) + 1
          /\ item' \in 1..Len(sent) /\ item' = Len(got) + 1 /\ Beginning'
      BY <1>0, <1>6, SplitText
    <2>2. UNCHANGED <<sent, line>> /\ ~Idle /\ ~Idle'
      BY <1>6 DEF Split, daemon, Idle, Goto
    <2>3. Promise!Extends(got', got)
      <3>1. sent[item'] \in Entry
        BY <1>0, <2>1, Texts, ElementOfSeq
      <3>2. \A i \in 1..Len(got) : got'[i] = got[i]
        BY <1>0, <2>1, <3>1, Texts, AppendProperties
      <3>3. got \in Seq(Entry) /\ Len(got) <= Len(got')
        BY <1>0, <2>1, Texts
      <3> QED
        BY <2>1, <3>2, <3>3, ExtendsPointwise
    <2>4. Promise!Extends(sent, got')
      <3>1. Len(got') <= Len(sent) /\ \A i \in 1..Len(got') : got'[i] = sent[i]
        BY <2>1, <2>2 DEF Beginning
      <3> QED
        BY <1>0, <2>1, <3>1, Texts, ExtendsPointwise
    <2>5. State = "open" /\ State' = "open"
      BY <2>2 DEF State
    <2>6. Promise!Deliver("entries")
      BY <2>2, <2>3, <2>4, <2>5 DEF Promise!Deliver, Promise!Extends
    <2> QED
      BY <2>6 DEF Promise!Next
  <1>7. CASE ReadChunk \/ (Split /\ ~Whole(buffer))
    <2>1. UNCHANGED <<sent, got, line>> /\ ~Idle /\ ~Idle'
      BY <1>7 DEF ReadChunk, Split, daemon, Idle, Goto
    <2> QED
      BY <1>1, <2>1 DEF State
  <1>8. CASE UNCHANGED vars
    <2>1. UNCHANGED <<sent, got, pc, result, line>>
      BY <1>8 DEF vars, daemon, program
    <2> QED
      BY <1>1, <2>1 DEF State, Idle
  <1> QED
    BY <1>2, <1>3, <1>4, <1>5, <1>6, <1>7, <1>8, Steps DEF Onward, Environment

(* The entries of a stream are yielded once and in order, and all of them   *)
(* when it ends without an error, unless the connection was cut.           *)
THEOREM ImplementsHolds == Spec => Implements
  <1>1. Init => Promise!Init
    BY DEF Init, Promise!Init, State, Idle
  <1>2. IInv /\ [Next]_vars => [Promise!Next]_(Promise!vars)
    BY StepImplements
  <1> QED
    BY <1>1, <1>2, StreamInvariance, PTL DEF Spec, Implements, Promise!Spec
=============================================================================
