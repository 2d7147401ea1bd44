---------------------------- MODULE FrameStream ----------------------------
(***************************************************************************)
(* Reading the output of a container: attach, logs and exec.               *)
(*                                                                         *)
(* Without a TTY the daemon multiplexes stdout and stderr into frames, a   *)
(* header and a payload.  docker.utils.socket takes them apart with reads  *)
(* that may return any part of what was asked for, nothing because of a    *)
(* recoverable error, or end of file; APIClient's helpers read the same    *)
(* frames exactly, through the HTTP response.  With a TTY the bytes come   *)
(* as they are.                                                            *)
(***************************************************************************)
EXTENDS Integers, Sequences

CONSTANTS Stream,        \* the stream numbers the daemon uses
          MaxFrames,     \* bound: frames (or writes) the daemon sends
          MaxPayload,    \* bound: bytes of a payload
          HeaderSize,    \* bytes of a header (8 in the protocol)
          ReadAhead,     \* output may arrive together with the response's head
          Modes          \* the ways of reading that are looked at

(* via: utils.socket, or APIClient's helpers through the response, which    *)
(* know no channels; demux: stdout and stderr are returned apart; tty: the  *)
(* container has a terminal; recoverable: reads may fail with EINTR,        *)
(* EDEADLK or EWOULDBLOCK.                                                  *)
ModeType == [via : {"socket", "response"}, demux : BOOLEAN, tty : BOOLEAN, recoverable : BOOLEAN]

ASSUME FrameConstants ==
    /\ Stream \subseteq 0..255 /\ MaxFrames \in Nat /\ MaxPayload \in Nat
    /\ HeaderSize \in Nat \ {0}
    /\ ReadAhead \in BOOLEAN
    /\ Modes \subseteq {m \in ModeType : m.demux \/ m.tty \/ m.recoverable => m.via = "socket"}

STDOUT == 1
STDERR == 2

VARIABLES frames,   \* daemon: how many frames it has sent
          sent,     \* daemon: the bytes written, per channel
          wire,     \* the connection: bytes not yet read
          closed,   \* the daemon closed the connection in order
          cut,      \* the connection broke, and what was in flight is lost
          mode,     \* reader: how it reads
          pc,       \* reader: what it does next
          buf,      \* reader: read_exactly's data
          stream,   \* reader: the stream of the current frame
          left,     \* reader: payload bytes still to come
          got       \* the caller: bytes yielded, per channel

daemon == <<frames, sent, closed, cut>>
vars == <<daemon, wire, mode, pc, buf, stream, left, got>>

\* demux_adaptor, or one channel for all streams.
Into(m, s) == IF ~m.demux THEN "joined"
              ELSE IF s = STDOUT THEN "stdout"
              ELSE IF s = STDERR THEN "stderr"
              ELSE "invalid"
Channel == {"joined", "stdout", "stderr", "invalid"}

Take(s, k) == SubSeq(s, 1, k)
Drop(s, k) == SubSeq(s, k + 1, Len(s))

\* A byte of a header announces the frame; a byte of a payload has its place.
HeaderByte(s, n) == [kind |-> "header", stream |-> s, size |-> n]
PayloadByte(s, k) == [kind |-> "payload", stream |-> s, size |-> k]

Init == /\ frames = 0
        /\ sent = [c \in Channel |-> <<>>]
        /\ wire = <<>>
        /\ closed = FALSE
        /\ cut = FALSE
        /\ mode \in Modes
        /\ pc = "head"
        /\ buf = <<>>
        /\ stream = STDOUT
        /\ left = 0
        /\ got = [c \in Channel |-> <<>>]

-----------------------------------------------------------------------------
(* The daemon and the connection                                           *)

Open == ~closed /\ ~cut
reader == <<mode, pc, buf, stream, left, got>>

Send(s, n) ==
    LET c == Into(mode, s)
        payload == [i \in 1..n |-> PayloadByte(s, Len(sent[c]) + i)]
        header == [i \in 1..HeaderSize |-> HeaderByte(s, n)]
    IN  /\ Open
        /\ frames < MaxFrames
        /\ frames' = frames + 1
        /\ sent' = [sent EXCEPT ![c] = @ \o payload]
        /\ wire' = wire \o (IF mode.tty THEN payload ELSE header \o payload)
        /\ UNCHANGED <<closed, cut, reader>>

Write == \E s \in (IF mode.tty THEN {STDOUT} ELSE Stream), n \in 0..MaxPayload : Send(s, n)

Close == Open /\ closed' = TRUE /\ UNCHANGED <<frames, sent, cut, wire, reader>>

Cut == /\ Open
       /\ cut' = TRUE
       /\ \E k \in 0..Len(wire) : wire' = Take(wire, k)
       /\ UNCHANGED <<frames, sent, closed, reader>>

-----------------------------------------------------------------------------
(* The reader                                                              *)

Socket == mode.via = "socket"

\* Places in the connection where a write of the daemon begins.
Boundary == {0, Len(wire)} \union
            {k \in 1..Len(wire) - 1 : /\ wire[k + 1].kind = "header"
                                      /\ wire[k].kind = "payload" \/ wire[k] # wire[k + 1]}

(* The head of the response is parsed through a buffered reader.  What that *)
(* has read beyond the head stays in its buffer: _get_raw_response_socket   *)
(* takes the socket under it, response.raw reads through it.                *)
ParseHead ==
    /\ pc = "head"
    /\ \E k \in IF ReadAhead /\ Socket THEN Boundary ELSE {0} : wire' = Drop(wire, k)
    /\ pc' = IF mode.tty THEN "raw" ELSE "frame"
    /\ UNCHANGED <<daemon, mode, buf, stream, left, got>>

\* The generator yields data of a stream, or demux_adaptor raises ValueError.
Yield(s, data, next) ==
    IF Into(mode, s) = "invalid"
    THEN pc' = "raised" /\ UNCHANGED got
    ELSE pc' = next /\ got' = [got EXCEPT ![Into(mode, s)] = @ \o data]

\* Seeded faults: variants of the reader in which a property below must fail.

\* "if n <= 0: break": an empty frame is taken for the end.
UnpackEmptyEnds(header) ==
    /\ stream' = header[1].stream /\ left' = header[1].size
    /\ pc' = IF left' > 0 THEN "body" ELSE "done"
    /\ buf' = <<>> /\ UNCHANGED got

\* One read per payload, whatever it returns.
ReadBodyOnce ==
    /\ pc = "body" /\ Socket
    /\ \E k \in 1..Len(wire) :
          k <= left /\ wire' = Drop(wire, k) /\ Yield(stream, Take(wire, k), "frame")
    /\ left' = 0 /\ UNCHANGED <<daemon, mode, buf, stream>>

\* "if not result: continue": end of file is taken for a recoverable error.
ReadEOFRetried ==
    /\ pc = "frame" /\ Socket /\ wire = <<>> /\ ~Open /\ pc' = "done"
    /\ UNCHANGED <<daemon, mode, wire, buf, stream, left, got>>

\* A response cut short ends like a complete one.
ResponseEndQuietly ==
    /\ ~Socket /\ pc' = "done"
    /\ \/ pc = "frame" /\ ~Open /\ Len(wire) < HeaderSize
       \/ pc = "body" /\ cut /\ Len(wire) < left
    /\ UNCHANGED <<daemon, mode, wire, buf, stream, left, got>>

\* struct.unpack of a header, and "while n > 0" or "if not length: continue".
Unpack(header) ==
    /\ stream' = header[1].stream
    /\ left' = header[1].size
    /\ pc' = IF left' > 0 THEN "body" ELSE "frame"
    /\ buf' = <<>>
    /\ UNCHANGED got

\* read_exactly in next_frame_header: any part of what the header still needs.
ReadHeader ==
    /\ pc = "frame" /\ Socket
    /\ \E k \in 1..Len(wire) :
          LET data == buf \o Take(wire, k)
          IN  /\ Len(data) <= HeaderSize
              /\ wire' = Drop(wire, k)
              /\ IF Len(data) = HeaderSize
                 THEN Unpack(data)
                 ELSE buf' = data /\ UNCHANGED <<pc, stream, left, got>>
    /\ UNCHANGED <<daemon, mode>>

\* frames_iter_no_tty's inner loop; a recoverable error only repeats the read.
ReadBody ==
    /\ pc = "body" /\ Socket
    /\ \E k \in 1..Len(wire) :
          /\ k <= left
          /\ wire' = Drop(wire, k)
          /\ left' = left - k
          /\ Yield(stream, Take(wire, k), IF left' = 0 THEN "frame" ELSE "body")
    /\ UNCHANGED <<daemon, mode, buf, stream>>

\* frames_iter_tty
ReadRaw ==
    /\ pc = "raw"
    /\ \E k \in 1..Len(wire) :
          /\ wire' = Drop(wire, k)
          /\ Yield(STDOUT, Take(wire, k), "raw")
    /\ UNCHANGED <<daemon, mode, buf, stream, left>>

\* A read returns nothing more: every loop over the socket ends quietly.
ReadEOF ==
    /\ pc \in {"frame", "body", "raw"} /\ Socket
    /\ wire = <<>> /\ ~Open
    /\ pc' = "done"
    /\ UNCHANGED <<daemon, mode, wire, buf, stream, left, got>>

\* A broken connection may also raise, a reset for instance.
ReadError ==
    /\ pc \in {"frame", "body", "raw"} /\ Socket
    /\ cut
    /\ pc' = "raised"
    /\ UNCHANGED <<daemon, mode, wire, buf, stream, left, got>>

(* read() returns None.  read_exactly takes that for end of file and       *)
(* next_frame_header for the end of the output; len(None) raises with a    *)
(* TTY; the payload's loop reads again.                                    *)
ReadNone ==
    /\ mode.recoverable /\ Socket
    /\ \/ pc = "frame" /\ pc' = "done"
       \/ pc = "raw" /\ pc' = "raised"
    /\ UNCHANGED <<daemon, mode, wire, buf, stream, left, got>>

\* _multiplexed_response_stream_helper: response.raw reads exactly, and
\* raises when the body is cut short.
ResponseHeader ==
    /\ pc = "frame" /\ ~Socket
    /\ Len(wire) >= HeaderSize
    /\ Unpack(Take(wire, HeaderSize))
    /\ wire' = Drop(wire, HeaderSize)
    /\ UNCHANGED <<daemon, mode>>

ResponseBody ==
    /\ pc = "body" /\ ~Socket
    /\ Len(wire) >= left
    /\ got' = [got EXCEPT !["joined"] = @ \o Take(wire, left)]
    /\ pc' = "frame"
    /\ wire' = Drop(wire, left)
    /\ left' = 0
    /\ UNCHANGED <<daemon, mode, buf, stream>>

ResponseEnd ==
    /\ ~Socket
    /\ \/ pc = "frame" /\ closed /\ wire = <<>> /\ pc' = "done"
       \/ /\ cut /\ pc' = "raised"
          /\ \/ pc = "frame" /\ Len(wire) < HeaderSize
             \/ pc = "body" /\ Len(wire) < left
    /\ UNCHANGED <<daemon, mode, wire, buf, stream, left, got>>

ReadSocket == ReadHeader \/ ReadBody \/ ReadRaw
ReadResponse == ResponseHeader \/ ResponseBody \/ ResponseEnd
Read == ParseHead \/ ReadSocket \/ ReadEOF \/ ReadError \/ ReadNone \/ ReadResponse

Next == Write \/ Close \/ Cut \/ Read

(* The caller iterates: a read that can return something returns.  Nothing *)
(* obliges the daemon to write or to close.                                *)
Spec == Init /\ [][Next]_vars
FairSpec == Spec /\ WF_vars(ParseHead) /\ WF_vars(ReadSocket) /\ WF_vars(ReadEOF)
                 /\ WF_vars(ReadResponse)

-----------------------------------------------------------------------------
(* Properties                                                              *)

ByteType == [kind : {"header", "payload"}, stream : Stream \union {STDOUT}, size : Nat]

\* Every variable has its type.
TypeOK ==
    /\ frames \in 0..MaxFrames
    /\ sent \in [Channel -> Seq(ByteType)] /\ got \in [Channel -> Seq(ByteType)]
    /\ wire \in Seq(ByteType)
    /\ closed \in BOOLEAN /\ cut \in BOOLEAN
    /\ mode \in Modes
    /\ pc \in {"head", "frame", "body", "raw", "done", "raised"}
    /\ buf \in Seq(ByteType) /\ Len(buf) < HeaderSize
    /\ stream \in Stream \union {STDOUT}
    /\ left \in 0..MaxPayload

(* read_exactly takes a recoverable error for the end of the output: in     *)
(* this mode nothing is promised about where the output ends.               *)
MayEndEarly == mode.recoverable /\ ~mode.tty

(* The output is the container's, in order, each byte once and on the      *)
(* right channel, whatever the reads return; and it is complete when it    *)
(* ends without an error, unless the connection broke or MayEndEarly.      *)
Ordered == INSTANCE OrderedOutput
           WITH state <- CASE pc = "done" -> "ended" [] pc = "raised" -> "failed"
                           [] OTHER -> "open",
                lossy <- cut \/ MayEndEarly
InOrder == Ordered!Spec

(* The output ends quietly only when there is nothing left to read and     *)
(* nothing can come any more: no frame, the empty one included, ends it.   *)
EndsOnlyAtEOF == pc = "done" /\ ~MayEndEarly => wire = <<>> /\ (closed \/ cut)

(* _read_from_socket: "Consume all data from the socket".                  *)
ConsumesAll == pc = "done" /\ closed => got = sent

\* Through the response, a connection cut short is never taken for the end.
CutIsReported == ~Socket /\ pc = "done" => closed /\ got = sent

(* The end of the output is what it seems: with the types, EndsOnlyAtEOF   *)
(* for the socket's readers and CutIsReported for the response's.          *)
EndsRightly == TypeOK /\ EndsOnlyAtEOF /\ CutIsReported

(* Output does not wait for the container to finish: bytes the daemon has  *)
(* sent reach the caller although the connection stays open.               *)
Prompt == \A c \in Channel \ {"invalid"}, n \in 1..(MaxFrames * MaxPayload) :
             (Len(sent[c]) >= n) ~> (Len(got[c]) >= n \/ cut \/ pc = "raised" \/ MayEndEarly)

\* When the daemon closes or the connection breaks, the reader finishes.
Terminates == (closed \/ cut) ~> (pc \in {"done", "raised"})
=============================================================================
