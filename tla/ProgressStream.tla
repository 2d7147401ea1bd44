--------------------------- MODULE ProgressStream ---------------------------
(***************************************************************************)
(* Streams of JSON entries: events, and the progress of pull, push, build  *)
(* and load.  The entries arrive in chunks that need not agree with them;  *)
(* docker.utils.json_stream takes them apart, and each operation makes its *)
(* result of them.  The connection breaks, another thread closes the       *)
(* stream, other clients remove and retag images.                          *)
(***************************************************************************)
EXTENDS Naturals, Sequences

CONSTANTS Use,         \* the operations looked at
          Id,          \* images of build and load
          None,        \* Python's None
          MaxSent,     \* bound: entries of a stream
          MaxOthers    \* bound: steps of other clients

ASSUME ProgressConstants ==
    /\ Use \subseteq {"events", "push", "pull", "build", "load"}
    /\ None \notin Id /\ MaxSent \in Nat /\ MaxOthers \in Nat

(* What the consumers tell apart: an entry that says an image was made     *)
(* ("Successfully built", "Loaded image"), one in which a digest is only   *)
(* mentioned ("sha256:" at the end of a line), an error, and the others.   *)
Entry == [kind : {"made", "mention"}, id : Id]
         \union [kind : {"status", "error"}, id : {None}]

VARIABLES
    use,      \* the operation
    ssh,      \* the connection goes through SSH
    answer,   \* "none", "chunked"; with an error status "error", complete, or
              \* "message", one entry that is sent in chunks
    sent,     \* daemon: the entries it has written
    wire,     \* the connection: what has not been read, see Text
    line,     \* the connection: "open", "ended" or "cut"
    images,   \* daemon: the images there are
    tag,      \* daemon: what the name that is pulled stands for, or None
    pc,
    buffer,   \* split_buffer: buffered
    item,     \* the entry the generator yields
    got,      \* the entries it has yielded
    found,    \* the images the consumer has read of
    held,     \* the images it has looked up
    result,
    closed,   \* close() was not called, "no", has "returned" or "raised"
    bare,     \* history: the last chunk was white space
    others

daemon == <<sent, wire, line, images, tag, others>>
program == <<pc, buffer, item, got, found, held, result, bare>>
given == <<use, ssh>>
vars == <<given, answer, daemon, program, closed>>

Idle == pc = "idle"
Streamed == answer \in {"chunked", "message"}
Loader == {"build", "load"}

-----------------------------------------------------------------------------
(* The text: entry i is its two halves, <<i, 1>> and <<i, 2>>, and the line *)
(* end after it.                                                           *)

Space == <<0, 0>>
Text(i) == << <<i, 1>>, <<i, 2>>, Space >>

Take(s, k) == SubSeq(s, 1, k)
Drop(s, k) == SubSeq(s, k + 1, Len(s))

\* strip(), at the front
Strip(s) == IF s # <<>> /\ Head(s) = Space THEN Tail(s) ELSE s

\* raw_decode: an object begins where the text does.
Decodes(s) == Len(s) >= 2 /\ s[1] # Space /\ s[2] = <<s[1][1], 2>>

\* json_splitter: is there an object at the front of s, and what follows it.
Whole(s) == Decodes(Strip(s))
Rest(s) == Strip(Drop(Strip(s), 2))

-----------------------------------------------------------------------------
Init ==
    /\ use \in Use
    /\ ssh \in BOOLEAN /\ (use # "events" => ~ssh)
    /\ answer = "none" /\ sent = <<>> /\ wire = <<>> /\ line = "open"
    /\ images \in {{}, Id} /\ (use \notin Loader => images = {})
    /\ tag \in {None, "old"} /\ (use # "pull" => tag = None)
    /\ pc = "request" /\ buffer = <<>> /\ item = 0 /\ got = <<>>
    /\ found = <<>> /\ held = <<>> /\ result = "none"
    /\ closed = "no" /\ bare = FALSE /\ others = 0

Goto(l) == pc' = l /\ UNCHANGED result
Return(r) == pc' = "idle" /\ result' = r

\* Seeded fault: no exception is caught.
RaiseAll(e) == Return(e)

(* An exception leaves the generator.  CancellableStream turns those of    *)
(* the connection into the end of the iteration; APIError is an OSError    *)
(* too, StreamParseError is not.                                           *)
Raise(e) ==
    IF use = "events" /\ e \in {"ProtocolError", "OSError", "APIError"} THEN Return("ended")
    ELSE Return(e)

-----------------------------------------------------------------------------
(* The request.  Those that look at the status raise at once; the others   *)
(* make a generator that looks at it only if the answer is not in chunks.  *)

Ask(looks) ==
    /\ pc = "request"
    /\ \/ answer' = "chunked" /\ Goto("read")
       \/ /\ answer' \in {"error", "message"}
          /\ IF looks THEN Return("APIError") ELSE Goto("read")
       \/ Return("lost") /\ UNCHANGED answer
    /\ UNCHANGED <<given, daemon, buffer, item, got, found, held, bare, closed>>

Events == use = "events" /\ Ask(FALSE)
Build == use = "build" /\ Ask(FALSE)
Load == use = "load" /\ Ask(FALSE)
Pull == use = "pull" /\ Ask(TRUE)
Push == use = "push" /\ Ask(TRUE)

\* _stream_helper on a response that is not chunked.
ReadError ==
    /\ pc = "read" /\ answer = "error"
    /\ Raise("APIError")
    /\ UNCHANGED <<given, answer, daemon, buffer, item, got, found, held, bare, closed>>

\* Seeded fault: the chunk replaces what is buffered.
ReadChunkOver ==
    /\ pc = "read" /\ Streamed /\ wire # <<>>
    /\ \E k \in 1..Len(wire) :
          /\ buffer' = Take(wire, k)
          /\ wire' = Drop(wire, k)
          /\ bare' = (Take(wire, k) = <<Space>>)
    /\ Goto("split")
    /\ UNCHANGED <<given, answer, sent, line, images, tag, others, item, got, found, held, closed>>

\* _stream_helper: blocks until there is a chunk, which may end anywhere.
ReadChunk ==
    /\ pc = "read" /\ Streamed /\ wire # <<>>
    /\ \E k \in 1..Len(wire) :
          /\ buffer' = buffer \o Take(wire, k)
          /\ wire' = Drop(wire, k)
          /\ bare' = (Take(wire, k) = <<Space>>)
    /\ Goto("split")
    /\ UNCHANGED <<given, answer, sent, line, images, tag, others, item, got, found, held, closed>>

\* split_buffer's inner loop: everything that is complete, then the next chunk.
Split ==
    /\ pc = "split"
    /\ IF Whole(buffer)
       THEN /\ item' = Strip(buffer)[1][1]
            /\ got' = Append(got, sent[item'])
            /\ buffer' = Rest(buffer)
            /\ Goto("consume")
       ELSE Goto("read") /\ UNCHANGED <<item, got, buffer>>
    /\ UNCHANGED <<given, answer, daemon, found, held, bare, closed>>

\* The chunks have ended, what is left in the buffer is decoded.
EndOfStream ==
    /\ pc = "read" /\ Streamed /\ wire = <<>> /\ line = "ended"
    /\ IF buffer = <<>> THEN Goto("finish") ELSE Return("StreamParseError")
    /\ UNCHANGED <<given, answer, daemon, buffer, item, got, found, held, bare, closed>>

\* Seeded fault: the end of the connection is taken for the last chunk.
CutReadQuiet ==
    /\ pc = "read" /\ Streamed /\ wire = <<>> /\ line = "cut"
    /\ Goto("finish")
    /\ UNCHANGED <<given, answer, daemon, buffer, item, got, found, held, bare, closed>>

CutRead ==
    /\ pc = "read" /\ Streamed /\ wire = <<>> /\ line = "cut"
    /\ Raise("ProtocolError")
    /\ UNCHANGED <<given, answer, daemon, buffer, item, got, found, held, bare, closed>>

-----------------------------------------------------------------------------
(* What the operations do with an entry.                                   *)

\* Seeded fault: one entry of a chunk, then the next chunk.
HandedReads ==
    /\ pc = "consume" /\ use \notin Loader
    /\ Goto("read")
    /\ UNCHANGED <<given, answer, daemon, buffer, item, got, found, held, bare, closed>>

\* pull ignores the entries, events and push hand them on.
Handed ==
    /\ pc = "consume" /\ use \notin Loader
    /\ Goto("split")
    /\ UNCHANGED <<given, answer, daemon, buffer, item, got, found, held, bare, closed>>

\* ImageCollection.build: the last match is the image.
BuildReads ==
    /\ pc = "consume" /\ use = "build"
    /\ IF sent[item].kind = "error" THEN Return("BuildError") /\ UNCHANGED found
       ELSE /\ found' = IF sent[item].id = None THEN found ELSE <<sent[item].id>>
            /\ Goto("split")
    /\ UNCHANGED <<given, answer, daemon, buffer, item, got, held, bare, closed>>

\* ImageCollection.load: every match is an image.
LoadReads ==
    /\ pc = "consume" /\ use = "load"
    /\ IF sent[item].kind = "error" THEN Return("ImageLoadError") /\ UNCHANGED found
       ELSE /\ found' = IF sent[item].kind = "made" THEN Append(found, sent[item].id)
                        ELSE found
            /\ Goto("split")
    /\ UNCHANGED <<given, answer, daemon, buffer, item, got, held, bare, closed>>

\* The iteration is over.
Finish ==
    /\ pc = "finish"
    /\ CASE use = "build" -> IF found = <<>> THEN Return("BuildError") ELSE Goto("get")
         [] use \in {"load", "pull"} -> Goto("get")
         [] OTHER -> Return("ended")
    /\ UNCHANGED <<given, answer, daemon, buffer, item, got, found, held, bare, closed>>

\* ImageCollection.get, of one image after the other, or of the name.
Get ==
    /\ pc = "get"
    /\ IF use = "pull" THEN Return(IF tag = None THEN "ImageNotFound" ELSE tag) /\ UNCHANGED held
       ELSE IF held = found THEN Return("ok") /\ UNCHANGED held
       ELSE LET i == found[Len(held) + 1] IN
            IF i \in images THEN held' = Append(held, i) /\ UNCHANGED <<pc, result>>
            ELSE Return("ImageNotFound") /\ UNCHANGED held
    /\ UNCHANGED <<given, answer, daemon, buffer, item, got, found, bare, closed>>

GetLost ==
    /\ pc = "get"
    /\ Return("lost")
    /\ UNCHANGED <<given, answer, daemon, buffer, item, got, found, held, bare, closed>>

-----------------------------------------------------------------------------
(* The daemon, the connection, another thread, other clients.              *)

Tells(k) == {i \in DOMAIN sent : sent[i].kind = k}
HasError == Tells("error") # {}

\* An error is the last entry, and the image of a build the last but for nothing.
Write ==
    /\ Streamed /\ line = "open" /\ Len(sent) < MaxSent
    /\ answer = "message" => sent = <<>>
    /\ ~HasError /\ (use = "build" => Tells("made") = {})
    /\ \E e \in Entry :
          /\ answer = "message" => e.kind = "status"
          /\ e.kind = "made" => use \in Loader
          /\ e.kind = "mention" => use = "build"
          /\ sent' = Append(sent, e)
          /\ images' = IF e.kind = "made" THEN images \union {e.id} ELSE images
    /\ wire' = wire \o Text(Len(sent'))
    /\ UNCHANGED <<given, answer, line, tag, others, program, closed>>

\* The daemon ends the stream when it has done what was asked, or said why not.
Done ==
    /\ Streamed /\ line = "open"
    /\ answer = "message" => sent # <<>>
    /\ answer = "chunked" /\ use = "build" => HasError \/ Tells("made") # {}
    /\ line' = "ended"
    /\ tag' = IF use = "pull" /\ answer = "chunked" /\ ~HasError THEN "new" ELSE tag
    /\ UNCHANGED <<given, answer, sent, wire, images, others, program, closed>>

\* What was under way is lost, or a part of it.
Cut ==
    /\ Streamed /\ line = "open"
    /\ line' = "cut"
    /\ \E k \in 0..Len(wire) : wire' = Take(wire, k)
    /\ UNCHANGED <<given, answer, sent, images, tag, others, program, closed>>

\* The response has been read to its end.
Exhausted == pc \in {"finish", "idle"}

(* CancellableStream.close: shutdown of the socket, of a response that has *)
(* not ended.  Over SSH there is no such socket: it raises, DockerException *)
(* over paramiko, UnboundLocalError over the ssh program, and the iteration *)
(* goes on.                                                                *)
Close ==
    /\ use = "events" /\ answer # "none" /\ closed = "no"
    /\ IF ssh /\ ~Exhausted THEN closed' = "raised" /\ UNCHANGED <<line, wire>>
       ELSE /\ closed' = "returned"
            /\ IF line = "open" /\ Streamed
               THEN line' = "cut" /\ \E k \in 0..Len(wire) : wire' = Take(wire, k)
               ELSE UNCHANGED <<line, wire>>
    /\ UNCHANGED <<given, answer, sent, images, tag, others, program>>

Others ==
    /\ others < MaxOthers
    /\ \/ \E i \in images : images' = images \ {i} /\ UNCHANGED tag
       \/ tag # None /\ tag' = None /\ UNCHANGED images
    /\ others' = others + 1
    /\ UNCHANGED <<given, answer, sent, wire, line, program, closed>>

Read == ReadError \/ ReadChunk \/ Split \/ EndOfStream \/ CutRead \/ Handed \/ BuildReads
        \/ LoadReads \/ Finish \/ Get

Request == Events \/ Build \/ Load \/ Pull \/ Push

Next == Request \/ Read \/ GetLost \/ Write \/ Done \/ Cut \/ Close \/ Others

Spec == Init /\ [][Next]_vars /\ WF_vars(Read)

-----------------------------------------------------------------------------
(* Properties                                                              *)

\* Every variable has its type.
TypeOK ==
    /\ use \in Use /\ ssh \in BOOLEAN /\ answer \in {"none", "chunked", "error", "message"}
    /\ sent \in Seq(Entry) /\ got \in Seq(Entry) /\ item \in 0..Len(sent)
    /\ \A s \in {wire, buffer} :
          s \in Seq({Space} \union ((1..MaxSent) \X {1, 2}))
    /\ line \in {"open", "ended", "cut"}
    /\ images \subseteq Id /\ tag \in {None, "old", "new"}
    /\ pc \in {"request", "read", "split", "consume", "finish", "get", "idle"}
    /\ found \in Seq(Id) /\ held \in Seq(Id)
    /\ result \in {"none", "ended", "ok", "old", "new", "lost", "APIError", "ProtocolError",
                   "StreamParseError", "BuildError", "ImageLoadError", "ImageNotFound"}
    /\ closed \in {"no", "returned", "raised"} /\ bare \in BOOLEAN /\ others \in 0..MaxOthers

(* The entries are yielded once, in order, and all of them unless the      *)
(* connection broke: json_stream delivers what OrderedOutput promises.     *)
State == IF ~Idle THEN "open"
         ELSE IF result \in {"ended", "ok", "old", "new", "ImageNotFound"} THEN "ended" ELSE "failed"

Promise == INSTANCE OrderedOutput WITH
    Channel <- {"entries"},
    sent <- [c \in {"entries"} |-> sent],
    got <- [c \in {"entries"} |-> got],
    state <- State,
    lossy <- (line = "cut")
Implements == Promise!Spec

(* The program waits for a chunk only when it has been given every entry   *)
(* that has arrived: no event is held back until the next one.             *)
Arrived(i) == \A k \in DOMAIN wire : wire[k][1] # i
Prompt ==
    pc = "read" /\ line = "open" => \A i \in DOMAIN sent : Arrived(i) => i <= Len(got)

(* Nothing but the end that the daemon gave the stream is success: not a   *)
(* broken connection, not an error among the entries of build or load.     *)
SuccessIsWhole ==
    Idle /\ result \in {"ok", "old", "new"} =>
        line = "ended" /\ got = sent /\ (use \in Loader => ~HasError)

\* Positions in the order of the stream.
Increasing(f) == \A j, k \in DOMAIN f : j < k => f[j] < f[k]

(* build returns the image that was made, whatever digests the commands of *)
(* the build printed, and load every image, in the order of the stream.    *)
ReturnsWhatWasMade ==
    Idle /\ result = "ok" =>
        \E f \in [DOMAIN held -> Tells("made")] :
            /\ Increasing(f) /\ \A i \in Tells("made") : \E j \in DOMAIN held : f[j] = i
            /\ \A j \in DOMAIN held : held[j] = sent[f[j]].id

(* A stream the daemon completed without an error fails for no reason of   *)
(* the reader's, except when its last line end comes in a chunk of its own. *)
FailsForAReason ==
    Idle /\ answer = "chunked" /\ line = "ended" /\ ~HasError =>
        \/ result \in {"ended", "ok", "old", "new", "lost", "ImageNotFound"}
        \/ result = "StreamParseError" /\ bare

(* A result is true: whole (SuccessIsWhole) and of this very operation     *)
(* (ReturnsWhatWasMade).                                                   *)
ResultIsTrue == SuccessIsWhole /\ ReturnsWhatWasMade

(* The reader keeps nothing back and invents no failure: the types, Prompt *)
(* and FailsForAReason together.                                           *)
ReadsFaithfully == TypeOK /\ Prompt /\ FailsForAReason

(* close() from another thread, when it returns, ends the iteration as if  *)
(* the daemon had ended the stream; over SSH it raises instead and ends    *)
(* nothing.  Every operation ends with its connection.                     *)
CloseEnds ==
    /\ (closed = "returned" /\ line = "cut") ~> (Idle /\ result = "ended")
    /\ (line # "open") ~> Idle

(* "Raises APIError If the server returns an error" (docker/api/daemon.py, *)
(* events).                                                                *)
EventsRaise ==
    use = "events" /\ answer = "error" /\ Idle => result = "APIError"
=============================================================================
