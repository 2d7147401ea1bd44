---------------------------- MODULE BuildContext ----------------------------
(***************************************************************************)
(* The context of a build: APIClient.build reads .dockerignore, walks the  *)
(* directory with PatternMatcher, and packs what is left, and a Dockerfile *)
(* from elsewhere, into an archive.  Other programs change the directory   *)
(* meanwhile.                                                              *)
(*                                                                         *)
(* A path is the sequence of its names, a pattern that of its components.  *)
(***************************************************************************)
EXTENDS Naturals, Sequences, FiniteSets

CONSTANTS Path,       \* the paths there may be
          Dir, Link,  \* names of directories, and of links to directories
          Sockets,    \* names of sockets
          Dockerfile, Dockerignore, Temp,   \* names: Temp is ".dockerfile.<random>"
          Begins,     \* pairs of names of which the first begins the second
          Trees,      \* contents of the directory when the build begins
          Ignores,    \* contents of .dockerignore
          Dockerfiles,\* the dockerfile argument: a path, <<>> for none, Outside
          MaxOthers   \* bound: changes by other programs

Outside == <<"..">>   \* a Dockerfile that is not in the directory

BaseName(p) == p[Len(p)]
Parent(p) == SubSeq(p, 1, Len(p) - 1)
Closed(tree) == \A p \in tree : Len(p) = 1 \/ (Parent(p) \in tree /\ BaseName(Parent(p)) \in Dir)

ASSUME ContextConstants ==
    /\ Path \subseteq Seq(STRING) \ {<<>>} /\ Dockerfiles \subseteq Seq(STRING)
    /\ {Dockerfile, Dockerignore, Temp} \subseteq STRING /\ Temp # Dockerignore
    /\ Ignores \subseteq Seq([exclusion : BOOLEAN, dirs : Seq(STRING)])
    /\ Dir \intersect Link = {}
    /\ {Dockerfile, Dockerignore, Temp} \intersect (Dir \union Link \union Sockets) = {}
    /\ Dir \intersect Sockets = {} /\ \A d \in Dockerfiles \ {<<>>} : BaseName(d) \notin Sockets
    /\ \A tree \in Trees : tree \subseteq Path /\ Closed(tree)
    /\ <<Dockerfile>> \in Path /\ <<Dockerignore>> \in Path
    /\ MaxOthers \in Nat

VARIABLES context,   \* the directory: the paths there are
          ignore,    \* what .dockerignore says
          dockerfile,\* the argument of build
          stage,     \* build: what it does next
          patterns,  \* PatternMatcher.patterns
          agenda,    \* rec_walk: paths listed and not yet looked at
          entering,  \* rec_walk: the directory it will list next, if any
          files,     \* what the walk yielded, then what is left to pack
          yielded,   \* history: what the walk yielded
          archive,   \* the names in the archive
          touched,   \* history: what others have changed
          others

argument == <<ignore, dockerfile>>
buildVars == <<context, argument, stage, patterns, agenda, entering, files, yielded, archive,
               touched, others>>

-----------------------------------------------------------------------------
(* Patterns                                                                *)

Wild == {"*", "**"}
Pattern(p) == [exclusion |-> FALSE, dirs |-> p]
Exception(p) == [exclusion |-> TRUE, dirs |-> p]

(* fnmatch: "*" is one name, "**" any number of them, at the end at least  *)
(* one.  at[i] is where component i of the pattern begins in the path.     *)
Match(dirs, p) ==
    \E at \in [1..Len(dirs) + 1 -> 1..Len(p) + 1] :
        /\ at[1] = 1 /\ at[Len(dirs) + 1] = Len(p) + 1
        /\ \A i \in 1..Len(dirs) :
              IF dirs[i] = "**" THEN at[i] <= at[i + 1] /\ (i = Len(dirs) => at[i] < at[i + 1])
              ELSE at[i + 1] = at[i] + 1 /\ dirs[i] \in {"*", p[at[i]]}

\* Does the pattern match p, or the ancestor of p that has as many names;
\* PatternMatcher.__init__ drops patterns without components.
Hits(pattern, p) ==
    /\ pattern.dirs # <<>>
    /\ \/ Match(pattern.dirs, p)
       \/ /\ Len(pattern.dirs) < Len(p)
          /\ Match(pattern.dirs, SubSeq(p, 1, Len(pattern.dirs)))

\* PatternMatcher.matches: the last of the patterns decides.
Decides(hits) ==
    hits # {} /\ ~patterns[CHOOSE i \in hits : \A j \in hits : j <= i].exclusion

Matches(p) == Decides({i \in DOMAIN patterns : Hits(patterns[i], p)})

\* cleaned_pattern.startswith(fpath), which compares text.
StartsWith(dirs, p) ==
    /\ Len(p) <= Len(dirs)
    /\ Parent(p) = SubSeq(dirs, 1, Len(p) - 1)
    /\ BaseName(p) = dirs[Len(p)] \/ <<BaseName(p), dirs[Len(p)]>> \in Begins

\* Seeded fault: a directory that matches is not entered.
EntersUnmatched(p) == ~Matches(p)

\* A directory that matches is entered only for an exception below it.
Enters(p) ==
    Matches(p) => \E i \in DOMAIN patterns :
                      patterns[i].exclusion /\ StartsWith(patterns[i].dirs, p)

-----------------------------------------------------------------------------
BuildInit ==
    /\ context \in Trees
    /\ ignore \in Ignores
    /\ dockerfile \in Dockerfiles
    /\ stage = "start"
    /\ patterns = <<>> /\ agenda = {} /\ entering = {}
    /\ files = {} /\ yielded = {} /\ archive = <<>>
    /\ touched = {} /\ others = 0

Children(p) == {q \in context : Len(q) = Len(p) + 1 /\ Parent(q) = p}

\* The name of the Dockerfile in the archive, see process_dockerfile.
Named == CASE dockerfile = Outside -> <<Temp>>
           [] dockerfile = <<>> -> <<Dockerfile>>
           [] OTHER -> dockerfile

\* Seeded fault: no exception for the Dockerfile.
StartPlain ==
    /\ stage = "start"
    /\ patterns' = (IF <<Dockerignore>> \in context THEN ignore ELSE <<>>)
                   \o << Exception(<<Dockerignore>>) >>
    /\ agenda' = Children(<<>>)
    /\ stage' = "walk"
    /\ UNCHANGED <<context, argument, entering, files, yielded, archive, touched, others>>

\* build, tar, exclude_paths: two exceptions are added.
Start ==
    /\ stage = "start"
    /\ patterns' = (IF <<Dockerignore>> \in context THEN ignore ELSE <<>>)
                   \o << Exception(Named), Exception(<<Dockerignore>>) >>
    /\ agenda' = Children(<<>>)
    /\ stage' = "walk"
    /\ UNCHANGED <<context, argument, entering, files, yielded, archive, touched, others>>

\* build, process_dockerfile: .dockerignore, or a Dockerfile from elsewhere,
\* is there and cannot be read.
Unreadable ==
    /\ stage = "start" /\ (<<Dockerignore>> \in context \/ dockerfile = Outside)
    /\ stage' = "raised"
    /\ UNCHANGED <<context, argument, patterns, agenda, entering, files, yielded, archive, touched,
                   others>>

\* rec_walk: a path that was listed, in some order; nothing is asked of the
\* disk but whether it is a directory now.
Visit ==
    /\ stage = "walk" /\ agenda # {} /\ entering = {}
    /\ LET p == CHOOSE q \in agenda : TRUE
           new == IF Matches(p) THEN {} ELSE {p}
       IN  /\ files' = files \union new /\ yielded' = yielded \union new
           /\ agenda' = agenda \ {p}
           /\ entering' = IF p \in context /\ BaseName(p) \in Dir /\ Enters(p) THEN {p} ELSE {}
    /\ UNCHANGED <<context, argument, stage, patterns, archive, touched, others>>

\* rec_walk of a directory: os.listdir fails if it has gone since isdir.
List ==
    /\ stage = "walk"
    /\ \E p \in entering :
          \/ /\ p \in context /\ UNCHANGED stage
             /\ agenda' = agenda \union Children(p) /\ entering' = {}
          \/ p \notin context /\ stage' = "raised" /\ UNCHANGED <<agenda, entering>>
    /\ UNCHANGED <<context, argument, patterns, files, yielded, archive, touched, others>>

Walked ==
    /\ stage = "walk" /\ agenda = {} /\ entering = {}
    /\ stage' = "pack"
    /\ UNCHANGED <<context, argument, patterns, agenda, entering, files, yielded, archive, touched,
                   others>>

Extra == IF dockerfile = Outside THEN {<<Dockerignore>>, <<Temp>>} ELSE {}

Skipped(p) == p \in Extra \/ (p \in context /\ BaseName(p) \in Sockets)

\* Seeded fault: what is gone is left out like a socket.
PackWhatIsLeft ==
    /\ stage = "pack" /\ files # {}
    /\ LET p == CHOOSE q \in files : TRUE IN
          /\ archive' = IF p \in context /\ ~Skipped(p) THEN Append(archive, p) ELSE archive
          /\ files' = files \ {p}
    /\ UNCHANGED <<context, argument, stage, patterns, agenda, entering, yielded, touched, others>>

\* create_archive, in the order of the names: gettarinfo answers None for a
\* socket, and fails at a file that is gone.
Pack ==
    /\ stage = "pack" /\ files # {}
    /\ LET p == CHOOSE q \in files : TRUE IN
          /\ \/ Skipped(p) /\ UNCHANGED <<stage, archive>>
             \/ p \in context /\ ~Skipped(p) /\ archive' = Append(archive, p) /\ UNCHANGED stage
             \/ p \notin context /\ ~Skipped(p) /\ stage' = "raised" /\ UNCHANGED archive
          /\ files' = files \ {p}
    /\ UNCHANGED <<context, argument, patterns, agenda, entering, yielded, touched, others>>

\* The extra files, and the end of the archive.
Close ==
    /\ stage = "pack" /\ files = {}
    /\ archive' = archive \o (IF Extra = {} THEN <<>> ELSE << <<Dockerignore>>, <<Temp>> >>)
    /\ stage' = "done"
    /\ UNCHANGED <<context, argument, patterns, agenda, entering, files, yielded, touched, others>>

\* Another program makes or removes something, and all that is below it.
Others ==
    /\ stage \in {"walk", "pack"} /\ others < MaxOthers
    /\ \E p \in Path :
          LET below == {q \in context : Len(q) >= Len(p) /\ SubSeq(q, 1, Len(p)) = p} IN
          /\ context' = IF p \in context THEN context \ below ELSE context \union {p}
          /\ Closed(context')
          /\ touched' = touched \union below \union {p}
    /\ others' = others + 1
    /\ UNCHANGED <<argument, stage, patterns, agenda, entering, files, yielded, archive>>

BuildNext == Start \/ Unreadable \/ Visit \/ List \/ Walked \/ Pack \/ Close \/ Others

BuildSpec == BuildInit /\ [][BuildNext]_buildVars

-----------------------------------------------------------------------------
(* Properties                                                              *)

Archived == {archive[i] : i \in DOMAIN archive}

\* Every variable has its type.
BuildTypeOK ==
    /\ context \subseteq Path /\ Closed(context) /\ ignore \in Ignores /\ dockerfile \in Dockerfiles
    /\ stage \in {"start", "walk", "pack", "done", "raised"}
    /\ agenda \subseteq Path /\ entering \subseteq Path /\ files \subseteq Path
    /\ yielded \subseteq Path /\ touched \subseteq Path
    /\ archive \in Seq(Path \union {<<Temp>>}) /\ others \in 0..MaxOthers

(* A name is in the archive once, the generated files replace those of the *)
(* context; and a build whose files are removed under it does not pack     *)
(* less than the walk found, sockets apart: it fails.                      *)
OneEntryEach ==
    /\ BuildTypeOK
    /\ \A i, j \in DOMAIN archive : archive[i] = archive[j] => i = j
    /\ stage = "done" => /\ Extra \subseteq Archived
                         /\ {p \in yielded : BaseName(p) \notin Sockets} \subseteq Archived

(* The rule of .dockerignore: the last pattern that matches a path, or a   *)
(* directory it is in, decides.                                            *)
AnyHit(pattern, p) == \E n \in 1..Len(p) : Match(pattern.dirs, SubSeq(p, 1, n))
Ignored(p) == Decides({i \in DOMAIN patterns : AnyHit(patterns[i], p)})

(* The patterns for which the walk is known to follow the rule: exceptions *)
(* have no wildcard; and none leads into a directory if there is a "**",   *)
(* which matches ancestors of other lengths than Hits tries.               *)
Simple ==
    /\ \A i \in DOMAIN patterns : \A k \in DOMAIN patterns[i].dirs :
           patterns[i].exclusion => patterns[i].dirs[k] \notin Wild
    /\ \/ \A i \in DOMAIN patterns : \A k \in DOMAIN patterns[i].dirs :
              patterns[i].dirs[k] # "**"
       \/ \A i \in DOMAIN patterns, p \in Path :
              patterns[i].exclusion /\ BaseName(p) \in Dir => ~StartsWith(patterns[i].dirs, p)

(* The archive has what the rule does not ignore, and nothing else,        *)
(* although directories that match are mostly not entered; what others     *)
(* change meanwhile may be missed, and sockets are left out.               *)
SendsWhatIsNotIgnored ==
    stage = "done" /\ Simple =>
        /\ \A p \in Archived \ Extra : ~Ignored(p)
        /\ \A p \in context \ touched : ~Ignored(p) /\ BaseName(p) \notin Sockets => p \in Archived

(* The Dockerfile and .dockerignore are sent whatever the patterns say,    *)
(* wildcards included, wherever in the context the Dockerfile is.          *)
NeededIsSent ==
    stage = "done" =>
        {Named, <<Dockerignore>>} \intersect (context \ touched) \subseteq Archived
=============================================================================
