---------------------------- MODULE ContextStore ----------------------------
(***************************************************************************)
(* ContextAPI: the contexts that programs using docker-py create, select   *)
(* and remove in the files they share with the docker command line.        *)
(*                                                                         *)
(* A context is a metadata file and, for an endpoint with TLS, copies of   *)
(* three certificate files; the selected context is a field of the         *)
(* configuration file.  Nothing is locked and no file is replaced at once: *)
(* files are truncated and then written, an operation is a sequence of     *)
(* file operations, and a program may die, or a file operation fail,       *)
(* between any two of them.                                                *)
(***************************************************************************)
EXTENDS FiniteSets

CONSTANTS Process,      \* programs
          Name,         \* names of contexts, "default" not among them
          Host,         \* endpoints that contexts are created for
          Tls,          \* those of them that have certificates
          Unwritable,   \* the configuration file may refuse to be written
          None

Default == "default"
Torn == "torn"          \* a file that is truncated and not yet written
Absent == "absent"
CertFile == {"ca", "cert", "key"}

ASSUME ContextConstants ==
    /\ Tls \subseteq Host
    /\ Unwritable \in BOOLEAN
    /\ Default \notin Name
    /\ {Torn, Absent} \cap Host = {} /\ Torn \notin Name
    /\ None \notin Name \union Host \union {Default}

VARIABLES
    meta,         \* per name: meta.json, Absent, Torn or the endpoint in it
    certs,        \* per name: the files in the tls directory, each with its host
    current,      \* config.json's currentContext, Default without one, or Torn
    pc,           \* per program: what it does next
    op,           \* per program: "create", "select" or "remove"
    name,         \* per program: the context it works on
    host,         \* per program: the endpoint create_context was given
    linked,       \* per program: the metadata file it has opened still has a name
    interrupted,  \* history: names with an operation that stopped half-way
    contended     \* history: names that two operations worked on at once

files == <<meta, certs, current>>
history == <<interrupted, contended>>
call == <<op, name, host>>
vars == <<files, pc, call, linked, history>>

Init == /\ meta = [n \in Name |-> Absent]
        /\ certs = [n \in Name |-> {}]
        /\ current = Default
        /\ pc = [p \in Process |-> "idle"]
        /\ op = [p \in Process |-> None]
        /\ name = [p \in Process |-> None]
        /\ host = [p \in Process |-> None]
        /\ linked = [p \in Process |-> FALSE]
        /\ interrupted = {} /\ contended = {}

Goto(p, l) == pc' = [pc EXCEPT ![p] = l] /\ UNCHANGED call

\* The call returns or raises.
Return(p) == /\ pc' = [pc EXCEPT ![p] = "idle"]
             /\ op' = [op EXCEPT ![p] = None]
             /\ name' = [name EXCEPT ![p] = None]
             /\ host' = [host EXCEPT ![p] = None]

Begin(p, o, n, h) ==
    /\ pc[p] = "idle"
    /\ pc' = [pc EXCEPT ![p] = "load"]
    /\ op' = [op EXCEPT ![p] = o]
    /\ name' = [name EXCEPT ![p] = n]
    /\ host' = [host EXCEPT ![p] = h]
    /\ contended' = contended \union {x \in {n} : \E q \in Process : name[q] = n}
    /\ UNCHANGED <<files, linked, interrupted>>

-----------------------------------------------------------------------------
(* Loading, and create_context                                             *)

\* Seeded faults, here and below: variants in which a property must fail.

\* What load_context returns is not looked at.
LoadUnchecked(p) ==
    /\ pc[p] = "load"
    /\ Goto(p, CASE op[p] = "create" -> "open" [] op[p] = "select" -> "read"
                 [] OTHER -> "get current")
    /\ UNCHANGED <<files, linked, history>>

(* load_context finds no metadata file, one it can read, or one it cannot, *)
(* which raises; set_current_context("default") loads nothing.             *)
Load(p) ==
    /\ pc[p] = "load"
    /\ LET found == IF name[p] = Default THEN Default ELSE meta[name[p]]
       IN  \/ op[p] = "create" /\ found = Absent /\ Goto(p, "open")
           \/ op[p] = "select" /\ found \in Host \union {Default} /\ Goto(p, "read")
           \/ op[p] = "remove" /\ found \in Host /\ Goto(p, "get current")
           \/ op[p] = "create" /\ found # Absent /\ Return(p)
           \/ op[p] # "create" /\ found \in {Absent, Torn} /\ Return(p)
    /\ UNCHANGED <<files, linked, history>>

\* save(): open(get_meta_file(self.name), "w")
OpenMeta(p) ==
    /\ pc[p] = "open"
    /\ meta' = [meta EXCEPT ![name[p]] = Torn]
    /\ linked' = [linked EXCEPT ![p] = TRUE]
    /\ Goto(p, "write")
    /\ UNCHANGED <<certs, current, history>>

\* Seeded fault: the file is not closed before the certificates are copied.
WriteMetaUnflushed(p) ==
    /\ pc[p] = "write" /\ host[p] \in Tls /\ Goto(p, "ca")
    /\ UNCHANGED <<files, linked, history>>

(* The text goes to the file that was opened: perhaps one that has been    *)
(* removed since, or that somebody else has written, and whose longer text *)
(* then sticks out of this one.                                            *)
WriteMeta(p) ==
    /\ pc[p] = "write"
    /\ \E text \in {host[p]} \union (IF meta[name[p]] = Torn THEN {} ELSE {Torn}) :
          meta' = IF linked[p] THEN [meta EXCEPT ![name[p]] = text] ELSE meta
    /\ linked' = [linked EXCEPT ![p] = FALSE]
    /\ IF host[p] \in Tls THEN Goto(p, "ca") ELSE Return(p)
    /\ UNCHANGED <<certs, current, history>>

\* copyfile, one certificate file after the other
CopyCert(p) ==
    /\ pc[p] \in CertFile
    /\ certs' = [certs EXCEPT ![name[p]] =
                   {c \in @ : c[1] # pc[p]} \union {<<pc[p], host[p]>>}]
    /\ \/ pc[p] = "ca" /\ Goto(p, "cert")
       \/ pc[p] = "cert" /\ Goto(p, "key")
       \/ pc[p] = "key" /\ Return(p)
    /\ UNCHANGED <<meta, current, linked, history>>

-----------------------------------------------------------------------------
(* set_current_context and remove_context                                  *)

\* What follows when the configuration file has been dealt with.
AfterConfig(p) == IF op[p] = "remove" THEN Goto(p, "unlink") ELSE Return(p)

\* Seeded fault: the context is removed before it is deselected.
GetCurrentLate(p) ==
    /\ pc[p] = "get current"
    /\ meta' = [meta EXCEPT ![name[p]] = Absent]
    /\ Goto(p, IF current = name[p] THEN "read" ELSE "unlink")
    /\ UNCHANGED <<certs, current, linked, history>>

\* get_current_context_name: "default" if the file cannot be read.
GetCurrent(p) ==
    /\ pc[p] = "get current"
    /\ Goto(p, IF current = name[p] THEN "read" ELSE "unlink")
    /\ UNCHANGED <<files, linked, history>>

\* What the field is to become; None and "default" both mean no field.
Target(p) == IF op[p] = "remove" THEN Default ELSE name[p]

(* write_context_name_to_docker_config loads the file first; an error      *)
(* there is returned, and only set_current_context looks at it.            *)
ReadConfig(p) ==
    /\ pc[p] = "read"
    /\ IF current = Torn \/ (current = Default /\ Target(p) = Default)
       THEN AfterConfig(p)
       ELSE Goto(p, "truncate")
    /\ UNCHANGED <<files, linked, history>>

Truncate(p) ==
    /\ pc[p] = "truncate"
    /\ \/ current' = Torn /\ Goto(p, "store")
       \/ Unwritable /\ AfterConfig(p) /\ UNCHANGED current
    /\ UNCHANGED <<meta, certs, linked, history>>

\* json.dump; another program may have written the file since it was truncated.
Store(p) ==
    /\ pc[p] = "store"
    /\ current' \in {Target(p)} \union (IF current = Torn THEN {} ELSE {Torn})
    /\ AfterConfig(p)
    /\ UNCHANGED <<meta, certs, linked, history>>

\* Seeded fault: the certificates are left.
UnlinkOnly(p) ==
    /\ pc[p] = "unlink"
    /\ meta' = [meta EXCEPT ![name[p]] = Absent]
    /\ Return(p)
    /\ UNCHANGED <<certs, current, linked, history>>

\* remove(): rmtree(self.meta_path), whoever may have the file open ...
Unlink(p) ==
    /\ pc[p] = "unlink"
    /\ meta' = [meta EXCEPT ![name[p]] = Absent]
    /\ linked' = [q \in Process |-> linked[q] /\ name[q] # name[p]]
    /\ Goto(p, "rmtree tls")
    /\ UNCHANGED <<certs, current, history>>

\* ... and rmtree(self.tls_path)
RemoveCerts(p) ==
    /\ pc[p] = "rmtree tls"
    /\ certs' = [certs EXCEPT ![name[p]] = {}]
    /\ interrupted' = interrupted \ {name[p]}
    /\ Return(p)
    /\ UNCHANGED <<meta, current, linked, contended>>

-----------------------------------------------------------------------------
(* Failures                                                                *)

HalfWay == {"write", "rmtree tls"} \union CertFile

(* The program dies or one of its file operations raises OSError; a        *)
(* directory tree that was being removed may be left in part.              *)
Interrupt(p) ==
    /\ pc[p] # "idle"
    /\ IF pc[p] = "rmtree tls"
       THEN \E rest \in SUBSET certs[name[p]] : certs' = [certs EXCEPT ![name[p]] = rest]
       ELSE UNCHANGED certs
    /\ interrupted' = interrupted \union (IF pc[p] \in HalfWay THEN {name[p]} ELSE {})
    /\ linked' = [linked EXCEPT ![p] = FALSE]
    /\ Return(p)
    /\ UNCHANGED <<meta, current, contended>>

\* Somebody replaces a configuration file that cannot be read.
Repair ==
    /\ current = Torn /\ \A p \in Process : pc[p] # "store"
    /\ current' = Default
    /\ UNCHANGED <<meta, certs, pc, call, linked, history>>

Create(p) == \E n \in Name, h \in Host : Begin(p, "create", n, h)
Select(p) == \E n \in Name \union {Default} : Begin(p, "select", n, None)
Remove(p) == \E n \in Name : Begin(p, "remove", n, None)

Step(p) == \/ Load(p) \/ OpenMeta(p) \/ WriteMeta(p) \/ CopyCert(p)
           \/ GetCurrent(p) \/ ReadConfig(p) \/ Truncate(p) \/ Store(p)
           \/ Unlink(p) \/ RemoveCerts(p)

Next == \/ \E p \in Process : Create(p) \/ Select(p) \/ Remove(p) \/ Step(p) \/ Interrupt(p)
        \/ Repair

Spec == Init /\ [][Next]_vars

-----------------------------------------------------------------------------
(* Properties                                                              *)

\* Every variable has its type.
TypeOK ==
    /\ meta \in [Name -> Host \union {Absent, Torn}]
    /\ certs \in [Name -> SUBSET (CertFile \X Host)]
    /\ current \in Name \union {Default, Torn}
    /\ pc \in [Process -> {"idle", "load", "open", "get current", "read", "truncate", "store",
                           "unlink"} \union HalfWay]
    /\ op \in [Process -> {"create", "select", "remove", None}]
    /\ name \in [Process -> Name \union {Default, None}]
    /\ host \in [Process -> Host \union {None}]
    /\ linked \in [Process -> BOOLEAN]
    /\ interrupted \subseteq Name /\ contended \subseteq Name \union {Default}

(* The selected context exists, so that get_current_context returns "(Con- *)
(* text): current context object": programs that die anywhere, and others  *)
(* that work on other names, do not leave a selection of a context that    *)
(* was removed.                                                            *)
CurrentExists == current \in Name \ contended => meta[current] \in Host

Idle(n) == \A p \in Process : name[p] # n

(* A context has the certificates it was created with, all of them and no  *)
(* others, and what does not exist has none: the next context of the name  *)
(* does not inherit them.                                                  *)
CertsMatch ==
    \A n \in Name \ (contended \union interrupted) :
        Idle(n) => certs[n] = IF meta[n] \in Tls THEN CertFile \X {meta[n]} ELSE {}

\* A metadata file is unreadable only while it is written, or after a failure.
TornIsExplained ==
    \A n \in Name \ (contended \union interrupted) :
        meta[n] = Torn => \E p \in Process : name[p] = n /\ pc[p] = "write"

(* What is on the disk can be read and has its types, but for a file that  *)
(* TornIsExplained accounts for.                                           *)
Readable == TypeOK /\ TornIsExplained

(* ContextAlreadyExists: create_context never writes over a context, if    *)
(* nobody else works on the name between its test and its writing.         *)
NoOverwrite ==
    [][\A p \in Process : OpenMeta(p) /\ name[p] \notin contended => meta[name[p]] = Absent]_vars
=============================================================================
