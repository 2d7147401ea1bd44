# TLA+ models of docker-py

docker-py is the Python client of the Docker Engine: a program calls it, it
sends HTTP requests to a daemon over a Unix socket, a Windows pipe, TCP or SSH,
and it reads answers and streams.  The library keeps little state, but what it
keeps is shared and gets old: cached attributes of services, pools of
connections, a file system full of contexts, registry credentials, half-read frames
and entries of streams.  The daemon, other clients and other threads change things
between any two of its steps.  This
project models those parts, checks them with TLC on small instances, and proves
with TLAPS what is most worth knowing for all of them.

Every definition is a translation of the source; `PROJECT.json` ("map") names the
lines each one stands for.  Definitions under a comment "Seeded fault" are
deliberately wrong variants of another definition, one for each property of a run:
with the fault in place of the original the property must fail, which shows that
it depends on that code.

## 1. Inventory

| component | source (under `src/docker/`) | state it keeps | operations | hard behaviour | what makes it correct |
|---|---|---|---|---|---|
| Services | `models/services.py`, `models/resource.py`, `api/service.py`, `types/services.py` | `Model.attrs`, a snapshot of the service and its version | update, scale, reload, remove | defaults from a stale snapshot, merge into a fresher inspection, lost answers, objects shared by threads, other clients | the daemon's version check makes update one step; no setting the caller did not name is undone |
| Container output | `utils/socket.py`, `api/client.py` (330-530) | a partly read frame, the buffered reader of the response | attach, logs, exec: read, demultiplex, join | reads of any length, recoverable errors, cut connections, read-ahead | order, channel, completeness, promptness, termination |
| Transport adapters | `transport/*.py` | a bounded container of pools per URL, the SSH client's transport | `get_connection`, `close`, `_get_conn`, connect | threads, eviction, close against lookup, dead transports | no pool forgotten or made twice, the lock released, close ends |
| Running a container | `models/containers.py` (851-912), `api/container.py` | local variables of `run` between requests | create, pull, create again, get, start, logs, wait, logs, remove | the container's exit, `auto_remove`, other clients, lost requests | what `run` reports is true, nothing is left behind |
| Contexts | `context/*.py` | files: metadata, certificates, `config.json` | create, select, remove, load | several programs, crashes, non-atomic files | the selection exists, certificates belong to their context |
| Controlling a container | `models/containers.py`, `api/container.py`, `api/exec_api.py` | the response that is open | start, stop, restart, kill, pause, ..., wait, exec_run, logs, attach, commit, remove | two timeouts, lost answers, the container ending at any moment | the client outlasts the daemon, exec's output and code belong together, calls can be repeated and end |
| Objects and collections | `models/resource.py`, `models/*.py`, `api/*.py` | `Model.attrs` of one object | get, create, list, reload, rename, remove, prune; plugins: install, enable, configure, upgrade | names that pass to other objects, removal between listing and inspection, lost answers | an object never comes to stand for another, lists miss nothing |
| Registry credentials | `auth.py`, `api/daemon.py`, `api/build.py`, `credentials/*.py` | `APIClient._auth_configs`, credential stores | login, resolve, reload, the headers of pulls and builds | entries that shadow each other, threads, the command line writing the same file | the newest login is the one that is used, each registry gets its own |
| Event and JSON streams | `utils/json_stream.py`, `types/daemon.py`, `models/images.py` | a buffer of undecoded text | events, push, pull, build, load; close | chunks cut anywhere, broken connections, close in another thread | entries once, in order and at once; success only of a whole stream, and of build and load only without an error in it |
| Build contexts | `utils/build.py`, `utils/fnmatch.py`, `api/build.py` | patterns of `.dockerignore`, the walk | walk, match, pack | exceptions below ignored directories, files that go away while packed | a file is sent exactly if the last pattern that matches says so; the Dockerfile always; what goes away is missed loudly |
| Windows pipes | `transport/npipesocket.py` | handle, closed flag, timeout | connect, recv, send, close, dup | a busy pipe | retries are bounded |
| Swarm | `api/swarm.py`, `models/swarm.py` | a snapshot like that of services | init, join, leave, unlock, update | stale versions | as for services |
| Client and versions | `client.py`, `api/client.py`, `utils/decorators.py`, `tls.py` | adapter, API version | construction, guards | - | - |
| Types, conversions | `types/*.py`, `utils/*.py` | none | construction of request bodies | - | unit tests |

How they interact.  Every operation of a model object (`Service`, `Container`)
calls `APIClient` methods, each of which is one HTTP request through an adapter
and raises `APIError` or one of its subclasses for an error answer.  Objects cache
the last inspection in `attrs`; `reload()` replaces it.  Streams are generators
over an open response, or over the socket taken from under it; they hold a
connection of a pool.  `ContextAPI` and `auth` read and write `config.json`, which
the docker command line writes too.  No component calls back into another; what
they share is the daemon, the pools and the files.

The main hazards are in `PROJECT.json`, each at the line where it bites, with the
properties that watch it or the reason why none does yet.  Smaller ones met on the
way, which no model needs: `update(constraints=...)` replaces the whole placement
(services.py:359-363); a `rollback_config` under API 1.28 without `update_config`
raises `TypeError` (api/service.py:35); `Service.tasks` writes into the caller's
filters (services.py:55); with `use_ssh_client` every request makes a pool no
container holds (sshconn.py:221); `_get_conn` of the pipe and SSH pools hands out
connections the daemon may have dropped (npipeconn.py:45); the response of `logs`
is never closed when the inspection after it fails (api/client.py:483);
certificates whose names do not begin with ca, cert and key are saved with a context
and never loaded (context/context.py:130); `contexts()` may list `None`
(context/api.py:124).

## 2. Plan

The order follows the weight of what can go wrong.  Parts 1 to 11 exist.

1. `VersionedSpec` (abstract) and `ServiceUpdate` (detailed): the read-modify-write
   that the whole swarm API rests on.
2. `OrderedOutput` (abstract) and `FrameStream` (detailed): reading output.
3. `AdapterPools`: threads and connection pools.
4. `ContainerRun`: the longest protocol in the library.
5. `ContextStore`: files, several programs, crashes.
6. `RegistryAuth`: login, resolution order, credential stores, reload.
7. `ModelObjects`: the eight kinds of objects and their collections.
8. `ContainerControl`: timeouts, repeated calls, wait, exec.
9. `ProgressStream`, a second refinement of `OrderedOutput`: streams of entries.
10. `BuildContext`: pattern matching and the walk against the rule of the last
    pattern; no recursion at all, so that lemmas about patterns can be proved.
11. Proofs: every safety property that a run checks, with the three refinements, is
    proved (section 5); liveness is left to TLC.
12. A composition of `ContextStore` and `RegistryAuth`, which share `config.json`, in
    which a context switch that loses a login can be stated.

Runs are one per question.  A module with several variants of one actor (ways of
reading, options of `run`) lets TLC choose the variant in the initial state instead
of having a run for each: the kinds of `ModelObjects`, the operations of
`ProgressStream`, the `.dockerignore` files of `BuildContext`, the API versions of
`ServiceUpdate`.  The type invariant of a module is a conjunct of one of its safety
properties, and properties that would fail together are stated as one conjunction of
named parts.

## 3. Modules and code

### ServiceUpdate, VersionedSpec

`spec`, `version`, `exists` are the daemon's service; `attrs[o]` is `Model.attrs` of
one Service object; `Obj` says which thread uses which object; `call`, `ver`, `cur`
are the local variables of one call.  A `Service.update` is the sequence
`BeginUpdate`, `ReadImage` (services.py:70-72), `ReadForce` (:74-77),
`ReadVersion` (:83 and `_check_api_features`), `Inspect`
(service.py:412-421) and the POST, which the daemon answers with `Accept`
or `Reject`, or which is lost before (`Lose`) or after it took effect (`Accept`:
the caller cannot tell, so no second action is needed).  `Body` is the request
body: `_merge_task_template`, the "is None" tests and the move of networks that an
old client stored beside the task template.  `reload` is two steps, the request
and the assignment.  A thread in `Modern` has a client of an API version that knows
networks in the task template; of the tests in `_check_api_features` only that of
`force_update` is modelled.

In the run every thread has a Service object of its own.  What can happen to one that
threads share is a hazard no property of a passing run covers: two reloads of it may
assign in the other order, so that `attrs` go back (resource.py:47), and an update may
be lost (`ServiceUpdateShared.cfg`).

Settings are abstracted to the ones that differ in treatment: the image (default
from the snapshot), the mode (scale), the networks (two places), the force-update
counter, and `Plain`, all those copied alike.  A setting is present with a value or
absent (`None`).  Placement is one setting, as it is for `update_service`.

`VersionedSpec` knows only the settings callers see and three kinds of whole
updates: override some settings, replace all of them (`fetch_current_spec=False`),
scale; `Implements` says that ServiceUpdate does nothing else, with
`Visible(spec.settings)` as the refinement mapping.

### FrameStream, OrderedOutput

The daemon writes frames onto `wire`; every byte is a record that tells which frame
announced it, or its place in its channel, so that a lost, doubled or misplaced
byte is visible.  A step of the reader takes any part of what it asked for
(`ReadHeader`, `ReadBody`, `ReadRaw`), end of file (`ReadEOF`), an error
(`ReadError`) or the `None` that `read` returns for a recoverable error
(`ReadNone`).  `mode` is chosen initially: through the socket or the response,
demultiplexed or joined, with a terminal, with recoverable errors.  Through the socket
`Yield` goes to the frame's channel or, with `demux=False`, to the one channel `joined`;
only `demux_adaptor` refuses other streams than 1 and 2 (`invalid`).  The response's
reader (`ResponseBody`, client.py:401-411) never looks at the stream: all frames, of
stream 0 too, are joined in the order in which they come.  With `ReadAhead` the response's head may have
pulled the beginning of the output into the buffered reader, in whole writes of the
daemon (segments).

`OrderedOutput` promises prefixes per channel and, at an end without an error,
completeness unless `lossy`; FrameStream maps `lossy` to a broken connection or to
the one mode whose end means nothing (`MayEndEarly`: `read_exactly` takes `None`
for end of file, socket.py:70).

### AdapterPools

`cache` is urllib3's `RecentlyUsedContainer`, most recently used last; `open` the
pools not closed; `lock` its lock.  `Hit`, `Miss`, `Create` are `get_connection`;
`GetConn` is urllib3's `_get_conn`, after the lock is released, which raises on a
closed pool.  The SSH adapter also tests the client's transport and reconnects
(`Reconnect`, `ReconnectFails`, `Connected`).  `Clear`, `Dispose`, `CloseClient` are
`close()`: the container is emptied under its lock, the pools closed without it.
`others` and `cleared` are history variables that record what happened between
`get_connection` and `_get_conn`; `Drop` is the death of a transport.

### ContainerRun

Each action of `RunStep` is one request of `run`, in the order of containers.py:851-912,
with the inspection that `create` and `logs` end with.  The daemon's container goes
through the values of `life`; `Exit`, `AutoRemove`, `Restart` and `Interfere` are what
happens to it meanwhile.  `Answered` is an answer that may be lost after the request was
served, `Lost` a request that never arrives.  `Conclude` is the decision on the exit
status, and `JoinOutput` what comes after it with `stream=False`, after the removal even:
`b''.join(out)` reads the output to its end, may wait while others keep the container
running, and may raise when the connection breaks.

### ContextStore

A metadata file is `Absent`, `Torn` (truncated, not yet written) or holds an
endpoint; `certs` the copied certificate files, each with the endpoint it belongs
to.  `create_context` is `Load`, `OpenMeta`, `WriteMeta`, `CopyCert` three times;
`set_current_context` is `Load`, `ReadConfig`, `Truncate`, `Store`;
`remove_context` is `Load`, `GetCurrent`, those three if the context is selected,
`Unlink`, `RemoveCerts`.  `Interrupt` is a program that dies, or a file operation
that raises, between any two of these.  `linked` tells whether a file that is
open for writing was removed meanwhile.  `interrupted` and `contended` are history:
names an operation stopped half-way on, and names two operations met on.

### RegistryAuth

`disk` is what the command line writes: the configuration file, a second file named
by `dockercfg_path`, and the stores; `mem` is `_auth_configs`, its entries in the
order they were inserted, because `resolve_authconfig` takes the first one that is
the same registry under another name.  A call goes through `Check` (is there
anything in memory), `Read` and `Assign` (the load, in two steps, between which other
threads work), and then `Header` (a pull or push), `Build`, or a login: `LoginLookup`
(which returns the cached entry for the same user), `Post`, `Add`.  Credentials are
records that say which registry they are for, whoever made them, and whether the
password is good; `Empty` is an entry without credentials and `Broken` a helper that
fails.  `LoadConfig` has the three shapes of files: current, one whose sections are
registries, and the old format, a file that is not JSON.
A file with an entry that is no object, or whose "auth" cannot be decoded, makes
`load_config` raise (`Invalid`), and `Read` ends the call.  `newest`, `overtaken` and
`edited` are history.  What the command line may write is in `FileSet` and `StoreSet`:
a file is a JSON object, so it has a name once, and what is kept under a name is for
the registry of that name (`Own`); `HubHost`, the host of the hub's URL, is not the
hub's short name nor the URL.

### ModelObjects

One object of one kind, its collection, and a daemon with three objects and two
names.  The kinds are data (`Trait`): by which attribute operations name the object
(`ref`), by which `reload` does (`id`), what `create` returns (`made`: the answer, an
inspection by Id, an inspection by name), how `list` inspects what it was told of,
and which operations the kind has.  `attrs` is `Model.attrs`; `mine`, a history
variable, is the daemon's object it was first taken from.  `Create` and `Made`,
`List` and `Inspect`, `Switch` (start and stop, connect and disconnect, enable and
disable) and `Reload`, `Configure` and `Reload`, `Privileges`, `Install` and `Made`,
`Privileges`, `Upgrade` and `Progress` are the requests one after the other; a plugin's
privileges and its pull may be refused, which ends the call, while an error in the
progress of a pull is not looked at and the inspection follows;
`Others` are other clients, who also give a name that has become free to a new
object; `Lose` and the `"lost"` outcomes are lost requests and answers.

### ContainerControl

`status` is the container's state as the daemon sees it, `exits` how often it ended,
`grace` the StopTimeout it was made with.  Operations of one request are data
(`Simple`: the states they are accepted in, the states that may follow: a `kill` with a
signal other than SIGKILL need not end the container).  What an answer says (the port,
the changes, the processes, the archive) is left out.  The version tests of
`update_container` are not modelled because they cannot fire: no client is made for an
API version below 1.24 (client.py:215).  `Stop` and
restart compute the client's timeout (`ClientWaits`, container.py:1207) and the
daemon's (`Patience`); `Tick` is a second that passes while the container does not
end, `Stopped` its end, `StopTimesOut` the client giving up.  `Wait` refuses a
condition that the API version does not know (`InvalidVersion`), is answered by the daemon
when the condition holds (`WaitAnswered`) or times out; no property is about the
condition, which the daemon enforces and the client only sends.  `exec_run` is `ExecCreate`,
`ExecStart`, `Output`, `ExecInspect`, with `Command` the process inside, which may
close its output before it ends; `logs` and `attach` are `Request`, `IsTty`, `Join`;
`commit` ends with the inspection of the image.  `held` is a response that is open.

### ProgressStream

An entry is two halves and a line end on `wire`, and a chunk ends after any of them,
so that a chunk can hold half an entry, several, or a line end only.  `ReadChunk`,
`Split` and `EndOfStream` are `json_stream`, `split_buffer` and `json_splitter`: an
entry is yielded as soon as it decodes, white space before it is dropped, and white
space that is left at the end does not decode.  `Raise` is `CancellableStream` for
events, which turns errors of the connection into the end of the iteration.  `Handed`,
`BuildReads` and `LoadReads` are the consumers: what images.py makes of an entry;
`Finish` and `Get` look up the images afterwards; `pull(all_tags=True)`, whose result is
a list of what the daemon has, is not modelled.  An answer with an error status is
complete (`"error"`) or comes in chunks, one entry (`"message"`): `_stream_helper` looks at
the status of the first kind only (client.py:358), so the second is read as a stream, and
`load` for instance returns no images.  The daemon flushes every entry of a success, so
that one that is not chunked is left out.  `Close` is `close()` in another thread: over
HTTP it shuts the socket of a response that has not ended, over SSH (`ssh`) it finds no
socket and raises, `DockerException` or, over the ssh program, `UnboundLocalError`, and the
iteration goes on (types/daemon.py:48-64); `Cut`, `Done` are the daemon's ends of the stream; `Others` remove and retag
images.  `Implements` maps the entries to one channel of `OrderedOutput`.

### BuildContext

`context` is the directory.  A path is the sequence of its names and a pattern that of
its components (`*`, `**` or a name).  `Start` is `exclude_paths` with the exceptions
for the Dockerfile and `.dockerignore`; `Unreadable` one of these that cannot be opened;
`Visit` takes one path the walk has listed and asks whether it is a directory now, `List`
lists that directory, which fails if it has gone since (`entering` is between the two);
`Enters` says whether a directory is walked (a textual prefix of an exception,
utils/build.py:211-213), `Pack` adds one file, leaves a socket out, and fails at one that
is gone, `Close` adds the generated files.  `Match`,
`Hits` and `Decides` are fnmatch and `matches`.  A match is stated without recursion, as
the regular expression that `translate` builds would be satisfied: there is a place in
the path for the beginning of each component of the pattern (`at`), in order, such that
each component stands for what lies between two places.  Patterns without components,
which `PatternMatcher.__init__` drops, hit nothing.  `Ignored` is the reference: the
rule of the last pattern that matches a path or a directory it is in.

## 4. What the runs check

| run | instance | shows |
|---|---|---|
| `service_update` | two threads with an object each, one of an old API version, other clients, modes and images, versions to 3 | no lost update; forced updates count; a repeated call is not applied twice; an accepted scale never met a global service; refinement of `VersionedSpec` |
| `frame_stream` | three frames of up to two bytes, streams 0, 1, 2, headers of two bytes, six ways to read | order and channels (refinement of `OrderedOutput`), an end that is the end, promptness, termination |
| `adapter_pools` | two threads, one closes; three URLs, room for two; reconnects fail, transports die | every pool is cached once or about to be closed; a refused request had a reason; lock and close are released |
| `container_run` | all options, two restarts, all faults | the result is true, containers are removed, at most one is made, run ends |
| `context_store` | two programs, two names, with and without certificates | selection, certificates, torn files, no overwriting |
| `registry_auth` | two threads, three calls, eight states of the disk, one change by the command line | each registry gets its own, good and newest credentials; builds send what pulls send; the file is loaded when it is needed and only then |
| `model_objects` | eight kinds, three objects, two names, two calls, two steps of others | an object stays the same; NotFound means gone; `create` returns its own; lists are complete |
| `container_control` | timeouts 0 and 2, StopTimeouts 1 and 4, a client timeout of 2 and a default of 1, three calls, three steps of others | the client outlasts the daemon's wait; the exit code and the connection of `exec_run`; calls end and can be repeated |
| `progress_stream` | five operations, three entries cut anywhere, one step of others | refinement of `OrderedOutput`, promptness, no false success, no invented failure, close over HTTP and SSH |
| `build_context` | some 200 `.dockerignore` files, three directories, three places of the Dockerfile, one change by others | what is packed is what the rule leaves and what the daemon needs, and nothing the walk found is silently left out |
| `volume_force` (violation) | one volume whose driver lost it | `force=True` never reaches the daemon |
| `events_error` (violation) | an error answer to `events()` | the error is an end of the events |

Why the bounds are enough.  A lost update needs three versions: the snapshot's, the
other client's and the one posted.  A frame is misread because of the frame before
it, or because of a piece of itself, so three frames of at most two bytes with a
header of two (pieces of one) meet every case; stream 0 is the one that
demultiplexing refuses.  An eviction needs one URL more than the container holds,
and the difference between most recently and first used needs room for two; five
names of pools are enough: `Create` takes one that is not in use (`FreeIds`), and with
two threads there always is one.  `run` makes a bounded number of requests; two restarts let
a container exit with both statuses between any two of them.  For contexts the second
program and the second name are what makes operations overlap on different and on the
same names; at most one name is worked on by both at once (`MaxContended`), because
every property speaks of the names that are not.

Credentials are confused between two names of one registry or between the hub's three
names, which are all there; an entry is lost when a login comes between another
thread's `Read` and `Assign`, which takes two calls and a third to see it.  An object
is confused when its name passes to another one: two steps of others (a rename or
removal, and a new object), after one call that makes a snapshot and during one that
uses it.  The timeouts of `ContainerControl` are in seconds, and only their order
matters: a given timeout of 0 and one that the client's own would not outlast, a
StopTimeout below and one above everything the client knows; three calls let one
operation be lost, repeated, and followed by a wait.  Three entries in chunks that end
anywhere contain every pair of neighbours and every piece of an entry, with an error
before, between and after others.  The `.dockerignore` files have up to three
patterns of up to three components, and the directories have three levels, which is
one more than an exception needs to lie below an ignored directory.
Every bound is a constant or a constraint of an MC module.

Symmetry is used only in runs without liveness, for threads (together with their
objects), and for programs and names.

### Fairness

`FrameStream` assumes that a reader that can take a step takes one: the caller
iterates, and `read` polls until there is something to read (socket.py:31-40).
The daemon owes nothing: `Terminates` starts from its closing.  `AdapterPools`
assumes that a thread inside the adapter goes on; a thread between requests need
not make one.  `ContainerRun` assumes that `run` goes on while a request can be
answered, that the daemon removes what it promised to (`AutoRemove`), and that it ends the
output of a container that does not run (`JoinOutput`); that a
container exits is nobody's obligation, so `RunEnds` is conditional on it.
`ProgressStream` assumes that the caller goes on reading (`Read`): the generators are
driven by `for` loops or by the caller.  `ContainerControl` assumes that a call under
way goes on (`Step`), which includes that time passes (`Tick`); `CallEnds` demands an
end only where the daemon answers or a timeout was given.  The other modules have no
liveness property and no fairness.

### Disagreements found

Two runs end in a violation, and each refutes what a docstring says:

- `volume_force`: `remove_volume(force=True)` puts the flag into the arguments of
  `_url`, which ignores them (api/volume.py:161, api/client.py:256); "Force removal of
  volumes that were already removed out of band by the volume driver plugin".
- `events_error`: `CancellableStream.__next__` takes every `OSError` for a closed
  socket; `APIError` is one, and is raised by the generator's first step, so that an
  error answer is an empty stream of events; "Raises APIError If the server returns an
  error" (api/daemon.py:39).

Six more configurations of the same modules are kept to be run by hand (`tlc -config
X.cfg MC...`); TLC finds a violation of each:

- `ServiceUpdateShared.cfg` (`NoLostUpdate`): two threads share one Service object.
  `Service.update` reads image and version from `self.attrs` one after the other
  (services.py:69-83); with a `reload` in between, the version argument that is
  "required to avoid conflicting writes" (api/service.py:381) does not avoid one.
- `FrameStreamAhead.cfg` (`ConsumesAll`): "Consume all data from the socket"
  (client.py:425) does not include what is in the reader above the socket.
- `AdapterPoolsShell.cfg` (`NeverShellsOut`): `close()` between two lines of
  `get_connection` makes the SSH adapter start an ssh program nobody asked for.
- `ContainerRunNonZero.cfg` (`NonZeroRaisesContainerError`): a non-zero exit with a
  logging driver that has no logs raises `APIError`, not the documented
  `ContainerError` (containers.py:843), and leaves the container.
- `ContextStoreUnwritable.cfg` (`CurrentExists`): `remove_context` ignores the error of
  deselecting, so the current context may be one that does not exist.
- `RegistryAuthLogout.cfg` (`NoDataIsReloaded`): a file with an empty "auths" section,
  which `docker logout` leaves, is taken for one whose sections are registries
  (auth.py:189); it is not empty in memory and never read again, against
  api/build.py:324.

Disagreements the models were built around, so that no property states them:

- a complete stream whose last line end comes in a chunk of its own ends with
  `StreamParseError` (json_stream.py:70; `bare` in `FailsForAReason`);
- `pull` reads the progress without looking for errors, and then returns the older
  image of the name if there is one (images.py:464); plugins' `install` likewise;
- `close()` of a stream of events over SSH raises and does not end the iteration
  (types/daemon.py:57; `CloseEnds` speaks of a `close()` that returns);
- an error answer in chunks is taken for the stream that was asked for (client.py:358;
  `FailsForAReason` speaks of `"chunked"` answers);
- the walk under `.dockerignore` and its rule differ for exceptions with wildcards
  and for `**` with an exception below a directory (`Simple` names the patterns for
  which they agree; that a directory's name is compared as text, utils/build.py:213,
  only makes the walk longer);
- if the inspection of the terminal fails, the response of `logs`, `attach` and
  `exec_run` is left open (client.py:483; `HeldByCaller` allows it);
- a login by a name other than the registry's own may be hidden by an older entry
  (`NewestLoginUsed` speaks of the registry's own name).

Others that no model shows: every chunk of a stream is decoded by itself, so a
character cut in two is lost (json_stream.py:18); patterns are compared without regard
to case (fnmatch.py); `push` of a plugin posts to `/pull` (api/plugin.py:196);
`upgrade` of an enabled plugin raises an exception class that does not exist
(plugins.py:116); errors of `export`, `stats` and followed logs are raised only when
the generator is first asked; `Swarm.join`, `leave` and `unlock` leave `attrs` as they
are, and `Swarm.update` and `Node.update` send the version of a snapshot of any age.

## 5. What is proved

Every invariant and action property that a passing run checks is proved, and the three
refinements with them.  There are eight modules of proofs.  Six extend the module they
are about.  Two extend two modules: `ContainerProofs` those about one container
(`ContainerControl` and `ContainerRun`), `ImageProofs` those about what pulls and builds
send (`RegistryAuth` and `BuildContext`).  The two specifications are about different
variables and have no name in common (`Spec` and `RunSpec`, `Spec` and `BuildSpec`); no
theorem speaks of both.

`ServiceUpdateProofs` proves, for any number of threads, settings, values and
requests, from the assumption `ServiceConstants` and, beyond type correctness, from
`Unshared` (one thread per Service object, which the violation that
`ServiceUpdateShared.cfg` finds shows to be necessary):

- `TypeCorrect`: `Spec => []TypeOK`;
- `Invariance`: the inductive invariant `IInv`;
- from it `SnapshotsAgreeHolds`, `NoLostUpdateHolds`, `ForceTakesEffectHolds`,
  `ScaleKeepsGlobalHolds`, `RetryNotAppliedHolds`;
- `Refinement`: `Spec => Abstract!Spec`, that is `Implements`.

The argument.  `NoLostUpdate` is not inductive: that an accepted POST changes only
what was asked depends on what the call read many steps ago.  `IInv` records it:

- `SnapshotsAgree`: a snapshot, or a specification inspected by a call, that bears
  the daemon's current version equals the daemon's specification; it holds because
  every change of the specification raises the version;
- `CallAgrees`: while a call is under way its defaults are those of the snapshot its
  object still has, and its version is that snapshot's; it holds because only the
  thread itself replaces the snapshot, which is where `Unshared` is used;
- an object with an accepted update has an older version until it is reloaded.

An accepted POST has the current version, so by the second part the snapshot has it,
so by the first the defaults are the daemon's own values, and `Merge` returns them
unchanged.  The proofs have one step per action, and one per conjunct it can
disturb; lemmas about `Merge` and `TaskNetworks` say what `Body` leaves alone.

In `ServiceUpdate` `TypeOK` and `SnapshotsAgree` are proved, so the run spends its time
on what follows from them.

The other proofs have one form: a theorem that the inductive invariant (`IInv`,
`RunIInv`, `BuildIInv`) holds in every reachable state, and the properties from it.
None of these properties is inductive: each speaks of the end of a call or of a stream,
and what makes it true was read, sent or done many steps before.  The conjuncts of
`IInv` are what has to be remembered of that.  TLC agrees with `IInv` on the instance of
each run, except that of `FrameStream`, which quantifies over infinite plans.  The
theorems hold for all values of the constants that the module's ASSUME admits; where
they need more it is said.

**`ContextStoreProofs`**: `ReadableHolds`, `CurrentExistsHolds`, `CertsMatchHolds`,
`NoOverwriteHolds`, for any number of programs, names and endpoints, with programs
dying between any two steps.  `CallOK` says what a program knows of its own call,
`NameOK` what holds of a name on which no two programs have met: one program at most
works on it (`Alone`), what that program found or wrote is still so (`MetaOK`), the
certificates are those of its endpoint as far as they have been copied (`CertsOK`),
and between calls they match (`Matched`).  The two history variables are what limits
the theorem: of a contended name nothing is claimed, because nothing is locked.
`CurrentExistsHolds` assumes `~Unwritable`, that the configuration file can be
written; `ContextStoreUnwritable.cfg` shows that it is false without.

**`FrameStreamProofs`**: `EndsRightlyHolds`, and `InOrderHolds`, that FrameStream
implements `OrderedOutput`; for any streams, header and payload sizes and any number of
frames.  The invariant (`Framing`) says that there is a plan of the connection, the
offset of each frame and of its payload in its channel, such that what has not been
read is what the plan says, and that the reader is at the place in its frame that the
bytes read so far account for.  The plan is a witness, not a variable: `Write` extends it.
From this a header is never taken for payload, so output goes to its channel, and a
quiet end is at a frame's boundary.  Both assume `~ReadAhead`: when a response's head
brought output with it the property is false (`FrameStreamAhead.cfg`).

**`ContainerProofs`**, of `ContainerControl`: `ClientOutlastsStopHolds` (for all
timeouts, StopTimeouts and defaults: the daemon has waited no longer than it was asked,
`Waited`, and the client's timeout is that plus its own),
`ExecIsWholeHolds` (`CommandSeen`: closed output means that the command ended or closed
it early; `Held`: which responses are open, and when), and `RetrySucceedsHolds`, the
action property in `CallsConclude` (`Remembered`: what an operation did whose answer was
lost still stands while it is to be repeated).

**`ContainerProofs`**, of `ContainerRun`: `MadeOnceHolds`, `ResultTellsExitHolds` and
`NotLeftBehindHolds`, for any number of restarts and with or without other clients and
faults.  `ResultTellsExit` is not inductive: `run` decides long after it was told the
status, and the container may since have been restarted, have exited with the other
status, or be gone.  `RunIInv` therefore says that the status of an exited container is
among those it has exited with (`statuses`), that the status `run` holds while it fetches
errors and removes is one of them (`Reporting`), that nothing has been made while `run` is
still before `create` (`Unmade`), and that `run` has an outcome exactly when it is over.
`NotLeftBehind` rests on the last: once removed, a container is created only by a run
that is not over.

**`ModelObjectsProofs`**: `ListIsRightHolds`, `NotFoundIsGoneHolds`,
`CreateReturnsOwnHolds` and the action property `SameObjectHolds`, for any number
of objects, names and calls.  `Owns` says that `attrs` is the object it was first taken
from, by its Id, or by its name for the kinds that the API knows by name; it holds
because of the lemma `Evolution`: what is gone stays gone and only containers are
renamed, and containers are known by Id.  `Listed` says that a list in progress has
found, or has still to inspect, everything that was there throughout.

**`AdapterPoolsProofs`**: `PoolsAccountedForHolds` and `RefusedUnderPressureHolds`, for
any number of threads, URLs and pools and any size of the container.  `Locked` is why
no URL gets two pools: who found none holds the lock until it has made one.
`Disposed`: the pools that are open are exactly those cached or in one thread's trash.
`Recent` is what the container's order means to a request: its pool is still cached and
everything more recently used was looked up since, or as many other URLs were as there
is room for; an eviction takes the oldest entry, so all the others are behind it
(`CountDistinct`).  Pools are told apart by names that are used again when no one has
the pool any more; the theorems hold for any set of names, and `Create` waits
when all are in use, which is a bound of the model and not of the code.

**`ProgressStreamProofs`**: `ReadsFaithfullyHolds`, `ResultIsTrueHolds` and
`ImplementsHolds`, the second refinement of `OrderedOutput`, for streams of any length
cut into any chunks.  `Framing` says that buffer and connection together hold the text
from the entry after the last one yielded, or from the line end before it; three lemmas
on texts (`FollowsCut`, `FollowsJoined`, `WholeWhen`) show that cutting and joining keep
that, and that an entry is whole exactly when its second half has come.  `Placed` says
what each step of the reader knows: it asks for a chunk only when nothing is whole.
`Consumed` says that what the consumer has found is what the entries before say,
without an error among them: for `build` the last entry's image, for `load` all
(`Listed`, by an increasing map from results to entries); `Built` is what the daemon owes
a build, an image as the last thing it tells.  `Reasons` ties every way to fail to what
caused it.

What the daemon does is assumed in all of them as its actions state it; `Write` and `Done`
of `ProgressStream`, for instance, end a build with an image or an error.

**`ImageProofs`**, of `RegistryAuth`: `OwnCredentialsHolds`, `NewestLoginUsedHolds`,
`BuildSendsWhatPullSendsHolds` and the action property `LoadedWhenNeededHolds`, for any
number of threads, registries, entries, files and stores.  `GoodAuths` says of the
entries in memory, and of those a thread has loaded and not yet assigned, that a name
has one, for the registry of that name and never with a refused password; it is what
`LoadConfig` makes of each shape of file (`LoadConfigGood`) and what `AddAuth` keeps
(`AddAuthGood`).  `CallOK` says that only a login the daemon accepted is added, `LoadOK`
what a thread nobody overtook may conclude: it loads because nothing is in memory, what
it has loaded is the file, and if it goes on without a configuration the file has none.
`NewestOK` ties the history variable to the entry.  Which of several entries for a
registry `ResolveAuths` finds is the one with the least index, which exists because
the naturals are well-founded (`WFMin`); that a build and a pull agree needs that there is
one entry and that store and helpers have no other name for it, which is what the
property says.  Without these conditions it is false: `get_all_credentials` and
`resolve_authconfig` look in a different order.

**`ImageProofs`**, of `BuildContext`: `OneEntryEachHolds`, `SendsWhatIsNotIgnoredHolds` and
`NeededIsSentHolds`, for any directory, patterns and changes by others.  Before the
invariant comes a theorem about patterns alone, `RuleFollowed`: a path matches no pattern
and each directory it is in is entered (`Open`) if and only if the rule of the last
pattern does not ignore it.  One direction is where the walk could lose a file: a
directory that matches is skipped unless an exception begins with its name, so a file
below it that is to be sent must have been kept by an exception that leads there.  The
other is where it could send one too many: a pattern hits a file through an ancestor of
another length than `Hits` tries, and then some directory on the way is closed.  Both take
the first directory on the way, or the last pattern, for which something holds; `Least`
and `Greatest` say that there is one, and `Climb` carries a fact from one component
to the next, in place of an induction.  `Simple` is where the rule and the walk
are known to agree.  The invariant: `WalkOK` (the walk is only where every directory is
open and yields only what matches nothing), `NothingLost` (what is to be found and nobody
touched is on the agenda, or a directory it is in is, until it is found, and then
until it is packed), `PackOK` (each name once, what the walk yielded packed or still to be
packed or a socket, the generated files at the end),
`PatternsOK` (the last two patterns are the exceptions for the Dockerfile and
`.dockerignore`, from which `NeededIsSent` follows whatever the others are).

Only model-checked:

- liveness, for which the prover has no rule (fairness, ENABLED): `Prompt` and
  `Terminates` of `FrameStream`, `Releases`, `RunEnds`, `CloseEnds` of
  `ProgressStream`, and `CallEnds` in `CallsConclude`;
- that the seeded faults break a property.

The two properties that a run refutes are not theorems.  No module that is proved about
uses a `RECURSIVE` operator, and none needs induction over data: where a definition
was recursive it is stated by a witness or a least element instead.

## 6. What is not modelled

- Formatting, parsing and validation of arguments (`types/`, `utils/utils.py`,
  `utils/ports.py`): pure functions without state.
- `swarm.py`: one request each; its update is `ServiceUpdate` without a merge, and a
  stale version is refused by the daemon.
- `transport/npipesocket.py`: calls of the Windows API; the retry of `connect` is
  bounded by a constant.
- Of the modelled parts: what hands binary data on (`export`, `save`, `get_image`),
  `attach_socket`, `stats`; the encoding of credentials and the helper programs; tar
  headers and modes; a context given as a file or URL; `Node.update`.
- urllib3's queue of connections inside a pool, TLS, and HTTP itself: external; what
  the adapters rely on is in `AdapterPools` as the container, the lock and the
  closed flag.
- The daemon beyond what a module says of it: it checks versions, multiplexes
  output, keeps containers, images and the other objects.
- The settings of `config.json` other than `currentContext` and the credentials: they
  are lost when a program dies between truncating and writing it, or when another
  program changes them between reading and writing; `ContextStore` shows the steps,
  not the loss.
- Two components at once: `config.json` is in `ContextStore` and in `RegistryAuth`,
  each with the part of the file it uses.
