# kubeconfig-proxy: a verification project

`kubeconfig-proxy` is a local HTTPS server that looks like one Kubernetes cluster and fans each
request out to the contexts of a kubeconfig. This directory holds TLA+ models of its core, the TLC
configurations that check them, and theorems about them that TLAPS proves. Paths below are relative
to the repository root; `PROJECT.json` maps every definition to the lines it models.

## The system

| Part | Code | State | Operations | What makes it correct |
| --- | --- | --- | --- | --- |
| Activity wrapper | `cmd/kubeconfig-proxy/activity.go` | `inFlight` and `isDraining` under a mutex, atomic `lastActivity`, channel `becameIdle` (capacity one) | `ServeHTTP`, `beginRequest`, `finishRequest`, `beginDrainIfIdle`, `isIdleFor` | the counter is exact; a drain begins only idle and admits nothing |
| Serve loop | `serve.go` | pending change, reload timer, TTL ticker, error channel | the cases of the `select` in `serveHTTP`, `Shutdown`, exec | a change replaces the process once idle; errors and the TTL end it |
| Runtime file watcher | `state_file.go`, `loadServeRuntime` | snapshots of the state file and kubeconfig files, channel `runtimeChanged` | load, snapshot, poll, settle, report | the running configuration follows the files |
| Dispatch | `internal/proxy/proxy.go`, `routing.go` | none | authenticate, refuse in read-only mode, classify, call a handler | each request reaches the handler ROUTING.md names |
| Object requests | `handlers.go`, `transport.go` | per request: probes, targets, responses | named GET, Pod stream, mutation, primary request; retrying calls | the right clusters are touched and the answer says what happened |
| Aggregate watch | `watch.go` | per request: version vector, streams, copiers, write mutex | find versions, open all, copy, mark, end | one gapless merged stream that a client can resume from |
| Aggregate lists | `aggregate.go` | none between pages: the continuation token carries it | unpaged merge, first page, next page | the pages together are one snapshot per cluster |
| Credential command | `credential.go` | lock file; a serve process it starts | lock, check readiness, start, wait | one server per state, ready when a token is handed out |
| add-context, delete-context | `add_context.go`, `delete_context.go`, `internal/kubeconfig/write.go`, `internal/state/state.go` | kubeconfig and state file | write, remove | the two files agree, other contexts are kept |
| Context selection, targets | `internal/kubeconfig/source.go`, `internal/upstream/target.go` | none | select, build clients | selected contexts in order, a primary among them |
| Helpers | `listen.go`, `cert.go`, `util.go`, `main.go` | none | free port, certificate, strings, command dispatch | sequential |

How they interact. kubectl runs the credential command, which starts `serve` if nobody answers on
the listen address. `serve` loads the state file and the kubeconfig files, then runs the watcher as
a goroutine that reports on a channel to the serve loop. net/http runs one goroutine per request
through the activity wrapper into the proxy handler, which starts one goroutine per target. The loop
learns of the handlers only through the counter, the activity timestamp and `becameIdle`. Replacing
the process is exec: everything in memory is lost, and all that survives is in the two kinds of
files and in the opaque tokens (resource versions, continuation tokens) clients hold.

What is hard here: handlers against the select loop; a channel of capacity one that drops tokens;
files that change between two reads; several streams that share one vector; failures of some
targets; writes that take effect although their caller gave up; listings that span changes,
compaction and reconfiguration. `PROJECT.json` lists these hazards with their lines.

## Modules

| Module | Models | Refines |
| --- | --- | --- |
| `ServeLifecycle` | what a serve process promises its clients | |
| `ServeLoop` | `activity.go`, the loop of `serve.go`, the part of `http.Server.Shutdown` it needs | `ServeLifecycle` |
| `ServeLoopProofs` | theorems about `ServeLoop` | |
| `RuntimeFiles` | `loadServeRuntime` and `watchRuntimeFiles` against writers of the files | |
| `RuntimeFilesProofs` | theorems about `RuntimeFiles` | |
| `MergedWatch` | what one merged stream promises | |
| `AggregateWatch` | one request of `watch.go` | `MergedWatch` |
| `AggregateWatchProofs` | theorems about `AggregateWatch` | |
| `Routing` | the predicates of `routing.go`, and the table of `ROUTING.md` as their contract | |
| `ObjectRequests` | `proxy.go`, one request of `handlers.go` over `transport.go`, and the clusters; it dispatches through `Routing` | |
| `ObjectRequestsProofs` | theorems about `ObjectRequests` and its `Routing` | |
| `AggregatePages` | one listing of `aggregate.go`, its client and the clusters | |
| `AggregatePagesProofs` | theorems about `AggregatePages` | |
| `CredentialStartup` | `credential.go` in several clients, over serve processes and one listen address each | |
| `CredentialStartupProofs` | theorems about `CredentialStartup` | |
| `ContextFiles` | `add_context.go`, `delete_context.go`, `internal/kubeconfig`, `state.go` over their files | |
| `ContextFilesProofs` | theorems about `ContextFiles` | |
| `SequenceFacts` | lemmas on sequences (flattening, sorting) that the proofs share | |
| `MC...` | the instances TLC checks | |

### ServeLoop

A request's `rpc` is its program point in `activityHandler.ServeHTTP`: each mutex section, atomic
store and channel operation is an action (`BeginRequest`, `StoreStart`, `StoreEnd`,
`FinishRequest`, `OfferToken`), so handlers interleave with the loop between any two. Each case of
the `select` is an action, and the TTL case is three: `OnTTLTick` reads the counter under the mutex,
`ReadLastActivity` the timestamp outside it, and `ShutdownIdle` acts on the answer. Requests are
admitted and time passes between them, since this path sets no `isDraining`.

`Shutdown` is the state `loop = "shutdown"`, which waits for `Tracked` connections. net/http does not
track hijacked ones. A connection that has sent no header is closed once it is `UnusedAge` old, for
which `age` counts its ticks (net/http's five seconds). One that has brought a request belongs to it
until the client has sent all of it and taken the whole response: after `ServeHTTP` it is still
`"refused"` or `"replying"`, for as long as the client likes (`Reply`), because the server sets only
`ReadHeaderTimeout` (`serve.go:176-180`). The file watcher is reduced to the two reports it can make.

Time is ticks: the idle timer and the Shutdown timeout count down and `idleFor`, the age of
`lastActivity`, saturates just above the TTL, which keeps the state finite. Two history variables say
what the code does not know when its TTL ends the server: `quiet`, the time since a request was in the
proxy handler, and `late`, the requests admitted since the check read the counter.
`TTLEndsQuietServers` exempts those and no others, as nothing in the code protects them. The readiness
probe reads one variable and has no action. The TTL ticker's channel is `nil` for a server without a
TTL, so one run covers both kinds of server.

### RuntimeFiles

Each read of a file is a step: the state snapshot, the state, every kubeconfig, the kubeconfig
snapshots (in this order, which is the code's), then polls, comparisons and settling. `Content` is
what a checksum tells apart, a write's number and whether its in-place writer has finished. A write
always makes new content, so a file that returns to its old bytes between two polls is not modelled
(the code cannot see it either, and it needs no reload). `WriterKeptUp` states the assumption of
`constants.go:14` that in-place writers finish within the settle interval. Drains and timers are
`ServeLoop`'s; `Replace` may follow any report, and loads everything again.

### AggregateWatch

`handler` follows the handler, `answer` the probes or version lists, `upstream`, `completed` and
`collected` the goroutines and channel of `openWatches`, `copier` each `copyWatch` goroutine, and
`holder` the write mutex. Each target numbers the events that concern the watch; a vector is 0
where it names no version. `head`, `delivered` and `out` are the world's view: what happened in
each cluster, how far the client has got, and the vector on the last event it received. A request
is named or not, and its resource version is absent, plain, an aggregate, or malformed. `Asked` is the
position a collection watch asks for by an aggregate version. `MergedWatch` has it as `asked`: the
abstract stream opens there, and not at all if it leaves a target out. So the refinement says that
collection watches resume; for named ones it asks nothing (violation 3).

### Routing and ObjectRequests

A path is the sequence of its segments. `Base` to `ClassifyRequest` are the functions of
`routing.go`, one operator each. `Documented` is their contract: the shapes of paths ROUTING.md
shows, matched segment by segment, and the rows of its table, of which the first that matches
decides. Whether a review is asked for, or a label selector names Helm, is read from the code, since
the table only gives examples. Two kinds of path are left open (`IsUndecided`), and nothing is claimed
of them: `namespaces/x/status` and `namespaces/x/finalize` fit two shapes, and for what lies below a
subresource (`nodes/n/proxy/metrics`) the document shows none. The code takes the latter for the
subresource, so that a POST there goes to every context, although ROUTING.md:60 says an unknown
endpoint must never become a fan-out mutation; whether it is unknown the document does not say.

In `ObjectRequests` a request `arriving` with a token, a mode of the proxy and a path is refused or
dispatched by `Dispatch`, as `proxy.go` does; lists and watches go `"elsewhere"`, to the modules
below and above. The rest is about one object in several clusters. `stage` is what each context's goroutine is calling
(`probe`, `read` before a PUT, `write`), `attempt` its retries. An attempt may fail without effect,
be processed with its answer lost, or time out and take effect later (`late`), even after the client
was answered. Other clients create, update and delete the object meanwhile. A uid names the cluster
and the revision of its creation, so that an identity of another cluster can be told. `Settle` is
the loop of `requestTarget`, `Send` the fan-out of `requestMutationTargets`, `MutationChosen` the
rules of `mutationTargets`. `untimed` says which calls of a request have no timeout: those about a
watch or a Pod connection except probes (a Helm-mode watch goes to the primary through `forwardSingle`), and
all of them if the proxy runs with `--request-timeout 0`. `ReadBody` is the only step that waits for
the client, for the body of a mutation; `Proceed` is the rest of the handler. `applied` and `held` are
history, used only by properties.

### AggregatePages

A cluster's `history` is its collection at every version; `oldest` is what compaction left. The
handler's loop is `ReadTarget`, which ends a page with the cluster's own continue token, with the
start of the next cluster, or goes on. The token is the record `Cursor`, as `pageCursor` is. The
serve process may be replaced by one with another target list between two requests, answers may get
lost, and the client may change its limit from page to page or send a token where none belongs. The
calls are not retried here (`ObjectRequests` does that): a call succeeds or fails for good.

### CredentialStartup

A client's command is at `client`: opening and taking the lock, loading the profile, the first check,
starting the server, polling, answering. A server is named after the client that started it, and is
at `serve`: loading, binding, open, draining, and so on; of `serve.go` only what a client can see is
kept, and `ServeLoop` has the rest. The lock is `flock`, so it belongs to a file and not to its
path: `lockFile` is the file now there and `handle` the one a command has open. Meanwhile add-context
rewrites the state file, delete-context removes it, source kubeconfigs change, and any process is
killed. A ready server answers a check (the client waits two seconds for it), and a check neither
changes the server nor counts as activity. `checks` are the checks that fit before the deadline.
`missed` is history: the servers that could not have answered the last check of a command.
A server whose state file has changed waits for an idle moment (`DrainForState`), which need not come.
Time passes in ticks for the TTL and the validity of credentials only.

### ContextFiles

A command is the sequence `todo` of its steps; each is one read or write of a file, so that commands
interleave, and `StopEarly` ends one between any two, as an error, a signal or a crash does. Writing
the kubeconfig is truncating it and filling it, as `WriteToFile` does; the state file is renamed into
place. Context names are numbers that stand for their order, a regular expression is the set of names
it matches. One kubeconfig is both the source and the file written. Commands take no lock, so two of
them, or kubectl, can lose each other's update: the history variable `interfered` records that this
happened, and nothing is claimed afterwards, since nothing in the repository promises more. `home` is
where the last add-context of a name put its state, until a delete-context of it finishes;
`userContexts` is what nobody was asked to replace.
The selection (`Selects`, `Selected`, `Primary`) is what `serve` does with the stored options later;
`AddedContextIsServable` compares the two.

## Runs

| Run | Instance | Shows |
| --- | --- | --- |
| `serve_loop_reload` | two requests, one an upgrade; delays of one tick; two changes | exact counter, a reload interrupts nothing, no lost wake-up, the TTL ends only quiet servers; a pending reload happens, idle servers and file errors end the process; refinement of `ServeLifecycle` |
| `serve_loop_slow_shutdown` | the same, one change, unused connections closed after two ticks | **violated**: `DrainedServerIsReplaced` |
| `runtime_files_follow` | state file, two kubeconfigs, two writes | reported files are whole; watched changes are acted on, the state file is followed, its removal stops the server |
| `runtime_files_missed_change` | one kubeconfig, one write | **violated**: `KubeconfigsAreFollowed` |
| `aggregate_watch_streams` | two targets at version 2 of 3, every form of request | stamps are positions, reported failures are causes, nothing outlives the handler; a client that leaves ends all, and so does one stream's end if the client reads; refinement of `MergedWatch`, by which collection watches resume |
| `aggregate_watch_named_resume` | two targets, a named watch that resumes | **violated**: `EveryWatchResumes` |
| `object_requests_one_client` | two contexts, the second primary; reads and writes of 39 paths in every mode of the proxy, and two for a proxy without a request timeout; seven mutations with their annotations; one retry; one outside write per cluster | requests go where ROUTING.md says; answers are truthful, annotations obeyed, "not found" means nowhere, a stream goes to an owner, a PUT replaces what it read; every request is answered, or waits for its client's body or an untimed call |
| `object_requests_foreign_identity` | two contexts, two PUTs | **violated**: `IdentityStaysHome` |
| `aggregate_pages_listing` | two contexts in three target lists; two keys; limits 1 to 3; two versions; one lost answer | a complete list is a snapshot, versions are stable, tokens return to their issuer, pages keep their limit, a listing ends |
| `aggregate_pages_ignored_limit` | two contexts, the first ignores limits | **violated**: `CompleteListIsASnapshot` |
| `credential_startup` | two clients, two addresses, two profiles, two checks, a TTL of one tick, one kubeconfig change | no server is started beside one another command is starting or one that could have answered; no command waits for ever; in the end one server is left, if idle moments come; the TTL spares servers whose credentials are in use |
| `context_files` | three names, two for proxies; all contexts, or one listed and two matched; two commands at a time, three in all; one kubectl change | no dangling context, no user context lost, what was added can be served, what was deleted leaves no trace |

`CHECK_DEADLOCK FALSE` stands in every configuration because every model ends: the process stops,
the request is answered, the list is complete.

Why the bounds are enough. Two requests give a last one and one that enters beside it, and every
race of the wrapper is between two handlers and the loop; a tick of delay puts a timer before,
at and after every event. Two writes put one before and one after each read. Two targets give "this
one" and "another one", the only distinction the watch and the fan-out make (the theorems remove the
bound for the watch); version 2 of 3 leaves history behind the watch and an event ahead of it. With
limits 1, 2 and 3 over four objects a page ends inside a cluster, exactly at its end, inside the
next one, and only after all of them.

Two clients are one that holds the lock and one that waits, and one that comes when a server is
there; the second profile may have the same address or another, which are the two ways servers meet.
What a
third client would add for `NoDuplicateStarts` is covered by its proof, which has no bound. Three
commands are an add-context, a second one for the same name or another, and a delete-context, of
which two overlap; `context_files` stops where `interfered` holds (`CONSTRAINT Undisturbed`), because
it is never reset and every property is conditional on it.

Fairness. Goroutines are scheduled and time passes: weak fairness of handler steps and of `Tick`.
Go's `select` picks uniformly among ready cases, so a case that is ready again and again is taken:
strong fairness of the loop's cases, except signals and accept errors, which need not happen. The
write mutex is fair (Go's mutex hands over to a starving waiter): strong fairness of `MarkEvent`.
Calls with a timeout return, and so do calls whose context is cancelled. Nothing is assumed of clients,
of calls without a timeout, of upstream watches (a stream may be silent for ever), of file changes or of
other writers, except that an in-place writer finishes. The server sets neither a read nor a write
timeout, so a client that stays and stalls can hold up what serves it. Where a liveness property
needs more than this, the property says so:

- `PendingReloadHappens` and `IdleServerEnds` are conditional on requests ending, as README.md says a
  long-running watch may defer a reload for ever.
- `OneEndEndsAll` has no condition for a client that leaves. That the end of one stream ends the watch
  has one, `ClientReads`: a stalled client keeps a copier in its write, which holds the write mutex, and
  `wg.Wait` waits for that copier.
- `EveryRequestIsAnswered` names the two things a request may wait for without end, a body its
  client does not send (`AwaitsBody`) and a call without a timeout (`AwaitsCall`). If the client leaves
  it is neither: the read of the body fails, and every call is cancelled.
- `ListingEnds` is about a client that follows its continuation tokens, and calls that have a timeout.
- `OneServerInTheEnd` has the condition `IdleWindows`, that a server waiting for its replacement finds
  an idle moment. Without it an old server and a new one on another address may coexist for ever, as
  ARCHITECTURE.md:211-212 and README.md:184-186 imply.

For `CredentialStartup` only this much is assumed otherwise: as long as a command or a server can take
a step of its own, some one does (`WF` of all of them together); that a command gives up after its
deadline is then what makes the others end. `ContextFiles` has no liveness property and no fairness.

What the lock of the credential command does not give. `NoDuplicateStarts` says what it gives
(`Doubles`): no server is started beside one on its way up that a command still waits for, nor beside
one with the same profile that has been listening since before the check. Duplicates that remain are a
server between exec and listening, on its own replacement or after its starter was killed, gave up or
was answered by another server, and one that runs another profile or is leaving and later returns with
this one. ARCHITECTURE.md:179-180 ("concurrent clients do not start duplicate servers") is true of the
starts, not of the servers; `OneServerInTheEnd` says what becomes of them.

## What the violations show

1. **A slow Shutdown is not followed by a replacement** (`serve.go:260`). The drain begins idle,
   but a request that arrives just then is refused, and its client may be slow to send the rest of it
   or to take the 503: its connection outlasts the timeout. The error of `Shutdown` takes the place of
   the change and the process exits. Connections that never brought a request to an answer are left
   aside by the property, for Shutdown closes unused ones.
2. **A kubeconfig change during start is missed** (`serve.go:96`). Kubeconfig files are read for the
   configuration before they are read for the snapshots; the state file is read the other way round,
   which is why `StateFileIsFollowed` holds. Between the two reads a token refresh is enough.
3. **A watch of one object does not resume** (`watch.go:86`). Its aggregate version is replaced by
   what a probe finds; events in between are lost. ROUTING.md:102 describes the probe, but not that the
   version asked for is dropped. Collection watches do resume (`ImplementsMergedWatch`).
4. **A PUT can carry a foreign identity** (`handlers.go:149`). If the read of a target answers 404
   or 403, or the body is not JSON, the client's uid and version go out as they came.
5. **An ignored limit drops clusters** (`aggregate.go:82`). If a server returns more than it was
   asked for, the page ends with neither a cursor nor the remaining clusters, and looks complete.

## Proofs

All theorems hold for every value of the constants that satisfies the modules' named assumptions
(finite set of requests, positive delays; a positive version bound, `None` distinct; for
`ContextFiles` also that the kubeconfigs at the start name no context of the proxy's yet). The two
about what the pages of `AggregatePages` hold have one more hypothesis, that no cluster ignores the
limit (`IgnoresLimit = {}`): without it they are false, as violation 5 shows.

What an operator on sequences computes for every input is an induction, and the library's induction
theorems take an operator as a parameter, which the provers cannot instantiate. Where a fact needs one,
`SequenceFacts` and the modules prove it by least counterexample instead (`LeastExists`, from the
library's `WFMin`, which takes a set): the set of lengths for which the fact fails has a least element,
and that one is refuted from the one before.

`ServeLoopProofs`. The promise is about requests (`rpc`), the code decides on a counter. The
inductive invariant `IInv` therefore joins `TypeOK`, `CounterIsExact` (the counter is the number of
requests between `beginRequest` and `finishRequest`, as long as the process lives),
`ReloadInterruptsNothing`, `NoLostReload`, and `LoopStands`: the process lives exactly while it has
no outcome, draining is the same as having shut down because of a change, and the loop never selects
again after that. Without `LoopStands` a drained loop might take the TTL case and a replaced one
might have cut a request. `NoLostReload` needs the exact counter: the timer gives up only if the
counter is not zero, which then is a request that will offer a token. From `IInv` follow
`TypeCorrect`, `CounterCorrect`, `ReloadSafe` and `WakeupSafe`, and, step by step,
`LifecycleImplemented`: every action maps to a step of `ServeLifecycle` or to a stutter. `TTLEndsQuiet`
adds `TTLStands`. `lastActivity` is stored before the handler and after it, so while no request stands
between the two stores the server has been quiet for at least as long as it looks idle (`idleFor <=
quiet`). While a check is under way every counted request is `late`, so that without a late one none
stands between them and what the check found still holds when the loop acts on it.

`AggregateWatchProofs`. `StampIsPosition` says the vector on the last event is what the client has
got. Its invariant `WInv` adds `Mutex` (a copier has marked and not written iff it holds the mutex),
`LinesFollow` (what a copier holds is the next event of its stream), `VectorFollows` (the shared
vector is the client's position, or ahead of it by the holder's line) and `CopiersStand` (copiers
run only while the handler streams). From it follow `TypeCorrect`, `StampCorrect` and, step by step,
`WatchIsMerged`: the watch implements `MergedWatch`. The abstract stream shows the position the client
has reached, not the events it got, so that no step has to say what filtering a sequence leaves.

`WatchIsMerged` needs one more, `RInv`: until the response header is written, a watch that asks for a
position is at that position, which names every target (`ResumeStands`).

For the end of a watch `EInv` adds `OpensStand` (what has been reported is no longer dialing, and what
the watch does not have was never opened, so that closing what was collected closes everything) and
`CauseStands` (until the client leaves or a failed open is received nothing is cancelled, so that the
first failure received is not a cancellation). From it follow `NothingLeft` and `CauseReported`.

`RuntimeFilesProofs`. `FInv` joins what the watcher does with what it reads: nothing has moved while
files are loaded; a snapshot that moved is about to be reported, or has been (`MovedIsReported`);
what is reported was read twice with the settle interval between and is whole (`ReportedIsWhole`,
from `WriterKeptUp`); writes are numbered in order, so that a state snapshot taken before the state
is read is not newer than the state (`DiskIsPast`, `SnapshotBeforeLoad`, `StateSnapshotIsNotNewer`).
That last one is why the state file is followed although kubeconfigs are not (violation 2).

`CredentialStartupProofs`. `NoDuplicate` is an action property with a history, `missed`. `CInv` keeps,
while a command is about to start a server, that every other server that is on its way up, or open with
the profile of the command, has been on its way up since the check (`NothingDoubled`), so that it could
not have answered. That nobody else waits for it is `OneHolder`: only one command is past the lock, for
which all must have opened the same file (`LockStays`: the lock file is never removed). `ExpiresInTime`
is about
`expirationForExecCredential` alone: for every TTL a credential lives between one tick and the TTL.
`TTLSpares` rests on `Covered`: the time a server has been idle and the time a credential used with it
has left add up to the TTL at most, since a request restarts the one and a tick moves both.

`ContextFilesProofs`. `UserContextsKept`: while nothing interferes, the user's contexts are in the
file or in what the one writing command has read (`KeptSomewhere`), and no command that will write or
remove is about one of them (`NamedApart`). `JobInv` says which steps a command may have before it.
`SelectionIsValid`: options that selected something also pass the validation of `state.Save`, for
every selection and kubeconfig. `NothingDangles`: every proxy context in the kubeconfig has its state.
Its invariant `DInv` says why the order of the steps is right on both sides: an add has saved the state
before it reads the kubeconfig (`SavedFirst`); a context being deleted is in at most one place, the
kubeconfig or the memory of the command that has truncated it (`InOnePlace`), and nowhere by the time
its state is removed (`Nowhere`).

`AddedIsServable` and `DeletedLeavesNothing` need two more things of the state files. From the save to
the write nobody else touches what an add-context saved (`SavedWhole`), because a command owns the paths
it works on (`OwnPaths`); and the context it adds is not one that its selection selects, so the new
kubeconfig gives what the old one gave (`SelectionUnmoved`). Where the state of a context is stays on
record in the kubeconfig, or in the memory of the command that has truncated it, until a delete-context
takes over (`HomeIsRecorded`), and that command has the file before it or has removed it
(`HomeIsCleared`). A file at the default path cannot come back meanwhile, for only the same name uses
it. One at a path given with `--state` can, for another context; the invariant holds because it then
is the only file there is to remove.

`AggregatePagesProofs`. The handler keeps nothing between two pages, so `PInv` is about what travels: a
cluster's own token in a cursor was issued by the cursor's target, the vector in the client's token is
that of the pages it has, and the handler that reads works on the target list of the token
(`TokenStands`, `HandlerStands`, `AnswerStands`). From it follow `VersionsStable` and `TokenReturns`.

What the pages hold takes three more. `TInv` adds to `TypeOK` that cursors name targets of their list and
versions their clusters have had. `LInv` bounds what the handler has read by the limit, which gives
`PageLimited`. `SInv` is why a list is complete: what the client has, what the handler has read and what
the cursor leaves always join to the whole listing at the vector of the first answer (`Continued`),
wherever the list is on its way: with the client, in a request, in the handler or in an answer. The
whole is the entries of one target after the other, each in key order above a key (`Above`), and
`AboveSplits` says that cutting it after as many entries as a cluster returned gives the two parts.
Histories only grow, so that neither changes nor compaction touch it (`ListingKept`). From it follows
`SnapshotComplete`.

`ObjectRequestsProofs`. A cluster compares versions, `PutReplacesWhatItRead` is about objects. `RInv`
says that versions never lie in the future (`Stored`), so that the version a PUT has read names the
object it read or none, for ever (`ReadStands`), through retries, late attempts and other clients.
`CInv` says where the goroutines can stand in each phase of the handler (`Staged`), that a call has had
at most one effect, or has one under way, per attempt, and only where the request was sent (`Counted`),
that a success was earned (`Told`), that a probe that is over tells what the cluster held
(`ProbesStand`), and that a mutation which searched for its object goes only where the one wish of the
annotated objects points (`Obeyed`). With the answers themselves, which are given once and for all, it is
inductive; `TypeCorrect`, `AnswerTruthful`, `NotFoundNowhere`, `StreamToOwner` and `AnnotationsObeyed`
follow. The answers are made by loops over the contexts in order; `LoopsSee` says that such a loop sees
exactly the contexts it looks for, which is all the properties need.

`Routed` compares `Routing` with the table of ROUTING.md for every path, not only those of the run. The
document's shapes are lists of segments and words; a path fits one part by part (`FitsJoined`), and the
functions of `routing.go` are shown to find the same base, names and subresource that the fitting shape
has (`ShapesAre`, `BaseIs`, `NamesAre`). The first row that matches is then the same by cases on the rows
(`RowsAre`).

Only model-checked: every liveness property, since fairness and ENABLED are beyond the prover
(`PendingReloadHappens`, `IdleServerEnds`, `FileErrorStops`, `WatchedChangeActsOn`,
`StateFileIsFollowed`, `RemovedStateStops`, `OneEndEndsAll`, `EveryRequestIsAnswered`, `ListingEnds`,
`CredentialEnds`, `OneServerInTheEnd`). Every safety property, action property and refinement of a passing
run is also a theorem. The violations are counterexamples and stay with TLC.

## Not modelled

- Bodies, headers, encodings, labels, flags, logging: formatting. That `forwardSingle` buffers what it
  copies is part of it, which is why the Helm watch of ROUTING.md has no property; so is that it
  forwards no request body (`handlers.go:16`).
- `AnnotationsAreObeyed` takes from the code which mutations look for their object first
  (`NeedsExistingObject`), and that leaves out the finalize of a namespace, which ROUTING.md:163 names.
- `internal/upstream/target.go`: builds one client per selected context; its result is the ordered
  target list, a constant of the request models. `listen.go`, `cert.go`, `util.go`, `main.go`:
  sequential helpers without state. The command capture script: a documentation tool.
- Several kubeconfig files merged by client-go, and sources that differ from the kubeconfig written;
  `RuntimeFiles` follows several files, `ContextFiles` has one.
- A TTL of 0 in `CredentialStartup` (a server that never ends by itself; `ServeLoop` has both kinds).
- A request sees one object or one collection; requests to the proxy interact only through the
  clusters and the activity wrapper.

## Plan

The order put first what runs all the time and is hardest to test. Done: `ServeLoop` with
`ServeLifecycle`, `RuntimeFiles`, `AggregateWatch` with `MergedWatch`, `ObjectRequests` with `Routing`,
`AggregatePages`, `CredentialStartup`, `ContextFiles`, and theorems about each. Left:

1. `AggregateWatch` followed by a second watch that resumes from any event received, the initial ones
   included; that a reload was preceded by five idle seconds, as a property of `ServeLoop`, which needs
   a clock like `quiet` that runs while a change is pending.
2. The representative response of a mutation against the order of an annotation (`handlers.go:127`).
3. Proofs: the safety half of the liveness properties, as invariants that name what is still to come:
   that a change of a watched file not yet acted on has a report or a poll ahead of it, that a command
   that waits holds the lock or waits for one that does, that nobody waits for a stream that has ended.
