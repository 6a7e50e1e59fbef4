# Verification of the WebUI server

TLA+ models of the server in `api/`, their TLC instances, and theorems checked
by TLAPS. The server is one Python process: a threading HTTP server, one worker
thread per running turn, and a few housekeeping threads. They share in-memory
registries under several locks, JSON files on disk, and queues to the browser
tabs. What is hard about it is the interleavings.

## Inventory

| Component (`api/`) | State | Operations | Talks to | What is hard | What makes it correct |
|---|---|---|---|---|---|
| Memory-commit lifecycle (`session_lifecycle.py`) | an entry per session: generations, segments with their owner, an in-flight guard; background threads; the draining flag | register, mark a turn completed, commit, unregister, discard, drain | turn workers, agent cache eviction, `/api/session/new`, shutdown | commits overlap with turns, with failures and with each other; the budget of the shutdown drain | no turn lost, none counted before the provider saw it, each extracted by its own agent |
| Turn lifecycle (`routes.py`, `streaming.py`, `config.py`, `run_registry.py`, `models.py`) | the session and its sidecar; `STREAMS`, `CANCEL_FLAGS`, `AGENT_INSTANCES`, `ACTIVE_RUNS`, stream and writeback owners | start, worker, Stop, repair, reclaim | journals, channel, agent | Stop against every step of the worker; late workers; failed launches; restarts | prompts and answers survive, in order, once; agents do not overlap; every turn ends, and ends in one way |
| Stream channel and relay (`config.py`, `routes.py`) | subscribers, offline buffer | subscribe with replay, put, unsubscribe | worker, Stop, SSE handlers | broadcast outside the lock, queues that drop their oldest item | a tab gets the closing event, or is told that its tail is truncated |
| Run journal (`run_journal.py`) | a file per run, sequence cache, summary cache | append, read, replay, delete | worker, replay | a reserved number whose write failed, delete against append | a replay without holes |
| Turn journal (`turn_journal.py`) | a file per session and process | append, derive states | start, worker | two terminal events | one outcome per turn |
| Sidebar events (`session_events.py`) | one-slot queues, a version | publish, subscribe, take, reconnect | almost everything that saves a session; the list cache as its listener | coalescing outside the lock | a tab that was sent a change refreshes for it |
| Process wakeups (`background_process.py`, `process_event_utils.py`) | the completion queue, completions seen and consumed, deferred wakeups, claims on durable delegations | completion, record, claim, drain, start a turn, acknowledge, release, retry | turn lifecycle, the agent's process registry and durable store | two drains and a hook at one queue; check and record are apart; 409s; leases | each completion is delivered once, none is dropped, none waits for ever |
| Clarify, approvals (`clarify.py`, `route_approvals.py`) | queues of prompts | submit, resolve, clear, relay | worker, browser, gateway | timeout against answer | an answer reaches the prompt it was given to |
| Session-list cache (`route_session_list_cache.py`) | entries with stamps, invalidation versions, single-flight claims | get, wait, build, serve stale, invalidate | sidebar events, list requests | an invalidation during a build; waiters against a claim | nothing older than an invalidation is cached or served |
| Session store and recovery (`models.py`, `session_ops.py`, `session_recovery.py`, `compression_*.py`) | LRU cache, sidecars, index, backups | load, save, undo, truncate, repair, audit | all | partial writes, lineages | the transcript survives |
| Gateway runs (`gateway_chat.py`, `gateway_watcher.py`, `runtime_adapter.py`) | remote run ids, resume state | start, stop, resume | a remote gateway | publication of a run id against Stop; resume after restart | a remote run is stopped when its turn is |
| Login, roster, profiles (`login.py`, `auth.py`, `roster.py`, `profiles.py`) | attempts, cookies, account files | log in, create, disable, delete | browser, directory | check and record apart; several files | limits hold; no half-made accounts |
| The rest | catalogues, files, metering, rendering, the browser client | | | I/O, parsing, DOM | |

`PROJECT.json` has the same list with a status per component, and the hazards at
the lines where they bite.

## Plan

The order was: what loses a user's work first, then what loses an event.

1. `SessionLifecycle`: memory commits, shown to implement the abstract
   specification `MemoryExtraction`. Done, with theorems for all its invariants
   and for the refinement.
2. `TurnLifecycle`: the turns of one session. Done, with theorems for all its
   invariants and its action property.
3. `SessionEvents` and `SessionListCache` over the vocabulary `SidebarChanges`,
   composed in `Sidebar`. Done, with theorems for all its invariants.
4. `Wakeups`: completions of processes and delegations against turns. It has
   its own, small abstraction of a turn. Done, with theorems for all its
   invariants.
5. `StreamRelay`: journal, channel, replay and cursor of one run, shown to
   implement the abstract specification `StreamDelivery`. Done, with theorems
   for its types and for the refinement.
6. Open: the answers of `Clarify` and of `Approvals`, remote runs
   (`GatewayRun`), the LRU order of the agent cache against admission, the
   start-up audit of sidecars.

## Modules

| Module | What it is |
|---|---|
| `MemoryExtraction` | abstract: how the turns of a session are handed to their agents |
| `SessionLifecycle` | the state machine of `api/session_lifecycle.py` with its callers |
| `SessionLifecycleProperties` | its type invariant, invariants, refinement mapping, fairness and liveness |
| `SessionLifecycleProofs` | its theorems |
| `MCSessionLifecycle` | its instances for TLC |
| `TurnLifecycle` | the state machine of the turns of one session |
| `TurnLifecycleProperties` | its type invariant, invariants, claims of the documents, fairness and liveness |
| `TurnLifecycleProofs` | types, the Stop and the agent, owners of runs |
| `TurnRegistryProofs` | what finished turns leave, agents that overlap |
| `TurnTranscriptProofs` | prompts, answers and their order |
| `TurnVerdictProofs` | how a turn ends for its client |
| `MCTurnLifecycle` | its instances for TLC |
| `SidebarChanges` | changes, payloads and who may see them |
| `SessionEvents` | `api/session_events.py`, its SSE handler and its client |
| `SessionListCache` | the cache behind `GET /api/sessions` |
| `Sidebar` | the two composed by a mutator that saves, notifies and clears |
| `SidebarProperties`, `SidebarProofs`, `MCSidebar` | properties, theorems, instances |
| `Wakeups` | how the agent of a session learns that a background task ended |
| `WakeupsProperties`, `WakeupsProofs`, `MCWakeups` | properties, theorems, instances |
| `StreamDelivery` | abstract: what a tab that follows a run is promised |
| `StreamRelay` | journal, channel, SSE handler and client cursor of one run |
| `StreamRelayProperties`, `StreamRelayProofs`, `MCStreamRelay` | types, the refinement and liveness; theorems; instances |

A definition `F_Bug` is a mutated form of `F`, used only to see that the
property that guards `F` can fail (`mutants` in `PROJECT.json`). Bounds are
constants (`MaxTurns`, ...) in the guards; history variables are marked as such
and no guard reads them, except that `DrainBegins` records what was complete.

### SessionLifecycle

`entries` is `_sessions`; an entry has a `generation` (turns completed), a
`committed` generation, the registered agent, `in_flight`, and the segments of
uncommitted turns by owner. One action is one critical section of `_condition`.
The provider call is outside the lock: a thread is at `"calling"` between
`StartCall` and `CallSucceeds` or `CallFails`. `_condition.wait()` is
`"waiting"`, and `WakeUp` fetches the entry again, as the code does. `call[t]`
holds the locals of a thread's commit, with the place the commit returns to
(`then`): an eviction that checks for uncommitted work, unregisters and discards
in separate critical sections; a background thread; or the drain. The drain is
its own process with a budget that may run out at any point (`DrainExpires`) and
join timeouts that may fire. After the drain the process exits, so nothing
happens once `drain.pc = "done"`.

`MemoryExtraction` promises more simply: turns of a session complete; a call for
the next ones begins when no other is under way, goes to an agent that owns them
(or to any, if nobody does), and settles them if it succeeds; nothing else
settles a turn. The refinement mapping takes for the settled turns those before
the entry was made and its committed generations (all of them, where there is no
entry), and for the call what the thread at `"calling"` captured. So
registrations, evictions, discarded entries, background threads and the drain
are stutters: none of them takes work away or counts it as done.

Left out: the `timeout` argument of `commit_session_memory`, which no caller
passes; the `_session_db` handle an eviction closes.

### TurnLifecycle

A turn is a number: its stream id, prompt and worker. `session` is the cached
`Session` object, `disk` its sidecar, each with the active stream id, the pending
turn and the rows (user, answer, error, cancel, recovery). The registries are
sets or functions over turns. `pc[n]` follows `_run_agent_streaming` from
`"prepared"` (admitted, no stream yet) to `"finished"`; `stops[k]` holds the
locals of a `cancel_stream` call, `reader` those of a request inside
`_clear_stale_stream_state`.

Atomicity follows the locks. Everything `STREAMS_LOCK` covers is one step
(`Admit`, `RegisterAgentIfCurrent`, `AgentCanInvoke`, `StopClaims`, `TearDown`).
What the session's agent lock covers is one step guarded by `LockFree`, except
the worker's writeback, which holds the lock over `"merging"`, `"merged"` and
`"saved"`, because a Stop sets the cancel event without the lock and the worker
looks for it between those steps. Reads without a lock are steps of their own
(`ClearStaleChecks` before `ClearStaleClears`).

Time is three facts: a pending turn is past its 30 s grace (`pendingOld`), and a
row's age is below 60 s, below 180 s, or more (`age`). `Timely` says that no
thread stalls for 30 s or more where it has nothing to wait for (between a claim
and its signal, or while a turn is launched); an agent may run for any time in
either case.

Abstractions: deferred save mode; one session, one cached object (an object the
LRU cache dropped behaves like a lost session, which is modelled); no
compression rotation, partial output, journaled partial rows, checkpoint thread,
Steer, ephemeral turns, regeneration or save failure; the in-process agent only,
not the gateway; the title `stream_end` is part of `done`; the interrupt a Stop
without a channel gives a cached agent is left out. An exception is raised
before or in the agent call, not inside the writeback.

### Sidebar

A change is one write to what the list shows; a list is the set of changes it
shows. `publisher[c]` holds the locals of the thread that makes change `c`:
`Save`, then `Publish` (under `_SESSION_EVENTS_LOCK`: version, payload, snapshot
of the queues), then `PutEvent` for each queue, with `TakePending` and
`PutMerged` where the queue is full, all outside the lock, and last
`CallListeners`, which clears the cache. So the tabs are told *before* the cache
is cleared, as in the code. `Payload` drops the name of the root profile and
`CoalescedPayload` merges as `_coalesced_sessions_changed_payload` does;
`ActsOn` is the server's ownership filter followed by the client's filter.

`request[t]` and `build[b]` hold the locals of a list request and of a build (of
a request, or of a background thread, named after its profile). A build takes
the invalidation stamp, reads the sources, checks the stamp, takes the source
stamp, checks again under the lock and inserts (`BeginBuild` to `InsertBuild`).
While a turn streams the source stamp is frozen (`SourceStamp`), so that only
the invalidation stamp can tell an old list.

Abstractions: one entry per profile (the display flags of the key and the
eviction of the oldest of 64 keys are left out), a build reads its sources in
one step, the age of an entry is below both TTLs, below the longer one, or
older. A tab that closes its stream leaves the publishers' snapshots: what they
would still put into its old queue reaches nobody.

### Wakeups

`queue` is the process registry's completion queue; the registry, the durable
store of delegations (`row`, `attempts`) and its lease are outside the
repository and are modelled from the calls the code makes and the answers it
expects: a claim takes a pending row, a release puts it back until
`MaxDeliveries` attempts are used, a lease that runs out releases a claim nobody
holds, and a restart queues what was not delivered. `drain` holds the locals of
`_drain_loop`; `runner[x]` is the thread that starts a turn for `x`
(`start_session_turn`, from a completion or a hook); `turn[t]` is a turn as far
as completions see it: its worker's next-turn drain
(`_drain_webui_process_notifications`), its acceptance of delegations, the call
of the agent, its teardown and its hook. Check and recording are separate steps
wherever the code has no lock over both (`RouteProcess` and `RecordDeferred`,
`CheckSeen` and `MarkConsumed`, `HookLooks` and `HookClaims`). A delegation that
is put back is appended without a look at the queue (`Enqueue`), so it may be there
twice, once from its retry and once from a sweep; claims, not the queue, keep it
from being delivered twice.

Abstractions: one session; events are well formed and younger than the age limit
of the drains; the store's sweep queues the pending rows that are not queued yet
(the store is external, and nothing in the repository says what it does with the
others); the coalesced UI event and the rebuilding of a rejected prompt are
left out.

### StreamRelay

An event is its sequence number. `JournalEvent` reserves the number and writes,
or fails to write; `SetLatest` then publishes the id in `STREAM_LAST_EVENT_ID`,
`NoteLastEventId` in the channel, each a step of its own; `PutUnderLock` buffers the item or takes the snapshot of the
listeners, and `PutInQueue` and `DropOldest` fill the bounded queues outside the
lock. `Stop` is the other producer, as long as there is a channel to take: it
takes the channel out of `STREAMS`, reads
`STREAM_LAST_EVENT_ID`, notes it and puts an item without an id. A tab asks,
subscribes with a snapshot, has the gap replayed from the journal up to the
first item that was kept (`replay`, a set that goes out least number first), and
then drains its queue, dropping what the replay has sent. `shown` has the events
of the journal among what it showed. Its cursor is what survives a broken
connection. `Die` leaves the
journal only; a tab that comes back reads it and is told that the run was
interrupted.

`StreamDelivery` promises more simply: a log grows, a tab sees its next event or
nothing, it is told "over" only when the run is closed and it has seen all of
the log (or was stopped), it is told to restore the session only if the run met
trouble, and its view may lapse, once. The log is a set of numbered events, and
the next one of a tab is the only one up to it that the tab has not seen. The
refinement mapping takes the journal for the log and `shown` for the view; a view
lapses exactly where `missed` or `misled` say so.

Abstractions: the replay reads the journal in one step; one run; the
per-session channel, the runner-observe path, heartbeats and write deadlines are
left out.

## Runs

| Run | Instance | States | Shows |
|---|---|---|---|
| `session_commits` | 1 session, 2 agents, 2 threads, 2 turns, 1 failure | 1.2 M | type and five invariants of memory commits; implements `MemoryExtraction` |
| `session_progress` | 1 agent, turns with and without owner, 2 threads, 1 turn, 1 failure | 230 k | waiters get out, the drain returns |
| `turn_stops` | 2 turns, 2 Stops at the same time, 1 crash, age to 180 s, timely, equal prompts | 864 k | type, ten invariants, saved rows stay |
| `turn_stalls` | 2 turns, 1 Stop, 1 crash, any stalls, different prompts | 3.8 M | prompts survive, in order, without timing |
| `turn_progress` | as `turn_stops` with 1 Stop, fair | 125 k | a Stop frees the session, turns are settled |
| `sidebar` | 2 tabs of one profile, one of a confined user; 3 published changes (own profile, root, all), 1 external; six budgets; fair | 178 k | type, events are not lost, no stale entry, lists are fresh, single flight; events arrive, requests end |
| `wakeups` | 2 processes, 2 delegations, room for 3 turns, 2 attempts; five budgets; fair | 271 k | type; delivered once, nothing dropped, deferred wakeups are awaited; completions settle |
| `relay` | 2 tabs, up to 4 events, queues and buffer of 2; eight budgets; fair | 159 k | type and bounds of the queues; implements `StreamDelivery`; tabs finish |
| `late_stop`, `stop_while_starting`, `stop_run_journal`, `overlapping_stops` | 1 or 2 turns, 1 or 2 Stops | | counterexamples to four statements of the documents, below |

Why the bounds suffice. In `SessionLifecycle` sessions share only the drain and
the threads. Two turns by two agents give each way a segment comes about (grown,
split by owner, split by a commit in flight); three turns (7.7 M states) have been
checked apart from the run, and the theorems say the same for any number. Two
threads give a committer with a waiter, an evictor or a drain worker. In `TurnLifecycle` two turns give a
predecessor that is late and a successor that must not suffer; two Stops give
duplicate Stops of one turn and Stops of both. Three turns with one Stop have
been checked apart from the runs, as was `turn_progress` with two Stops in a
row. `MaxAge = 2` is the largest age the code tells apart. Deadlock is not
checked, since both systems stop at their bounds.

In the three later runs a budget says what may happen in one behaviour (`due`
holds what is left of it), and the initial states choose among a few budgets:
each makes room for one kind of interference without the product of all.

- `sidebar`: two publishers at one queue need two changes, the merged event that
  is lost to a third publisher needs three; a build that is overtaken needs one
  change and two requests (a builder and a waiter), a third request to find what
  was inserted. `MaxAttempts` is 2 where the code tries 3 times: the second
  attempt is the last in the model, so that both outcomes of `MayRetry` happen.
- `wakeups`: one process reported twice (a kill and the reader thread), two
  tasks for a hook with something left to defer again, one user's turn and the
  turns of the wakeups. The code has no number of its own for `MaxDeliveries`,
  since the store is external; with 2 a row is released once and dropped once.
- `relay`: the code's caps are thousands; 2 makes an overflow, a queue that is
  drained while it is dropped from, and a gap happen with four events.

The histories of exceptions name what the code does not promise, so that the
properties can be stated of all the rest, and each is a fact about the code:
`dropped` in `SessionEvents` (a merged event that lost its place to another
publisher's), `twice` (two events of one process at the two drains at once, or a
delegation whose ACK failed or was cut off), `lost` (what a turn that ended early,
a refused thread or the process took with it), `excused` (recorded when no
turn's hook was to come), `abandoned` (claims of a turn that ended early),
`missed` and `misled` in `StreamRelay`. The races themselves are therefore excused,
not caught; the hazard list in `PROJECT.json` names each one with its history.

Where timing matters. Without `Timely`, `AgentsDoNotOverlap`, `VerdictIsSaved`
and `StreamIsClosed` fail: a launch that stalls past the 30 s grace is repaired
as stale and its worker still starts. With stalls *and* equal prompts, a late
worker may take the repair marker of a newer turn of the same text for its own
(`_stream_writeback_can_supersede_recovery_marker` compares texts) and drop that
turn's rows; this is why `turn_stalls` has different prompts.

### What the documents say and the code does not do

- `late_stop`: `completed` is not always the last event of a turn in the turn
  journal; a Stop between `CompleteTurn` and `CommitWriteback` adds
  `interrupted`.
- `stop_while_starting`: the worker marks its row running without looking at the
  phase, so a row may leave `cancelling` for `running`.
- `stop_run_journal`: the run journal of a stopped turn may lack a terminal
  event: `cancel_stream` does not journal its event, and a worker that lost its
  session leaves without one.
- `overlapping_stops`: of two Stops of one turn, the one without a channel may
  settle the session first; the other then suppresses its event, and nobody
  closes the channel. `StreamIsClosed` therefore leaves such turns out.

Seen while modelling, and stated as an exception of a property rather than as a
run of its own:

- The drain of the next turn is said to claim deferred wakeups
  (`background_process.py:1520`); the drain in `streaming.py` looks at the
  completion queue only. A wakeup that is recorded after the last hook has
  looked therefore waits for the end of some later turn (`excused`).
- `config.py:11073` calls dropped frames recoverable through the run journal by
  the last event id. They are for a tab that reconnects before it shows a later
  event; once it has shown one, its cursor is past them (`missed`).
- Between its read of `STREAM_LAST_EVENT_ID` and `note_last_event_id`, a Stop
  may set the channel's last id back over an event the worker has put
  (`streaming.py:14490-14497`; `misled`).
- The list handler answers an aged list and rebuilds behind it, also when an
  unpublished write is what made it old. That is documented
  (`route_session_list_cache.py:470`), and is why `ListsAreFresh` speaks of
  announced changes.
- A tab's `onopen` fires before its handler subscribes (`routes.py:16962`): a
  change published in between reaches it with the next event.

## Fairness

`SessionLifecycle`: threads that are not in a provider keep running, the drain
keeps running, its budget runs out. Nothing says that a provider call returns;
`WaitersGetOut` assumes it in its hypothesis (`ProviderReturns`),
`DrainReturns` does not. `TurnLifecycle`: launches, workers (except inside the
agent), Stops and the clock keep going, and clients keep asking for the session,
which triggers the stale check (the browser polls it). All of it is weak
fairness: each of these is a thread that runs on as long as it can. Nothing says
that an agent returns; `TurnsAreSettled` assumes it (`AgentsReturn`),
`StopFreesTheSession` does not. `Sidebar`: publishers that have begun, the
handlers of open streams, requests and builds run on; nothing says that a tab
opens a stream, closes it or asks for a list. `Wakeups`: the drain thread, the
timer, the threads that start turns, the hooks and the workers run on, agents
return; a worker that was given up need not (`turn[t].pc # "orphaned"`), and
nothing is assumed of users, tasks or leases. `StreamRelay`: the worker, Stop
and the handler of a connected tab run on; nothing is assumed of connections. A
tab that can take several steps has one fairness condition for their
disjunction, never one for a choice the environment makes (a failed write, a
broken connection, a trouble).

## Proofs

Every invariant that a passing run checks, the action property `SavedRowsStay`
and the refinements of `MemoryExtraction` and `StreamDelivery` are theorems. They
are about `Spec`, without fairness, for every value of the constants under the assumptions named
here. Each inductive invariant was an invariant of a TLC run before it was
proved.

### Turns

The four modules build on each other. What the first one proves, and what the
second says of registries, holds timely or not; the assumption on the constants
is `BoundAssumption`.

`TurnLifecycleProofs`:

- `TypeCorrect`: `Spec => []TypeOK`, on which the others rest;
- `StopReachesTheAgent`: `StoppedAgentIsInterrupted`. The invariant is inductive
  only together with `AgentIsPublished` (a worker between publication and call
  has its handle published unless a Stop has taken the channel), so that a Stop
  which takes the channel takes the handle too;
- `OwnersOutliveRuns`: `RunsHaveTheirOwner`. It needs `RowsBeginWithAdmission`
  (a worker that has not been admitted has no row), without which a failed launch
  could drop the owner of a turn that still has one.

`TurnRegistryProofs`: `RegistryInv` says who holds what. A registry holds a turn
only while its worker will still take it out (`RegistriesFollowWorkers`); the
session, if it has a turn, has the latest, and with it the writeback, unless the
worker is past its merge (`ActiveIsUnsettled`, `ActiveOwnsWriteback`); the sidecar
is behind only between a merge and its save (`DiskFollows`); and a session that
is active without a stream has a Stop at work on it (`DetachedIsStopped`). Hence
`NothingIsLeftBehind` (`FinishedTurnIsForgotten`). `TimingInv` adds what the ages
of rows and the grace of a pending turn mean when no thread stalls: a repair
finds no turn whose worker will still come. Hence `AgentsRunAlone`
(`AgentsDoNotOverlap`), under the hypothesis `Timely`, without which it is false
(see above).

`TurnTranscriptProofs`: the five properties of the transcript rest on one
invariant, `TranscriptInv`, because a worker writes its own copy back over the
session. What keeps that from losing anything is `SeenIsCurrent`: the copy of a
worker that may still merge has every prompt and answer of earlier turns. A step
does one of five things to a transcript (`Kinds`: it leaves it, and may save it;
admits a prompt; restarts from disk; drops a turn that could not be launched; or
writes a turn's rows). One lemma says which (`StepsOfTranscripts`), and the
invariants are proved per kind rather than per action. The hypothesis is `RepairsAreRecognised`: no thread stalls, or no
two prompts have the same text. Both fail together in the case described above,
where a late worker takes the repair marker of another turn for its own; the runs
`turn_stops` and `turn_stalls` are the two sides of it. The theorems:
`TranscriptsAreInOrder`, `NoPromptIsLost`, `NothingIsShownTwice`,
`CompletedTurnsAreSaved` and, for steps, `NoSavedRowIsTakenAway`. (`turn_stalls`
checks two of them; that saved rows stay when threads stall is left to the
theorem, and was checked by TLC apart from the runs.)

`TurnVerdictProofs`: `TheVerdictIsSaved` and `EveryStreamIsClosed`, under `Timely`,
from `VerdictInv`. Until its worker has put an event, the channel of a turn has
at most the one of a Stop that settled it (`ChannelsAreQuiet`); who settles a turn
has saved its row before it puts (`StopsHaveSettled`, `LosersAreCancelled`); and a
settled turn without an event has a Stop that is about to put one
(`SettledTurnsClose`).

### Memory commits

`SessionLifecycleProofs` proves the invariants of `session_commits` for any
number of sessions, agents, threads, turns
and failures, with and without owner: `TypeCorrect`, `OneCallPerSession`,
`WorkIsCutIntoSegments`, `WorkStaysWithItsOwner` and
`NothingIsSettledUnextracted`. They follow from one inductive invariant, `Inv`,
because they need each other. A success may settle what it
captured because the segment is still the first (the cut), belongs to the agent
that was called (the owners), and nobody else has committed in between (the
guard). `Inv` adds two facts: a call's agent owns the first segment, and the
turns up to the captured generation were complete when it began (`Captures`);
and base plus generation is the number of turns (`Counted`), so that forgetting
a clean entry forgets nothing. The lemmas before the actions say what the three
operations on segments do to a cut: `GrownCut` (a turn completes), `BegunCut` (a
commit starts), `CommittedCut` (it succeeds).

`TheDrainIsThorough` (`DrainLeavesNothingBehind`) is proved on top of `Inv`, from
`DrainedInv`: in a pass without progress, each session the drain is past has its
turns extracted, or a thread of the drain is still at work on it
(`PassesAreThorough`). That thread waits for any other commit of its session
(`DrainWorksAlone`), so when it comes home without progress there was nothing to
do; `NothingToStart` says that then everything is extracted. A pass with progress
is followed by another one, and only the last one matters.

`CommitsImplementExtraction`: every step is a step of `MemoryExtraction` or a
stutter. `Inv` carries all of it. The guard makes the call of a session one
(`CallOfOne`); the cut and the owners make what a commit captures the next turns
of its agent (`StartCallBegins`); the cut also makes a call cover at least one
turn (`CallCovers`), so that a call that returns is seen to; and the count makes
an entry that is made anew, or forgotten when clean, a stutter
(`RegisterAgentIsStutter`, `EvictDiscardIsStutter`).

The module assumes that there is a session and that turns are marked with
handles (`SessionsAssumption`, `MarkAssumption`), nothing else.

### Sidebar

`SidebarProofs` proves the five invariants of `sidebar` for any number of tabs,
profiles, changes, requests, failures and attempts. Events and cache share no
variable, so there are two inductive invariants. `EventsInv` is `NoRefreshIsLost`
with what a publisher knows of the queue it is at. `CacheInv` says that a build
never holds an invalidation stamp ahead of the present one, and that a finished
build whose stamp is still valid shows everything that was cleared so far
(`BuildsShowWhatWasCleared`): a clear moves the stamp on, announced changes were
saved before, so a build that took its stamp later has read them. Entries and
answers inherit this (`EntriesShowWhatWasCleared`, `RequestsAreSound`). Single
flight is an invariant of its own over claims and builds. Assumed: tabs are not
profiles (so that a builder is one or the other), and the markers `NoList`,
`NoTab` and `NoEvent` are none of the values they stand beside.

### Wakeups

`WakeupsProofs` proves the four invariants of `wakeups` for any finite set of
tasks and any number of turns. `StateInv` is the base: types, what a turn's,
the drain's and a runner's phase say about their other fields, who holds a claim
(`ClaimsAreHeld`: one thread, or one turn, or nobody any more), and the
accounting of attempts (`AttemptsAreCounted`), which keeps `attempts` within
`MaxDeliveries`. On it rest

- `DeferredWakeupsAreAwaited`, inductive with `StateInv`;
- `NothingIsEverDropped`: one lemma says how each place hands on what it has
  (`TurnsGoOn`, `ProcessesGoOn`, `RowsMove`, `DelegationsGoOn`), and `KeptInv`
  follows for processes and delegations alike, a restart being its own case;
- `NothingIsDeliveredTwice`, the deepest: a process outside `twice` is in one
  place (`InOnePlace`: the drain, a runner, the deferred wakeups, one turn, or
  delivered), and it gets there when it is consumed, so that no second event of it is
  taken up, or after a restart when there is none left (`NoEventLeft`). This
  needs that one turn at a time is live (two next-turn drains would meet), and
  that deferred wakeups are distinct (a hook that defers a leftover again must
  not keep a copy). A delegation has been delivered only if its row says so or
  its thread is about to say it (`DelegationOnce`).

Assumed: tasks are finitely many (a sweep puts the pending rows in an order),
processes and delegations are disjoint, at least one attempt, `NoTask` and
`User` are no tasks, and the budgets are well typed.

### Relay

`StreamRelayProofs` proves `TypeCorrect` (with the cap of the buffer and of every
queue) and `RelayImplementsDelivery`: every step of the relay is a step of
`StreamDelivery` or a stutter, for any number of tabs, events and visits and any
cap of at least one. `RelayAssumption` says that the sender is a tab, that the
cap is positive and that the budgets are well typed.

The invariant behind it, `RelayInv`, says of the channel that the buffer has every
event that was put since its oldest item (`BufferIsRecent`), and of a tab:

- it has shown, or missed, every event of the journal up to its cursor
  (`ViewIsUpToCursor`);
- beyond the end of the replay nothing is lost: an event is in the queue, or the
  worker is about to put it there, or it is on record as dropped
  (`NothingIsLost`);
- nothing comes twice: what is in the queue beyond the end of the replay is
  ahead of the cursor (`NothingComesTwice`), and the queue is in order
  (`QueueIsOrdered`), although producers broadcast outside the lock;
- no tab has a cursor at an event whose number is not noted yet (`NotAhead`),
  which is what lets `After` tell a cursor of this run from one that is ahead.

From these, what goes out next is the next event of the journal for its tab, or
makes its view lapse (`UpNext`, `ShowsKeepsTheView`). Each action then has a lemma
that says which abstract step it is (`...Maps`). A tab for which Stop had set the
channel's last id back is `misled`, and its view lapsed; of the last three
facts the invariant then keeps only the order of the queue.

### Only model-checked

The liveness properties (`WaitersGetOut`, `DrainReturns`, `StopFreesTheSession`,
`TurnsAreSettled`, `EventsArrive`, `RequestsEnd`, `CompletionsSettle`,
`TabsFinish`): neither liveness under fairness nor `ENABLED` is within the
prover's reach. And the four violated claims, which have counterexamples.

## Not modelled

The map names few of the repository's lines, and a model that named a third of
them is not to be had: `routes.py`, `models.py`, `config.py` and `streaming.py`
are 67,000 lines of which most parse requests, build responses, migrate files or
look up catalogues, one request at a time. What is modelled is where threads,
tabs and restarts meet.

Left out, with the reasons:

- Clarify prompts and approvals: protocols between a waiting agent and a browser
  of the same kind as the wakeups, independent of the modelled parts. Their
  hazard is in the list, without a property.
- Gateway runs: the outcome depends on a remote server that the code can only
  poll; a model would mostly be a guess at that server.
- Login, roster and profiles: a rate limit around directory lookups, and account
  files written one request at a time.
- Session recovery and compression lineages: sequential work on files at start-up.
- The LRU order of the session and agent caches: only what an eviction does to
  memory commits is modelled.
- The summary cache, shards and deletion of run journals; the submitted event
  and derived states of the turn journal.
- Files, providers, rendering, metering, deployment and the rest of the browser
  client: I/O, parsing or layout rather than protocols.
