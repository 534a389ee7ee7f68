# A TLA+ model of multi-supplier replication in 389 Directory Server

389 Directory Server is an LDAP server whose defining feature is multi-supplier
replication: every server accepts updates, stamps them with a change sequence
number (CSN), logs them and sends them to its peers. This project models that
part of the server: it is where several threads, several servers, clocks,
timers and failures meet, and where the code makes promises that tests can
hardly reach. All modules are translated from the C code under `ldap/servers`.

Paths below are relative to the repository; `replication/` stands for
`ldap/servers/plugins/replication/`, `slapd/` for `ldap/servers/slapd/`.

## 1. The system

### Components, their state and operations

| Component | Code | State | Operations |
|---|---|---|---|
| CSN | `slapd/csn.c` | none | compare, maximum, conversions |
| CSN generator | `slapd/csngen.c` | sampled time, local offset, remote offset, sequence number | draw a CSN, adjust to the clock, adjust to a peer |
| Generator state | `replication/repl5_replica.c` | `nsState` in the configuration, "a CSN was assigned" flag | periodic write, write at stop, read at start |
| Update vector (RUV) | `replication/repl5_ruv.c` | per replica: min CSN, max CSN, pending list | add in progress, cancel, commit and roll up, compare |
| Pending lists | `replication/csnpl.c` | CSNs in order, committed flag, primary CSN | insert, remove, commit all, roll up |
| Plugin callbacks | `replication/repl5_plugins.c` | primary CSN in thread-local storage | pre-operation, changelog and RUV write in the transaction, post-operation |
| Replica | `replication/repl5_replica.c` | RUV, generator, list for the min CSN, locking supplier | assign and abort a CSN, update the RUV, exclusive access |
| Backend transactions | `slapd/back-ldbm/` | SERIAL lock, transaction | begin, commit, abort, plugin calls |
| Incremental protocol | `replication/repl5_inc_protocol.c` | state machine, event bits, terminate flag, backoff timer | wait, acquire, send, back off, stop |
| Acquire and release | `replication/repl5_protocol_util.c` | replica-acquired flag, consumer RUV saved in the agreement | start and end of a session |
| Backoff timer, event queue | `replication/repl5_backoff.c`, `slapd/eventq.c` | queue of events, pending event of the timer | queue, cancel, run |
| Update windows | `replication/repl5_schedule.c` | windows, event of the next boundary | in window now, boundary passed |
| Protocol thread | `replication/repl5_protocol.c`, `repl5_agmt.c` | the protocol object of an agreement: which protocol runs, which is next, stop flags, its lock | start, stop, initialise, free |
| Total protocol | `replication/repl5_tot_protocol.c`, `repl5_total.c` | entries sent, results received, outcome, abort and stop flags shared by two threads | acquire with retries, send, read results, release, stop |
| Consumer sessions | `replication/repl_extop.c`, `repl_connext.c`, `repl5_replica.c` | state flags and holder of the replica, extension of a connection, backend online or not | Start, End, updates and entries, destruction of a connection, offline and online |
| Changelog | `replication/cl5_api.c`, `cl5_clcache.c` | records, purge RUV, per session a buffer and what each side has of each replica | write, replay, trim, rebuild after a crash |
| Update resolution | `replication/urp*.c`, `slapd/entrywsi.c` | per-value and per-name CSNs | resolve conflicts |
| CleanAllRUV | `replication/repl_cleanallruv.c` | lists of cleaned replica ids | clean, abort |

How they interact: a worker thread runs an update. The pre-operation callback
puts its CSN in the pending list (a replicated update) or the backend draws one
inside the transaction (a local update). Plugins called in the transaction start
nested updates. `write_changelog_and_ruv` writes the changelog record and
advances the RUV inside the transaction; `process_postop` runs after it, cancels
what failed and calls `agmtlist_notify_all`, which sets an event of every
agreement. The protocol thread of the agreement wakes up, compares the RUV with
the one it saved of the consumer, acquires the consumer, reads its RUV, replays
the changelog from there and releases it. On the consumer the Start operation
acquires the replica for the connection, the same plugin callbacks apply the
updates, and End, a failure or the end of the connection releases it. An
administrator's request makes the thread of the agreement run the total protocol
instead: the consumer goes offline, imports the entries and comes online at End.
The trimming thread removes the changes that every agreement knows its consumer
to have. Both ends tell their CSN generator of the CSNs of
the other.

### What is hard

* Several worker threads draw CSNs while the clock is set and sessions adjust
  the generator; the offsets must keep the CSNs of one replica increasing.
* CSNs are drawn in one order and commit in another; the RUV may say "I have
  everything up to x" only when no smaller CSN is pending, and a nested update
  shares the fate of the update it belongs to.
* Steps fail one by one: before the transaction, in it, at its commit.
* The protocol thread sleeps on a condition that a dozen callers set; it
  tests, resets and consumes events in different places, so wake-ups can be
  lost. Its backoff timer is run by another thread, without a common lock.
* A session ends in many ways, and every one must release the consumer.
* Crashes lose what was not yet written to `nsState` and to the agreements; the
  RUV is rebuilt from the changelog.
* On the consumer several operations of several connections run at a time, and
  Start, End, failed updates, connection destructors and imports all acquire and
  release the same replica.
* An agreement is stopped, started and initialised by threads that share flags
  with its own thread, partly without a lock.
* A session reads the changelog in buffers while changes commit out of order and
  old ones are trimmed.

`PROJECT.json` lists these hazards at their lines, with the properties that
would catch them.

### What makes each part correct

* Generator: the CSNs of one replica are unique and increase, across threads,
  clock changes and restarts; they follow what the replica heard of.
* RUV: it covers what the changelog has, nothing that was not applied, and
  nothing that can still be cancelled; nothing stays pending for ever.
* Protocol: no wake-up and no timer is lost, the consumer is held only in a
  session, every change arrives as long as the consumer can be reached, and a
  stop ends the thread.
* Consumer sessions: one supplier at a time updates a consumer, in order; every
  way out but a failed import gives the replica back; data of a total update that was cut short is
  not passed on.
* Protocol thread: what is freed is not in use, requests that reach the running
  protocol are followed, no mark or lock stays behind.
* Total update: a consumer that End puts back into service has everything; both
  ends finish.
* Changelog: a consumer has every change its RUV covers; trimming removes nothing
  a consumer lacks; after a crash the RUV covers the changelog; everything
  arrives.
* Not covered: that replicas which exchanged all changes hold equal entries
  (conflict resolution).

## 2. Modules

| Module | Models | Run by | Proved in |
|---|---|---|---|
| `CSN` | the CSN record, its order | | |
| `StampClock` | abstract: what replication needs of a source of CSNs | through `CSNGen` | `CSNGenProofs` |
| `CSNGen` | the generator, its callers and its persistence; implements `StampClock` | `MCCSNGen` | `CSNGenProofs` |
| `UpdateVector` | RUV, pending lists, plugin callbacks, transactions | `MCUpdateVector` | `UpdateVectorProofs` |
| `IncProtocol` | the incremental protocol of one agreement | `MCIncProtocol` | `IncProtocolProofs` |
| `ProtocolThread` | the threads and protocol objects of the agreements of a replica | `MCProtocolThread` | `ProtocolThreadProofs` |
| `TotalUpdate` | a total update: sender, result thread, consumer | `MCTotalUpdate` | `TotalUpdateProofs` |
| `ConsumerSession` | the sessions of one replica on the consumer | `MCConsumerSession` | `ConsumerSessionProofs` |
| `Changelog` | logging, replay, trimming and recovery on one supplier, and its consumers | `MCChangelog` | `ChangelogProofs` |

How they fit: `ProtocolThread` has the runs of the two protocols as a start, a
loop and an end; `IncProtocol` and `TotalUpdate` are what happens inside.
`IncProtocol` counts changes; `Changelog` says which changes a session sends.
`TotalUpdate` has the consumer as five states; `ConsumerSession` is what Start,
entries, End and a lost connection do there. `UpdateVector` is the RUV that
`Changelog` uses in the shape of its max and min CSNs.

### CSNGen

`st` is `gen->state`, `saved` is `nsState`, `thread` is where each worker thread
is in `replica_generate_next_csn`. One step is one critical section of the
generator's lock. `NewCSN` is `csngen_new_csn`; `AdjustTime` and
`AdjustTimeFails` are the two outcomes of `csngen_adjust_time`. The actions are
the callers: `GenerateNextCSN`, `AdjustToBase`, `RedrawCSN`, `DrawFails`,
`AssignCSN` (a worker thread); `SessionCSN`, `UpdateCSNGenState` (sessions);
`UpdateState` (every 30 s), `Stop`, `Start`, `Crash`; and `SetClock`. Times are
small numbers, `MaxSeq` stands for `CSN_MAX_SEQNUM` and `MaxAdjust` for
`CSN_MAX_TIME_ADJUST`. `last`, `heard` and `durable` are history variables: the
last CSN drawn, the greatest CSN of a peer accepted, and both at the last write
of `nsState`.

`StampClock` is the abstract specification: it issues a CSN above everything
issued or heard, hears of a CSN, saves, and a crash takes it back to what was
saved. `Abstract == INSTANCE StampClock WITH now <- last` is the refinement
mapping; a step of `CSNGen` that draws nothing and hears nothing is a stutter.

### UpdateVector

CSNs of one replica are numbers; `max`, `min` and `pl` are the elements of the
RUV with their pending lists (a set, since the list ascends by CSN), `minpl` is
`min_csn_pl`, `tls` the primary CSN in thread-local storage, `op` the operation
of each thread, `nested` the nested operations in the transaction, `txnlog` and
`log` the changelog records. At most one thread is in a transaction, as the
SERIAL lock of `dblayer_txn_begin` makes it. A replicated update is added to the
pending list before it has the lock, so it overlaps with the transactions of
others. `Spec` has the failures inside a transaction; `EarlyFailureSpec` adds
failures before it begins, which the code does not survive (findings below).
A failure of the commit itself is in `Changelog`.

### IncProtocol

`state` and `pc` say where the thread is in `repl5_inc_run`, `events` is
`prp->eventbits`. A run of `event_occurred` tests is one step; the places where
an arrival in between matters are split: the test of the window and
`reset_events`, the shutdown test and `reset_events` of the fatal state, the
last test and `protocol_sleep`, and in the timer the event being taken from the
queue and its callback being run. `repl5_inc_stop` is two steps. Every action of
the thread is one `case` of the switch; the callers (`Change`, `NotifyUpdate`,
`AdminRequest`, `WindowStateChanged`, `StopSetsTerminate`, `StopNotifies`) and the event queue
(`TimerDue`, `OrphanDue`, `BackoffExpired`) interleave with it.
`acquire_replica`, a session and `release_replica` are modelled by what they can
answer and what they change: the saved RUV (`known`), the RUV of the consumer
(`received`), the replica-acquired flag. The result-reading thread shows as the
outcomes of a session; a session may succeed with changes that were not applied
(`unacked`), because the wait for results is given up without an error or
because the consumer refused a change with an error that is skipped.

### ProtocolThread

Per agreement: `protocol` and `stopping` (`ra->protocol`,
`ra->stop_in_progress`), `rp` (the protocol object: lock, `state`,
`next_state`), `inc` and `tot` (the stop flags of the two protocols), `thread`
(where `prot_thread_main` is). `caller` is where a thread is in `agmt_stop` or
`agmt_initialize_replica`, and on which agreement; several callers may be at the
same agreement. A step is a critical section, or one access to a flag
without a lock. Waits of a stop end by their time limit, so `Waited` is always
true: `prot_stop` may go on while the protocol still runs. The marks
`REPLICA_TOTAL_EXCL_SEND` and `_RECV` are tested and set in two steps, as in the
code, by the threads and by the Start of a total update that is received.
The fatal state of the incremental protocol is three steps: the test for a
shutdown (`IncFatal`), `reset_events` (`IncFatalReset`) and the sleep
(`IncWakes`); what comes between the first two is lost.

`overlap` is a history variable: the agreements on which two requests have met in
one of the two ways in which `agmt_stop` frees an object in use, a start during a
stop that has found no protocol, and a stop between the test and the use of the
protocol in `agmt_initialize_replica`. `Meets` puts them in; nothing further is
requested of such an agreement, and `NoUseAfterFree`, `SendNotLeaked`,
`ShutdownFollowed` and `InitializeFollowed` promise nothing about it. All other
meetings of requests (two stops, a stop during a start, an initialisation that
finds a stop) are followed.

### TotalUpdate

`pc` is where `repl5_tot_run` is, `reader` the result thread; they share `rc`,
`abort` and `stop` of `cb_data` and the connection (`up`). Entries are numbered
in the order of the connection. `CutShort`, `PushLost` and `PushFails` are the
three ways an entry is not sent: told to stop, connection lost, a failure of the
supplier's own, after which the connection stays. The consumer imports in order
and goes online when End arrives after all entries that were sent. When the
connection is gone, `ConsumerCloses` has both orders of the destructors: that of
replication ends the import as if it were complete (`slapi_stop_bulk_import`), which
leaves the consumer "unfinished", online with whatever part it has but, as
`ConsumerSession` says, without agreements that supply it; when that of the
database comes first the import is "aborted" and the backend stays offline.

### ConsumerSession

`flags`, `locker` and `abort` are `repl_state_flags`, `locking_conn` and
`abort_session` of the replica; `ext` is the extension of a connection, `op` the
operations of a connection in worker threads (two at a time), `import` whoever
has the backend instance busy. Start is split at its critical sections:
`StartCheck`, `StartMark`, `StartAcquire`, `StartBegin`, `StartDisable`,
`StartReply`, `StartCleanup`; End likewise. `Readable` is the rule of
`connection_threadmain`: the next operation of a replication session is read
when the one before has ended. An import can fail (`ImportFails`, `TaskFails`):
the backend then stays offline (`offline`) and the server keeps the replica until
another import succeeds. `DestroyStop` has both orders in which the extensions of
a connection can be destroyed. The supplier is an environment: it may give up
waiting and send Start again, even before the handler has returned. `upset`
records the connections whose session was undone by somebody else, by a second
Start or by a session plug-in; `UpdatesByHolder` and `OneAtATime` speak about the
others, `NotLeaked` and `AlwaysReleased` about all, with the failed import
(`LeftOffline`) as their one exception.

### Changelog

`log` is what is committed in the database; `txn` is the open write transaction,
with the change it has logged and the RUV it will store; `pending`, `ruv` and
`mincsn` are the RUV of the supplier, `dbruv` its copy in the database, `smod` the
copy that `replica_write_ruv` has read and not yet written, `purge` the purge RUV,
`known` and `saved` what each agreement has heard of its consumer in memory and on
disk. `sess` is a replay iterator with its buffer: per replica what the consumer
has, what the supplier had at the last load and at the one before. CSNs are
numbers; `RidOf` says which replica draws each, and `Adjacent` which have the time
of the one before of their replica and the next sequence number.

An operation is `Begin`, `Write` and `Commit`. `Write` is
`write_changelog_and_ruv`: it logs the change (`repl5_plugins.c:1079`) and advances
the RUV in memory (1122) inside the transaction. So the RUV covers a change that a
replay cursor, which reads in a read-only transaction
(`db-mdb/mdb_layer.c:2603`), does not see before `Commit`. `CommitFails` rolls the
change back and leaves the RUV as it is (`lost`); `Abort` is a failure before the
change is logged. A load of a buffer is two steps: `Refresh` takes the max CSNs from
the RUV and chooses the anchor, `Read` reads what is committed then; commits come
between. `NextChange` skips or sends a change, `TrimStart`, `TrimEntry` and
`TrimPurgeRuv` are the passes of the trimming thread, `Restart` and `Crash` the two
ways the server stops. Consumers apply what they are sent in order. A buffer is the
set of its changes: the cursor of a bulk read ascends by CSN, so their order is that
of the CSNs.

`missed` is a history variable for the one step that can leave a gap among known
replicas: the session takes max CSN 3 of replica 1 from the RUV while 3 is in an
open transaction, reads and sends 4 of another replica, 3 commits, the next buffer
starts after 4, and `clcache_skip_change` takes 5 of replica 1 for the neighbour of
its max CSN 3 (same time, next sequence number), promotes the max CSN and sends it.
3 is never sent, and the RUV of the consumer covers it. TLC reaches this with the
constants of the run; `NoGap`, `TrimmedReplayed` and `Converges` allow it and
nothing else.

## 3. Runs

| Run | Expect | Distinct states | Shows |
|---|---|---|---|
| `csngen` | pass | 584,457 | types; the generator stays ahead; operations are above their base CSN; bounded skew; it implements `StampClock`, crashes included |
| `update_vector` | pass | 1,086,296 | logged is covered, covered is applied, pending is running and not covered, min CSN is the oldest |
| `update_vector_early` | violation | | a failure before the transaction poisons the thread |
| `inc_protocol` | pass | 279,618 | no lost wake-up or timer, the consumer is released, changes arrive, a stop ends the thread |
| `consumer_session` | pass | 1,431,361 | only the holder updates, one operation at a time; mark and replica are not leaked, but for a failed import; partial data is not supplied |
| `consumer_session_live` | pass | 82,536 | the replica is always free again, or an import has failed |
| `protocol_thread` | pass | 197,508 | nothing freed in use but by the two overlaps, mark and lock let go of, requests to the running protocol followed |
| `protocol_stop` | violation | | a stop right after a start is forgotten |
| `total_update` | pass | 58,569 | what End puts into service is whole, aborted is honest, both ends finish |
| `changelog` | pass | 398,425 | no gap but the one described above, nothing trimmed unsent, session starts are found, the RUV after a crash covers the changelog, convergence |
| `changelog_gap` | violation | | the first change of a new replica may never be sent |
| `changelog_unsent` | violation | | changes are trimmed before they are sent |

Bounds, and why they are enough:

* `csngen`: two threads (the races are between two critical sections), clock
  values 0..2 (it can go forward, back and stand still), sequence numbers up to
  1 so that they roll over, and three remote CSNs: level with the clock at the
  last sequence number, ahead by less than the limit, ahead by more. Crashes are
  not bounded.
* `update_vector`: two threads, two remote replicas with two changes each, three
  local CSNs (a primary update with two nested ones, or three updates that end
  in any order). Threads are symmetric.
* `inc_protocol`: one change, two requests of the schedule or an administrator,
  one orphaned timer. The invariants were also checked with two changes
  (1,913,739 states), the liveness properties with two changes and one request
  (364,339 states); those runs are too slow to keep.
* `consumer_session`: two connections, so that each can be a stranger to the
  other's session, with two operations at a time each, and three Start requests
  or import tasks in all: a session, one that competes with it, and a retry or an
  import. Connections are symmetric. The liveness run has two requests and no
  symmetry.
* `protocol_thread`: two agreements, because they share the marks of the replica;
  two callers with three requests in all (a start, then two that may meet on one
  agreement: two stops, a stop and a start, a stop and an initialisation).
* `total_update`: four entries, so that the suffix, a first, a middle and a last
  entry differ, and two retries.
* `changelog`: five CSNs of two replicas both known to the consumer, two of them
  loaded with the data; the two later ones of the local replica are neighbours with
  one of the other replica between them (the case of `clcache_skip_change`); buffers
  of two changes; one failing commit, one crash and one restart or broken session;
  trimming by age. The two violations use a replica that is new to the supplier and
  one that has made no change yet, which is why the passing run has neither.

`CHECK_DEADLOCK FALSE` where the system may stop for good: the protocol after a
stop, connections that are all gone, requests used up, all changes sent.

Fairness. `CSNGen` and `UpdateVector` have safety properties only. Elsewhere the
threads of the server are weakly fair: the operating system schedules them and
their waits have limits. In addition:

* `IncProtocol`: three strong fairness conditions are assumptions on the
  consumer: a supplier that asks again and again is let in, its RUV is accepted,
  and an update is applied. Without them the code promises nothing. Nothing is
  assumed of the schedule or the administrator, so `ChangesReachConsumer` lets
  the thread rest in a closed window, in the fatal state and after a stop.
* `ProtocolThread`: weak fairness of the threads and of callers in a request;
  nothing is assumed of callers that have not begun, of the end of a session
  without a stop, or of an event other than a shutdown that would wake a thread in
  the fatal state.
* `ConsumerSession`: a supplier that was answered ends its session, which
  `release_replica` does on every path of the supplier, or its connection closes;
  a supplier without a session closes its connection. An import ends, with or
  without success.
* `TotalUpdate`: the consumer imports what arrives and notices in the end that a
  connection is gone. Whether a result comes in time is left open.
* `Changelog`: operations end, transactions commit or fail, agreements go on, the
  trimming thread runs. No fairness of crashes or restarts.

## 4. Proofs

The theorems hold for every value of the constants that satisfies the named
assumption of the module: `GenAssumption`, `VectorAssumption`, `IncAssumption`,
`ProtocolAssumption`, `TotalAssumption`, `SessionAssumption`,
`ChangelogAssumption`. They say that bounds are natural numbers, that a replica
id is not also remote or 0, that the names used for "nobody" and for tasks are no
connections or callers, and that a buffer holds a change. Only `Changelog` needs a
hypothesis of its theorems on top, `Settled`, which the passing run satisfies and
without which the statements are false.

* `CSNGenProofs`: `TypeCorrect`, `AlwaysAhead`, `GeneratorIsStampClock`,
  `OpCSNAboveBase`, `SkewBounded`. The inductive invariant is `GenInv`:
  `GeneratorAhead` alone is not inductive, since a thread between the adjustment
  and the redraw needs to know that its base CSN was heard
  (`RedrawAhead`), and a stopped server that no thread is in the middle of
  drawing (`StoppedIsQuiet`). The lemmas say that each operation on the state
  moves the generator forward. `GeneratorIsStampClock` is the refinement: initial
  states map to initial states, and `StepImplementsStampClock` shows for each
  action under `GenInv` that it is an abstract step or a stutter.
* `UpdateVectorProofs`: `VectorInvariant`, `VectorTypeCorrect`, `AlwaysCovered`,
  `PendingUncovered`, `PendingOwnedByRunning`. `VectorInv` adds the SERIAL lock,
  the single replicated operation, and who owns each pending CSN; from those
  follows that a commit rolls up exactly the CSNs of its own transaction.
  `RemoteCoveredIsApplied` rests on `CoverInv`: changes of a remote replica come
  in order, so what the RUV covers lies behind the cursor of the peer
  (`CursorKept`, `OpBehindCursor`), and the roll-up cannot pass a change that
  failed. `MinCsnIsOldest` rests on `MinInv`: `min_csn_pl` has every local CSN that
  is still open (`MinOpen`), so that its head, taken as the min CSN when it is
  committed, is at or below everything logged since; once the min CSN is set,
  everything logged or open is above it (`MinSet`).
* `IncProtocolProofs`: `IncTypeCorrect`, `IncBackoffWakes`, `IncAsleepUpToDate`,
  `IncAcquiredWhileSending`. `IncInv` adds how the three RUVs are ordered, where
  the thread may be in each state, that a session either sees every change or
  will be told of it (`SessionComplete`), and that a thread in
  `STATE_WAIT_CHANGES` - asleep or not - has everything or will be told
  (`WaitsUpToDate`). `AsleepUpToDate` follows because a thread asleep has no
  event left.

* `TotalUpdateProofs`: `TotalInvariant`, `TotalTypeCorrect`, `TotalEndedIsWhole`,
  `TotalAbortedIsHonest`. The two properties speak about the end; `TotalInv` adds
  what is known on the way: how far the search is (`SearchProgress`), that an
  update cut short leaves a closed connection (`CutMeansClosed`), when the result
  thread is gone (`ReaderGone`), and what End, an abort and an online consumer mean
  (`EndMeans`, `AbortMeans`, `OnlineMeans`).
* `ProtocolThreadProofs`: `ThreadTypeCorrect`, `LifeInvariant`,
  `ThreadNoUseAfterFree`, `ThreadSendNotLeaked`, all for any number of callers.
  `LifeInv` adds, for agreements whose requests have not overlapped, that a caller in
  a request has an object to work on (`CallerMeans`), who holds the lock of an object
  (`LockHeld`) and that at most one caller stops an agreement (`OneStop`), which is
  what `stop_in_progress` is for.
* `ConsumerSessionProofs`: `SessionTypeCorrect`, `SessionNotLeaked`,
  `SessionUpdatesByHolder`, `SessionOneAtATime`, `SessionMarkNotLeaked`,
  `SessionPartialNotSupplied`. There are three layers. `AccessInv` says for all
  connections who may have the replica to release, or that a failed import left the
  backend offline, and gives `NotLeaked`.
  `SessionInv` says, only of a connection whose session nobody undid, that it holds
  the replica from the answer to Start until End or the destructor, and that its
  operations are serial. `ImportInv` says, only while no session was undone, that an
  import belongs to the holder and a mark to a Start in progress.
* `ChangelogProofs`: `ChangelogTypeCorrect` without further hypothesis; under
  `Settled` (the loaded data has a change of every replica, there is an agreement, at
  most one commit fails) `ReplayInvariant`, `ChangelogNoGap`,
  `ChangelogTrimmedReplayed` and the action properties `ChangelogStartFound` and
  `ChangelogCrashCovered`. `NoGap` is far from inductive. `ReplayInv` adds: CSNs are
  drawn in order, so that a change the RUV covers and nobody can read, in the open
  transaction or of a failed commit, is the last one drawn of its replica
  (`DrawnInOrder`); every vector has an element of every replica (`VectorsFull`); what
  an agreement knows and what the changelog is trimmed to is never ahead of the
  consumer (`NotAhead`); the changelog keeps the last change of each replica and all
  that a consumer lacks (`LogKept`); the limits of a session come from the RUV and its
  start from the consumer (`SessionsSound`); and no change below the limit of its
  replica that the consumer lacks is behind the cursor of a session or missing in its
  buffer (`NonePassed`), which is where `clcache_adjust_anchorcsn` and the neighbour
  rule of `clcache_skip_change` are needed. The limit itself may be behind the cursor:
  that is the gap of `missed`. The loop of `_cl5GetRUV2Purge2` over the agreements is
  a recursive function; `PurgeLoop` shows that it is well defined, and what it
  returns, by the least agreement at which it would fail. The runs `changelog_gap`
  and `changelog_unsent` are the two ways in which the statements fail when a replica
  has no change in the loaded data; the observations describe what happens with two
  failed commits.

Every candidate invariant was an invariant of a TLC run on the constants of its
module's run before it was proved.

Only model-checked: every liveness property (liveness under fairness is out of this
prover's reach) and the violations.

## 5. Findings and observations

Findings, each shown by a run whose property is what the code says of itself; the
details are in `PROJECT.json`.

1. `update_vector_early`: a replicated update that fails before its transaction
   leaves its CSN in thread-local storage; later updates of that thread never
   reach the RUV.
2. `changelog_gap`: the first change of a replica that the supplier has just
   learnt of can fall between two buffers of a session. It is never sent, and a
   later change of that replica makes the consumer's RUV cover it.
3. `changelog_unsent`: when the consumer's RUV has an element without CSN for a
   replica, its changes are taken as covered and trimmed unsent.
4. `protocol_stop`: `repl5_inc_stop` sets `terminate` before `repl5_inc_run` clears
   it, and the shutdown event after the first test of the protocol and before its
   `reset_events`: both are forgotten, and the caller waits in `PR_JoinThread`.

Observations made while modelling, without a run of their own:

* `replica_generate_next_csn` uses a CSN below the base CSN when
  `csngen_adjust_time` refused the base CSN, whose result it does not look at;
  `OpAboveBase` speaks about accepted ones.
* The comment of `csngen_adjust_time` calls the remote offset the maximum jump and
  no cumulative counter; the code adds.
* After a crash the generator can make again a CSN it made since the last write of
  `nsState`: `StampClock!Crash` says exactly how far back it may go.
* A commit that fails after `write_changelog_and_ruv` leaves the RUV covering a
  change that was rolled back. While it is the last one of its replica and there is
  nothing else to send, sessions are told that changes are purged or missing
  (`_cl5CheckMissingCSN`), which `send_updates` takes for a transient error
  (`repl5_inc_protocol.c:1644`); the next change ends this. A clean restart then
  finds that the changelog does not match and makes a new one (not modelled).
* With two failed commits and a crash a gap is possible: a lost change of one
  replica in the RUV of the database keeps `replica_check_for_data_reload` from
  rebuilding it, so that the element of another replica falls behind what the
  consumer has; a lost change of that replica is sent again by its peer and applied,
  but not to the consumer, whose RUV covers it. TLC finds this in 21 steps with six
  CSNs and `MaxLost` 2; it is why `Settled` and the run allow one failed commit, and
  why `CrashCovered` speaks of crashes before any.
* The gap of `missed`, described with the module `Changelog`.
* An import that fails, of a task or of a total update, leaves the backend offline
  and the replica in use by the server until another import succeeds.
* In the fatal state of the incremental protocol a stop between the shutdown test
  and `reset_events` is lost, and a changed agreement is noticed but the thread
  sleeps before it acts on it. `IncProtocol!StopEnds` and, in `ProtocolThread`,
  `ShutdownFollowed` and `InitializeFollowed` exclude the former and nothing more.
* `acquire_replica` trusts the RUV it saved: a consumer restored from a backup
  gets no session before the supplier's next change.
* `_cl5TrimEntry` asks for the anchor CSN of replica 0 (`rid` is not set on that
  path), so a max CSN that must stay ends the pass instead of being skipped; the
  next pass begins again.
* `ruv_cancel_csn_inprogress` does not roll the RUV up: a change committed behind
  one that failed is covered only with the next change of its replica.
  `Converges` is stated of what the RUV covers.
* Trimming ignores an agreement that has no RUV of its consumer yet.
* After a crash an element whose min CSN was never stored gets its max CSN as min.
* `agmt_start` during an `agmt_stop` (both can come without `agmt_lock`, from a
  modified agreement and from CleanAllRUV), or a stop between the test and the use
  of the protocol in `agmt_initialize_replica`, frees an object in use: the
  `overlap` of `ProtocolThread`. Nothing else does.
* Two agreements that both perform a total update share one mark
  `REPLICA_TOTAL_EXCL_SEND`; the first to finish clears it. An automatic
  initialisation is dropped when a total update is being received.
* A total update in which an entry could not be sent, with the connection intact,
  still sends End: the consumer comes online with a part of the suffix
  (`EndedIsWhole` excludes it) and the supplier reports "aborted". The opposite
  happens as well: "succeeded", although the consumer failed on its last entries.
* `replica_relinquish_exclusive_access` does not look at who holds the replica: a
  late release after a failed update or by a destructor can free the session of
  another connection (`upset`). A Start repeated while the first one is still
  being handled can be undone by the cleanup of the first.
* The control that asks a supplier to yield goes out with the next update of the
  replica, whoever sent it: a local client's update uses it up.
* A refused Start allows tombstones to be reaped although another total update is
  in progress.
* A session plug-in that refuses a total update already begun leaves partial data
  that can be supplied.

## 6. Not modelled

Components with status `not_modelled` in `PROJECT.json`, with the reasons. In
the modelled ones: byte layouts and string forms, logging and monitoring, schema
push, several suffixes in one transaction, the retry of a deadlocked
transaction, changes of replica configuration while updates run, fractional
replication (the changes of `IncProtocol` are those the agreement replicates),
and the events of other users of the event queue. The last matters: events are
cancelled by address, and a timer keeps the address of an event that has run, so
`IncBackoffWakes` holds for an agreement whose events nobody else cancels.

The incremental session's own sender and result thread (message ids, flow control
window) are only the outcomes of a session in `IncProtocol`. `Changelog` leaves
out nested updates, a clean restart after a failed commit, consumers that are
suppliers of the same replica ids, cleaned replica ids,
`nsds5ReplicaIgnoreMissingChange`, import and export. `ConsumerSession` leaves out
the CleanAllRUV operations and the values of the RUVs; `TotalUpdate` the schema
push and flow control. Code of the whole server outside replication (front end,
access control, schema, storage engine, other plugins, tools) is most of the
repository by size; it is listed in `PROJECT.json` and not modelled, because it
has little state of its own that steps of several actors share, or is a project
of its own (entry cache, conflict resolution, CleanAllRUV).

Out of the prover's reach: liveness and `ENABLED`, induction over data, and
modules that use `RECURSIVE`. Where a proof needs an induction over numbers it
takes a least counterexample (`LeastNumber`).

## 7. Plan

Done: `CSNGen` with `StampClock`, `UpdateVector`, `IncProtocol`,
`ConsumerSession`, `ProtocolThread`, `TotalUpdate` and `Changelog`, model-checked,
with proofs of every safety invariant the passing runs check.

1. Proofs: what of `Changelog` holds without `Settled` (`StartFound` and
   `CrashCovered` for vectors with missing elements, several failed commits).
2. `EventQueue`: events with addresses that are reused, the timers of two
   agreements; the abstract specification "only the owner cancels an event".
3. `SendUpdates`: the sender and the result-reading thread of an incremental
   session, shown to implement the outcomes of `IncProtocol`.
4. `CleanAllRUV`, and conflict resolution on names.
