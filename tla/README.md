# Verification of runstate

runstate keeps a *run* (a long computation) as one append-only log of records.
Workers, launchers, askers and watchers are separate processes that share
nothing but that log: whoever wants to know who holds the run, what is computed
or what is asked reads it back from the records. The log offers two writes: an
append, and a compare-and-append that lands only if the log's tail is still the
seq its writer read. Everything else (a single worker at a time, a stop that is
never lost, a death that is reported once) is a protocol over those two.

This directory holds a TLA+ model of that protocol, the TLC configurations that
check it on small instances, and proofs, checked by TLAPS, of what matters most.
`PROJECT.json` is the index: components, runs, mutants, the map from every
definition to the lines it models, findings, hazards and theorems.

- [The system](#the-system)
- [The modules](#the-modules)
- [The runs](#the-runs)
- [Findings](#findings)
- [What is proved](#what-is-proved)
- [What is not modelled](#what-is-not-modelled)
- [Plan](#plan)

## The system

| Component | State it keeps | Operations | Talks to others by |
|---|---|---|---|
| Channel (`channel/`) | the log: records numbered 1, 2, ... | `send`, with or without `expected_seq`; bounded reads; `latest` | every process opens one of its own |
| Claims (`claims.py`) | none | reads: which claim a record names, ends or binds; which ids it spends; a claim's watermark | called by workers, launchers and observers |
| Nodes and lineages (`walk.py`) | none | a node's kind, the chain of its parents, the checks of a walk | same |
| Observables (`observables.py`) | held folds: each a prefix already folded | the newest claim's head, verdicts, live demand, pending stops | read by workers, watchers, deciders |
| Worker (`worker.py`) | phase, claim, position, pending and discarded values, spent ids, pending and held stops, subscriptions and leases, drain cursors, a starved exit | construct (claim), `emit`, `set`, `include`, `rewind`, `commit`, `heartbeat`, `discard`, `retire`, `stopped`, `steps`, `serve` | writes records; drains the askers' |
| Death reports (`launcher.py`) | the attempt under way | `report_death`, `report_if_dead` | compare-and-append `died`; probe of a process |
| Launchers (`launcher.py`) | handles: pending, ended, done | launch, `poll`, `wait`, `reap`, kill an orphan; the deciders `relaunch_if_needed`, `ensure_served` | spawn workers, report their deaths |
| Watcher (`watcher.py`) | per run: a witness, held folds, an event cursor | `add`, `observe`, `poll`, `wait`, `wait_all`, `iter_events`, `await_consumed` | reads, and the reap of a handle found dead |
| Memoizer (`memoizer.py`) | none across calls | `ensure`, `history` | launches and waits |
| Checkpoints (`checkpoint.py`) | prepared and bound bytes | `prepare`, `bind`, choose one on the head's lineage | called inside a commit and an exit |
| Schedules (`vocabulary/schedule.py`) | none | parse, classify, evaluate | called by workers and observers |
| Copying, sealing (`copy.py`, `migrations/seal.py`) | a run's log at several addresses | `copy_run`, `drop_run`, seal | files and rows that channels have open |
| Migrations (`migrations/`) | manifest and facts beside the logs | `migrate`: detect, dry-run, seal, transform, publish | same |

**How they interact.** A worker *claims* the run by compare-and-appending
`started` at a tail at which the newest claim had ended. It then iterates: each
`commit` first *drains* the askers' control records (stops, withdrawals,
subscriptions), answering some of them by compare-and-appended records (`nak`,
`bound`), decides the stops, evaluates the subscriptions, writes their samples,
and appends the node without a condition. Its exit is drained twice and
compare-and-appended, so that no stop falls between the last drain and the exit.
A claim ends by its exit or by a `died` report, which anybody with evidence may
write: the next claimant, a launcher that reaped the process, an operator.
Evidence may be mistaken: a worker is then *released*, learns of it at its next
drain, and writes nothing after that drain.

**What is hard.** A worker's every decision is taken from a read that may be
stale when it writes. Commits are unconditional, so a displaced worker's late
commit lands among its successor's records. Any process may die between two
writes. Sends may raise before or after landing. The compare-and-append loops
give up after `CAS_ATTEMPTS`, leaving work half done. What has been answered,
honored or bound is known only from the log, across claims. Rewinds make the log
a tree, along every branch of which a value may be committed at most once. Reads that
are held between calls (a fold, a witness, a set of live subscriptions) must stay
what a fresh read of the log would give. The hazards of `PROJECT.json` are these,
each at the line where it bites and with the properties that would catch it.

**What makes it correct**, by component:

- claim: one claimant at a time; a claim ends in one way; a dead claimant is
  found and reported by whoever claims next;
- drains and answers: every named stop is answered by the exit above it, once
  for the whole log; a nameless record is refused; a released worker answers
  nothing; a lease is bound once and served only by the claim it is bound to;
- iterations: every claim's records read back as a head; every lineage walks;
  what a rewind or a tear dropped stays out; a sample belongs to its branch;
- hand-over: a mistaken release costs at most one iteration; a late commit stays
  off the successor's lineage; no commit is lost from under a successor;
- exits that fail: no watermark claims what an exit only passed over, and a worker
  retires only when nothing is asked of it, but for [an exit that
  raises](#findings);
- channels: each backend, statement by statement, is one atomic log; a reader
  that never looks back misses nothing; a session called ended writes no more;
- observers: what is held between polls is what a read of the whole log gives;
  a verdict only grows; a client that waits is told the truth, and not too soon;
- launchers: an end is recorded once; no report is false; a child is
  killed only when a read found it an orphan; dead claims, orphans and unserved demand do not last;
- memoizer and checkpoints: what is raised is true of one's own drive; a
  checkpoint holds its node's state; every call ends;
- schedules: what a claim decides from its held state, the lineage determines;
- storage: a moved log is whole and forked nowhere; a snapshot is the log as it
  once was; what a crash left half done, a retry completes.

## The modules

```
RunLog            records, and the reads every party shares
  RunLog_proofs          lineages, for every log; under the proofs of workers and memoizer
  Worker          workers, death reports, askers, crashes over one log
    WorkerProps   the properties; its register refines ClaimRegister
      MCWorker       stops, heads, faults, live, ack_lost
      Worker_proofs          types, the exclusion of claims; exits, reports, heads,
                             lineages; the register
      WorkerRequests_proofs  leases, watermarks, retirements, stops
  Observers       the reads and the held folds, over a log that anybody writes
    Watchers      a Watcher, its wait, and await_consumed
      MCObservers    folds
      Observers_proofs
  Launchers       supervisors: launch, reap, kill, relaunch
      MCLaunchers    launch
      Launchers_proofs
  Checkpoints     when a policy saves, which checkpoint a claim resumes from
    Memoizer      ensure, over workers that save
      MCMemoizer     ensure
      Memoizer_proofs
ClaimRegister     the abstract claims of a run
AtomicLog         the abstract log of a run
Channels          each backend's statements; refines AtomicLog
      MCChannels     channels
      Channels_proofs
Storage           copies, snapshots, drops, seals, migrations
      MCStorage      storage, seal_open
      Storage_proofs
Schedules         the condition algebra and its evaluation
      MCSchedules    schedules
```

The modules compose by abstraction. `Channels` shows that an append is one
atomic step, as every other module takes it. `Worker` shows that claims are a
register, and `Launchers` and `Memoizer` keep of a worker what that register and
its exits promise: it claims when none is held, writes while its claim has not
ended, exits, is released or dies. `Schedules` decides what `Worker` leaves a
free choice. `Storage` moves the log under all of them. `Observers` assumes
nothing of who writes the log.

**RunLog** is `claims.py`, `walk.py` and the head fold of `observables.py` as
pure operators of a log and a bound `W`. A log is a sequence and a seq an index.
All record bodies are one record type, `Fields`: a missing reference is 0, and a
body is abstracted to what the properties tell apart (a stop holds at once,
later, or is refused; a subscription is durable, a lease, or refused; and so on).
No operator is `RECURSIVE`: a lineage is a recursive function on the seqs.

**Worker** has five variables: the log; `wk`, each worker's own state; `rep`, the
death report each actor has under way; and two counters that bound the askers
and the calls. One action is one step that makes at most one channel call whose
result depends on the log's tail. A read bounded by a `W` taken before is merged
with the step that uses it: the log only grows, so the read returns the same
whenever it is made. `pc` says where the worker is inside a call:

| `pc` | the code is at | leaves by |
|---|---|---|
| `idle` | outside any call | `Construct`, the calls, `BeginStopped`, `RetryStarved` |
| `claim` | top of `_claim_run`'s loop | `ResumePoint` (reads `W`), `ClaimStarved` |
| `latest` | the read of the latest claim | `ReadLatest` |
| `probe`, `held`, `report` | inside `report_if_dead`, `report_death` | `ProbeLatest`, `ProbeHeld`, the report's steps |
| `cas` | the claim's compare-and-append | `ClaimCas` |
| `answers` | `_won`, the fold below the claim | `FoldAnswers`, `FoldRaises` |
| `drain`, `take` | `_drain` before and after it has read `W` | `DrainRead`, `DrainStarved`; `TakeRecord`, `WriteAnswer`; `CallRaises` |
| `sample`, `send` | the samples, the node | `SampleSend`, `NodeFails`, `CommitSend`, `CommitUnacknowledged`, `ExitPrepared`; in an exit, `CallRaises` |
| `beat` | the heartbeat's send | `HeartbeatSend`, `CallRaises` |

`op` says what follows a drain: `CommitDecide`, `HeartbeatDecide`, `ExitNode`
(steps 1 to 4 of the exit) or `ExitCas` (its steps 5 and 6). `mode` is the
drain's: an `EXIT` drain passes over subscriptions, an `ITERATION` one, which
`retire()` uses for its exit too, registers them. `CallRaises` is any read or
compare-and-append of a drain, of an exit or of a heartbeat that raises with nothing
landed, or an interrupt there; like `DrainStarved` it leaves the worker as `Fails` says, live,
with its mark where the drain moved it. `failed` is history: an exit of this
worker's has raised so. `Skipped`, `TakesStop`,
`TakesWithdraw`, `VoidLease`, `Accepted`, `Binds` and `Refused` are the cases of
`_Requests.take`.

A death report (`ReportRead`, `ReportCas`, `ReportStarved`) is run by a claimant
inside its constructor, and by `Reporters`, which stand for launchers, operators
and session probes. A reporter may hold evidence about any claim, at any time, of
a live worker too; its evidence carries a cause or not, and outranks the probe
(`force`) or not. The probe itself answers truthfully for a worker that is not
`Unprobed`.

What is abstract: whether a schedule fires or expires, and whether a stop's
condition has come true, are free choices at every evaluation. A free choice
covers every schedule, so what holds here holds for each. The one source stands
for each source, and remembers only the position at which it was set. A value
record's `ref`, which the code does not write, carries that position into the
log for `SamplesOnLineage` to read.

**ClaimRegister** is what the claim protocol promises: a claim is made only when
none is held, and each ends once, by an exit or by death reports. In
`WorkerProps`, `Register == INSTANCE ClaimRegister WITH end <- ...` reads it off
the log; a second report that only adds a cause leaves a claim "report", and a
claim that had both ended and exited would be "conflict", to which no step of
the register leads.

**Observers** has one client per behaviour, which holds one fold and polls it
while anybody appends records of the kinds it reads, records that do not read
(`junk` bodies, references to nothing) included. `Apply...` operators are the
folds' `apply` methods, record by record; `...Polled` is a poll, and `...Cuts` the
states in which a read that raises leaves it. The one-shot reads are operators of
the whole log. `Stream` is the one stream counted, values have one of two names,
and the order of values within a node is that of their seqs. `FirstWindow`, the
first window of a backward search, is 1 where the code has 64, so that searches
take several windows on short logs.

**Watchers** adds the clients that wait. A poll takes its `W` first and reads
nothing above it, so it is one step, but for a reap, which appends above what
landed since. A verdict inferred from a session or from the age of a heartbeat is
a free choice ("presumed"): both depend on clocks and processes outside the log.
A drain moves the event cursor past all it reads (`Drain`, `IterEvents`), and the
records are handed on after that: to a callback, which may raise at any of them
(`HandOn`, `HandOnRaises`), or by a generator, whose consumer may break off at any
(`IterNext`, `IterBreaks`). `ev` remembers what became of each.
One run is tracked; `wait_all` is the same loop over several, which share nothing.

**Launchers**. `proc` is the machine: what a launch's process is, and what the
worker in it does. `handle` is a supervisor's `LaunchHandle`: `step` is its reap's
(PENDING, ENDED, DONE) and `lock` who is inside it and where, so that writes that
raise leave the step where it was and the next poll begins again. An orphan is
found and killed in two steps (`orphan` is the `W` of the read that found it), and
the child may end, be reaped, or claim again in between.
`sup` is a decider's call: the read of the log and the probe are one step, the
report another, the spawn (with its `launched` record) a third; between any two
the log may move. `launched` and `terminated` are counted in the handle and not
put on the log: no party modelled here reads them.

**Checkpoints** and **Memoizer**. `work` is the number of iterations a process has
really run, so that a checkpoint bound to the wrong node shows. `drive` is one call of
`ensure`, a step per read it makes of the handle and of the log. Its `handle` is
the worker's own process, or a wrapper's (`sh -c`, `sbatch`), which ends on its own
(`WrapperEnds`), before its worker has claimed or after it is gone. Launch ids are
request ids; one whose worker died without a record may be used again, and a drive
for which there is none waits for one: both are bounds of the instance.

**Channels**. A handle has one connection, whose client's side and server's side
fail apart. A Postgres statement takes its snapshot, inserts (waiting while a
rival holds the key uncommitted), commits and answers, in steps; SQLite holds the
file's lock from its insert to its commit; memory appends at once. `Log ==
INSTANCE AtomicLog` is the promise: an append that raised may land later, once.

**Storage**. `place` is the log at each of five addresses (older and current
format on SQLite and on Postgres, and a second SQLite root with snapshots), and a
copy, a drop and a migration advance by their reads, seals, writes and renames.
Rows are claims, ends and odd rows that a migration step refuses. `mid` marks the
middle of `seal_sqlite`, between leaving WAL and clearing the write bits.

**Schedules**. Terms, schedules and evaluation are pure operators; around them a
claim drains one subscription's sends (`plan`), iterates, rewinds, resumes and
exits, holding `live`, `reg` and `depth` as `_Subscriptions` does. `Replay` is a
reader's (`history`), over a lineage, from the log alone.

Definitions marked `\* mutant:` change nothing. Each is a plausible bug in the
definition that follows it; putting it in that definition's place makes TLC find
the named property violated, which shows that the run could have failed.

## The runs

The runs of `MCWorker` each turn several features off, so that those that interact
can be explored completely. All but `faults` have two workers: the properties
relate a claim and its successor, and the log's history, not the number of
processes, is what carries one claim's effect to a later one.
`CHECK_DEADLOCK FALSE` everywhere but in `storage`: a run in which every party
has stopped, lost or died, and every bounded input is used up, really has nothing
left to do.

| Run | Instance | Shows |
|---|---|---|
| `stops` | 2 workers, a reporter, 2 of {stop, malformed stop, withdrawal, nameless stop}, a commit | `TypeOK`, `ClaimsExclusive`, `StopsAnswered`, `ReleasedAnswersNothing` |
| `heads` | 2 workers resuming from the latest head, crashes, reports with and without a cause, 3 calls, 2 CAS attempts | `OneIterationInFlight`, `NoForeignParent`, `HeadKeepsCommits`, and that `Worker` implements `ClaimRegister` |
| `faults` | 1 worker, raising samples, saves, drains, sends, exits and folds, one CAS attempt, up to 2 of {stop, lease, durable, malformed and unknown requests} and 4 calls, 5 in all | `WatermarksHonest`, `SamplesOnLineage`, `LineagesWalk`, `RetiresIdle` |
| `live` | 2 workers, crashes, rewinds, 1 of {stop, later stop, lease}, `FairSpec` | `StopsEventuallyAnswered`, `DeadClaimReported`, `LeasesBound`, `HeadAlwaysReads` |
| `folds` | one client of each of nine kinds, logs of 2 to 5 records | `HeadFoldAgrees`, `DemandAgrees`, `AnswersAgree`, `CountsAgree`, `VerdictOnlyGrows`, `WatchAgrees`, `AwaitTells` |
| `launch` | a supervisor, a launch of each kind and ending and its successor, 2 claims, a fault | `EndRecordedOnce`, `ReportsAreTrue`, `KillsOnlyOrphans`, `DeadClaimsEnd`, `OrphansKilled`, `DemandWakes` |
| `ensure` | one caller, a foreign worker, 3 launch ids, one of which may be wrapped, 2 claims, 3 commits, a save every 2, a target of 2 | `RaisesOfItsDrive`, `NoLineageLie`, `EnsureEnds` |
| `storage` | any 2 of {move, back, keep, drop, migrate}, a writer, 5 rows, a crash | `MovedWhole`, `SnapshotsHonest`, `RetriesComplete` |
| `channels` | 2 handles, 3 connections, 3 calls, 2 keys, a fault, each backend | `NothingMissed`, `EndedWritesNothing`, and that `Channels` implements `AtomicLog` |
| `schedules` | ten plans of one or two sends, 3 nodes, 2 claims, 2 instants | `ReplayAgrees`, `WindowRefusals` |
| `ack_lost`, `seal_open` | minimal | the findings below |

**Bounds.** `MaxAsks = 2` is enough for a request and what undoes, repeats or
follows it under the same id; with a single id every collision is a collision of
that id. `MaxReports = 1` releases one claim, the other ends by its exit or its
successor's report. `MaxCalls` counts the calls of both workers together, and once more
each that raises, an exit too, so 3
lets one be released, both commit, and the released one commit again; in
`faults`, 4 let a value be emitted, committed, left behind by a rewind and
included again. There the requests and the calls share a budget of five
(`SharedBudget`, a state constraint), so that two requests meet three calls, and
one request four.
`CasAttempts` (256 in the code, `claims.CAS_ATTEMPTS`) is 8 where starving is not
the subject, which nothing can exhaust within the other bounds, and 1 or 2 where
it is: there every loop starves. `heads` has `Starts = {"head"}`, because its
properties speak of workers that continue the head; a worker that is told to start
elsewhere leaves it on purpose.

In `folds`, a log of five records holds a claim, a node, a rewind or a second
claim, a node on the other branch and what refuses or ends it, in every order,
with a poll between any two of them. The watcher's logs are of three, since its poll and its reap append
too, and those of its wait of two: a claim and its end, or a record before a
callback that raises and one after it. In `launch`, one launch may be of any kind and end in any way, and one
successor is enough to be taken for it, killed for it or held up by it; one fault
is one raised send, lost session, reused pid, mistaken report or dead supervisor.
In `ensure`, two claims are a drive and a rival, and a target of two lets a drive
end below it with progress or without. The one launch that may go through a wrapper is the
first that a drive picks; the drives that follow an ended wrapper launch others, whose
handles are their workers' own, while its worker still lives and may claim. In `storage`, a writer's five rows are a
claim, its end, a second claim and its end, and one more that lands late; three
administrators at once are out (see below). `Retries = 2` in `channels` makes the
bound of an unconditional send reachable. In `schedules` the clock moves only in
plans that read it.

**Fairness.** In `live`: weak fairness of every worker's claim, drain and node
steps and of every report's steps: a process that is up runs on, and no step
waits for another process (a lost compare-and-append retries, boundedly). Weak
fairness of `Driver`, the loop of `steps()`: it commits until its target or until
a stop is pending, and the `with` block then writes the exit. Nothing is assumed
of askers, reporters, crashes or the construction of workers, so
`DeadClaimReported` speaks of a worker that has started to claim.

In `launch`: weak fairness of the steps of a handle and of a decider, a standing
loop that polls, reaps and decides, and of the system's collection of children
that nobody waits for; none of the workers, of a process's end, or of faults. In
`ensure`: weak fairness of a drive's steps (its loop sleeps and polls) and of a
worker's (it iterates, exits or dies), and of a wrapper's end; `EnsureEnds` holds within the bound on
claims, since a run that others claim for ever may keep one waiting for ever, as
it should. In `storage`: weak fairness of a copy and of a migration, which are run
again when they fail. The other specifications state none; they promise safety.

**Leads-to, and what it does not say.** `StopsEventuallyAnswered` excuses a
worker whose process dies or that a report releases; the stop is then the next
claim's, which reads it from the log (`StopsAnswered` in `stops`).

## Findings

- **`ack_lost`** (`worker.py:1285`). `commit()` tears its iteration on any raise
  of its send, although the commit may have landed. The torn exit then names the
  stale position as its parent, and the head fold refuses it: every
  `LatestClaimHead` read of that claim raises from then on, a successor's too.
  The specification provides for the lost acknowledgement
  (`docs/specs/commits-and-lineage.md:599`) and expects the torn exit to cover it.
- **`seal_open`** (`migrations/seal.py:30`). Sealing is meant to refuse a log that
  another connection holds open, and to make that connection's next append fail
  (`seal.py:22`, `docs/specs/log-formats.md:192`, `docs/specs/run-copy.md:113`). Both
  follow from leaving WAL. In a rollback journal mode, which the README recommends
  on NFS, there is no WAL to leave: the seal succeeds beside an idle connection,
  whose open descriptor the cleared write bits do not bind, and whose next append
  lands in the sealed log, after a copy or a migration has read it.

Four disagreements with the documents that smaller instances showed. The
steps are in the models, and the properties named say what holds all the same:

- **An exit that raises, and is not fenced** (`worker.py:1355`, `1390`, `1665`). The
  specification says an exit that starves fences every other call, "so no
  watermark of the claim claims a request its failed exit passed over"
  (`docs/specs/commits-and-lineage.md:728-730`). That holds when the exit's
  own loop starves. When the drain inside it does, which takes
  `CAS_ATTEMPTS` losses in a row, or when a read, an answer's compare-and-append or the
  exit's own raises with nothing landed, or an interrupt arrives, the worker stays live
  and unfenced with its mark moved (`worker.py:1400`). Its next
  commit's watermark claims the subscriptions that were passed over, and a later
  `retire()` may leave them unserved. `WatermarksHonest` and `RetiresIdle` therefore
  speak of workers that no exit left so (`failed`).
- **An event cursor past what was not handed on** (`watcher.py:529-536`). A wait drains
  to its callback "so no record under it is lost" (`watcher.py:432-433`). The cursor
  moves past the whole batch before the first callback or yield
  (`437-445`, `523`), so when a callback raises, or the consumer of
  `iter_events` breaks off, the rest of the batch is lost, and a later wait returns without
  it. `WatchAgrees` asks for every record unless that happened (`dropped`).
- **An orphan's kill that does not look again** (`launcher.py:835-836`). The child is
  killed "because the claim had already ended" (`launcher.py:692-694`). A child
  that a mistaken report released may claim again between `_orphaned`'s read and
  the kill: it is then killed while it serves, and its reap writes `terminated`
  only, leaving the claim's report to whoever probes it next. `KillsOnlyOrphans` speaks
  of the claim that the read found.
- **A claim whose fold raises** (`worker.py:1021`) reads nothing below its claim and
  still writes an exit, whose seq is the next claim's bound for nameless records
  (`claims.py:216`): one below it is refused by nobody, where
  `commits-and-lineage.md:619` and `design-v0.2.md:159` say it is refused once.
  `StopsAnswered` therefore speaks of exits of claims that folded (`FoldedExit`).

## What is proved

Each theorem holds for every value of the constants, which is every set of
workers, reporters, handles, launches, callers and requests, every bound, and
every combination of faults, calls and starts, but for the hypotheses the table
names.

| Theorem | States | In words |
|---|---|---|
| `TypeCorrect` | `[]TypeOK` | every record anybody writes has a record's shape |
| `ClaimsAreExclusive` | `[]ClaimsExclusive` | below every claim, each earlier one has ended |
| `RegisterImplemented` | `ImplementsRegister` | the workers implement `ClaimRegister`: a claim is won only when none is held, and ends in one way |
| `OneLateWrite` | `[]OneIterationInFlight` | a mistaken release costs at most one commit or heartbeat |
| `ReleasedIsSilent` | `ReleasedAnswersNothing` | a reported worker writes no exit, refusal or binding |
| `ParentsAreOwn` | `[]NoForeignParent`, if `"rewind" \notin Calls` | above its claim, a node extends its own claim's nodes only |
| `HeadsRead` | `[]HeadAlwaysReads`, if `"ack" \notin Faults` | every claim's records fold to a head |
| `HeadKept` | `HeadKeepsCommits`, if `"ack" \notin Faults` and `Starts \subseteq {"head"}` | only a rewind takes a node off what a successor builds on |
| `LineagesAlwaysWalk` | `[]LineagesWalk` | the walk never raises on what workers wrote |
| `SamplesStayOnLineage` | `[]SamplesOnLineage` | no node commits a sample of what was set on another branch |
| `LeasesAreBound` | `[]LeasesBound` | a lease is bound once, and served by its claim only |
| `WatermarksAreHonest` | `[]WatermarksHonest` | a subscription below a `consumed_seq` is held by the worker, or its id is spent, unless an exit raised and left the worker live |
| `RetirementsAreIdle` | `RetiresIdle` | a worker retires only when nothing is asked of it, with the same exception |
| `StopsAreAnswered` | `[]StopsAnswered`, if `DistinctIds` and `"fold" \notin Faults` | every stop below an exit is answered by then, and honored once |
| `BackendsAreAtomic` | `ImplementsLog` | each backend implements `AtomicLog` |
| `NoRowIsMissed` | `[]NothingMissed` | an incremental reader has, in order, all its topic has below its cursor |
| `EndedConnectionsAreSilent` | `EndedWritesNothing` | a session that a probe called ended writes no row |
| `EndsRecorded` | `[]EndRecordedOnce` | a child's end is recorded once |
| `OrphansOnly` | `KillsOnlyOrphans` | a launcher kills a child only on a read that found its newest claim reported, and not one that has exited since |
| `ReportsTrue` | `[]ReportsAreTrue` | no reap and no probe reports what is not so |
| `RaisesOwn` | `[]RaisesOfItsDrive` | what `ensure` raises is true of its own drive: called recordless, it had no claim when the log was read, and never will if its handle is its worker's |
| `NoLieIsWritten` | `[]NoLineageLie` | a checkpoint holds the state of the node that names it |
| `MovesWhole` | `[]MovedWhole`, if `Journal = "wal"`, `Quiet` and `TwoAtATime` | a log that moved is whole where it went, and sealed where it was |
| `HeadFoldIsHead` | `[]HeadFoldAgrees` | a held head fold, polled at any `W`, is what the whole log says |
| `VerdictsGrow` | `VerdictOnlyGrows` | what ended a claim is not taken back |
| `AnswersAwaited` | `[]AwaitTells` | `await_consumed` calls taken only what some record took, a dead claim's late commit too, and gives a verdict only over an untaken request |
| `AnswersAreAlong` | `[]AnswersAgree` | the answers that a reader holds are the lineage's, in order |
| `WitnessAgrees` | `[]WatchAgrees` | what a `Watcher` holds and returns is what the whole log says, and a wait that returns has handed on all of it, unless a callback raised or a consumer broke off |
| `SnapshotsKept` | `SnapshotsHonest`, if `Journal = "wal"`, `Quiet` and `TwoAtATime` | a snapshot is the log as it once was, and a sealed file only ever grows |
| `WalSealsHold` | `SealedTakesNothing`, if `Journal = "wal"`, `Quiet` and `TwoAtATime` | a sealed log takes no append |

They rest on the named assumptions of the modules: no request id is the missing
one, the bounds are naturals, asks are control records, no reporter is a worker,
no supervisor has the missing id's name, and so on. No set of a module needs to be
finite, and no bound large.

**The hypotheses.** With `"ack" \in Faults` a commit lands and its send
raises, and `HeadAlwaysReads` is false: the run `ack_lost` is the
counterexample; the next exit's parent would take that commit off the head, so
`HeadKept` needs the same. A worker that is told to start at the root or at a chosen
node leaves the head behind, as it was told to: hence `Starts \subseteq {"head"}`,
which is what the run `heads` has. With `"rewind" \in Calls` a driver may rewind to any node that
can be built upon, another claim's late commit among them, so
`NoForeignParent` is false as it should be. Neither hypothesis asks that a
claim continues the head: `ParentsAreOwn` holds of workers told to start
anywhere.

`WatermarksAreHonest` and `RetirementsAreIdle` have no hypothesis; the exception is
in the properties. `failed` marks a worker that an exit left live by raising: its
mark has moved past subscriptions that the exit passed over, nothing fences it, and
its next commit does claim them (see the findings). Every other worker is within
the theorems, the one whose exit starved and is fenced, and the one whose commits,
heartbeats, samples and saves raise, among them.
`"fold" \notin Faults` excludes a finding of its own, a claim whose fold
raises (`worker.py:1021`): it exits without having read the nameless records
that its exit's seq then shields. `DistinctIds` says that no asker gives a
subscription's id to a stop or to a request of an unknown kind. A
lease that is void or has expired spends its id in the worker's memory only; a stop
under the same id is then passed over, and its answer is on no log.
An asker picks its ids; the documents tell it not to use a spent one
again (`docs/overview.md:260`, `docs/specs/service-worker.md:334`), and
`await_consumed` refuses to wait on one. The run `stops` asks for no subscription.

The three theorems of `Storage` assume what the run `storage` does of its constants
(`Orderly` in the proofs): WAL mode
(the run `seal_open` is the counterexample to `SealedTakesNothing` without it); `Quiet`: no
channel opens a log, and none drops it, between the two steps of its seal (`seal.py:31` and `42`),
and no run is born between a copy's check and its publication (`copy.py:297` and
`330`); and `TwoAtATime`: at most two
administrators' calls are under way. The code enforces none of the three; they say how
it is to be used, and [what is not modelled](#what-is-not-modelled)
says what happens beyond. Any two of the five calls, any writers, any number of
rows and of crashes are within it.

**Worker.** `TypeOK` needs `SeqsOnLog` beside it: the tail a worker last read is
a position of the log, and so is its claim. `ClaimsExclusive` is not inductive:
the step that could break it is `ClaimCas`, which knows only that the log's
length is the `W` it read. `FreeAt(lg, W)` says that the newest claim at or below
`W` has an ending there, and `FreeAtCas` that every worker about to
compare-and-append has `FreeAt(log, W)` for its own `W`. So

    ClaimInv == TypeInv /\ FreeAtCas /\ ClaimsExclusive

is inductive: `ReadLatest` establishes `FreeAtCas`, an append changes nothing at
or below a `W`, and at `ClaimCas` the tail is `W`.

The other theorems about workers need to know more of a step than that, and
the second half of `Worker_proofs` says it once: `Step` is a disjunction of six cases (a
worker's own step, a probe, a claim won, a worker gone, a report's step, an
ask), each a relation between the worker before and after, the log and the
reports. `NextStep` shows that each of the actions is one of them. On it rests

    RunInv == ClaimInv /\ WriterInv /\ ReportsInv /\ ExitsInv /\ NodesInv /\ LateInv

- `WriterInv`: the workers' claims differ, and a worker that is applying what it
  drained up to `W` (`take`) saw no report of its claim there;
- `ReportsInv`: a report about to land saw, at its `W`, a claim without an exit,
  and something to add;
- `ExitsInv`: an exit is the only ending of its claim, and the claim's worker is
  done. The exit and the report are each compare-and-appended at the tail they
  looked up to, so whichever comes second loses;
- `NodesInv`: a worker's position can be built upon;
- `LateInv`: above a report, its claim has at most one late write, and none while
  its worker is between a drain and the write the drain was made for. Every write
  follows a drain that reads reports, and returns to the driver.

`OneLateWrite`, `ReleasedIsSilent` and `RegisterImplemented` follow.
`ParentsAreOwn` adds `OwnPositions` and `ParentsBelow` (a claim's resumption is
at or below the claim; only its own commits move it above), and `HeadsRead` adds
`PositionsHeld`: the head that the log gives for a claim is the position its
worker holds, which the lost acknowledgement breaks. `HeadKept` adds what a claimant
remembers: `FollowInv` says that from its first read on it holds the node the newest
claim's head, as of the tail `W` it read, resumes from. Such a bounded read says the
same of every longer log (`HeadSame`), and the claim lands only at that tail, where a
claim that reads has one head (`OneHead`); every other record of the newest
claim extends its head, by `HeadAlwaysReads`.

`LeasesInv` is about what is remembered of bindings: the worker of a claim knows
all of the claim's bindings, what it serves was asked for durably or bound to
its claim, and a claim that drains has folded the bindings of the claims below
it, or drains for an exit, which binds nothing. An id bound to an earlier claim
is then void for it (`VoidLease`), and so bound to no second one.

`LineagesAlwaysWalk` and `SamplesStayOnLineage` rest on `LinesInv`: what a
worker is about to commit is committed nowhere on the lineage of its position,
what it has set it has set on that lineage (`WorkerLine`), and every node committed
what its writer might at its parent (`NodeLine`). A lineage is a recursive function; what
the proofs need of it (it descends; it is its parent's with one node more; an
append does not change it) is in `RunLog_proofs`, each fact by a least
counterexample, since an induction rule cannot be instantiated. A rewind keeps
nothing of what was pending or set on the lineage it leaves, and an include may
name only what the new one has not committed.

The other three theorems follow what a worker holds of the requests, and
`WorkerRequests_proofs` says once how each step changes that (`Moves`). `HeldInv`, which needs no
hypothesis, says that a worker whose fold is done has passed over nothing: between the last
record it handled (its mark) and how far it has drained lies no control record.
`AsksInv` adds that each subscription at or below the mark of a
worker that may iterate is held or its id spent, and so for the
`consumed_seq` of each commit and heartbeat; the steps that break it, `DrainStarved` and
`CallRaises` inside an exit, set `failed`. `AnswersInv` is the same of stops: what is spent is
on the log or subscribed to, a stop at or below the mark is spent or pending, and
nothing pending was spent below the claim. At an exit's compare-and-append the
mark is the tail, so whatever is not spent is honored by this exit, and no
exit before it honored the same (`NamedInv`). A nameless record has no id by
which to look for its refusal; `ClearedInv` counts instead: up to a mark there
are no more nameless requests than nameless refusals, where a claim's first count begins at the
previous claim's watermark, which is itself the mark of some record, counted
before.

**Channels.** `RowsInv`: the committed rows' seqs are 1 to their number.
`CallsInv`: a statement's snapshot may be old, but one that has inserted holds the
seq above the tail, and no other has, by the key or the file's lock; so a commit
appends, and a guard that held at the snapshot holds at the insert, or the key is
taken. `SessionsInv`: a live backend's id is its own and not one that a probe has
called ended, its rows carry its key, and two live backends share no id. The
refinement is shown step by step in the lemmas of each backend's statements.
`NoRowIsMissed` adds `ReaderInv`: what a reader has is, in order, the rows of its topic
at or below its cursor. A row lands above the tail and so above every cursor and every
`W`; and a read from the cursor with the limit `W - cursor` (`observables.py:1059`)
cuts off nothing at or below `W`, by counting seqs. The order of a set of rows by
their seqs exists and is one, each by a least counterexample.

**Observers.** A fold over a log is a recursive function of a seq (`HeadOver`), so what
it computes can be shown by a least counterexample: that it exists, that two of them
agree, that it may be cut at any seq and taken up there, and that records to come
change nothing of it. A claim resets the head, so only what the newest claim
wrote matters (`FromNewestClaim`), and there one record after another tells the
same of the head as the definition does (`ClaimTells`, `OwnTells`, `OthersTell`). `ObserverInv`
says that what is held at `w` is the fold of the log up to `w`, whatever landed since.
The window of a verdict only grows, by one record a write and so by one exit at
most: `VerdictMoves` goes through the four tiers it may be in. `AwaitInv` says of a
waiting call what it has read: nothing at or below its cursor refused or took
the request, and the exits it remembers are those above the request; then the
first answer that a poll finds is the first on the log (`AskPolls`). The answers that
a reader holds are those along the head of its last poll, by node (`AnswerInv`); a poll of a
head that descends from that one appends what lies between (`AlongJoins`), and any other
poll builds the list again. Of the order of a set of seqs the proofs use each seq's rank.
`WitSound` says of a witness which claim it traces and when that was last seen, as of
its `W`; an end is read on from the last one read, and only while nothing claimed. A search
back in windows finds the newest (`BackwardIs`), by induction on where it stands. A handle is
found dead by a reap that has put the launch's end on the log (`ReapedEnds`), so
without a claim there is a verdict. `EventInv` says where the records below the event
cursor are: handed on, in the batch that a wait holds, or in a suspended generator;
and that a batch is under way only while it is handed on.

**Launchers.** `LaunchesSound` relates one process and its handle: a handle past
`PENDING` has recorded its end, its process is gone, and a worker does not
outlive the process it is. `Moves` says what no step undoes (a process gone, a
worker dead, a session ended); `Still`, which all but three steps are, that
nothing claims, finishes its reap or becomes an orphan. With `ClaimsInv` (a claim
carries its launch), `SupInv` (a decider's evidence is still true when it
reports), `OrphanInv` (the claim that an orphan was found by was its launch's newest at the read's
`W`, its own and reported, and gets no exit), `TrueInv`
(what may be said of a launch's newest claim, given its process) and `DoneInv`
(a finished reap has said what it had to), the invariant is inductive: each step
writes nothing, or what `Fits` the process as it then is.

**Memoizer.** A launch claims once, and only after it was booted (`LaunchInv`);
`DriveInv` says what each read of a poll taught its drive: its own process, read dead,
stays dead, the claims of a launch that had none at the `W` read come after it, and what
has ended stays ended. Of a wrapper's handle it says nothing but that it ended.
`NoLieIsWritten` adds `WorkInv`: a worker
between iterations has run the commits of its position's lineage, one inside an
iteration is ahead by one until its commit lands, and a checkpoint names a node that
can be built upon. It counts along lineages by a fact of `RunLog_proofs`: an
append adds a node's commit to its parent's, and changes no other lineage.

**Storage.** Neither property is inductive, since a copy and a migration carry
rows from one step to the next. `CopiesInv` says what those rows are: the first
of its source's while the source stands (`SourceOk`); once a move has sealed its
source, all of them (`MoveOk`); and what a snapshot is about to replace is nothing
or its own beginning (`ReplaceOk`). `SealsInv` says that no channel open on a file
can write to it once it is sealed, which is where WAL mode matters, and `MigInv`
that a migration has sealed what it transforms and finds nothing at the current
address until it publishes. `FromInv` is `MovedWhole` and `SnapshotIsLog` with what
a log may have come from. Where two calls meet at the current address, `CallsInv`
decides: a copy back and a move may both be there only if nothing drops the log,
and then the one has found it sealed and the other not. The steps that only mark
a file (`Marks`, `Sealing`) are told from the five that replace a log.

**Only model-checked**, and why:

- liveness, and whatever speaks of `ENABLED`: fairness is out of this prover's reach;
- `DemandAgrees` and `CountsAgree`, which compare what is held with selections from
  sequences (`SelectSeq`, `FlattenSeq`), of which the provers know nothing;
- `Schedules`, which is `RECURSIVE` throughout.

## What is not modelled

- **The command line**, which parses and prints; **the transforms of the migration
  steps** (`v0_2_0_to_v0_3_0`, `v0_3_0_to_v0_4_0` and its engine), which rewrite
  rows in one pass, without concurrency; **onboarding** of logs from before format
  versioning; the scripts and the examples.
- *In `Worker`*: bodies that do not read (no party there writes one; `Observers`
  has them); what a save does outside the log (`Checkpoints` has it; a failing
  `prepare` is `NodeFails`); any other send than a commit's that raises after it has landed;
  the read or the send of a claim or of a report that raises (what a starved one
  leaves is what it leaves); the end of a stopped or lost worker's process, which nobody can
  observe. `include` and `rewind` read and send in one step: the kind of a node
  never changes, so nothing between the two can matter. That an exit after
  `discard()` is torn is one guard (`Discards`), and no property restates it.
- *In `Observers` and `Watchers`*: `last_activity` and the text of a result; several
  runs tracked at once; two clients at once, which write nothing the other reads.
- *In `Launchers`*: the order of `launched` and `terminated` among other records; a
  thread whose recording raised is held for as long as its supervisor lives, which
  `DeadClaimsEnd` leaves out.
- *In `Memoizer`*: rewinds, and streams other than commits.
- *In `Channels`*: filters by name and by request id, which read as the topic's does;
  two calls of one handle, which its lock keeps apart; a standby promoted after a
  failover (a prober on a standby is there).
- *In `Schedules`*: a second subscription, stream or source; an iteration's calls to
  `emit` and `set` are folded into its commit or exit, and emit at most one; an
  exit's evaluation and landing are one step, so leases are compared on
  lineages of commits; a claim that dies or tears is followed by the next `Claim`;
  withdrawals, and the triggers of stops, which `Worker` leaves free.
- *In `Storage`*, by the constant `Quiet`: a channel opened or a log dropped between
  `journal_mode=DELETE` and the `chmod` of a seal, and a run born between a copy's
  check of its destination and its `os.replace`. The second replaces a writable log,
  which the check's message says a copy never does (`copy.py:300`). The first makes
  a handle that the seal does not bind, as in `seal_open`.
- *In `Storage`*, by the bound on administrators: with three at once, or two
  migrators of one run, a log may be dropped, sealed again as an empty file and
  found there; two copiers of one route may put an older snapshot over a newer one.
  A drop reads and then unlinks, and a claim that lands between the two is lost
  with the file. A migration does not look for a live claim again after its seal, so
  a claim that lands before the seal leaves the run sealed and live, as the
  documents say. Newer formats, tombstones and the schema's stamp are left out.

## Plan

The components are modelled and their safety is proved where the provers reach.
What a next step would take up, in this order:

1. **`DemandAgrees`** of `Observers`, by fold lemmas as those of the head; its stops are a
   selection from a sequence, which would have to be stated by rank first.
