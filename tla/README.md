# Ground Control in TLA+

TLA+ specifications of the parts of Ground Control that keep shared or durable
state, TLC configurations that check them on small instances, and TLAPS proofs
of the most important invariants for every value of the constants.

The code is a Node MCP server (`src/mcp/ground-control`) whose tools run a gated
implementation workflow - plan, implement, review, publish, watch CI, merge,
close - and a set of Python tools (`src/tools`), among them the dispatcher that
shares a host's CPUs between verification commands.  There is no database: the
durable state is files of a checkout, its git metadata, references on GitHub,
and the comments of a GitHub issue.  What is hard about it is therefore what
happens *between* reads and writes of state that somebody else also writes.

`PROJECT.json` lists, in a form tools can read, the components, the runs, the
source lines behind every definition, the hazards and the theorems.  This file
explains them.

## 1. The system

Paths below `src/`; `gc/` abbreviates `mcp/ground-control/`.

| Component | State it keeps | Operations | What makes it hard | Status |
|---|---|---|---|---|
| Host verification dispatcher `tools/gc_dispatch` | ledger file, one lease file per dispatch (open descriptors), supervisor processes | enqueue, try_admit, release, snapshot, sweep; the supervisor's life cycle | many processes, kills at any step, descendants that outlive their supervisor, failed ledger writes, stale records | modelled, proved |
| Async job registry `gc/lib/async-job-registry.js` | jobs in memory, idempotency keys, held requests | start, poll, await, cancel, expiry | retries and replays, single flight, eviction while a request is held, restarts | modelled, proved |
| Remote gates `gc/lib/remote-gates.js`, `github-conditional.js` | bounded caches of ETags and snapshots | conditional probes, full read | GitHub changes between any two requests; reads that fail half way | modelled, proved |
| Hosted gate monitor `gc/implement/monitor.js` | none of its own; child jobs in the registry | one long call: read, start watches, poll, judge | pushes, reruns, expiry of a child's result, window against retention | modelled, proved |
| CI watcher `gc/lib/ci-watcher.js` | one call's set of watched runs | list, read, judge in rounds | runs register late, queue between jobs, are run again | modelled, proved |
| Release identity ledger `gc/lib/release-identity*.js` | create-only git references: claims and outcomes by slot; records on the issue | reserve, publish, abandon | several hosts, creates applied late or never, lost answers, trailing listings | modelled, proved |
| Mechanical publish and recovery `gc/implement/publish.js`, `gc/lib/codex-workflow-4.js`, `-5.js`, `implement-*` | branch, index, MERGE_HEAD, write-ahead journal, lease; records on the issue; the pull request | publish and its continuation, start and complete a synchronization, create the pull request | crash between any two steps, hands on the same checkout, a base that moves | modelled, proved |
| Completion gates `gc/implement/completion.js`, `phase-e-automation.js`, `gc/lib/assert-completion*.js`, `delivery-*.js`, `close-issue.js` | handoffs, pointers, reports and waivers on the issue; its state | readiness, finalize, the workflow of a merge, close | several callers, heads that move, retries, an issue opened again | partly, proved |
| Sonar watcher `gc/lib/sonar-watcher.js` | one call's analysis id | poll analysis, then gate | deadlines; analyses of another commit | its answers only |
| Knowledge capture and ingest `gc/knowledge_ingest*` | inbox notes, wiki pages, git index | capture, ingest, revert | reverts of files somebody else wrote, locks | not modelled |
| Filesystem leases `gc/lib/filesystem-lease.js` | lock directories with a heartbeat | acquire, heartbeat, release | a holder that sleeps past the stale bound | its promise only |
| Review cycles, caps, publication `gc/lib/codex-review-*.js`, `review-*.js` | markers in the issue thread, retained results | review, retain, publish, re-attempt | counting from a thread others append to; retries | not modelled |
| Station observations, obligations `gc/lib/station-observation-*.js`, `execution-obligation-v2.js` | records in the issue thread | open, observe, reconcile | two reconcilers, lost answers | not modelled |
| Issue requirement scope writer `gc/lib/issue-requirements-writer.js` | the issue body | add, remove | read-modify-write without compare-and-set | not modelled |
| Issue thread cache `gc/lib/issue-thread.js`, `github-rest.js` | cached hashes | read, invalidate | stale reads by writers | not modelled |
| Integration manager `gc/gc-integrate` | a repository-wide lock, halt ledger | plan, prepare, merge, release | queue read before the lock; a release that takes a live lock | not modelled |
| Incus sandbox `tools/incus_sandbox` | containers, task records | launch, transfer, migrate | partial failure | not modelled |
| Subprocess runners `gc/lib/gate-command-runner.js`, `process-group.js` | a child and its group | run, time out, reap | a timeout against an exit | not modelled |
| Policy checks, branch protection tools, citation server, parsers, installer | none, or one-shot | read and report | nothing interleaves | not modelled |

How they interact.  The driver (a model, a human, a script) calls the MCP
server's tools.  Long tools are jobs of the **registry**: the driver starts one,
keeps its handle and polls or awaits it, and repeats the start with the same
idempotency key when an answer got lost.  The **monitor** is a long tool that
itself starts two jobs, the **CI** and the **Sonar watcher**, with keys made of
gate and head, so that later calls find them; at each turn it rereads the pull
request through the **remote gates**.  Completion and quick-fix merges use the
same remote gates for their last look before a merge.  **Publish**, **ingest**
and **integration** mutate one checkout under three different **leases**.
Everything that must be remembered across calls is appended to the **issue
thread** and counted from there.  Commands that use many CPUs (test suites) run
under the **dispatcher**, which knows nothing of the server.

What would make each component correct:

- dispatcher: never more CPUs granted than the host has; a waiting ticket keeps
  its place and what it would get; the queue drains;
- registry: one live job per scope and one answer per key; a result is not lost
  before its retention; nobody waits for ever;
- remote gates: an answer says what GitHub said during the call; it never mixes
  two heads;
- monitor: "complete" is earned by watches of this head; no answer that is not a
  verdict is replayed; every call answers;
- CI watcher: success covers every run of the head;
- release ledger: an identity is handed out once; a key has one reservation; an
  outcome is final;
- publish: a crash loses no committed work and publishes nothing twice;
- ingest: a failed ingest leaves the note where it was and nobody else's file
  touched;
- review, obligations: caps count every cycle once; an obligation is resolved
  once, against a record that exists;
- scope writer: `add` never removes;
- integration, completion: a pull request merges only with gates that were
  green at its head; the issue closes after the merge and the report.

## 2. Modules

| Module | Models | Kind |
|---|---|---|
| `Admission` | `admission.py`, the policy in closed form | operators |
| `AdmissionLoop` | `plan_admission` as the walk the code writes | operators, proved to agree with the closed form |
| `DispatchLedger` | `ledger.py`, `records.py`, `supervisor.py`, `cli.py` | detailed specification |
| `CapacityPool` | what the dispatcher promises: a budget issued and withdrawn | abstract specification |
| `DispatchLedgerProofs` | theorems about `DispatchLedger` | proofs |
| `AsyncJobs` | `async-job-registry.js` | detailed specification |
| `LogicalAttempts` | what an idempotency key promises | abstract specification |
| `AsyncJobsProofs` | theorems about `AsyncJobs` | proofs |
| `RemoteGates` | `remote-gates.js`, `github-conditional.js` | detailed specification |
| `RemoteGatesProofs` | theorems about `RemoteGates` | proofs |
| `HostedGateMonitor` | `implement/monitor.js`, `sonar-gate.js`, over an instance of `AsyncJobs` | composition |
| `HostedGateMonitorProofs` | theorems about `HostedGateMonitor`, from those about `AsyncJobs` | proofs |
| `CiWatcher` | `ci-watcher.js`, the decision of `doc-coverage.js` | detailed specification |
| `CiWatcherProofs` | theorems about `CiWatcher` | proofs |
| `ReleaseLedger` | `release-identity*.js`, the references of one family | detailed specification |
| `IdentityRegister` | what the log promises: names owned once, outcomes that stand, answers that stay true | abstract specification |
| `ReleaseLedgerProofs` | theorems about `ReleaseLedger` | proofs |
| `Publish` | `publish.js`, `codex-workflow-4.js`, `-5.js`, the recovery journal, the creation of the pull request | detailed specification |
| `PublishProofs` | theorems about `Publish` | proofs |
| `Delivery` | `completion.js`, `phase-e-automation.js`, `assert-completion*.js`, `delivery-*.js`, `close-issue.js` | detailed specification |
| `DeliveryProofs` | theorems about `Delivery` | proofs |

`MC*` modules name the model values and small definitions a configuration
cannot write.  A definition marked *Mutant* in a module is a plausible bug, put
next to the definition it would replace; replacing it must break the property
that `PROJECT.json` names.  A module's `TypeOK` is a conjunct of one of its
invariants and has no run entry of its own.

### The dispatcher

A dispatch is a *ticket* with a record in the ledger (`entries`), a lease file
(`leaseFiles`), and the processes that hold the lease's descriptor open
(`holders`: the supervisor, its command, a descendant the command left behind).
`phase` is where its supervisor is: `start`, `leased`, `queued`, `admitted`,
`spawned`, `waiting`, `closing`, `closed`, `exited` or `killed`.  `workers` is what the
process was told it may use, as opposed to what the ledger says it was granted.
Every operation under the ledger's `flock` is one step that begins, as in the
code, with a sweep; a failing read or write of the ledger is a step of its own
that leaves the file as it was.  `Kill` may strike between any two steps and
leaves the command and its descendants alive with the lease.  The age of a
record saturates at the stale bound; wall-clock jumps are left out, and so is
the fallback for systems without `/proc` and the hand-over of the terminal.

CPUs are sets of units `<<ticket, k>>`, so that the sum of grants is the
cardinality of a set: this is what lets TLAPS reason about sums.  The code's
loop is replaced by a closed form; `AdmissionLoop` keeps the loop, as a recursive
function of the entries it has not visited, and `ClosedFormAgrees` says that every
poll grants what the loop grants.  It is checked and, for every ledger, proved.

### The job registry

JavaScript runs one turn at a time, so a handler up to its first `await` is one
step.  `registered` is the map of jobs, `status`, `ended` (its `finally` has run,
`finishedAt` is set), `aborted` and `stale` (the result is not a verdict, so a
retry may replace it) are a job's fields, `waiting` the held requests.
The promise's `then`/`catch` (`Settles`) and its `finally` (`Finally`) are two
microtasks, hence two steps, and polls come in between.  Every entry point first
drops expired jobs, as `Existing`, `Poll` and the rest do through `Unexpired`.
`Restart` loses the whole registry.  Progress and diagnostic snapshots are data
and left out.

### Remote gates

`past` is the sequence of worlds GitHub has been in; the last one is `now`.  A
call first probes its endpoints one request at a time with the ETags it
remembers and answers from the snapshot when nothing changed; otherwise it reads
the pull request, then the checks, then the pull request again.  An ETag is the
content it was handed out for.  What the source states about `gh api --include`,
that it exits with success on a 304, is taken as given.  A paginated endpoint's
ETag covers only its first page, hence never proves anything unchanged
(`Paged`).  A probe stops at the first endpoint that changed, so the ETags of
the later ones stay as they were.  Evictions happen at any time.  `apart` is an
auxiliary variable: a full read has failed since the snapshot was made.
Changes of the branch protection that are taken back between two reads are not
seen by anybody; the properties speak of the head and its checks.

### The monitor

Each session's call goes through `first`, `start_ci`, `start_sonar`, then
`read`, `judge`, `sleep` in a loop.  The children are jobs of `AsyncJobs`,
instantiated with the keys the monitor uses; their work is abstracted to what a
watch may answer given what the gate has reported (`Answers`).  The pull request
is read in one step, as `RemoteGates` is about how that read is made.  Two start
calls made in one turn of the event loop are two steps here, which admits more
interleavings than the code has.  Cancelling a child rejects it.
A start call that the registry answers with a failed job of the same key is a
refusal.  Sonar that is skipped counts as good, as in `sonarGatePassed`.  That a
CI watch which timed out or found a stuck queue is reported as `ci_failure` is
modelled as it is.

### The CI watcher

GitHub's side: runs register, start, wait for a runner between two jobs
(`handoff`), fail a job before they end (`failing`), end, and are run again.
The watch: wait until something is registered, then rounds of listing, reading
the runs one at a time, and one decision.  The clock is read before a listing in
the rounds (`ReadClock`) and after it while nothing is registered
(`RegisterDecision`), each where the code reads it.  A run that registers
between an answered listing and the end of the window is therefore reported as
missing by the waiting loop, which fails closed; the rounds do not have that gap
and `SuccessCoversHead` relies on it.

A listing is cut at 20 runs in the code (`ListLimit`); the instances stay below
it, as a head with more than 20 runs is out of the watch's sight by construction.

### The release ledger

`claims[s]` and `outcomes[s]` are the references `claims/<s>` and
`outcomes/<s>`; they are created and never updated.  A create is two things: a
call sends a request (`Sent`), and GitHub applies it (`ApplyClaim`,
`ApplyOutcome`), at once, later, after the call has given up, or never; applying
one refuses the others for the same name.  The call then knows the reference is
there (`CreateDecided`) or gives up (`CreateUndecided`).  A fold of the log
shows a prefix of the claims that may trail by `Lag` slots.  The base branch is
the sequence `bases` of definitions and artifact trees: a family is a floor and
an offset of its version template, so that two definitions render one sequence
to different names and different sequences to one name, which is what
`Collides` is there for.  `previous_claim` and the digests of an event are left
out: they repeat what slot and order already say.  The records one answer needs
are posted in one step of which any part may land.  Calls are numbered in the
order they start.  `Fold` is the code's loop over the slots, which refuses a log
whose claims do not follow each other.  No action folds to a refusal, because
`LogWellFormed` shows that whatever prefix a listing shows is accepted, with the
`Highest` sequence and the owners (`OwnedBy`) the actions use.

An event is a git commit, and a commit is its content: the key, what was worked
out, the base it was worked out on and the second GitHub dated it (`at`).  It names
no author, so two calls of one key that look at the same base in the same second
build one commit, and each of them reads its own back.  `Second` is the set of
dates a commit may get, any of them at any time, which covers every clock.
`built` is the commit a call has built; `CreatedHere` compares it with what the
reference holds, as `createLedgerRef` compares commit ids.  It is kept, as history,
while a call's answer says that it made the event.

### Publish

The checkout is a branch (`head`, its history as a sequence of commits), an
index, the files of the work and a `MERGE_HEAD`; `journal` and `lease` are the
files in the git directory; `remote` and `base` are the branches on origin;
`thread` the records on the issue.  Work is a number that grows (`Edit`) and
whether conflict markers are in it.  Every `await` of publish that separates two
changes is a phase of `pc`.  Four things happen to a call at any phase: it is
answered an error and closes its journal (`Fail`), throws without closing
(`Throw`), its process dies (`Crash`), or nothing.  A crash leaves the lease of
a dead process (`Orphan`), which the next publish takes over; the code notices
the dead process at once, and a lease that is taken from a live but suspended
holder is not modelled.  The two synchronization tools (`start`, `complete`) and
the creation of the pull request take no lease, as in the code.  `stager` is a
history variable: what staged the merge under way.  `ResolvesFirst` is an
assumption on the caller, that conflicts are resolved before publish is called
again; the run `publish_conflicts` drops it.  A call's own record of what it read
is dropped with its answer (`Forget`), and whether paths had changed, asked once,
after its only use (`Screened`).  The lane and the settled tree are left out.

### Delivery

One issue, the pull requests its timeline links to, and calls that interleave at
every request: readiness (read the checks, assert the delivery chain, record the
handoff, point to it from the pull request), the workflow GitHub starts at a
merge and a person may start as a repair (fetch, find the issue through the
pointer, load the handoff of the merged head, finalize with what it reports), finalization by an agent or a repair with
what its caller reports, and the close.  `seen` is the head a call holds,
`payload` what it is about to report.  All refusals that no other modelled state
depends on - obligations, lane, scope, failing requests - are `Stop`, which may
strike at any step.  `Sound` says of which payload the files at a head are true,
so that a verification is a membership.  `green` and `everSynced` are history:
heads whose checks some call read as passed, heads that ever had a
synchronization record.  A record on the issue may come after the head has moved
on (`Synchronize`), a person may merge any head at any time, waive the
requirement state of a pull request, and open the issue again.  GitHub runs one
workflow per pull request at a time, but `gc_finalize_merged_pr` runs the same
code beside it, so runs of one pull request interleave freely
(`BeginAutomation`).  What nothing reads
back - the readiness comment, the workflow's failure record, the in-progress
label - and the checks of a report's text are left out.

## 3. Runs

| Run | Instance | Asks |
|---|---|---|
| `dispatch` | 3 dispatches with demands 2 (at least 1) and 4 (more than the host has), a host of 3 CPUs, stale after 1 tick | does the closed form grant what the loop grants; is the budget kept; does the ledger implement the pool; does a sweep spare attended work; does a waiting ticket keep its prospects and its place |
| `dispatch_liveness` | 2 dispatches, 3 demands | does the queue drain |
| `async_jobs` | 3 jobs, room for 2, 4 kinds of start call, 1 held request | single flight, capacity, retention; has a held request a job to release it; is what is reported of a cancelled job true; does a key behave as one attempt |
| `gates` | 1 call after another, 2 heads, 3 worlds, failing probes and reads, one paginated endpoint | does an answer describe the time of its call; does a snapshot mix heads |
| `gates_stale` | 1 head, 2 worlds, a failing read | (violated) are green gates current |
| `monitor_calls` | 1 session, 2 heads, 4 jobs, failing watches | is "complete" earned; are non-verdicts run again; is a watch shared |
| `monitor_liveness` | 1 session, 1 head, time, failed reads, reruns, conflicts | does every call answer |
| `ci_watch` | 2 runs of the head and 1 of another commit | does success cover the head; is a stuck queue stuck; does the watch end |
| `release_ledger` | 3 calls, 2 keys, 2 slots, 2 definitions of the family, 2 revisions of the base, 2 seconds, listings that trail by 1 | is the log readable whatever is late or lost; is a name issued twice; do answers stay true; did who says "I made it" build what the log shows; does the log implement the register |
| `publish` | 2 calls of all five kinds, 2 revisions of the base, one edit of the work, 3 commits, 2 attempts, 2 records | do the records hold of origin; do handles name their own attempt; is the pull request opened on a fresh base; is a staged merge ever committed as work |
| `publish_conflicts` | 1 call, conflicts not resolved before the continuation | (violated) is a merge published only without conflict markers |
| `delivery` | 4 calls, 2 at a time, 2 pull requests of 2 heads and of 1, 2 payloads | are handoffs, reports and the close backed by what was checked of that very pull request and head; do runs of the automation agree |

Why the bounds are enough to be interesting:

- *dispatch*: three tickets make the smallest queue with a head that does not
  fit, a ticket it blocks and running work that must be counted; on three CPUs a
  first demand of two leaves one, which the second demand of two takes although it
  is less than it asked for and which the large one does not fit; a demand above
  the capacity exercises the clamp; a stale bound of one tick separates "just
  orphaned" from "abandoned".  Sequence numbers are bounded by the number of
  tickets.  The tickets are symmetric in `dispatch` (one capacity for all, no
  liveness).
- *async_jobs*: two live jobs fill the registry, the third is refused or
  replaces one; retention 0 makes a result expire one tick after it ended.
- *gates*: three worlds allow a change before and a change during one call, on
  the same endpoint or on two.
- *monitor*: two heads are what a call can confuse, four jobs both watches of
  both heads or of one head twice.
- *ci_watch*: the listing has room for every run; the caps are one and two
  ticks, so that the deadline, the queue cap and the total cap fall at different
  times.  A run of another commit moves only when it is the pinned one, since
  nothing else ever reads it (`Matters`, the bound `OthersMove`), and nothing is
  explored after the watch has ended.
- *release_ledger*: two slots and two names let calls of two keys race for the
  first and then for the second; the third call is a retry, an outcome or a
  contender; two attempts are the first race that is lost and won again.  Two
  seconds are enough for commits that are one and commits that differ in nothing
  but their date; the seconds are symmetric.
- *publish*: two revisions are a base merged and a base that moved on; three
  commits are the first, the work and a merge; two calls are a publish and
  whatever disturbs it, or its continuation.  No call begins after the pull
  request has been opened (`AfterPr`); the proofs are without that bound.  Calls are
  symmetric.
- *delivery*: two runs of the automation that report different things take two
  readiness calls before them, hence four calls.  One pull request moves its head
  and is what readiness and the automation are asked about; the other is there to
  be confused with it, by a finalization or a close (`Asked`).  Calls are
  symmetric.  The proof covers any number of calls of any kind for any pull
  request.

Deadlock is checked only where something is always possible (`delivery`);
elsewhere dispatches end, jobs run out, watches finish and bounds are reached.

### Fairness

- *Dispatcher*: a supervisor that lives polls again, spawns, forwards signals,
  returns from `wait`, closes its lease and settles; a command ends; time
  passes.  Polling is a loop with a sleep, the rest is straight-line code.
  Nothing forces a descendant to exit, a queue timeout to fire, a kill, or a
  ledger write to succeed at the end (`Settle` or `SettleFails`).
- *Monitor*: the event loop runs every session's step, requests end, time
  passes.  No gate is obliged to report and no child to end.
- *CI watcher*: requests end and time passes.  No run is obliged to do anything.
- The registry's own run states no liveness: the work of a job owes nothing, and
  that a held request is answered when its timer fires says nothing of the registry.
  That it has a job to release it is `NobodyStranded`.
- The ledger of identities, publish and delivery promise nothing of the sort:
  every call may die, and the next one is up to its caller.

## 4. Proofs

The assumptions are those on the constants stated in the modules
(`TicketAssumption`, `CapacityAssumption`, ...): finitely many tickets, positive
capacities and demands, and that no process reads a capacity above the host's.
`NoKeyAssumption`, `KeyAssumption` and `NoneAssumption` say that the model's
placeholders for "nothing" are none of the values they stand beside, as `null` and
`undefined` are none in the code.  Four theorems have a hypothesis of their
own, `SameCapacity` (two), `ListingIsWhole` and `OneCall`; what they exclude is
described below.  TLC checked
every inductive invariant on the instance of a run before it was proved.

**DispatchLedgerProofs.**  `GrantsWithinCapacity` is not inductive: a step could
in principle drop a record whose process still works and grant its CPUs again.
`DispatchInvariant` adds why this cannot happen to attended work: a live
supervisor holds its lease from before its record exists until it has closed it
(`SupervisorHolds`, `NotYetRegistered`), nothing works before it was spawned
(`NothingWorksEarly`), and a polled or attended record names its supervisor and
is backed by a held lease (`RecordBacked`), so that no sweep takes it
(`BackedIsKept`) and it keeps the grant its process was told (`GrantKept`).  One
lemma per action shows that it is kept; `GrantFits` is the arithmetic of a grant
in terms of units.  Theorems: `DispatchInvariantHolds`, `TypeCorrect`,
`CapacityRespected`, `AttendedWorkFits`, `PollerNeverLost`.  That a sweep takes
CPUs from running work only when it is stale and unwatched
(`EvictedOnlyWhenAbandonedHolds`) needs one more invariant: a failed write may
unlink a lease whose record then stays, and `UnlinkedWorkIsStale` says that such
work had outlived the bound already.  `ImplementsPoolHolds` shows that every step
is an issue, a withdrawal or a stutter of `CapacityPool`.  All these theorems let
each process read its own capacity, so they also cover a host on which some
processes are confined to fewer CPUs.

The two promises to the queue, `PlansNeverShrinkHolds` and `NoOvertakingHolds`, have
the hypothesis `SameCapacity`: processes that read different capacities plan
differently, and section 5 says what comes of it.  The proof compares sums over the
queue before and after a step.  `LeftIsUntaken` writes what is left for a ticket as
the capacity less one set of units, those running and those handed out ahead of it.
A step makes records go (`NobodyComesAhead`), adds one behind everybody
(`QueueOrdered`: sequence numbers are unique and below the next one) or grants one.
A grant costs those behind nothing, since it is at most what was reserved for it
(`GrantWasReserved`), and leaves those ahead all they asked for, since the walk had
handed that out before it came to the admitted ticket (`GrantSparesAhead`).

What these proofs say of the closed form they say of the code's loop.
`WalkAgrees`: on every ledger whose queued records have different sequence numbers,
for every capacity and ticket, `PlanLoop` equals `PlanAdmission`; and
`ClosedFormAgreesHolds`: so it is at every poll of every behaviour.  The library's
induction theorems cannot be instantiated here, so induction is stated of a set of
numbers and derived from counting (`SetInduction`: a hole in the set would make
adding one an injection of a finite set into a smaller one).  By it the recursive
function exists (`WalkExists`, on the number of unvisited entries), and from any
place the walk has reached - those it has passed are ahead of the rest and fitted -
it grants what the closed form grants (`WalkGrants`); `LeftAfter` is one
subtraction of the loop in terms of units.

Of `QueueDrains` two parts are facts about states and steps, and proved.
`IdleHostAdmitsHolds`: a polling ticket with nobody ahead of it on a host where
nothing runs is granted all it asked for or the whole host.
`PlacesNeverWorsenHolds`: nobody comes to stand ahead of a waiting ticket.  Neither
needs `SameCapacity`.  That polls happen and commands end is fairness.

**AsyncJobsProofs.**  `RegistryInvariant` joins the promises that lean on each
other: `SingleFlight` needs `LiveWorkRegistered` (a live job that was evicted
would no longer be found as contending), which needs that only ended jobs
expire; `NobodyStranded` needs that `finally` comes after the outcome and
releases everyone.  Theorems: `RegistryInvariantHolds`, `SingleFlightHolds`,
`CapacityHolds`, `NobodyStrandedHolds`, `CancelledHonestlyHolds`, and of steps
`ResultsRetainedHolds`.  `ImplementsAttemptsHolds` is the refinement of
`LogicalAttempts`: `OneJobPerKey` makes the attempt of a key a function of the
state, and each action moves the attempt of one key and leaves the others.

**RemoteGatesProofs.**  Heads are not gone back to and a check's payload carries the
world it appeared in, so an ETag that has stopped answering 304 never answers it
again (`MatchStays`).  `SnapshotInvariant`: all a call holds it read while it ran,
and under one head for as long as that head stands (`Reading`); the second read of
the head then makes the snapshot coherent.  This holds for any number of calls that
share the ETags (`SnapshotInvariantHolds`, `CoherentSnapshotHolds`).
`FreshAnswerHolds` adds what a probe has confirmed of the snapshot it revalidates
(`Confirmed`) and that nothing a call has read is older than the ETag kept for it
(`ReadLater`).  Its hypothesis `OneCall` says that calls come one at a time.  It is
needed: with two, one call's probe moves the ETag past what the other one is about
to store, and TLC shows `FreshAnswer` violated.

**HostedGateMonitorProofs.**  The invariant of the registry is taken from
`AsyncJobsProofs`, instantiated with the monitor's keys; its assumptions are proved
of them (`RegistryMayBe`), and each step of the monitor is a step of the registry
or leaves it alone.  `MonitorInvariant` adds that a job polled by a call keeps its
key of gate and head (`SessionConsistent`) and that a result stays what it is
(`ResultsConsistent`).  Theorems: `MonitorInvariantHolds`,
`CompleteIsEarnedHolds`, `FailedWatchRunsAgainHolds`, `OneWatchPerHeadHolds`.

**CiWatcherProofs.**  `WatchInvariant` gives `StuckQueueIsRealHolds`; it rests on the
order in which a round judges what it has read.  `SuccessCoversHeadHolds` needs
`WindowCovers` - the listing that closes the window was asked for after the
deadline - and the hypothesis `ListingIsWhole`, that there are no more runs than
one listing holds: the code reads one page of 20 and does not see the rest.

**PublishProofs.**  Nothing is locked but the checkout, and the synchronization
tools do not even take that lease, so each call's knowledge has to survive all
others' steps.  `PublishInvariant` joins the statements to `Established`, what a
call has read and made by the phase it is in, and `JournalConsistent`: the
identity a journal names is the one that was minted, and a merge staged by a
publish has a journal.  What persists: minted identities, origin's history (the
pushes are without force) and the thread only grow; journal and staged merge are
in the hands of the lease's holder, or left by a dead one as they were.  Theorems:
`PublishInvariantHolds`, `RecordsPublishedHolds`, `RecordsMergeTheBaseHolds`,
`HandlesConsistentHolds`, `PrFreshHolds`, `WorkNeverMergesHolds`.

**DeliveryProofs.**  `DeliveryInvariant` joins the five statements the run checks
to what each call has established by the step it is at (`Established`): the head
it holds was green, synchronized or merged, what it reports was verified or
handed over.  None of them is inductive without it, since the write comes
several requests after the check.  `EstablishedPersists` is the heart: records,
waivers and checks read only accumulate and a merged pull request keeps its head
(`Accumulates`), so what one call knows survives all that others do.  That two
runs of the automation never report different things (`AutomationAgrees`) needs
`SameStory`: what a run is about to report is one thing, the thing every other run
of its pull request holds, and all that was ever reported so.  Nothing serializes
the runs.  `LoadHandoffKeeps` is why it holds all the same: handoffs are never taken
back, each run that goes on has found a single one for the merged head, and a
merged head stays, so the one it finds is the one the others hold.  One lemma per
action, those that write nothing through `QuietStep`.  Theorems: `DeliveryInvariantHolds`,
`HandoffsAreBound`, `ReportsAreEarned`, `AutomationOnlyReplays`,
`AutomationNeverDiffers`, `ClosedAfterValidation`.

**ReleaseLedgerProofs.**  References are never updated (`Grows`), so whatever a
call has read of the log stays as it was read; `LedgerInvariant` adds to the six
promises what follows from that.  `FlightFits`: a request under way, whoever sent
it and however late GitHub gets to it, still fits the log unless its name has been
taken, since a claim of slot n compared itself with all of slots 1 to n - 1.
`Knows`: what a call has read and built by the phase it is in.  `Backed`: an answer
"not reused" shows the commit its caller built, which is `MakersBuiltIt`; it rests
on `MadeIsShown`, by which the slot a call found its commit in is the one any later
fold shows of its key, since a key owns one slot (`OneSlot`).
`EventsInTime`: an outcome names a revision that exists.  Steps of one call go
through `CallMoves`, those of GitHub and of the base through `WorldMoves`.
Theorems, for any number of calls, keys, slots and attempts and any lag of the
listing: `LedgerInvariantHolds`, `LogIsWellFormed`, `NamesStayUnique`,
`AnswersStayTrue`, `MakersBuiltWhatIsShown`, `PublicationsWereThere`,
`RecordsPrecedeAnswers`.  `ImplementsRegisterHolds` is the refinement of
`IdentityRegister`: the application of a create is the step that reserves or
concludes, an answer is a step that tells, and everything else stutters.  It needs
that a key's owner is a function of the log (`OwnersKnown`, from `OneSlot`) and that
reasons come from the calls (`ReasonsAsked`).  `LogIsWellFormed` rests on `FoldReads`:
by induction over the slots, the code's fold accepts any prefix of slots that are
well formed (`SlotsWellFormed`) and reports of it what the actions use.

Only model-checked: liveness (`QueueDrains`, `CallAnswers`, `WatchEnds`), which is out of TLAPS's reach.  Every other property of a passing run
is a theorem.

## 5. Where code and documentation disagree

Two are kept as runs that TLC must find violated:

- `gates_stale`: probes move the remembered ETags forward before the full read
  they lead to has succeeded.  When that read fails, the next call finds every
  endpoint unchanged and answers from the snapshot made before the change.  With
  two concurrent calls the same happens without any failure.
- `publish_conflicts`: a continued publish stages everything before it looks for
  unmerged entries, so unresolved conflict markers are committed and pushed.

The others were met while modelling and are described here only:

- `ledger.py:235`: the policy plans with the capacity the *polling* process
  reads; a process confined to fewer CPUs can be overtaken, although
  `admission.py:48` says that later work never jumps a blocked head.
- `monitor.js:65`: a Sonar watch that timed out answers `ok`, is therefore
  replayed as a verdict, and gives the rerun it asks for the same answer,
  although `:59-63` says such an answer is none.
- `monitor.js:112`, `async-job-registry.js:26`: the monitor polls a child for up
  to 45 minutes, the registry forgets a finished child after 30; a watch that
  ends early is forgotten while the other one is still polled, and is reported
  as a child that failed.
- `codex-workflow-4.js:271`: after a crash between the merge commit and its
  record the tree that was settled on no longer matches, and the retry that
  should finish the record is refused.
- `publish.js:90`: a fresh publish over a merge that was staged by hand, with no
  journal, commits it as work; `WorkNeverMerges` is therefore about merges a publish
  has staged.
- `tools/review-cap-disposition.js:251`: two completions of one handle at a time
  can post its record twice, and the reader refuses two records as ambiguous.
- The direct synchronization tools take no lease and may run inside a publish.
- `assert-completion-post-merge.js:186` says publication of the report is
  idempotent and `tools/phase-e.js` that a replay is safe; two finalizers at a
  time, or a thread that cannot be read (`Found`), post a second report.  Both
  are true (`ReportsEarned`), and those of the automation agree (`AutomationAgrees`).
- `release-identity-ledger.js:266` takes the reference it reads back as its own when
  it holds its own commit.  Two calls of one key on the same base in the same second
  build the same commit, so both are answered `reused: false`.  Nothing in the log is
  wrong by it, and nothing says that only one of them is told so; `MakersBuiltIt`
  states what is true, that each of them built what the log shows.
- Closing an issue without naming a pull request may close an issue that was
  opened again for the pull request of its first delivery, which
  `ClosedIsValidated` admits: that one was validated.

## 6. Not modelled

- *Knowledge ingest and the integration manager on the checkout of `Publish`*:
  three locks over one checkout.  `Publish` abstracts the work to one number;
  what ingest can lose are single files.  Their hazards are listed in
  `PROJECT.json` without a property.
- *The thread's other writers* (review cycles, observations, obligations, the
  scope writer, the thread cache): each folds comments by a grammar of its own.
  `Publish` and `Delivery` hold the records they are about as sets, which is what
  those writers' models would have to start from.
- *The lease protocol below publish*, the Sonar watcher's own loop, subprocess
  runners and the sandbox: one actor against a clock.
- *Stateless code* - policy checks, parsers, the citation server, the installer,
  comparisons of branch protection - has nothing to interleave.
- In modelled components: what each section above says is left out.

## 7. What would come next

The integration queue beside `Delivery` (its `Merge` is a person's), and the
thread as a module that `Publish` and `Delivery` share.
