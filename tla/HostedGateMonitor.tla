-------------------------- MODULE HostedGateMonitor --------------------------
(***************************************************************************)
(* The monitor action (implement/monitor.js): it watches the CI runs and   *)
(* the SonarCloud analysis of a pull request's head in two background jobs *)
(* of the registry (AsyncJobs), rereads the pull request in a loop, and    *)
(* answers at the first thing a driver can act on.  A later call at the    *)
(* same head is given the same jobs.  The reads are one atomic request     *)
(* each here; RemoteGates models them.                                     *)
(***************************************************************************)
EXTENDS Naturals, FiniteSets

CONSTANTS Session,  \* monitor calls that can be open at once
          Commit,   \* heads of the pull request; Commit = 1..n, pushed in order
          Events,   \* bound: what may happen in a run, a subset of {"time",
                    \* "read", "reject", "conflict", "rerun"}
          Window,   \* MONITOR_TOTAL_TIMEOUT_MS, in ticks
          Room,     \* bound: a call begins only while so many jobs can be
                    \* created; 2 is what a call can need
          NoKey, Capacity, TTL, MaxJobs  \* the registry's, see AsyncJobs

ASSUME RoomAssumption == Room \in {1, 2}
ASSUME WindowAssumption == Window \in Nat \ {0}
ASSUME CommitAssumption == 1 \in Commit /\ Commit \subseteq Nat \ {0}
ASSUME RegistryAssumption == Capacity \in Nat \ {0} /\ {TTL, MaxJobs} \subseteq Nat

VARIABLES
    seq, registered, request, status, stale, aborted, ended, age, waiting,
    verdict,   \* per job: what its watch answered, "none" before
    ranFor,    \* per job: ticks it has been running, up to Window
    pr,        \* the pull request on GitHub: its head, and whether it conflicts
    gates,     \* per head and gate: what GitHub and SonarCloud say of it
    pc,        \* per session: what it does next
    seen,      \* per session: the pull request and gates as last read
    head,      \* per session: the head it is bound to, or 0
    handle,    \* per session and gate: the job it polls, or 0
    elapsed,   \* per session: ticks since it began, up to Window
    before,    \* per session: the jobs that had ended when it began
    outcome    \* per session: its answer, "none" while it runs

jobVars == <<request, status, stale, aborted, ended, age>>
registry == <<seq, registered, jobVars, waiting>>
github == <<pr, gates>>
session == <<pc, seen, head, handle, elapsed, before, outcome>>
vars == <<registry, verdict, ranFor, github, session>>

Gate == {"ci", "sonar"}

(* Mutant: an answer without a verdict is kept.                            *)
WatchOnce(g, h) == [key |-> <<g, h>>, input |-> h, scope |-> NoKey, singleFlight |-> FALSE,
                    cancellable |-> TRUE, retry |-> FALSE]

(* The start call of a child watch.  A result with ok: false may be run    *)
(* again (isNonVerdictWatchResult).                                        *)
Watch(g, h) == [key |-> <<g, h>>, input |-> h, scope |-> NoKey, singleFlight |-> FALSE,
                cancellable |-> TRUE, retry |-> TRUE]

ASSUME KeyAssumption ==
    /\ \A g \in Gate, h \in Commit : NoKey # <<g, h>> /\ NoKey # Watch(g, h)
    /\ \A h \in Commit, j \in 1..MaxJobs, b \in BOOLEAN :
         NoKey # [input |-> h, run |-> j, answered |-> b]

Jobs == INSTANCE AsyncJobs WITH Waiter <- {}, Request <- {Watch(g, h) : g \in Gate, h \in Commit}

Id == 1..MaxJobs
Opinion == {"pending", "good", "bad"}
Verdict == {"none", "good", "bad", "timed_out", "no_answer"}
Outcome == {"none", "unreadable", "conflicted", "refused", "head_changed", "child_failed",
            "sonar_not_evaluable", "sonar_findings", "ci_failure", "complete", "timed_out"}

TypeOK ==
    /\ Jobs!TypeOK
    /\ verdict \in [Id -> Verdict]
    /\ ranFor \in [Id -> 0..Window]
    /\ pr \in [head : Commit, conflict : BOOLEAN]
    /\ gates \in [Commit -> [Gate -> Opinion]]
    /\ pc \in [Session -> {"idle", "first", "start_ci", "start_sonar", "read", "judge", "sleep"}]
    /\ head \in [Session -> Commit \cup {0}]
    /\ handle \in [Session -> [Gate -> 0..seq]]
    /\ elapsed \in [Session -> 0..Window]
    /\ outcome \in [Session -> Outcome]

Now == [head |-> pr.head, conflict |-> pr.conflict, ci |-> gates[pr.head]["ci"]]

Init ==
    /\ Jobs!Init
    /\ verdict = [j \in Id |-> "none"]
    /\ ranFor = [j \in Id |-> 0]
    /\ pr = [head |-> 1, conflict |-> FALSE]
    /\ gates = [h \in Commit |-> [g \in Gate |-> "pending"]]
    /\ pc = [s \in Session |-> "idle"]
    /\ seen = [s \in Session |-> Now]
    /\ head = [s \in Session |-> 0]
    /\ handle = [s \in Session |-> [g \in Gate |-> 0]]
    /\ elapsed = [s \in Session |-> 0]
    /\ before = [s \in Session |-> {}]
    /\ outcome = [s \in Session |-> "none"]

-----------------------------------------------------------------------------
(* GitHub and SonarCloud.                                                  *)

Push ==
    /\ pr.head + 1 \in Commit
    /\ pr' = [head |-> pr.head + 1, conflict |-> FALSE]
    /\ UNCHANGED <<registry, verdict, ranFor, gates, session>>

(* The base branch moves under the pull request.                           *)
BaseMoves ==
    /\ "conflict" \in Events
    /\ ~pr.conflict
    /\ pr' = [pr EXCEPT !.conflict = TRUE]
    /\ UNCHANGED <<registry, verdict, ranFor, gates, session>>

GateReports(h, g) ==
    /\ h <= pr.head
    /\ gates[h][g] = "pending"
    /\ \E o \in {"good", "bad"} : gates' = [gates EXCEPT ![h][g] = o]
    /\ UNCHANGED <<registry, verdict, ranFor, pr, session>>

(* Someone runs a failed workflow again.                                   *)
RerunOnGitHub(h) ==
    /\ "rerun" \in Events
    /\ gates[h]["ci"] = "bad"
    /\ gates' = [gates EXCEPT ![h]["ci"] = "pending"]
    /\ UNCHANGED <<registry, verdict, ranFor, pr, session>>

(* What a watch of this gate may answer now: the verdict there is, none    *)
(* (ok: false) when a read fails or the head moved, or ok: true and a      *)
(* timeout, of a CI run at any time (queued_too_long) and of the Sonar     *)
(* analysis when the watch's budget is spent.                              *)
Answers(j) ==
    LET g == request[j].key[1]
        o == gates[request[j].key[2]][g]
    IN {"no_answer"} \cup
       IF o # "pending" THEN {o}
       ELSE IF g = "ci" \/ ranFor[j] = Window THEN {"timed_out"}
       ELSE {}

(* A watch that rejects, or is cancelled by its handle, gives none.        *)
ChildSettles(j) ==
    /\ Jobs!Settles(j)
    /\ \/ /\ status'[j] = "done"
          /\ \E v \in Answers(j) : verdict' = [verdict EXCEPT ![j] = v]
          /\ stale'[j] = (verdict'[j] = "no_answer")
       \/ /\ "reject" \in Events
          /\ status'[j] # "done"
          /\ UNCHANGED verdict
    /\ UNCHANGED <<ranFor, github, session>>

ChildFinally(j) ==
    /\ Jobs!Finally(j)
    /\ UNCHANGED <<verdict, ranFor, github, session>>

-----------------------------------------------------------------------------
(* One call of runMonitor.                                                 *)

At(s, p) == pc[s] = p
Goto(s, p) == pc' = [pc EXCEPT ![s] = p]
Return(s, o) ==
    /\ Goto(s, "idle")
    /\ outcome' = [outcome EXCEPT ![s] = o]
    /\ elapsed' = [elapsed EXCEPT ![s] = 0]

Call(s) ==
    /\ At(s, "idle")
    /\ seq + Room <= MaxJobs
    /\ Goto(s, "first")
    /\ outcome' = [outcome EXCEPT ![s] = "none"]
    /\ before' = [before EXCEPT ![s] = ended]
    /\ head' = [head EXCEPT ![s] = 0]
    /\ handle' = [handle EXCEPT ![s] = [g \in Gate |-> 0]]
    /\ UNCHANGED <<registry, verdict, ranFor, github, seen, elapsed>>

ReadFails(s) ==
    /\ "read" \in Events
    /\ pc[s] \in {"first", "read"}
    /\ Return(s, "unreadable")
    /\ UNCHANGED <<registry, verdict, ranFor, github, seen, head, handle, before>>

(* The first read binds the call to a head, unless there is nothing to     *)
(* watch.                                                                  *)
ReadFirst(s) ==
    /\ At(s, "first")
    /\ seen' = [seen EXCEPT ![s] = Now]
    /\ head' = [head EXCEPT ![s] = pr.head]
    /\ \/ pr.conflict /\ Return(s, "conflicted")
       \/ ~pr.conflict /\ Goto(s, "start_ci") /\ UNCHANGED <<outcome, elapsed>>
    /\ UNCHANGED <<registry, verdict, ranFor, github, handle, before>>

(* The job that answers the start call.                                    *)
Child(s, g) == {j \in registered' : request'[j].key = <<g, head[s]>>}

(* Both start calls run in one turn of the event loop in the code; they    *)
(* are at different keys.  A refused start, or a replayed job that failed, *)
(* is the answer of the call.                                              *)
StartChild(s, g) ==
    /\ At(s, IF g = "ci" THEN "start_ci" ELSE "start_sonar")
    /\ Jobs!Start(Watch(g, head[s]))
    /\ \/ /\ \A j \in Child(s, g) : status'[j] \in {"failed", "cancelled"}
          /\ Return(s, "refused")
          /\ UNCHANGED handle
       \/ \E j \in Child(s, g) :
            /\ status'[j] \in {"running", "done"}
            /\ handle' = [handle EXCEPT ![s][g] = j]
            /\ Goto(s, IF g = "ci" THEN "start_sonar" ELSE "read")
            /\ UNCHANGED <<outcome, elapsed>>
    /\ UNCHANGED <<verdict, ranFor, github, seen, head, before>>

Read(s) ==
    /\ At(s, "read")
    /\ seen' = [seen EXCEPT ![s] = Now]
    /\ Goto(s, "judge")
    /\ UNCHANGED <<registry, verdict, ranFor, github, head, handle, elapsed, before, outcome>>

(* poll(): an expired or failed child is not ok.                           *)
NotOk(j) == j \notin Jobs!Unexpired \/ status[j] \in {"failed", "cancelled"}
Done(j) == j \in Jobs!Unexpired /\ status[j] = "done"

(* What the loop body says of a pull request that is still at its head,    *)
(* "none" to go on (observedResult).                                       *)
Observed(s) ==
    LET ci == handle[s]["ci"]
        sonar == handle[s]["sonar"]
    IN IF NotOk(ci) \/ NotOk(sonar) THEN "child_failed"
       ELSE IF Done(sonar) /\ verdict[sonar] \in {"no_answer", "timed_out"}
         THEN "sonar_not_evaluable"
       ELSE IF Done(sonar) /\ verdict[sonar] = "bad" THEN "sonar_findings"
       ELSE IF seen[s].ci = "bad" \/ (Done(ci) /\ verdict[ci] # "good") THEN "ci_failure"
       ELSE IF Done(ci) /\ Done(sonar) /\ seen[s].ci = "good" THEN "complete"
       ELSE "none"

(* Mutant: the head is taken from the first read only.                     *)
JudgementUnbound(s) == IF seen[s].conflict THEN "conflicted" ELSE Observed(s)

Judgement(s) ==
    IF seen[s].head # head[s] THEN "head_changed"
    ELSE IF seen[s].conflict THEN "conflicted"
    ELSE Observed(s)

Judge(s) ==
    /\ At(s, "judge")
    /\ registered' = IF Judgement(s) \in {"head_changed", "conflicted"}
                     THEN registered ELSE Jobs!Unexpired
    /\ \/ Judgement(s) # "none" /\ Return(s, Judgement(s))
       \/ Judgement(s) = "none" /\ Goto(s, "sleep") /\ UNCHANGED <<outcome, elapsed>>
    /\ UNCHANGED <<seq, jobVars, waiting, verdict, ranFor, github, seen, head, handle, before>>

(* Mutant: the window is not consulted again.                              *)
WakeForever(s) ==
    /\ At(s, "sleep")
    /\ Goto(s, "read")
    /\ UNCHANGED <<registry, verdict, ranFor, github, seen, head, handle, elapsed, before, outcome>>

(* After the pause the loop goes round while the window is open.           *)
Wake(s) ==
    /\ At(s, "sleep")
    /\ \/ elapsed[s] < Window /\ Goto(s, "read") /\ UNCHANGED <<outcome, elapsed>>
       \/ elapsed[s] = Window /\ Return(s, "timed_out")
    /\ UNCHANGED <<registry, verdict, ranFor, github, seen, head, handle, before>>

Tick ==
    /\ "time" \in Events
    /\ Jobs!Tick
    /\ ranFor' = [j \in Id |-> IF status[j] = "running" /\ ranFor[j] < Window
                               THEN ranFor[j] + 1 ELSE ranFor[j]]
    /\ elapsed' = [s \in Session |-> IF pc[s] \notin {"idle", "first"} /\ elapsed[s] < Window
                                     THEN elapsed[s] + 1 ELSE elapsed[s]]
    /\ UNCHANGED <<verdict, github, pc, seen, head, handle, before, outcome>>

Step(s) ==
    \/ ReadFirst(s) \/ ReadFails(s)
    \/ \E g \in Gate : StartChild(s, g)
    \/ Read(s) \/ Judge(s) \/ Wake(s)

Child_(j) == ChildSettles(j) \/ ChildFinally(j)

Next ==
    \/ \E s \in Session : Call(s) \/ Step(s)
    \/ \E j \in 1..seq : Child_(j)
    \/ Push \/ BaseMoves
    \/ \E h \in Commit : RerunOnGitHub(h) \/ \E g \in Gate : GateReports(h, g)
    \/ Tick

Spec == Init /\ [][Next]_vars

(* The event loop runs every call, requests end, and time passes.          *)
Fairness == WF_vars(Tick) /\ \A s \in Session : WF_vars(Step(s))

FairSpec == Spec /\ Fairness

-----------------------------------------------------------------------------
(* A call that reports the gates complete has seen, at its last read, the  *)
(* head it is bound to without conflict and with its checks passed, and    *)
(* both of its watches were of that head and found it good - whatever jobs *)
(* it was given, and however the head moved meanwhile (runMonitor).        *)
CompleteIsEarned ==
    \A s \in Session : outcome[s] = "complete" =>
      /\ seen[s] = [head |-> head[s], conflict |-> FALSE, ci |-> "good"]
      /\ \A g \in Gate : LET j == handle[s][g]
                         IN request[j].key = <<g, head[s]>> /\ verdict[j] = "good"

(* A call never repeats that Sonar gave no answer from a watch that had    *)
(* ended before the call (isNonVerdictWatchResult, issue #1695).  A watch  *)
(* that ended in a timeout is a verdict to the code and is repeated.       *)
FailedWatchRunsAgain ==
    \A s \in Session : outcome[s] = "sonar_not_evaluable" =>
      ~(handle[s]["sonar"] \in before[s] /\ verdict[handle[s]["sonar"]] = "no_answer")

(* At most one watch of a gate runs per head, however many calls monitor   *)
(* it (runMonitor: idempotencyKey).                                        *)
OneWatchPerHead ==
    /\ TypeOK
    /\ \A i, j \in Id :
         status[i] = "running" /\ status[j] = "running" /\ request[i].key = request[j].key => i = j

(* Every call answers within its window and the pause around it.           *)
CallAnswers == \A s \in Session : ~At(s, "idle") ~> At(s, "idle")

-----------------------------------------------------------------------------
(* What the statements above rest on: the jobs a call polls are of its     *)
(* head, a result stays what it is, and no stale one is handed out.        *)

ResultsConsistent ==
    \A j \in Id : status[j] = "done" =>
      verdict[j] # "none" /\ (stale[j] <=> verdict[j] = "no_answer")

Bound == {"start_ci", "start_sonar", "read", "judge", "sleep"}

SessionConsistent(s) ==
    /\ outcome[s] # "none" => At(s, "idle")
    /\ At(s, "first") => \A g \in Gate : handle[s][g] = 0
    /\ pc[s] \in Bound => head[s] \in Commit
    /\ pc[s] \in Bound \ {"start_ci"} => handle[s]["ci"] # 0
    /\ pc[s] \in Bound \ {"start_ci", "start_sonar"} => handle[s]["sonar"] # 0
    /\ \A g \in Gate : handle[s][g] # 0 => request[handle[s][g]].key = <<g, head[s]>>
    /\ handle[s]["sonar"] \in before[s] =>
          status[handle[s]["sonar"]] = "done" /\ verdict[handle[s]["sonar"]] # "no_answer"
    /\ outcome[s] = "complete" =>
          /\ seen[s] = [head |-> head[s], conflict |-> FALSE, ci |-> "good"]
          /\ \A g \in Gate : /\ handle[s][g] # 0 /\ status[handle[s][g]] = "done"
                             /\ verdict[handle[s][g]] = "good"

MonitorInvariant ==
    /\ TypeOK
    /\ Jobs!RegistryInvariant
    /\ seen \in [Session -> [head : Commit, conflict : BOOLEAN, ci : Opinion]]
    /\ before \in [Session -> SUBSET ended]
    /\ ResultsConsistent
    /\ \A s \in Session : SessionConsistent(s)
=============================================================================
