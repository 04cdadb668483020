------------------------------ MODULE CiWatcher ------------------------------
(***************************************************************************)
(* One watch of the workflow runs of a commit (lib/ci-watcher.js).  Runs   *)
(* register some time after the push, so the watch keeps listing them      *)
(* until a listing taken at or after a deadline; in every round it reads   *)
(* the runs it knows one by one and then decides.  Between two requests    *)
(* anything can happen on GitHub, and time passes.                         *)
(***************************************************************************)
EXTENDS Naturals, FiniteSets

CONSTANTS Run,          \* workflow runs of the branch
          Foreign,      \* those of another commit than the watched one
          Registration, \* the registration window, in ticks
          QueueCap,     \* queuedTimeoutSeconds, in ticks
          TotalCap,     \* totalTimeoutSeconds, in ticks
          ListLimit,    \* gh run list --limit
          Horizon,      \* bound: the last tick
          OthersMove,   \* bound: whether unwatched runs of other commits do anything
          None

ASSUME CapsAssumption ==
    /\ {Registration, QueueCap, TotalCap, ListLimit, Horizon} \subseteq Nat
    /\ Registration <= TotalCap /\ TotalCap < Horizon
    /\ Foreign \subseteq Run /\ None \notin Run /\ OthersMove \in BOOLEAN

VARIABLES
    clock,      \* ticks since the watch began (startMs)
    born,       \* per registered run: when GitHub listed it first
    state,      \* per registered run: its state on GitHub
    since,      \* per queued run: startedAt of its attempt, else 0
    pc,         \* what the watch does next
    pinned,     \* run_id, or None
    bound,      \* a head to bind to is known (boundHeadSha)
    atDeadline, \* atOrPastDeadline
    closed,     \* discoveryClosed
    watched,    \* watchedRunIds
    observed,   \* the runs read in this round: state and since
    result      \* what the watch ended with, and the run it names

github == <<born, state, since>>
watch == <<pc, pinned, bound, atDeadline, closed, watched, observed, result>>
vars == <<clock, github, watch>>

(* A run waits without a runner again between its jobs (handoff), and a    *)
(* failed job does not end it (failing).  "other" is skipped, neutral or   *)
(* stale.                                                                  *)
Unfinished == {"queued", "running", "handoff", "failing"}
Completed == {"success", "failure", "other"}
State == Unfinished \cup Completed
Actionable == {"failing", "failure"}

Registered == DOMAIN born
Running == [says |-> "nothing", run |-> None]

(* The watch neither reads nor names a run that GitHub does not have, and  *)
(* it judges only what it has read.                                        *)
TypeOK ==
    /\ clock \in 0..Horizon
    /\ Registered \subseteq Run
    /\ born \in [Registered -> 0..Horizon]
    /\ state \in [Registered -> State]
    /\ since \in [Registered -> 0..Horizon]
    /\ pc \in {"register", "enough", "clock", "list", "read", "decide", "done"}
    /\ pinned \in Registered \cup {None}
    /\ {bound, atDeadline, closed} \subseteq BOOLEAN
    /\ watched \subseteq Registered
    /\ DOMAIN observed \subseteq watched
    /\ \A r \in DOMAIN observed : observed[r] \in [state : State, since : 0..Horizon]
    /\ result.run \in watched \cup {None}
    /\ pc = "decide" => DOMAIN observed = watched

Unread == [r \in {} |-> None]

With(f, r, value) == [x \in DOMAIN f \cup {r} |-> IF x = r THEN value ELSE f[x]]

Init ==
    /\ clock = 0
    /\ \E early \in {{}} \cup {{r} : r \in Run} :
         /\ born = [r \in early |-> 0]
         /\ state = [r \in early |-> "queued"]
         /\ since = [r \in early |-> 0]
         /\ pinned \in early \cup {None}
    /\ bound \in BOOLEAN /\ (pinned = None => bound)
    /\ pc = IF pinned = None THEN "register" ELSE "read"
    /\ atDeadline = FALSE
    /\ closed = (pinned # None)
    /\ watched = {pinned} \ {None}
    /\ observed = Unread
    /\ result = Running

-----------------------------------------------------------------------------
(* GitHub and the clock.                                                   *)

Matters(r) == r \in Foreign /\ ~OthersMove => r = pinned

Registers(r) ==
    /\ r \notin Registered /\ Matters(r)
    /\ born' = With(born, r, clock)
    /\ state' = With(state, r, "queued")
    /\ since' = With(since, r, clock)
    /\ UNCHANGED <<clock, watch>>

Becomes(r, s) ==
    /\ Matters(r)
    /\ state' = [state EXCEPT ![r] = s]
    /\ UNCHANGED <<clock, born, watch>>

Proceeds(r) ==
    \E s \in State :
      /\ <<state[r], s>> \in
           {<<"queued", "running">>, <<"running", "handoff">>, <<"handoff", "running">>,
            <<"running", "failing">>, <<"running", "success">>, <<"running", "other">>,
            <<"failing", "failure">>}
      /\ Becomes(r, s)
      /\ since' = [since EXCEPT ![r] = 0]

(* A failed run is run again; startedAt is then the new attempt's.         *)
RunAgain(r) ==
    /\ state[r] = "failure"
    /\ Becomes(r, "queued")
    /\ since' = [since EXCEPT ![r] = clock]

Tick ==
    /\ clock < Horizon
    /\ clock' = clock + 1
    /\ UNCHANGED <<github, watch>>

-----------------------------------------------------------------------------
(* The watch.  A request and the code that follows it up to the next       *)
(* request are one step, except where the clock is read on either side.    *)

Ends(says, r) ==
    /\ pc' = "done"
    /\ result' = [says |-> says, run |-> r]

Goes(p) ==
    /\ pc' = p
    /\ UNCHANGED result

MinOf(a, b) == IF a < b THEN a ELSE b

(* gh run list: the runs of the head among the latest ListLimit of the     *)
(* branch, of which several may be equally late.                           *)
ListedRuns ==
    {latest \ Foreign : latest \in
       {l \in SUBSET Registered :
          /\ Cardinality(l) = MinOf(ListLimit, Cardinality(Registered))
          /\ \A r \in l, q \in Registered \ l : born[q] <= born[r]}}

RegisterListing ==
    /\ pc = "register"
    /\ \/ watched' \in ListedRuns /\ Goes("enough")
       \/ Ends("lookup_failed", None) /\ UNCHANGED watched
    /\ UNCHANGED <<clock, github, pinned, bound, atDeadline, closed, observed>>

DeadlinePassed == clock >= Registration

(* The clock is read after the listing has answered.                       *)
RegisterDecision ==
    /\ pc = "enough"
    /\ IF watched # {} THEN Goes("clock")
       ELSE IF DeadlinePassed THEN Ends("no_run", None) ELSE Goes("register")
    /\ UNCHANGED <<clock, github, pinned, bound, atDeadline, closed, watched, observed>>

(* Mutant: the window closes on the clock alone, without another listing.  *)
ReadClockOnly ==
    /\ pc = "clock"
    /\ closed' = (closed \/ DeadlinePassed)
    /\ Goes(IF closed' THEN "read" ELSE "list")
    /\ observed' = Unread
    /\ UNCHANGED <<clock, github, pinned, bound, atDeadline, watched>>

(* The clock is read before the listing is asked for.                      *)
ReadClock ==
    /\ pc = "clock"
    /\ atDeadline' = DeadlinePassed
    /\ Goes(IF closed THEN "read" ELSE "list")
    /\ observed' = Unread
    /\ UNCHANGED <<clock, github, pinned, bound, closed, watched>>

Listing ==
    /\ pc = "list"
    /\ \/ /\ \E ids \in ListedRuns : watched' = watched \cup ids
          /\ closed' = atDeadline
          /\ Goes("read")
       \/ Ends("lookup_failed", None) /\ UNCHANGED <<watched, closed>>
    /\ UNCHANGED <<clock, github, pinned, bound, atDeadline, observed>>

Snapshot(r) == [state |-> state[r], since |-> since[r]]

EnoughRead(runs) == runs = watched

ReadRun(r) ==
    /\ pc = "read" /\ r \in watched \ DOMAIN observed
    /\ \/ Ends("snapshot_failed", r) /\ UNCHANGED observed
       \/ bound /\ r \in Foreign /\ Ends("head_mismatch", r) /\ UNCHANGED observed
       \/ /\ bound => r \notin Foreign
          /\ observed' = With(observed, r, Snapshot(r))
          /\ Goes(IF EnoughRead(DOMAIN observed') THEN "decide" ELSE "read")
    /\ UNCHANGED <<clock, github, pinned, bound, atDeadline, closed, watched>>

Observed(states) == {r \in watched : observed[r].state \in states}

(* Mutant: a hand-off between jobs counts as waiting in the queue.         *)
QueuedTooLongHandoff ==
    {r \in Observed({"queued", "handoff"}) : clock - observed[r].since > QueueCap}

(* ciRunQueuedSeconds: only a run none of whose jobs has started waits.    *)
QueuedTooLong ==
    {r \in Observed({"queued"}) : clock - observed[r].since > QueueCap}

(* Mutant: the total cap is spent by waiting runs only.                    *)
ExhaustedWaiting == clock > TotalCap /\ Observed({"queued"}) # {}

Exhausted == clock > TotalCap

(* The first of a failure, a run stuck in the queue, the total cap; else   *)
(* the verdict of the whole set once it is settled and the window closed.  *)
Decide ==
    /\ pc = "decide"
    /\ \/ \E r \in Observed(Actionable) : Ends("failure", r)
       \/ /\ Observed(Actionable) = {}
          /\ \/ \E r \in QueuedTooLong : Ends("queued_too_long", r)
             \/ /\ QueuedTooLong = {} /\ Exhausted
                /\ \E r \in Observed(Unfinished) : Ends("timed_out", r)
             \/ /\ Observed(Unfinished) = {} /\ closed
                /\ \/ \E r \in Observed({"other"}) : Ends("other", r)
                   \/ Observed({"other"}) = {} /\ Ends("success", None)
             \/ /\ Observed(Unfinished) = {} /\ ~closed
                /\ Goes("clock")
             \/ /\ Observed(Unfinished) # {} /\ QueuedTooLong = {} /\ ~Exhausted
                /\ Goes("clock")
    /\ UNCHANGED <<clock, github, pinned, bound, atDeadline, closed, watched, observed>>

Watch ==
    \/ RegisterListing \/ RegisterDecision \/ ReadClock \/ Listing
    \/ (\E r \in watched : ReadRun(r))
    \/ Decide

GitHub ==
    \/ \E r \in Run : Registers(r)
    \/ \E r \in Registered : Proceeds(r) \/ RunAgain(r)

(* Bound: what happens after the watch has ended is not explored.          *)
Next == Watch \/ (pc # "done" /\ (GitHub \/ Tick))

Spec == Init /\ [][Next]_vars

(* Requests end and sleeps elapse; GitHub owes nothing.                    *)
FairSpec == Spec /\ WF_vars(Watch) /\ WF_vars(pc # "done" /\ Tick)

-----------------------------------------------------------------------------
(* Properties.                                                             *)

(* A watch that reports success covers its commit: every run of the head   *)
(* that was registered before the window closed was watched and read as    *)
(* successful, though runs register, are run again and finish between the  *)
(* requests, and no other commit's run was taken for one of them.          *)
SuccessCoversHead ==
    result.says = "success" =>
      /\ Observed({"success"}) = watched
      /\ bound => watched \cap Foreign = {}
      /\ pinned = None =>
           {r \in Registered \ Foreign : born[r] < Registration} \subseteq watched

(* A run is blamed for waiting in the queue only when none of its jobs had *)
(* started in the attempt that was read, that attempt is older than the    *)
(* cap, and no watched run had failed: neither a hand-off between jobs nor *)
(* the age of the watch or of an earlier attempt is a stuck queue.         *)
StuckQueueIsReal ==
    /\ TypeOK
    /\ result.says = "queued_too_long" =>
         /\ observed[result.run].state = "queued"
         /\ observed[result.run].since + QueueCap < clock
         /\ Observed(Actionable) = {}

(* Every watch ends, whatever its runs do.                                 *)
WatchEnds == <>(pc = "done")

-----------------------------------------------------------------------------
(* What the statements above rest on: runs are judged in the order of the  *)
(* phases, and those read are of the head.                                 *)
WatchInvariant ==
    /\ StuckQueueIsReal
    /\ pc # "done" => result = Running
    /\ pc \in {"register", "enough"} => DOMAIN observed = {} /\ ~closed
    /\ bound => DOMAIN observed \cap Foreign = {}

(* The runs that a closed window must have covered.                        *)
Early == {r \in Registered \ Foreign : born[r] < Registration}

(* The listing that closes the window is asked for after the deadline, so  *)
(* what registers from then on is late.                                    *)
WindowCovers ==
    /\ pinned = None => /\ atDeadline \/ closed => Registration <= clock
                        /\ closed => Early \subseteq watched
    /\ SuccessCoversHead

(* No listing leaves a run out.                                            *)
ListingIsWhole == IsFiniteSet(Run) /\ Cardinality(Run) <= ListLimit
=============================================================================
