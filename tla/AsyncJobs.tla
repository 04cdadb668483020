------------------------------ MODULE AsyncJobs ------------------------------
(***************************************************************************)
(* The background-job registry of the MCP server                           *)
(* (lib/async-job-registry.js).  One process: a registry call runs to its  *)
(* end without interruption, but a job's promise settles in two reactions  *)
(* (the result handler, then the finally handler) and other calls can run  *)
(* between them.  A restart of the server loses everything.                *)
(***************************************************************************)
EXTENDS Naturals, FiniteSets

CONSTANTS Request,  \* the start calls clients make
          NoKey,    \* no idempotency key, no execution scope
          Capacity, \* _asyncJobCapacity
          TTL,      \* ASYNC_JOB_TTL_MS, in ticks
          MaxJobs,  \* bound: jobs ever created
          Waiter    \* await calls that can be held open at once

ASSUME CapacityAssumption == Capacity \in Nat \ {0}
ASSUME TTLAssumption == TTL \in Nat
ASSUME MaxJobsAssumption == MaxJobs \in Nat
ASSUME RequestAssumption ==
    /\ NoKey \notin Request
    /\ \A r \in Request : {r.singleFlight, r.cancellable, r.retry} \subseteq BOOLEAN
ASSUME NoKeyAssumption ==
    \A r \in Request, j \in 1..MaxJobs, b \in BOOLEAN :
      NoKey # [input |-> r.input, run |-> j, answered |-> b]

VARIABLES
    seq,        \* _asyncJobSeq: jobs 1..seq exist
    registered, \* the jobs in _asyncJobs
    request,    \* per job: the call that started it
    status,     \* per job: job.status; "unborn" above seq
    stale,      \* per job: its result answers nothing (retryStaleResult)
    aborted,    \* jobs whose controller was aborted
    ended,      \* jobs with a finishedAt
    age,        \* per job: ticks since finishedAt, up to TTL + 1
    waiting     \* per await call: the job it is held open for, or 0

jobVars == <<request, status, stale, aborted, ended, age>>
vars == <<seq, registered, request, status, stale, aborted, ended, age, waiting>>

Id == 1..MaxJobs
Terminal == {"done", "failed", "cancelled"}
Status == Terminal \cup {"unborn", "running"}

TypeOK ==
    /\ seq \in 0..MaxJobs
    /\ registered \subseteq 1..seq
    /\ request \in [Id -> Request \cup {NoKey}]
    /\ \A j \in Id : (j <= seq) = (request[j] # NoKey)
    /\ status \in [Id -> Status]
    /\ stale \in [Id -> BOOLEAN]
    /\ aborted \subseteq 1..seq
    /\ ended \subseteq 1..seq
    /\ age \in [Id -> 0..(TTL + 1)]
    /\ waiting \in [Waiter -> 0..seq]

Init ==
    /\ seq = 0
    /\ registered = {}
    /\ request = [j \in Id |-> NoKey]
    /\ status = [j \in Id |-> "unborn"]
    /\ stale = [j \in Id |-> FALSE]
    /\ aborted = {}
    /\ ended = {}
    /\ age = [j \in Id |-> 0]
    /\ waiting = [w \in Waiter |-> 0]

-----------------------------------------------------------------------------
(* Mutant: the retention bound is off by one.                              *)
UnexpiredBarely == {j \in registered : j \in ended => age[j] < TTL}

(* _reapExpiredAsyncJobs leaves these.                                     *)
Unexpired == {j \in registered : j \in ended => age[j] <= TTL}

Matches(j, r) == r.key # NoKey /\ request[j].key = r.key

(* Mutant: only a running job answers for its key.                         *)
ExistingRunning(r) == {j \in Unexpired : Matches(j, r) /\ status[j] = "running"}

(* Mutant: only a settled job answers for its key.                         *)
ExistingSettled(r) == {j \in Unexpired : Matches(j, r) /\ status[j] \in Terminal}

(* The job, if any, that answers a start call with r's key.                *)
Existing(r) == {j \in Unexpired : Matches(j, r)}

Conflicting(r) == {j \in Existing(r) : request[j].input # r.input}

(* Mutant: the caller's retry predicate is asked of any job.               *)
EvictableAnyStatus(r) == {j \in Existing(r) \ Conflicting(r) : r.retry}

(* A finished attempt the caller calls stale makes room for a new one.     *)
Evictable(r) ==
    {j \in Existing(r) \ Conflicting(r) : status[j] = "done" /\ r.retry /\ stale[j]}

(* Mutant: an aborted job no longer counts as active.                      *)
ContendedUnlessAborted(r) ==
    /\ r.singleFlight /\ r.scope # NoKey
    /\ \E j \in Unexpired \ Evictable(r) :
         status[j] = "running" /\ j \notin aborted /\ request[j].scope = r.scope

Contended(r) ==
    /\ r.singleFlight /\ r.scope # NoKey
    /\ \E j \in Unexpired \ Evictable(r) :
         status[j] = "running" /\ request[j].scope = r.scope

Full(r) == Cardinality(Unexpired \ Evictable(r)) >= Capacity

(* startAsyncJob ends without a new job: it replays the existing one,      *)
(* refuses a changed input, a busy scope or a full registry.               *)
StartAnswered(r) ==
    /\ Existing(r) # {} /\ Evictable(r) = {}
    /\ registered' = Unexpired
    /\ UNCHANGED <<seq, jobVars, waiting>>

StartRefused(r) ==
    /\ Existing(r) = Evictable(r)
    /\ Contended(r) \/ Full(r)
    /\ registered' = Unexpired \ Evictable(r)
    /\ UNCHANGED <<seq, jobVars, waiting>>

StartCreates(r) ==
    LET j == seq + 1
    IN /\ j \in Id
       /\ Existing(r) = Evictable(r)
       /\ ~Contended(r) /\ ~Full(r)
       /\ seq' = j
       /\ registered' = (Unexpired \ Evictable(r)) \cup {j}
       /\ request' = [request EXCEPT ![j] = r]
       /\ status' = [status EXCEPT ![j] = "running"]
       /\ UNCHANGED <<stale, aborted, ended, age, waiting>>

Poll ==
    /\ Unexpired # registered
    /\ registered' = Unexpired
    /\ UNCHANGED <<seq, jobVars, waiting>>

(* awaitAsyncJob: an unknown or settled handle is answered at once, a      *)
(* running job holds the request open.                                     *)
Await(w, j) ==
    /\ waiting[w] = 0
    /\ registered' = Unexpired
    /\ \/ /\ j \in Unexpired /\ status[j] = "running"
          /\ waiting' = [waiting EXCEPT ![w] = j]
       \/ /\ ~(j \in Unexpired /\ status[j] = "running")
          /\ UNCHANGED waiting
    /\ UNCHANGED <<seq, jobVars>>

(* The timer of a held request fires.                                      *)
WaitExpires(w) ==
    /\ waiting[w] # 0
    /\ waiting' = [waiting EXCEPT ![w] = 0]
    /\ UNCHANGED <<seq, registered, jobVars>>

(* Mutant: the job's own claim is not asked.                               *)
CancelAny(j) ==
    /\ registered' = Unexpired
    /\ aborted' = IF j \in Unexpired /\ status[j] = "running" THEN aborted \cup {j} ELSE aborted
    /\ UNCHANGED <<seq, request, status, stale, ended, age, waiting>>

(* cancelAsyncJob.                                                         *)
Cancel(j) ==
    /\ registered' = Unexpired
    /\ aborted' = IF j \in Unexpired /\ status[j] = "running" /\ request[j].cancellable
                  THEN aborted \cup {j} ELSE aborted
    /\ UNCHANGED <<seq, request, status, stale, ended, age, waiting>>

(* runFn's promise settles and its handler records the outcome.  A job may *)
(* still complete, or fail, after it was aborted.                          *)
Settles(j) ==
    /\ status[j] = "running"
    /\ \/ /\ status' = [status EXCEPT ![j] = "done"]
          /\ stale' \in {[stale EXCEPT ![j] = b] : b \in BOOLEAN}
       \/ /\ status' = [status EXCEPT ![j] = IF j \in aborted THEN "cancelled" ELSE "failed"]
          /\ UNCHANGED stale
    /\ UNCHANGED <<seq, registered, request, aborted, ended, age, waiting>>

(* Mutant: finishedAt is recorded but nobody is released.                  *)
FinallySilent(j) ==
    /\ status[j] \in Terminal /\ j \notin ended
    /\ ended' = ended \cup {j}
    /\ UNCHANGED <<seq, registered, request, status, stale, aborted, age, waiting>>

(* The finally handler: finishedAt, then every held request is released.   *)
Finally(j) ==
    /\ status[j] \in Terminal /\ j \notin ended
    /\ ended' = ended \cup {j}
    /\ waiting' = [w \in Waiter |-> IF waiting[w] = j THEN 0 ELSE waiting[w]]
    /\ UNCHANGED <<seq, registered, request, status, stale, aborted, age>>

Tick ==
    /\ age' = [j \in Id |-> IF j \in ended /\ age[j] <= TTL THEN age[j] + 1 ELSE age[j]]
    /\ UNCHANGED <<seq, registered, request, status, stale, aborted, ended, waiting>>

(* The server process restarts: the registry, the promises and the held    *)
(* requests are gone.  (Job ids carry their start time, so a handle from   *)
(* before the restart names no job after it.)                              *)
Restart ==
    /\ seq > 0
    /\ seq' = 0
    /\ registered' = {} /\ aborted' = {} /\ ended' = {}
    /\ request' = [j \in Id |-> NoKey]
    /\ status' = [j \in Id |-> "unborn"]
    /\ stale' = [j \in Id |-> FALSE]
    /\ age' = [j \in Id |-> 0]
    /\ waiting' = [w \in Waiter |-> 0]

Start(r) == StartAnswered(r) \/ StartRefused(r) \/ StartCreates(r)

Next ==
    \/ \E r \in Request : Start(r)
    \/ Poll
    \/ \E w \in Waiter, j \in Id : Await(w, j)
    \/ \E w \in Waiter : WaitExpires(w)
    \/ \E j \in 1..seq : Cancel(j) \/ Settles(j) \/ Finally(j)
    \/ Tick
    \/ Restart

Spec == Init /\ [][Next]_vars

-----------------------------------------------------------------------------
Running(j) == status[j] = "running"

(* Live work is never evicted and the registry never outgrows its bound:   *)
(* a full registry refuses new work instead (startAsyncJob).               *)
LiveWorkRegistered == \A j \in Id : Running(j) => j \in registered
WithinCapacity == Cardinality(registered) <= Capacity

(* At most one single-flight job of a scope runs, however the starts,      *)
(* cancellations, evictions and retries before it interleaved              *)
(* (startAsyncJob: contended).                                             *)
SingleFlight ==
    \A i, j \in Id :
      /\ Running(i) /\ Running(j)
      /\ request[i].singleFlight /\ request[j].singleFlight
      /\ request[i].scope = request[j].scope /\ request[i].scope # NoKey
      => i = j

(* A key never has two jobs to answer for it (_resolveIdempotentAsyncJob). *)
OneJobPerKey ==
    \A i, j \in registered :
      request[i].key = request[j].key /\ request[i].key # NoKey => i = j

(* A held request is held by a job that still has its finally handler to   *)
(* run, even when the job was evicted meanwhile, so it will be released    *)
(* (awaitAsyncJob: waiters).                                               *)
NobodyStranded ==
    \A w \in Waiter : waiting[w] # 0 => waiting[w] \notin ended

(* A job reported as cancelled claimed cancellation and was asked to stop  *)
(* (cancelAsyncJob).                                                       *)
CancelledHonestly ==
    \A j \in Id : status[j] = "cancelled" => j \in aborted /\ request[j].cancellable

(* All of that, with what its preservation rests on: exactly the created   *)
(* jobs have a status, finishedAt follows the outcome, and only jobs that  *)
(* claim cancellation are ever aborted.                                    *)
RegistryInvariant ==
    /\ TypeOK
    /\ LiveWorkRegistered
    /\ WithinCapacity
    /\ SingleFlight
    /\ OneJobPerKey
    /\ NobodyStranded
    /\ CancelledHonestly
    /\ \A j \in Id : status[j] = "unborn" <=> j > seq
    /\ \A j \in ended : status[j] \in Terminal
    /\ \A j \in aborted : request[j].cancellable

(* A result leaves the registry only when its retention has passed, when a *)
(* retry replaces it because it answers nothing, or with the server.       *)
ResultsRetained ==
    [][\A j \in registered \ registered' :
         \/ j \in ended /\ age[j] > TTL
         \/ status[j] = "done" /\ stale[j]
         \/ Restart]_vars

(* The attempts the registry implements.                                   *)
JobOf(k) == {j \in registered : request[j].key = k}
Key == {r.key : r \in Request} \ {NoKey}
Attempts == INSTANCE LogicalAttempts WITH
    Input <- {r.input : r \in Request},
    Run <- Id,
    None <- NoKey,
    attempt <- [k \in Key |->
                  IF JobOf(k) = {} THEN NoKey
                  ELSE LET j == CHOOSE j \in JobOf(k) : TRUE
                       IN [input |-> request[j].input, run |-> j, answered |-> ~Running(j)]]

(* A key answers for one run at one input at a time, and only an answered  *)
(* attempt is forgotten or run again (startAsyncJob's replay, conflict and *)
(* retry answers).                                                         *)
ImplementsAttempts == Attempts!Spec
=============================================================================
