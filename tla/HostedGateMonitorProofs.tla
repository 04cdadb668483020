----------------------- MODULE HostedGateMonitorProofs -----------------------
(***************************************************************************)
(* The statements of HostedGateMonitor, for any number of calls and heads, *)
(* any window and any registry.  The registry's own invariant is taken     *)
(* from its proof (AsyncJobsProofs); what is added here is that the jobs a *)
(* call polls stay of its head, and that a result stays what it is.        *)
(***************************************************************************)
EXTENDS HostedGateMonitor, TLAPS

Watches == {Watch(g, h) : g \in Gate, h \in Commit}

Registry == INSTANCE AsyncJobsProofs WITH Waiter <- {}, Request <- Watches

LEMMA WatchFields ==
    ASSUME NEW r \in Watches
    PROVE  /\ \E g \in Gate, h \in Commit : r.key = <<g, h>> /\ r.input = h /\ r = Watch(g, h)
           /\ r.retry = TRUE /\ r.key # NoKey /\ r # NoKey
           /\ {r.singleFlight, r.cancellable, r.retry} \subseteq BOOLEAN
<1>1. PICK g \in Gate, h \in Commit : r = Watch(g, h)
  BY DEF Watches
<1>2. NoKey # <<g, h>> /\ NoKey # Watch(g, h)
  BY KeyAssumption
<1> QED BY <1>1, <1>2 DEF Watch

(* What the registry assumes of its parameters.                            *)
LEMMA RegistryMayBe ==
    /\ Registry!CapacityAssumption /\ Registry!TTLAssumption
    /\ Registry!MaxJobsAssumption /\ Registry!RequestAssumption /\ Registry!NoKeyAssumption
<1>1. NoKey \notin Watches
  BY WatchFields
<1>2. \A r \in Watches : {r.singleFlight, r.cancellable, r.retry} \subseteq BOOLEAN
  BY WatchFields
<1>3. ASSUME NEW r \in Watches, NEW j \in 1..MaxJobs, NEW b \in BOOLEAN
      PROVE  NoKey # [input |-> r.input, run |-> j, answered |-> b]
  <2>1. PICK g \in Gate, h \in Commit : r.input = h
    BY WatchFields
  <2> QED BY <2>1, KeyAssumption
<1> QED BY <1>1, <1>2, <1>3, RegistryAssumption
  DEF Registry!CapacityAssumption, Registry!TTLAssumption, Registry!MaxJobsAssumption,
      Registry!RequestAssumption, Registry!NoKeyAssumption

(* The two instances of the registry's definitions are one.                *)
LEMMA SameCount ==
    ASSUME NEW S PROVE Jobs!Cardinality(S) = Registry!Cardinality(S)
BY DEF Jobs!Cardinality, Registry!Cardinality

LEMMA SameState ==
    Jobs!RegistryInvariant <=> Registry!RegistryInvariant
<1>1. Jobs!Id = Registry!Id /\ Jobs!Terminal = Registry!Terminal /\ Jobs!Status = Registry!Status
  BY DEF Jobs!Id, Registry!Id, Jobs!Terminal, Registry!Terminal, Jobs!Status, Registry!Status
<1>2. Jobs!TypeOK <=> Registry!TypeOK
  BY <1>1 DEF Jobs!TypeOK, Registry!TypeOK, Watches
<1>3. Jobs!LiveWorkRegistered <=> Registry!LiveWorkRegistered
  BY <1>1
  DEF Jobs!LiveWorkRegistered, Registry!LiveWorkRegistered, Jobs!Running, Registry!Running
<1>4. Jobs!WithinCapacity <=> Registry!WithinCapacity
  BY SameCount DEF Jobs!WithinCapacity, Registry!WithinCapacity
<1>5. Jobs!SingleFlight <=> Registry!SingleFlight
  BY <1>1 DEF Jobs!SingleFlight, Registry!SingleFlight, Jobs!Running, Registry!Running
<1>6. Jobs!OneJobPerKey <=> Registry!OneJobPerKey
  BY DEF Jobs!OneJobPerKey, Registry!OneJobPerKey
<1>7. Jobs!NobodyStranded <=> Registry!NobodyStranded
  BY DEF Jobs!NobodyStranded, Registry!NobodyStranded
<1>8. Jobs!CancelledHonestly <=> Registry!CancelledHonestly
  BY <1>1 DEF Jobs!CancelledHonestly, Registry!CancelledHonestly
<1> QED
  BY <1>1, <1>2, <1>3, <1>4, <1>5, <1>6, <1>7, <1>8
  DEF Jobs!RegistryInvariant, Registry!RegistryInvariant

LEMMA SameInvariant ==
    /\ Jobs!RegistryInvariant <=> Registry!RegistryInvariant
    /\ Jobs!RegistryInvariant' <=> Registry!RegistryInvariant'
BY SameState, PTL

LEMMA SameStart ==
    ASSUME NEW r \in Watches, Jobs!Start(r)
    PROVE  Registry!StartAnswered(r) \/ Registry!StartRefused(r) \/ Registry!StartCreates(r)
<1>1. Jobs!Unexpired = Registry!Unexpired /\ Jobs!Id = Registry!Id
  BY DEF Jobs!Unexpired, Registry!Unexpired, Jobs!Id, Registry!Id
<1>2. Jobs!Existing(r) = Registry!Existing(r)
  BY <1>1 DEF Jobs!Existing, Registry!Existing, Jobs!Matches, Registry!Matches
<1>3. Jobs!Evictable(r) = Registry!Evictable(r)
  BY <1>2 DEF Jobs!Evictable, Registry!Evictable, Jobs!Conflicting, Registry!Conflicting
<1>4. /\ Jobs!Contended(r) <=> Registry!Contended(r)
      /\ Jobs!Full(r) <=> Registry!Full(r)
  BY <1>1, <1>3, SameCount DEF Jobs!Contended, Registry!Contended, Jobs!Full, Registry!Full
<1>5. Jobs!StartAnswered(r) => Registry!StartAnswered(r)
  BY <1>1, <1>2, <1>3
  DEF Jobs!StartAnswered, Registry!StartAnswered, Jobs!jobVars, Registry!jobVars
<1>6. Jobs!StartRefused(r) => Registry!StartRefused(r)
  BY <1>1, <1>2, <1>3, <1>4
  DEF Jobs!StartRefused, Registry!StartRefused, Jobs!jobVars, Registry!jobVars
<1>7. Jobs!StartCreates(r) => Registry!StartCreates(r)
  BY <1>1, <1>2, <1>3, <1>4 DEF Jobs!StartCreates, Registry!StartCreates
<1> QED BY <1>5, <1>6, <1>7 DEF Jobs!Start

(* The registry's variables in every step of the monitor.                  *)
Sweeps == registered' \in {registered, Jobs!Unexpired} /\ UNCHANGED <<seq, jobVars, waiting>>

RegistryStep ==
    \/ \E r \in Watches : Jobs!Start(r)
    \/ \E j \in 1..seq : Jobs!Settles(j) \/ Jobs!Finally(j)
    \/ Jobs!Tick
    \/ Sweeps

LEMMA RegistryKeeps ==
    ASSUME Jobs!RegistryInvariant, RegistryStep PROVE Jobs!RegistryInvariant'
<1>0. Registry!RegistryInvariant
  BY SameInvariant
<1>1. ASSUME NEW r \in Watches, Jobs!Start(r) PROVE Registry!RegistryInvariant'
  <2>1. Registry!StartAnswered(r) \/ Registry!StartRefused(r) \/ Registry!StartCreates(r)
    BY <1>1, SameStart
  <2> QED BY <1>0, <1>1, <2>1, RegistryMayBe, Registry!StartAnsweredKeeps,
             Registry!StartRefusedKeeps, Registry!StartCreatesKeeps
<1>2. ASSUME NEW j \in 1..seq, Jobs!Settles(j) PROVE Registry!RegistryInvariant'
  <2>1. Registry!Settles(j)
    BY <1>2 DEF Jobs!Settles, Registry!Settles
  <2> QED BY <1>0, <1>2, <2>1, RegistryMayBe, Registry!SettlesKeeps
<1>3. ASSUME NEW j \in 1..seq, Jobs!Finally(j) PROVE Registry!RegistryInvariant'
  <2>1. Registry!Finally(j)
    BY <1>3 DEF Jobs!Finally, Registry!Finally, Jobs!Terminal, Registry!Terminal
  <2> QED BY <1>0, <1>3, <2>1, RegistryMayBe, Registry!FinallyKeeps
<1>4. CASE Jobs!Tick
  <2>1. Registry!Tick
    BY <1>4 DEF Jobs!Tick, Registry!Tick, Jobs!Id, Registry!Id
  <2> QED BY <1>0, <2>1, RegistryMayBe, Registry!TickKeeps, SameInvariant
<1>5. CASE Sweeps
  <2>1. Registry!Poll \/ UNCHANGED Registry!vars
    BY <1>5 DEF Sweeps, jobVars, Registry!Poll, Registry!vars, Registry!jobVars,
      Jobs!Unexpired, Registry!Unexpired
  <2> QED BY <1>0, <2>1, RegistryMayBe, Registry!PollKeeps, Registry!StutterKeeps, SameInvariant
<1> QED BY <1>1, <1>2, <1>3, <1>4, <1>5, SameInvariant DEF RegistryStep

-----------------------------------------------------------------------------
(* What no step undoes: jobs keep their request, results stay.             *)

Onward ==
    /\ seq' \in Nat /\ seq <= seq' /\ ended \subseteq ended'
    /\ \A j \in 1..seq : request'[j] = request[j]
    /\ \A j \in Id : status[j] = "done" => status'[j] = "done" /\ verdict'[j] = verdict[j]

(* A step in which no watch answers.                                       *)
NoneAnswers ==
    /\ verdict' = verdict
    /\ \A j \in Id : status'[j] = "done" => status[j] = "done" /\ stale'[j] = stale[j]

LEMMA RegistryTypes ==
    ASSUME Jobs!RegistryInvariant
    PROVE  /\ seq \in Nat /\ 1..seq \subseteq Id /\ ended \subseteq 1..seq
           /\ request \in [Id -> Watches \cup {NoKey}]
           /\ status \in [Id -> Jobs!Status] /\ stale \in [Id -> BOOLEAN]
           /\ registered \subseteq 1..seq
           /\ \A j \in Id : status[j] = "unborn" <=> j > seq
           /\ \A j \in ended : status[j] \in {"done", "failed", "cancelled"}
           /\ Jobs!Id = Id
BY RegistryAssumption DEF Jobs!RegistryInvariant, Jobs!TypeOK, Jobs!Id, Id, Watches, Jobs!Terminal

LEMMA StartMoves ==
    ASSUME Jobs!RegistryInvariant, NEW r \in Watches, Jobs!Start(r), UNCHANGED verdict
    PROVE  /\ Onward /\ NoneAnswers /\ RegistryStep
           /\ \/ status' = status /\ request' = request
              \/ /\ seq + 1 \in Id
                 /\ request' = [request EXCEPT ![seq + 1] = r]
                 /\ status' = [status EXCEPT ![seq + 1] = "running"]
           /\ ended' = ended
<1>1. RegistryStep
  BY DEF RegistryStep
<1>2. CASE UNCHANGED <<seq, jobVars>>
  BY <1>1, <1>2, RegistryTypes DEF Onward, NoneAnswers, jobVars
<1>3. CASE Jobs!StartCreates(r)
  <2>1. /\ seq + 1 \in Id /\ seq' = seq + 1
        /\ request' = [request EXCEPT ![seq + 1] = r]
        /\ status' = [status EXCEPT ![seq + 1] = "running"]
        /\ UNCHANGED <<stale, ended>>
    BY <1>3 DEF Jobs!StartCreates, Jobs!Id, Id
  <2>2. seq + 1 \notin 1..seq /\ status[seq + 1] = "unborn"
    BY <2>1, RegistryTypes
  <2>3. Onward
    BY <2>1, <2>2, RegistryTypes DEF Onward
  <2>4. NoneAnswers
    BY <2>1, RegistryTypes DEF NoneAnswers
  <2> QED BY <1>1, <2>1, <2>3, <2>4
<1> QED BY <1>2, <1>3 DEF Jobs!Start, Jobs!StartAnswered, Jobs!StartRefused, Jobs!jobVars, jobVars

LEMMA SweepMoves ==
    ASSUME Jobs!RegistryInvariant, Sweeps, UNCHANGED verdict
    PROVE  Onward /\ NoneAnswers /\ RegistryStep
BY RegistryTypes DEF Sweeps, jobVars, Onward, NoneAnswers, RegistryStep

LEMMA ResultsKept ==
    ASSUME ResultsConsistent, NoneAnswers PROVE ResultsConsistent'
BY DEF ResultsConsistent, NoneAnswers

(* What a call holds outlives the steps of the others.                     *)
Frame(s) ==
    /\ pc'[s] = pc[s] /\ seen'[s] = seen[s] /\ head'[s] = head[s] /\ handle'[s] = handle[s]
    /\ before'[s] = before[s] /\ outcome'[s] = outcome[s]

LEMMA SessionKept ==
    ASSUME MonitorInvariant, Onward, NEW s \in Session, Frame(s)
    PROVE  SessionConsistent(s)'
<1>1. /\ SessionConsistent(s) /\ \A g \in Gate : handle[s][g] \in 0..seq
      /\ before[s] \subseteq ended
  BY DEF MonitorInvariant, TypeOK
<1>2. seq \in Nat /\ 1..seq \subseteq Id /\ ended \subseteq 1..seq /\ "sonar" \in Gate
  BY RegistryTypes DEF MonitorInvariant, Gate
<1>3. /\ (outcome[s] # "none" => At(s, "idle"))'
      /\ (At(s, "first") => \A g \in Gate : handle[s][g] = 0)'
      /\ (pc[s] \in Bound => head[s] \in Commit)'
      /\ (pc[s] \in Bound \ {"start_ci"} => handle[s]["ci"] # 0)'
      /\ (pc[s] \in Bound \ {"start_ci", "start_sonar"} => handle[s]["sonar"] # 0)'
  BY <1>1 DEF SessionConsistent, Frame, At
<1>4. (\A g \in Gate : handle[s][g] # 0 => request[handle[s][g]].key = <<g, head[s]>>)'
  <2>1. handle'[s] = handle[s] /\ head'[s] = head[s]
    BY DEF Frame
  <2>2. ASSUME NEW g \in Gate, handle[s][g] # 0
        PROVE  request'[handle[s][g]].key = <<g, head[s]>>
    <3>1. handle[s][g] \in 1..seq
      BY <1>1, <1>2, <2>2
    <3>2. request'[handle[s][g]] = request[handle[s][g]]
      BY <3>1 DEF Onward
    <3>3. request[handle[s][g]].key = <<g, head[s]>>
      BY <1>1, <2>2 DEF SessionConsistent
    <3> QED BY <3>2, <3>3
  <2> QED BY <2>1, <2>2
<1>5. (handle[s]["sonar"] \in before[s] =>
         status[handle[s]["sonar"]] = "done" /\ verdict[handle[s]["sonar"]] # "no_answer")'
  BY <1>1, <1>2 DEF SessionConsistent, Frame, Onward
<1>6. (outcome[s] = "complete" =>
          /\ seen[s] = [head |-> head[s], conflict |-> FALSE, ci |-> "good"]
          /\ \A g \in Gate : /\ handle[s][g] # 0 /\ status[handle[s][g]] = "done"
                             /\ verdict[handle[s][g]] = "good")'
  BY <1>1, <1>2 DEF SessionConsistent, Frame, Onward
<1> QED BY <1>3, <1>4, <1>5, <1>6 DEF SessionConsistent

-----------------------------------------------------------------------------
(* What is left to show of a step.                                         *)

SessionTypes ==
    /\ pc \in [Session -> {"idle", "first", "start_ci", "start_sonar", "read", "judge", "sleep"}]
    /\ head \in [Session -> Commit \cup {0}]
    /\ handle \in [Session -> [Gate -> 0..seq]]
    /\ elapsed \in [Session -> 0..Window]
    /\ outcome \in [Session -> Outcome]
    /\ seen \in [Session -> [head : Commit, conflict : BOOLEAN, ci : Opinion]]
    /\ before \in [Session -> SUBSET ended]

WorldTypes ==
    /\ verdict \in [Id -> Verdict]
    /\ ranFor \in [Id -> 0..Window]
    /\ pr \in [head : Commit, conflict : BOOLEAN]
    /\ gates \in [Commit -> [Gate -> Opinion]]

LEMMA InvariantSplit ==
    MonitorInvariant <=>
      /\ Jobs!RegistryInvariant /\ SessionTypes /\ WorldTypes /\ ResultsConsistent
      /\ \A s \in Session : SessionConsistent(s)
BY DEF MonitorInvariant, TypeOK, SessionTypes, WorldTypes, Jobs!RegistryInvariant

(* A step of call s.                                                       *)
LEMMA CallStepKeeps ==
    ASSUME MonitorInvariant, NEW s \in Session, RegistryStep, Onward, NoneAnswers,
           UNCHANGED <<ranFor, github>>, SessionTypes', SessionConsistent(s)',
           \A t \in Session \ {s} : Frame(t)
    PROVE  MonitorInvariant'
<1>1. Jobs!RegistryInvariant'
  BY RegistryKeeps DEF MonitorInvariant
<1>2. WorldTypes'
  BY InvariantSplit DEF WorldTypes, NoneAnswers, github
<1>3. ResultsConsistent'
  BY ResultsKept DEF MonitorInvariant
<1>4. \A t \in Session : SessionConsistent(t)'
  BY SessionKept
<1> QED BY <1>1, <1>2, <1>3, <1>4 DEF
  MonitorInvariant, TypeOK, SessionTypes, WorldTypes, Jobs!RegistryInvariant

(* A step of no call.                                                      *)
LEMMA OtherStepKeeps ==
    ASSUME MonitorInvariant, RegistryStep, Onward, ResultsConsistent', WorldTypes',
           UNCHANGED <<pc, seen, head, handle, before, outcome>>,
           elapsed' \in [Session -> 0..Window]
    PROVE  MonitorInvariant'
<1>1. Jobs!RegistryInvariant'
  BY RegistryKeeps DEF MonitorInvariant
<1>2. SessionTypes'
  <2>1. SessionTypes /\ seq \in Nat /\ seq' \in Nat /\ seq <= seq' /\ ended \subseteq ended'
    BY InvariantSplit, RegistryTypes DEF Onward
  <2>2. handle' \in [Session -> [Gate -> 0..seq']]
    BY <2>1 DEF SessionTypes
  <2>3. before' \in [Session -> SUBSET ended']
    BY <2>1 DEF SessionTypes
  <2> QED BY <2>1, <2>2, <2>3 DEF SessionTypes
<1>3. \A t \in Session : SessionConsistent(t)'
  BY SessionKept DEF Frame
<1> QED BY <1>1, <1>2, <1>3 DEF
  MonitorInvariant, TypeOK, SessionTypes, WorldTypes, Jobs!RegistryInvariant

(* A step that leaves the registry alone.                                  *)
LEMMA RegistryRests ==
    ASSUME Jobs!RegistryInvariant, UNCHANGED <<registry, verdict>>
    PROVE  Onward /\ NoneAnswers /\ RegistryStep
<1>1. Sweeps
  BY DEF Sweeps, registry
<1> QED BY <1>1, SweepMoves

LEMMA Facts ==
    ASSUME MonitorInvariant, NEW s \in Session
    PROVE  /\ Jobs!RegistryInvariant /\ SessionTypes /\ WorldTypes /\ ResultsConsistent
           /\ SessionConsistent(s)
BY InvariantSplit

-----------------------------------------------------------------------------
(* GitHub, the watches and the clock.                                      *)

LEMMA GitHubKeeps ==
    ASSUME MonitorInvariant,
           \/ Push \/ BaseMoves
           \/ \E h \in Commit : RerunOnGitHub(h) \/ \E g \in Gate : GateReports(h, g)
    PROVE  MonitorInvariant'
<1>0. Jobs!RegistryInvariant /\ SessionTypes /\ WorldTypes /\ ResultsConsistent
  BY InvariantSplit
<1>1. UNCHANGED <<registry, verdict, ranFor, session>>
  BY DEF Push, BaseMoves, RerunOnGitHub, GateReports
<1>2. pr' \in [head : Commit, conflict : BOOLEAN] /\ gates' \in [Commit -> [Gate -> Opinion]]
  <2>1. CASE Push \/ BaseMoves
    <3>1. gates' = gates
      BY <2>1 DEF Push, BaseMoves
    <3>2. CASE Push
      BY <1>0, <3>1, <3>2 DEF Push, WorldTypes
    <3>3. CASE BaseMoves
      BY <1>0, <3>1, <3>3 DEF BaseMoves, WorldTypes
    <3> QED BY <2>1, <3>2, <3>3
  <2>2. CASE \E h \in Commit : RerunOnGitHub(h) \/ \E g \in Gate : GateReports(h, g)
    <3>1. PICK h \in Commit, g \in Gate, o \in Opinion :
             pr' = pr /\ gates' = [gates EXCEPT ![h][g] = o]
      BY <2>2 DEF RerunOnGitHub, GateReports, Opinion, Gate
    <3> QED BY <1>0, <3>1 DEF WorldTypes
  <2> QED BY <2>1, <2>2
<1>3. WorldTypes'
  BY <1>0, <1>1, <1>2 DEF WorldTypes
<1>4. Onward /\ NoneAnswers /\ RegistryStep
  BY <1>0, <1>1, RegistryRests
<1> QED BY <1>0, <1>1, <1>3, <1>4, ResultsKept, OtherStepKeeps DEF session, SessionTypes

LEMMA TickKeeps ==
    ASSUME MonitorInvariant, Tick PROVE MonitorInvariant'
<1>0. Jobs!RegistryInvariant /\ SessionTypes /\ WorldTypes /\ ResultsConsistent
  BY InvariantSplit
<1>1. /\ Jobs!Tick /\ UNCHANGED <<verdict, pr, gates, pc, seen, head, handle, before, outcome>>
      /\ ranFor' = [j \in Id |-> IF status[j] = "running" /\ ranFor[j] < Window
                                 THEN ranFor[j] + 1 ELSE ranFor[j]]
      /\ elapsed' = [s \in Session |-> IF pc[s] \notin {"idle", "first"} /\ elapsed[s] < Window
                                       THEN elapsed[s] + 1 ELSE elapsed[s]]
  BY DEF Tick, github
<1>2. Onward /\ NoneAnswers /\ RegistryStep
  BY <1>0, <1>1, RegistryTypes DEF Jobs!Tick, Onward, NoneAnswers, RegistryStep
<1>3. elapsed' \in [Session -> 0..Window]
  BY <1>0, <1>1, WindowAssumption DEF SessionTypes
<1>4. ranFor' \in [Id -> 0..Window]
  BY <1>0, <1>1, WindowAssumption DEF WorldTypes
<1>5. WorldTypes'
  BY <1>0, <1>1, <1>4 DEF WorldTypes
<1> QED BY <1>0, <1>1, <1>2, <1>3, <1>5, ResultsKept, OtherStepKeeps

LEMMA ChildKeeps ==
    ASSUME MonitorInvariant, NEW j \in 1..seq, ChildSettles(j) \/ ChildFinally(j)
    PROVE  MonitorInvariant'
<1>0. Jobs!RegistryInvariant /\ SessionTypes /\ WorldTypes /\ ResultsConsistent
  BY InvariantSplit
<1>1. UNCHANGED <<ranFor, github, session>> /\ RegistryStep
  BY DEF ChildSettles, ChildFinally, RegistryStep
<1>2. CASE ChildFinally(j)
  <2>1. UNCHANGED <<seq, request, status, stale, verdict>> /\ ended \subseteq ended'
    BY <1>2 DEF ChildFinally, Jobs!Finally
  <2>2. Onward /\ NoneAnswers
    BY <1>0, <2>1, RegistryTypes DEF Onward, NoneAnswers
  <2>3. WorldTypes'
    BY <1>0, <1>1, <2>1 DEF WorldTypes, github
  <2> QED BY <1>0, <1>1, <2>2, <2>3, ResultsKept, OtherStepKeeps DEF session, SessionTypes
<1>3. CASE ChildSettles(j)
  <2>0. j \in Id /\ status[j] = "running" /\ UNCHANGED <<seq, request, ended>>
    BY <1>0, <1>3, RegistryTypes DEF ChildSettles, Jobs!Settles
  <2>1. CASE status'[j] # "done"
    <3>1. verdict' = verdict
      BY <1>3, <2>1 DEF ChildSettles
    <3>2. status' = [status EXCEPT ![j] = IF j \in aborted THEN "cancelled" ELSE "failed"]
          /\ stale' = stale
      BY <1>0, <1>3, <2>0, <2>1, RegistryTypes DEF ChildSettles, Jobs!Settles
    <3>3. Onward /\ NoneAnswers
      BY <1>0, <2>0, <3>1, <3>2, RegistryTypes DEF Onward, NoneAnswers
    <3>4. WorldTypes'
      BY <1>0, <1>1, <3>1 DEF WorldTypes, github
    <3> QED BY <1>0, <1>1, <3>3, <3>4, ResultsKept, OtherStepKeeps DEF session, SessionTypes
  <2>2. CASE status'[j] = "done"
    <3>1. PICK v \in Answers(j) : verdict' = [verdict EXCEPT ![j] = v]
                                  /\ stale'[j] = (verdict'[j] = "no_answer")
      BY <1>3, <2>2 DEF ChildSettles
    <3>2. status' = [status EXCEPT ![j] = "done"]
      <4>1. status'[j] \notin {"cancelled", "failed"}
        BY <2>2
      <4> QED BY <1>0, <1>3, <2>0, <4>1, RegistryTypes DEF ChildSettles, Jobs!Settles
    <3>3. PICK b \in BOOLEAN : stale' = [stale EXCEPT ![j] = b]
      <4>1. status'[j] \notin {"cancelled", "failed"}
        BY <2>2
      <4> QED BY <1>0, <1>3, <2>0, <4>1, RegistryTypes DEF ChildSettles, Jobs!Settles
    <3>4. v \in {"no_answer", "good", "bad", "timed_out"}
      <4>1. request[j] \in Watches
        BY <1>0, <2>0, RegistryTypes DEF Jobs!RegistryInvariant, Jobs!TypeOK
      <4>2. PICK g \in Gate, h \in Commit : request[j].key = <<g, h>>
        BY <4>1, WatchFields
      <4>3. gates[h][g] \in Opinion
        BY <1>0, <4>2 DEF WorldTypes
      <4> QED BY <4>2, <4>3 DEF Answers, Opinion
    <3>5. Onward
      BY <1>0, <2>0, <3>1, <3>2, RegistryTypes DEF Onward, WorldTypes
    <3>6. ResultsConsistent'
      <4>1. ASSUME NEW k \in Id, k # j, status'[k] = "done"
            PROVE  verdict'[k] # "none" /\ (stale'[k] <=> verdict'[k] = "no_answer")
        BY <1>0, <2>0, <3>1, <3>2, <3>3, <4>1, RegistryTypes DEF ResultsConsistent, WorldTypes
      <4>2. verdict'[j] # "none"
        BY <1>0, <2>0, <3>1, <3>4 DEF WorldTypes
      <4>3. stale'[j] <=> verdict'[j] = "no_answer"
        BY <3>1
      <4> QED BY <4>1, <4>2, <4>3 DEF ResultsConsistent
    <3>7. WorldTypes'
      BY <1>0, <1>1, <3>1, <3>4 DEF WorldTypes, github, Verdict
    <3> QED BY <1>0, <1>1, <3>5, <3>6, <3>7, OtherStepKeeps DEF session, SessionTypes
  <2> QED BY <2>1, <2>2
<1> QED BY <1>2, <1>3

-----------------------------------------------------------------------------
(* The steps of a call.                                                    *)

(* The part of SessionConsistent that is about the jobs a call polls.      *)
HandlesConsistent(s) ==
    /\ \A g \in Gate : handle[s][g] # 0 => request[handle[s][g]].key = <<g, head[s]>>
    /\ handle[s]["sonar"] \in before[s] =>
          status[handle[s]["sonar"]] = "done" /\ verdict[handle[s]["sonar"]] # "no_answer"

LEMMA HandlesKept ==
    ASSUME MonitorInvariant, Onward, NEW s \in Session,
           UNCHANGED <<head, handle, before>>
    PROVE  HandlesConsistent(s)'
<1>1. /\ SessionConsistent(s) /\ \A g \in Gate : handle[s][g] \in 0..seq
      /\ before[s] \subseteq ended
  BY DEF MonitorInvariant, TypeOK
<1>2. seq \in Nat /\ 1..seq \subseteq Id /\ ended \subseteq 1..seq
  BY RegistryTypes DEF MonitorInvariant
<1>3. ASSUME NEW g \in Gate, handle[s][g] # 0
      PROVE  request'[handle[s][g]].key = <<g, head[s]>>
  <2>1. handle[s][g] \in 1..seq
    BY <1>1, <1>2, <1>3
  <2>2. request'[handle[s][g]] = request[handle[s][g]]
    BY <2>1 DEF Onward
  <2>3. request[handle[s][g]].key = <<g, head[s]>>
    BY <1>1, <1>3 DEF SessionConsistent
  <2> QED BY <2>2, <2>3
<1>4. (handle[s]["sonar"] \in before[s] =>
         status[handle[s]["sonar"]] = "done" /\ verdict[handle[s]["sonar"]] # "no_answer")'
  BY <1>1, <1>2 DEF SessionConsistent, Onward
<1> QED BY <1>3, <1>4 DEF HandlesConsistent

(* What a call holds keeps its type while jobs are added and end.          *)
LEMMA HeldTypes ==
    ASSUME MonitorInvariant, Onward, UNCHANGED <<handle, before>>
    PROVE  handle' \in [Session -> [Gate -> 0..seq']] /\ before' \in [Session -> SUBSET ended']
<1>1. SessionTypes /\ seq \in Nat /\ seq' \in Nat /\ seq <= seq' /\ ended \subseteq ended'
  BY InvariantSplit, RegistryTypes DEF Onward
<1> QED BY <1>1 DEF SessionTypes

(* A call that answers anything but "complete".                            *)
LEMMA ReturnKeeps ==
    ASSUME MonitorInvariant, NEW s \in Session, RegistryStep, Onward, NoneAnswers,
           UNCHANGED <<ranFor, github, head, handle, before>>,
           seen' \in [Session -> [head : Commit, conflict : BOOLEAN, ci : Opinion]],
           \A t \in Session \ {s} : seen'[t] = seen[t],
           NEW o \in Outcome \ {"none", "complete"}, Return(s, o)
    PROVE  MonitorInvariant'
<1>0. Jobs!RegistryInvariant /\ SessionTypes /\ SessionConsistent(s)
  BY Facts
<1>1. /\ pc' = [pc EXCEPT ![s] = "idle"] /\ outcome' = [outcome EXCEPT ![s] = o]
      /\ elapsed' = [elapsed EXCEPT ![s] = 0]
  BY DEF Return, Goto
<1>2. SessionTypes'
  BY <1>0, <1>1, HeldTypes, WindowAssumption DEF SessionTypes
<1>3. SessionConsistent(s)'
  <2>1. pc'[s] = "idle" /\ outcome'[s] = o
    BY <1>0, <1>1 DEF SessionTypes
  <2>2. HandlesConsistent(s)'
    BY HandlesKept
  <2> QED BY <2>1, <2>2 DEF SessionConsistent, HandlesConsistent, At, Bound
<1>4. \A t \in Session \ {s} : Frame(t)
  BY <1>0, <1>1 DEF Frame, SessionTypes
<1> QED BY <1>2, <1>3, <1>4, CallStepKeeps

(* A call that goes on with the same jobs.                                 *)
LEMMA GotoKeeps ==
    ASSUME MonitorInvariant, NEW s \in Session, RegistryStep, Onward, NoneAnswers,
           UNCHANGED <<ranFor, github, head, handle, before, outcome>>,
           elapsed' = elapsed,
           seen' \in [Session -> [head : Commit, conflict : BOOLEAN, ci : Opinion]],
           \A t \in Session \ {s} : seen'[t] = seen[t],
           pc[s] \in {"read", "judge", "sleep"},
           NEW p \in {"read", "judge", "sleep"}, Goto(s, p)
    PROVE  MonitorInvariant'
<1>0. Jobs!RegistryInvariant /\ SessionTypes /\ SessionConsistent(s)
  BY Facts
<1>1. pc' = [pc EXCEPT ![s] = p]
  BY DEF Goto
<1>2. SessionTypes'
  BY <1>0, <1>1, HeldTypes DEF SessionTypes
<1>3. SessionConsistent(s)'
  <2>1. pc'[s] = p /\ outcome'[s] = "none"
    BY <1>0, <1>1 DEF SessionTypes, SessionConsistent, At
  <2>2. HandlesConsistent(s)'
    BY HandlesKept
  <2> QED BY <1>0, <2>1, <2>2 DEF SessionConsistent, HandlesConsistent, At, Bound
<1>4. \A t \in Session \ {s} : Frame(t)
  BY <1>0, <1>1 DEF Frame, SessionTypes
<1> QED BY <1>2, <1>3, <1>4, CallStepKeeps

LEMMA CallKeeps ==
    ASSUME MonitorInvariant, NEW s \in Session, Call(s) PROVE MonitorInvariant'
<1>0. Jobs!RegistryInvariant /\ SessionTypes
  BY Facts
<1>1. /\ pc' = [pc EXCEPT ![s] = "first"] /\ outcome' = [outcome EXCEPT ![s] = "none"]
      /\ before' = [before EXCEPT ![s] = ended] /\ head' = [head EXCEPT ![s] = 0]
      /\ handle' = [handle EXCEPT ![s] = [g \in Gate |-> 0]]
      /\ UNCHANGED <<registry, verdict, ranFor, github, seen, elapsed>>
  BY DEF Call, Goto
<1>2. Onward /\ NoneAnswers /\ RegistryStep
  BY <1>0, <1>1, RegistryRests
<1>3. seq' = seq /\ ended' = ended /\ seq \in Nat /\ ended \subseteq 1..seq
  BY <1>0, <1>1, RegistryTypes DEF registry, jobVars
<1>4. SessionTypes'
  <2>1. handle' \in [Session -> [Gate -> 0..seq']]
    BY <1>0, <1>1, <1>3 DEF SessionTypes
  <2>2. before' \in [Session -> SUBSET ended']
    BY <1>0, <1>1, <1>3 DEF SessionTypes
  <2>3. /\ head' \in [Session -> Commit \cup {0}] /\ outcome' \in [Session -> Outcome]
        /\ pc' \in [Session -> {"idle", "first", "start_ci", "start_sonar", "read", "judge",
                               "sleep"}]
    BY <1>0, <1>1 DEF SessionTypes, Outcome
  <2> QED BY <1>0, <1>1, <2>1, <2>2, <2>3 DEF SessionTypes
<1>5. SessionConsistent(s)'
  <2>1. /\ pc'[s] = "first" /\ outcome'[s] = "none" /\ before'[s] = ended
        /\ \A g \in Gate : handle'[s][g] = 0
    BY <1>0, <1>1 DEF SessionTypes
  <2>2. handle'[s]["sonar"] \notin before'[s]
    BY <1>3, <2>1 DEF Gate
  <2> QED BY <2>1, <2>2 DEF SessionConsistent, At, Bound
<1>6. \A t \in Session \ {s} : Frame(t)
  BY <1>0, <1>1 DEF Frame, SessionTypes
<1> QED BY <1>1, <1>2, <1>4, <1>5, <1>6, CallStepKeeps

(* What a read of the pull request gives.                                  *)
LEMMA NowType ==
    ASSUME WorldTypes
    PROVE  /\ Now \in [head : Commit, conflict : BOOLEAN, ci : Opinion]
           /\ pr.head \in Commit
<1>1. pr.head \in Commit /\ pr.conflict \in BOOLEAN /\ "ci" \in Gate
  BY DEF WorldTypes, Gate
<1>2. gates[pr.head]["ci"] \in Opinion
  BY <1>1 DEF WorldTypes
<1> QED BY <1>1, <1>2 DEF Now

LEMMA ReadFailsKeeps ==
    ASSUME MonitorInvariant, NEW s \in Session, ReadFails(s) PROVE MonitorInvariant'
<1>0. Jobs!RegistryInvariant /\ SessionTypes
  BY Facts
<1>1. /\ Return(s, "unreadable")
      /\ UNCHANGED <<registry, verdict, ranFor, github, seen, head, handle, before>>
  BY DEF ReadFails
<1>2. Onward /\ NoneAnswers /\ RegistryStep
  BY <1>0, <1>1, RegistryRests
<1>3. "unreadable" \in Outcome \ {"none", "complete"}
  BY DEF Outcome
<1>4. seen' \in [Session -> [head : Commit, conflict : BOOLEAN, ci : Opinion]]
  BY <1>0, <1>1 DEF SessionTypes
<1> QED BY <1>1, <1>2, <1>3, <1>4, ReturnKeeps

LEMMA ReadFirstKeeps ==
    ASSUME MonitorInvariant, NEW s \in Session, ReadFirst(s) PROVE MonitorInvariant'
<1>0. Jobs!RegistryInvariant /\ SessionTypes /\ WorldTypes /\ SessionConsistent(s)
  BY Facts
<1>1. /\ pc[s] = "first"
      /\ seen' = [seen EXCEPT ![s] = Now] /\ head' = [head EXCEPT ![s] = pr.head]
      /\ UNCHANGED <<registry, verdict, ranFor, github, handle, before>>
  BY DEF ReadFirst, At
<1>2. PICK p \in {"idle", "start_ci"} :
         /\ pc' = [pc EXCEPT ![s] = p]
         /\ \/ /\ p = "idle"
               /\ outcome' = [outcome EXCEPT ![s] = "conflicted"]
               /\ elapsed' = [elapsed EXCEPT ![s] = 0]
            \/ p = "start_ci" /\ UNCHANGED <<outcome, elapsed>>
  BY DEF ReadFirst, Return, Goto
<1>3. Onward /\ NoneAnswers /\ RegistryStep
  BY <1>0, <1>1, RegistryRests
<1>4. SessionTypes'
  <2>1. handle' \in [Session -> [Gate -> 0..seq']] /\ before' \in [Session -> SUBSET ended']
    BY <1>1, <1>3, HeldTypes
  <2>2. /\ head' \in [Session -> Commit \cup {0}]
        /\ seen' \in [Session -> [head : Commit, conflict : BOOLEAN, ci : Opinion]]
    BY <1>0, <1>1, NowType DEF SessionTypes
  <2>3. /\ outcome' \in [Session -> Outcome] /\ elapsed' \in [Session -> 0..Window]
        /\ pc' \in [Session -> {"idle", "first", "start_ci", "start_sonar", "read", "judge",
                               "sleep"}]
    <3>1. outcome' \in [Session -> Outcome]
      BY <1>0, <1>2 DEF SessionTypes, Outcome
    <3>2. elapsed' \in [Session -> 0..Window]
      <4>1. 0 \in 0..Window /\ elapsed \in [Session -> 0..Window]
        BY <1>0, WindowAssumption DEF SessionTypes
      <4>2. elapsed' \in {elapsed, [elapsed EXCEPT ![s] = 0]}
        BY <1>2
      <4> QED BY <4>1, <4>2
    <3>3. pc' \in [Session -> {"idle", "first", "start_ci", "start_sonar", "read", "judge",
                               "sleep"}]
      BY <1>0, <1>2 DEF SessionTypes
    <3> QED BY <3>1, <3>2, <3>3
  <2> QED BY <2>1, <2>2, <2>3 DEF SessionTypes
<1>5. SessionConsistent(s)'
  <2>1. pc'[s] = p /\ head'[s] \in Commit /\ outcome'[s] \in {"none", "conflicted"}
    BY <1>0, <1>1, <1>2, NowType DEF SessionTypes, SessionConsistent, At
  <2>2. outcome'[s] # "none" => p = "idle"
    BY <1>0, <1>1, <1>2 DEF SessionTypes, SessionConsistent, At
  <2>3. \A g \in Gate : handle'[s][g] = 0
    BY <1>0, <1>1 DEF SessionConsistent, At
  <2>4. handle'[s]["sonar"] \notin before'[s]
    BY <1>0, <1>1, <2>3, RegistryTypes DEF SessionTypes, Gate
  <2> QED BY <2>1, <2>2, <2>3, <2>4 DEF SessionConsistent, At, Bound
<1>6. \A t \in Session \ {s} : Frame(t)
  BY <1>0, <1>1, <1>2 DEF Frame, SessionTypes
<1> QED BY <1>1, <1>3, <1>4, <1>5, <1>6, CallStepKeeps

LEMMA ReadKeeps ==
    ASSUME MonitorInvariant, NEW s \in Session, Read(s) PROVE MonitorInvariant'
<1>0. Jobs!RegistryInvariant /\ SessionTypes /\ WorldTypes
  BY Facts
<1>1. /\ pc[s] = "read" /\ seen' = [seen EXCEPT ![s] = Now] /\ Goto(s, "judge")
      /\ UNCHANGED <<registry, verdict, ranFor, github, head, handle, elapsed, before, outcome>>
  BY DEF Read, At
<1>2. Onward /\ NoneAnswers /\ RegistryStep
  BY <1>0, <1>1, RegistryRests
<1>3. /\ seen' \in [Session -> [head : Commit, conflict : BOOLEAN, ci : Opinion]]
      /\ \A t \in Session \ {s} : seen'[t] = seen[t]
  BY <1>0, <1>1, NowType DEF SessionTypes
<1> QED BY <1>1, <1>2, <1>3, GotoKeeps

LEMMA WakeKeeps ==
    ASSUME MonitorInvariant, NEW s \in Session, Wake(s) PROVE MonitorInvariant'
<1>0. Jobs!RegistryInvariant /\ SessionTypes
  BY Facts
<1>1. /\ pc[s] = "sleep"
      /\ UNCHANGED <<registry, verdict, ranFor, github, seen, head, handle, before>>
  BY DEF Wake, At
<1>2. Onward /\ NoneAnswers /\ RegistryStep
  BY <1>0, <1>1, RegistryRests
<1>3. seen' \in [Session -> [head : Commit, conflict : BOOLEAN, ci : Opinion]]
  BY <1>0, <1>1 DEF SessionTypes
<1>4. CASE Return(s, "timed_out")
  BY <1>1, <1>2, <1>3, <1>4, ReturnKeeps DEF Outcome
<1>5. CASE Goto(s, "read") /\ UNCHANGED <<outcome, elapsed>>
  BY <1>1, <1>2, <1>3, <1>5, GotoKeeps
<1> QED BY <1>4, <1>5 DEF Wake

LEMMA JudgeKeeps ==
    ASSUME MonitorInvariant, NEW s \in Session, Judge(s) PROVE MonitorInvariant'
<1>0. Jobs!RegistryInvariant /\ SessionTypes /\ WorldTypes /\ ResultsConsistent
      /\ SessionConsistent(s)
  BY Facts
<1>1. /\ pc[s] = "judge"
      /\ registered' \in {registered, Jobs!Unexpired}
      /\ UNCHANGED <<seq, jobVars, waiting, verdict, ranFor, github, seen, head, handle, before>>
  BY DEF Judge, At
<1>2. Onward /\ NoneAnswers /\ RegistryStep
  BY <1>0, <1>1, SweepMoves DEF Sweeps
<1>3. seen' \in [Session -> [head : Commit, conflict : BOOLEAN, ci : Opinion]]
  BY <1>0, <1>1 DEF SessionTypes
<1>4. CASE Judgement(s) = "none"
  BY <1>1, <1>2, <1>3, <1>4, GotoKeeps DEF Judge
<1>5. CASE Judgement(s) \notin {"none", "complete"}
  <2>1. Judgement(s) \in Outcome
    BY DEF Judgement, Observed, Outcome
  <2> QED BY <1>1, <1>2, <1>3, <1>5, <2>1, ReturnKeeps DEF Judge
<1>6. CASE Judgement(s) = "complete"
  <2>1. /\ pc' = [pc EXCEPT ![s] = "idle"] /\ outcome' = [outcome EXCEPT ![s] = "complete"]
        /\ elapsed' = [elapsed EXCEPT ![s] = 0]
    BY <1>6 DEF Judge, Return, Goto
  <2>2. SessionTypes'
    <3>1. handle' \in [Session -> [Gate -> 0..seq']] /\ before' \in [Session -> SUBSET ended']
      BY <1>1, <1>2, HeldTypes
    <3> QED BY <1>0, <1>1, <2>1, <3>1, WindowAssumption DEF SessionTypes, Outcome
  <2>3. \A t \in Session \ {s} : Frame(t)
    BY <1>0, <1>1, <2>1 DEF Frame, SessionTypes
  <2>4. SessionConsistent(s)'
    <3>1. pc'[s] = "idle" /\ outcome'[s] = "complete"
      BY <1>0, <2>1 DEF SessionTypes
    <3>2. HandlesConsistent(s)'
      BY <1>1, <1>2, HandlesKept
    <3>3. /\ seen[s].head = head[s] /\ ~seen[s].conflict /\ Observed(s) = "complete"
      BY <1>6 DEF Judgement
    <3>4. /\ Done(handle[s]["ci"]) /\ Done(handle[s]["sonar"]) /\ seen[s].ci = "good"
          /\ verdict[handle[s]["ci"]] = "good"
          /\ verdict[handle[s]["sonar"]] \notin {"no_answer", "timed_out", "bad"}
      BY <3>3 DEF Observed
    <3>5. seen[s] = [head |-> head[s], conflict |-> FALSE, ci |-> "good"]
      BY <1>0, <3>3, <3>4 DEF SessionTypes
    <3>6. \A g \in Gate : handle[s][g] # 0 /\ handle[s][g] \in Id
      BY <1>0, <1>1, RegistryTypes DEF SessionConsistent, SessionTypes, Gate, Bound
    <3>7. \A g \in Gate : status[handle[s][g]] = "done"
      BY <3>4 DEF Done, Gate
    <3>8. \A g \in Gate : verdict[handle[s][g]] = "good"
      <4>1. verdict[handle[s]["sonar"]] \in Verdict \ {"none"}
        BY <1>0, <3>6, <3>7 DEF WorldTypes, ResultsConsistent, Gate
      <4> QED BY <3>4, <4>1 DEF Gate, Verdict
    <3>9. UNCHANGED <<status, verdict, seen, head, handle>>
      BY <1>1 DEF jobVars
    <3> QED BY <3>1, <3>2, <3>5, <3>6, <3>7, <3>8, <3>9
      DEF SessionConsistent, HandlesConsistent, At, Bound
  <2> QED BY <1>1, <1>2, <2>2, <2>3, <2>4, CallStepKeeps
<1> QED BY <1>4, <1>5, <1>6

(* A start call is never given a result that answers nothing: it is of the *)
(* same input, for the key names the head, and so makes room.              *)
LEMMA NoStaleHandedOut ==
    ASSUME Jobs!RegistryInvariant, NEW r \in Watches, Jobs!Start(r),
           NEW j \in registered', j \in 1..seq, request[j].key = r.key, status[j] = "done"
    PROVE  stale[j] = FALSE
<1>1. request[j] \in Watches
  BY RegistryTypes DEF Jobs!RegistryInvariant, Jobs!TypeOK
<1>2. request[j].input = r.input
  <2>1. PICK g \in Gate, h \in Commit : request[j].key = <<g, h>> /\ request[j].input = h
    BY <1>1, WatchFields
  <2>2. PICK f \in Gate, k \in Commit : r.key = <<f, k>> /\ r.input = k
    BY WatchFields
  <2>3. <<g, h>> = <<f, k>>
    BY <2>1, <2>2
  <2> QED BY <2>1, <2>2, <2>3
<1>3. j \in Jobs!Unexpired
  BY RegistryTypes DEF Jobs!Start, Jobs!StartAnswered, Jobs!StartRefused, Jobs!StartCreates
<1>4. j \notin Jobs!Evictable(r)
  BY RegistryTypes DEF Jobs!Start, Jobs!StartAnswered, Jobs!StartRefused, Jobs!StartCreates
<1>5. j \in Jobs!Existing(r) \ Jobs!Conflicting(r)
  BY <1>2, <1>3, WatchFields DEF Jobs!Existing, Jobs!Conflicting, Jobs!Matches
<1>6. ~stale[j]
  BY <1>4, <1>5, WatchFields DEF Jobs!Evictable
<1> QED BY <1>6, RegistryTypes

LEMMA StartChildKeeps ==
    ASSUME MonitorInvariant, NEW s \in Session, NEW g \in Gate, StartChild(s, g)
    PROVE  MonitorInvariant'
<1>0. Jobs!RegistryInvariant /\ SessionTypes /\ WorldTypes /\ ResultsConsistent
      /\ SessionConsistent(s)
  BY Facts
<1>1. /\ pc[s] = IF g = "ci" THEN "start_ci" ELSE "start_sonar"
      /\ Jobs!Start(Watch(g, head[s]))
      /\ UNCHANGED <<verdict, ranFor, github, seen, head, before>>
  BY DEF StartChild, At
<1>2. head[s] \in Commit /\ outcome[s] = "none"
  BY <1>0, <1>1 DEF SessionConsistent, Bound, At
<1>3. Watch(g, head[s]) \in Watches /\ Watch(g, head[s]).key = <<g, head[s]>>
  <2>1. Watch(g, head[s]) \in Watches
    BY <1>2 DEF Watches
  <2>2. Watch(g, head[s]).key = <<g, head[s]>>
    BY DEF Watch
  <2> QED BY <2>1, <2>2
<1>4. Onward /\ NoneAnswers /\ RegistryStep /\ ended' = ended
  BY <1>0, <1>1, <1>3, StartMoves
<1>5. seen' \in [Session -> [head : Commit, conflict : BOOLEAN, ci : Opinion]]
  BY <1>0, <1>1 DEF SessionTypes
<1>6. CASE Return(s, "refused") /\ UNCHANGED handle
  BY <1>1, <1>4, <1>5, <1>6, ReturnKeeps DEF Outcome
<1>7. ASSUME NEW j \in Child(s, g),
             /\ status'[j] \in {"running", "done"}
             /\ handle' = [handle EXCEPT ![s][g] = j]
             /\ Goto(s, IF g = "ci" THEN "start_sonar" ELSE "read")
             /\ UNCHANGED <<outcome, elapsed>>
      PROVE  MonitorInvariant'
  <2>1. j \in registered' /\ request'[j].key = <<g, head[s]>>
    BY DEF Child
  <2>2. j \in 1..seq' /\ seq \in Nat /\ seq' \in Nat /\ seq <= seq' /\ j # 0
    <3>1. Jobs!RegistryInvariant'
      BY <1>4, RegistryKeeps DEF MonitorInvariant
    <3>2. registered' \subseteq 1..seq'
      BY <3>1 DEF Jobs!RegistryInvariant, Jobs!TypeOK
    <3> QED BY <1>0, <1>4, <2>1, <3>2, RegistryTypes DEF Onward
  <2>3. /\ pc' = [pc EXCEPT ![s] = IF g = "ci" THEN "start_sonar" ELSE "read"]
        /\ g \in {"ci", "sonar"}
    BY <1>7 DEF Goto, Gate
  <2>4. SessionTypes'
    <3>1. handle' \in [Session -> [Gate -> 0..seq']]
      BY <1>0, <1>7, <2>2 DEF SessionTypes
    <3>2. before' \in [Session -> SUBSET ended']
      BY <1>0, <1>1, <1>4 DEF SessionTypes
    <3>3. pc' \in [Session -> {"idle", "first", "start_ci", "start_sonar", "read", "judge",
                               "sleep"}]
      BY <1>0, <2>3 DEF SessionTypes
    <3> QED BY <1>0, <1>1, <1>5, <1>7, <3>1, <3>2, <3>3 DEF SessionTypes
  <2>5. \A t \in Session \ {s} : Frame(t)
    BY <1>0, <1>1, <1>7, <2>3 DEF Frame, SessionTypes
  <2>6. /\ handle'[s][g] = j /\ pc'[s] = IF g = "ci" THEN "start_sonar" ELSE "read"
        /\ \A k \in Gate \ {g} : handle'[s][k] = handle[s][k]
        /\ UNCHANGED <<outcome, head, before>>
    BY <1>0, <1>1, <1>7, <2>3 DEF SessionTypes
  <2>7. \A k \in Gate : handle'[s][k] # 0 => request'[handle'[s][k]].key = <<k, head[s]>>
    <3>1. ASSUME NEW k \in Gate \ {g}, handle[s][k] # 0
          PROVE  request'[handle[s][k]].key = <<k, head[s]>>
      <4>1. handle[s][k] \in 1..seq
        BY <1>0, <2>2, <3>1 DEF SessionTypes
      <4>2. request'[handle[s][k]] = request[handle[s][k]]
        BY <1>4, <4>1 DEF Onward
      <4>3. request[handle[s][k]].key = <<k, head[s]>>
        BY <1>0, <3>1 DEF SessionConsistent
      <4> QED BY <4>2, <4>3
    <3> QED BY <2>1, <2>6, <3>1
  <2>8. ASSUME handle'[s]["sonar"] \in before[s]
        PROVE  /\ status'[handle'[s]["sonar"]] = "done"
               /\ verdict'[handle'[s]["sonar"]] # "no_answer"
    <3>1. handle'[s]["sonar"] \in ended /\ handle'[s]["sonar"] \in 1..seq
          /\ handle'[s]["sonar"] \in Id
      BY <1>0, <2>8, RegistryTypes DEF SessionTypes
    <3>2. CASE g = "ci"
      BY <1>0, <1>4, <2>6, <2>8, <3>1, <3>2 DEF SessionConsistent, Onward, Gate
    <3>3. CASE g # "ci"
      <4>1. handle'[s]["sonar"] = j /\ g = "sonar"
        BY <2>3, <2>6, <3>3
      <4>2. j \in ended /\ j \in 1..seq /\ j \in Id
        BY <3>1, <4>1
      <4>3. status[j] \in {"done", "failed", "cancelled"} /\ request'[j] = request[j]
        BY <1>0, <1>4, <4>2, RegistryTypes DEF Onward
      <4>4. status'[j] = status[j]
        BY <1>0, <1>1, <1>3, <4>2, <4>3, StartMoves, RegistryTypes
      <4>5. status[j] = "done"
        BY <1>7, <4>3, <4>4
      <4>6. stale[j] = FALSE
        BY <1>0, <1>1, <1>3, <2>1, <4>2, <4>3, <4>5, NoStaleHandedOut
      <4>7. verdict[j] # "no_answer"
        BY <1>0, <4>2, <4>5, <4>6 DEF ResultsConsistent
      <4> QED BY <1>1, <4>1, <4>4, <4>5, <4>7
    <3> QED BY <3>2, <3>3
  <2>9. SessionConsistent(s)'
    <3>1. /\ pc'[s] \in {"start_sonar", "read"} /\ outcome'[s] = "none" /\ head'[s] \in Commit
          /\ handle'[s]["ci"] # 0
          /\ pc'[s] = "read" => handle'[s]["sonar"] # 0
      BY <1>0, <1>1, <1>2, <2>2, <2>3, <2>6 DEF SessionConsistent, Bound, Gate
    <3> QED BY <2>6, <2>7, <2>8, <3>1 DEF SessionConsistent, At, Bound
  <2> QED BY <1>1, <1>4, <2>4, <2>5, <2>9, CallStepKeeps
<1> QED BY <1>6, <1>7 DEF StartChild

-----------------------------------------------------------------------------

LEMMA InvariantInit == Init => MonitorInvariant
<1> SUFFICES ASSUME Init PROVE MonitorInvariant
  OBVIOUS
<1>1. Jobs!RegistryInvariant
  <2>1. Registry!Init
    BY DEF Init, Jobs!Init, Registry!Init, Jobs!Id, Registry!Id
  <2> QED BY <2>1, RegistryMayBe, Registry!InvariantInit, SameInvariant
<1>2. seq = 0 /\ \A j \in Id : status[j] = "unborn"
  BY DEF Init, Jobs!Init, Jobs!Id, Id
<1>3. WorldTypes
  BY CommitAssumption, WindowAssumption DEF Init, WorldTypes, Verdict, Opinion
<1>4. SessionTypes
  <2>1. Now \in [head : Commit, conflict : BOOLEAN, ci : Opinion]
    BY <1>3, NowType
  <2>2. handle \in [Session -> [Gate -> 0..seq]]
    BY <1>2 DEF Init
  <2> QED BY <2>1, <2>2, WindowAssumption DEF Init, SessionTypes, Outcome
<1>5. ResultsConsistent
  BY <1>2 DEF ResultsConsistent
<1>6. \A s \in Session : SessionConsistent(s)
  BY DEF Init, SessionConsistent, At, Bound, Gate
<1> QED BY <1>1, <1>3, <1>4, <1>5, <1>6, InvariantSplit

LEMMA StutterKeeps ==
    ASSUME MonitorInvariant, UNCHANGED vars PROVE MonitorInvariant'
<1>0. Jobs!RegistryInvariant /\ SessionTypes /\ WorldTypes /\ ResultsConsistent
  BY InvariantSplit
<1>1. UNCHANGED <<registry, verdict, ranFor, github, session>>
  BY DEF vars
<1>2. Onward /\ NoneAnswers /\ RegistryStep
  BY <1>0, <1>1, RegistryRests
<1>3. WorldTypes'
  BY <1>0, <1>1 DEF WorldTypes, github
<1> QED BY <1>0, <1>1, <1>2, <1>3, ResultsKept, OtherStepKeeps DEF session, SessionTypes

(* The monitor keeps its invariant in every interleaving of calls, watches,*)
(* pushes, gate reports and expiries (runMonitor).                         *)
THEOREM MonitorInvariantHolds == Spec => []MonitorInvariant
<1>1. Init => MonitorInvariant
  BY InvariantInit
<1>2. MonitorInvariant /\ [Next]_vars => MonitorInvariant'
  <2> SUFFICES ASSUME MonitorInvariant, [Next]_vars PROVE MonitorInvariant'
    OBVIOUS
  <2>1. ASSUME NEW s \in Session, Call(s) PROVE MonitorInvariant'
    BY <2>1, CallKeeps
  <2>2. ASSUME NEW s \in Session, Step(s) PROVE MonitorInvariant'
    BY <2>2, ReadFirstKeeps, ReadFailsKeeps, StartChildKeeps, ReadKeeps, JudgeKeeps, WakeKeeps
    DEF Step
  <2>3. ASSUME NEW j \in 1..seq, Child_(j) PROVE MonitorInvariant'
    BY <2>3, ChildKeeps DEF Child_
  <2>4. CASE Push \/ BaseMoves
    BY <2>4, GitHubKeeps
  <2>5. CASE \E h \in Commit : RerunOnGitHub(h) \/ \E g \in Gate : GateReports(h, g)
    BY <2>5, GitHubKeeps
  <2>6. CASE Tick
    BY <2>6, TickKeeps
  <2>7. CASE UNCHANGED vars
    BY <2>7, StutterKeeps
  <2> QED BY <2>1, <2>2, <2>3, <2>4, <2>5, <2>6, <2>7 DEF Next
<1> QED BY <1>1, <1>2, PTL DEF Spec

(* A call that reports the gates complete has seen its head without        *)
(* conflict and with its checks passed, and polled two watches of that     *)
(* head that found it good (runMonitor).                                   *)
THEOREM CompleteIsEarnedHolds == Spec => []CompleteIsEarned
<1>1. MonitorInvariant => CompleteIsEarned
  BY DEF MonitorInvariant, SessionConsistent, CompleteIsEarned
<1> QED BY <1>1, MonitorInvariantHolds, PTL

(* A call does not repeat that Sonar gave no answer from a watch that had  *)
(* ended before it began (isNonVerdictWatchResult, issue #1695).           *)
THEOREM FailedWatchRunsAgainHolds == Spec => []FailedWatchRunsAgain
<1>1. MonitorInvariant => FailedWatchRunsAgain
  BY DEF MonitorInvariant, SessionConsistent, FailedWatchRunsAgain
<1> QED BY <1>1, MonitorInvariantHolds, PTL

(* At most one watch of a gate runs per head (runMonitor: idempotencyKey). *)
THEOREM OneWatchPerHeadHolds == Spec => []OneWatchPerHead
<1>1. MonitorInvariant => OneWatchPerHead
  <2> SUFFICES ASSUME MonitorInvariant PROVE OneWatchPerHead
    OBVIOUS
  <2>1. Jobs!RegistryInvariant /\ TypeOK
    BY DEF MonitorInvariant
  <2>2. ASSUME NEW i \in Id, NEW j \in Id, status[i] = "running", status[j] = "running",
               request[i].key = request[j].key
        PROVE  i = j
    <3>1. i \in registered /\ j \in registered
      BY <2>1, <2>2, RegistryTypes DEF Jobs!RegistryInvariant, Jobs!LiveWorkRegistered,
         Jobs!Running
    <3>2. request[i] \in Watches
      BY <2>1, <3>1, RegistryTypes DEF Jobs!RegistryInvariant, Jobs!TypeOK
    <3>3. request[i].key # NoKey
      BY <3>2, WatchFields
    <3> QED BY <2>1, <2>2, <3>1, <3>3 DEF Jobs!RegistryInvariant, Jobs!OneJobPerKey
  <2> QED BY <2>1, <2>2 DEF OneWatchPerHead
<1> QED BY <1>1, MonitorInvariantHolds, PTL
=============================================================================
