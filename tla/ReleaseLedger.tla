--------------------------- MODULE ReleaseLedger ---------------------------
(***************************************************************************)
(* The reservation log of one release family                               *)
(* (mcp/ground-control/lib/release-identity*.js): git references on GitHub *)
(* that are created and never updated.  claims[s] is the reservation in    *)
(* slot s, outcomes[s] what became of it.  Calls of several hosts fold the *)
(* log, work out the next identity from what they read and try to create   *)
(* the next slot's reference; the create is the only thing that decides.   *)
(*                                                                         *)
(* A request to create a reference may be applied, refused or lost, its    *)
(* answer may be lost, and it may be applied after the call that sent it   *)
(* has given up.  A listing of references may trail by Lag slots, which    *)
(* the code allows for (release-identity.js:348).  An event is a commit,   *)
(* and a commit is its content: two calls that build the same event on the *)
(* same base in the same second hold the same commit.                      *)
(***************************************************************************)
EXTENDS Integers, FiniteSets, Sequences

CONSTANTS
    MaxCalls,          \* bound on the calls ever made
    Key,               \* issue and idempotency key together
    Task,              \* what calls ask: [action, key, reason]
    Family,            \* the definitions the base may hold: [floor, offset]
    FirstFamily,       \* and the one it holds at first
    MaxSlot,           \* RELEASE_LEDGER_SLOTS_MAX
    MaxSequence,       \* RELEASE_SEQUENCE_MAX
    ClaimAttempts,     \* CLAIM_ATTEMPTS_MAX
    HeadObservations,  \* HEAD_OBSERVATIONS_MAX
    Lag,               \* how many slots a listing may trail
    Second,            \* when GitHub may have dated a commit; any call may get any
    MaxRevision        \* bound on the commits of the base branch

ASSUME BoundsAssumption ==
    /\ MaxSlot \in Nat \ {0} /\ MaxSequence \in Nat \ {0} /\ Lag \in Nat
    /\ ClaimAttempts \in Nat \ {0} /\ HeadObservations \in Nat \ {0}
    /\ MaxRevision \in Nat \ {0} /\ MaxCalls \in Nat
ASSUME FamilyAssumption ==
    FirstFamily \in Family /\ Family \subseteq [floor: Nat \ {0}, offset: Int]
ASSUME TaskAssumption ==
    Task \subseteq [action: {"reserve", "publish", "abandon"}, key: Key, reason: STRING]
ASSUME KeyAssumption == "none" \notin Key

Call == 1..MaxCalls   \* in the order they start
Slot == 1..MaxSlot
Sequence == 1..MaxSequence
Name == 1..MaxSequence
Base == [family: Family, tree: SUBSET Name]

NoClaim == [key |-> "none"]
NoOutcome == [event |-> "none"]
Claim == [key: Key, sequence: Sequence, name: Name, base: 1..MaxRevision, at: Second]
Outcome == [event: {"published"}, revision: 1..MaxRevision, at: Second]
             \cup [event: {"abandoned"}, reason: STRING, at: Second]
Request == [kind: {"claims"}, slot: Slot, event: Claim]
             \cup [kind: {"outcomes"}, slot: Slot, event: Outcome]
NoTask == [action |-> "none"]
View == [slot: Slot, outcome: Outcome \cup {NoOutcome}]
Refusal == [ok |-> FALSE]
Answer == {Refusal} \cup [ok: {TRUE}, view: View, reused: BOOLEAN]

VARIABLES
    bases,      \* the base branch: family definition and artifacts of each revision
    claims,     \* refs claims/<slot>
    outcomes,   \* refs outcomes/<slot>
    flight,     \* create requests GitHub may still apply
    records,    \* <<slot, event>> with a comment on the issue
    phase, task, seen, base, attempt, built, made, answer
                \* of each call; built is the commit it has built, NoClaim for none

log == <<claims, outcomes, flight>>
vars == <<log, bases, records, phase, task, seen, base, attempt, built, made, answer>>

-----------------------------------------------------------------------------
(* Identities.  A version template has one token, {sequence+K}.            *)

Render(family, n) == n + family.offset

Renderable(family, n) == n \in Sequence /\ Render(family, n) \in Name

(* The sequence of the last claim in a fold that shows the first m slots.  *)
Highest(m) == IF m = 0 THEN 0 ELSE claims[m].sequence

(* Mutant: a definition's sequence starts at its floor.                    *)
SequenceFromFloor(family, m) == family.floor

NextSequence(family, m) ==
    IF family.floor > Highest(m) THEN family.floor ELSE Highest(m) + 1

(* Mutant: a new identity is compared with the base only.                  *)
CollidesWithBase(n, m, tree) == n \in tree

Collides(n, m, tree) == n \in tree \/ \E s \in 1..m : claims[s].name = n

-----------------------------------------------------------------------------
(* Reading the log.  A listing shows a prefix of the claims, all of them   *)
(* but the last Lag at most, and perhaps not yet an outcome.               *)

Shows(m) ==
    /\ \A s \in 1..m : claims[s] # NoClaim
    /\ m + Lag < MaxSlot => claims[m + Lag + 1] = NoClaim

ShownOutcomes(s) == IF Lag = 0 THEN {outcomes[s]} ELSE {outcomes[s], NoOutcome}

(* One turn of foldReleaseLedger's loop: a slot's claim is validated       *)
(* against those before it, and what does not follow refuses the log.      *)
Extend(fold, s) ==
    IF /\ fold.ok /\ claims[s] # NoClaim
       /\ claims[s].sequence > fold.highest /\ claims[s].key \notin fold.identities
    THEN [ok |-> TRUE, highest |-> claims[s].sequence,
          identities |-> fold.identities \cup {claims[s].key}]
    ELSE [ok |-> FALSE, highest |-> fold.highest, identities |-> fold.identities]

Fold(m) ==
    LET fold[s \in 0..m] == IF s = 0 THEN [ok |-> TRUE, highest |-> 0, identities |-> {}]
                            ELSE Extend(fold[s - 1], s)
    IN fold[m]

(* What the calls below use of a fold that accepts the log.                *)
OwnedBy(k, m) == {s \in 1..m : claims[s].key = k}

(* What the last fold of c showed of its reservation: a set of one or none.*)
Mine(c) == OwnedBy(task[c].key, seen[c])

Step(c, from, to) == phase[c] = from /\ phase' = [phase EXCEPT ![c] = to]

(* The call answers; what it read is gone with it.  The commit it built is *)
(* kept as history while its answer says that it made the event.           *)
Return(c, from, a) ==
    /\ Step(c, from, "done")
    /\ answer' = [answer EXCEPT ![c] = a]
    /\ seen' = [seen EXCEPT ![c] = 0]
    /\ base' = [base EXCEPT ![c] = 1]
    /\ attempt' = [attempt EXCEPT ![c] = 0]
    /\ made' = [made EXCEPT ![c] = FALSE]
    /\ built' = [built EXCEPT ![c] = IF a.ok /\ ~a.reused THEN @ ELSE NoClaim]

Refuse(c, from) == Return(c, from, Refusal) /\ UNCHANGED records

(* The issue's records: one comment for each event an answer shows.        *)
Events(v) == {<<v.slot, "reserved">>}
               \cup (IF v.outcome = NoOutcome THEN {} ELSE {<<v.slot, v.outcome.event>>})

(* Mutant: a record that could not be posted does not hold the answer up.  *)
AnswerAnyway(posted, missing) == TRUE

AllPosted(posted, missing) == posted = missing

(* respondWithRecords: the missing comments are posted, then the answer is *)
(* given.  A comment may be posted although the answer to the post was     *)
(* lost; a retry that does not find it posts it again.                     *)
Respond(c, from, s, o, again) ==
    LET shown == [slot |-> s, outcome |-> o]
        missing == Events(shown) \ records
    IN \E landed \in SUBSET missing : \E posted \in SUBSET landed :
         /\ records' = records \cup landed
         /\ Return(c, from, IF AllPosted(posted, missing)
                            THEN [ok |-> TRUE, view |-> shown, reused |-> again]
                            ELSE Refusal)

(* Mutant: whichever outcome won, it is reported as the caller's.          *)
AnyOutcomeWill(t, o) == TRUE

(* Is the outcome a fold shows the one this call was to append?            *)
Identical(t, o) ==
    CASE t.action = "publish" -> o.event = "published"
      [] t.action = "abandon" -> o.event = "abandoned" /\ o.reason = t.reason

Init ==
    /\ bases = <<[family |-> FirstFamily, tree |-> {}]>>
    /\ claims = [s \in Slot |-> NoClaim]
    /\ outcomes = [s \in Slot |-> NoOutcome]
    /\ flight = {} /\ records = {}
    /\ phase = [c \in Call |-> "idle"] /\ task = [c \in Call |-> NoTask]
    /\ seen = [c \in Call |-> 0] /\ base = [c \in Call |-> 1]
    /\ attempt = [c \in Call |-> 0]
    /\ built = [c \in Call |-> NoClaim] /\ made = [c \in Call |-> FALSE]
    /\ answer = [c \in Call |-> Refusal]

(* runReleaseIdentity, up to its first request.                            *)
Start(c) ==
    /\ Step(c, "idle", "folding")
    /\ \A d \in 1..c - 1 : phase[d] # "idle"
    /\ \E t \in Task : task' = [task EXCEPT ![c] = t]
    /\ UNCHANGED <<log, bases, records, seen, base, attempt, built, made, answer>>

(* A read that fails, or a check that refuses: the issue, the run's branch *)
(* and pickup record, the configuration on disk and on the base.           *)
GiveUp(c) ==
    /\ \E from \in {"folding", "checking", "claiming", "deciding", "settling"} : Refuse(c, from)
    /\ UNCHANGED <<log, bases, task>>

(* Mutant: the reference is updated, which GitHub accepts.                 *)
SentAsUpdate(r) == flight \cup {r}

(* A request for a name that is taken is refused; the others GitHub may    *)
(* apply in its own time, or never.                                        *)
Sent(r) ==
    IF r.kind = "claims"
    THEN IF claims[r.slot] = NoClaim THEN flight \cup {r} ELSE flight
    ELSE IF outcomes[r.slot] = NoOutcome THEN flight \cup {r} ELSE flight

-----------------------------------------------------------------------------
(* Reserving.                                                              *)

(* Replay comes first: a key that owns a reservation gets it.              *)
FoldToReserve(c) ==
    /\ task[c].action = "reserve" /\ phase[c] = "folding"
    /\ \E m \in 0..MaxSlot :
         /\ Shows(m)
         /\ \/ /\ OwnedBy(task[c].key, m) = {}
               /\ Step(c, "folding", "checking")
               /\ seen' = [seen EXCEPT ![c] = m]
               /\ UNCHANGED <<records, base, attempt, built, made, answer>>
            \/ \E s \in OwnedBy(task[c].key, m) : \E o \in ShownOutcomes(s) :
                 Respond(c, "folding", s, o, TRUE)
    /\ UNCHANGED <<log, bases, task>>

(* checkIssue, requireRunBranch and readBaseFamily let the call go on.     *)
ReadBaseFamily(c) ==
    /\ task[c].action = "reserve"
    /\ Step(c, "checking", "claiming")
    /\ base' = [base EXCEPT ![c] = Len(bases)]
    /\ UNCHANGED <<log, bases, records, task, seen, attempt, built, made, answer>>

Claimable(c) ==
    LET family == bases[base[c]].family
        n == NextSequence(family, seen[c])
    IN /\ seen[c] < MaxSlot
       /\ Renderable(family, n)
       /\ ~Collides(Render(family, n), seen[c], bases[base[c]].tree)

ClaimRequest(c, second) ==
    LET family == bases[base[c]].family
        n == NextSequence(family, seen[c])
    IN [kind |-> "claims", slot |-> seen[c] + 1,
        event |-> [key |-> task[c].key, sequence |-> n, name |-> Render(family, n),
                  base |-> base[c], at |-> second]]

ClaimNext(c) ==
    /\ Claimable(c)
    /\ Step(c, "claiming", "creating")
    /\ \E second \in Second :
         /\ flight' = Sent(ClaimRequest(c, second))
         /\ built' = [built EXCEPT ![c] = ClaimRequest(c, second).event]
    /\ attempt' = [attempt EXCEPT ![c] = @ + 1]
    /\ UNCHANGED <<claims, outcomes, bases, records, task, seen, base, made, answer>>

ClaimRefused(c) ==
    /\ ~Claimable(c)
    /\ Refuse(c, "claiming")
    /\ UNCHANGED <<log, bases, task>>

-----------------------------------------------------------------------------
(* Creating a reference.                                                   *)

TargetSlot(c) == IF task[c].action = "reserve" THEN seen[c] + 1 ELSE CHOOSE s \in Mine(c) : TRUE

Target(c) == IF task[c].action = "reserve" THEN claims[TargetSlot(c)] ELSE outcomes[TargetSlot(c)]

(* GitHub applies a request in its own time, or never, and refuses the     *)
(* others that ask for the same name.                                      *)
Others(r) == {q \in flight : q.kind # r.kind \/ q.slot # r.slot}

ApplyClaim(r) ==
    /\ r.kind = "claims"
    /\ claims' = [claims EXCEPT ![r.slot] = r.event]
    /\ flight' = Others(r)
    /\ UNCHANGED <<bases, outcomes, records, phase, task, seen, base, attempt, built, made, answer>>

ApplyOutcome(r) ==
    /\ r.kind = "outcomes"
    /\ outcomes' = [outcomes EXCEPT ![r.slot] = r.event]
    /\ flight' = Others(r)
    /\ UNCHANGED <<bases, claims, records, phase, task, seen, base, attempt, built, made, answer>>

(* Mutant: a name that exists was created here.                            *)
ExistsSoCreated(c) == TRUE

CreatedHere(c) == Target(c) = built[c]

(* createLedgerRef decides from the answer, or by reading the name back:   *)
(* created, or taken.                                                      *)
CreateDecided(c) ==
    /\ Step(c, "creating", "settling")
    /\ Target(c) \notin {NoClaim, NoOutcome}
    /\ made' = [made EXCEPT ![c] = CreatedHere(c)]
    /\ built' = [built EXCEPT ![c] = IF CreatedHere(c) THEN @ ELSE NoClaim]
    /\ UNCHANGED <<log, bases, records, task, seen, base, attempt, answer>>

(* Neither confirmed nor refuted: reading back fails, or shows nothing.    *)
CreateUndecided(c) ==
    /\ Refuse(c, "creating")
    /\ UNCHANGED <<log, bases, task>>

AttemptsLeft(c) == attempt[c] < ClaimAttempts

(* Whoever won the slot, the log is folded again before the next attempt.  *)
RefoldClaim(c) ==
    /\ task[c].action = "reserve" /\ phase[c] = "settling"
    /\ \E m \in 0..MaxSlot :
         /\ Shows(m)
         /\ \/ \E s \in OwnedBy(task[c].key, m) : \E o \in ShownOutcomes(s) :
                 Respond(c, "settling", s, o, ~made[c])
            \/ /\ OwnedBy(task[c].key, m) = {}
               /\ AttemptsLeft(c)
               /\ Step(c, "settling", "claiming")
               /\ seen' = [seen EXCEPT ![c] = m]
               /\ UNCHANGED <<records, base, attempt, built, made, answer>>
            \/ OwnedBy(task[c].key, m) = {} /\ ~AttemptsLeft(c) /\ Refuse(c, "settling")
    /\ UNCHANGED <<log, bases, task>>

-----------------------------------------------------------------------------
(* Publishing and abandoning.                                              *)

(* An outcome already there is the answer, or the reason to refuse.        *)
FoldToTransition(c) ==
    /\ task[c].action # "reserve" /\ phase[c] = "folding"
    /\ \E m \in 0..MaxSlot :
         /\ Shows(m)
         /\ \/ OwnedBy(task[c].key, m) = {} /\ Refuse(c, "folding")
            \/ \E s \in OwnedBy(task[c].key, m) : \E o \in ShownOutcomes(s) :
                 \/ /\ o = NoOutcome
                    /\ Step(c, "folding", "deciding")
                    /\ seen' = [seen EXCEPT ![c] = m]
                    /\ base' = [base EXCEPT ![c] = Len(bases)]
                    /\ UNCHANGED <<records, attempt, built, made, answer>>
                 \/ o # NoOutcome /\ Identical(task[c], o) /\ Respond(c, "folding", s, o, TRUE)
                 \/ o # NoOutcome /\ ~Identical(task[c], o) /\ Refuse(c, "folding")
    /\ UNCHANGED <<log, bases, task>>

AppendOutcome(c, event) ==
    /\ Step(c, "deciding", "creating")
    /\ flight' = Sent([kind |-> "outcomes", slot |-> TargetSlot(c), event |-> event])
    /\ built' = [built EXCEPT ![c] = event]
    /\ UNCHANGED <<claims, outcomes, records, seen, made, answer>>

(* Mutant: the artifacts are not looked for.                               *)
ArtifactsAssumed(s, r) == TRUE

ArtifactsAt(s, r) == claims[s].name \in bases[r].tree

(* The artifacts are verified at a head that is still the head afterwards. *)
DecidePublication(c) ==
    /\ task[c].action = "publish" /\ phase[c] = "deciding"
    /\ \/ /\ ArtifactsAt(TargetSlot(c), base[c])
          /\ base[c] = Len(bases)
          /\ \E second \in Second :
               AppendOutcome(c, [event |-> "published", revision |-> base[c], at |-> second])
          /\ UNCHANGED <<base, attempt>>
       \/ /\ ArtifactsAt(TargetSlot(c), base[c])
          /\ base[c] # Len(bases) /\ attempt[c] + 1 < HeadObservations
          /\ base' = [base EXCEPT ![c] = Len(bases)]
          /\ attempt' = [attempt EXCEPT ![c] = @ + 1]
          /\ UNCHANGED <<log, records, phase, seen, built, made, answer>>
       \/ /\ \/ ~ArtifactsAt(TargetSlot(c), base[c])
             \/ base[c] # Len(bases) /\ attempt[c] + 1 = HeadObservations
          /\ Refuse(c, "deciding")
          /\ UNCHANGED log
    /\ UNCHANGED <<bases, task>>

(* requireRunBranch let the call go on.                                    *)
DecideAbandonment(c) ==
    /\ task[c].action = "abandon"
    /\ \E second \in Second :
         AppendOutcome(c, [event |-> "abandoned", reason |-> task[c].reason, at |-> second])
    /\ UNCHANGED <<bases, task, base, attempt>>

(* The fold after the create says who won; an outcome it does not yet show *)
(* cannot be told.                                                         *)
RefoldOutcome(c) ==
    /\ task[c].action # "reserve" /\ phase[c] = "settling"
    /\ \E m \in 0..MaxSlot :
         /\ Shows(m)
         /\ \/ OwnedBy(task[c].key, m) = {} /\ Refuse(c, "settling")
            \/ \E s \in OwnedBy(task[c].key, m) : \E o \in ShownOutcomes(s) :
                 \/ o # NoOutcome /\ Identical(task[c], o) /\ Respond(c, "settling", s, o, ~made[c])
                 \/ (o = NoOutcome \/ ~Identical(task[c], o)) /\ Refuse(c, "settling")
    /\ UNCHANGED <<log, bases, task>>

-----------------------------------------------------------------------------
(* The base branch: artifacts land or are taken back, the definition of    *)
(* the family changes.                                                     *)
Push ==
    /\ Len(bases) < MaxRevision
    /\ LET head == bases[Len(bases)]
       IN \/ \E n \in Name : bases' = Append(bases, [head EXCEPT !.tree =
                                IF n \in @ THEN @ \ {n} ELSE @ \cup {n}])
          \/ \E f \in Family \ {head.family} :
               bases' = Append(bases, [head EXCEPT !.family = f])
    /\ UNCHANGED <<claims, outcomes, flight, records,
                   phase, task, seen, base, attempt, built, made, answer>>

CallStep(c) ==
    \/ GiveUp(c) \/ FoldToReserve(c) \/ ReadBaseFamily(c) \/ ClaimNext(c) \/ ClaimRefused(c)
    \/ CreateDecided(c) \/ CreateUndecided(c) \/ RefoldClaim(c)
    \/ FoldToTransition(c) \/ DecidePublication(c) \/ DecideAbandonment(c) \/ RefoldOutcome(c)

Next ==
    \/ \E c \in Call : Start(c) \/ CallStep(c)
    \/ \E r \in flight : ApplyClaim(r) \/ ApplyOutcome(r)
    \/ Push

Spec == Init /\ [][Next]_vars

-----------------------------------------------------------------------------
TypeOK ==
    /\ bases \in Seq(Base) /\ Len(bases) \in 1..MaxRevision
    /\ claims \in [Slot -> Claim \cup {NoClaim}]
    /\ outcomes \in [Slot -> Outcome \cup {NoOutcome}]
    /\ flight \subseteq Request
    /\ records \subseteq Slot \X {"reserved", "published", "abandoned"}
    /\ phase \in [Call -> {"idle", "folding", "checking", "claiming", "deciding",
                           "creating", "settling", "done"}]
    /\ task \in [Call -> Task \cup {NoTask}]
    /\ seen \in [Call -> 0..MaxSlot]
    /\ base \in [Call -> 1..MaxRevision]
    /\ attempt \in [Call -> Nat]
    /\ built \in [Call -> Claim \cup Outcome \cup {NoClaim}]
    /\ made \in [Call -> BOOLEAN]
    /\ answer \in [Call -> Answer]

Used == {s \in Slot : claims[s] # NoClaim}

SlotsWellFormed ==
    /\ TypeOK
    /\ \A s \in Used, r \in Slot : r < s => r \in Used
    /\ \A s, r \in Used : r < s => /\ claims[r].sequence < claims[s].sequence
                                  /\ claims[r].key # claims[s].key
    /\ \A s \in Slot : outcomes[s] # NoOutcome => s \in Used

FoldAccepts ==
    \A m \in 0..MaxSlot : Shows(m) =>
      Fold(m) = [ok |-> TRUE, highest |-> Highest(m), identities |-> {claims[s].key : s \in 1..m}]

(* No order of creates, late creates and retries makes a log that          *)
(* foldReleaseLedger would refuse, however much of it a listing shows:     *)
(* slots without a gap, sequences that grow, a key once, outcomes of       *)
(* claims.  A refused log would stop the family for good, since nothing    *)
(* repairs one.                                                            *)
LogWellFormed == SlotsWellFormed /\ FoldAccepts

(* No two reservations ever own the same name, abandoned ones included,    *)
(* whatever definitions of the family they were rendered from.             *)
NamesNeverReissued ==
    \A s, r \in Used : claims[s].name = claims[r].name => s = r

(* An answer describes the log as it is from then on: the slot it names is *)
(* the key's, and the outcome it reports is the slot's.                    *)
AnswersHold ==
    \A c \in Call : answer[c].ok =>
      LET v == answer[c].view
      IN /\ v.slot \in Used /\ claims[v.slot].key = task[c].key
         /\ v.outcome # NoOutcome => outcomes[v.slot] = v.outcome
         /\ task[c].action = "publish" => v.outcome.event = "published"
         /\ task[c].action = "abandon" => /\ v.outcome.event = "abandoned"
                                         /\ v.outcome.reason = task[c].reason

(* The event an answered call is about.                                    *)
Shown(c) ==
    IF task[c].action = "reserve" THEN claims[answer[c].view.slot]
    ELSE outcomes[answer[c].view.slot]

(* A call that is told it made an event ("reused: false") finds in the log *)
(* the very commit it built, on the base and at the revision it looked at; *)
(* a call that lost the race to another commit never is, however late the  *)
(* winner's create or its own answer came (createLedgerRef: "read the      *)
(* exact reference back").  Two hosts with one key that built the same     *)
(* commit in the same second are both told so.                             *)
MakersBuiltIt ==
    \A c \in Call : answer[c].ok /\ ~answer[c].reused => Shown(c) = built[c]

(* A published identity was on the base branch, at the revision named.     *)
PublishedWasThere ==
    \A s \in Slot : outcomes[s].event = "published" =>
      claims[s].name \in bases[outcomes[s].revision].tree

(* Success is answered only when the issue shows every event it reports.   *)
RecordsBehindAnswers ==
    \A c \in Call : answer[c].ok => Events(answer[c].view) \subseteq records

-----------------------------------------------------------------------------
(* The log implements the register of identities.                          *)

ReservedName(k) ==
    IF OwnedBy(k, MaxSlot) = {} THEN 0
    ELSE claims[CHOOSE s \in OwnedBy(k, MaxSlot) : TRUE].name

ResultAt(s) ==
    CASE outcomes[s] = NoOutcome -> "no result"
      [] outcomes[s].event = "published" -> "published"
      [] outcomes[s].event = "abandoned" -> outcomes[s].reason

ResultOf(k) ==
    IF OwnedBy(k, MaxSlot) = {} THEN "no result"
    ELSE ResultAt(CHOOSE s \in OwnedBy(k, MaxSlot) : TRUE)

Told(v) == IF v.outcome = NoOutcome THEN "no result"
           ELSE IF v.outcome.event = "published" THEN "published" ELSE v.outcome.reason

Register == INSTANCE IdentityRegister WITH
    Name <- Name, NoName <- 0, NoResult <- "no result",
    Result <- {"published"} \cup {t.reason : t \in Task},
    reserved <- [k \in Key |-> ReservedName(k)],
    result <- [k \in Key |-> ResultOf(k)],
    told <- {<<task[c].key, claims[answer[c].view.slot].name, Told(answer[c].view)>> :
               c \in {d \in Call : answer[d].ok}}

(* Refinement: every step of the log, its callers and GitHub is one of the *)
(* register or leaves it alone.                                            *)
ImplementsRegister == Register!Spec
=============================================================================
