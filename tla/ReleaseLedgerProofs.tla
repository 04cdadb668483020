------------------------- MODULE ReleaseLedgerProofs -------------------------
(***************************************************************************)
(* What the reservation log of ReleaseLedger promises, for any calls, keys *)
(* and definitions and however far a listing trails.  References are never *)
(* updated, so whatever a call has read of the log stays as it was read;   *)
(* what it asks GitHub to create therefore still fits the log when GitHub  *)
(* gets to it, unless the name has been taken.                             *)
(***************************************************************************)
EXTENDS ReleaseLedger, FiniteSetTheorems, TLAPS

(* A claim of key k and name n with sequence q may follow slots 1..m.      *)
MayFollow(k, q, n, m) ==
    \A s \in 1..m : /\ s \in Used /\ claims[s].key # k
                    /\ claims[s].sequence < q /\ claims[s].name # n

(* A request under way still fits the log.                                 *)
ClaimFits(r) ==
    /\ claims[r.slot] = NoClaim
    /\ MayFollow(r.event.key, r.event.sequence, r.event.name, r.slot - 1)

OutcomeFits(r) ==
    /\ outcomes[r.slot] = NoOutcome /\ r.slot \in Used
    /\ r.event.event = "published" =>
          /\ r.event.revision \in 1..Len(bases)
          /\ claims[r.slot].name \in bases[r.event.revision].tree

FlightFits ==
    \A r \in flight : /\ r.kind = "claims" => ClaimFits(r)
                      /\ r.kind = "outcomes" => OutcomeFits(r)

(* What a call knows of the log by the phase it is in.                     *)
HasRead(c) == \A s \in 1..seen[c] : s \in Used

Knows(c) ==
    /\ phase[c] # "idle" => task[c] \in Task
    /\ phase[c] \in {"checking", "claiming"} \/
       (phase[c] \in {"creating", "settling"} /\ task[c].action = "reserve") => HasRead(c)
    /\ phase[c] \in {"checking", "claiming"} => task[c].action = "reserve" /\ Mine(c) = {}
    /\ phase[c] = "deciding" => task[c].action # "reserve"
    /\ phase[c] \in {"creating", "settling"} /\ task[c].action = "reserve" => seen[c] < MaxSlot
    /\ phase[c] = "deciding" \/ (phase[c] \in {"creating", "settling"} /\ task[c].action # "reserve")
         => HasRead(c) /\ Mine(c) # {}
    /\ phase[c] = "settling" =>
         /\ Target(c) \notin {NoClaim, NoOutcome}
         /\ made[c] => CreatedHere(c)
    /\ phase[c] \in {"creating", "settling"} /\ task[c].action = "reserve"
         => built[c] = NoClaim \/ built[c].key = task[c].key
    /\ base[c] \in 1..Len(bases)

(* An answer that claims to have made its event shows the commit built.    *)
Backed(c) ==
    answer[c].ok => phase[c] = "done" /\ (~answer[c].reused => Shown(c) = built[c])

(* Published outcomes name revisions of the base that exist.               *)
EventsInTime ==
    \A s \in Slot : outcomes[s].event = "published" => outcomes[s].revision \in 1..Len(bases)

LedgerInvariant ==
    /\ SlotsWellFormed
    /\ NamesNeverReissued
    /\ FlightFits
    /\ \A c \in Call : Knows(c)
    /\ AnswersHold
    /\ \A c \in Call : Backed(c)
    /\ PublishedWasThere /\ EventsInTime
    /\ RecordsBehindAnswers

-----------------------------------------------------------------------------
LEMMA ClaimsAreClaims == NoClaim \notin Claim
BY DEF NoClaim, Claim

LEMMA OutcomesAreOutcomes == NoOutcome \notin Outcome
BY DEF NoOutcome, Outcome

(* What no step undoes.                                                    *)
Grows ==
    /\ \A s \in Slot : claims[s] # NoClaim => claims'[s] = claims[s]
    /\ \A s \in Slot : outcomes[s] # NoOutcome => outcomes'[s] = outcomes[s]
    /\ Len(bases) <= Len(bases') /\ \A i \in 1..Len(bases) : bases'[i] = bases[i]
    /\ records \subseteq records'

Untouched(d) ==
    /\ phase'[d] = phase[d] /\ task'[d] = task[d] /\ seen'[d] = seen[d]
    /\ base'[d] = base[d] /\ built'[d] = built[d] /\ made'[d] = made[d]
    /\ answer'[d] = answer[d]

LEMMA SlotsKeep ==
    ASSUME TypeOK, Grows, NEW s \in Used PROVE s \in Slot /\ s \in Used' /\ claims'[s] = claims[s]
BY DEF Grows, Used

(* A key owns one slot, so TargetSlot of an outcome is the slot it owns.   *)
LEMMA OneSlot ==
    ASSUME SlotsWellFormed, NEW s \in Used, NEW r \in Used, claims[s].key = claims[r].key
    PROVE  s = r
BY DEF SlotsWellFormed, Used, Slot

LEMMA TargetIsMine ==
    ASSUME NEW c \in Call, Mine(c) # {}, task[c].action # "reserve"
    PROVE  TargetSlot(c) \in Mine(c)
<1>1. TargetSlot(c) = CHOOSE s \in Mine(c) : TRUE
  BY DEF TargetSlot
<1>2. PICK s \in Mine(c) : TRUE
  OBVIOUS
<1> QED BY <1>1, <1>2

LEMMA MineKeeps ==
    ASSUME TypeOK, Grows, NEW c \in Call, HasRead(c), seen'[c] = seen[c], task'[c] = task[c]
    PROVE  HasRead(c)' /\ Mine(c)' = Mine(c)
<1>1. \A s \in 1..seen[c] : s \in Used' /\ claims'[s] = claims[s]
  BY SlotsKeep DEF HasRead
<1> QED BY <1>1 DEF HasRead, Mine, OwnedBy

LEMMA KnowsPersists ==
    ASSUME TypeOK, SlotsWellFormed', Grows, NEW c \in Call, Knows(c), Untouched(c)
    PROVE  Knows(c)'
<1> USE DEF Untouched
<1>1. base'[c] \in 1..Len(bases')
  BY DEF Knows, Grows, TypeOK
<1>2. HasRead(c) => HasRead(c)' /\ Mine(c)' = Mine(c)
  BY MineKeeps
<1>3. ASSUME phase[c] = "settling"
      PROVE  Target(c)' \notin {NoClaim, NoOutcome} /\ (made[c] => CreatedHere(c))'
  <2>1. CASE task[c].action = "reserve"
    <3>1. seen[c] + 1 \in Slot
      BY <1>3, <2>1, BoundsAssumption DEF Knows, TypeOK, Slot
    <3>2. Target(c) = claims[seen[c] + 1] /\ Target(c)' = claims'[seen[c] + 1]
      BY <2>1 DEF Target, TargetSlot
    <3> QED BY <1>3, <3>1, <3>2 DEF Knows, Grows, CreatedHere
  <2>2. CASE task[c].action # "reserve"
    <3>1. HasRead(c) /\ Mine(c) # {}
      BY <1>3, <2>2 DEF Knows
    <3>2. Mine(c)' = Mine(c)
      BY <1>2, <3>1
    <3>3. TargetSlot(c)' = TargetSlot(c)
      BY <2>2, <3>2 DEF TargetSlot
    <3>4. TargetSlot(c) \in Slot
      BY <2>2, <3>1, TargetIsMine DEF Mine, OwnedBy, HasRead, Used
    <3>5. Target(c) = outcomes[TargetSlot(c)] /\ Target(c)' = outcomes'[TargetSlot(c)]
      BY <2>2, <3>3 DEF Target
    <3> QED BY <1>3, <3>4, <3>5 DEF Knows, Grows, CreatedHere
  <2> QED BY <2>1, <2>2
<1> QED BY <1>1, <1>2, <1>3 DEF Knows

(* What an answer says is so, and on the issue.                            *)
AnswerTrue(c) ==
    answer[c].ok =>
      LET v == answer[c].view
      IN /\ v.slot \in Used /\ claims[v.slot].key = task[c].key
         /\ v.outcome # NoOutcome => outcomes[v.slot] = v.outcome
         /\ task[c].action = "publish" => v.outcome.event = "published"
         /\ task[c].action = "abandon" => /\ v.outcome.event = "abandoned"
                                         /\ v.outcome.reason = task[c].reason
         /\ Events(v) \subseteq records

LEMMA AnswersAreTrue ==
    AnswersHold /\ RecordsBehindAnswers <=> \A c \in Call : AnswerTrue(c)
BY DEF AnswersHold, RecordsBehindAnswers, AnswerTrue

LEMMA TaskKinds ==
    ASSUME NEW c \in Call, task[c] \in Task
    PROVE  /\ task[c].action \in {"reserve", "publish", "abandon"}
           /\ task[c].key \in Key /\ task[c].reason \in STRING
BY TaskAssumption

LEMMA AnswersPersist ==
    ASSUME TypeOK, Grows, NEW c \in Call, Untouched(c), Knows(c), AnswerTrue(c), Backed(c)
    PROVE  AnswerTrue(c)' /\ Backed(c)'
<1> USE DEF Untouched
<1>1. CASE ~answer[c].ok
  BY <1>1 DEF AnswerTrue, Backed
<1>2. CASE answer[c].ok
  <2> DEFINE v == answer[c].view
  <2>1. v.slot \in Used /\ claims[v.slot].key = task[c].key /\ Events(v) \subseteq records
    BY <1>2 DEF AnswerTrue
  <2>2. v.slot \in Slot /\ v.slot \in Used' /\ claims'[v.slot] = claims[v.slot]
    BY <2>1, SlotsKeep
  <2>3. v.outcome # NoOutcome => outcomes'[v.slot] = v.outcome /\ outcomes[v.slot] = v.outcome
    BY <1>2, <2>2 DEF AnswerTrue, Grows
  <2>4. Events(v)' \subseteq records'
    BY <2>1 DEF Events, Grows
  <2>5. AnswerTrue(c)'
    BY <1>2, <2>1, <2>2, <2>3, <2>4 DEF AnswerTrue
  <2>6. task[c].action # "reserve" => v.outcome # NoOutcome
    <3>1. task[c].action \in {"reserve", "publish", "abandon"}
      BY <1>2, TaskKinds DEF Backed, Knows
    <3> QED BY <1>2, <3>1 DEF AnswerTrue, NoOutcome
  <2>7. Backed(c)'
    BY <1>2, <2>2, <2>3, <2>6 DEF Backed, Shown
  <2> QED BY <2>5, <2>7
<1> QED BY <1>1, <1>2

LEMMA LogStays ==
    ASSUME LedgerInvariant, UNCHANGED <<claims, outcomes>>, Grows, TypeOK'
    PROVE  /\ SlotsWellFormed' /\ NamesNeverReissued'
           /\ PublishedWasThere' /\ EventsInTime'
<1>1. SlotsWellFormed' /\ NamesNeverReissued'
  BY DEF LedgerInvariant, SlotsWellFormed, NamesNeverReissued, Used
<1>2. PublishedWasThere'
  <2> SUFFICES ASSUME NEW s \in Slot, outcomes[s].event = "published"
               PROVE  claims[s].name \in bases'[outcomes[s].revision].tree
    BY DEF PublishedWasThere
  <2>1. claims[s].name \in bases[outcomes[s].revision].tree /\ outcomes[s].revision \in 1..Len(bases)
    BY DEF LedgerInvariant, PublishedWasThere, EventsInTime
  <2> QED BY <2>1 DEF Grows
<1>3. EventsInTime'
  <2>1. Len(bases) \in Nat /\ Len(bases') \in Nat
    BY DEF LedgerInvariant, SlotsWellFormed, TypeOK
  <2> QED BY <2>1 DEF LedgerInvariant, EventsInTime, Grows
<1> QED BY <1>1, <1>2, <1>3

LEMMA RequestTypes ==
    ASSUME NEW r \in Request
    PROVE  /\ r.slot \in Slot
           /\ \/ r.kind = "claims" /\ r.event \in Claim
              \/ r.kind = "outcomes" /\ r.event \in Outcome
BY DEF Request, Claim, Outcome

LEMMA FlightStays ==
    ASSUME LedgerInvariant, UNCHANGED <<claims, outcomes>>, Grows,
           NEW r \in flight
    PROVE  /\ r.kind = "claims" => ClaimFits(r)'
           /\ r.kind = "outcomes" => OutcomeFits(r)'
<1>1. r.slot \in Slot
  BY RequestTypes DEF LedgerInvariant, SlotsWellFormed, TypeOK
<1>2. ASSUME r.kind = "claims" PROVE ClaimFits(r)'
  BY <1>1, <1>2 DEF LedgerInvariant, FlightFits, ClaimFits, MayFollow, Used
<1>3. ASSUME r.kind = "outcomes" PROVE OutcomeFits(r)'
  BY <1>1, <1>3 DEF LedgerInvariant, FlightFits, OutcomeFits, Grows, Used
<1> QED BY <1>2, <1>3

(* A step of one call, which may ask for a reference to be created.        *)
LEMMA CallMoves ==
    ASSUME LedgerInvariant, NEW c \in Call, UNCHANGED <<claims, outcomes, bases>>,
           records \subseteq records', phase'[c] # "idle",
           phase[c] # "idle" => task'[c] = task[c],
           \A d \in Call : d # c => Untouched(d),
           \A r \in flight' \ flight : /\ r.kind = "claims" => ClaimFits(r)'
                                       /\ r.kind = "outcomes" => OutcomeFits(r)',
           TypeOK', Knows(c)', AnswerTrue(c)', Backed(c)'
    PROVE  LedgerInvariant'
<1>1. Grows
  BY DEF Grows
<1>2. /\ SlotsWellFormed' /\ NamesNeverReissued'
      /\ PublishedWasThere' /\ EventsInTime'
  BY <1>1, LogStays
<1>3. FlightFits'
  BY <1>1, FlightStays DEF FlightFits
<1>4. \A d \in Call : Knows(d)'
  BY <1>1, <1>2, KnowsPersists DEF LedgerInvariant, SlotsWellFormed
<1>5. \A d \in Call : AnswerTrue(d)' /\ Backed(d)'
  BY <1>1, AnswersPersist, AnswersAreTrue DEF LedgerInvariant, SlotsWellFormed
<1>6. (AnswersHold /\ RecordsBehindAnswers)'
  BY <1>5 DEF AnswersHold, RecordsBehindAnswers, AnswerTrue
<1> QED BY <1>2, <1>3, <1>4, <1>5, <1>6 DEF LedgerInvariant

(* The same for a call that does not answer yet.                           *)
LEMMA Advance ==
    ASSUME LedgerInvariant, NEW c \in Call, UNCHANGED <<claims, outcomes, bases, records, answer>>,
           phase[c] # "done", phase'[c] # "idle",
           phase[c] # "idle" => task'[c] = task[c],
           \A d \in Call : d # c => Untouched(d),
           \A r \in flight' \ flight : /\ r.kind = "claims" => ClaimFits(r)'
                                       /\ r.kind = "outcomes" => OutcomeFits(r)',
           TypeOK', Knows(c)'
    PROVE  LedgerInvariant'
<1>1. ~answer[c].ok /\ answer'[c] = answer[c]
  BY DEF LedgerInvariant, Backed
<1>2. AnswerTrue(c)' /\ Backed(c)'
  BY <1>1 DEF AnswerTrue, Backed
<1> QED BY <1>2, CallMoves

-----------------------------------------------------------------------------
(* Answers.                                                                *)

LEMMA ReturnKeeps ==
    ASSUME LedgerInvariant, NEW c \in Call, NEW from, NEW a \in Answer, Return(c, from, a),
           phase[c] # "idle", UNCHANGED <<log, bases, task>>,
           records \subseteq records',
           records' \subseteq Slot \X {"reserved", "published", "abandoned"},
           AnswerTrue(c)', Backed(c)'
    PROVE  LedgerInvariant'
<1> USE DEF Return, Step
<1>1. TypeOK
  BY DEF LedgerInvariant, SlotsWellFormed
<1>2. /\ phase'[c] = "done" /\ seen'[c] = 0 /\ base'[c] = 1
      /\ \A d \in Call : d # c => Untouched(d)
  BY <1>1 DEF TypeOK, Untouched
<1>3. TypeOK'
  <2>1. /\ phase' \in [Call -> {"idle", "folding", "checking", "claiming", "deciding",
                                "creating", "settling", "done"}]
        /\ seen' \in [Call -> 0..MaxSlot] /\ base' \in [Call -> 1..MaxRevision]
    BY <1>1, BoundsAssumption DEF TypeOK
  <2>2. /\ attempt' \in [Call -> Nat] /\ made' \in [Call -> BOOLEAN]
        /\ built' \in [Call -> Claim \cup Outcome \cup {NoClaim}]
        /\ answer' \in [Call -> Answer]
    BY <1>1 DEF TypeOK
  <2> QED BY <1>1, <2>1, <2>2 DEF TypeOK, log
<1>4. Knows(c)'
  BY <1>1, <1>2 DEF LedgerInvariant, Knows, TypeOK
<1>5. task'[c] = task[c] /\ flight' = flight /\ UNCHANGED <<claims, outcomes, bases>>
  BY DEF log
<1> QED BY <1>2, <1>3, <1>4, <1>5, CallMoves

LEMMA RefuseKeeps ==
    ASSUME LedgerInvariant, NEW c \in Call, NEW from, Refuse(c, from), from # "idle",
           UNCHANGED <<log, bases, task>>
    PROVE  LedgerInvariant'
<1>1. Return(c, from, Refusal) /\ phase[c] # "idle" /\ records' = records
  BY DEF Refuse, Return, Step
<1>2. ~answer'[c].ok
  BY <1>1 DEF Return, Refusal, LedgerInvariant, SlotsWellFormed, TypeOK
<1>3. Refusal \in Answer /\ AnswerTrue(c)' /\ Backed(c)'
  BY <1>2 DEF Answer, AnswerTrue, Backed
<1>4. records' \subseteq Slot \X {"reserved", "published", "abandoned"}
  BY <1>1 DEF LedgerInvariant, SlotsWellFormed, TypeOK
<1> QED BY <1>1, <1>3, <1>4, ReturnKeeps

LEMMA RespondKeeps ==
    ASSUME LedgerInvariant, NEW c \in Call, NEW from, NEW s \in Used, NEW o \in ShownOutcomes(s),
           NEW again \in BOOLEAN, Respond(c, from, s, o, again), from # "idle",
           UNCHANGED <<log, bases, task>>, claims[s].key = task[c].key,
           task[c].action = "publish" => o.event = "published",
           task[c].action = "abandon" => o.event = "abandoned" /\ o.reason = task[c].reason,
           ~again => built[c] = IF task[c].action = "reserve" THEN claims[s] ELSE outcomes[s]
    PROVE  LedgerInvariant'
<1> DEFINE shown == [slot |-> s, outcome |-> o]
           missing == Events(shown) \ records
           told == [ok |-> TRUE, view |-> shown, reused |-> again]
<1>1. PICK landed \in SUBSET missing, posted \in SUBSET missing :
        /\ posted \subseteq landed
        /\ records' = records \cup landed
        /\ Return(c, from, IF AllPosted(posted, missing) THEN told ELSE Refusal)
  BY Zenon DEF Respond
<1>2. TypeOK /\ phase[c] # "idle" /\ s \in Slot /\ o \in {outcomes[s], NoOutcome}
  BY <1>1 DEF LedgerInvariant, SlotsWellFormed, Return, Step, Used, ShownOutcomes
<1>3. shown \in View
  BY <1>2 DEF View, TypeOK
<1>4. Events(shown) \subseteq Slot \X {"reserved", "published", "abandoned"}
  BY <1>3 DEF Events, View, Outcome
<1>5. records \subseteq records' /\ records' \subseteq Slot \X {"reserved", "published", "abandoned"}
  BY <1>1, <1>2, <1>4 DEF TypeOK
<1>6. CASE AllPosted(posted, missing)
  <2>1. Return(c, from, told) /\ told \in Answer
    BY <1>1, <1>3, <1>6 DEF Answer
  <2>2. answer'[c] = told
    BY <1>2, <2>1 DEF Return, TypeOK
  <2>3. Events(shown)' \subseteq records'
    BY <1>1, <1>6 DEF AllPosted, Events
  <2>4. AnswerTrue(c)'
    BY <1>2, <2>2, <2>3 DEF AnswerTrue, Used, log
  <2>5. phase'[c] = "done"
    BY <1>2, <2>1 DEF Return, Step, TypeOK
  <2>6. ~again => built'[c] = built[c]
    BY <1>2, <2>1 DEF Return, TypeOK
  <2>7. Backed(c)'
    BY <2>2, <2>5, <2>6 DEF Backed, Shown, log
  <2> QED BY <1>2, <1>5, <2>1, <2>4, <2>7, ReturnKeeps
<1>7. CASE ~AllPosted(posted, missing)
  <2>1. Return(c, from, Refusal) /\ Refusal \in Answer
    BY <1>1, <1>7 DEF Answer
  <2>2. ~answer'[c].ok
    BY <1>2, <2>1 DEF Return, Refusal, TypeOK
  <2>3. AnswerTrue(c)' /\ Backed(c)'
    BY <2>2 DEF AnswerTrue, Backed
  <2> QED BY <1>2, <1>5, <2>1, <2>3, ReturnKeeps
<1> QED BY <1>6, <1>7

LEMMA GiveUpKeeps ==
    ASSUME LedgerInvariant, NEW c \in Call, GiveUp(c) \/ ClaimRefused(c) \/ CreateUndecided(c)
    PROVE  LedgerInvariant'
BY RefuseKeeps DEF GiveUp, ClaimRefused, CreateUndecided

-----------------------------------------------------------------------------
(* Reading the log.                                                        *)

LEMMA ShownAreUsed ==
    ASSUME TypeOK, NEW m \in 0..MaxSlot, Shows(m)
    PROVE  /\ \A s \in 1..m : s \in Used
           /\ \A k : \A s \in OwnedBy(k, m) : s \in Used /\ claims[s].key = k
BY BoundsAssumption DEF Shows, Used, Slot, OwnedBy

LEMMA StartKeeps ==
    ASSUME LedgerInvariant, NEW c \in Call, Start(c) PROVE LedgerInvariant'
<1> USE DEF Start, Step, log
<1>1. TypeOK
  BY DEF LedgerInvariant, SlotsWellFormed
<1>2. PICK t \in Task : task' = [task EXCEPT ![c] = t]
  OBVIOUS
<1>3. TypeOK'
  BY <1>1, <1>2 DEF TypeOK
<1>4. /\ phase[c] = "idle" /\ phase'[c] = "folding" /\ task'[c] = t
      /\ \A d \in Call : d # c => Untouched(d)
  BY <1>1, <1>2 DEF TypeOK, Untouched
<1>5. Knows(c)'
  BY <1>4 DEF LedgerInvariant, Knows
<1> QED BY <1>3, <1>4, <1>5, Advance

LEMMA ReadBaseFamilyKeeps ==
    ASSUME LedgerInvariant, NEW c \in Call, ReadBaseFamily(c) PROVE LedgerInvariant'
<1> USE DEF ReadBaseFamily, Step, log
<1>1. TypeOK
  BY DEF LedgerInvariant, SlotsWellFormed
<1>2. Len(bases) \in 1..MaxRevision
  BY <1>1 DEF TypeOK
<1>3. TypeOK'
  BY <1>1, <1>2 DEF TypeOK
<1>4. /\ phase[c] = "checking" /\ phase'[c] = "claiming" /\ base'[c] = Len(bases)
      /\ \A d \in Call : d # c => Untouched(d)
  BY <1>1 DEF TypeOK, Untouched
<1>5. Knows(c) /\ HasRead(c)' = HasRead(c) /\ Mine(c)' = Mine(c)
  BY DEF LedgerInvariant, HasRead, Mine, OwnedBy, Used
<1>6. Knows(c)'
  BY <1>2, <1>4, <1>5 DEF Knows
<1> QED BY <1>3, <1>4, <1>6, Advance

LEMMA CreateDecidedKeeps ==
    ASSUME LedgerInvariant, NEW c \in Call, CreateDecided(c) PROVE LedgerInvariant'
<1> USE DEF CreateDecided, Step, log
<1>1. TypeOK
  BY DEF LedgerInvariant, SlotsWellFormed
<1>2. CreatedHere(c) \in BOOLEAN
  BY DEF CreatedHere
<1>3. TypeOK'
  BY <1>1, <1>2 DEF TypeOK
<1>4. /\ phase[c] = "creating" /\ phase'[c] = "settling" /\ made'[c] = CreatedHere(c)
      /\ \A d \in Call : d # c => Untouched(d)
  BY <1>1 DEF TypeOK, Untouched
<1>5. HasRead(c)' = HasRead(c) /\ Mine(c)' = Mine(c) /\ Target(c)' = Target(c)
  BY DEF HasRead, Mine, OwnedBy, Used, Target, TargetSlot
<1>6. built'[c] = IF CreatedHere(c) THEN built[c] ELSE NoClaim
  BY <1>1 DEF TypeOK
<1>7. made'[c] => CreatedHere(c)'
  BY <1>4, <1>5, <1>6 DEF CreatedHere
<1>8. Knows(c)'
  BY <1>4, <1>5, <1>6, <1>7 DEF LedgerInvariant, Knows
<1> QED BY <1>3, <1>4, <1>8, Advance

LEMMA FoldToReserveKeeps ==
    ASSUME LedgerInvariant, NEW c \in Call, FoldToReserve(c) PROVE LedgerInvariant'
<1>1. TypeOK /\ phase[c] = "folding" /\ task[c].action = "reserve"
  BY DEF LedgerInvariant, SlotsWellFormed, FoldToReserve
<1>2. UNCHANGED <<log, bases, task>>
  BY DEF FoldToReserve
<1>3. PICK m \in 0..MaxSlot :
        /\ Shows(m)
        /\ \/ /\ OwnedBy(task[c].key, m) = {}
              /\ Step(c, "folding", "checking")
              /\ seen' = [seen EXCEPT ![c] = m]
              /\ UNCHANGED <<records, base, attempt, built, made, answer>>
           \/ \E s \in OwnedBy(task[c].key, m) : \E o \in ShownOutcomes(s) :
                Respond(c, "folding", s, o, TRUE)
  BY DEF FoldToReserve
<1>4. CASE /\ OwnedBy(task[c].key, m) = {}
           /\ Step(c, "folding", "checking")
           /\ seen' = [seen EXCEPT ![c] = m]
           /\ UNCHANGED <<records, base, attempt, built, made, answer>>
  <2> USE <1>4 DEF Step, log
  <2>1. TypeOK'
    BY <1>1, <1>2 DEF TypeOK
  <2>2. /\ phase'[c] = "checking" /\ seen'[c] = m
        /\ \A d \in Call : d # c => Untouched(d)
    BY <1>1, <1>2 DEF TypeOK, Untouched
  <2>3. HasRead(c)' /\ Mine(c)' = {}
    BY <1>1, <1>2, <1>3, <2>2, ShownAreUsed DEF HasRead, Mine, OwnedBy, Used
  <2>4. Knows(c)'
    BY <1>1, <1>2, <2>2, <2>3 DEF LedgerInvariant, Knows
  <2> QED BY <1>1, <1>2, <2>1, <2>2, <2>4, Advance
<1>5. CASE \E s \in OwnedBy(task[c].key, m) : \E o \in ShownOutcomes(s) :
             Respond(c, "folding", s, o, TRUE)
  <2> PICK s \in OwnedBy(task[c].key, m) :
             \E o \in ShownOutcomes(s) : Respond(c, "folding", s, o, TRUE)
    BY <1>5
  <2> PICK o \in ShownOutcomes(s) : Respond(c, "folding", s, o, TRUE)
    OBVIOUS
  <2>1. s \in Used /\ claims[s].key = task[c].key
    BY <1>1, <1>3, ShownAreUsed
  <2> QED BY <1>1, <1>2, <2>1, RespondKeeps
<1> QED BY <1>3, <1>4, <1>5

(* What a call that has settled made is what a fold shows of its key.      *)
LEMMA MadeIsShown ==
    ASSUME LedgerInvariant, NEW c \in Call, phase[c] = "settling", made[c],
           NEW s \in Used, claims[s].key = task[c].key
    PROVE  built[c] = IF task[c].action = "reserve" THEN claims[s] ELSE outcomes[s]
<1>1. /\ SlotsWellFormed /\ TypeOK /\ Knows(c) /\ Target(c) = built[c]
      /\ Target(c) \notin {NoClaim, NoOutcome}
  BY DEF LedgerInvariant, SlotsWellFormed, Knows, CreatedHere
<1>2. CASE task[c].action = "reserve"
  <2>1. Target(c) = claims[seen[c] + 1] /\ seen[c] + 1 \in Slot
    BY <1>1, <1>2, BoundsAssumption DEF Target, TargetSlot, Knows, TypeOK, Slot
  <2>2. seen[c] + 1 \in Used /\ claims[seen[c] + 1] = built[c]
    BY <1>1, <2>1 DEF Used
  <2>3. claims[seen[c] + 1].key = task[c].key
    BY <1>1, <1>2, <2>2 DEF Knows, Used
  <2>4. s = seen[c] + 1
    BY <1>1, <2>2, <2>3, OneSlot
  <2> QED BY <1>2, <2>2, <2>4
<1>3. CASE task[c].action # "reserve"
  <2>1. HasRead(c) /\ Mine(c) # {}
    BY <1>1, <1>3 DEF Knows
  <2>2. TargetSlot(c) \in Used /\ claims[TargetSlot(c)].key = task[c].key
    BY <1>3, <2>1, TargetIsMine DEF HasRead, Mine, OwnedBy
  <2>3. s = TargetSlot(c)
    BY <1>1, <2>2, OneSlot
  <2> QED BY <1>1, <1>3, <2>3 DEF Target
<1> QED BY <1>2, <1>3

LEMMA RefoldClaimKeeps ==
    ASSUME LedgerInvariant, NEW c \in Call, RefoldClaim(c) PROVE LedgerInvariant'
<1>1. TypeOK /\ phase[c] = "settling" /\ task[c].action = "reserve" /\ made[c] \in BOOLEAN
  BY DEF LedgerInvariant, SlotsWellFormed, TypeOK, RefoldClaim
<1>2. UNCHANGED <<log, bases, task>>
  BY DEF RefoldClaim
<1>3. PICK m \in 0..MaxSlot :
        /\ Shows(m)
        /\ \/ \E s \in OwnedBy(task[c].key, m) : \E o \in ShownOutcomes(s) :
                Respond(c, "settling", s, o, ~made[c])
           \/ /\ OwnedBy(task[c].key, m) = {}
              /\ AttemptsLeft(c)
              /\ Step(c, "settling", "claiming")
              /\ seen' = [seen EXCEPT ![c] = m]
              /\ UNCHANGED <<records, base, attempt, built, made, answer>>
           \/ OwnedBy(task[c].key, m) = {} /\ ~AttemptsLeft(c) /\ Refuse(c, "settling")
  BY DEF RefoldClaim
<1>4. CASE \E s \in OwnedBy(task[c].key, m) : \E o \in ShownOutcomes(s) :
             Respond(c, "settling", s, o, ~made[c])
  <2> PICK s \in OwnedBy(task[c].key, m) :
             \E o \in ShownOutcomes(s) : Respond(c, "settling", s, o, ~made[c])
    BY <1>4
  <2> PICK o \in ShownOutcomes(s) : Respond(c, "settling", s, o, ~made[c])
    OBVIOUS
  <2>1. s \in Used /\ claims[s].key = task[c].key
    BY <1>1, <1>3, ShownAreUsed
  <2>2. made[c] => built[c] = claims[s]
    BY <1>1, <2>1, MadeIsShown
  <2> QED BY <1>1, <1>2, <2>1, <2>2, RespondKeeps
<1>5. CASE /\ OwnedBy(task[c].key, m) = {}
           /\ Step(c, "settling", "claiming")
           /\ seen' = [seen EXCEPT ![c] = m]
           /\ UNCHANGED <<records, base, attempt, built, made, answer>>
  <2> USE <1>5 DEF Step, log
  <2>1. TypeOK'
    BY <1>1, <1>2 DEF TypeOK
  <2>2. /\ phase'[c] = "claiming" /\ seen'[c] = m
        /\ \A d \in Call : d # c => Untouched(d)
    BY <1>1, <1>2 DEF TypeOK, Untouched
  <2>3. HasRead(c)' /\ Mine(c)' = {}
    BY <1>1, <1>2, <1>3, <2>2, ShownAreUsed DEF HasRead, Mine, OwnedBy, Used
  <2>4. Knows(c)'
    BY <1>1, <1>2, <2>2, <2>3 DEF LedgerInvariant, Knows
  <2> QED BY <1>1, <1>2, <2>1, <2>2, <2>4, Advance
<1>6. CASE Refuse(c, "settling")
  BY <1>2, <1>6, RefuseKeeps
<1> QED BY <1>3, <1>4, <1>5, <1>6

LEMMA FoldToTransitionKeeps ==
    ASSUME LedgerInvariant, NEW c \in Call, FoldToTransition(c) PROVE LedgerInvariant'
<1>1. TypeOK /\ phase[c] = "folding" /\ task[c].action # "reserve" /\ task[c] \in Task
  BY DEF LedgerInvariant, SlotsWellFormed, Knows, FoldToTransition
<1>2. UNCHANGED <<log, bases, task>>
  BY DEF FoldToTransition
<1>3. PICK m \in 0..MaxSlot :
        /\ Shows(m)
        /\ \/ OwnedBy(task[c].key, m) = {} /\ Refuse(c, "folding")
           \/ \E s \in OwnedBy(task[c].key, m) : \E o \in ShownOutcomes(s) :
                \/ /\ o = NoOutcome
                   /\ Step(c, "folding", "deciding")
                   /\ seen' = [seen EXCEPT ![c] = m]
                   /\ base' = [base EXCEPT ![c] = Len(bases)]
                   /\ UNCHANGED <<records, attempt, built, made, answer>>
                \/ o # NoOutcome /\ Identical(task[c], o) /\ Respond(c, "folding", s, o, TRUE)
                \/ o # NoOutcome /\ ~Identical(task[c], o) /\ Refuse(c, "folding")
  BY DEF FoldToTransition
<1>4. CASE Refuse(c, "folding")
  BY <1>2, <1>4, RefuseKeeps
<1>5. ASSUME NEW s \in OwnedBy(task[c].key, m), NEW o \in ShownOutcomes(s),
             Identical(task[c], o), Respond(c, "folding", s, o, TRUE)
      PROVE  LedgerInvariant'
  <2>1. s \in Used /\ claims[s].key = task[c].key
    BY <1>1, <1>3, ShownAreUsed
  <2>2. /\ task[c].action = "publish" => o.event = "published"
        /\ task[c].action = "abandon" => o.event = "abandoned" /\ o.reason = task[c].reason
    BY <1>5 DEF Identical
  <2> QED BY <1>1, <1>2, <1>5, <2>1, <2>2, RespondKeeps
<1>6. ASSUME NEW s \in OwnedBy(task[c].key, m),
             Step(c, "folding", "deciding"), seen' = [seen EXCEPT ![c] = m],
             base' = [base EXCEPT ![c] = Len(bases)],
             UNCHANGED <<records, attempt, built, made, answer>>
      PROVE  LedgerInvariant'
  <2> USE <1>6 DEF Step, log
  <2>1. Len(bases) \in 1..MaxRevision /\ Len(bases) \in 1..Len(bases)
    BY <1>1 DEF TypeOK
  <2>2. TypeOK'
    BY <1>1, <1>2, <2>1 DEF TypeOK
  <2>3. /\ phase'[c] = "deciding" /\ seen'[c] = m /\ base'[c] = Len(bases)
        /\ \A d \in Call : d # c => Untouched(d)
    BY <1>1, <1>2 DEF TypeOK, Untouched
  <2>4. HasRead(c)' /\ Mine(c)' # {}
    BY <1>1, <1>2, <1>3, <2>3, ShownAreUsed DEF HasRead, Mine, OwnedBy, Used
  <2>5. Knows(c)'
    BY <1>1, <1>2, <2>1, <2>3, <2>4 DEF Knows
  <2> QED BY <1>1, <1>2, <2>2, <2>3, <2>5, Advance
<1> QED BY <1>3, <1>4, <1>5, <1>6

LEMMA RefoldOutcomeKeeps ==
    ASSUME LedgerInvariant, NEW c \in Call, RefoldOutcome(c) PROVE LedgerInvariant'
<1>1. /\ TypeOK /\ phase[c] = "settling" /\ task[c].action # "reserve" /\ task[c] \in Task
      /\ made[c] \in BOOLEAN
  BY DEF LedgerInvariant, SlotsWellFormed, TypeOK, Knows, RefoldOutcome
<1>2. UNCHANGED <<log, bases, task>>
  BY DEF RefoldOutcome
<1>3. PICK m \in 0..MaxSlot :
        /\ Shows(m)
        /\ \/ OwnedBy(task[c].key, m) = {} /\ Refuse(c, "settling")
           \/ \E s \in OwnedBy(task[c].key, m) : \E o \in ShownOutcomes(s) :
                \/ o # NoOutcome /\ Identical(task[c], o) /\ Respond(c, "settling", s, o, ~made[c])
                \/ (o = NoOutcome \/ ~Identical(task[c], o)) /\ Refuse(c, "settling")
  BY DEF RefoldOutcome
<1>4. CASE Refuse(c, "settling")
  BY <1>2, <1>4, RefuseKeeps
<1>5. ASSUME NEW s \in OwnedBy(task[c].key, m), NEW o \in ShownOutcomes(s),
             Identical(task[c], o), Respond(c, "settling", s, o, ~made[c])
      PROVE  LedgerInvariant'
  <2>1. s \in Used /\ claims[s].key = task[c].key
    BY <1>1, <1>3, ShownAreUsed
  <2>2. /\ task[c].action = "publish" => o.event = "published"
        /\ task[c].action = "abandon" => o.event = "abandoned" /\ o.reason = task[c].reason
    BY <1>5 DEF Identical
  <2>3. made[c] => built[c] = outcomes[s]
    BY <1>1, <2>1, MadeIsShown
  <2> QED BY <1>1, <1>2, <1>5, <2>1, <2>2, <2>3, RespondKeeps
<1> QED BY <1>3, <1>4, <1>5

-----------------------------------------------------------------------------
(* Asking for a reference.                                                 *)

LEMMA AppendOutcomeKeeps ==
    ASSUME LedgerInvariant, NEW c \in Call, NEW event \in Outcome, AppendOutcome(c, event),
           UNCHANGED <<bases, task, base, attempt>>,
           event.event = "published" =>
             /\ event.revision \in 1..Len(bases)
             /\ claims[TargetSlot(c)].name \in bases[event.revision].tree
    PROVE  LedgerInvariant'
<1> DEFINE r == [kind |-> "outcomes", slot |-> TargetSlot(c), event |-> event]
<1>1. /\ TypeOK /\ phase[c] = "deciding" /\ flight' = Sent(r)
      /\ UNCHANGED <<claims, outcomes, records, seen, made, answer>>
  BY DEF LedgerInvariant, SlotsWellFormed, AppendOutcome, Step
<1>2. HasRead(c) /\ Mine(c) # {} /\ task[c].action # "reserve" /\ base[c] \in 1..Len(bases)
      /\ task[c] \in Task
  BY <1>1 DEF LedgerInvariant, Knows
<1>3. /\ TargetSlot(c) \in Used /\ TargetSlot(c) \in Slot
      /\ claims[TargetSlot(c)].key = task[c].key
  BY <1>2, TargetIsMine DEF HasRead, Mine, OwnedBy, Used
<1>4. r \in Request /\ flight' \subseteq flight \cup {r}
  BY <1>1, <1>3 DEF Request, Sent
<1>5. TypeOK'
  <2>1. phase' \in [Call -> {"idle", "folding", "checking", "claiming", "deciding",
                             "creating", "settling", "done"}]
    BY <1>1 DEF TypeOK, AppendOutcome, Step
  <2>2. flight' \subseteq Request
    BY <1>1, <1>4 DEF TypeOK
  <2>3. built' \in [Call -> Claim \cup Outcome \cup {NoClaim}]
    BY <1>1 DEF TypeOK, AppendOutcome
  <2> HIDE DEF r
  <2> QED BY <1>1, <2>1, <2>2, <2>3 DEF TypeOK
<1>6. phase'[c] = "creating" /\ \A d \in Call : d # c => Untouched(d)
  BY <1>1 DEF TypeOK, AppendOutcome, Step, Untouched
<1>7. ASSUME NEW q \in flight' \ flight
      PROVE  q.kind = "outcomes" /\ OutcomeFits(q)'
  <2>1. q = r /\ outcomes[r.slot] = NoOutcome
    BY <1>1, <1>4, <1>7 DEF Sent
  <2> QED BY <1>1, <1>2, <1>3, <1>6, <2>1 DEF OutcomeFits, Used
<1>8. Knows(c)'
  <2>1. HasRead(c)' = HasRead(c) /\ Mine(c)' = Mine(c)
    BY <1>1 DEF HasRead, Mine, OwnedBy, Used
  <2> QED BY <1>1, <1>2, <1>6, <2>1 DEF Knows
<1> HIDE DEF r
<1> QED BY <1>1, <1>5, <1>6, <1>7, <1>8, Advance

LEMMA DecidePublicationKeeps ==
    ASSUME LedgerInvariant, NEW c \in Call, DecidePublication(c) PROVE LedgerInvariant'
<1>1. /\ TypeOK /\ phase[c] = "deciding" /\ base[c] \in 1..Len(bases) /\ base[c] \in 1..MaxRevision
      /\ UNCHANGED <<bases, task>>
  BY DEF LedgerInvariant, SlotsWellFormed, Knows, TypeOK, DecidePublication
<1>2. CASE /\ ArtifactsAt(TargetSlot(c), base[c])
           /\ base[c] = Len(bases)
           /\ \E second \in Second :
                AppendOutcome(c, [event |-> "published", revision |-> base[c], at |-> second])
           /\ UNCHANGED <<base, attempt>>
  <2> PICK second \in Second :
             AppendOutcome(c, [event |-> "published", revision |-> base[c], at |-> second])
    BY <1>2
  <2> DEFINE event == [event |-> "published", revision |-> base[c], at |-> second]
  <2>1. event \in Outcome
    BY <1>1 DEF Outcome
  <2>2. /\ event.revision \in 1..Len(bases)
        /\ claims[TargetSlot(c)].name \in bases[event.revision].tree
    BY <1>1, <1>2 DEF ArtifactsAt
  <2>3. AppendOutcome(c, event) /\ UNCHANGED <<bases, task, base, attempt>>
    BY <1>1, <1>2
  <2> HIDE DEF event
  <2> QED BY <2>1, <2>2, <2>3, AppendOutcomeKeeps
<1>3. CASE /\ base' = [base EXCEPT ![c] = Len(bases)]
           /\ attempt' = [attempt EXCEPT ![c] = @ + 1]
           /\ UNCHANGED <<log, records, phase, seen, built, made, answer>>
  <2> USE <1>3 DEF log
  <2>1. Len(bases) \in 1..MaxRevision
    BY <1>1 DEF TypeOK
  <2>2. TypeOK'
    BY <1>1, <2>1 DEF TypeOK
  <2>3. base'[c] = Len(bases) /\ \A d \in Call : d # c => Untouched(d)
    BY <1>1 DEF TypeOK, Untouched
  <2>4. HasRead(c)' = HasRead(c) /\ Mine(c)' = Mine(c)
    BY <1>1 DEF HasRead, Mine, OwnedBy, Used
  <2>5. Knows(c)'
    BY <1>1, <2>1, <2>3, <2>4 DEF LedgerInvariant, Knows
  <2> QED BY <1>1, <2>2, <2>3, <2>5, Advance
<1>4. CASE Refuse(c, "deciding") /\ UNCHANGED log
  BY <1>1, <1>4, RefuseKeeps
<1> QED BY <1>2, <1>3, <1>4 DEF DecidePublication

LEMMA DecideAbandonmentKeeps ==
    ASSUME LedgerInvariant, NEW c \in Call, DecideAbandonment(c) PROVE LedgerInvariant'
<1> PICK second \in Second :
           AppendOutcome(c, [event |-> "abandoned", reason |-> task[c].reason, at |-> second])
  BY DEF DecideAbandonment
<1> DEFINE event == [event |-> "abandoned", reason |-> task[c].reason, at |-> second]
<1>1. AppendOutcome(c, event) /\ UNCHANGED <<bases, task, base, attempt>>
  BY DEF DecideAbandonment
<1>2. task[c].reason \in STRING
  BY <1>1, TaskKinds DEF AppendOutcome, Step, LedgerInvariant, Knows
<1>3. event \in Outcome /\ event.event # "published"
  BY <1>2 DEF Outcome
<1> HIDE DEF event
<1> QED BY <1>1, <1>3, AppendOutcomeKeeps

(* A claim worked out from slots 1..m may follow them.                     *)
LEMMA ClaimMayFollow ==
    ASSUME LedgerInvariant, NEW c \in Call, phase[c] = "claiming", Claimable(c),
           NEW second \in Second
    PROVE  /\ ClaimRequest(c, second) \in Request
           /\ ClaimRequest(c, second).event.key = task[c].key
           /\ ClaimRequest(c, second).kind = "claims" /\ ClaimRequest(c, second).slot = seen[c] + 1
           /\ MayFollow(ClaimRequest(c, second).event.key, ClaimRequest(c, second).event.sequence,
                        ClaimRequest(c, second).event.name, seen[c])
<1> DEFINE family == bases[base[c]].family
           n == NextSequence(family, seen[c])
           name == Render(family, n)
<1>1. /\ TypeOK /\ SlotsWellFormed /\ HasRead(c) /\ Mine(c) = {} /\ task[c] \in Task
  BY DEF LedgerInvariant, SlotsWellFormed, Knows
<1>2. n \in Sequence /\ name \in Name /\ seen[c] + 1 \in Slot /\ seen[c] \in Nat
  BY <1>1, BoundsAssumption DEF Claimable, Renderable, TypeOK, Slot
<1>3. task[c].key \in Key
  BY <1>1, TaskKinds
<1>4. ClaimRequest(c, second) = [kind |-> "claims", slot |-> seen[c] + 1,
         event |-> [key |-> task[c].key, sequence |-> n, name |-> name,
                   base |-> base[c], at |-> second]]
  BY DEF ClaimRequest
<1>5. ASSUME NEW s \in 1..seen[c]
      PROVE  /\ s \in Used /\ claims[s].key # task[c].key
             /\ claims[s].sequence < n /\ claims[s].name # name
  <2>1. s \in Used /\ seen[c] \in Used /\ seen[c] # 0
    BY <1>1, <1>2 DEF HasRead
  <2>2. claims[s].key # task[c].key
    BY <1>1, <1>5 DEF Mine, OwnedBy
  <2>3. claims[s].name # name
    BY <1>5 DEF Claimable, Collides
  <2>4. claims[s] \in Claim /\ claims[seen[c]] \in Claim
    BY <1>1, <2>1 DEF TypeOK, Used
  <2>5. claims[s].sequence \in Nat /\ claims[seen[c]].sequence \in Nat
    BY <2>4, BoundsAssumption DEF Claim, Sequence
  <2>6. claims[s].sequence <= claims[seen[c]].sequence
    <3>1. CASE s = seen[c]
      BY <2>5, <3>1
    <3>2. CASE s # seen[c]
      BY <1>1, <1>2, <2>1, <2>5, <3>2 DEF SlotsWellFormed
    <3> QED BY <3>1, <3>2
  <2>7. claims[seen[c]].sequence < n
    <3>1. Highest(seen[c]) = claims[seen[c]].sequence
      BY <2>1 DEF Highest
    <3>2. base[c] \in 1..Len(bases) /\ bases \in Seq(Base)
      BY <1>1 DEF LedgerInvariant, Knows, TypeOK
    <3>3. bases[base[c]] \in Base
      BY <3>2
    <3>4. family.floor \in Nat
      BY <3>3, FamilyAssumption DEF Base
    <3> QED BY <2>5, <3>1, <3>4 DEF NextSequence
  <2> QED BY <1>2, <2>1, <2>2, <2>3, <2>5, <2>6, <2>7, BoundsAssumption DEF Sequence
<1>6. MayFollow(task[c].key, n, name, seen[c])
  BY <1>5 DEF MayFollow
<1> HIDE DEF n, name
<1>7. base[c] \in 1..MaxRevision
  BY <1>1 DEF TypeOK
<1>8. ClaimRequest(c, second) \in Request
  BY <1>2, <1>3, <1>4, <1>7 DEF Request, Claim
<1> QED BY <1>4, <1>6, <1>8

LEMMA ClaimNextKeeps ==
    ASSUME LedgerInvariant, NEW c \in Call, ClaimNext(c) PROVE LedgerInvariant'
<1> PICK second \in Second : /\ flight' = Sent(ClaimRequest(c, second))
                             /\ built' = [built EXCEPT ![c] = ClaimRequest(c, second).event]
  BY DEF ClaimNext
<1> DEFINE r == ClaimRequest(c, second)
<1>1. /\ TypeOK /\ phase[c] = "claiming" /\ Claimable(c) /\ flight' = Sent(r)
      /\ built' = [built EXCEPT ![c] = r.event]
      /\ UNCHANGED <<claims, outcomes, bases, records, task, seen, base, made, answer>>
  BY DEF LedgerInvariant, SlotsWellFormed, ClaimNext, Step
<1>2. /\ r \in Request /\ r.event.key = task[c].key
      /\ r.kind = "claims" /\ r.slot = seen[c] + 1
      /\ MayFollow(r.event.key, r.event.sequence, r.event.name, seen[c])
  BY <1>1, ClaimMayFollow
<1> HIDE DEF r
<1>3. flight' \subseteq flight \cup {r}
  BY <1>1 DEF Sent
<1>4. TypeOK'
  <2>1. /\ phase' \in [Call -> {"idle", "folding", "checking", "claiming", "deciding",
                                "creating", "settling", "done"}]
        /\ attempt' \in [Call -> Nat]
    BY <1>1 DEF TypeOK, ClaimNext, Step
  <2>2. flight' \subseteq Request
    BY <1>1, <1>2, <1>3 DEF TypeOK
  <2>3. built' \in [Call -> Claim \cup Outcome \cup {NoClaim}]
    BY <1>1, <1>2, RequestTypes DEF TypeOK
  <2> QED BY <1>1, <2>1, <2>2, <2>3 DEF TypeOK
<1>5. phase'[c] = "creating" /\ \A d \in Call : d # c => Untouched(d)
  BY <1>1 DEF TypeOK, ClaimNext, Step, Untouched
<1>6. task[c].action = "reserve" /\ HasRead(c) /\ seen[c] < MaxSlot /\ seen[c] \in Nat
  BY <1>1 DEF LedgerInvariant, Knows, Claimable, TypeOK
<1>7. ASSUME NEW q \in flight' \ flight
      PROVE  q.kind = "claims" /\ ClaimFits(q)'
  <2>1. q = r /\ claims[r.slot] = NoClaim
    BY <1>1, <1>2, <1>3, <1>7 DEF Sent
  <2>2. r.slot - 1 = seen[c]
    BY <1>2, <1>6
  <2> QED BY <1>1, <1>2, <1>5, <1>6, <2>1, <2>2 DEF ClaimFits, MayFollow, Used
<1>8. Knows(c)'
  <2>1. HasRead(c)' = HasRead(c)
    BY <1>1 DEF HasRead, Used
  <2>2. built'[c].key = task[c].key
    BY <1>1, <1>2 DEF TypeOK
  <2> QED BY <1>1, <1>5, <1>6, <2>1, <2>2 DEF LedgerInvariant, Knows
<1> QED BY <1>1, <1>4, <1>5, <1>7, <1>8, Advance

-----------------------------------------------------------------------------
(* GitHub and the base branch.                                             *)

LEMMA WorldMoves ==
    ASSUME LedgerInvariant, Grows, \A d \in Call : Untouched(d),
           SlotsWellFormed', NamesNeverReissued', FlightFits',
           PublishedWasThere', EventsInTime'
    PROVE  LedgerInvariant'
<1>1. \A d \in Call : Knows(d)'
  BY KnowsPersists DEF LedgerInvariant, SlotsWellFormed
<1>2. \A d \in Call : AnswerTrue(d)' /\ Backed(d)'
  BY AnswersPersist, AnswersAreTrue DEF LedgerInvariant, SlotsWellFormed
<1>3. (AnswersHold /\ RecordsBehindAnswers)'
  BY <1>2 DEF AnswersHold, RecordsBehindAnswers, AnswerTrue
<1> QED BY <1>1, <1>2, <1>3 DEF LedgerInvariant

LEMMA ApplyClaimKeeps ==
    ASSUME LedgerInvariant, NEW r \in flight, ApplyClaim(r) PROVE LedgerInvariant'
<1> USE DEF ApplyClaim
<1>1. /\ TypeOK /\ SlotsWellFormed /\ r.kind = "claims" /\ ClaimFits(r) /\ r \in Request
      /\ flight' \subseteq flight
  BY DEF LedgerInvariant, SlotsWellFormed, TypeOK, FlightFits, Others
<1>2. r.slot \in Slot /\ r.event \in Claim
  BY <1>1, RequestTypes
<1>3. claims' = [claims EXCEPT ![r.slot] = r.event] /\ claims[r.slot] = NoClaim
  BY <1>1 DEF ClaimFits
<1>4. /\ claims'[r.slot] = r.event /\ r.event # NoClaim
      /\ \A s \in Slot : s # r.slot => claims'[s] = claims[s]
  BY <1>1, <1>2, <1>3, ClaimsAreClaims DEF TypeOK
<1>5. Grows
  BY <1>3, <1>4 DEF Grows
<1>6. \A d \in Call : Untouched(d)
  BY DEF Untouched
<1>7. r.slot \notin Used /\ Used' = Used \cup {r.slot}
  BY <1>2, <1>3, <1>4 DEF Used
<1>8. \A s \in Used : s < r.slot /\ s \in Slot
  BY <1>1, <1>2, <1>7 DEF SlotsWellFormed, Used, Slot
<1>9. \A s \in Slot : s < r.slot => s \in Used /\ claims[s].key # r.event.key
           /\ claims[s].sequence < r.event.sequence /\ claims[s].name # r.event.name
  BY <1>1, <1>2 DEF ClaimFits, MayFollow, Slot
<1>10. TypeOK'
  <2>1. claims' \in [Slot -> Claim \cup {NoClaim}]
    BY <1>1, <1>2 DEF TypeOK
  <2> QED BY <1>1, <2>1 DEF TypeOK
<1>11. SlotsWellFormed'
  <2>1. \A s \in Used', q \in Slot : q < s => q \in Used'
    BY <1>1, <1>7, <1>9 DEF SlotsWellFormed
  <2>2. \A s, q \in Used' : q < s => /\ claims'[q].sequence < claims'[s].sequence
                                    /\ claims'[q].key # claims'[s].key
    <3> TAKE s, q \in Used'
    <3> HAVE q < s
    <3>1. CASE s = r.slot
      <4>1. q \in Used /\ q \in Slot /\ q # r.slot /\ q < r.slot
        BY <1>2, <1>7, <1>8, <3>1 DEF Slot
      <4> QED BY <1>4, <1>9, <3>1, <4>1
    <3>2. CASE s # r.slot
      <4>1. s \in Used /\ q \in Used /\ q # r.slot
        BY <1>2, <1>7, <1>8, <3>2 DEF Slot
      <4> QED BY <1>1, <1>4, <1>8, <4>1 DEF SlotsWellFormed
    <3> QED BY <3>1, <3>2
  <2>3. \A s \in Slot : outcomes'[s] # NoOutcome => s \in Used'
    BY <1>1, <1>7 DEF SlotsWellFormed
  <2> QED BY <1>10, <2>1, <2>2, <2>3 DEF SlotsWellFormed
<1>12. NamesNeverReissued'
  BY <1>4, <1>7, <1>8, <1>9 DEF LedgerInvariant, NamesNeverReissued
<1>13. FlightFits'
  <2> SUFFICES ASSUME NEW q \in flight'
               PROVE  /\ q.kind = "claims" => ClaimFits(q)'
                      /\ q.kind = "outcomes" => OutcomeFits(q)'
    BY DEF FlightFits
  <2>1. q \in flight /\ (q.kind = "claims" => q.slot # r.slot)
    BY <1>1 DEF Others
  <2>2. q \in Request /\ q.slot \in Slot
    BY <1>1, <2>1, RequestTypes DEF TypeOK
  <2>3. q.kind # "claims"
    <3> SUFFICES ASSUME q.kind = "claims" PROVE FALSE
      OBVIOUS
    <3>1. ClaimFits(q)
      BY <2>1 DEF LedgerInvariant, FlightFits
    <3>2. q.slot \notin Used /\ r.slot \notin Used
      BY <1>7, <3>1 DEF ClaimFits, Used
    <3>3. CASE q.slot < r.slot
      BY <1>9, <2>2, <3>2, <3>3
    <3>4. CASE r.slot < q.slot
      BY <1>2, <2>2, <3>1, <3>2, <3>4 DEF ClaimFits, MayFollow, Slot
    <3> QED BY <1>2, <2>1, <2>2, <3>3, <3>4 DEF Slot
  <2>4. ASSUME q.kind = "outcomes" PROVE OutcomeFits(q)'
    <3>1. OutcomeFits(q) /\ q.slot # r.slot
      BY <1>7, <2>1, <2>4 DEF LedgerInvariant, FlightFits, OutcomeFits
    <3> QED BY <1>4, <1>7, <2>2, <3>1 DEF OutcomeFits
  <2> QED BY <2>3, <2>4
<1>14. PublishedWasThere' /\ EventsInTime'
  <2>1. \A s \in Slot : outcomes[s].event = "published" => claims'[s] = claims[s]
    BY <1>1, <1>4, <1>7 DEF SlotsWellFormed, NoOutcome
  <2> QED BY <2>1 DEF LedgerInvariant, PublishedWasThere, EventsInTime
<1> QED BY <1>5, <1>6, <1>11, <1>12, <1>13, <1>14, WorldMoves

LEMMA ApplyOutcomeKeeps ==
    ASSUME LedgerInvariant, NEW r \in flight, ApplyOutcome(r) PROVE LedgerInvariant'
<1> USE DEF ApplyOutcome
<1>1. /\ TypeOK /\ SlotsWellFormed /\ r.kind = "outcomes" /\ OutcomeFits(r) /\ r \in Request
      /\ flight' \subseteq flight
  BY DEF LedgerInvariant, SlotsWellFormed, TypeOK, FlightFits, Others
<1>2. r.slot \in Slot /\ r.event \in Outcome
  BY <1>1, RequestTypes
<1>3. outcomes' = [outcomes EXCEPT ![r.slot] = r.event] /\ outcomes[r.slot] = NoOutcome
  BY <1>1 DEF OutcomeFits
<1>4. /\ outcomes'[r.slot] = r.event
      /\ \A s \in Slot : s # r.slot => outcomes'[s] = outcomes[s]
  BY <1>1, <1>2, <1>3 DEF TypeOK
<1>5. Grows
  BY <1>3, <1>4 DEF Grows
<1>6. \A d \in Call : Untouched(d)
  BY DEF Untouched
<1>7. Used' = Used /\ r.slot \in Used
  BY <1>1 DEF Used, OutcomeFits
<1>8. TypeOK'
  <2>1. outcomes' \in [Slot -> Outcome \cup {NoOutcome}]
    BY <1>1, <1>2 DEF TypeOK
  <2> QED BY <1>1, <2>1 DEF TypeOK
<1>9. SlotsWellFormed' /\ NamesNeverReissued'
  BY <1>1, <1>4, <1>7, <1>8 DEF LedgerInvariant, SlotsWellFormed, NamesNeverReissued
<1>10. FlightFits'
  <2> SUFFICES ASSUME NEW q \in flight'
               PROVE  /\ q.kind = "claims" => ClaimFits(q)'
                      /\ q.kind = "outcomes" => OutcomeFits(q)'
    BY DEF FlightFits
  <2>1. q \in flight /\ (q.kind = "outcomes" => q.slot # r.slot) /\ q.slot \in Slot
    BY <1>1, RequestTypes DEF Others, TypeOK
  <2>2. ASSUME q.kind = "claims" PROVE ClaimFits(q)'
    BY <1>7, <2>1, <2>2 DEF LedgerInvariant, FlightFits, ClaimFits, MayFollow
  <2>3. ASSUME q.kind = "outcomes" PROVE OutcomeFits(q)'
    BY <1>4, <1>7, <2>1, <2>3 DEF LedgerInvariant, FlightFits, OutcomeFits
  <2> QED BY <2>2, <2>3
<1>11. PublishedWasThere' /\ EventsInTime'
  BY <1>1, <1>4 DEF LedgerInvariant, PublishedWasThere, EventsInTime, OutcomeFits
<1> QED BY <1>5, <1>6, <1>9, <1>10, <1>11, WorldMoves

LEMMA PushKeeps ==
    ASSUME LedgerInvariant, Push PROVE LedgerInvariant'
<1>1. TypeOK /\ UNCHANGED <<claims, outcomes, flight, records, phase, task, seen, base,
                            attempt, built, made, answer>>
  BY DEF LedgerInvariant, SlotsWellFormed, Push
<1>2. Len(bases) \in 1..MaxRevision /\ bases[Len(bases)] \in Base /\ Len(bases) < MaxRevision
  BY <1>1 DEF TypeOK, Push
<1>3. PICK b \in Base : bases' = Append(bases, b)
  <2> DEFINE latest == bases[Len(bases)]
  <2>1. CASE \E n \in Name : bases' = Append(bases, [latest EXCEPT !.tree =
                                IF n \in @ THEN @ \ {n} ELSE @ \cup {n}])
    <3>1. PICK n \in Name : bases' = Append(bases, [latest EXCEPT !.tree =
                                IF n \in @ THEN @ \ {n} ELSE @ \cup {n}])
      BY <2>1
    <3>2. [latest EXCEPT !.tree = IF n \in @ THEN @ \ {n} ELSE @ \cup {n}] \in Base
      BY <1>2 DEF Base
    <3> QED BY <3>1, <3>2
  <2>2. CASE \E f \in Family \ {latest.family} :
               bases' = Append(bases, [latest EXCEPT !.family = f])
    <3>1. PICK f \in Family : bases' = Append(bases, [latest EXCEPT !.family = f])
      BY <2>2
    <3>2. [latest EXCEPT !.family = f] \in Base
      BY <1>2 DEF Base
    <3> QED BY <3>1, <3>2
  <2> QED BY <2>1, <2>2 DEF Push
<1>4. /\ bases' \in Seq(Base) /\ Len(bases') = Len(bases) + 1
      /\ \A i \in 1..Len(bases) : bases'[i] = bases[i]
  BY <1>1, <1>3 DEF TypeOK
<1>5. Grows
  BY <1>1, <1>2, <1>4 DEF Grows
<1>6. TypeOK'
  <2>1. Len(bases') \in 1..MaxRevision
    BY <1>2, <1>4, BoundsAssumption
  <2> QED BY <1>1, <1>4, <2>1 DEF TypeOK
<1>7. /\ SlotsWellFormed' /\ NamesNeverReissued'
      /\ PublishedWasThere' /\ EventsInTime'
  BY <1>1, <1>5, <1>6, LogStays
<1>8. FlightFits'
  BY <1>1, <1>5, FlightStays DEF FlightFits
<1>9. \A d \in Call : Untouched(d)
  BY <1>1 DEF Untouched
<1> QED BY <1>5, <1>7, <1>8, <1>9, WorldMoves

LEMMA StutterKeeps ==
    ASSUME LedgerInvariant, UNCHANGED vars PROVE LedgerInvariant'
<1> USE DEF vars, log
<1>1. Grows /\ \A d \in Call : Untouched(d)
  BY DEF Grows, Untouched
<1>2. TypeOK'
  BY DEF LedgerInvariant, SlotsWellFormed, TypeOK
<1>3. /\ SlotsWellFormed' /\ NamesNeverReissued'
      /\ PublishedWasThere' /\ EventsInTime'
  BY <1>1, <1>2, LogStays
<1>4. FlightFits'
  BY <1>1, FlightStays DEF FlightFits
<1> QED BY <1>1, <1>3, <1>4, WorldMoves

-----------------------------------------------------------------------------
(* The fold.  Its value on each prefix follows by induction on the slots,  *)
(* stated about a set of numbers: a hole in the set would make             *)
(* n |-> n + 1 an injection of the numbers below it into fewer.            *)

LEMMA SetInduction ==
  ASSUME NEW P, 0 \in P, \A n \in Nat : n \in P => n + 1 \in P
  PROVE  Nat \subseteq P
<1> SUFFICES ASSUME NEW m \in Nat, m \notin P PROVE FALSE
  OBVIOUS
<1> DEFINE A == P \cap (0..m)
           f == [n \in A |-> n + 1]
<1>1. IsFiniteSet(A) /\ Cardinality(A) \in Nat /\ 0 \in A
  <2>1. IsFiniteSet(0..m)
    BY FS_Interval
  <2>2. IsFiniteSet(A)
    BY <2>1, FS_Subset
  <2> QED BY <2>2, FS_CardinalityType
<1>2. IsFiniteSet(A \ {0}) /\ Cardinality(A \ {0}) = Cardinality(A) - 1
  BY <1>1, FS_RemoveElement
<1>3. f \in Injection(A, A \ {0})
  <2>1. \A n \in A : n \in Nat /\ n + 1 \in A \ {0}
    BY DEF A
  <2> QED BY <2>1 DEF Injection, IsInjective
<1>4. Cardinality(A) <= Cardinality(A \ {0})
  BY <1>2, <1>3, FS_Injection
<1> QED BY <1>1, <1>2, <1>4

(* What a fold makes of the first s slots of a log it accepts.             *)
Accepted(s) ==
    [ok |-> TRUE, highest |-> Highest(s), identities |-> {claims[r].key : r \in 1..s}]

(* Each claim follows those before it.                                     *)
LEMMA ClaimExtends ==
  ASSUME SlotsWellFormed, NEW m \in 0..MaxSlot, \A s \in 1..m : claims[s] # NoClaim, NEW s \in 1..m
  PROVE  Extend(Accepted(s - 1), s) = Accepted(s)
<1>1. /\ m \in Nat /\ MaxSlot \in Nat /\ s \in Nat /\ s >= 1 /\ s <= m /\ m <= MaxSlot
      /\ claims[s] # NoClaim
  BY BoundsAssumption
<1>2. \A r \in 1..s : r \in Used /\ claims[r].sequence \in Nat \ {0}
  <2>1. \A r \in 1..s : r \in Used /\ claims[r] \in Claim
    BY <1>1 DEF Used, Slot, SlotsWellFormed, TypeOK
  <2> QED BY <2>1 DEF Claim, Sequence
<1>3. \A r \in 1..(s - 1) : /\ claims[r].sequence < claims[s].sequence
                            /\ claims[r].key # claims[s].key
  <2>1. \A r \in 1..(s - 1) : r \in Used /\ s \in Used /\ r < s
    BY <1>1, <1>2
  <2> QED BY <2>1 DEF SlotsWellFormed
<1>4. claims[s].sequence > Highest(s - 1)
  <2>1. CASE s = 1
    BY <1>2, <2>1, <1>1 DEF Highest
  <2>2. CASE s # 1
    <3>1. s - 1 \in 1..(s - 1) /\ s \in 1..s /\ s - 1 \in 1..s /\ s - 1 # 0
      BY <1>1, <2>2
    <3>2. Highest(s - 1) = claims[s - 1].sequence
      BY <3>1 DEF Highest
    <3>3. claims[s - 1].sequence < claims[s].sequence
      BY <1>3, <3>1
    <3>4. claims[s - 1].sequence \in Nat /\ claims[s].sequence \in Nat
      BY <1>2, <3>1
    <3> QED BY <3>2, <3>3, <3>4
  <2> QED BY <2>1, <2>2
<1>5. claims[s].key \notin {claims[r].key : r \in 1..(s - 1)}
  BY <1>3
<1>6. {claims[r].key : r \in 1..(s - 1)} \cup {claims[s].key} = {claims[r].key : r \in 1..s}
  <2>1. 1..s = (1..(s - 1)) \cup {s}
    BY <1>1
  <2> QED BY <2>1
<1>7. Highest(s) = claims[s].sequence
  BY <1>1 DEF Highest
<1> QED BY <1>1, <1>4, <1>5, <1>6, <1>7 DEF Extend, Accepted

(* foldReleaseLedger accepts any prefix of a well-formed log, and reports  *)
(* of it what the calls use.                                               *)
LEMMA FoldReads ==
  ASSUME SlotsWellFormed, NEW m \in 0..MaxSlot, \A s \in 1..m : claims[s] # NoClaim
  PROVE  Fold(m) = Accepted(m)
<1> DEFINE Empty == [ok |-> TRUE, highest |-> 0, identities |-> {}]
           IsFold(f) == f = [s \in 0..m |-> IF s = 0 THEN Empty ELSE Extend(f[s - 1], s)]
           f == CHOOSE f : IsFold(f)
<1>1. m \in Nat
  BY BoundsAssumption
<1>2. Accepted(0) = Empty
  <2>1. {claims[r].key : r \in 1..0} = {}
    OBVIOUS
  <2> QED BY <2>1 DEF Accepted, Highest
<1>3. IsFold([s \in 0..m |-> Accepted(s)])
  <2> DEFINE g == [s \in 0..m |-> Accepted(s)]
  <2>1. ASSUME NEW s \in 0..m
        PROVE  g[s] = IF s = 0 THEN Empty ELSE Extend(g[s - 1], s)
    <3>1. CASE s = 0
      BY <1>2, <3>1
    <3>2. CASE s # 0
      <4>1. s \in 1..m /\ s - 1 \in 0..m
        BY <1>1, <3>2
      <4>2. g[s] = Accepted(s) /\ g[s - 1] = Accepted(s - 1)
        BY <4>1
      <4>3. Extend(Accepted(s - 1), s) = Accepted(s)
        BY <4>1, ClaimExtends
      <4> QED BY <3>2, <4>2, <4>3
    <3> QED BY <3>1, <3>2
  <2> HIDE DEF Empty
  <2> QED BY <2>1
<1>4. IsFold(f)
  <2> HIDE DEF IsFold
  <2> QED BY <1>3
<1>5. Fold(m) = f[m]
  BY DEF Fold
<1> HIDE DEF f
<1> DEFINE P == {n \in Nat : n <= m => f[n] = Accepted(n)}
<1>6. 0 \in P
  BY <1>1, <1>2, <1>4
<1>7. ASSUME NEW n \in Nat, n \in P PROVE n + 1 \in P
  <2> SUFFICES ASSUME n + 1 <= m PROVE f[n + 1] = Accepted(n + 1)
    OBVIOUS
  <2>1. n + 1 \in 1..m /\ n + 1 \in 0..m /\ n + 1 # 0 /\ (n + 1) - 1 = n /\ n <= m
    BY <1>1
  <2>2. f[n] = Accepted(n)
    BY <1>7, <2>1
  <2>3. f[n + 1] = Extend(f[n], n + 1)
    BY <1>4, <2>1
  <2>4. Extend(Accepted((n + 1) - 1), n + 1) = Accepted(n + 1)
    BY <2>1, ClaimExtends
  <2> QED BY <2>1, <2>2, <2>3, <2>4
<1>8. m \in P
  <2> HIDE DEF P
  <2> QED BY <1>1, <1>6, <1>7, SetInduction
<1> QED BY <1>1, <1>5, <1>8

LEMMA FoldAcceptsLog == SlotsWellFormed => FoldAccepts
<1> SUFFICES ASSUME SlotsWellFormed, NEW m \in 0..MaxSlot, Shows(m)
             PROVE  Fold(m) = Accepted(m)
  BY DEF FoldAccepts, Accepted
<1> QED BY FoldReads DEF Shows

-----------------------------------------------------------------------------
LEMMA InvariantInit == Init => LedgerInvariant
<1> SUFFICES ASSUME Init PROVE LedgerInvariant
  OBVIOUS
<1>1. /\ \A s \in Slot : claims[s] = NoClaim /\ outcomes[s] = NoOutcome
      /\ Used = {}
      /\ \A c \in Call : /\ phase[c] = "idle" /\ seen[c] = 0 /\ base[c] = 1 /\ ~answer[c].ok
  BY DEF Init, Used, Refusal
<1>2. bases \in Seq(Base) /\ Len(bases) = 1
  <2>1. [family |-> FirstFamily, tree |-> {}] \in Base
    BY FamilyAssumption DEF Base
  <2> QED BY <2>1 DEF Init
<1>3. TypeOK
  <2>1. seen \in [Call -> 0..MaxSlot] /\ base \in [Call -> 1..MaxRevision]
        /\ attempt \in [Call -> Nat] /\ Len(bases) \in 1..MaxRevision
    BY <1>2, BoundsAssumption DEF Init
  <2>2. answer \in [Call -> Answer] /\ made \in [Call -> BOOLEAN]
        /\ built \in [Call -> Claim \cup Outcome \cup {NoClaim}]
    BY DEF Init, Answer
  <2>3. claims \in [Slot -> Claim \cup {NoClaim}] /\ outcomes \in [Slot -> Outcome \cup {NoOutcome}]
    BY DEF Init
  <2> QED BY <1>2, <2>1, <2>2, <2>3 DEF Init, TypeOK
<1>4. SlotsWellFormed /\ NamesNeverReissued /\ FlightFits
  BY <1>1, <1>3 DEF Init, SlotsWellFormed, NamesNeverReissued, FlightFits
<1>5. \A c \in Call : Knows(c) /\ Backed(c)
  BY <1>1, <1>2 DEF Knows, Backed
<1>6. AnswersHold /\ RecordsBehindAnswers
  BY <1>1 DEF AnswersHold, RecordsBehindAnswers
<1>7. PublishedWasThere /\ EventsInTime
  BY <1>1 DEF PublishedWasThere, EventsInTime, NoOutcome
<1> QED BY <1>4, <1>5, <1>6, <1>7 DEF LedgerInvariant

LEMMA StepKeeps == LedgerInvariant /\ [Next]_vars => LedgerInvariant'
<1> SUFFICES ASSUME LedgerInvariant, [Next]_vars PROVE LedgerInvariant'
  OBVIOUS
<1>1. ASSUME NEW c \in Call, Start(c) PROVE LedgerInvariant'
  BY <1>1, StartKeeps
<1>2. ASSUME NEW c \in Call, CallStep(c) PROVE LedgerInvariant'
  BY <1>2, GiveUpKeeps, FoldToReserveKeeps, ReadBaseFamilyKeeps, ClaimNextKeeps,
     CreateDecidedKeeps, RefoldClaimKeeps, FoldToTransitionKeeps, DecidePublicationKeeps,
     DecideAbandonmentKeeps, RefoldOutcomeKeeps DEF CallStep
<1>3. ASSUME NEW r \in flight, ApplyClaim(r) PROVE LedgerInvariant'
  BY <1>3, ApplyClaimKeeps
<1>4. ASSUME NEW r \in flight, ApplyOutcome(r) PROVE LedgerInvariant'
  BY <1>4, ApplyOutcomeKeeps
<1>5. CASE Push
  BY <1>5, PushKeeps
<1>6. CASE UNCHANGED vars
  BY <1>6, StutterKeeps
<1> QED BY <1>1, <1>2, <1>3, <1>4, <1>5, <1>6 DEF Next

(* The inductive invariant: the log is well formed, what the callers know  *)
(* of it is so, and what they have asked GitHub to create still fits it.   *)
THEOREM LedgerInvariantHolds == Spec => []LedgerInvariant
<1>1. Init => LedgerInvariant
  BY InvariantInit
<1>2. LedgerInvariant /\ [Next]_vars => LedgerInvariant'
  BY StepKeeps
<1> QED BY <1>1, <1>2, PTL DEF Spec

(* foldReleaseLedger never refuses the log, whatever creates, late creates *)
(* and retries of however many calls have made of it.                      *)
THEOREM LogIsWellFormed == Spec => []LogWellFormed
<1>1. LedgerInvariant => LogWellFormed
  BY FoldAcceptsLog DEF LedgerInvariant, LogWellFormed
<1> QED BY <1>1, LedgerInvariantHolds, PTL

(* collidesWithRelease keeps two reservations from owning the same name.   *)
THEOREM NamesStayUnique == Spec => []NamesNeverReissued
<1>1. LedgerInvariant => NamesNeverReissued
  BY DEF LedgerInvariant
<1> QED BY <1>1, LedgerInvariantHolds, PTL

(* What runReleaseIdentity answers is what the log says from then on.      *)
THEOREM AnswersStayTrue == Spec => []AnswersHold
<1>1. LedgerInvariant => AnswersHold
  BY DEF LedgerInvariant
<1> QED BY <1>1, LedgerInvariantHolds, PTL

(* A call that is told "reused: false" finds in the log the very commit it *)
(* built: createLedgerRef took no other commit for it, and the slot its    *)
(* create won is the one the fold after it shows of the key.               *)
THEOREM MakersBuiltWhatIsShown == Spec => []MakersBuiltIt
<1>1. LedgerInvariant => MakersBuiltIt
  BY DEF LedgerInvariant, Backed, MakersBuiltIt
<1> QED BY <1>1, LedgerInvariantHolds, PTL

(* The artifacts of a published identity were on the base at the revision  *)
(* the outcome names: references and revisions both stay as they are.      *)
THEOREM PublicationsWereThere == Spec => []PublishedWasThere
<1>1. LedgerInvariant => PublishedWasThere
  BY DEF LedgerInvariant
<1> QED BY <1>1, LedgerInvariantHolds, PTL

(* respondWithRecords answers only when the issue shows every event.       *)
THEOREM RecordsPrecedeAnswers == Spec => []RecordsBehindAnswers
<1>1. LedgerInvariant => RecordsBehindAnswers
  BY DEF LedgerInvariant
<1> QED BY <1>1, LedgerInvariantHolds, PTL

-----------------------------------------------------------------------------
(* The register the log implements.                                        *)

Reserved == [k \in Key |-> ReservedName(k)]
Result == [k \in Key |-> ResultOf(k)]
ToldOf(c) == <<task[c].key, claims[answer[c].view.slot].name, Told(answer[c].view)>>
AllTold == {ToldOf(c) : c \in {d \in Call : answer[d].ok}}

(* The slot of a key, when it has one, says all of it.                     *)
Owner(k, s) ==
    s \in Used /\ claims[s].key = k =>
      ReservedName(k) = claims[s].name /\ ResultOf(k) = ResultAt(s)

Unowned(k) ==
    (\A s \in Used : claims[s].key # k) => ReservedName(k) = 0 /\ ResultOf(k) = "no result"

OwnersKnown == \A k \in Key : Unowned(k) /\ \A s \in Slot : Owner(k, s)

LEMMA OwnersState == LedgerInvariant => OwnersKnown
<1> SUFFICES ASSUME LedgerInvariant, NEW k \in Key
             PROVE  Unowned(k) /\ \A s \in Slot : Owner(k, s)
  BY DEF OwnersKnown
<1>1. OwnedBy(k, MaxSlot) = {s \in Used : claims[s].key = k}
  BY KeyAssumption DEF OwnedBy, Used, NoClaim, Slot
<1>2. Unowned(k)
  BY <1>1 DEF Unowned, ReservedName, ResultOf
<1>3. ASSUME NEW s \in Slot, s \in Used, claims[s].key = k
      PROVE  ReservedName(k) = claims[s].name /\ ResultOf(k) = ResultAt(s)
  <2>1. OwnedBy(k, MaxSlot) = {s}
    BY <1>1, <1>3, OneSlot DEF LedgerInvariant
  <2>2. (CHOOSE r \in OwnedBy(k, MaxSlot) : TRUE) = s
    BY <2>1
  <2> QED BY <2>1, <2>2 DEF ReservedName, ResultOf
<1> QED BY <1>2, <1>3 DEF Owner

LEMMA OwnersStep ==
    ASSUME LedgerInvariant, LedgerInvariant' PROVE OwnersKnown /\ OwnersKnown'
BY OwnersState, PTL

LEMMA RegisterDomains ==
    /\ Reserved = [k \in Key |-> Reserved[k]] /\ Reserved' = [k \in Key |-> Reserved'[k]]
    /\ Result = [k \in Key |-> Result[k]] /\ Result' = [k \in Key |-> Result'[k]]
    /\ \A k \in Key : Reserved[k] = ReservedName(k) /\ Reserved'[k] = ReservedName(k)'
    /\ \A k \in Key : Result[k] = ResultOf(k) /\ Result'[k] = ResultOf(k)'
BY DEF Reserved, Result

(* The reasons of abandonments are the ones that were asked for.           *)
Reasons == {t.reason : t \in Task}

ReasonsAsked ==
    /\ \A s \in Slot : outcomes[s].event = "abandoned" => outcomes[s].reason \in Reasons
    /\ \A r \in flight : r.kind = "outcomes" /\ r.event.event = "abandoned"
                           => r.event.reason \in Reasons

(* What a slot's outcome comes to.                                         *)
ResultsRead ==
    /\ \A s \in Slot : outcomes[s] = NoOutcome => ResultAt(s) = "no result"
    /\ \A s \in Slot : outcomes[s].event = "published" => ResultAt(s) = "published"
    /\ \A s \in Slot : outcomes[s].event = "abandoned" => ResultAt(s) = outcomes[s].reason

LEMMA ResultsState == ResultsRead
<1>1. NoOutcome.event = "none"
  BY DEF NoOutcome
<1>2. ASSUME NEW s \in Slot, outcomes[s] = NoOutcome PROVE ResultAt(s) = "no result"
  BY <1>1, <1>2, Zenon DEF ResultAt
<1>3. ASSUME NEW s \in Slot, outcomes[s].event = "published" PROVE ResultAt(s) = "published"
  <2>1. outcomes[s] # NoOutcome /\ outcomes[s].event # "abandoned"
    BY <1>1, <1>3
  <2> QED BY <1>3, <2>1 DEF ResultAt
<1>4. ASSUME NEW s \in Slot, outcomes[s].event = "abandoned"
      PROVE  ResultAt(s) = outcomes[s].reason
  <2>1. outcomes[s] # NoOutcome /\ outcomes[s].event # "published"
    BY <1>1, <1>4
  <2> QED BY <1>4, <2>1 DEF ResultAt
<1> QED BY <1>2, <1>3, <1>4 DEF ResultsRead

LEMMA ResultsStep == ResultsRead /\ ResultsRead'
BY ResultsState, PTL

(* The steps of the register.                                              *)
LEMMA NothingMaps ==
    ASSUME Reserved' = Reserved, Result' = Result, AllTold' = AllTold PROVE Register!Next
<1>1. UNCHANGED Register!vars
  BY DEF Register!vars, Reserved, Result, AllTold, ToldOf
<1> QED BY <1>1 DEF Register!Next

LEMMA ReserveMaps ==
    ASSUME NEW k \in Key, NEW n \in Name, Reserved[k] = 0,
           \A h \in Key : Reserved[h] # n,
           Reserved' = [Reserved EXCEPT ![k] = n], Result' = Result, AllTold' = AllTold
    PROVE  Register!Next
<1>1. Register!Reserve(k, n)
  BY DEF Register!Reserve, Reserved, Result, AllTold, ToldOf
<1> QED BY <1>1 DEF Register!Next

LEMMA ResolveMaps ==
    ASSUME NEW k \in Key, NEW r \in {"published"} \cup Reasons,
           Reserved[k] # 0, Result[k] = "no result",
           Result' = [Result EXCEPT ![k] = r], Reserved' = Reserved, AllTold' = AllTold
    PROVE  Register!Next
<1>1. Register!Resolve(k, r)
  BY DEF Register!Resolve, Reserved, Result, AllTold, ToldOf
<1>2. r \in {"published"} \cup {t.reason : t \in Task}
  BY DEF Reasons
<1> QED BY <1>1, <1>2 DEF Register!Next

LEMMA TellMaps ==
    ASSUME NEW k \in Key, NEW r \in {"published", "no result"} \cup Reasons,
           Reserved[k] # 0, r \in {Result[k], "no result"},
           AllTold' = AllTold \cup {<<k, Reserved[k], r>>},
           Reserved' = Reserved, Result' = Result
    PROVE  Register!Next
<1>1. Register!Tell(k, r)
  BY DEF Register!Tell, Reserved, Result, AllTold, ToldOf
<1>2. r \in {"published"} \cup {t.reason : t \in Task} \cup {"no result"}
  BY DEF Reasons
<1> QED BY <1>1, <1>2 DEF Register!Next

(* A reason is asked for by the call that abandons, or not at all.         *)
LEMMA ReasonsInit == Init => ReasonsAsked
BY DEF Init, ReasonsAsked, NoOutcome

LEMMA ReasonsStep == LedgerInvariant /\ ReasonsAsked /\ [Next]_vars => ReasonsAsked'
<1> SUFFICES ASSUME LedgerInvariant, ReasonsAsked, [Next]_vars PROVE ReasonsAsked'
  OBVIOUS
<1> DEFINE Asked(r) == \/ r \in flight \/ r.kind # "outcomes"
                       \/ r.event.event # "abandoned" \/ r.event.reason \in Reasons
<1>1. ASSUME outcomes' = outcomes, \A r \in flight' : Asked(r) PROVE ReasonsAsked'
  BY <1>1 DEF ReasonsAsked
<1>2. ASSUME NEW c \in Call, Start(c) \/ CallStep(c) PROVE ReasonsAsked'
  <2>1. outcomes' = outcomes
    BY <1>2 DEF Start, CallStep, GiveUp, FoldToReserve, ReadBaseFamily, ClaimNext, ClaimRefused,
       CreateDecided, CreateUndecided, RefoldClaim, FoldToTransition, DecidePublication,
       DecideAbandonment, RefoldOutcome, AppendOutcome, log
  <2>2. CASE ClaimNext(c)
    BY <1>1, <2>1, <2>2 DEF ClaimNext, ClaimRequest, Sent
  <2>3. CASE DecidePublication(c)
    BY <1>1, <2>1, <2>3 DEF DecidePublication, AppendOutcome, Sent, log
  <2>4. CASE DecideAbandonment(c)
    <3>1. task[c] \in Task
      BY <2>4 DEF DecideAbandonment, AppendOutcome, Step, LedgerInvariant, Knows
    <3> QED BY <1>1, <2>1, <2>4, <3>1 DEF DecideAbandonment, AppendOutcome, Sent, Reasons
  <2>5. CASE flight' = flight
    BY <1>1, <2>1, <2>5
  <2> QED BY <1>2, <2>2, <2>3, <2>4, <2>5
     DEF Start, CallStep, GiveUp, FoldToReserve, ReadBaseFamily, ClaimRefused,
       CreateDecided, CreateUndecided, RefoldClaim, FoldToTransition, RefoldOutcome, log
<1>3. ASSUME NEW r \in flight, ApplyClaim(r) PROVE ReasonsAsked'
  BY <1>1, <1>3 DEF ApplyClaim, Others
<1>4. ASSUME NEW r \in flight, ApplyOutcome(r) PROVE ReasonsAsked'
  BY <1>4 DEF ApplyOutcome, Others, ReasonsAsked, LedgerInvariant, SlotsWellFormed, TypeOK
<1>5. CASE Push \/ UNCHANGED vars
  BY <1>1, <1>5 DEF Push, vars, log
<1> QED BY <1>2, <1>3, <1>4, <1>5 DEF Next

(* Whatever the calls were told stays told, in the same words.             *)
LEMMA ToldStays ==
    ASSUME LedgerInvariant, NEW c \in Call, answer[c].ok,
           answer'[c] = answer[c], task'[c] = task[c],
           \A s \in Used : claims'[s] = claims[s]
    PROVE  ToldOf(c)' = ToldOf(c)
<1>1. answer[c].view.slot \in Used
  BY DEF LedgerInvariant, AnswersHold
<1> QED BY <1>1 DEF ToldOf, Told

LEMMA AllToldStays ==
    ASSUME LedgerInvariant, UNCHANGED <<answer, task>>, \A s \in Used : claims'[s] = claims[s]
    PROVE  AllTold' = AllTold
<1>1. \A c \in Call : answer[c].ok => ToldOf(c)' = ToldOf(c)
  BY ToldStays
<1> QED BY <1>1 DEF AllTold

(* What a true answer tells of its key is what the register holds, or that *)
(* there is no outcome yet.                                                *)
TellsHeld(c) ==
    LET k == task[c].key
        r == Told(answer[c].view)
    IN /\ k \in Key /\ Reserved[k] # 0
       /\ ToldOf(c) = <<k, Reserved[k], r>>
       /\ r \in {Result[k], "no result"}
       /\ r \in {"published", "no result"} \cup Reasons

AllToldHeld == \A c \in Call : answer[c].ok => TellsHeld(c)

LEMMA ToldIsHeld == LedgerInvariant /\ ReasonsAsked => AllToldHeld
<1> SUFFICES ASSUME LedgerInvariant, ReasonsAsked, NEW c \in Call, answer[c].ok
             PROVE  TellsHeld(c)
  BY DEF AllToldHeld
<1> DEFINE v == answer[c].view
           k == task[c].key
<1>1. /\ v.slot \in Used /\ claims[v.slot].key = k
      /\ v.outcome # NoOutcome => outcomes[v.slot] = v.outcome
  BY DEF LedgerInvariant, AnswersHold
<1>2. v.slot \in Slot /\ claims[v.slot] \in Claim /\ outcomes[v.slot] \in Outcome \cup {NoOutcome}
  BY <1>1 DEF LedgerInvariant, SlotsWellFormed, TypeOK, Used
<1>3. k \in Key /\ claims[v.slot].name # 0
  BY <1>1, <1>2 DEF Claim, Name
<1>4. Reserved[k] = claims[v.slot].name /\ Result[k] = ResultAt(v.slot)
  BY <1>1, <1>2, <1>3, OwnersState DEF OwnersKnown, Owner, Reserved, Result
<1>5. CASE v.outcome = NoOutcome
  BY <1>3, <1>4, <1>5 DEF Told, ToldOf, TellsHeld
<1>6. CASE v.outcome # NoOutcome
  <2>1. outcomes[v.slot] = v.outcome /\ v.outcome \in Outcome
    BY <1>1, <1>2, <1>6
  <2>2. CASE v.outcome.event = "published"
    <3>1. Told(v) = "published" /\ ResultAt(v.slot) = "published"
      BY <1>6, <2>1, <2>2 DEF Told, ResultAt
    <3> QED BY <1>3, <1>4, <3>1 DEF ToldOf, TellsHeld
  <2>3. CASE v.outcome.event = "abandoned"
    <3>1. Told(v) = v.outcome.reason /\ ResultAt(v.slot) = v.outcome.reason
      BY <1>6, <2>1, <2>3 DEF Told, ResultAt
    <3>2. v.outcome.reason \in Reasons
      BY <1>2, <2>1, <2>3 DEF ReasonsAsked
    <3> QED BY <1>3, <1>4, <3>1, <3>2 DEF ToldOf, TellsHeld
  <2> QED BY <2>1, <2>2, <2>3 DEF Outcome
<1> QED BY <1>5, <1>6

LEMMA ToldIsHeldNext == ASSUME LedgerInvariant', ReasonsAsked' PROVE AllToldHeld'
BY ToldIsHeld, PTL

(* A step of a call tells one thing more, or nothing.                      *)
LEMMA CallMaps ==
    ASSUME LedgerInvariant, LedgerInvariant', ReasonsAsked', NEW c \in Call,
           Start(c) \/ CallStep(c)
    PROVE  Register!Next
<1>1. UNCHANGED <<claims, outcomes>>
  BY DEF Start, CallStep, GiveUp, FoldToReserve, ReadBaseFamily, ClaimNext, ClaimRefused,
     CreateDecided, CreateUndecided, RefoldClaim, FoldToTransition, DecidePublication,
     DecideAbandonment, RefoldOutcome, AppendOutcome, log
<1>2. phase[c] # "done"
  BY DEF Start, CallStep, GiveUp, FoldToReserve, ReadBaseFamily, ClaimNext, ClaimRefused,
     CreateDecided, CreateUndecided, RefoldClaim, FoldToTransition, DecidePublication,
     DecideAbandonment, RefoldOutcome, AppendOutcome, Refuse, Return, Step
<1>3. ~answer[c].ok
  BY <1>2 DEF LedgerInvariant, Backed
<1>4. \A d \in Call : d # c => answer'[d] = answer[d] /\ task'[d] = task[d]
  <2> DEFINE Answers == answer' = answer \/ \E a : answer' = [answer EXCEPT ![c] = a]
  <2>1. Answers
    <3>1. ASSUME NEW from, NEW a, Return(c, from, a) PROVE Answers
      BY <3>1 DEF Return
    <3>2. ASSUME NEW from, Refuse(c, from) PROVE Answers
      BY <3>1, <3>2 DEF Refuse
    <3>3. ASSUME NEW from, NEW s, NEW o, NEW again, Respond(c, from, s, o, again) PROVE Answers
      BY <3>1, <3>3 DEF Respond
    <3>4. ASSUME answer' = answer PROVE Answers
      BY <3>4
    <3> HIDE DEF Answers
    <3>5. CASE Start(c) \/ ReadBaseFamily(c) \/ ClaimNext(c) \/ CreateDecided(c)
               \/ DecideAbandonment(c)
      BY <3>4, <3>5 DEF Start, ReadBaseFamily, ClaimNext, CreateDecided, DecideAbandonment,
         AppendOutcome
    <3>6. CASE GiveUp(c) \/ ClaimRefused(c) \/ CreateUndecided(c)
      BY <3>2, <3>6 DEF GiveUp, ClaimRefused, CreateUndecided
    <3>7. CASE FoldToReserve(c) \/ FoldToTransition(c)
      BY <3>2, <3>3, <3>4, <3>7 DEF FoldToReserve, FoldToTransition
    <3>8. CASE RefoldClaim(c) \/ RefoldOutcome(c)
      BY <3>2, <3>3, <3>4, <3>8 DEF RefoldClaim, RefoldOutcome
    <3>9. CASE DecidePublication(c)
      BY <3>2, <3>4, <3>9 DEF DecidePublication, AppendOutcome
    <3> QED BY <3>5, <3>6, <3>7, <3>8, <3>9 DEF CallStep
  <2>2. task' = task \/ \E t : task' = [task EXCEPT ![c] = t]
    BY DEF Start, CallStep, GiveUp, FoldToReserve, ReadBaseFamily, ClaimNext, ClaimRefused,
       CreateDecided, CreateUndecided, RefoldClaim, FoldToTransition, DecidePublication,
       DecideAbandonment, RefoldOutcome
  <2> QED BY <2>1, <2>2 DEF LedgerInvariant, SlotsWellFormed, TypeOK
<1>5. Reserved' = Reserved /\ Result' = Result
  BY <1>1 DEF Reserved, Result, ReservedName, ResultOf, ResultAt, OwnedBy
<1>6. \A d \in Call : d # c /\ answer[d].ok => ToldOf(d)' = ToldOf(d)
  BY <1>1, <1>4, ToldStays
<1>7. CASE ~answer'[c].ok
  <2>1. AllTold' = AllTold
    BY <1>3, <1>4, <1>6, <1>7 DEF AllTold
  <2> QED BY <1>5, <2>1, NothingMaps
<1>8. CASE answer'[c].ok
  <2>1. AllTold' = AllTold \cup {ToldOf(c)'}
    BY <1>3, <1>4, <1>6, <1>8 DEF AllTold
  <2> DEFINE k == task'[c].key
             r == Told(answer'[c].view)
  <2>2. TellsHeld(c)'
    BY <1>8, ToldIsHeldNext DEF AllToldHeld
  <2>3. /\ k \in Key /\ Reserved[k] # 0 /\ r \in {Result[k], "no result"}
        /\ r \in {"published", "no result"} \cup Reasons
        /\ AllTold' = AllTold \cup {<<k, Reserved[k], r>>}
    BY <1>5, <2>1, <2>2 DEF TellsHeld
  <2> QED BY <1>5, <2>3, TellMaps
<1> QED BY <1>7, <1>8

(* A claim GitHub applies gives its key a name: the key had none, and no   *)
(* key had that name.                                                      *)
LEMMA ApplyClaimMaps ==
    ASSUME LedgerInvariant, LedgerInvariant', NEW r \in flight, ApplyClaim(r)
    PROVE  Register!Next
<1> DEFINE k == r.event.key
           n == r.event.name
<1>1. r \in Request /\ r.kind = "claims" /\ claims' = [claims EXCEPT ![r.slot] = r.event]
  BY DEF ApplyClaim, LedgerInvariant, SlotsWellFormed, TypeOK
<1>2. r.slot \in Slot /\ r.event \in Claim /\ k \in Key /\ n \in Name
  BY <1>1 DEF Request, Claim
<1>3. claims[r.slot] = NoClaim /\ outcomes[r.slot] = NoOutcome
      /\ MayFollow(k, r.event.sequence, n, r.slot - 1)
  BY <1>1, <1>2 DEF LedgerInvariant, FlightFits, ClaimFits, SlotsWellFormed, Used
<1>4. \A s \in Used : s \in Slot /\ claims[s].key # k /\ claims[s].name # n
                      /\ claims'[s] = claims[s]
  <2> SUFFICES ASSUME NEW s \in Used
               PROVE  s \in Slot /\ claims[s].key # k /\ claims[s].name # n
                      /\ claims'[s] = claims[s]
    OBVIOUS
  <2>1. s \in Slot /\ s # r.slot /\ ~(r.slot < s)
    BY <1>2, <1>3 DEF LedgerInvariant, SlotsWellFormed, Used
  <2>2. s \in 1..(r.slot - 1)
    BY <1>2, <2>1 DEF Slot
  <2> QED BY <1>1, <1>3, <2>1, <2>2 DEF MayFollow, LedgerInvariant, SlotsWellFormed, TypeOK
<1>5. claims'[r.slot] = r.event /\ r.slot \in Used'
      /\ Used' = Used \cup {r.slot}
  BY <1>1, <1>2, <1>3, ClaimsAreClaims DEF LedgerInvariant, SlotsWellFormed, TypeOK, Used
<1>6. OwnersKnown /\ OwnersKnown' /\ outcomes' = outcomes
  BY OwnersStep DEF ApplyClaim
<1>7. Reserved[k] = 0 /\ Result[k] = "no result"
  BY <1>2, <1>4, <1>6 DEF OwnersKnown, Unowned, Reserved, Result
<1>8. Reserved'[k] = n /\ Result'[k] = "no result"
  <2>1. Owner(k, r.slot)'
    BY <1>2, <1>6 DEF OwnersKnown
  <2>2. claims'[r.slot].name = n /\ claims'[r.slot].key = k /\ outcomes'[r.slot] = NoOutcome
    BY <1>3, <1>5, <1>6
  <2>3. ReservedName(k)' = n /\ ResultOf(k)' = "no result"
    <3>1. ReservedName(k)' = claims'[r.slot].name /\ ResultOf(k)' = ResultAt(r.slot)'
      BY <1>5, <2>1, <2>2 DEF Owner
    <3> QED BY <1>2, <2>2, <3>1, ResultsStep DEF ResultsRead
  <2> QED BY <1>2, <2>3, RegisterDomains
<1>9. \A h \in Key : h # k => Reserved'[h] = Reserved[h] /\ Result'[h] = Result[h]
                              /\ Reserved[h] # n
  <2> SUFFICES ASSUME NEW h \in Key, h # k
               PROVE  Reserved'[h] = Reserved[h] /\ Result'[h] = Result[h] /\ Reserved[h] # n
    OBVIOUS
  <2>1. CASE \E s \in Used : claims[s].key = h
    <3>1. PICK s \in Used : claims[s].key = h
      BY <2>1
    <3>2. s \in Slot /\ s \in Used' /\ claims'[s] = claims[s] /\ claims[s].name # n
      BY <1>4, <1>5
    <3>3. Reserved[h] = claims[s].name /\ Result[h] = ResultAt(s)
      BY <1>6, <3>1, <3>2 DEF OwnersKnown, Owner, Reserved, Result
    <3>4. Reserved'[h] = claims[s].name /\ Result'[h] = ResultAt(s)
      BY <1>6, <3>1, <3>2 DEF OwnersKnown, Owner, Reserved, Result, ResultAt
    <3> QED BY <3>2, <3>3, <3>4
  <2>2. CASE \A s \in Used : claims[s].key # h
    <3>1. \A s \in Used' : claims'[s].key # h
      BY <1>4, <1>5, <2>2
    <3>2. Reserved[h] = 0 /\ Result[h] = "no result"
      BY <1>6, <2>2 DEF OwnersKnown, Unowned, Reserved, Result
    <3>3. Reserved'[h] = 0 /\ Result'[h] = "no result"
      BY <1>6, <3>1 DEF OwnersKnown, Unowned, Reserved, Result
    <3>4. n # 0
      BY <1>2 DEF Name
    <3> QED BY <3>2, <3>3, <3>4
  <2> QED BY <2>1, <2>2
<1>10. Reserved' = [Reserved EXCEPT ![k] = n] /\ Result' = Result
  <2> HIDE DEF k, n
  <2>1. Result' = Result
    <3>1. \A h \in Key : Result'[h] = Result[h]
      BY <1>7, <1>8, <1>9
    <3> QED BY <3>1, RegisterDomains
  <2>2. Reserved' = [Reserved EXCEPT ![k] = n]
    <3>1. \A h \in Key : Reserved'[h] = IF h = k THEN n ELSE Reserved[h]
      BY <1>8, <1>9
    <3>2. Reserved' = [h \in Key |-> IF h = k THEN n ELSE Reserved[h]]
      BY <3>1, RegisterDomains
    <3> QED BY <3>2, RegisterDomains
  <2> QED BY <2>1, <2>2
<1>11. AllTold' = AllTold
  BY <1>4, AllToldStays DEF ApplyClaim
<1>12. \A h \in Key : Reserved[h] # n
  <2>1. n # 0
    BY <1>2 DEF Name
  <2> QED BY <1>7, <1>9, <2>1
<1> QED BY <1>2, <1>7, <1>10, <1>11, <1>12, ReserveMaps

(* An outcome GitHub applies resolves the reservation of its slot's key.   *)
LEMMA ApplyOutcomeMaps ==
    ASSUME LedgerInvariant, LedgerInvariant', ReasonsAsked', NEW r \in flight, ApplyOutcome(r)
    PROVE  Register!Next
<1> DEFINE o == r.event
           result == IF o.event = "published" THEN "published" ELSE o.reason
<1>1. r \in Request /\ r.kind = "outcomes" /\ outcomes' = [outcomes EXCEPT ![r.slot] = o]
      /\ claims' = claims
  BY DEF ApplyOutcome, LedgerInvariant, SlotsWellFormed, TypeOK
<1>2. r.slot \in Slot /\ o \in Outcome
  BY <1>1, RequestTypes
<1>3. outcomes[r.slot] = NoOutcome /\ r.slot \in Used
  BY <1>1 DEF LedgerInvariant, FlightFits, OutcomeFits
<1>4. claims[r.slot] \in Claim /\ claims[r.slot].key \in Key /\ claims[r.slot].name # 0
  <2>1. claims[r.slot] \in Claim
    BY <1>2, <1>3 DEF LedgerInvariant, SlotsWellFormed, TypeOK, Used
  <2> QED BY <2>1 DEF Claim, Name
<1> PICK k \in Key : k = claims[r.slot].key
  BY <1>4
<1>5. outcomes'[r.slot] = o /\ \A s \in Slot : s # r.slot => outcomes'[s] = outcomes[s]
  BY <1>1, <1>2 DEF LedgerInvariant, SlotsWellFormed, TypeOK
<1>6. o \notin {NoOutcome} /\ (o.event = "published" \/ o.event = "abandoned")
  BY <1>2, OutcomesAreOutcomes DEF Outcome
<1>7. result \in {"published"} \cup Reasons
  BY <1>2, <1>5, <1>6 DEF ReasonsAsked
<1>8. ResultAt(r.slot) = "no result" /\ ResultAt(r.slot)' = result
  BY <1>2, <1>3, <1>5, <1>6, ResultsStep DEF ResultsRead
<1>9. OwnersKnown /\ OwnersKnown' /\ Used' = Used
  BY <1>1, OwnersStep DEF Used
<1>10. Reserved[k] = claims[r.slot].name /\ Result[k] = "no result"
  BY <1>2, <1>3, <1>4, <1>8, <1>9, RegisterDomains DEF OwnersKnown, Owner
<1>11. Reserved' = Reserved
  BY <1>1 DEF Reserved, ReservedName, OwnedBy
<1>12. Result'[k] = result
  <2>1. Owner(k, r.slot)'
    BY <1>2, <1>4, <1>9 DEF OwnersKnown
  <2>2. ResultOf(k)' = result
    BY <1>1, <1>3, <1>8, <1>9, <2>1 DEF Owner
  <2> QED BY <1>4, <2>2, RegisterDomains
<1>13. ASSUME NEW h \in Key, h # k PROVE Result'[h] = Result[h]
  <2>1. OwnedBy(h, MaxSlot)' = OwnedBy(h, MaxSlot) /\ r.slot \notin OwnedBy(h, MaxSlot)
    BY <1>1, <1>13 DEF OwnedBy
  <2>2. CASE OwnedBy(h, MaxSlot) = {}
    BY <2>1, <2>2, RegisterDomains DEF ResultOf
  <2>3. CASE OwnedBy(h, MaxSlot) # {}
    <3> DEFINE s == CHOOSE q \in OwnedBy(h, MaxSlot) : TRUE
    <3>1. s \in OwnedBy(h, MaxSlot)
      BY <2>3
    <3>2. s \in Slot /\ s # r.slot
      BY <2>1, <3>1 DEF OwnedBy, Slot
    <3>3. ResultOf(h) = ResultAt(s)
      BY <2>3 DEF ResultOf
    <3>4. ResultOf(h)' = ResultAt(s)'
      BY <2>1, <2>3 DEF ResultOf, ResultAt
    <3>5. ResultAt(s)' = ResultAt(s)
      BY <1>5, <2>1, <3>2 DEF ResultAt
    <3> QED BY <3>3, <3>4, <3>5, RegisterDomains
  <2> QED BY <2>2, <2>3
<1>14. Result' = [Result EXCEPT ![k] = result]
  BY <1>4, <1>12, <1>13, RegisterDomains
<1>15. AllTold' = AllTold
  BY <1>1, AllToldStays DEF ApplyOutcome
<1> HIDE DEF result
<1> QED BY <1>4, <1>7, <1>10, <1>11, <1>14, <1>15, ResolveMaps

LEMMA RegisterInit == Init => Register!Init
<1> SUFFICES ASSUME Init PROVE Register!Init
  OBVIOUS
<1>1. Used = {} /\ \A c \in Call : ~answer[c].ok
  BY DEF Init, Used, Refusal
<1>2. \A k \in Key : ReservedName(k) = 0 /\ ResultOf(k) = "no result"
  BY <1>1, InvariantInit, OwnersState DEF OwnersKnown, Unowned
<1> QED BY <1>1, <1>2 DEF Register!Init

LEMMA RegisterStep ==
    LedgerInvariant /\ LedgerInvariant' /\ ReasonsAsked /\ ReasonsAsked' /\ [Next]_vars
    => [Register!Next]_(Register!vars)
<1> SUFFICES ASSUME LedgerInvariant, LedgerInvariant', ReasonsAsked', [Next]_vars
             PROVE  Register!Next
  OBVIOUS
<1>1. ASSUME NEW c \in Call, Start(c) \/ CallStep(c) PROVE Register!Next
  BY <1>1, CallMaps
<1>2. ASSUME NEW r \in flight, ApplyClaim(r) \/ ApplyOutcome(r) PROVE Register!Next
  BY <1>2, ApplyClaimMaps, ApplyOutcomeMaps
<1>3. CASE Push \/ UNCHANGED vars
  <2>1. UNCHANGED <<claims, outcomes, answer, task>>
    BY <1>3 DEF Push, vars, log
  <2>2. Reserved' = Reserved /\ Result' = Result
    BY <2>1 DEF Reserved, Result, ReservedName, ResultOf, ResultAt, OwnedBy
  <2>3. AllTold' = AllTold
    BY <2>1, AllToldStays
  <2> QED BY <2>2, <2>3, NothingMaps
<1> QED BY <1>1, <1>2, <1>3 DEF Next

(* Calls of several hosts, creates that GitHub refuses, loses or applies   *)
(* late, retries and listings that trail come to a register: a key gets    *)
(* one name no other key has, one outcome, and what runReleaseIdentity     *)
(* told of either stays so.                                                *)
THEOREM ImplementsRegisterHolds == Spec => ImplementsRegister
<1>1. Spec => []ReasonsAsked
  BY ReasonsInit, ReasonsStep, LedgerInvariantHolds, PTL DEF Spec
<1>2. Spec => Register!Init
  BY RegisterInit, PTL DEF Spec
<1>3. Spec => [][Register!Next]_(Register!vars)
  BY <1>1, RegisterStep, LedgerInvariantHolds, PTL DEF Spec
<1> QED BY <1>2, <1>3 DEF ImplementsRegister, Register!Spec
=============================================================================
