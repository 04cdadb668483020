---------------------------- MODULE DeliveryProofs ----------------------------
(***************************************************************************)
(* The statements of Delivery, for any number of calls, pull requests *)
(* and payloads and any bounds.  The argument: everything a call checks    *)
(* stays true of the pull request it checked, because records, waivers and *)
(* passed checks only accumulate and a merged pull request keeps its head; *)
(* what a call has established by a step is therefore still true when it   *)
(* writes, whatever others do in between.                                  *)
(***************************************************************************)
EXTENDS Delivery, TLAPS

-----------------------------------------------------------------------------
(* What no step undoes.                                                    *)
Accumulates ==
    /\ green \subseteq green' /\ everSynced \subseteq everSynced'
    /\ overrides \subseteq overrides'
    /\ handoffs \subseteq handoffs' /\ reports \subseteq reports'
    /\ \A p \in Pr : Merged(p) => Merged(p)' /\ head'[p] = head[p]

Untouched(d) ==
    /\ pc'[d] = pc[d] /\ kind'[d] = kind[d] /\ target'[d] = target[d]
    /\ payload'[d] = payload[d] /\ seen'[d] = seen[d]

(* What a call has established outlives the steps of everything else.      *)
LEMMA EstablishedPersists ==
    ASSUME NEW d, Established(d), Accumulates, Untouched(d)
    PROVE  Established(d)'
<1> USE DEF Untouched
<1>1. ASSUME target[d] \in Pr, Merged(target[d])
      PROVE  Merged(target[d])' /\ head'[target[d]] = head[target[d]]
  BY <1>1 DEF Accumulates
<1>2. ReportsFor(target[d]) \subseteq ReportsFor(target[d])'
  BY DEF Accumulates, ReportsFor
<1>3. Verified(d) => Verified(d)'
  BY DEF Accumulates, Verified
<1>4. target[d] \in Pr /\ AtMergedHead(d) => AtMergedHead(d)'
  BY <1>1 DEF AtMergedHead, Merged
<1>5. (pc[d] \notin {"idle", "linking"} \/ kind[d] # "close" => target[d] \in Pr)'
  BY DEF Established
<1>6. /\ (pc[d] = "gates" => kind[d] = "readiness")'
      /\ (pc[d] \in {"fetching", "finding the issue", "loading"} => kind[d] = "automation")'
      /\ (pc[d] \in {"merging", "verifying", "looking", "reporting"} => kind[d] # "readiness")'
      /\ (pc[d] \in {"handing", "chain"} => seen[d] # 0)'
  BY DEF Established
<1>7. (pc[d] = "handing" \/ (pc[d] = "chain" /\ kind[d] = "readiness") =>
          <<target[d], seen[d]>> \in green)'
  BY DEF Established, Accumulates
<1>8. (pc[d] \in {"handing", "looking", "reporting"} => <<target[d], seen[d]>> \in everSynced)'
  BY DEF Established, Accumulates
<1>9. (\/ pc[d] \in {"finding the issue", "loading", "verifying", "looking", "reporting"}
       \/ pc[d] = "chain" /\ kind[d] # "readiness"
       => AtMergedHead(d))'
  BY <1>4 DEF Established
<1>10. (pc[d] \in {"looking", "reporting"} \/ (pc[d] = "chain" /\ kind[d] # "readiness") =>
          Verified(d))'
  BY <1>3 DEF Established
<1>11. (kind[d] = "automation" /\ pc[d] \in Replaying =>
          /\ Merged(target[d])
          /\ \A w \in payload[d] :
                [pr |-> target[d], head |-> head[target[d]], payload |-> w] \in handoffs)'
  <2> SUFFICES ASSUME kind[d] = "automation", pc[d] \in Replaying
               PROVE  /\ Merged(target[d])'
                      /\ \A w \in payload[d] :
                           [pr |-> target[d], head |-> head'[target[d]], payload |-> w] \in handoffs'
    BY DEF Replaying, Merged
  <2>1. target[d] \in Pr /\ Merged(target[d])
    BY DEF Established, Replaying
  <2>2. Merged(target[d])' /\ head'[target[d]] = head[target[d]]
    BY <1>1, <2>1
  <2>3. \A w \in payload[d] :
          [pr |-> target[d], head |-> head[target[d]], payload |-> w] \in handoffs
    BY DEF Established
  <2> QED BY <2>2, <2>3 DEF Accumulates
<1>12. (pc[d] \in {"closing", "authorizing", "patching"} => Merged(target[d]))'
  BY <1>1 DEF Established, Merged
<1>13. (pc[d] = "patching" => target[d] \in overrides \/ ReportsFor(target[d]) # {})'
  BY <1>2 DEF Established, Accumulates, ReportsFor
<1> QED
  BY <1>5, <1>6, <1>7, <1>8, <1>9, <1>10, <1>11, <1>12, <1>13 DEF Established

(* A call's story holds while nothing else is told of its pull request.    *)
LEMMA StoryPersists ==
    ASSUME NEW d \in Call, SameStory(d), Untouched(d),
           \A e \in Call : Holding(e)' /\ target'[e] = target[d] /\ Holding(d) =>
               payload'[e] = payload[d],
           \A r \in reports' \ reports : r.by = "automation" /\ r.pr = target[d] /\ Holding(d) =>
               r.payload \in payload[d]
    PROVE  SameStory(d)'
BY DEF SameStory, Untouched, Holding, Replaying

(* A step that writes no record leaves what the records say true.          *)
LEMMA RecordsPersist ==
    ASSUME DeliveryInvariant, Accumulates, handoffs' = handoffs, reports' = reports
    PROVE  HandoffBound' /\ ReportsEarned' /\ AutomationReplays' /\ AutomationAgrees'
<1>1. HandoffBound'
  BY DEF DeliveryInvariant, HandoffBound, Accumulates
<1>2. \A r \in reports : r.pr \in Pr
  BY DEF DeliveryInvariant, TypeOK
<1>3. ReportsEarned'
  BY <1>2 DEF DeliveryInvariant, ReportsEarned, Accumulates, Merged
<1>4. AutomationReplays'
  <2>1. \A r \in reports : head'[r.pr] = head[r.pr]
    BY <1>2 DEF DeliveryInvariant, ReportsEarned, Accumulates
  <2> QED BY <2>1 DEF DeliveryInvariant, AutomationReplays
<1>5. AutomationAgrees'
  BY DEF DeliveryInvariant, AutomationAgrees
<1> QED BY <1>1, <1>3, <1>4, <1>5

LEMMA ClosePersists ==
    ASSUME DeliveryInvariant, Accumulates, closedFor' = closedFor
    PROVE  ClosedIsValidated'
<1> SUFFICES ASSUME closedFor # NoPr
             PROVE  /\ Merged(closedFor)'
                    /\ \/ closedFor \in overrides'
                       \/ \E r \in ReportsFor(closedFor)' :
                            <<head'[closedFor], r.payload>> \in Sound
  BY DEF ClosedIsValidated, Merged, ReportsFor
<1>1. closedFor \in Pr
  BY DEF DeliveryInvariant, TypeOK
<1>2. Merged(closedFor)
  BY DEF DeliveryInvariant, ClosedIsValidated
<1>3. Merged(closedFor)' /\ head'[closedFor] = head[closedFor]
  BY <1>1, <1>2 DEF Accumulates, Merged
<1>4. ReportsFor(closedFor) \subseteq ReportsFor(closedFor)'
  BY DEF Accumulates, ReportsFor
<1> QED BY <1>3, <1>4 DEF DeliveryInvariant, ClosedIsValidated, Accumulates

-----------------------------------------------------------------------------
LEMMA InvariantInit == Init => DeliveryInvariant
<1> SUFFICES ASSUME Init PROVE DeliveryInvariant
  OBVIOUS
<1> USE DEF Init
<1>1. TypeOK
  <2>1. pc \in [Call -> Place]
    BY DEF Place
  <2>2. kind \in [Call -> Kind] /\ seen \in [Call -> Nat]
    BY DEF Kind
  <2>3. head \in [Pr -> Nat \ {0}]
    OBVIOUS
  <2>4. handoffs \subseteq [pr : Pr, head : Nat, payload : Payload]
    OBVIOUS
  <2> QED BY <2>1, <2>2, <2>3, <2>4 DEF TypeOK
<1>2. SyncedOnce
  BY DEF SyncedOnce
<1>3. \A c \in Call : Established(c) /\ SameStory(c)
  BY DEF Established, SameStory, Holding
<1>4. /\ HandoffBound /\ ReportsEarned /\ AutomationReplays /\ AutomationAgrees
      /\ ClosedIsValidated
  BY DEF HandoffBound, ReportsEarned, AutomationReplays, AutomationAgrees, ClosedIsValidated
<1> QED BY <1>1, <1>2, <1>3, <1>4 DEF DeliveryInvariant
-----------------------------------------------------------------------------
(* The steps of one call leave the others where they are.                  *)

LEMMA OthersStay ==
    ASSUME DeliveryInvariant, Accumulates, NEW c \in Call,
           \A d \in Call : d # c => Untouched(d),
           \A r \in reports' \ reports : r.by = "automation" =>
               Holding(c) /\ r.pr = target[c] /\ r.payload \in payload[c],
           SameStory(c)'
    PROVE  \A d \in Call \ {c} : Established(d)' /\ SameStory(d)'
<1> TAKE d \in Call \ {c}
<1>1. Established(d) /\ SameStory(d) /\ SameStory(c) /\ Untouched(d)
  BY DEF DeliveryInvariant
<1>2. Established(d)'
  BY <1>1, EstablishedPersists
<1>3. ASSUME NEW e \in Call, Holding(e)', target'[e] = target[d], Holding(d)
      PROVE  payload'[e] = payload[d]
  <2>1. CASE e = c
    <3>1. Holding(d)' /\ target'[d] = target'[c]
      BY <1>1, <1>3, <2>1 DEF Untouched, Holding, Replaying
    <3>2. payload'[d] = payload'[c]
      BY <1>3, <2>1, <3>1 DEF SameStory
    <3> QED BY <1>1, <2>1, <3>2 DEF Untouched
  <2>2. CASE e # c
    <3>1. Untouched(e)
      BY <2>2
    <3> QED BY <1>1, <1>3, <3>1 DEF SameStory, Untouched, Holding, Replaying
  <2> QED BY <2>1, <2>2
<1>4. ASSUME NEW r \in reports' \ reports, r.by = "automation", r.pr = target[d], Holding(d)
      PROVE  r.payload \in payload[d]
  <2>1. Holding(c) /\ target[d] = target[c] /\ r.payload \in payload[c]
    BY <1>4
  <2> QED BY <1>1, <1>4, <2>1 DEF SameStory
<1>5. SameStory(d)'
  BY <1>1, <1>3, <1>4, StoryPersists
<1> QED BY <1>2, <1>5

(* A step of a call that writes no record.                                 *)
LEMMA QuietStep ==
    ASSUME DeliveryInvariant, NEW c \in Call,
           UNCHANGED <<state, head, synced, everSynced, overrides, handoffs, reports, closedFor>>,
           green \subseteq green',
           \A d \in Call : d # c => Untouched(d),
           TypeOK', Established(c)', SameStory(c)'
    PROVE  DeliveryInvariant'
<1>1. Accumulates
  BY DEF Accumulates, Merged
<1>2. \A d \in Call : Established(d)' /\ SameStory(d)'
  BY <1>1, OthersStay
<1>3. /\ HandoffBound' /\ ReportsEarned' /\ AutomationReplays' /\ AutomationAgrees'
      /\ ClosedIsValidated'
  BY <1>1, RecordsPersist, ClosePersists
<1>4. SyncedOnce'
  BY DEF DeliveryInvariant, SyncedOnce
<1> QED BY <1>2, <1>3, <1>4 DEF DeliveryInvariant

(* A call that answers has nothing left to be right about.                 *)
LEMMA AnswerLeaves ==
    ASSUME DeliveryInvariant, NEW c \in Call, Answer(c)
    PROVE  /\ pc' \in [Call -> Place] /\ kind' \in [Call -> Kind]
           /\ target' \in [Call -> Pr \cup {NoPr}]
           /\ payload' \in [Call -> SUBSET Payload] /\ seen' \in [Call -> Nat]
           /\ kind'[c] = "close"
           /\ Established(c)' /\ SameStory(c)'
           /\ \A d \in Call : d # c => Untouched(d)
<1> USE DEF Answer, DeliveryInvariant, TypeOK
<1>1. pc' \in [Call -> Place] /\ kind' \in [Call -> Kind] /\ kind'[c] = "close" /\ pc'[c] = "idle"
  BY DEF Place, Kind
<1>2. /\ target' \in [Call -> Pr \cup {NoPr}]
      /\ payload' \in [Call -> SUBSET Payload] /\ seen' \in [Call -> Nat]
  OBVIOUS
<1>3. Established(c)' /\ SameStory(c)'
  BY <1>1 DEF Established, SameStory, Holding
<1>4. \A d \in Call : d # c => Untouched(d)
  BY DEF Untouched
<1> QED BY <1>1, <1>2, <1>3, <1>4

LEMMA StopKeeps ==
    ASSUME DeliveryInvariant, NEW c \in Call, Stop(c)
    PROVE  DeliveryInvariant'
<1>1. Answer(c) /\ UNCHANGED <<hosting, handoffs, reports, closedFor>>
  BY DEF Stop, records
<1> USE DEF hosting
<1>2. TypeOK'
  BY <1>1, AnswerLeaves DEF DeliveryInvariant, TypeOK, hosting
<1> QED BY <1>1, <1>2, AnswerLeaves, QuietStep

-----------------------------------------------------------------------------
(* The steps of a call that only establish something.                      *)

LEMMA EnterKeeps ==
    ASSUME DeliveryInvariant, NEW c \in Call, NEW k \in Kind, NEW first \in Place,
           NEW p \in Pr \cup {NoPr}, NEW ws \in SUBSET Payload, Enter(c, k, first, p, ws),
           \/ k = "readiness" /\ first = "gates" /\ p \in Pr
           \/ k = "finalize" /\ first = "merging" /\ p \in Pr
           \/ k = "automation" /\ first = "fetching" /\ p \in Pr
           \/ k = "close" /\ first = "linking"
    PROVE  DeliveryInvariant'
<1> USE DEF Enter, hosting, records
<1>1. TypeOK'
  BY DEF DeliveryInvariant, TypeOK
<1>2. /\ pc'[c] = first /\ kind'[c] = k /\ target'[c] = p
      /\ \A d \in Call : d # c => Untouched(d)
  BY DEF DeliveryInvariant, TypeOK, Untouched
<1>3. Established(c)' /\ SameStory(c)'
  BY <1>2 DEF Established, SameStory, Holding, Replaying
<1> QED BY <1>1, <1>2, <1>3, QuietStep

LEMMA BeginKeeps ==
    ASSUME DeliveryInvariant, NEW c \in Call,
           BeginReadiness(c) \/ BeginFinalize(c) \/ BeginAutomation(c) \/ BeginClose(c)
    PROVE  DeliveryInvariant'
<1> USE DEF Kind, Place
<1>1. CASE BeginReadiness(c)
  BY <1>1, EnterKeeps DEF BeginReadiness
<1>2. CASE BeginFinalize(c)
  BY <1>2, EnterKeeps DEF BeginFinalize
<1>3. CASE BeginAutomation(c)
  BY <1>3, EnterKeeps DEF BeginAutomation
<1>4. CASE BeginClose(c)
  BY <1>4, EnterKeeps DEF BeginClose
<1> QED BY <1>1, <1>2, <1>3, <1>4

LEMMA GatesGreenKeeps ==
    ASSUME DeliveryInvariant, NEW c \in Call, GatesGreen(c)
    PROVE  DeliveryInvariant'
<1> USE DEF GatesGreen, Step, hosting, records
<1>1. Established(c) /\ SameStory(c) /\ pc[c] = "gates"
  BY DEF DeliveryInvariant
<1>2. target[c] \in Pr
  BY <1>1 DEF Established
<1>3. TypeOK'
  BY <1>2 DEF DeliveryInvariant, TypeOK, call, Place
<1>4. \A d \in Call : d # c => Untouched(d)
  BY DEF DeliveryInvariant, TypeOK, Untouched, call
<1>5. /\ pc'[c] = "chain" /\ seen'[c] = head[target[c]]
      /\ kind'[c] = kind[c] /\ target'[c] = target[c] /\ payload'[c] = payload[c]
  BY DEF DeliveryInvariant, TypeOK, call
<1>6. Established(c)'
  BY <1>1, <1>2, <1>5
  DEF DeliveryInvariant, TypeOK, Established, Replaying
<1>7. SameStory(c)'
  BY <1>1, <1>4, <1>5 DEF SameStory, Holding, Replaying, Established, Untouched
<1> QED BY <1>3, <1>4, <1>5, <1>6, <1>7, QuietStep

LEMMA FetchPrKeeps ==
    ASSUME DeliveryInvariant, NEW c \in Call, FetchPr(c)
    PROVE  DeliveryInvariant'
<1> USE DEF FetchPr, Step, hosting, records
<1>1. Established(c) /\ SameStory(c) /\ pc[c] = "fetching"
  BY DEF DeliveryInvariant
<1>2. target[c] \in Pr
  BY <1>1 DEF Established
<1>3. TypeOK'
  BY <1>2 DEF DeliveryInvariant, TypeOK, call, Place
<1>4. \A d \in Call : d # c => Untouched(d)
  BY DEF DeliveryInvariant, TypeOK, Untouched, call
<1>5. /\ pc'[c] = "finding the issue" /\ seen'[c] = head[target[c]]
      /\ kind'[c] = kind[c] /\ target'[c] = target[c] /\ payload'[c] = payload[c]
  BY DEF DeliveryInvariant, TypeOK, call
<1>6. Established(c)'
  BY <1>1, <1>2, <1>5
  DEF Established, Replaying, AtMergedHead, Merged
<1>7. SameStory(c)'
  BY <1>1, <1>4, <1>5 DEF SameStory, Holding, Replaying, Established, Untouched
<1> QED BY <1>3, <1>4, <1>5, <1>6, <1>7, QuietStep

LEMMA ReadPointerKeeps ==
    ASSUME DeliveryInvariant, NEW c \in Call, ReadPointer(c)
    PROVE  DeliveryInvariant'
<1> USE DEF ReadPointer, Step, hosting, records
<1>1. Established(c) /\ SameStory(c) /\ pc[c] = "finding the issue"
  BY DEF DeliveryInvariant
<1>2. target[c] \in Pr
  BY <1>1 DEF Established
<1>3. TypeOK'
  BY <1>2 DEF DeliveryInvariant, TypeOK, call, Place
<1>4. \A d \in Call : d # c => Untouched(d)
  BY DEF DeliveryInvariant, TypeOK, Untouched, call
<1>5. /\ pc'[c] = "loading" /\ seen'[c] = seen[c]
      /\ kind'[c] = kind[c] /\ target'[c] = target[c] /\ payload'[c] = payload[c]
  BY DEF DeliveryInvariant, TypeOK, call
<1>6. Established(c)'
  BY <1>1, <1>2, <1>5
  DEF Established, Replaying, AtMergedHead, Merged
<1>7. SameStory(c)'
  BY <1>1, <1>4, <1>5 DEF SameStory, Holding, Replaying, Established, Untouched
<1> QED BY <1>3, <1>4, <1>5, <1>6, <1>7, QuietStep

LEMMA AssertMergedKeeps ==
    ASSUME DeliveryInvariant, NEW c \in Call, AssertMerged(c)
    PROVE  DeliveryInvariant'
<1> USE DEF AssertMerged, Step, hosting, records
<1>1. Established(c) /\ SameStory(c) /\ pc[c] = "merging"
  BY DEF DeliveryInvariant
<1>2. target[c] \in Pr
  BY <1>1 DEF Established
<1>3. TypeOK'
  BY <1>2 DEF DeliveryInvariant, TypeOK, call, Place
<1>4. \A d \in Call : d # c => Untouched(d)
  BY DEF DeliveryInvariant, TypeOK, Untouched, call
<1>5. /\ pc'[c] = "verifying" /\ seen'[c] = head[target[c]]
      /\ kind'[c] = kind[c] /\ target'[c] = target[c] /\ payload'[c] = payload[c]
  BY DEF DeliveryInvariant, TypeOK, call
<1>6. Established(c)'
  BY <1>1, <1>2, <1>5
  DEF Established, Replaying, AtMergedHead, Merged
<1>7. SameStory(c)'
  BY <1>1, <1>4, <1>5 DEF SameStory, Holding, Replaying, Established, Untouched
<1> QED BY <1>3, <1>4, <1>5, <1>6, <1>7, QuietStep

LEMMA VerifyRequirementsKeeps ==
    ASSUME DeliveryInvariant, NEW c \in Call, VerifyRequirements(c)
    PROVE  DeliveryInvariant'
<1> USE DEF VerifyRequirements, Step, hosting, records
<1>1. Established(c) /\ SameStory(c) /\ pc[c] = "verifying"
  BY DEF DeliveryInvariant
<1>2. target[c] \in Pr
  BY <1>1 DEF Established
<1>3. TypeOK'
  BY <1>2 DEF DeliveryInvariant, TypeOK, call, Place
<1>4. \A d \in Call : d # c => Untouched(d)
  BY DEF DeliveryInvariant, TypeOK, Untouched, call
<1>5. /\ pc'[c] = "chain" /\ seen'[c] = seen[c]
      /\ kind'[c] = kind[c] /\ target'[c] = target[c] /\ payload'[c] = payload[c]
  BY DEF DeliveryInvariant, TypeOK, call
<1>6. Established(c)'
  <2>1. AtMergedHead(c) /\ seen[c] # 0
    <3>1. AtMergedHead(c)
      BY <1>1 DEF Established
    <3>2. head[target[c]] # 0
      BY <1>2 DEF DeliveryInvariant, TypeOK
    <3> QED BY <3>1, <3>2 DEF AtMergedHead
  <2>2. UNCHANGED <<state, head, green, everSynced, overrides, handoffs>> /\ Verified(c)
    BY DEF Verified, Overridden
  <2> HIDE DEF VerifyRequirements
  <2>3. AtMergedHead(c)' /\ Verified(c)'
    BY <1>5, <2>1, <2>2 DEF AtMergedHead, Merged, Verified
  <2> QED BY <1>1, <1>2, <1>5, <2>1, <2>2, <2>3 DEF Established, Replaying, AtMergedHead
<1>7. SameStory(c)'
  BY <1>1, <1>4, <1>5 DEF SameStory, Holding, Replaying, Established, Untouched
<1> QED BY <1>3, <1>4, <1>5, <1>6, <1>7, QuietStep

LEMMA ChainHoldsKeeps ==
    ASSUME DeliveryInvariant, NEW c \in Call, ChainHolds(c)
    PROVE  DeliveryInvariant'
<1> USE DEF ChainHolds, Step, hosting, records
<1>1. Established(c) /\ SameStory(c) /\ pc[c] = "chain"
  BY DEF DeliveryInvariant
<1>2. target[c] \in Pr
  BY <1>1 DEF Established
<1>3. TypeOK'
  BY <1>2 DEF DeliveryInvariant, TypeOK, call, Place
<1>4. \A d \in Call : d # c => Untouched(d)
  BY DEF DeliveryInvariant, TypeOK, Untouched, call
<1>5. /\ pc'[c] = (IF kind[c] = "readiness" THEN "handing" ELSE "looking") /\ seen'[c] = seen[c]
      /\ kind'[c] = kind[c] /\ target'[c] = target[c] /\ payload'[c] = payload[c]
  BY DEF DeliveryInvariant, TypeOK, call
<1>6. <<target[c], seen[c]>> \in everSynced
  BY <1>1, <1>2 DEF DeliveryInvariant, SyncedOnce, Established, DeliveredHead
<1>7. Established(c)'
  <2>1. UNCHANGED <<state, head, green, everSynced, overrides, handoffs>>
    OBVIOUS
  <2> HIDE DEF ChainHolds
  <2>2. CASE kind[c] = "readiness"
    BY <1>1, <1>2, <1>5, <1>6, <2>1, <2>2 DEF Established, Replaying
  <2>3. CASE kind[c] # "readiness"
    <3>1. AtMergedHead(c)' /\ Verified(c)'
      BY <1>1, <1>5, <2>1, <2>3 DEF Established, AtMergedHead, Merged, Verified
    <3> QED BY <1>1, <1>2, <1>5, <1>6, <2>1, <2>3, <3>1 DEF Established, Replaying, AtMergedHead
  <2> QED BY <2>2, <2>3
<1>8. SameStory(c)'
  BY <1>1, <1>4, <1>5 DEF SameStory, Holding, Replaying, Established, Untouched
<1> QED BY <1>3, <1>4, <1>5, <1>7, <1>8, QuietStep

LEMMA AuthorizeKeeps ==
    ASSUME DeliveryInvariant, NEW c \in Call, Authorize(c)
    PROVE  DeliveryInvariant'
<1> USE DEF Authorize, Step, hosting, records
<1>1. Established(c) /\ SameStory(c) /\ pc[c] = "authorizing"
  BY DEF DeliveryInvariant
<1>2. target[c] \in Pr
  BY <1>1 DEF Established
<1>3. TypeOK'
  BY <1>2 DEF DeliveryInvariant, TypeOK, call, Place
<1>4. \A d \in Call : d # c => Untouched(d)
  BY DEF DeliveryInvariant, TypeOK, Untouched, call
<1>5. /\ pc'[c] = "patching" /\ seen'[c] = seen[c]
      /\ kind'[c] = kind[c] /\ target'[c] = target[c] /\ payload'[c] = payload[c]
  BY DEF DeliveryInvariant, TypeOK, call
<1>6. Established(c)'
  BY <1>1, <1>2, <1>5
  DEF Established, Replaying, Merged, Overridden, ReportsFor
<1>7. SameStory(c)'
  BY <1>1, <1>4, <1>5 DEF SameStory, Holding, Replaying, Established, Untouched
<1> QED BY <1>3, <1>4, <1>5, <1>6, <1>7, QuietStep

LEMMA LoadHandoffKeeps ==
    ASSUME DeliveryInvariant, NEW c \in Call, LoadHandoff(c)
    PROVE  DeliveryInvariant'
<1> PICK w \in Loadable(target[c], seen[c]) : payload' = [payload EXCEPT ![c] = {w}]
  BY DEF LoadHandoff
<1> DEFINE loaded == HandedOver(target[c], seen[c])
<1> USE DEF LoadHandoff, Step, hosting, records
<1>1. /\ Established(c) /\ SameStory(c) /\ pc[c] = "loading" /\ kind[c] = "automation"
      /\ AtMergedHead(c) /\ target[c] \in Pr
  BY DEF DeliveryInvariant, Established
<1>2. loaded \subseteq Payload /\ loaded = {w} /\ w \in Payload
  BY DEF Loadable, HandedOver, DeliveryInvariant, TypeOK
<1>3. TypeOK'
  <2>1. pc' \in [Call -> Place] /\ payload' \in [Call -> SUBSET Payload]
    BY <1>2 DEF DeliveryInvariant, TypeOK, Place
  <2> QED BY <2>1 DEF DeliveryInvariant, TypeOK
<1>4. \A d \in Call : d # c => Untouched(d)
  BY DEF DeliveryInvariant, TypeOK, Untouched
<1>5. /\ pc'[c] = "merging" /\ seen'[c] = seen[c] /\ payload'[c] = {w}
      /\ kind'[c] = kind[c] /\ target'[c] = target[c]
  BY DEF DeliveryInvariant, TypeOK
<1>6. [pr |-> target[c], head |-> head[target[c]], payload |-> w] \in handoffs
  <2>1. PICK r \in handoffs : r.pr = target[c] /\ r.head = seen[c] /\ r.payload = w
    BY DEF Loadable, HandedOver
  <2>2. r = [pr |-> target[c], head |-> head[target[c]], payload |-> w]
    BY <1>1, <2>1 DEF AtMergedHead, DeliveryInvariant, TypeOK
  <2> QED BY <2>2
<1>7. Established(c)'
  BY <1>1, <1>5, <1>6 DEF Established, Replaying, AtMergedHead, Merged
<1>8. ASSUME NEW r \in reports, r.by = "automation", r.pr = target[c]
      PROVE  r.payload \in loaded
  <2> DEFINE h == [pr |-> r.pr, head |-> head[r.pr], payload |-> r.payload]
  <2>1. h \in handoffs
    BY <1>8 DEF DeliveryInvariant, AutomationReplays
  <2>2. h.pr = target[c] /\ h.head = seen[c] /\ h.payload = r.payload
    BY <1>1, <1>8 DEF AtMergedHead
  <2> QED BY <2>1, <2>2 DEF HandedOver
<1>9. ASSUME NEW d \in Call, d # c, Holding(d), target[d] = target[c]
      PROVE  payload[d] = {w}
  <2>1. PICK v \in Payload : payload[d] = {v}
    BY <1>9 DEF DeliveryInvariant, SameStory
  <2>2. [pr |-> target[d], head |-> head[target[d]], payload |-> v] \in handoffs
    BY <1>9, <2>1 DEF DeliveryInvariant, Established, Holding
  <2>3. v \in loaded
    <3> DEFINE h == [pr |-> target[d], head |-> head[target[d]], payload |-> v]
    <3>1. h \in handoffs /\ h.pr = target[c] /\ h.head = seen[c] /\ h.payload = v
      BY <1>1, <1>9, <2>2 DEF AtMergedHead
    <3> QED BY <3>1 DEF HandedOver
  <2> QED BY <1>2, <2>1, <2>3
<1>10. SameStory(c)'
  BY <1>2, <1>4, <1>5, <1>8, <1>9 DEF SameStory, Holding, Replaying, Untouched
<1> QED BY <1>3, <1>4, <1>5, <1>7, <1>10, QuietStep

LEMMA FindReportKeeps ==
    ASSUME DeliveryInvariant, NEW c \in Call, FindReport(c)
    PROVE  DeliveryInvariant'
<1>1. /\ Established(c) /\ SameStory(c) /\ pc[c] = "looking" /\ target[c] \in Pr
  BY DEF DeliveryInvariant, Established, FindReport
<1>2. /\ UNCHANGED <<hosting, records, closedFor, calls>>
      /\ TurnToClose(c, "looking") \/ (Step(c, "looking", "reporting") /\ UNCHANGED call)
  BY Zenon DEF FindReport
<1> USE <1>2 DEF TurnToClose, Step, hosting, records, call
<1>3. TypeOK'
  <2>1. CASE TurnToClose(c, "looking")
    BY <2>1 DEF DeliveryInvariant, TypeOK, Place
  <2>2. CASE Step(c, "looking", "reporting") /\ UNCHANGED call
    BY <2>2 DEF DeliveryInvariant, TypeOK, Place
  <2> QED BY <2>1, <2>2
<1>4. \A d \in Call : d # c => Untouched(d)
  BY DEF DeliveryInvariant, TypeOK, Untouched
<1>5. /\ kind'[c] = kind[c] /\ target'[c] = target[c]
      /\ \/ pc'[c] = "linking"
         \/ pc'[c] = "reporting" /\ seen'[c] = seen[c] /\ payload'[c] = payload[c]
  BY DEF DeliveryInvariant, TypeOK
<1>6. Established(c)' /\ SameStory(c)'
  <2>1. CASE pc'[c] = "linking"
    BY <1>1, <1>5, <2>1 DEF Established, SameStory, Holding, Replaying
  <2>2. CASE pc'[c] = "reporting" /\ seen'[c] = seen[c] /\ payload'[c] = payload[c]
    <3>1. Established(c)'
      BY <1>1, <1>5, <2>2 DEF Established, Replaying, AtMergedHead, Merged, Verified
    <3>2. SameStory(c)'
      BY <1>1, <1>4, <1>5, <2>2 DEF SameStory, Holding, Replaying, Untouched
    <3> QED BY <3>1, <3>2
  <2> QED BY <1>5, <2>1, <2>2
<1> QED BY <1>3, <1>4, <1>5, <1>6, QuietStep

LEMMA ResolvePrKeeps ==
    ASSUME DeliveryInvariant, NEW c \in Call, ResolvePr(c)
    PROVE  DeliveryInvariant'
<1> USE DEF ResolvePr, Step, hosting, records
<1>1. Established(c) /\ SameStory(c) /\ pc[c] = "linking"
  BY DEF DeliveryInvariant
<1>2. PICK p \in IF kind[c] = "close" THEN Pr ELSE {target[c]} :
          Merged(p) /\ target' = [target EXCEPT ![c] = p]
  OBVIOUS
<1>3. /\ pc'[c] = "closing" /\ kind'[c] = kind[c] /\ target'[c] = p
      /\ seen'[c] = seen[c] /\ payload'[c] = payload[c]
  BY <1>2 DEF DeliveryInvariant, TypeOK
<1>4. p \in Pr
  BY <1>1, <1>2 DEF Established
<1>5. TypeOK'
  <2>1. pc' \in [Call -> Place] /\ target' \in [Call -> Pr \cup {NoPr}]
    BY <1>2, <1>4 DEF DeliveryInvariant, TypeOK, Place
  <2> QED BY <2>1 DEF DeliveryInvariant, TypeOK
<1>6. \A d \in Call : d # c => Untouched(d)
  BY <1>2 DEF DeliveryInvariant, TypeOK, Untouched
<1>7. Established(c)' /\ SameStory(c)'
  BY <1>1, <1>2, <1>3, <1>4 DEF Established, SameStory, Holding, Replaying, Merged
<1> QED BY <1>3, <1>5, <1>6, <1>7, QuietStep

LEMMA ReadIssueKeeps ==
    ASSUME DeliveryInvariant, NEW c \in Call, ReadIssue(c)
    PROVE  DeliveryInvariant'
<1> USE DEF ReadIssue, hosting, records
<1>1. CASE closedFor # NoPr
  <2>1. Answer(c)
    BY <1>1
  <2>2. TypeOK'
    BY <2>1, AnswerLeaves DEF DeliveryInvariant, TypeOK
  <2> QED BY <2>1, <2>2, AnswerLeaves, QuietStep
<1>2. CASE closedFor = NoPr
  <2> USE <1>2 DEF Step, call
  <2>1. Established(c) /\ SameStory(c) /\ pc[c] = "closing"
    BY DEF DeliveryInvariant
  <2>2. TypeOK'
    BY DEF DeliveryInvariant, TypeOK, Place
  <2>3. \A d \in Call : d # c => Untouched(d)
    BY DEF DeliveryInvariant, TypeOK, Untouched
  <2>4. /\ pc'[c] = "authorizing" /\ seen'[c] = seen[c]
        /\ kind'[c] = kind[c] /\ target'[c] = target[c] /\ payload'[c] = payload[c]
    BY DEF DeliveryInvariant, TypeOK
  <2>5. Established(c)'
    BY <2>1, <2>4 DEF Established, Replaying, Merged
  <2>6. SameStory(c)'
    BY <2>1, <2>4 DEF SameStory, Holding, Replaying
  <2> QED BY <2>2, <2>3, <2>4, <2>5, <2>6, QuietStep
<1> QED BY <1>1, <1>2

-----------------------------------------------------------------------------
(* The steps of a call that write a record.                                *)

LEMMA RecordHandoffKeeps ==
    ASSUME DeliveryInvariant, NEW c \in Call, RecordHandoff(c)
    PROVE  DeliveryInvariant'
<1> USE DEF RecordHandoff, HandoffHead, Step, hosting
<1>1. /\ Established(c) /\ SameStory(c) /\ pc[c] = "handing" /\ target[c] \in Pr
      /\ <<target[c], seen[c]>> \in green \cap everSynced
  BY DEF DeliveryInvariant, Established
<1>2. Accumulates
  BY DEF Accumulates, Merged
<1>3. TypeOK'
  <2>1. pc' \in [Call -> Place] /\ UNCHANGED <<kind, target, payload, seen>>
    BY DEF DeliveryInvariant, TypeOK, Place, call
  <2>2. payload[c] \subseteq Payload /\ seen[c] \in Nat
    BY DEF DeliveryInvariant, TypeOK
  <2>3. ASSUME NEW w \in payload[c]
        PROVE  [pr |-> target[c], head |-> HandoffHead(c), payload |-> w]
                 \in [pr : Pr, head : Nat, payload : Payload]
    BY <1>1, <2>2
  <2>4. handoffs' \subseteq [pr : Pr, head : Nat, payload : Payload]
    <3>1. handoffs \subseteq [pr : Pr, head : Nat, payload : Payload]
      BY DEF DeliveryInvariant, TypeOK
    <3>2. handoffs' = handoffs \cup
            {[pr |-> target[c], head |-> HandoffHead(c), payload |-> w] : w \in payload[c]}
      BY DEF RecordHandoff
    <3> HIDE DEF RecordHandoff, HandoffHead
    <3> QED BY <2>3, <3>1, <3>2
  <2> QED BY <2>1, <2>4 DEF DeliveryInvariant, TypeOK
<1>4. \A d \in Call : d # c => Untouched(d)
  BY DEF DeliveryInvariant, TypeOK, Untouched, call
<1>5. /\ pc'[c] = "pointing back" /\ seen'[c] = seen[c]
      /\ kind'[c] = kind[c] /\ target'[c] = target[c] /\ payload'[c] = payload[c]
  BY DEF DeliveryInvariant, TypeOK, call
<1>6. Established(c)' /\ SameStory(c)'
  BY <1>1, <1>5 DEF Established, SameStory, Holding, Replaying
<1>7. \A d \in Call : Established(d)' /\ SameStory(d)'
  BY <1>2, <1>4, <1>6, OthersStay
<1>8. HandoffBound'
  <2>1. ASSUME NEW r \in handoffs', r \notin handoffs
        PROVE  r.pr = target[c] /\ r.head = seen[c]
    <3>1. PICK w \in payload[c] :
            r = [pr |-> target[c], head |-> HandoffHead(c), payload |-> w]
      BY <2>1 DEF RecordHandoff
    <3> QED BY <3>1 DEF HandoffHead
  <2> QED BY <1>1, <2>1 DEF DeliveryInvariant, HandoffBound
<1>9. ReportsEarned' /\ AutomationReplays' /\ AutomationAgrees'
  BY DEF DeliveryInvariant, ReportsEarned, AutomationReplays, AutomationAgrees, Merged
<1>10. ClosedIsValidated' /\ SyncedOnce'
  BY <1>2, ClosePersists DEF DeliveryInvariant, SyncedOnce
<1> QED BY <1>3, <1>7, <1>8, <1>9, <1>10 DEF DeliveryInvariant

LEMMA RecordPointerKeeps ==
    ASSUME DeliveryInvariant, NEW c \in Call, RecordPointer(c)
    PROVE  DeliveryInvariant'
<1> USE DEF RecordPointer, hosting
<1>1. TypeOK'
  BY AnswerLeaves DEF DeliveryInvariant, TypeOK
<1> QED BY <1>1, AnswerLeaves, QuietStep

LEMMA PostReportKeeps ==
    ASSUME DeliveryInvariant, NEW c \in Call, PostReport(c)
    PROVE  DeliveryInvariant'
<1> USE DEF PostReport, TurnToClose, Step, hosting
<1>1. /\ Established(c) /\ SameStory(c) /\ pc[c] = "reporting" /\ target[c] \in Pr
      /\ AtMergedHead(c) /\ Verified(c) /\ <<target[c], seen[c]>> \in everSynced
  BY DEF DeliveryInvariant, Established
<1>2. Accumulates
  BY DEF Accumulates, Merged
<1>3. TypeOK'
  <2>1. /\ pc' \in [Call -> Place] /\ seen' \in [Call -> Nat]
        /\ payload' \in [Call -> SUBSET Payload] /\ UNCHANGED <<kind, target>>
    BY DEF DeliveryInvariant, TypeOK, Place
  <2>2. payload[c] \subseteq Payload /\ seen[c] \in Nat /\ kind[c] \in Kind
    BY DEF DeliveryInvariant, TypeOK
  <2>3. reports' \subseteq [pr : Pr, by : Kind, head : Nat, payload : Payload]
    BY <1>1, <2>2 DEF DeliveryInvariant, TypeOK
  <2> QED BY <2>1, <2>3 DEF DeliveryInvariant, TypeOK
<1>4. \A d \in Call : d # c => Untouched(d)
  BY DEF DeliveryInvariant, TypeOK, Untouched
<1>5. pc'[c] = "linking" /\ kind'[c] = kind[c] /\ target'[c] = target[c]
  BY DEF DeliveryInvariant, TypeOK
<1>6. Established(c)' /\ SameStory(c)'
  BY <1>1, <1>5 DEF Established, SameStory, Holding, Replaying
<1>7. \A r \in reports' \ reports :
         /\ r.by = kind[c] /\ r.pr = target[c] /\ r.head = seen[c]
         /\ r.payload \in payload[c]
  OBVIOUS
<1>8. \A d \in Call : Established(d)' /\ SameStory(d)'
  <2>1. \A r \in reports' \ reports : r.by = "automation" =>
          Holding(c) /\ r.pr = target[c] /\ r.payload \in payload[c]
    BY <1>1, <1>7 DEF Holding, Replaying
  <2> QED BY <1>2, <1>4, <1>6, <2>1, OthersStay
<1>9. HandoffBound'
  BY DEF DeliveryInvariant, HandoffBound
<1>10. ReportsEarned'
  <2>1. \A r \in reports' \ reports :
          /\ Merged(r.pr) /\ r.head = head[r.pr] /\ <<r.pr, r.head>> \in everSynced
          /\ <<r.head, r.payload>> \in Sound \/ r.pr \in overrides
    BY <1>1, <1>7 DEF AtMergedHead, Verified
  <2> QED BY <2>1 DEF DeliveryInvariant, ReportsEarned, Merged
<1>11. AutomationReplays'
  <2>1. \A r \in reports' \ reports : r.by = "automation" =>
          [pr |-> r.pr, head |-> head[r.pr], payload |-> r.payload] \in handoffs
    BY <1>1, <1>7 DEF Established, Replaying
  <2> QED BY <2>1 DEF DeliveryInvariant, AutomationReplays
<1>12. AutomationAgrees'
  <2> SUFFICES ASSUME NEW r \in reports', NEW s \in reports', r.by = "automation",
                      s.by = "automation", r.pr = s.pr
               PROVE  r.payload = s.payload
    BY DEF AutomationAgrees
  <2>1. CASE r \in reports /\ s \in reports
    BY <2>1 DEF DeliveryInvariant, AutomationAgrees
  <2>2. CASE r \notin reports \/ s \notin reports
    <3>1. kind[c] = "automation" /\ r.pr = target[c] /\ s.pr = target[c]
      BY <1>7, <2>2
    <3>2. PICK w \in Payload : payload[c] = {w}
      BY <1>1, <3>1 DEF SameStory, Holding, Replaying
    <3>3. r.payload \in payload[c] /\ s.payload \in payload[c]
      BY <1>1, <1>7, <3>1 DEF SameStory, Holding, Replaying
    <3> QED BY <3>2, <3>3
  <2> QED BY <2>1, <2>2
<1>13. ClosedIsValidated' /\ SyncedOnce'
  BY <1>2, ClosePersists DEF DeliveryInvariant, SyncedOnce
<1> QED BY <1>3, <1>8, <1>9, <1>10, <1>11, <1>12, <1>13 DEF DeliveryInvariant

LEMMA CloseKeeps ==
    ASSUME DeliveryInvariant, NEW c \in Call, Close(c)
    PROVE  DeliveryInvariant'
<1> USE DEF Close, hosting, records
<1>1. /\ Established(c) /\ target[c] \in Pr /\ Merged(target[c])
      /\ target[c] \in overrides \/ ReportsFor(target[c]) # {}
  BY DEF DeliveryInvariant, Established
<1>2. Accumulates
  BY DEF Accumulates, Merged
<1>3. TypeOK'
  BY <1>1, AnswerLeaves DEF DeliveryInvariant, TypeOK
<1>4. \A d \in Call : Established(d)' /\ SameStory(d)'
  BY <1>2, AnswerLeaves, OthersStay
<1>5. HandoffBound' /\ ReportsEarned' /\ AutomationReplays' /\ AutomationAgrees'
  BY <1>2, RecordsPersist
<1>6. ClosedIsValidated'
  <2>1. ASSUME NEW r \in ReportsFor(target[c]), target[c] \notin overrides
        PROVE  <<head[target[c]], r.payload>> \in Sound
    BY <2>1 DEF ReportsFor, DeliveryInvariant, ReportsEarned
  <2> QED BY <1>1, <2>1 DEF ClosedIsValidated, ReportsFor, Merged
<1>7. SyncedOnce'
  BY DEF DeliveryInvariant, SyncedOnce
<1> QED BY <1>3, <1>4, <1>5, <1>6, <1>7 DEF DeliveryInvariant

-----------------------------------------------------------------------------
(* People, GitHub and the publishes move while calls wait.                 *)

LEMMA WorldKeeps ==
    ASSUME DeliveryInvariant, Accumulates, UNCHANGED <<records, pc, call>>,
           closedFor' \in {closedFor, NoPr},
           state' \in [Pr -> {"open", "merged"}], head' \in [Pr -> Nat \ {0}],
           synced' \in [Pr -> Nat], SyncedOnce'
    PROVE  DeliveryInvariant'
<1> USE DEF records, call
<1>1. TypeOK'
  BY DEF DeliveryInvariant, TypeOK
<1>2. \A d \in Call : Established(d)' /\ SameStory(d)'
  <2>1. \A d \in Call : Untouched(d)
    BY DEF Untouched
  <2>2. \A d \in Call : SameStory(d)'
    BY DEF DeliveryInvariant, SameStory, Holding, Replaying
  <2> QED BY <2>1, <2>2, EstablishedPersists DEF DeliveryInvariant
<1>3. HandoffBound' /\ ReportsEarned' /\ AutomationReplays' /\ AutomationAgrees'
  BY RecordsPersist
<1>4. ClosedIsValidated'
  BY ClosePersists DEF ClosedIsValidated
<1> QED BY <1>1, <1>2, <1>3, <1>4 DEF DeliveryInvariant

LEMMA PeopleKeep ==
    ASSUME DeliveryInvariant, NEW p \in Pr,
           Push(p) \/ Synchronize(p) \/ Merge(p) \/ Override(p)
    PROVE  DeliveryInvariant'
<1> USE DEF DeliveryInvariant, TypeOK
<1>1. CASE Push(p)
  <2> USE <1>1 DEF Push
  <2>1. Accumulates
    BY DEF Accumulates, Merged, records
  <2>2. head' \in [Pr -> Nat \ {0}]
    OBVIOUS
  <2>3. SyncedOnce'
    BY DEF SyncedOnce
  <2> QED BY <2>1, <2>2, <2>3, WorldKeeps
<1>2. CASE Synchronize(p)
  <2>1. PICK h \in 1..head[p] :
          /\ synced' = [synced EXCEPT ![p] = h]
          /\ everSynced' = everSynced \cup {<<p, h>>}
          /\ UNCHANGED <<state, head, green, overrides, records, closedFor, calls, pc, call>>
    BY <1>2 DEF Synchronize
  <2>2. Accumulates
    BY <2>1 DEF Accumulates, Merged, records
  <2>3. synced' \in [Pr -> Nat]
    BY <2>1
  <2>4. SyncedOnce'
    BY <2>1 DEF SyncedOnce
  <2> QED BY <2>1, <2>2, <2>3, <2>4, WorldKeeps
<1>3. CASE Merge(p)
  <2> USE <1>3 DEF Merge
  <2>1. Accumulates
    BY DEF Accumulates, Merged, records
  <2>2. state' \in [Pr -> {"open", "merged"}] /\ SyncedOnce'
    BY DEF SyncedOnce
  <2> QED BY <2>1, <2>2, WorldKeeps
<1>4. CASE Override(p)
  <2> USE <1>4 DEF Override
  <2>1. Accumulates /\ SyncedOnce'
    BY DEF Accumulates, Merged, records, SyncedOnce
  <2> QED BY <2>1, WorldKeeps
<1> QED BY <1>1, <1>2, <1>3, <1>4

LEMMA ReopenKeeps ==
    ASSUME DeliveryInvariant, Reopen PROVE DeliveryInvariant'
<1> USE DEF Reopen, hosting
<1>1. Accumulates /\ SyncedOnce'
  BY DEF Accumulates, Merged, records, SyncedOnce, DeliveryInvariant
<1> QED BY <1>1, WorldKeeps DEF DeliveryInvariant, TypeOK

LEMMA StutterKeeps ==
    ASSUME DeliveryInvariant, UNCHANGED vars PROVE DeliveryInvariant'
<1> USE DEF vars, hosting
<1>1. Accumulates /\ SyncedOnce'
  BY DEF Accumulates, Merged, records, SyncedOnce, DeliveryInvariant
<1> QED BY <1>1, WorldKeeps DEF DeliveryInvariant, TypeOK

-----------------------------------------------------------------------------
(* The inductive invariant: what every call has established, and what the  *)
(* records say, hold in every reachable state (completion.js, assert-      *)
(* completion.js, phase-e-automation.js and close-issue.js together).      *)
THEOREM DeliveryInvariantHolds == Spec => []DeliveryInvariant
<1>1. DeliveryInvariant /\ [Next]_vars => DeliveryInvariant'
  <2> SUFFICES ASSUME DeliveryInvariant, [Next]_vars PROVE DeliveryInvariant'
    OBVIOUS
  <2>1. CASE \E c \in Call : CallStep(c)
    <3> PICK c \in Call : CallStep(c)
      BY <2>1
    <3> QED
      BY BeginKeeps, StopKeeps, GatesGreenKeeps, ChainHoldsKeeps, RecordHandoffKeeps,
         RecordPointerKeeps, FetchPrKeeps, ReadPointerKeeps, LoadHandoffKeeps,
         AssertMergedKeeps, VerifyRequirementsKeeps, FindReportKeeps, PostReportKeeps,
         ResolvePrKeeps, ReadIssueKeeps, AuthorizeKeeps, CloseKeeps DEF CallStep
  <2>2. CASE \E p \in Pr : Push(p) \/ Synchronize(p) \/ Merge(p) \/ Override(p)
    BY <2>2, PeopleKeep
  <2>3. CASE Reopen
    BY <2>3, ReopenKeeps
  <2>4. CASE UNCHANGED vars
    BY <2>4, StutterKeeps
  <2> QED BY <2>1, <2>2, <2>3, <2>4 DEF Next
<1> QED BY <1>1, InvariantInit, PTL DEF Spec

(* A handoff names one head, both synchronized and with its checks read as *)
(* passed, although the head moves while the handoff is written            *)
(* (completion.js, recordHandoff).                                         *)
THEOREM HandoffsAreBound == Spec => []HandoffBound
<1>1. DeliveryInvariant => HandoffBound
  BY DEF DeliveryInvariant
<1> QED BY <1>1, DeliveryInvariantHolds, PTL

(* Whoever finalizes, and however many do at a time, every final report is *)
(* true of the merged head (assert-completion-post-merge.js).              *)
THEOREM ReportsAreEarned == Spec => []ReportsEarned
<1>1. DeliveryInvariant => ReportsEarned
  BY DEF DeliveryInvariant
<1> QED BY <1>1, DeliveryInvariantHolds, PTL

(* Whatever runAutomatedPhaseE reports was handed over for the merged head *)
(* (phase-e-automation.js).                                                *)
THEOREM AutomationOnlyReplays == Spec => []AutomationReplays
<1>1. DeliveryInvariant => AutomationReplays
  BY DEF DeliveryInvariant
<1> QED BY <1>1, DeliveryInvariantHolds, PTL

(* Any number of runs of runAutomatedPhaseE beside each other, with        *)
(* nothing to serialize them, report one thing of a pull request: handoffs *)
(* are never taken back and a run goes on only with the single one of the  *)
(* merged head, so what two of them load is the same.                      *)
THEOREM AutomationNeverDiffers == Spec => []AutomationAgrees
<1>1. DeliveryInvariant => AutomationAgrees
  BY DEF DeliveryInvariant
<1> QED BY <1>1, DeliveryInvariantHolds, PTL

(* The issue is closed only for a merged pull request of its own report or *)
(* waiver, after any number of reopenings (close-issue.js,                 *)
(* closeIssueIdempotently).                                                *)
THEOREM ClosedAfterValidation == Spec => []ClosedIsValidated
<1>1. DeliveryInvariant => ClosedIsValidated
  BY DEF DeliveryInvariant
<1> QED BY <1>1, DeliveryInvariantHolds, PTL
=============================================================================
