------------------------------- MODULE Delivery -------------------------------
(***************************************************************************)
(* The end of a delivery (mcp/ground-control/implement/completion.js,      *)
(* implement/phase-e-automation.js, lib/assert-completion.js,              *)
(* lib/close-issue.js): a pull request is made ready, a person merges it,  *)
(* the merged requirements are verified, a final report is posted and the  *)
(* issue is closed - by an agent that comes back, by the workflow the      *)
(* merge starts, or by a repair, and by more than one of them at a time.   *)
(*                                                                         *)
(* One issue, all of whose state is on GitHub, and the pull requests its   *)
(* timeline links to.  Refusals that no other state depends on (an open    *)
(* execution obligation, the lane, the scope of the issue, a request that  *)
(* fails) are all Stop.                                                    *)
(***************************************************************************)
EXTENDS Naturals

CONSTANTS
    Call,       \* calls under way at a time
    Pr, NoPr,   \* pull requests linked to the issue
    Payload,    \* what a completion may report
    MaxHead,    \* bound on the heads of each pull request
    MaxCalls,   \* bound on the calls of a behaviour
    Asked,      \* bound on what they are: <<kind, pull request>>
    Sound       \* <<head, payload>>: the files at that head are as reported

ASSUME DeliveryAssumption ==
    /\ NoPr \notin Pr
    /\ MaxHead \in [Pr -> Nat \ {0}] /\ MaxCalls \in Nat
    /\ Sound \subseteq (Nat \X Payload)

VARIABLES
    state, head,            \* of each pull request; its head stands once it is merged
    green,                  \* history: heads whose required checks were read as passed
    synced,                 \* the latest synchronization record of its branch; 0: none
    everSynced,             \* history: heads that had a synchronization record
    overrides,              \* pull requests whose requirement state a person waived
    handoffs, pointers,     \* delivery-readiness records; pull requests with a pointer
    reports,                \* final reports posted
    closedFor,              \* the pull request the issue was closed for; NoPr: open
    calls,                  \* calls begun so far
    pc, kind, target, payload, seen   \* of each call

hosting == <<state, head, green, synced, everSynced, overrides>>
records == <<handoffs, pointers, reports>>
call == <<kind, target, payload, seen>>
vars == <<hosting, records, closedFor, calls, pc, call>>

Kind == {"readiness", "finalize", "automation", "close"}
Place == {"idle", "gates", "chain", "handing", "pointing back",
          "fetching", "finding the issue", "loading",
          "merging", "verifying", "looking", "reporting",
          "linking", "closing", "authorizing", "patching"}

-----------------------------------------------------------------------------
Init ==
    /\ state = [p \in Pr |-> "open"]
    /\ head = [p \in Pr |-> 1]
    /\ green = {} /\ synced = [p \in Pr |-> 0] /\ everSynced = {}
    /\ overrides = {}
    /\ handoffs = {} /\ pointers = {} /\ reports = {} /\ closedFor = NoPr
    /\ calls = 0
    /\ pc = [c \in Call |-> "idle"]
    /\ kind = [c \in Call |-> "close"]
    /\ target = [c \in Call |-> NoPr]
    /\ payload = [c \in Call |-> {}]
    /\ seen = [c \in Call |-> 0]

Step(c, from, to) == pc[c] = from /\ pc' = [pc EXCEPT ![c] = to]

Answer(c) ==
    /\ pc' = [pc EXCEPT ![c] = "idle"]
    /\ kind' = [kind EXCEPT ![c] = "close"]
    /\ target' = [target EXCEPT ![c] = NoPr]
    /\ payload' = [payload EXCEPT ![c] = {}]
    /\ seen' = [seen EXCEPT ![c] = 0]

Merged(p) == state[p] = "merged"

Enter(c, k, first, p, ws) ==
    /\ pc[c] = "idle" /\ calls < MaxCalls /\ <<k, p>> \in Asked
    /\ calls' = calls + 1
    /\ pc' = [pc EXCEPT ![c] = first]
    /\ kind' = [kind EXCEPT ![c] = k]
    /\ target' = [target EXCEPT ![c] = p]
    /\ payload' = [payload EXCEPT ![c] = ws]
    /\ UNCHANGED <<hosting, records, closedFor, seen>>

(* A completion reports what its caller says.                              *)
BeginReadiness(c) == \E p \in Pr, w \in Payload : Enter(c, "readiness", "gates", p, {w})

BeginFinalize(c) == \E p \in Pr, w \in Payload : Enter(c, "finalize", "merging", p, {w})

(* GitHub runs one workflow per pull request at a time; the repair tool    *)
(* gc_finalize_merged_pr runs the same code beside it.                     *)
BeginAutomation(c) == \E p \in Pr : Enter(c, "automation", "fetching", p, {})

BeginClose(c) == Enter(c, "close", "linking", NoPr, {})

(* A refusal, a request that fails, or the end of the process.             *)
Stop(c) ==
    /\ pc[c] # "idle"
    /\ Answer(c)
    /\ UNCHANGED <<hosting, records, closedFor, calls>>

-----------------------------------------------------------------------------
(* Mutant: the head need not be the one that was synchronized.             *)
AnyBranchRecord(p, h) == synced[p] # 0

(* deliveredHeadRefusal: the latest record of the branch binds this head.  *)
DeliveredHead(p, h) == synced[p] = h

(* Both phases of a completion assert the delivery chain.                  *)
ChainHolds(c) ==
    /\ Step(c, "chain", IF kind[c] = "readiness" THEN "handing" ELSE "looking")
    /\ DeliveredHead(target[c], seen[c])
    /\ UNCHANGED <<hosting, records, closedFor, calls, call>>

-----------------------------------------------------------------------------
(* Readiness: the handoff is bound to the head whose checks were read.     *)

(* Checks that have not passed are a Stop.                                 *)
GatesGreen(c) ==
    /\ Step(c, "gates", "chain")
    /\ state[target[c]] = "open"
    /\ seen' = [seen EXCEPT ![c] = head[target[c]]]
    /\ green' = green \cup {<<target[c], head[target[c]]>>}
    /\ UNCHANGED <<state, head, synced, everSynced, overrides,
                   records, closedFor, calls, kind, target, payload>>

(* Mutant: the head is read again when the handoff is written.             *)
HeadReread(c) == head[target[c]]

HandoffHead(c) == seen[c]

(* The record on the issue first, then the pointer on the pull request.    *)
RecordHandoff(c) ==
    /\ Step(c, "handing", "pointing back")
    /\ handoffs' = handoffs \cup
         {[pr |-> target[c], head |-> HandoffHead(c), payload |-> w] : w \in payload[c]}
    /\ UNCHANGED <<hosting, pointers, reports, closedFor, calls, call>>

RecordPointer(c) ==
    /\ pc[c] = "pointing back"
    /\ pointers' = pointers \cup {target[c]}
    /\ Answer(c)
    /\ UNCHANGED <<hosting, handoffs, reports, closedFor, calls>>

-----------------------------------------------------------------------------
(* A merged pull request, without anybody's judgement.                     *)

FetchPr(c) ==
    /\ Step(c, "fetching", "finding the issue")
    /\ Merged(target[c])
    /\ seen' = [seen EXCEPT ![c] = head[target[c]]]
    /\ UNCHANGED <<hosting, records, closedFor, calls, kind, target, payload>>

ReadPointer(c) ==
    /\ Step(c, "finding the issue", "loading")
    /\ target[c] \in pointers
    /\ UNCHANGED <<hosting, records, closedFor, calls, call>>

(* Mutant: a handoff of any head will do.                                  *)
AnyHandoff(p, h) == {r.payload : r \in {r \in handoffs : r.pr = p}}

HandedOver(p, h) == {r.payload : r \in {r \in handoffs : r.pr = p /\ r.head = h}}

(* Mutant: of records that disagree one is taken.                          *)
AnyOfThem(p, h) == HandedOver(p, h)

(* Records that disagree about the merged head are refused.                *)
Loadable(p, h) == {w \in HandedOver(p, h) : HandedOver(p, h) = {w}}

LoadHandoff(c) ==
    /\ Step(c, "loading", "merging")
    /\ \E w \in Loadable(target[c], seen[c]) : payload' = [payload EXCEPT ![c] = {w}]
    /\ UNCHANGED <<hosting, records, closedFor, calls, kind, target, seen>>

-----------------------------------------------------------------------------
(* Finalization: verification at the merged head, and the report.          *)

AssertMerged(c) ==
    /\ Step(c, "merging", "verifying")
    /\ Merged(target[c])
    /\ seen' = [seen EXCEPT ![c] = head[target[c]]]
    /\ UNCHANGED <<hosting, records, closedFor, calls, kind, target, payload>>

Overridden(p) == p \in overrides

VerifyRequirements(c) ==
    /\ Step(c, "verifying", "chain")
    /\ {seen[c]} \X payload[c] \subseteq Sound \/ Overridden(target[c])
    /\ UNCHANGED <<hosting, records, closedFor, calls, call>>

(* Mutant: a report of the issue, for whatever pull request, counts.       *)
IssueReported(p) == reports

ReportsFor(p) == {r \in reports : r.pr = p}

(* A thread that cannot be read, or a report whose workflow run cannot be  *)
(* verified, is no report.                                                 *)
Found(p) == IF ReportsFor(p) = {} THEN {FALSE} ELSE BOOLEAN

(* Closing needs the pull request only.                                    *)
TurnToClose(c, from) ==
    /\ Step(c, from, "linking")
    /\ payload' = [payload EXCEPT ![c] = {}]
    /\ seen' = [seen EXCEPT ![c] = 0]
    /\ UNCHANGED <<kind, target>>

FindReport(c) ==
    /\ pc[c] = "looking"
    /\ \E found \in Found(target[c]) :
         IF found THEN TurnToClose(c, "looking")
         ELSE Step(c, "looking", "reporting") /\ UNCHANGED call
    /\ UNCHANGED <<hosting, records, closedFor, calls>>

PostReport(c) ==
    /\ TurnToClose(c, "reporting")
    /\ reports' = reports \cup {[pr |-> target[c], by |-> kind[c], head |-> seen[c], payload |-> w] :
                                w \in payload[c]}
    /\ UNCHANGED <<hosting, handoffs, pointers, closedFor, calls>>

-----------------------------------------------------------------------------
(* The close.                                                              *)

(* With no number, a merged pull request of the timeline.                  *)
ResolvePr(c) ==
    /\ Step(c, "linking", "closing")
    /\ \E p \in IF kind[c] = "close" THEN Pr ELSE {target[c]} :
           Merged(p) /\ target' = [target EXCEPT ![c] = p]
    /\ UNCHANGED <<hosting, records, closedFor, calls, kind, payload, seen>>

ReadIssue(c) ==
    /\ pc[c] = "closing"
    /\ IF closedFor # NoPr THEN Answer(c)
       ELSE Step(c, "closing", "authorizing") /\ UNCHANGED call
    /\ UNCHANGED <<hosting, records, closedFor, calls>>

Authorize(c) ==
    /\ Step(c, "authorizing", "patching")
    /\ ReportsFor(target[c]) # {} \/ Overridden(target[c])
    /\ UNCHANGED <<hosting, records, closedFor, calls, call>>

Close(c) ==
    /\ pc[c] = "patching"
    /\ closedFor' = target[c]
    /\ Answer(c)
    /\ UNCHANGED <<hosting, records, calls>>

-----------------------------------------------------------------------------
(* People and GitHub.                                                      *)

Push(p) ==
    /\ state[p] = "open" /\ head[p] < MaxHead[p]
    /\ head' = [head EXCEPT ![p] = @ + 1]
    /\ UNCHANGED <<state, green, synced, everSynced, overrides, records, closedFor, calls, pc, call>>

(* A publish posts its record after the push, by which time the head may   *)
(* have moved on.                                                          *)
Synchronize(p) ==
    \E h \in 1..head[p] :
        /\ <<p, h>> \notin everSynced
        /\ synced' = [synced EXCEPT ![p] = h]
        /\ everSynced' = everSynced \cup {<<p, h>>}
        /\ UNCHANGED <<state, head, green, overrides, records, closedFor, calls, pc, call>>

(* A person merges whatever the head is then, ready or not.                *)
Merge(p) ==
    /\ state[p] = "open"
    /\ state' = [state EXCEPT ![p] = "merged"]
    /\ UNCHANGED <<head, green, synced, everSynced, overrides, records, closedFor, calls, pc, call>>

Override(p) ==
    /\ overrides' = overrides \cup {p}
    /\ UNCHANGED <<state, head, green, synced, everSynced, records, closedFor, calls, pc, call>>

(* The issue is opened again for a second delivery.                        *)
Reopen ==
    /\ closedFor # NoPr
    /\ closedFor' = NoPr
    /\ UNCHANGED <<hosting, records, calls, pc, call>>

CallStep(c) ==
    \/ BeginReadiness(c) \/ BeginFinalize(c) \/ BeginAutomation(c) \/ BeginClose(c) \/ Stop(c)
    \/ GatesGreen(c) \/ ChainHolds(c) \/ RecordHandoff(c) \/ RecordPointer(c)
    \/ FetchPr(c) \/ ReadPointer(c) \/ LoadHandoff(c)
    \/ AssertMerged(c) \/ VerifyRequirements(c) \/ FindReport(c) \/ PostReport(c)
    \/ ResolvePr(c) \/ ReadIssue(c) \/ Authorize(c) \/ Close(c)

Next ==
    \/ \E c \in Call : CallStep(c)
    \/ \E p \in Pr : Push(p) \/ Synchronize(p) \/ Merge(p) \/ Override(p)
    \/ Reopen

Spec == Init /\ [][Next]_vars

-----------------------------------------------------------------------------
TypeOK ==
    /\ state \in [Pr -> {"open", "merged"}]
    /\ head \in [Pr -> Nat \ {0}]
    /\ synced \in [Pr -> Nat]
    /\ handoffs \subseteq [pr : Pr, head : Nat, payload : Payload]
    /\ reports \subseteq [pr : Pr, by : Kind, head : Nat, payload : Payload]
    /\ closedFor \in Pr \cup {NoPr}
    /\ pc \in [Call -> Place]
    /\ kind \in [Call -> Kind]
    /\ target \in [Call -> Pr \cup {NoPr}]
    /\ payload \in [Call -> SUBSET Payload]
    /\ seen \in [Call -> Nat]

(* A handoff names a head whose required checks passed and that had been   *)
(* synchronized, wherever the head has moved by the time it is written     *)
(* (completion.js: "a second read would ... open a window in which the     *)
(* head moves between the check and the binding").                         *)
HandoffBound == \A r \in handoffs : <<r.pr, r.head>> \in green \cap everSynced

(* Whoever posts it, a final report tells the truth: its pull request is   *)
(* merged at the reported head, that head had been synchronized, and the   *)
(* merged files are as it says unless a person waived them.                *)
ReportsEarned ==
    \A r \in reports :
        /\ Merged(r.pr) /\ r.head = head[r.pr]
        /\ <<r.pr, r.head>> \in everSynced
        /\ <<r.head, r.payload>> \in Sound \/ r.pr \in overrides

(* What runAutomatedPhaseE reports was handed over for the head that was   *)
(* merged, although it loads the handoff several requests before.          *)
AutomationReplays ==
    \A r \in reports : r.by = "automation" =>
        [pr |-> r.pr, head |-> head[r.pr], payload |-> r.payload] \in handoffs

(* Nothing serializes the workflow and a repair, and a readiness that was  *)
(* under way at the merge may hand over a second payload for the merged    *)
(* head between their reads; yet they never report two different things    *)
(* about one pull request (readTrustedDeliveryReadiness: disagreeing       *)
(* records are refused).                                                   *)
AutomationAgrees ==
    \A r, s \in reports :
        r.by = "automation" /\ s.by = "automation" /\ r.pr = s.pr => r.payload = s.payload

(* The issue is closed only for a merged pull request whose own merged     *)
(* files were verified and reported, or were waived for it.                *)
ClosedIsValidated ==
    closedFor # NoPr =>
        /\ Merged(closedFor)
        /\ \/ closedFor \in overrides
           \/ \E r \in ReportsFor(closedFor) : <<head[closedFor], r.payload>> \in Sound

-----------------------------------------------------------------------------
(* What the statements above rest on: what a call has established by the   *)
(* time it reaches a step.                                                 *)

Replaying == {"merging", "verifying", "chain", "looking", "reporting"}

Verified(c) ==
    {seen[c]} \X payload[c] \subseteq Sound \/ target[c] \in overrides

AtMergedHead(c) == Merged(target[c]) /\ seen[c] = head[target[c]]

Established(c) ==
    /\ pc[c] \notin {"idle", "linking"} \/ kind[c] # "close" => target[c] \in Pr
    /\ pc[c] = "gates" => kind[c] = "readiness"
    /\ pc[c] \in {"fetching", "finding the issue", "loading"} => kind[c] = "automation"
    /\ pc[c] \in {"merging", "verifying", "looking", "reporting"} => kind[c] # "readiness"
    /\ pc[c] \in {"handing", "chain"} => seen[c] # 0
    /\ pc[c] = "handing" \/ (pc[c] = "chain" /\ kind[c] = "readiness") =>
          <<target[c], seen[c]>> \in green
    /\ pc[c] \in {"handing", "looking", "reporting"} => <<target[c], seen[c]>> \in everSynced
    /\ \/ pc[c] \in {"finding the issue", "loading", "verifying", "looking", "reporting"}
       \/ pc[c] = "chain" /\ kind[c] # "readiness"
       => AtMergedHead(c)
    /\ pc[c] \in {"looking", "reporting"} \/ (pc[c] = "chain" /\ kind[c] # "readiness") =>
          Verified(c)
    /\ kind[c] = "automation" /\ pc[c] \in Replaying =>
          /\ Merged(target[c])
          /\ \A w \in payload[c] :
                [pr |-> target[c], head |-> head[target[c]], payload |-> w] \in handoffs
    /\ pc[c] \in {"closing", "authorizing", "patching"} => Merged(target[c])
    /\ pc[c] = "patching" => target[c] \in overrides \/ ReportsFor(target[c]) # {}

(* What a run is about to report is one thing, the one any other run of    *)
(* its pull request holds, and all that was ever reported so.              *)
Holding(c) == kind[c] = "automation" /\ pc[c] \in Replaying

SameStory(c) ==
    Holding(c) =>
      /\ \E w \in Payload : payload[c] = {w}
      /\ \A d \in Call : Holding(d) /\ target[d] = target[c] => payload[d] = payload[c]
      /\ \A r \in reports : r.by = "automation" /\ r.pr = target[c] => r.payload \in payload[c]

SyncedOnce == \A p \in Pr : synced[p] # 0 => <<p, synced[p]>> \in everSynced

DeliveryInvariant ==
    /\ TypeOK
    /\ SyncedOnce
    /\ \A c \in Call : Established(c)
    /\ \A c \in Call : SameStory(c)
    /\ HandoffBound
    /\ ReportsEarned
    /\ AutomationReplays /\ AutomationAgrees
    /\ ClosedIsValidated
=============================================================================
