------------------------------- MODULE Publish -------------------------------
(***************************************************************************)
(* One issue's feature branch on its way to a pull request                 *)
(* (mcp/ground-control/implement/publish.js, lib/codex-workflow-4.js and   *)
(* -5.js): publish commits and pushes the work, merges the base branch     *)
(* into it, pushes again and records on the issue which head contains      *)
(* which base; the pull request is created against that record.            *)
(*                                                                         *)
(* Calls work on one checkout.  Publish holds a lease on it and keeps a    *)
(* journal; the two synchronization tools and the creation of the pull     *)
(* request may be called while it runs.  A call may die at any point.      *)
(***************************************************************************)
EXTENDS Naturals, Sequences, SequencesExt, FiniteSets

CONSTANTS
    Call,           \* calls under way at a time
    Free, Orphan,   \* states of the lease that name no call
    Kinds,          \* what is called, a subset of AllKinds
    ResolvesFirst,  \* conflicts are resolved before publish is called again
    MaxRevision,    \* bound on the commits of the base branch
    MaxContent,     \* bound on the states of the work
    MaxCommits,     \* bound on the commits of the feature branch
    MaxAttempt,     \* bound on the record identities minted
    MaxRecords,     \* bound on the records posted
    AfterPr         \* bound: whether calls begin once there is a pull request

AllKinds == {"publish", "resume", "start", "complete", "create"}

ASSUME PublishAssumption ==
    /\ Free \notin Call /\ Orphan \notin Call /\ Free # Orphan
    /\ Kinds \subseteq AllKinds /\ ResolvesFirst \in BOOLEAN
    /\ {MaxRevision, MaxCommits} \subseteq Nat \ {0}
    /\ {MaxContent, MaxAttempt, MaxRecords} \subseteq Nat
    /\ AfterPr \in BOOLEAN

VARIABLES
    head, mergeHead, files, index,  \* the checkout; mergeHead 0: no merge under way
    tracking,                       \* refs/remotes/origin/<base>
    journal, lease,                 \* of publish, in the Git directory
    base, remote,                   \* on origin: the base and the feature branch
    thread, pr,                     \* on GitHub: records posted; the pull request
    minted, handles,                \* identities of attempts; those told to callers
    stager,                         \* history: what staged the merge under way
    pc, kind, handle, dirty, result, entry, since  \* of each call

checkout == <<head, mergeHead, stager, files, index, tracking>>
recovery == <<journal, lease>>
origin == <<base, remote>>
github == <<thread, pr>>
given == <<minted, handles>>
local == <<kind, handle, dirty, result, entry, since>>
vars == <<checkout, recovery, origin, github, given, pc, local>>

-----------------------------------------------------------------------------
(* Commits.  A branch is its history: each commit of it holds a state of   *)
(* the work and, when it is a merge, the base revision it merged.          *)

Revision == 1..MaxRevision
Content == 0..MaxContent
Commit == [base: 0..MaxRevision, content: Content, markers: BOOLEAN]
Branch == {b \in UNION {[1..n -> Commit] : n \in 1..MaxCommits} : b[1].base = 1}

Ancestor(r, b) == \E i \in DOMAIN b : b[i].base >= r

MergedBase(b) == CHOOSE r \in Revision : Ancestor(r, b) /\ \A i \in DOMAIN b : b[i].base <= r

Tree(b) == [content |-> Last(b).content, markers |-> Last(b).markers, base |-> MergedBase(b)]

IndexTree == [content |-> index.content, markers |-> index.markers,
              base |-> IF mergeHead = 0 THEN MergedBase(head) ELSE mergeHead]

(* Mutant: any commit will do for the one a completion is about.           *)
AnyParents(b, h) == TRUE

HasParents(b, h) == Len(b) > 1 /\ Front(b) = h.pre /\ Last(b).base = h.fetched

Text(f) == [content |-> f.content, markers |-> f.markers]

Staged == Text(index) = Text(files) /\ ~index.unmerged

(* git status --porcelain reports something.                               *)
Dirty == ~Staged \/ mergeHead # 0 \/ Text(index) # Text(Last(head))

NoJournal == [id |-> 0, pre |-> <<>>, fetched |-> 0, there |-> FALSE]
Handle(i, p, f) == [id |-> i, pre |-> p, fetched |-> f]
NoHandle == Handle(0, <<>>, 0)
NoEntry == [id |-> 0]

-----------------------------------------------------------------------------
Init ==
    /\ head = <<[base |-> 1, content |-> 0, markers |-> FALSE]>>
    /\ mergeHead = 0
    /\ files = [content |-> 0, markers |-> FALSE]
    /\ index = [content |-> 0, markers |-> FALSE, unmerged |-> FALSE]
    /\ tracking = 1 /\ base = 1 /\ remote = head
    /\ journal = NoJournal /\ lease = Free
    /\ thread = <<>> /\ pr = NoEntry
    /\ minted = <<>> /\ handles = {} /\ stager = "none"
    /\ pc = [c \in Call |-> "idle"]
    /\ kind = [c \in Call |-> "publish"]
    /\ handle = [c \in Call |-> NoHandle]
    /\ dirty = [c \in Call |-> FALSE]
    /\ result = [c \in Call |-> <<>>]
    /\ entry = [c \in Call |-> NoEntry]
    /\ since = [c \in Call |-> 0]

Step(c, from, to) == pc[c] = from /\ pc' = [pc EXCEPT ![c] = to]

(* What a call has read goes with its answer.                              *)
Forget(c) ==
    /\ handle' = [handle EXCEPT ![c] = NoHandle]
    /\ dirty' = [dirty EXCEPT ![c] = FALSE]
    /\ result' = [result EXCEPT ![c] = <<>>]
    /\ entry' = [entry EXCEPT ![c] = NoEntry]
    /\ since' = [since EXCEPT ![c] = 0]

Answer(c) ==
    /\ pc' = [pc EXCEPT ![c] = "idle"]
    /\ kind' = [kind EXCEPT ![c] = "publish"]
    /\ Forget(c)

Publishing(c) == kind[c] \in {"publish", "resume"}

(* The steps that follow the answer of a publish, well or not: the journal *)
(* is closed and the lease released.                                       *)
Leave(c) ==
    IF Publishing(c)
    THEN pc' = [pc EXCEPT ![c] = "closing"] /\ Forget(c) /\ UNCHANGED kind
    ELSE Answer(c)

(* A call begins.  Completions take the handle an answer named; publish    *)
(* screens the changed paths before it takes the lease.                    *)
Begin(c) ==
    /\ pc[c] = "idle"
    /\ pr = NoEntry \/ AfterPr
    /\ \E k \in Kinds :
         /\ k \in {"publish", "resume"} => ~(ResolvesFirst /\ files.markers)
         /\ k \in {"resume", "complete"} => handles # {}
         /\ kind' = [kind EXCEPT ![c] = k]
         /\ pc' = [pc EXCEPT ![c] = CASE k \in {"publish", "resume"} -> "leasing"
                                       [] k = "start" -> "starting"
                                       [] k = "complete" -> "completing"
                                       [] k = "create" -> "validating"]
         /\ IF k \in {"resume", "complete"}
            THEN \E h \in handles : handle' = [handle EXCEPT ![c] = h]
            ELSE UNCHANGED handle
         /\ dirty' = [dirty EXCEPT ![c] = Dirty /\ k \in {"publish", "resume"}]
         /\ since' = [since EXCEPT ![c] = IF k = "create" THEN base ELSE 0]
    /\ UNCHANGED <<checkout, recovery, origin, github, given, result, entry>>

(* A check refuses before anything is changed, or a command fails: Git, a  *)
(* hook, the signature, the network.                                       *)
Fail(c) ==
    /\ pc[c] \notin {"idle", "reconciling", "closing"}
    /\ IF pc[c] = "leasing" THEN Answer(c) ELSE Leave(c)
    /\ UNCHANGED <<checkout, recovery, origin, github, given>>

(* A command of publish itself throws: the lease is released in a finally, *)
(* the journal is left as it is.                                           *)
Throw(c) ==
    /\ pc[c] \in {"reconciling", "restaging", "staging", "sending"}
    /\ Answer(c) /\ lease' = Free
    /\ UNCHANGED <<checkout, journal, origin, github, given>>

Crash(c) ==
    /\ pc[c] # "idle"
    /\ Answer(c)
    /\ lease' = IF lease = c THEN Orphan ELSE lease
    /\ UNCHANGED <<checkout, journal, origin, github, given>>

-----------------------------------------------------------------------------
(* Publish: lease and journal.                                             *)

(* Mutant: the lease of another publish does not stand in the way.         *)
LeaseIgnored(c) == TRUE

(* The lease of a process that died is stale and is taken over.            *)
LeaseIsFree(c) == lease \in {Free, Orphan}

TakeLease(c) ==
    /\ LeaseIsFree(c)
    /\ Step(c, "leasing", IF kind[c] = "resume" THEN "restaging" ELSE "reconciling")
    /\ lease' = c
    /\ UNCHANGED <<checkout, journal, origin, github, given, local>>

LeaseContended(c) ==
    /\ pc[c] = "leasing" /\ ~LeaseIsFree(c)
    /\ Answer(c)
    /\ UNCHANGED <<checkout, recovery, origin, github, given>>

Matches(j) == j.id # 0 /\ j.pre = head /\ j.fetched = mergeHead

(* Mutant: what an earlier attempt recorded stays in the journal.          *)
JournalKept == [journal EXCEPT !.there = TRUE]

JournalReset == [NoJournal EXCEPT !.there = TRUE]

(* reconcileInterruptedPublish, and the journal that must be written       *)
(* before the checkout is touched.  A merge is only looked for when there  *)
(* is a journal.                                                           *)
Reconcile(c) ==
    /\ pc[c] = "reconciling"
    /\ \/ /\ ~journal.there \/ mergeHead = 0
          /\ \/ /\ Step(c, "reconciling", "staging")
                /\ journal' = JournalReset
                /\ UNCHANGED <<lease, local>>
             \/ Answer(c) /\ journal' = NoJournal /\ lease' = Free
          /\ UNCHANGED handles
       \/ /\ journal.there /\ mergeHead # 0
          /\ handles' = IF Matches(journal)
                        THEN handles \cup {Handle(journal.id, journal.pre, journal.fetched)}
                        ELSE handles
          /\ Answer(c) /\ lease' = Free
          /\ UNCHANGED journal
    /\ UNCHANGED <<checkout, origin, github, minted>>

(* finalizePublishJournal: a failure that left a merge keeps the journal.  *)
Close(c) ==
    /\ pc[c] = "closing"
    /\ journal' = IF mergeHead = 0 THEN NoJournal ELSE journal
    /\ lease' = Free
    /\ Answer(c)
    /\ UNCHANGED <<checkout, origin, github, given>>

-----------------------------------------------------------------------------
(* Publish: the work is committed and pushed.                              *)

AddAll == index' = [content |-> files.content, markers |-> files.markers, unmerged |-> FALSE]

(* Whether paths had changed is asked once.                                *)
Screened(c) ==
    /\ dirty' = [dirty EXCEPT ![c] = FALSE]
    /\ UNCHANGED <<kind, handle, result, entry, since>>

Stage(c) ==
    /\ \/ dirty[c] /\ AddAll /\ (Text(files) # Text(Last(head)) \/ mergeHead # 0)
          /\ Step(c, "staging", "saving") /\ Screened(c)
       \/ dirty[c] /\ AddAll /\ Text(files) = Text(Last(head)) /\ mergeHead = 0
          /\ pc[c] = "staging" /\ Leave(c)
       \/ ~dirty[c] /\ Step(c, "staging", "sending") /\ UNCHANGED <<index, local>>
    /\ UNCHANGED <<head, mergeHead, stager, files, tracking, recovery, origin, github, given>>

Committed == Append(head, [base |-> mergeHead, content |-> index.content, markers |-> index.markers])

(* git commit: concludes the merge when there is one.                      *)
GitCommit ==
    /\ ~index.unmerged
    /\ mergeHead # 0 \/ Text(index) # Text(Last(head))
    /\ Len(head) < MaxCommits
    /\ head' = Committed /\ mergeHead' = 0 /\ stager' = "none"
    /\ UNCHANGED <<files, index, tracking>>

SaveWork(c) ==
    /\ Step(c, "saving", "sending") /\ GitCommit
    /\ UNCHANGED <<recovery, origin, github, given, local>>

(* A push without force.                                                   *)
GitPush == IsPrefix(remote, head) /\ remote' = head

SendWork(c) ==
    /\ pc[c] = "sending" /\ GitPush
    /\ Step(c, "sending", "starting")
    /\ journal' = [journal EXCEPT !.there = TRUE, !.pre = head]
    /\ UNCHANGED <<checkout, lease, base, github, given, local>>

-----------------------------------------------------------------------------
(* Synchronization: start.                                                 *)

(* The head is read, the base fetched, an identity minted.                 *)
Start(c) ==
    /\ ~Dirty /\ Len(minted) < MaxAttempt
    /\ Step(c, "starting", "merging")
    /\ tracking' = base
    /\ LET h == Handle(Len(minted) + 1, head, base)
       IN minted' = Append(minted, h) /\ handle' = [handle EXCEPT ![c] = h]
    /\ UNCHANGED <<head, mergeHead, stager, files, index, recovery, origin, github, handles,
                   kind, dirty, result, entry, since>>

AlreadyCurrent(c) ==
    /\ pc[c] = "merging" /\ Ancestor(handle[c].fetched, handle[c].pre)
    /\ Step(c, "merging", "binding")
    /\ result' = [result EXCEPT ![c] = handle[c].pre]
    /\ UNCHANGED <<checkout, recovery, origin, github, given, kind, handle, dirty, entry, since>>

(* git merge --no-ff --no-commit refs/remotes/origin/<base>, of the        *)
(* reference and into the head of this moment.                             *)
GitMerge(conflict) ==
    /\ mergeHead = 0 /\ ~index.unmerged /\ Text(index) = Text(Last(head))
    /\ IF Ancestor(tracking, head)
       THEN ~conflict /\ UNCHANGED <<mergeHead, files, index>>
       ELSE /\ mergeHead' = tracking
            /\ index' = [index EXCEPT !.unmerged = conflict]
            /\ files' = [files EXCEPT !.markers = conflict]
    /\ UNCHANGED <<head, tracking>>

Stages(c) ==
    stager' = IF mergeHead' = mergeHead THEN stager
              ELSE IF Publishing(c) THEN "publish" ELSE "tool"

MergeClean(c) ==
    /\ pc[c] = "merging" /\ ~Ancestor(handle[c].fetched, handle[c].pre)
    /\ GitMerge(FALSE) /\ Stages(c)
    /\ IF Publishing(c)
       THEN Step(c, "merging", "journaling") /\ UNCHANGED <<handles, local>>
       ELSE handles' = handles \cup {handle[c]} /\ Answer(c)
    /\ UNCHANGED <<recovery, origin, github, minted>>

(* The merge is staged before the journal says of which attempt it is.     *)
JournalMerge(c) ==
    /\ Step(c, "journaling", "completing")
    /\ journal' = [there |-> TRUE, id |-> handle[c].id, pre |-> handle[c].pre,
                   fetched |-> handle[c].fetched]
    /\ UNCHANGED <<checkout, lease, origin, github, given, local>>

(* The conflict is the caller's to resolve, unless another commit than the *)
(* fetched one is being merged.                                            *)
MergeConflicts(c) ==
    /\ pc[c] = "merging" /\ ~Ancestor(handle[c].fetched, handle[c].pre)
    /\ GitMerge(TRUE) /\ Stages(c)
    /\ handles' = IF mergeHead' = handle[c].fetched THEN handles \cup {handle[c]} ELSE handles
    /\ Leave(c)
    /\ UNCHANGED <<recovery, origin, github, minted>>

-----------------------------------------------------------------------------
(* Synchronization: complete.                                              *)

(* runPublishSyncRetry stages everything before it completes.              *)
Restage(c) ==
    /\ Step(c, "restaging", "completing")
    /\ IF dirty[c] THEN AddAll ELSE UNCHANGED index
    /\ Screened(c)
    /\ UNCHANGED <<head, mergeHead, stager, files, tracking, recovery, origin, github, given>>

AttemptUnchanged(h) == mergeHead = h.fetched /\ head = h.pre /\ ~index.unmerged

(* The staged merge is compared with the attempt and its tree is read.     *)
PrepareMerge(c) ==
    /\ pc[c] = "completing" /\ mergeHead # 0
    /\ AttemptUnchanged(handle[c]) /\ Staged
    /\ Step(c, "completing", "committing")
    /\ entry' = [entry EXCEPT ![c] = IndexTree]
    /\ UNCHANGED <<checkout, recovery, origin, github, given, kind, handle, dirty, result, since>>

CommitMerge(c) ==
    /\ Step(c, "committing", "pushing") /\ GitCommit
    /\ result' = [result EXCEPT ![c] = Committed]
    /\ UNCHANGED <<recovery, origin, github, given, kind, handle, dirty, entry, since>>

(* Nothing is being merged: an earlier completion may have committed it.   *)
AdoptCommit(c) ==
    /\ pc[c] = "completing" /\ mergeHead = 0 /\ ~Dirty
    /\ Step(c, "completing", "pushing")
    /\ result' = [result EXCEPT ![c] = head]
    /\ entry' = [entry EXCEPT ![c] = Tree(head)]
    /\ UNCHANGED <<checkout, recovery, origin, github, given, kind, handle, dirty, since>>

(* The merge graph and the tree are those of the attempt.                  *)
PushMerge(c) ==
    /\ pc[c] = "pushing"
    /\ HasParents(result[c], handle[c]) /\ Tree(result[c]) = entry[c]
    /\ GitPush
    /\ Step(c, "pushing", "binding")
    /\ entry' = [entry EXCEPT ![c] = NoEntry]
    /\ UNCHANGED <<checkout, recovery, base, github, given, kind, handle, dirty, result, since>>

-----------------------------------------------------------------------------
(* Synchronization: the record.                                            *)

(* Mutant: the head is not looked up on origin again.                      *)
PublishedUnchecked(b) == TRUE

Published(b) == head = b /\ remote = b

RecordOf(c) ==
    [id |-> handle[c].id, pre |-> handle[c].pre, fetched |-> handle[c].fetched,
     result |-> result[c], tree |-> Tree(result[c])]

Posted(i) == SelectSeq(thread, LAMBDA r : r.id = i)

(* A record of this identity that is there already must be identical and   *)
(* the only one; it is then the answer.                                    *)
Bind(c) ==
    /\ pc[c] = "binding" /\ Published(result[c])
    /\ LET there == Posted(handle[c].id)
       IN \/ /\ there = <<>>
             /\ Step(c, "binding", "posting")
             /\ entry' = [entry EXCEPT ![c] = RecordOf(c)]
             /\ UNCHANGED <<kind, handle, dirty, result, since>>
          \/ there # <<>> /\ Leave(c)
    /\ UNCHANGED <<checkout, recovery, origin, github, given>>

(* The comment is posted; the answer of the post may be lost.              *)
PostRecord(c) ==
    /\ pc[c] = "posting" /\ Len(thread) < MaxRecords
    /\ thread' = Append(thread, entry[c])
    /\ Leave(c)
    /\ UNCHANGED <<checkout, recovery, origin, pr, given>>

-----------------------------------------------------------------------------
(* The pull request.                                                       *)

(* Mutant: the base is not compared again.                                 *)
BaseUnchecked(r) == head = r.result /\ remote = r.result

Current(r) ==
    /\ base = r.fetched /\ head = r.result /\ Tree(head) = r.tree /\ remote = r.result
    /\ Ancestor(r.fetched, r.result)

(* validateImplementSynchronization: the one record of an identity, the    *)
(* base fetched again.                                                     *)
Validate(c) ==
    /\ pc[c] = "validating" /\ ~Dirty
    /\ tracking' = base
    /\ \E r \in ToSet(thread) :
         /\ Len(Posted(r.id)) = 1 /\ Current(r)
         /\ Step(c, "validating", "opening")
         /\ entry' = [entry EXCEPT ![c] = r]
    /\ UNCHANGED <<head, mergeHead, stager, files, index, recovery, origin, github, given,
                   kind, handle, dirty, result, since>>

(* A pull request that is open is kept when it shows the same head.        *)
Create(c) ==
    /\ pc[c] = "opening"
    /\ pr' = IF pr = NoEntry THEN [id |-> entry[c].id, record |-> entry[c], since |-> since[c]] ELSE pr
    /\ Answer(c)
    /\ UNCHANGED <<checkout, recovery, origin, thread, given>>

-----------------------------------------------------------------------------
(* Whoever works in the checkout, and on origin.                           *)

Fresh == {n \in Content : /\ n > files.content /\ \A m \in 1..n - 1 : m <= files.content}

Edit ==
    /\ \E n \in Fresh : files' = [files EXCEPT !.content = n]
    /\ UNCHANGED <<head, mergeHead, stager, index, tracking, recovery, origin, github, given, pc, local>>

Resolve ==
    /\ files.markers
    /\ files' = [files EXCEPT !.markers = FALSE]
    /\ index' = [content |-> files.content, markers |-> FALSE, unmerged |-> FALSE]
    /\ UNCHANGED <<head, mergeHead, stager, tracking, recovery, origin, github, given, pc, local>>

AbortMerge ==
    /\ mergeHead # 0
    /\ mergeHead' = 0 /\ stager' = "none"
    /\ files' = Text(Last(head))
    /\ index' = [content |-> Last(head).content, markers |-> Last(head).markers, unmerged |-> FALSE]
    /\ UNCHANGED <<head, tracking, recovery, origin, github, given, pc, local>>

BaseAdvances ==
    /\ base < MaxRevision
    /\ base' = base + 1
    /\ UNCHANGED <<checkout, recovery, remote, github, given, pc, local>>

CallStep(c) ==
    \/ Begin(c) \/ Fail(c) \/ Throw(c) \/ Crash(c)
    \/ TakeLease(c) \/ LeaseContended(c) \/ Reconcile(c) \/ Close(c)
    \/ Stage(c) \/ SaveWork(c) \/ SendWork(c)
    \/ Start(c) \/ AlreadyCurrent(c) \/ MergeClean(c) \/ JournalMerge(c) \/ MergeConflicts(c)
    \/ Restage(c) \/ PrepareMerge(c) \/ CommitMerge(c) \/ AdoptCommit(c) \/ PushMerge(c)
    \/ Bind(c) \/ PostRecord(c) \/ Validate(c) \/ Create(c)

Next ==
    \/ \E c \in Call : CallStep(c)
    \/ Edit \/ Resolve \/ AbortMerge \/ BaseAdvances

Spec == Init /\ [][Next]_vars

-----------------------------------------------------------------------------
(* Properties.                                                             *)

HoldingLease == {"reconciling", "staging", "saving", "sending", "journaling", "restaging", "closing"}

SharedPhase == {"starting", "merging", "completing", "committing", "pushing", "binding", "posting"}

Place == HoldingLease \cup SharedPhase \cup {"idle", "leasing", "validating", "opening"}

Attempt == 1..MaxAttempt

HandleSet == [id: Attempt, pre: Branch, fetched: Revision]

Trees == {Tree(b) : b \in Branch}

RecordSet == [id: Attempt, pre: Branch, fetched: Revision, result: Branch, tree: Trees]

Holds(c) == pc[c] \in HoldingLease \/ (Publishing(c) /\ pc[c] \in SharedPhase)

(* The types, and the lease: between taking it and answering, a publish    *)
(* holds the lease of its checkout and no other call does (publish.js:72,  *)
(* the finally of publish.js:117).                                         *)
TypeOK ==
    /\ {head, remote} \subseteq Branch
    /\ {base, tracking} \subseteq Revision /\ mergeHead \in 0..MaxRevision
    /\ files \in [content: Content, markers: BOOLEAN]
    /\ index \in [content: Content, markers: BOOLEAN, unmerged: BOOLEAN]
    /\ stager \in {"none", "tool", "publish"} /\ (stager = "none" <=> mergeHead = 0)
    /\ journal \in [id: Attempt \cup {0}, pre: Branch \cup {<<>>}, fetched: 0..MaxRevision,
                    there: BOOLEAN]
    /\ minted \in Seq(HandleSet) /\ handles \subseteq HandleSet
    /\ thread \in Seq(RecordSet)
    /\ pr = NoEntry \/ pr.record \in ToSet(thread)
    /\ pc \in [Call -> Place] /\ kind \in [Call -> AllKinds]
    /\ handle \in [Call -> HandleSet \cup {NoHandle}]
    /\ result \in [Call -> Branch \cup {<<>>}]
    /\ since \in [Call -> 0..MaxRevision]
    /\ lease \in Call \cup {Free, Orphan}
    /\ \A c \in Call : lease = c <=> Holds(c)

(* What a record says was published is on origin, in a branch that only    *)
(* grew since (codex-workflow-4.js:170 and :433; the pushes without        *)
(* force), whatever other calls committed meanwhile.                       *)
RecordsPublished == \A n \in DOMAIN thread : IsPrefix(thread[n].result, remote)

MergesTheBase(h, b) ==
    /\ Ancestor(h.fetched, b)
    /\ b = h.pre \/ (Front(b) = h.pre /\ Last(b).base = h.fetched)

(* The head a record names contains the base it names: it did before, or   *)
(* it is the merge of exactly that base into exactly that head             *)
(* (codex-workflow-4.js:405-417), although the checkout is shared and the  *)
(* merge may have been aborted, repeated or committed by another call.     *)
RecordsMergeTheBase == \A n \in DOMAIN thread : MergesTheBase(thread[n], thread[n].result)

Minted(h) == h.id \in DOMAIN minted /\ minted[h.id] = h

(* A handle that a caller is given to finish a merge, from a start or from *)
(* the journal of a publish that died, names the head and the base that    *)
(* its identity was minted for (implement-publish-recovery.js:97-124).     *)
HandlesConsistent == TypeOK /\ \A h \in handles : Minted(h)

(* A pull request is opened on a head that contains the base as it was     *)
(* when the call began, or a later one (codex-workflow-5.js:163-180).      *)
PrFresh == pr # NoEntry => pr.since <= pr.record.fetched /\ Ancestor(pr.since, pr.record.result)

(* A publish never commits, as if it were work, a merge that a publish     *)
(* staged: one that died or failed left its journal, and one that is alive *)
(* holds the lease (publish.js:90-112, :166-185).                          *)
WorkNeverMerges ==
    [][\A c \in Call : (pc[c] = "saving" /\ pc'[c] = "sending") => stager # "publish"]_vars

(* "Every merge conflict must be resolved before synchronization can       *)
(* complete" (implement-publish-recovery.js:49).                           *)
ConflictsResolved == \A i \in DOMAIN remote : ~remote[i].markers

-----------------------------------------------------------------------------
(* What the statements above rest on: what a call holds at each step, and  *)
(* what the journal says while nobody holds the lease.                     *)

HasHandle == {"restaging", "merging", "journaling", "completing", "committing", "pushing",
              "binding", "posting"}

Working == {"staging", "saving", "sending"}

Established(c) ==
    /\ pc[c] \in HoldingLease \cup {"leasing"} => Publishing(c)
    /\ pc[c] \in {"validating", "opening"} => kind[c] = "create"
    /\ pc[c] \in HasHandle \/ (pc[c] = "leasing" /\ kind[c] = "resume") => handle[c] # NoHandle
    /\ handle[c] # NoHandle => Minted(handle[c])
    /\ pc[c] \in Working => journal.id = 0
    /\ Publishing(c) /\ pc[c] \in Working \cup {"starting", "merging", "journaling"} =>
          journal.there
    /\ pc[c] \in {"staging", "saving"} => stager # "publish"
    /\ pc[c] \in {"pushing", "binding"} => result[c] \in Branch
    /\ pc[c] = "binding" => MergesTheBase(handle[c], result[c])
    /\ pc[c] = "posting" =>
          /\ entry[c] \in RecordSet
          /\ MergesTheBase(entry[c], entry[c].result)
          /\ IsPrefix(entry[c].result, remote)
    /\ pc[c] = "validating" => since[c] <= base
    /\ pc[c] = "opening" => entry[c] \in ToSet(thread) /\ since[c] <= entry[c].fetched

JournalConsistent ==
    /\ journal.id # 0 => Minted(Handle(journal.id, journal.pre, journal.fetched))
    /\ stager = "publish" => journal.there

PublishInvariant ==
    /\ HandlesConsistent
    /\ DOMAIN entry = Call
    /\ JournalConsistent
    /\ \A c \in Call : Established(c)
    /\ RecordsPublished
    /\ RecordsMergeTheBase
    /\ PrFresh
=============================================================================
