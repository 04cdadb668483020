---------------------------- MODULE PublishProofs ----------------------------
(***************************************************************************)
(* The statements of Publish, for any number of calls on the checkout and  *)
(* any bounds.  The argument: what a call has read stays true while it     *)
(* acts on it.  Identities are only ever added, origin and the thread only *)
(* grow; the journal and the merge a publish staged are in the hands of    *)
(* whoever holds the lease, and what a dead publish left of them agrees    *)
(* with the identity it was minted for.                                    *)
(***************************************************************************)
EXTENDS Publish, SequenceTheorems, TLAPS

-----------------------------------------------------------------------------
(* Branches.                                                               *)

LEMMA BranchIsSequence ==
    ASSUME NEW b \in Branch
    PROVE  /\ b \in Seq(Commit) /\ Len(b) \in 1..MaxCommits /\ b # <<>>
           /\ DOMAIN b = 1..Len(b) /\ b[1].base = 1
           /\ Last(b) \in Commit
<1>1. PICK n \in 1..MaxCommits : b \in [1..n -> Commit]
  BY DEF Branch
<1>2. n \in Nat /\ n >= 1
  BY <1>1, PublishAssumption
<1>3. b \in Seq(Commit) /\ Len(b) = n /\ DOMAIN b = 1..n
  BY <1>1, <1>2
<1>4. b[1].base = 1
  BY DEF Branch
<1> QED BY <1>1, <1>2, <1>3, <1>4 DEF Last

LEMMA BranchGrows ==
    ASSUME NEW b \in Branch, Len(b) < MaxCommits, NEW x \in Commit
    PROVE  Append(b, x) \in Branch
<1>1. b \in Seq(Commit) /\ Len(b) \in 1..MaxCommits /\ b[1].base = 1
  BY BranchIsSequence
<1>2. /\ Append(b, x) \in Seq(Commit) /\ Len(Append(b, x)) = Len(b) + 1
      /\ Append(b, x)[1] = b[1]
  BY <1>1, AppendProperties
<1>4. Append(b, x) \in [1..Len(b) + 1 -> Commit]
  BY <1>2, LenProperties
<1>3. Len(b) + 1 \in 1..MaxCommits
  BY <1>1, PublishAssumption
<1> QED BY <1>1, <1>2, <1>3, <1>4 DEF Branch

LEMMA PrefixOfItself ==
    ASSUME NEW b PROVE IsPrefix(b, b)
BY DEF IsPrefix

LEMMA PrefixElements ==
    ASSUME NEW a \in Seq(Commit), NEW b \in Seq(Commit)
    PROVE  IsPrefix(a, b) <=> Len(a) <= Len(b) /\ \A i \in 1..Len(a) : a[i] = b[i]
<1>1. CASE Len(a) <= Len(b)
  <2>1. SubSeq(a, 1, Len(a)) = [i \in 1..Len(a) |-> a[i]]
    OBVIOUS
  <2>2. SubSeq(b, 1, Len(a)) = [i \in 1..Len(a) |-> b[i]]
    BY <1>1
  <2> QED BY <1>1, <2>1, <2>2 DEF IsPrefix
<1>2. CASE ~(Len(a) <= Len(b))
  BY <1>2 DEF IsPrefix
<1> QED BY <1>1, <1>2

LEMMA PrefixTransitive ==
    ASSUME NEW a \in Seq(Commit), NEW b \in Seq(Commit), NEW d \in Seq(Commit),
           IsPrefix(a, b), IsPrefix(b, d)
    PROVE  IsPrefix(a, d)
<1>1. Len(a) <= Len(b) /\ \A i \in 1..Len(a) : a[i] = b[i]
  BY PrefixElements
<1>2. Len(b) <= Len(d) /\ \A i \in 1..Len(b) : b[i] = d[i]
  BY PrefixElements
<1>3. Len(a) \in Nat /\ Len(b) \in Nat /\ Len(d) \in Nat
  OBVIOUS
<1>4. Len(a) <= Len(d) /\ \A i \in 1..Len(a) : a[i] = d[i]
  BY <1>1, <1>2, <1>3
<1> QED BY <1>4, PrefixElements

(* A merge of a base contains that base.                                   *)
LEMMA MergeContainsBase ==
    ASSUME NEW h, NEW b \in Branch, h.fetched \in Revision, HasParents(b, h)
    PROVE  MergesTheBase(h, b)
<1>1. Last(b) = b[Len(b)] /\ Len(b) \in DOMAIN b
  BY BranchIsSequence DEF Last
<1>2. Ancestor(h.fetched, b)
  BY <1>1 DEF Ancestor, HasParents, Revision
<1> QED BY <1>2 DEF MergesTheBase, HasParents

-----------------------------------------------------------------------------
(* The types by whose they are.                                            *)

SharedTypes ==
    /\ {head, remote} \subseteq Branch
    /\ {base, tracking} \subseteq Revision /\ mergeHead \in 0..MaxRevision
    /\ files \in [content: Content, markers: BOOLEAN]
    /\ index \in [content: Content, markers: BOOLEAN, unmerged: BOOLEAN]
    /\ stager \in {"none", "tool", "publish"} /\ (stager = "none" <=> mergeHead = 0)
    /\ journal \in [id: Attempt \cup {0}, pre: Branch \cup {<<>>}, fetched: 0..MaxRevision,
                    there: BOOLEAN]
    /\ minted \in Seq(HandleSet) /\ handles \subseteq HandleSet
    /\ thread \in Seq(RecordSet)
    /\ pr = NoEntry \/ pr.record \in ToSet(thread)

LocalTypes ==
    /\ pc \in [Call -> Place] /\ kind \in [Call -> AllKinds]
    /\ handle \in [Call -> HandleSet \cup {NoHandle}]
    /\ result \in [Call -> Branch \cup {<<>>}]
    /\ since \in [Call -> 0..MaxRevision]
    /\ DOMAIN entry = Call

LeaseHeld ==
    /\ lease \in Call \cup {Free, Orphan}
    /\ \A c \in Call : lease = c <=> Holds(c)

LEMMA TypesSplit ==
    TypeOK /\ DOMAIN entry = Call <=> SharedTypes /\ LocalTypes /\ LeaseHeld
BY DEF TypeOK, SharedTypes, LocalTypes, LeaseHeld

-----------------------------------------------------------------------------
(* What no step undoes, and what a step of one call leaves of another.     *)

Grows ==
    /\ DOMAIN minted \subseteq DOMAIN minted' /\ \A i \in DOMAIN minted : minted'[i] = minted[i]
    /\ \A b \in Branch : IsPrefix(b, remote) => IsPrefix(b, remote')
    /\ base' \in Nat /\ base <= base'
    /\ ToSet(thread) \subseteq ToSet(thread')

Same(d) ==
    /\ pc'[d] = pc[d] /\ kind'[d] = kind[d] /\ handle'[d] = handle[d]
    /\ result'[d] = result[d] /\ entry'[d] = entry[d] /\ since'[d] = since[d]

Undisturbed(d) ==
    Holds(d) => journal' = journal /\ (stager' = "publish" => stager = "publish")

LEMMA MintedStays ==
    ASSUME Grows, NEW h, Minted(h) PROVE Minted(h)'
BY DEF Grows, Minted

(* What a call holds outlives the steps of everyone else.                  *)
LEMMA EstablishedPersists ==
    ASSUME NEW d \in Call, SharedTypes, LocalTypes, Established(d), Grows, Same(d), Undisturbed(d)
    PROVE  Established(d)'
<1> USE DEF Same
<1>1. (pc[d] \in HoldingLease \cup {"leasing"} => Publishing(d))'
  BY DEF Established, Publishing
<1>2. (pc[d] \in {"validating", "opening"} => kind[d] = "create")'
  BY DEF Established
<1>3. (pc[d] \in HasHandle \/ (pc[d] = "leasing" /\ kind[d] = "resume") => handle[d] # NoHandle)'
  BY DEF Established
<1>4. (handle[d] # NoHandle => Minted(handle[d]))'
  BY MintedStays DEF Established, Minted
<1>5. (pc[d] \in Working => journal.id = 0)'
  BY DEF Established, Undisturbed, Holds, Working, HoldingLease
<1>6. (Publishing(d) /\ pc[d] \in Working \cup {"starting", "merging", "journaling"} =>
          journal.there)'
  BY DEF Established, Undisturbed, Holds, Publishing, Working, HoldingLease, SharedPhase
<1>7. (pc[d] \in {"staging", "saving"} => stager # "publish")'
  BY DEF Established, Undisturbed, Holds, HoldingLease
<1>8. (pc[d] \in {"pushing", "binding"} => result[d] \in Branch)'
  BY DEF Established
<1>9. (pc[d] = "binding" => MergesTheBase(handle[d], result[d]))'
  BY DEF Established, MergesTheBase
<1>10. (pc[d] = "posting" =>
          /\ entry[d] \in RecordSet
          /\ MergesTheBase(entry[d], entry[d].result)
          /\ IsPrefix(entry[d].result, remote))'
  BY DEF Established, Grows, MergesTheBase, RecordSet
<1>11. (pc[d] = "validating" => since[d] <= base)'
  BY DEF Established, Grows, SharedTypes, LocalTypes, Revision
<1>12. (pc[d] = "opening" => entry[d] \in ToSet(thread) /\ since[d] <= entry[d].fetched)'
  BY DEF Established, Grows
<1> QED
  BY <1>1, <1>2, <1>3, <1>4, <1>5, <1>6, <1>7, <1>8, <1>9, <1>10, <1>11, <1>12 DEF Established

LEMMA ThreadOfRecords ==
    ASSUME SharedTypes
    PROVE  \A n \in DOMAIN thread : thread[n] \in RecordSet /\ thread[n] \in ToSet(thread)
<1>1. thread \in Seq(RecordSet)
  BY DEF SharedTypes
<1>2. DOMAIN thread = 1..Len(thread) /\ \A n \in 1..Len(thread) : thread[n] \in RecordSet
  BY <1>1, LenProperties, ElementOfSeq
<1> QED BY <1>2 DEF ToSet

(* Records stay what they say while nothing is posted.                     *)
LEMMA RecordsPersist ==
    ASSUME SharedTypes, Grows, RecordsPublished, RecordsMergeTheBase, PrFresh,
           thread' = thread, pr' = pr
    PROVE  RecordsPublished' /\ RecordsMergeTheBase' /\ PrFresh'
<1>1. \A n \in DOMAIN thread : thread[n].result \in Branch
  BY ThreadOfRecords DEF RecordSet
<1>2. RecordsPublished'
  BY <1>1 DEF RecordsPublished, Grows
<1>3. RecordsMergeTheBase'
  BY DEF RecordsMergeTheBase
<1>4. PrFresh'
  BY DEF PrFresh
<1> QED BY <1>2, <1>3, <1>4

-----------------------------------------------------------------------------
(* Steps of one call.                                                      *)

LEMMA Exclusive ==
    ASSUME LeaseHeld, NEW c \in Call, NEW d \in Call, Holds(c), Holds(d)
    PROVE  c = d
BY DEF LeaseHeld

LeaseMoves(c) ==
    /\ \/ lease' = lease
       \/ lease = c /\ lease' \in {Free, Orphan}
       \/ lease \in {Free, Orphan} /\ lease' = c
    /\ lease' = c <=> Holds(c)'

LEMMA LeaseStaysHeld ==
    ASSUME LeaseHeld, NEW c \in Call, LeaseMoves(c), \A d \in Call \ {c} : Same(d)
    PROVE  LeaseHeld'
<1>1. lease' \in Call \cup {Free, Orphan}
  BY DEF LeaseHeld, LeaseMoves
<1>2. ASSUME NEW d \in Call PROVE lease' = d <=> Holds(d)'
  <2>1. CASE d = c
    BY <2>1 DEF LeaseMoves
  <2>2. CASE d # c
    <3>1. Holds(d)' <=> Holds(d)
      BY <2>2 DEF Same, Holds, Publishing
    <3>2. lease' = d <=> lease = d
      BY <2>2, PublishAssumption DEF LeaseMoves
    <3> QED BY <3>1, <3>2 DEF LeaseHeld
  <2> QED BY <2>1, <2>2
<1> QED BY <1>1, <1>2 DEF LeaseHeld

(* The journal, and a merge of publish, change in the hands of the lease.  *)
InHand(c) == Holds(c) \/ (journal' = journal /\ (stager' = "publish" => stager = "publish"))

(* What is left to show of a step of call c.                               *)
LEMMA StepKeeps ==
    ASSUME PublishInvariant, NEW c \in Call,
           SharedTypes', LocalTypes', LeaseMoves(c), \A d \in Call \ {c} : Same(d),
           Grows, InHand(c), JournalConsistent', \A h \in handles' : Minted(h)',
           Established(c)', RecordsPublished', RecordsMergeTheBase', PrFresh'
    PROVE  PublishInvariant'
<1>1. SharedTypes /\ LocalTypes /\ LeaseHeld
  BY TypesSplit DEF PublishInvariant, HandlesConsistent
<1>2. TypeOK' /\ (DOMAIN entry = Call)'
  <2>1. LeaseHeld'
    BY <1>1, LeaseStaysHeld
  <2> QED BY <2>1 DEF TypeOK, SharedTypes, LocalTypes, LeaseHeld
<1>3. \A d \in Call : Established(d)'
  <2> SUFFICES ASSUME NEW d \in Call \ {c} PROVE Established(d)'
    OBVIOUS
  <2>1. Undisturbed(d)
    BY <1>1, Exclusive DEF Undisturbed, InHand
  <2>2. Established(d)
    BY DEF PublishInvariant
  <2> QED BY <1>1, <2>1, <2>2, EstablishedPersists
<1> QED BY <1>2, <1>3 DEF PublishInvariant, HandlesConsistent

(* A step that leaves everything but its own call and the lease alone.     *)
LEMMA QuietStep ==
    ASSUME PublishInvariant, NEW c \in Call,
           UNCHANGED <<checkout, journal, origin, github, given>>,
           LocalTypes', LeaseMoves(c), \A d \in Call \ {c} : Same(d), Established(c)'
    PROVE  PublishInvariant'
<1> USE DEF checkout, origin, github, given
<1>1. SharedTypes /\ JournalConsistent /\ (\A h \in handles : Minted(h))
  BY TypesSplit DEF PublishInvariant, HandlesConsistent
<1>2. SharedTypes'
  BY <1>1 DEF SharedTypes
<1>3. Grows
  BY <1>1 DEF Grows, SharedTypes, Revision
<1>4. JournalConsistent' /\ (\A h \in handles' : Minted(h)')
  BY <1>1 DEF JournalConsistent, Minted
<1>5. RecordsPublished' /\ RecordsMergeTheBase' /\ PrFresh'
  BY <1>1, <1>3, RecordsPersist DEF PublishInvariant
<1>6. InHand(c)
  BY DEF InHand
<1> QED BY <1>2, <1>3, <1>4, <1>5, <1>6, StepKeeps

LEMMA AnswerFacts ==
    ASSUME LocalTypes, NEW c \in Call, Answer(c)
    PROVE  /\ LocalTypes' /\ ~Holds(c)' /\ Established(c)'
           /\ \A d \in Call \ {c} : Same(d)
<1> USE DEF Answer, Forget
<1>1. /\ pc' = [pc EXCEPT ![c] = "idle"] /\ kind' = [kind EXCEPT ![c] = "publish"]
      /\ handle' = [handle EXCEPT ![c] = NoHandle] /\ result' = [result EXCEPT ![c] = <<>>]
      /\ entry' = [entry EXCEPT ![c] = NoEntry] /\ since' = [since EXCEPT ![c] = 0]
  OBVIOUS
<1>2. LocalTypes'
  BY <1>1, PublishAssumption DEF LocalTypes, Place, AllKinds
<1>3. pc'[c] = "idle" /\ handle'[c] = NoHandle
  BY <1>1 DEF LocalTypes
<1>4. ~Holds(c)'
  BY <1>3 DEF Holds, HoldingLease, SharedPhase
<1>5. Established(c)'
  BY <1>3 DEF Established, HoldingLease, HasHandle, Working
<1>6. \A d \in Call \ {c} : Same(d)
  BY <1>1 DEF LocalTypes, Same
<1> QED BY <1>2, <1>4, <1>5, <1>6

LEMMA LeaveFacts ==
    ASSUME LocalTypes, NEW c \in Call, Leave(c)
    PROVE  /\ LocalTypes' /\ (Holds(c)' <=> Publishing(c)) /\ Established(c)'
           /\ \A d \in Call \ {c} : Same(d)
<1>1. CASE Publishing(c)
  <2>1. /\ pc' = [pc EXCEPT ![c] = "closing"] /\ kind' = kind
        /\ handle' = [handle EXCEPT ![c] = NoHandle] /\ result' = [result EXCEPT ![c] = <<>>]
        /\ entry' = [entry EXCEPT ![c] = NoEntry] /\ since' = [since EXCEPT ![c] = 0]
    BY <1>1 DEF Leave, Forget
  <2>2. LocalTypes'
    BY <2>1, PublishAssumption DEF LocalTypes, Place, HoldingLease
  <2>3. pc'[c] = "closing" /\ handle'[c] = NoHandle /\ Publishing(c)'
    BY <1>1, <2>1 DEF LocalTypes, Publishing
  <2>4. Holds(c)'
    BY <2>3 DEF Holds, HoldingLease
  <2>5. Established(c)'
    BY <2>3 DEF Established, HasHandle, Working
  <2>6. \A d \in Call \ {c} : Same(d)
    BY <2>1 DEF LocalTypes, Same
  <2> QED BY <1>1, <2>2, <2>4, <2>5, <2>6
<1>2. CASE ~Publishing(c)
  BY <1>2, AnswerFacts DEF Leave
<1> QED BY <1>1, <1>2

-----------------------------------------------------------------------------
(* One lemma per action.                                                   *)

LEMMA Facts ==
    ASSUME PublishInvariant, NEW c \in Call
    PROVE  /\ SharedTypes /\ LocalTypes /\ LeaseHeld /\ JournalConsistent
           /\ \A h \in handles : h \in HandleSet /\ Minted(h)
           /\ Established(c)
           /\ lease = c <=> Holds(c)
           /\ RecordsPublished /\ RecordsMergeTheBase /\ PrFresh
<1>1. SharedTypes /\ LocalTypes /\ LeaseHeld
  BY TypesSplit DEF PublishInvariant, HandlesConsistent
<1> QED BY <1>1 DEF PublishInvariant, HandlesConsistent, LeaseHeld, SharedTypes

(* Past its first step, a publish and nobody else holds the lease.         *)
LEMMA PublishHolds ==
    ASSUME LocalTypes, NEW c \in Call, Established(c), pc[c] \notin {"idle", "leasing"}
    PROVE  Holds(c) <=> Publishing(c)
<1>1. pc[c] \in HoldingLease \cup SharedPhase \cup {"validating", "opening"}
  BY DEF LocalTypes, Place
<1> QED BY <1>1 DEF Holds, Established, Publishing

LEMMA HandlesAreNot ==
    ASSUME NEW h \in HandleSet PROVE h # NoHandle
<1>1. h.id \in Attempt /\ NoHandle.id = 0
  BY DEF HandleSet, NoHandle, Handle
<1> QED BY <1>1, PublishAssumption DEF Attempt

LEMMA BeginKeeps ==
    ASSUME PublishInvariant, NEW c \in Call, Begin(c) PROVE PublishInvariant'
<1> USE DEF Begin, recovery
<1>0. /\ SharedTypes /\ LocalTypes /\ Established(c) /\ (lease = c <=> Holds(c))
      /\ \A h \in handles : h \in HandleSet /\ Minted(h)
  BY Facts
<1>1. ~Holds(c)
  BY DEF Holds, HoldingLease, SharedPhase
<1>2. PICK k \in Kinds :
         /\ kind' = [kind EXCEPT ![c] = k]
         /\ pc' = [pc EXCEPT ![c] = CASE k \in {"publish", "resume"} -> "leasing"
                                       [] k = "start" -> "starting"
                                       [] k = "complete" -> "completing"
                                       [] k = "create" -> "validating"]
         /\ IF k \in {"resume", "complete"}
            THEN \E h \in handles : handle' = [handle EXCEPT ![c] = h]
            ELSE UNCHANGED handle
         /\ since' = [since EXCEPT ![c] = IF k = "create" THEN base ELSE 0]
  OBVIOUS
<1>11. /\ UNCHANGED <<checkout, journal, lease, origin, github, given, result, entry>>
       /\ minted' = minted /\ base' = base
  BY DEF given, origin
<1> HIDE DEF Begin
<1>3. k \in AllKinds /\ base \in Revision /\ MaxRevision \in Nat
  BY <1>0, PublishAssumption DEF SharedTypes
<1>4. /\ k \in {"publish", "resume"} => pc'[c] = "leasing"
      /\ k = "start" => pc'[c] = "starting"
      /\ k = "complete" => pc'[c] = "completing"
      /\ k = "create" => pc'[c] = "validating" /\ since'[c] = base
      /\ kind'[c] = k
  BY <1>0, <1>2, <1>3 DEF LocalTypes, AllKinds
<1>5. PICK h \in HandleSet \cup {NoHandle} :
         /\ handle' = [handle EXCEPT ![c] = h]
         /\ h # NoHandle => Minted(h)
         /\ k \in {"resume", "complete"} => h # NoHandle
  <2>1. CASE k \in {"resume", "complete"}
    <3>1. PICK h \in handles : handle' = [handle EXCEPT ![c] = h]
      BY <1>2, <2>1
    <3>2. h \in HandleSet /\ Minted(h)
      BY <1>0, <3>1
    <3>3. h # NoHandle
      BY <3>2, HandlesAreNot
    <3> QED BY <3>1, <3>2, <3>3
  <2>2. CASE k \notin {"resume", "complete"}
    <3>1. handle' = [handle EXCEPT ![c] = handle[c]]
      BY <1>0, <1>2, <2>2 DEF LocalTypes
    <3> QED BY <1>0, <2>2, <3>1 DEF LocalTypes, Established
  <2> QED BY <2>1, <2>2
<1>6. LocalTypes'
  <2>1. pc'[c] \in Place
    BY <1>3, <1>4 DEF Place, SharedPhase, AllKinds
  <2>2. pc' \in [Call -> Place]
    BY <1>0, <1>2, <2>1 DEF LocalTypes
  <2>3. since' \in [Call -> 0..MaxRevision]
    BY <1>0, <1>2, <1>3 DEF LocalTypes, Revision
  <2> QED BY <1>0, <1>2, <1>3, <1>5, <1>11, <2>2, <2>3 DEF LocalTypes
<1>7. ~Holds(c)'
  BY <1>3, <1>4 DEF Holds, HoldingLease, SharedPhase, AllKinds, Publishing
<1>8. \A d \in Call \ {c} : Same(d)
  BY <1>0, <1>2, <1>5, <1>11 DEF LocalTypes, Same
<1>9. Established(c)'
  <2>1. handle'[c] = h /\ minted' = minted /\ base' = base
    BY <1>0, <1>5, <1>11 DEF LocalTypes
  <2>2. handle'[c] # NoHandle => Minted(handle[c])'
    BY <1>5, <2>1 DEF Minted
  <2>3. pc'[c] = "validating" => since'[c] <= base'
    <3>1. k \notin {"publish", "resume", "start", "complete"} => since'[c] = base
      BY <1>3, <1>4 DEF AllKinds
    <3>2. k \in {"publish", "resume", "start", "complete"} => pc'[c] # "validating"
      BY <1>4
    <3>3. base \in Nat
      BY <1>3 DEF Revision
    <3> QED BY <2>1, <3>1, <3>2, <3>3
  <2> QED
    BY <1>3, <1>4, <1>5, <2>1, <2>2, <2>3
    DEF Established, HoldingLease, HasHandle, Working, AllKinds, Publishing
<1>10. LeaseMoves(c)
  BY <1>0, <1>1, <1>7, <1>11 DEF LeaseMoves
<1> QED BY <1>6, <1>8, <1>9, <1>10, <1>11, QuietStep

LEMMA FailKeeps ==
    ASSUME PublishInvariant, NEW c \in Call, Fail(c) PROVE PublishInvariant'
<1> USE DEF Fail, recovery
<1>0. LocalTypes /\ Established(c) /\ (lease = c <=> Holds(c))
  BY Facts
<1>1. CASE pc[c] = "leasing"
  <2>1. ~Holds(c)
    BY <1>1 DEF Holds, HoldingLease, SharedPhase
  <2> QED BY <1>0, <1>1, <2>1, AnswerFacts, QuietStep DEF LeaseMoves
<1>2. CASE pc[c] # "leasing"
  <2>1. Holds(c) <=> Publishing(c)
    BY <1>0, <1>2, PublishHolds
  <2> QED BY <1>0, <1>2, <2>1, LeaveFacts, QuietStep DEF LeaseMoves
<1> QED BY <1>1, <1>2

LEMMA ThrowKeeps ==
    ASSUME PublishInvariant, NEW c \in Call, Throw(c) PROVE PublishInvariant'
<1> USE DEF Throw
<1>0. LocalTypes /\ (lease = c <=> Holds(c))
  BY Facts
<1>1. Holds(c)
  BY DEF Holds, HoldingLease
<1> QED BY <1>0, <1>1, AnswerFacts, QuietStep, PublishAssumption DEF LeaseMoves

LEMMA CrashKeeps ==
    ASSUME PublishInvariant, NEW c \in Call, Crash(c) PROVE PublishInvariant'
<1> USE DEF Crash
<1>0. LocalTypes
  BY Facts
<1> QED BY <1>0, AnswerFacts, QuietStep, PublishAssumption DEF LeaseMoves

LEMMA TakeLeaseKeeps ==
    ASSUME PublishInvariant, NEW c \in Call, TakeLease(c) PROVE PublishInvariant'
<1> USE DEF TakeLease, LeaseIsFree, Step, local
<1>0. LocalTypes /\ Established(c)
  BY Facts
<1>1. /\ pc[c] = "leasing" /\ kind' = kind /\ handle' = handle /\ result' = result
      /\ entry' = entry /\ since' = since /\ minted' = minted
      /\ pc' = [pc EXCEPT ![c] = IF kind[c] = "resume" THEN "restaging" ELSE "reconciling"]
  BY DEF given
<1>2. pc'[c] = IF kind[c] = "resume" THEN "restaging" ELSE "reconciling"
  BY <1>0, <1>1 DEF LocalTypes
<1>3. LocalTypes'
  BY <1>0, <1>1 DEF LocalTypes, Place, HoldingLease
<1>4. Holds(c)' /\ Publishing(c)'
  BY <1>0, <1>1, <1>2 DEF Holds, HoldingLease, Established, Publishing
<1>5. \A d \in Call \ {c} : Same(d)
  BY <1>0, <1>1 DEF LocalTypes, Same
<1>6. Established(c)'
  BY <1>0, <1>1, <1>2, <1>4
  DEF Established, HoldingLease, HasHandle, Working, Publishing, Minted
<1> QED BY <1>3, <1>4, <1>5, <1>6, QuietStep DEF LeaseMoves

LEMMA LeaseContendedKeeps ==
    ASSUME PublishInvariant, NEW c \in Call, LeaseContended(c) PROVE PublishInvariant'
<1> USE DEF LeaseContended, recovery
<1>0. LocalTypes /\ (lease = c <=> Holds(c))
  BY Facts
<1>1. ~Holds(c)
  BY DEF Holds, HoldingLease, SharedPhase
<1> QED BY <1>0, <1>1, AnswerFacts, QuietStep DEF LeaseMoves

-----------------------------------------------------------------------------
(* What the steps that do more have in common.                             *)

LEMMA HeldStep ==
    ASSUME PublishInvariant, NEW c \in Call,
           SharedTypes', LocalTypes', LeaseMoves(c), \A d \in Call \ {c} : Same(d),
           Grows, InHand(c), JournalConsistent', \A h \in handles' : Minted(h)',
           Established(c)', thread' = thread, pr' = pr
    PROVE  PublishInvariant'
<1>1. SharedTypes /\ RecordsPublished /\ RecordsMergeTheBase /\ PrFresh
  BY Facts
<1>2. RecordsPublished' /\ RecordsMergeTheBase' /\ PrFresh'
  BY <1>1, RecordsPersist
<1> QED BY <1>2, StepKeeps

LEMMA GrowsStill ==
    ASSUME SharedTypes, UNCHANGED <<base, remote, minted, thread>> PROVE Grows
BY DEF SharedTypes, Grows, Revision

LEMMA GrowsByPush ==
    ASSUME SharedTypes, GitPush, UNCHANGED <<base, minted, thread>>
    PROVE  Grows /\ remote' \in Branch
<1>1. IsPrefix(remote, remote') /\ remote \in Branch /\ remote' \in Branch
  BY DEF GitPush, SharedTypes
<1>2. \A b \in Branch : IsPrefix(b, remote) => IsPrefix(b, remote')
  BY <1>1, BranchIsSequence, PrefixTransitive
<1> QED BY <1>1, <1>2 DEF SharedTypes, Grows, Revision

LEMMA MoveFacts ==
    ASSUME LocalTypes, NEW c \in Call, NEW to \in Place,
           pc' = [pc EXCEPT ![c] = to], kind' = kind, since' = since,
           handle' = handle \/ \E h \in HandleSet : handle' = [handle EXCEPT ![c] = h],
           result' = result \/ \E r \in Branch : result' = [result EXCEPT ![c] = r],
           entry' = entry \/ \E e : entry' = [entry EXCEPT ![c] = e]
    PROVE  LocalTypes' /\ pc'[c] = to /\ \A d \in Call \ {c} : Same(d)
<1>1. pc' \in [Call -> Place] /\ pc'[c] = to /\ \A d \in Call \ {c} : pc'[d] = pc[d]
  BY DEF LocalTypes
<1>2. handle' \in [Call -> HandleSet \cup {NoHandle}]
      /\ \A d \in Call \ {c} : handle'[d] = handle[d]
  BY DEF LocalTypes
<1>3. result' \in [Call -> Branch \cup {<<>>}] /\ \A d \in Call \ {c} : result'[d] = result[d]
  BY DEF LocalTypes
<1>4. DOMAIN entry' = Call /\ \A d \in Call \ {c} : entry'[d] = entry[d]
  BY DEF LocalTypes
<1> QED BY <1>1, <1>2, <1>3, <1>4 DEF LocalTypes, Same

LEMMA LeaseKept ==
    ASSUME NEW c \in Call, lease' = lease, lease = c <=> Publishing(c), kind'[c] = kind[c],
           pc'[c] \in HoldingLease \cup SharedPhase, pc'[c] \in HoldingLease => Publishing(c)
    PROVE  LeaseMoves(c) /\ Publishing(c)' = Publishing(c)
<1>1. Publishing(c)' = Publishing(c)
  BY DEF Publishing
<1>2. Holds(c)' <=> Publishing(c)
  BY <1>1 DEF Holds
<1> QED BY <1>1, <1>2 DEF LeaseMoves

(* A call under way, that is past taking the lease.                        *)
LEMMA UnderWay ==
    ASSUME PublishInvariant, NEW c \in Call, pc[c] \notin {"idle", "leasing"}
    PROVE  /\ Holds(c) <=> Publishing(c)
           /\ lease = c <=> Publishing(c)
           /\ pc[c] \in HoldingLease => Publishing(c)
           /\ ~Publishing(c) /\ journal' = journal /\ (stager' = "publish" => stager = "publish")
                => InHand(c)
           /\ Publishing(c) => InHand(c)
<1>1. LocalTypes /\ Established(c) /\ (lease = c <=> Holds(c))
  BY Facts
<1>2. Holds(c) <=> Publishing(c)
  BY <1>1, PublishHolds
<1> QED BY <1>1, <1>2 DEF Established, InHand

LEMMA ReconcileKeeps ==
    ASSUME PublishInvariant, NEW c \in Call, Reconcile(c) PROVE PublishInvariant'
<1>0. /\ SharedTypes /\ LocalTypes /\ JournalConsistent /\ Established(c)
      /\ \A h \in handles : h \in HandleSet /\ Minted(h)
  BY Facts
<1>1. /\ pc[c] = "reconciling"
      /\ UNCHANGED <<head, mergeHead, stager, files, index, tracking, base, remote, thread, pr, minted>>
  BY DEF Reconcile, checkout, origin, github
<1>2. Publishing(c) /\ lease = c /\ InHand(c) /\ Grows
  BY <1>0, <1>1, UnderWay, GrowsStill DEF HoldingLease
<1>3. CASE /\ ~journal.there \/ mergeHead = 0
           /\ Step(c, "reconciling", "staging") /\ journal' = JournalReset
           /\ UNCHANGED <<lease, local>> /\ handles' = handles
  <2>1. stager # "publish"
    BY <1>0, <1>3 DEF SharedTypes, JournalConsistent
  <2>2. /\ pc' = [pc EXCEPT ![c] = "staging"] /\ kind' = kind /\ handle' = handle
        /\ result' = result /\ entry' = entry /\ since' = since
        /\ journal' = [id |-> 0, pre |-> <<>>, fetched |-> 0, there |-> TRUE]
    BY <1>3 DEF Step, local, JournalReset, NoJournal
  <2>3. LocalTypes' /\ pc'[c] = "staging" /\ \A d \in Call \ {c} : Same(d)
    BY <1>0, <2>2, MoveFacts DEF Place, HoldingLease
  <2>4. SharedTypes'
    BY <1>0, <1>1, <1>3, <2>2, PublishAssumption DEF SharedTypes
  <2>5. LeaseMoves(c) /\ Publishing(c)'
    BY <1>2, <1>3, <2>2, <2>3, LeaseKept DEF HoldingLease
  <2>6. JournalConsistent' /\ \A h \in handles' : Minted(h)'
    BY <1>0, <1>1, <1>3, <2>2 DEF JournalConsistent, Minted
  <2>7. Established(c)'
    BY <1>0, <1>1, <2>1, <2>2, <2>3, <2>5 DEF Established, HasHandle, Minted
  <2> QED BY <1>1, <1>2, <2>3, <2>4, <2>5, <2>6, <2>7, HeldStep
<1>4. CASE /\ ~journal.there \/ mergeHead = 0
           /\ Answer(c) /\ journal' = NoJournal /\ lease' = Free /\ handles' = handles
  <2>1. stager # "publish"
    BY <1>0, <1>4 DEF SharedTypes, JournalConsistent
  <2>2. journal' = [id |-> 0, pre |-> <<>>, fetched |-> 0, there |-> FALSE]
    BY <1>4 DEF NoJournal
  <2>3. SharedTypes'
    BY <1>0, <1>1, <1>4, <2>2, PublishAssumption DEF SharedTypes
  <2>4. JournalConsistent' /\ \A h \in handles' : Minted(h)'
    BY <1>0, <1>1, <1>4, <2>1, <2>2 DEF JournalConsistent, Minted
  <2>5. /\ LocalTypes' /\ ~Holds(c)' /\ Established(c)'
        /\ \A d \in Call \ {c} : Same(d)
    BY <1>0, <1>4, AnswerFacts
  <2>6. LeaseMoves(c)
    BY <1>2, <1>4, <2>5, PublishAssumption DEF LeaseMoves
  <2> QED BY <1>1, <1>2, <2>3, <2>4, <2>5, <2>6, HeldStep
<1>5. CASE /\ handles' = IF Matches(journal)
                         THEN handles \cup {Handle(journal.id, journal.pre, journal.fetched)}
                         ELSE handles
           /\ Answer(c) /\ lease' = Free /\ journal' = journal
  <2>1. ASSUME NEW h \in handles' PROVE h \in HandleSet /\ Minted(h)
    <3>1. CASE h \in handles
      BY <1>0, <3>1
    <3>2. CASE h \notin handles
      <4>1. h = Handle(journal.id, journal.pre, journal.fetched) /\ journal.id # 0
        BY <1>5, <3>2 DEF Matches
      <4>2. Minted(h)
        BY <1>0, <4>1 DEF JournalConsistent
      <4> QED BY <1>0, <4>2, ElementOfSeq, LenProperties DEF Minted, SharedTypes
    <3> QED BY <3>1, <3>2
  <2>2. SharedTypes'
    BY <1>0, <1>1, <1>5, <2>1 DEF SharedTypes
  <2>3. JournalConsistent' /\ \A h \in handles' : Minted(h)'
    BY <1>0, <1>1, <1>5, <2>1 DEF JournalConsistent, Minted
  <2>4. /\ LocalTypes' /\ ~Holds(c)' /\ Established(c)'
        /\ \A d \in Call \ {c} : Same(d)
    BY <1>0, <1>5, AnswerFacts
  <2>5. LeaseMoves(c)
    BY <1>2, <1>5, <2>4, PublishAssumption DEF LeaseMoves
  <2> QED BY <1>1, <1>2, <2>2, <2>3, <2>4, <2>5, HeldStep
<1> QED BY <1>3, <1>4, <1>5 DEF Reconcile

LEMMA CloseKeeps ==
    ASSUME PublishInvariant, NEW c \in Call, Close(c) PROVE PublishInvariant'
<1>0. /\ SharedTypes /\ LocalTypes /\ JournalConsistent
      /\ \A h \in handles : Minted(h)
  BY Facts
<1>1. /\ pc[c] = "closing" /\ Answer(c) /\ lease' = Free
      /\ journal' = IF mergeHead = 0 THEN NoJournal ELSE journal
      /\ UNCHANGED <<head, mergeHead, stager, files, index, tracking, base, remote, thread, pr,
                     minted, handles>>
  BY DEF Close, checkout, origin, github, given
<1>2. lease = c /\ InHand(c) /\ Grows
  BY <1>0, <1>1, UnderWay, GrowsStill DEF HoldingLease
<1>3. /\ LocalTypes' /\ ~Holds(c)' /\ Established(c)'
      /\ \A d \in Call \ {c} : Same(d)
  BY <1>0, <1>1, AnswerFacts
<1>4. SharedTypes'
  <2>1. NoJournal \in [id: Attempt \cup {0}, pre: Branch \cup {<<>>}, fetched: 0..MaxRevision,
                       there: BOOLEAN]
    BY PublishAssumption DEF NoJournal
  <2> QED BY <1>0, <1>1, <2>1 DEF SharedTypes
<1>5. JournalConsistent' /\ \A h \in handles' : Minted(h)'
  <2>1. CASE mergeHead = 0
    BY <1>0, <1>1, <2>1 DEF JournalConsistent, Minted, NoJournal, SharedTypes
  <2>2. CASE mergeHead # 0
    BY <1>0, <1>1, <2>2 DEF JournalConsistent, Minted
  <2> QED BY <2>1, <2>2
<1>6. LeaseMoves(c)
  BY <1>1, <1>2, <1>3, PublishAssumption DEF LeaseMoves
<1> QED BY <1>1, <1>2, <1>3, <1>4, <1>5, <1>6, HeldStep

LEMMA IndexTyped ==
    ASSUME SharedTypes, index' = index \/ AddAll
    PROVE  index' \in [content: Content, markers: BOOLEAN, unmerged: BOOLEAN]
<1>1. files.content \in Content /\ files.markers \in BOOLEAN
  BY DEF SharedTypes
<1>2. CASE AddAll
  BY <1>1, <1>2 DEF AddAll
<1>3. CASE index' = index
  BY <1>3 DEF SharedTypes
<1> QED BY <1>2, <1>3

LEMMA StageKeeps ==
    ASSUME PublishInvariant, NEW c \in Call, Stage(c) PROVE PublishInvariant'
<1>0. /\ SharedTypes /\ LocalTypes /\ JournalConsistent /\ Established(c)
      /\ \A h \in handles : Minted(h)
  BY Facts
<1>1. /\ pc[c] = "staging"
      /\ index' = index \/ AddAll
      /\ UNCHANGED <<head, mergeHead, stager, files, tracking, journal, lease, base, remote,
                     thread, pr, minted, handles>>
  BY DEF Stage, Step, recovery, origin, github, given, local
<1>7. \/ Leave(c)
      \/ /\ pc' = [pc EXCEPT ![c] = "saving"] \/ pc' = [pc EXCEPT ![c] = "sending"]
         /\ UNCHANGED <<kind, handle, result, entry, since>>
  BY DEF Stage, Step, Screened, local
<1>2. Publishing(c) /\ lease = c /\ InHand(c) /\ Grows
  BY <1>0, <1>1, UnderWay, GrowsStill DEF HoldingLease
<1>3. SharedTypes'
  <2>1. index' \in [content: Content, markers: BOOLEAN, unmerged: BOOLEAN]
    BY <1>0, <1>1, IndexTyped
  <2> QED BY <1>0, <1>1, <2>1 DEF SharedTypes
<1>4. JournalConsistent' /\ \A h \in handles' : Minted(h)'
  BY <1>0, <1>1 DEF JournalConsistent, Minted
<1>5. CASE Leave(c)
  <2>1. /\ LocalTypes' /\ Holds(c)' /\ Established(c)'
        /\ \A d \in Call \ {c} : Same(d)
    BY <1>0, <1>2, <1>5, LeaveFacts
  <2> QED BY <1>1, <1>2, <1>3, <1>4, <2>1, HeldStep DEF LeaseMoves
<1>6. CASE /\ pc' = [pc EXCEPT ![c] = "saving"] \/ pc' = [pc EXCEPT ![c] = "sending"]
           /\ UNCHANGED <<kind, handle, result, entry, since>>
  <2>1. PICK to \in {"saving", "sending"} : pc' = [pc EXCEPT ![c] = to]
    BY <1>6
  <2>2. LocalTypes' /\ pc'[c] = to /\ \A d \in Call \ {c} : Same(d)
    BY <1>0, <1>6, <2>1, MoveFacts DEF Place, HoldingLease
  <2>3. LeaseMoves(c) /\ Publishing(c)'
    BY <1>1, <1>2, <1>6, <2>2, LeaseKept DEF HoldingLease
  <2>4. Established(c)'
    BY <1>0, <1>1, <1>6, <2>2, <2>3 DEF Established, HasHandle, Working, Minted, Publishing
  <2> QED BY <1>1, <1>2, <1>3, <1>4, <2>2, <2>3, <2>4, HeldStep
<1> QED BY <1>5, <1>6, <1>7

LEMMA CommitFacts ==
    ASSUME SharedTypes, GitCommit,
           UNCHANGED <<journal, base, remote, minted, handles, thread, pr>>
    PROVE  /\ SharedTypes' /\ stager' = "none" /\ Committed \in Branch
           /\ UNCHANGED <<tracking, files, index>>
<1>1. /\ head \in Branch /\ Len(head) < MaxCommits /\ index.content \in Content
      /\ index.markers \in BOOLEAN /\ mergeHead \in 0..MaxRevision
  BY DEF SharedTypes, GitCommit
<1>2. Committed \in Branch
  BY <1>1, BranchGrows DEF Committed, Commit
<1>3. head' = Committed /\ mergeHead' = 0 /\ stager' = "none" /\ UNCHANGED <<tracking, files, index>>
  BY DEF GitCommit
<1>4. SharedTypes'
  BY <1>2, <1>3, PublishAssumption DEF SharedTypes
<1> QED BY <1>2, <1>3, <1>4

LEMMA SaveWorkKeeps ==
    ASSUME PublishInvariant, NEW c \in Call, SaveWork(c) PROVE PublishInvariant'
<1>0. /\ SharedTypes /\ LocalTypes /\ JournalConsistent /\ Established(c)
      /\ \A h \in handles : Minted(h)
  BY Facts
<1>1. /\ pc[c] = "saving" /\ GitCommit /\ pc' = [pc EXCEPT ![c] = "sending"]
      /\ UNCHANGED <<journal, lease, base, remote, thread, pr, minted, handles,
                     kind, handle, result, entry, since>>
  BY DEF SaveWork, Step, recovery, origin, github, given, local
<1>2. Publishing(c) /\ lease = c /\ InHand(c) /\ Grows
  BY <1>0, <1>1, UnderWay, GrowsStill DEF HoldingLease
<1>3. SharedTypes' /\ stager' = "none"
  BY <1>0, <1>1, CommitFacts
<1>4. JournalConsistent' /\ \A h \in handles' : Minted(h)'
  BY <1>0, <1>1, <1>3 DEF JournalConsistent, Minted
<1>5. LocalTypes' /\ pc'[c] = "sending" /\ \A d \in Call \ {c} : Same(d)
  BY <1>0, <1>1, MoveFacts DEF Place, HoldingLease
<1>6. LeaseMoves(c) /\ Publishing(c)'
  BY <1>1, <1>2, <1>5, LeaseKept DEF HoldingLease
<1>7. Established(c)'
  BY <1>0, <1>1, <1>3, <1>5, <1>6 DEF Established, HasHandle, Working, Minted, Publishing
<1> QED BY <1>1, <1>2, <1>3, <1>4, <1>5, <1>6, <1>7, HeldStep

LEMMA SendWorkKeeps ==
    ASSUME PublishInvariant, NEW c \in Call, SendWork(c) PROVE PublishInvariant'
<1>0. /\ SharedTypes /\ LocalTypes /\ JournalConsistent /\ Established(c)
      /\ \A h \in handles : Minted(h)
  BY Facts
<1>1. /\ pc[c] = "sending" /\ GitPush /\ pc' = [pc EXCEPT ![c] = "starting"]
      /\ journal' = [journal EXCEPT !.there = TRUE, !.pre = head]
      /\ UNCHANGED <<head, mergeHead, stager, files, index, tracking, lease, base, thread, pr,
                     minted, handles, kind, handle, result, entry, since>>
  BY DEF SendWork, Step, checkout, github, given, local
<1>2. Publishing(c) /\ lease = c /\ InHand(c) /\ Grows /\ remote' \in Branch
  BY <1>0, <1>1, UnderWay, GrowsByPush DEF HoldingLease
<1>3. SharedTypes'
  BY <1>0, <1>1, <1>2 DEF SharedTypes
<1>4. journal'.id = 0 /\ journal'.there
  BY <1>0, <1>1 DEF Established, Working, SharedTypes
<1>5. JournalConsistent' /\ \A h \in handles' : Minted(h)'
  BY <1>0, <1>1, <1>4 DEF JournalConsistent, Minted
<1>6. LocalTypes' /\ pc'[c] = "starting" /\ \A d \in Call \ {c} : Same(d)
  BY <1>0, <1>1, MoveFacts DEF Place, SharedPhase
<1>7. LeaseMoves(c) /\ Publishing(c)'
  BY <1>1, <1>2, <1>6, LeaseKept DEF SharedPhase
<1>8. Established(c)'
  BY <1>0, <1>1, <1>4, <1>6, <1>7 DEF Established, HasHandle, Working, Minted, HoldingLease
<1> QED BY <1>1, <1>2, <1>3, <1>5, <1>6, <1>7, <1>8, HeldStep

-----------------------------------------------------------------------------
(* Synchronization.                                                        *)

LEMMA NewAttempt ==
    ASSUME SharedTypes, Len(minted) < MaxAttempt, NEW h \in HandleSet, h.id = Len(minted) + 1,
           minted' = Append(minted, h)
    PROVE  /\ minted' \in Seq(HandleSet) /\ Minted(h)'
           /\ DOMAIN minted \subseteq DOMAIN minted'
           /\ \A i \in DOMAIN minted : minted'[i] = minted[i]
<1>1. minted \in Seq(HandleSet)
  BY DEF SharedTypes
<1> QED BY <1>1, AppendProperties, LenProperties DEF Minted

LEMMA StartKeeps ==
    ASSUME PublishInvariant, NEW c \in Call, Start(c) PROVE PublishInvariant'
<1>11. PICK h : h = Handle(Len(minted) + 1, head, base)
  OBVIOUS
<1>0. /\ SharedTypes /\ LocalTypes /\ JournalConsistent /\ Established(c)
      /\ \A g \in handles : Minted(g)
  BY Facts
<1>1. /\ pc[c] = "starting" /\ pc' = [pc EXCEPT ![c] = "merging"]
      /\ Len(minted) < MaxAttempt
      /\ tracking' = base
      /\ minted' = Append(minted, h) /\ handle' = [handle EXCEPT ![c] = h]
      /\ UNCHANGED <<head, mergeHead, stager, files, index, journal, lease, base, remote, thread,
                     pr, handles, kind, result, entry, since>>
  BY <1>11 DEF Start, Step, recovery, origin, github
<1>2. h \in HandleSet /\ h.id = Len(minted) + 1
  BY <1>0, <1>1, <1>11, LenProperties, PublishAssumption DEF SharedTypes, HandleSet, Handle, Attempt
<1>3. /\ minted' \in Seq(HandleSet) /\ Minted(h)'
      /\ DOMAIN minted \subseteq DOMAIN minted'
      /\ \A i \in DOMAIN minted : minted'[i] = minted[i]
  BY <1>0, <1>1, <1>2, NewAttempt
<1>4. Grows
  BY <1>0, <1>1, <1>3 DEF SharedTypes, Grows, Revision
<1>5. /\ lease = c <=> Publishing(c)
      /\ InHand(c)
  BY <1>1, UnderWay
<1>6. SharedTypes'
  BY <1>0, <1>1, <1>3 DEF SharedTypes
<1>7. JournalConsistent' /\ \A g \in handles' : Minted(g)'
  <2>1. \A g : Minted(g) => Minted(g)'
    BY <1>4, MintedStays
  <2> QED BY <1>0, <1>1, <2>1 DEF JournalConsistent
<1>8. LocalTypes' /\ pc'[c] = "merging" /\ \A d \in Call \ {c} : Same(d)
  BY <1>0, <1>1, <1>2, MoveFacts DEF Place, SharedPhase
<1>9. LeaseMoves(c) /\ Publishing(c)' = Publishing(c)
  BY <1>1, <1>5, <1>8, LeaseKept DEF SharedPhase, HoldingLease
<1>10. Established(c)'
  <2>1. handle'[c] = h /\ h # NoHandle
    BY <1>0, <1>1, <1>2, HandlesAreNot DEF LocalTypes
  <2>2. Minted(handle[c])'
    BY <1>3, <2>1 DEF Minted
  <2> QED BY <1>0, <1>1, <1>8, <1>9, <2>1, <2>2 DEF Established, HoldingLease, Working
<1> QED BY <1>1, <1>4, <1>5, <1>6, <1>7, <1>8, <1>9, <1>10, HeldStep

(* The handle of a call that acts on one.                                  *)
LEMMA HandleOf ==
    ASSUME LocalTypes, NEW c \in Call, Established(c), pc[c] \in HasHandle
    PROVE  handle[c] \in HandleSet /\ handle[c] # NoHandle /\ Minted(handle[c])
BY DEF LocalTypes, Established

LEMMA AlreadyCurrentKeeps ==
    ASSUME PublishInvariant, NEW c \in Call, AlreadyCurrent(c) PROVE PublishInvariant'
<1>0. /\ SharedTypes /\ LocalTypes /\ JournalConsistent /\ Established(c)
      /\ \A h \in handles : Minted(h)
  BY Facts
<1>1. /\ pc[c] = "merging" /\ pc' = [pc EXCEPT ![c] = "binding"]
      /\ Ancestor(handle[c].fetched, handle[c].pre)
      /\ result' = [result EXCEPT ![c] = handle[c].pre]
      /\ UNCHANGED <<head, mergeHead, stager, files, index, tracking, journal, lease, base, remote,
                     thread, pr, minted, handles, kind, handle, entry, since>>
  BY DEF AlreadyCurrent, Step, checkout, recovery, origin, github, given
<1>2. /\ lease = c <=> Publishing(c)
      /\ InHand(c) /\ Grows
  BY <1>0, <1>1, UnderWay, GrowsStill
<1>3. handle[c] \in HandleSet /\ handle[c] # NoHandle /\ Minted(handle[c])
  BY <1>0, <1>1, HandleOf DEF HasHandle
<1>4. handle[c].pre \in Branch
  BY <1>3 DEF HandleSet
<1>5. SharedTypes' /\ JournalConsistent' /\ \A h \in handles' : Minted(h)'
  BY <1>0, <1>1 DEF SharedTypes, JournalConsistent, Minted
<1>6. LocalTypes' /\ pc'[c] = "binding" /\ \A d \in Call \ {c} : Same(d)
  BY <1>0, <1>1, <1>4, MoveFacts DEF Place, SharedPhase
<1>7. LeaseMoves(c) /\ Publishing(c)' = Publishing(c)
  BY <1>1, <1>2, <1>6, LeaseKept DEF SharedPhase, HoldingLease
<1>8. Established(c)'
  <2>1. result'[c] = handle[c].pre /\ handle'[c] = handle[c]
    BY <1>0, <1>1 DEF LocalTypes
  <2>2. MergesTheBase(handle'[c], result'[c])
    BY <1>1, <2>1 DEF MergesTheBase
  <2> QED BY <1>1, <1>3, <1>4, <1>6, <2>1, <2>2 DEF Established, HoldingLease, Working, Minted
<1> QED BY <1>1, <1>2, <1>5, <1>6, <1>7, <1>8, HeldStep

LEMMA MergeFacts ==
    ASSUME SharedTypes, NEW c, NEW conflict \in BOOLEAN, GitMerge(conflict), Stages(c),
           UNCHANGED <<journal, base, remote, minted, thread, pr>>, handles' \subseteq HandleSet
    PROVE  SharedTypes' /\ (stager' = "publish" => stager = "publish" \/ Publishing(c))
<1>1. CASE UNCHANGED <<mergeHead, files, index>>
  BY <1>1 DEF SharedTypes, GitMerge, Stages
<1>2. CASE /\ mergeHead' = tracking
           /\ index' = [index EXCEPT !.unmerged = conflict]
           /\ files' = [files EXCEPT !.markers = conflict]
  <2>1. mergeHead = 0 /\ UNCHANGED <<head, tracking>> /\ tracking \in Revision
    BY DEF GitMerge, SharedTypes
  <2>2. mergeHead' \in 0..MaxRevision /\ mergeHead' # 0
    BY <1>2, <2>1, PublishAssumption DEF Revision
  <2>3. stager' \in {"tool", "publish"} /\ (stager' = "publish" => Publishing(c))
    BY <1>2, <2>1, <2>2 DEF Stages
  <2> QED BY <1>2, <2>1, <2>2, <2>3 DEF SharedTypes
<1> QED BY <1>1, <1>2 DEF GitMerge

LEMMA MergeCleanKeeps ==
    ASSUME PublishInvariant, NEW c \in Call, MergeClean(c) PROVE PublishInvariant'
<1>0. /\ SharedTypes /\ LocalTypes /\ JournalConsistent /\ Established(c)
      /\ \A h \in handles : h \in HandleSet /\ Minted(h)
  BY Facts
<1>1. /\ pc[c] = "merging" /\ GitMerge(FALSE) /\ Stages(c)
      /\ UNCHANGED <<journal, lease, base, remote, thread, pr, minted>>
  BY DEF MergeClean, recovery, origin, github
<1>2. handle[c] \in HandleSet /\ handle[c] # NoHandle /\ Minted(handle[c])
  BY <1>0, <1>1, HandleOf DEF HasHandle
<1>3. /\ lease = c <=> Publishing(c)
      /\ Grows
  BY <1>0, <1>1, UnderWay, GrowsStill
<1>4. \A h \in handles' : h \in HandleSet /\ Minted(h)
  BY <1>0, <1>2 DEF MergeClean
<1>5. SharedTypes' /\ (stager' = "publish" => stager = "publish" \/ Publishing(c))
  BY <1>0, <1>1, <1>4, MergeFacts
<1>6. InHand(c)
  BY <1>1, <1>5, UnderWay
<1>7. JournalConsistent' /\ \A h \in handles' : Minted(h)'
  BY <1>0, <1>1, <1>4, <1>5 DEF JournalConsistent, Minted, Established
<1>8. CASE Publishing(c)
  <2>1. /\ pc' = [pc EXCEPT ![c] = "journaling"]
        /\ UNCHANGED <<kind, handle, result, entry, since>>
    BY <1>8 DEF MergeClean, Step, local
  <2>2. LocalTypes' /\ pc'[c] = "journaling" /\ \A d \in Call \ {c} : Same(d)
    BY <1>0, <2>1, MoveFacts DEF Place, HoldingLease
  <2>3. LeaseMoves(c) /\ Publishing(c)'
    BY <1>1, <1>3, <1>8, <2>1, <2>2, LeaseKept DEF HoldingLease
  <2>4. Established(c)'
    BY <1>0, <1>1, <1>2, <1>8, <2>1, <2>2, <2>3 DEF Established, Working, Minted
  <2> QED BY <1>1, <1>3, <1>5, <1>6, <1>7, <2>2, <2>3, <2>4, HeldStep
<1>9. CASE ~Publishing(c)
  <2>1. Answer(c)
    BY <1>9 DEF MergeClean
  <2>2. /\ LocalTypes' /\ ~Holds(c)' /\ Established(c)'
        /\ \A d \in Call \ {c} : Same(d)
    BY <1>0, <2>1, AnswerFacts
  <2>3. LeaseMoves(c)
    BY <1>1, <1>3, <1>9, <2>2 DEF LeaseMoves
  <2> QED BY <1>1, <1>3, <1>5, <1>6, <1>7, <2>2, <2>3, HeldStep
<1> QED BY <1>8, <1>9

LEMMA MergeConflictsKeeps ==
    ASSUME PublishInvariant, NEW c \in Call, MergeConflicts(c) PROVE PublishInvariant'
<1>0. /\ SharedTypes /\ LocalTypes /\ JournalConsistent /\ Established(c)
      /\ \A h \in handles : h \in HandleSet /\ Minted(h)
  BY Facts
<1>1. /\ pc[c] = "merging" /\ GitMerge(TRUE) /\ Stages(c) /\ Leave(c)
      /\ UNCHANGED <<journal, lease, base, remote, thread, pr, minted>>
  BY DEF MergeConflicts, recovery, origin, github
<1>2. handle[c] \in HandleSet /\ Minted(handle[c])
  BY <1>0, <1>1, HandleOf DEF HasHandle
<1>3. /\ lease = c <=> Publishing(c)
      /\ Grows
  BY <1>0, <1>1, UnderWay, GrowsStill
<1>4. \A h \in handles' : h \in HandleSet /\ Minted(h)
  BY <1>0, <1>2 DEF MergeConflicts
<1>5. SharedTypes' /\ (stager' = "publish" => stager = "publish" \/ Publishing(c))
  BY <1>0, <1>1, <1>4, MergeFacts
<1>6. InHand(c)
  BY <1>1, <1>5, UnderWay
<1>7. JournalConsistent' /\ \A h \in handles' : Minted(h)'
  BY <1>0, <1>1, <1>4, <1>5 DEF JournalConsistent, Minted, Established
<1>8. /\ LocalTypes' /\ (Holds(c)' <=> Publishing(c)) /\ Established(c)'
      /\ \A d \in Call \ {c} : Same(d)
  BY <1>0, <1>1, LeaveFacts
<1>9. LeaseMoves(c)
  BY <1>1, <1>3, <1>8 DEF LeaseMoves
<1> QED BY <1>1, <1>3, <1>5, <1>6, <1>7, <1>8, <1>9, HeldStep

LEMMA JournalMergeKeeps ==
    ASSUME PublishInvariant, NEW c \in Call, JournalMerge(c) PROVE PublishInvariant'
<1>0. /\ SharedTypes /\ LocalTypes /\ JournalConsistent /\ Established(c)
      /\ \A h \in handles : Minted(h)
  BY Facts
<1>1. /\ pc[c] = "journaling" /\ pc' = [pc EXCEPT ![c] = "completing"]
      /\ journal' = [there |-> TRUE, id |-> handle[c].id, pre |-> handle[c].pre,
                     fetched |-> handle[c].fetched]
      /\ UNCHANGED <<head, mergeHead, stager, files, index, tracking, lease, base, remote,
                     thread, pr, minted, handles, kind, handle, result, entry, since>>
  BY DEF JournalMerge, Step, checkout, origin, github, given, local
<1>2. handle[c] \in HandleSet /\ handle[c] # NoHandle /\ Minted(handle[c])
  BY <1>0, <1>1, HandleOf DEF HasHandle
<1>3. Publishing(c) /\ lease = c /\ InHand(c) /\ Grows
  BY <1>0, <1>1, UnderWay, GrowsStill DEF HoldingLease
<1>4. SharedTypes'
  <2>1. /\ handle[c].id \in Attempt /\ handle[c].pre \in Branch
        /\ handle[c].fetched \in 0..MaxRevision
    BY <1>2, PublishAssumption DEF HandleSet, Revision
  <2>2. journal' \in [id: Attempt \cup {0}, pre: Branch \cup {<<>>}, fetched: 0..MaxRevision,
                      there: BOOLEAN]
    BY <1>1, <2>1
  <2> QED BY <1>0, <1>1, <2>2 DEF SharedTypes
<1>5. JournalConsistent' /\ \A h \in handles' : Minted(h)'
  <2>1. Handle(journal'.id, journal'.pre, journal'.fetched) = handle[c] /\ journal'.there
    BY <1>1, <1>2 DEF HandleSet, Handle
  <2> QED BY <1>0, <1>1, <1>2, <2>1 DEF JournalConsistent, Minted
<1>6. LocalTypes' /\ pc'[c] = "completing" /\ \A d \in Call \ {c} : Same(d)
  BY <1>0, <1>1, MoveFacts DEF Place, SharedPhase
<1>7. LeaseMoves(c) /\ Publishing(c)'
  BY <1>1, <1>3, <1>6, LeaseKept DEF SharedPhase
<1>8. Established(c)'
  BY <1>0, <1>1, <1>2, <1>6, <1>7 DEF Established, Working, Minted
<1> QED BY <1>1, <1>3, <1>4, <1>5, <1>6, <1>7, <1>8, HeldStep

LEMMA RestageKeeps ==
    ASSUME PublishInvariant, NEW c \in Call, Restage(c) PROVE PublishInvariant'
<1>0. /\ SharedTypes /\ LocalTypes /\ JournalConsistent /\ Established(c)
      /\ \A h \in handles : Minted(h)
  BY Facts
<1>1. /\ pc[c] = "restaging" /\ pc' = [pc EXCEPT ![c] = "completing"]
      /\ UNCHANGED <<head, mergeHead, stager, files, tracking, journal, lease, base, remote,
                     thread, pr, minted, handles, kind, handle, result, entry, since>>
  BY DEF Restage, Screened, Step, recovery, origin, github, given
<1>2. index' = index \/ AddAll
  BY DEF Restage
<1>3. Publishing(c) /\ lease = c /\ InHand(c) /\ Grows
  BY <1>0, <1>1, UnderWay, GrowsStill DEF HoldingLease
<1>4. SharedTypes'
  BY <1>0, <1>1, <1>2, IndexTyped DEF SharedTypes
<1>5. JournalConsistent' /\ \A h \in handles' : Minted(h)'
  BY <1>0, <1>1 DEF JournalConsistent, Minted
<1>6. LocalTypes' /\ pc'[c] = "completing" /\ \A d \in Call \ {c} : Same(d)
  BY <1>0, <1>1, MoveFacts DEF Place, SharedPhase
<1>7. LeaseMoves(c) /\ Publishing(c)'
  BY <1>1, <1>3, <1>6, LeaseKept DEF SharedPhase
<1>8. Established(c)'
  BY <1>0, <1>1, <1>6, <1>7 DEF Established, Working, Minted, HasHandle
<1> QED BY <1>1, <1>3, <1>4, <1>5, <1>6, <1>7, <1>8, HeldStep

(* What completion does while the rest of the world stands still.          *)
LEMMA QuietMove ==
    ASSUME PublishInvariant, NEW c \in Call, NEW to \in SharedPhase, pc[c] \in SharedPhase,
           UNCHANGED <<checkout, recovery, origin, github, given, kind, handle, since>>,
           pc' = [pc EXCEPT ![c] = to],
           result' = result \/ \E r \in Branch : result' = [result EXCEPT ![c] = r],
           entry' = entry \/ \E e : entry' = [entry EXCEPT ![c] = e],
           LocalTypes' /\ pc'[c] = to => Established(c)'
    PROVE  PublishInvariant'
<1>0. LocalTypes
  BY Facts
<1>1. lease = c <=> Publishing(c)
  BY UnderWay DEF SharedPhase
<1>2. LocalTypes' /\ pc'[c] = to /\ \A d \in Call \ {c} : Same(d)
  BY <1>0, MoveFacts DEF Place
<1>3. LeaseMoves(c)
  BY <1>1, <1>2, LeaseKept DEF SharedPhase, HoldingLease, recovery
<1> QED BY <1>2, <1>3, QuietStep DEF recovery

LEMMA PrepareMergeKeeps ==
    ASSUME PublishInvariant, NEW c \in Call, PrepareMerge(c) PROVE PublishInvariant'
<1>0. Established(c)
  BY Facts
<1>1. /\ pc[c] = "completing" /\ pc' = [pc EXCEPT ![c] = "committing"]
      /\ entry' = [entry EXCEPT ![c] = IndexTree]
      /\ UNCHANGED <<checkout, recovery, origin, github, given, kind, handle, result, since>>
  BY DEF PrepareMerge, Step
<1>2. pc'[c] = "committing" => Established(c)'
  BY <1>0, <1>1
  DEF Established, Working, HoldingLease, HasHandle, Minted, given, Publishing
<1> QED BY <1>1, <1>2, QuietMove DEF SharedPhase

LEMMA CommitMergeKeeps ==
    ASSUME PublishInvariant, NEW c \in Call, CommitMerge(c) PROVE PublishInvariant'
<1>0. /\ SharedTypes /\ LocalTypes /\ JournalConsistent /\ Established(c)
      /\ \A h \in handles : Minted(h)
  BY Facts
<1>1. PICK b : b = Committed
  OBVIOUS
<1>2. /\ pc[c] = "committing" /\ GitCommit /\ pc' = [pc EXCEPT ![c] = "pushing"]
      /\ result' = [result EXCEPT ![c] = b]
      /\ UNCHANGED <<journal, lease, base, remote, thread, pr, minted, handles,
                     kind, handle, entry, since>>
  BY <1>1 DEF CommitMerge, Step, recovery, origin, github, given
<1>3. /\ lease = c <=> Publishing(c)
      /\ Grows
  BY <1>0, <1>2, UnderWay, GrowsStill
<1>4. SharedTypes' /\ stager' = "none" /\ b \in Branch
  BY <1>0, <1>1, <1>2, CommitFacts
<1>5. InHand(c)
  BY <1>2, <1>4 DEF InHand
<1>6. JournalConsistent' /\ \A h \in handles' : Minted(h)'
  BY <1>0, <1>2, <1>4 DEF JournalConsistent, Minted
<1>7. LocalTypes' /\ pc'[c] = "pushing" /\ \A d \in Call \ {c} : Same(d)
  BY <1>0, <1>2, <1>4, MoveFacts DEF Place, SharedPhase
<1>8. LeaseMoves(c)
  BY <1>2, <1>3, <1>7, LeaseKept DEF SharedPhase, HoldingLease
<1>9. Established(c)'
  <2>1. result'[c] = b
    BY <1>0, <1>2 DEF LocalTypes
  <2> QED BY <1>0, <1>2, <1>4, <1>7, <2>1
          DEF Established, Working, HoldingLease, HasHandle, Minted
<1> QED BY <1>2, <1>3, <1>4, <1>5, <1>6, <1>7, <1>8, <1>9, HeldStep

LEMMA AdoptCommitKeeps ==
    ASSUME PublishInvariant, NEW c \in Call, AdoptCommit(c) PROVE PublishInvariant'
<1>0. SharedTypes /\ LocalTypes /\ Established(c)
  BY Facts
<1>1. PICK b : b = head
  OBVIOUS
<1>2. /\ pc[c] = "completing" /\ pc' = [pc EXCEPT ![c] = "pushing"]
      /\ result' = [result EXCEPT ![c] = b]
      /\ entry' = [entry EXCEPT ![c] = Tree(head)]
      /\ UNCHANGED <<checkout, recovery, origin, github, given, kind, handle, since>>
  BY <1>1 DEF AdoptCommit, Step
<1>3. b \in Branch
  BY <1>0, <1>1 DEF SharedTypes
<1>4. result'[c] = b
  BY <1>0, <1>2 DEF LocalTypes
<1>5. pc'[c] = "pushing" => Established(c)'
  BY <1>0, <1>2, <1>3, <1>4
  DEF Established, Working, HoldingLease, HasHandle, Minted, given, Publishing
<1> QED BY <1>2, <1>3, <1>5, QuietMove DEF SharedPhase

LEMMA PushMergeKeeps ==
    ASSUME PublishInvariant, NEW c \in Call, PushMerge(c) PROVE PublishInvariant'
<1>0. /\ SharedTypes /\ LocalTypes /\ JournalConsistent /\ Established(c)
      /\ \A h \in handles : Minted(h)
  BY Facts
<1>1. /\ pc[c] = "pushing" /\ GitPush /\ pc' = [pc EXCEPT ![c] = "binding"]
      /\ HasParents(result[c], handle[c])
      /\ entry' = [entry EXCEPT ![c] = NoEntry]
      /\ UNCHANGED <<head, mergeHead, stager, files, index, tracking, journal, lease, base,
                     thread, pr, minted, handles, kind, handle, result, since>>
  BY DEF PushMerge, Step, checkout, recovery, github, given
<1>2. /\ lease = c <=> Publishing(c)
      /\ InHand(c) /\ Grows /\ remote' \in Branch
  BY <1>0, <1>1, UnderWay, GrowsByPush
<1>3. handle[c] \in HandleSet /\ handle[c] # NoHandle /\ Minted(handle[c])
  BY <1>0, <1>1, HandleOf DEF HasHandle
<1>4. MergesTheBase(handle[c], result[c]) /\ result[c] \in Branch
  BY <1>0, <1>1, <1>3, MergeContainsBase DEF HandleSet, Established
<1>5. SharedTypes' /\ JournalConsistent' /\ \A h \in handles' : Minted(h)'
  BY <1>0, <1>1, <1>2 DEF SharedTypes, JournalConsistent, Minted
<1>6. LocalTypes' /\ pc'[c] = "binding" /\ \A d \in Call \ {c} : Same(d)
  BY <1>0, <1>1, MoveFacts DEF Place, SharedPhase
<1>7. LeaseMoves(c)
  BY <1>1, <1>2, <1>6, LeaseKept DEF SharedPhase, HoldingLease
<1>8. Established(c)'
  <2>1. MergesTheBase(handle'[c], result'[c])
    BY <1>1, <1>4
  <2> QED BY <1>1, <1>3, <1>4, <1>6, <2>1 DEF Established, HoldingLease, Working, Minted
<1> QED BY <1>1, <1>2, <1>5, <1>6, <1>7, <1>8, HeldStep

-----------------------------------------------------------------------------
(* Records and the pull request.                                           *)

LEMMA BindKeeps ==
    ASSUME PublishInvariant, NEW c \in Call, Bind(c) PROVE PublishInvariant'
<1>0. SharedTypes /\ LocalTypes /\ Established(c)
  BY Facts
<1>1. /\ pc[c] = "binding" /\ remote = result[c]
      /\ UNCHANGED <<checkout, recovery, origin, github, given>>
  BY DEF Bind, Published
<1>2. CASE Leave(c)
  <2>1. lease = c <=> Publishing(c)
    BY <1>1, UnderWay
  <2>2. /\ LocalTypes' /\ (Holds(c)' <=> Publishing(c)) /\ Established(c)'
        /\ \A d \in Call \ {c} : Same(d)
    BY <1>0, <1>2, LeaveFacts
  <2> QED BY <1>1, <2>1, <2>2, QuietStep DEF LeaseMoves, recovery
<1>3. CASE /\ Step(c, "binding", "posting")
           /\ entry' = [entry EXCEPT ![c] = RecordOf(c)]
           /\ UNCHANGED <<kind, handle, dirty, result, since>>
  <2>1. PICK e : e = RecordOf(c)
    OBVIOUS
  <2>2. handle[c] \in HandleSet /\ handle[c] # NoHandle /\ Minted(handle[c])
    BY <1>0, <1>1, HandleOf DEF HasHandle
  <2>3. result[c] \in Branch /\ MergesTheBase(handle[c], result[c])
    BY <1>0, <1>1 DEF Established
  <2>4. e \in RecordSet
    BY <2>1, <2>2, <2>3 DEF RecordOf, RecordSet, HandleSet, Trees
  <2>5. /\ e.result = result[c] /\ e.pre = handle[c].pre /\ e.fetched = handle[c].fetched
        /\ MergesTheBase(e, e.result)
    BY <2>1, <2>3 DEF RecordOf, MergesTheBase
  <2>6. IsPrefix(e.result, remote')
    BY <1>1, <2>5, PrefixOfItself DEF origin
  <2>7. entry'[c] = e
    BY <1>0, <1>3, <2>1 DEF LocalTypes
  <2>8. pc'[c] = "posting" => Established(c)'
    <3>1. MergesTheBase(entry[c], entry[c].result)'
      BY <2>5, <2>7 DEF MergesTheBase
    <3> QED BY <1>1, <1>3, <2>2, <2>4, <2>6, <2>7, <3>1
            DEF Established, Working, HoldingLease, Minted, given
  <2>9. entry' = [entry EXCEPT ![c] = e]
    BY <1>3, <2>1
  <2> QED BY <1>1, <1>3, <2>8, <2>9, QuietMove DEF SharedPhase, Step
<1> QED BY <1>2, <1>3 DEF Bind

LEMMA PostRecordKeeps ==
    ASSUME PublishInvariant, NEW c \in Call, PostRecord(c) PROVE PublishInvariant'
<1>0. /\ SharedTypes /\ LocalTypes /\ JournalConsistent /\ Established(c)
      /\ \A h \in handles : Minted(h)
      /\ RecordsPublished /\ RecordsMergeTheBase /\ PrFresh
  BY Facts
<1>1. PICK r : r = entry[c]
  OBVIOUS
<1>2. /\ pc[c] = "posting" /\ Leave(c) /\ thread' = Append(thread, r)
      /\ UNCHANGED <<head, mergeHead, stager, files, index, tracking, journal, lease, base, remote,
                     pr, minted, handles>>
  BY <1>1 DEF PostRecord, checkout, recovery, origin, given
<1>3. r \in RecordSet /\ MergesTheBase(r, r.result) /\ IsPrefix(r.result, remote)
  BY <1>0, <1>1, <1>2 DEF Established
<1>4. /\ thread' \in Seq(RecordSet) /\ ToSet(thread) \subseteq ToSet(thread')
      /\ DOMAIN thread' = 1..Len(thread) + 1 /\ DOMAIN thread = 1..Len(thread)
      /\ thread'[Len(thread) + 1] = r /\ \A n \in 1..Len(thread) : thread'[n] = thread[n]
      /\ Len(thread) \in Nat
  <2>1. thread \in Seq(RecordSet)
    BY <1>0 DEF SharedTypes
  <2> QED BY <1>2, <1>3, <2>1, AppendProperties, LenProperties DEF ToSet
<1>5. /\ lease = c <=> Publishing(c)
      /\ InHand(c)
  BY <1>2, UnderWay
<1>6. Grows
  BY <1>0, <1>2, <1>4 DEF SharedTypes, Grows, Revision
<1>7. SharedTypes'
  BY <1>0, <1>2, <1>4 DEF SharedTypes
<1>8. JournalConsistent' /\ \A h \in handles' : Minted(h)'
  BY <1>0, <1>2 DEF JournalConsistent, Minted
<1>9. /\ LocalTypes' /\ (Holds(c)' <=> Publishing(c)) /\ Established(c)'
      /\ \A d \in Call \ {c} : Same(d)
  BY <1>0, <1>2, LeaveFacts
<1>10. LeaseMoves(c)
  BY <1>2, <1>5, <1>9 DEF LeaseMoves
<1>11. \A n \in DOMAIN thread' : (n \in DOMAIN thread /\ thread'[n] = thread[n]) \/ thread'[n] = r
  BY <1>4
<1>12. RecordsPublished'
  BY <1>0, <1>2, <1>3, <1>11 DEF RecordsPublished
<1>13. RecordsMergeTheBase'
  BY <1>0, <1>3, <1>11 DEF RecordsMergeTheBase
<1>14. PrFresh'
  BY <1>0, <1>2 DEF PrFresh
<1> QED BY <1>5, <1>6, <1>7, <1>8, <1>9, <1>10, <1>12, <1>13, <1>14, StepKeeps

LEMMA ValidateKeeps ==
    ASSUME PublishInvariant, NEW c \in Call, Validate(c) PROVE PublishInvariant'
<1>0. /\ SharedTypes /\ LocalTypes /\ JournalConsistent /\ Established(c)
      /\ (lease = c <=> Holds(c))
      /\ \A h \in handles : Minted(h)
  BY Facts
<1>1. /\ pc[c] = "validating" /\ tracking' = base
      /\ UNCHANGED <<head, mergeHead, stager, files, index, journal, lease, base, remote, thread,
                     pr, minted, handles, kind, handle, result, since>>
  BY DEF Validate, Step, recovery, origin, github, given
<1>2. PICK r \in ToSet(thread) :
         /\ base = r.fetched /\ pc' = [pc EXCEPT ![c] = "opening"]
         /\ entry' = [entry EXCEPT ![c] = r]
  BY DEF Validate, Step, Current
<1>3. SharedTypes' /\ JournalConsistent' /\ (\A h \in handles' : Minted(h)') /\ Grows
  BY <1>0, <1>1, GrowsStill DEF SharedTypes, JournalConsistent, Minted
<1>4. LocalTypes' /\ pc'[c] = "opening" /\ \A d \in Call \ {c} : Same(d)
  BY <1>0, <1>1, <1>2, MoveFacts DEF Place
<1>5. ~Holds(c) /\ ~Holds(c)'
  BY <1>1, <1>4 DEF Holds, HoldingLease, SharedPhase
<1>6. LeaseMoves(c) /\ InHand(c)
  BY <1>0, <1>1, <1>5 DEF LeaseMoves, InHand
<1>7. Established(c)'
  <2>1. entry'[c] = r
    BY <1>0, <1>2 DEF LocalTypes
  <2> QED BY <1>0, <1>1, <1>2, <1>4, <2>1
          DEF Established, HoldingLease, HasHandle, Working, Minted, Publishing
<1> QED BY <1>1, <1>3, <1>4, <1>6, <1>7, HeldStep

LEMMA CreateKeeps ==
    ASSUME PublishInvariant, NEW c \in Call, Create(c) PROVE PublishInvariant'
<1>0. /\ SharedTypes /\ LocalTypes /\ JournalConsistent /\ Established(c)
      /\ (lease = c <=> Holds(c))
      /\ \A h \in handles : Minted(h)
      /\ RecordsPublished /\ RecordsMergeTheBase /\ PrFresh
  BY Facts
<1>1. /\ pc[c] = "opening" /\ Answer(c)
      /\ UNCHANGED <<head, mergeHead, stager, files, index, tracking, journal, lease, base, remote,
                     thread, minted, handles>>
  BY DEF Create, checkout, recovery, origin, given
<1>2. \/ pr' = pr
      \/ /\ pr'.record = entry[c] /\ pr'.since = since[c]
  BY DEF Create
<1>3. entry[c] \in ToSet(thread) /\ since[c] <= entry[c].fetched
  BY <1>0, <1>1 DEF Established
<1>4. SharedTypes' /\ JournalConsistent' /\ (\A h \in handles' : Minted(h)') /\ Grows
  BY <1>0, <1>1, <1>2, <1>3, GrowsStill DEF SharedTypes, JournalConsistent, Minted
<1>5. RecordsPublished' /\ RecordsMergeTheBase'
  BY <1>0, <1>1 DEF RecordsPublished, RecordsMergeTheBase
<1>6. PrFresh'
  <2>1. CASE pr' = pr
    BY <1>0, <2>1 DEF PrFresh
  <2>2. CASE pr'.record = entry[c] /\ pr'.since = since[c]
    <3>1. PICK n \in DOMAIN thread : thread[n] = entry[c]
      BY <1>3 DEF ToSet
    <3>2. entry[c] \in RecordSet /\ MergesTheBase(entry[c], entry[c].result)
      BY <1>0, <3>1, ThreadOfRecords DEF RecordsMergeTheBase
    <3>3. PICK i \in DOMAIN entry[c].result : entry[c].result[i].base >= entry[c].fetched
      BY <3>2 DEF MergesTheBase, Ancestor
    <3>4. entry[c].result[i] \in Commit
      BY <3>2, <3>3, BranchIsSequence, ElementOfSeq, LenProperties DEF RecordSet
    <3>5. entry[c].result[i].base \in Nat /\ entry[c].fetched \in Nat /\ since[c] \in Nat
      BY <1>0, <3>2, <3>4, PublishAssumption DEF RecordSet, Commit, LocalTypes, Revision
    <3>6. Ancestor(since[c], entry[c].result)
      BY <1>3, <3>3, <3>5 DEF Ancestor
    <3> QED BY <1>3, <2>2, <3>6 DEF PrFresh, Ancestor
  <2> QED BY <1>2, <2>1, <2>2
<1>7. /\ LocalTypes' /\ ~Holds(c)' /\ Established(c)'
      /\ \A d \in Call \ {c} : Same(d)
  BY <1>0, <1>1, AnswerFacts
<1>8. LeaseMoves(c) /\ InHand(c)
  <2>1. ~Holds(c)
    BY <1>1 DEF Holds, HoldingLease, SharedPhase
  <2> QED BY <1>0, <1>1, <1>7, <2>1 DEF LeaseMoves, InHand
<1> QED BY <1>4, <1>5, <1>6, <1>7, <1>8, StepKeeps

-----------------------------------------------------------------------------
(* Whoever works in the checkout, and on origin.                           *)

LEMMA WorldKeeps ==
    ASSUME PublishInvariant, SharedTypes',
           UNCHANGED <<journal, lease, remote, minted, handles, thread, pr, pc, local>>,
           base' \in Nat, base <= base', stager' = "publish" => stager = "publish"
    PROVE  PublishInvariant'
<1> USE DEF local
<1>1. /\ SharedTypes /\ LocalTypes /\ LeaseHeld /\ JournalConsistent
      /\ RecordsPublished /\ RecordsMergeTheBase /\ PrFresh
      /\ \A h \in handles : Minted(h)
  BY TypesSplit DEF PublishInvariant, HandlesConsistent
<1>2. Grows
  BY DEF Grows
<1>3. \A d \in Call : Established(d)'
  BY <1>1, <1>2, EstablishedPersists DEF PublishInvariant, Same, Undisturbed
<1>4. TypeOK' /\ (DOMAIN entry = Call)'
  <2>1. LocalTypes' /\ LeaseHeld'
    BY <1>1 DEF LocalTypes, LeaseHeld, Holds, Publishing
  <2> QED BY <2>1 DEF TypeOK, SharedTypes, LocalTypes, LeaseHeld
<1>5. RecordsPublished' /\ RecordsMergeTheBase' /\ PrFresh'
  BY <1>1, <1>2, RecordsPersist
<1>6. JournalConsistent' /\ \A h \in handles' : Minted(h)'
  BY <1>1 DEF JournalConsistent, Minted
<1> QED BY <1>3, <1>4, <1>5, <1>6 DEF PublishInvariant, HandlesConsistent

LEMMA WorldStepKeeps ==
    ASSUME PublishInvariant, Edit \/ Resolve \/ AbortMerge \/ BaseAdvances \/ UNCHANGED vars
    PROVE  PublishInvariant'
<1> USE DEF checkout, recovery, origin, github, given
<1>0. SharedTypes
  BY TypesSplit DEF PublishInvariant, HandlesConsistent
<1>1. base \in Nat
  BY <1>0 DEF SharedTypes, Revision
<1>2. CASE Edit
  <2>1. files' \in [content: Content, markers: BOOLEAN]
    BY <1>0, <1>2 DEF SharedTypes, Edit, Fresh
  <2>2. SharedTypes'
    BY <1>0, <1>2, <2>1 DEF SharedTypes, Edit
  <2> QED BY <1>1, <1>2, <2>2, WorldKeeps DEF Edit
<1>3. CASE Resolve
  <2>1. /\ files' \in [content: Content, markers: BOOLEAN]
        /\ index' \in [content: Content, markers: BOOLEAN, unmerged: BOOLEAN]
    BY <1>0, <1>3 DEF SharedTypes, Resolve
  <2>2. SharedTypes'
    BY <1>0, <1>3, <2>1 DEF SharedTypes, Resolve
  <2> QED BY <1>1, <1>3, <2>2, WorldKeeps DEF Resolve
<1>4. CASE AbortMerge
  <2>1. Last(head).content \in Content /\ Last(head).markers \in BOOLEAN
    BY <1>0, BranchIsSequence DEF SharedTypes, Commit
  <2>2. /\ files' \in [content: Content, markers: BOOLEAN]
        /\ index' \in [content: Content, markers: BOOLEAN, unmerged: BOOLEAN]
    BY <1>4, <2>1 DEF AbortMerge, Text
  <2>3. SharedTypes' /\ stager' = "none"
    BY <1>0, <1>4, <2>2, PublishAssumption DEF SharedTypes, AbortMerge
  <2> QED BY <1>1, <1>4, <2>3, WorldKeeps DEF AbortMerge
<1>5. CASE BaseAdvances
  <2>1. base' \in Revision /\ base' \in Nat /\ base <= base'
    BY <1>0, <1>5, PublishAssumption DEF SharedTypes, BaseAdvances, Revision
  <2>2. SharedTypes'
    BY <1>0, <1>5, <2>1 DEF SharedTypes, BaseAdvances
  <2> QED BY <1>5, <2>1, <2>2, WorldKeeps DEF BaseAdvances
<1>6. CASE UNCHANGED vars
  <2>1. SharedTypes'
    BY <1>0, <1>6 DEF SharedTypes, vars
  <2> QED BY <1>1, <1>6, <2>1, WorldKeeps DEF vars
<1> QED BY <1>2, <1>3, <1>4, <1>5, <1>6

LEMMA InitEstablishes ==
    Init => PublishInvariant
<1> SUFFICES ASSUME Init PROVE PublishInvariant
  OBVIOUS
<1> USE DEF Init
<1>1. head \in Branch
  <2>1. PICK x : x = [base |-> 1, content |-> 0, markers |-> FALSE]
    OBVIOUS
  <2>2. x \in Commit /\ x.base = 1 /\ head = <<x>>
    BY <2>1, PublishAssumption DEF Commit, Content
  <2> HIDE DEF Init
  <2>3. head \in [1..1 -> Commit] /\ head[1].base = 1
    BY <2>2
  <2>4. 1 \in 1..MaxCommits
    BY PublishAssumption
  <2> QED BY <2>3, <2>4 DEF Branch
<1>2. 1 \in Revision /\ 0 \in 0..MaxRevision /\ 0 \in Content
  BY PublishAssumption DEF Revision, Content
<1>3. SharedTypes
  <2>1. journal \in [id: Attempt \cup {0}, pre: Branch \cup {<<>>}, fetched: 0..MaxRevision,
                     there: BOOLEAN]
    BY <1>2 DEF NoJournal
  <2>2. files \in [content: Content, markers: BOOLEAN]
        /\ index \in [content: Content, markers: BOOLEAN, unmerged: BOOLEAN]
    BY <1>2
  <2>3. minted \in Seq(HandleSet) /\ thread \in Seq(RecordSet)
    OBVIOUS
  <2> QED BY <1>1, <1>2, <2>1, <2>2, <2>3 DEF SharedTypes
<1>4. LocalTypes
  BY <1>2 DEF LocalTypes, Place, AllKinds
<1>5. LeaseHeld
  BY PublishAssumption DEF LeaseHeld, Holds, HoldingLease, SharedPhase
<1>6. \A c \in Call : Established(c)
  BY DEF Established, HoldingLease, HasHandle, Working
<1>7. JournalConsistent /\ HandlesConsistent /\ DOMAIN entry = Call
  BY <1>3, <1>4, <1>5, TypesSplit DEF JournalConsistent, HandlesConsistent, NoJournal
<1>8. RecordsPublished /\ RecordsMergeTheBase /\ PrFresh
  BY DEF RecordsPublished, RecordsMergeTheBase, PrFresh
<1> QED BY <1>6, <1>7, <1>8 DEF PublishInvariant

-----------------------------------------------------------------------------
(* The statements.                                                         *)

LEMMA NextKeeps ==
    ASSUME PublishInvariant, [Next]_vars PROVE PublishInvariant'
<1>1. CASE UNCHANGED vars \/ Edit \/ Resolve \/ AbortMerge \/ BaseAdvances
  BY <1>1, WorldStepKeeps
<1>2. ASSUME NEW c \in Call, CallStep(c) PROVE PublishInvariant'
  <2>1. CASE Begin(c) \/ Fail(c) \/ Throw(c) \/ Crash(c)
    BY <2>1, BeginKeeps, FailKeeps, ThrowKeeps, CrashKeeps
  <2>2. CASE TakeLease(c) \/ LeaseContended(c) \/ Reconcile(c) \/ Close(c)
    BY <2>2, TakeLeaseKeeps, LeaseContendedKeeps, ReconcileKeeps, CloseKeeps
  <2>3. CASE Stage(c) \/ SaveWork(c) \/ SendWork(c)
    BY <2>3, StageKeeps, SaveWorkKeeps, SendWorkKeeps
  <2>4. CASE Start(c) \/ AlreadyCurrent(c) \/ MergeClean(c) \/ JournalMerge(c)
             \/ MergeConflicts(c)
    BY <2>4, StartKeeps, AlreadyCurrentKeeps, MergeCleanKeeps, JournalMergeKeeps,
       MergeConflictsKeeps
  <2>5. CASE Restage(c) \/ PrepareMerge(c) \/ CommitMerge(c) \/ AdoptCommit(c) \/ PushMerge(c)
    BY <2>5, RestageKeeps, PrepareMergeKeeps, CommitMergeKeeps, AdoptCommitKeeps, PushMergeKeeps
  <2>6. CASE Bind(c) \/ PostRecord(c) \/ Validate(c) \/ Create(c)
    BY <2>6, BindKeeps, PostRecordKeeps, ValidateKeeps, CreateKeeps
  <2> QED BY <1>2, <2>1, <2>2, <2>3, <2>4, <2>5, <2>6 DEF CallStep
<1> QED BY <1>1, <1>2 DEF Next

(* What every statement of the component follows from holds of every       *)
(* behaviour (publish.js:69-186, codex-workflow-4.js and -5.js).           *)
THEOREM PublishInvariantHolds == Spec => []PublishInvariant
<1>1. PublishInvariant /\ [Next]_vars => PublishInvariant'
  BY NextKeeps
<1> QED BY <1>1, InitEstablishes, PTL DEF Spec

(* A record on the issue never says of a head that it is on origin when it *)
(* is not, whatever other calls commit, push or abort while it is made     *)
(* (codex-workflow-4.js:170 and :433).                                     *)
THEOREM RecordsPublishedHolds == Spec => []RecordsPublished
<1>1. PublishInvariant => RecordsPublished
  BY DEF PublishInvariant
<1> QED BY <1>1, PublishInvariantHolds, PTL

(* A record never names a head that does not contain the base it names     *)
(* (codex-workflow-4.js:405-417).                                          *)
THEOREM RecordsMergeTheBaseHolds == Spec => []RecordsMergeTheBase
<1>1. PublishInvariant => RecordsMergeTheBase
  BY DEF PublishInvariant
<1> QED BY <1>1, PublishInvariantHolds, PTL

(* Types, the lease, and the handles callers are given, those recovered    *)
(* from the journal of a dead publish included                             *)
(* (implement-publish-recovery.js:97-124, publish.js:72).                  *)
THEOREM HandlesConsistentHolds == Spec => []HandlesConsistent
<1>1. PublishInvariant => HandlesConsistent
  BY DEF PublishInvariant
<1> QED BY <1>1, PublishInvariantHolds, PTL

(* A pull request is opened on a head with the base of the moment its call *)
(* began in it (codex-workflow-5.js:163-180).                              *)
THEOREM PrFreshHolds == Spec => []PrFresh
<1>1. PublishInvariant => PrFresh
  BY DEF PublishInvariant
<1> QED BY <1>1, PublishInvariantHolds, PTL

(* A publish never commits as work a merge that a publish staged           *)
(* (publish.js:90-112, :166-185): only the call itself moves on from       *)
(* saving, and what Established says of that step excludes the merge.      *)
THEOREM WorkNeverMergesHolds == Spec => WorkNeverMerges
<1>1. ASSUME PublishInvariant
      PROVE  \A c \in Call : (pc[c] = "saving" /\ pc'[c] = "sending") => stager # "publish"
  BY <1>1 DEF PublishInvariant, Established
<1> QED BY <1>1, PublishInvariantHolds, PTL DEF Spec, WorkNeverMerges

=============================================================================
