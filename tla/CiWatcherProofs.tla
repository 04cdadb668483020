--------------------------- MODULE CiWatcherProofs ---------------------------
(***************************************************************************)
(* The statements of CiWatcher, for any runs, caps and clock: a stuck      *)
(* queue that is reported is one; and success covers the head, provided    *)
(* that the branch has no more runs than a listing can hold.               *)
(***************************************************************************)
EXTENDS CiWatcher, FiniteSetTheorems, TLAPS

LEMMA ListingsAreRegistered ==
    ASSUME NEW ids \in ListedRuns PROVE ids \subseteq Registered \ Foreign
BY DEF ListedRuns

(* A listing with room for all of them leaves none out.                    *)
LEMMA WholeListing ==
    ASSUME ListingIsWhole, Registered \subseteq Run, NEW ids \in ListedRuns
    PROVE  ids = Registered \ Foreign
<1>1. PICK l \in SUBSET Registered :
        /\ ids = l \ Foreign /\ Cardinality(l) = MinOf(ListLimit, Cardinality(Registered))
  BY DEF ListedRuns
<1>2. IsFiniteSet(Registered) /\ Cardinality(Registered) <= Cardinality(Run)
      /\ IsFiniteSet(Run)
  BY FS_Subset DEF ListingIsWhole
<1>3. Cardinality(Registered) \in Nat /\ Cardinality(Run) \in Nat /\ ListLimit \in Nat
  BY <1>2, FS_CardinalityType, CapsAssumption
<1>4. Cardinality(l) = Cardinality(Registered)
  BY <1>1, <1>2, <1>3 DEF MinOf, ListingIsWhole
<1>5. l = Registered
  BY <1>2, <1>4, FS_Subset
<1> QED BY <1>1, <1>5

-----------------------------------------------------------------------------
LEMMA InitWatches == Init => WatchInvariant
<1> SUFFICES ASSUME Init PROVE WatchInvariant
  OBVIOUS
<1>1. PICK early \in {{}} \cup {{r} : r \in Run} :
         /\ born = [r \in early |-> 0]
         /\ state = [r \in early |-> "queued"]
         /\ since = [r \in early |-> 0]
         /\ pinned \in early \cup {None}
  BY DEF Init
<1>2. Registered = early /\ early \subseteq Run /\ 0 \in 0..Horizon
  BY <1>1, CapsAssumption DEF Registered
<1>3. DOMAIN observed = {} /\ watched = {pinned} \ {None} /\ result = Running
  BY DEF Init, Unread
<1>4. pc \in {"register", "read"} /\ (pc = "register" => ~closed)
  BY DEF Init
<1>5. TypeOK
  <2>1. /\ born \in [Registered -> 0..Horizon] /\ state \in [Registered -> State]
        /\ since \in [Registered -> 0..Horizon]
    BY <1>1, <1>2 DEF State, Unfinished
  <2>2. clock = 0 /\ {bound, atDeadline, closed} \subseteq BOOLEAN /\ result.run = None
    BY DEF Init, Running
  <2>3. pinned \in Registered \cup {None} /\ watched \subseteq Registered
    BY <1>1, <1>2, <1>3
  <2> QED BY <1>2, <1>3, <1>4, <2>1, <2>2, <2>3 DEF TypeOK
<1> QED BY <1>3, <1>4, <1>5 DEF WatchInvariant, StuckQueueIsReal, Running

LEMMA RegistersKeeps ==
    ASSUME WatchInvariant, pc # "done", NEW r \in Run, Registers(r)
    PROVE  WatchInvariant'
<1>1. TypeOK /\ result = Running
  BY DEF WatchInvariant, StuckQueueIsReal
<1>2. /\ r \notin DOMAIN born /\ DOMAIN state = DOMAIN born /\ DOMAIN since = DOMAIN born
      /\ clock \in 0..Horizon
  BY <1>1 DEF Registers, TypeOK, Registered
<1>3. /\ born' = [x \in Registered \cup {r} |-> IF x = r THEN clock ELSE born[x]]
      /\ state' = [x \in Registered \cup {r} |-> IF x = r THEN "queued" ELSE state[x]]
      /\ since' = [x \in Registered \cup {r} |-> IF x = r THEN clock ELSE since[x]]
  BY <1>2 DEF Registers, Registered, With
<1>4. Registered' = Registered \cup {r}
  BY <1>3 DEF Registered
<1>5. UNCHANGED <<clock, watch>>
  BY DEF Registers
<1>6. TypeOK'
  <2>1. /\ born' \in [Registered' -> 0..Horizon]
        /\ state' \in [Registered' -> State]
        /\ since' \in [Registered' -> 0..Horizon]
    BY <1>1, <1>2, <1>3, <1>4 DEF TypeOK, State, Unfinished
  <2> QED BY <1>1, <1>4, <1>5, <2>1 DEF TypeOK, watch
<1> QED BY <1>1, <1>5, <1>6 DEF WatchInvariant, StuckQueueIsReal, watch, Running

LEMMA WorldKeeps ==
    ASSUME WatchInvariant, pc # "done",
           Tick \/ \E r \in Registered : Proceeds(r) \/ RunAgain(r)
    PROVE  WatchInvariant'
<1>1. TypeOK /\ result = Running
  BY DEF WatchInvariant, StuckQueueIsReal
<1>2. TypeOK' /\ UNCHANGED watch
  <2>1. CASE Tick
    <3>1. clock' \in 0..Horizon
      BY <1>1, <2>1, CapsAssumption DEF Tick, TypeOK
    <3> QED BY <1>1, <2>1, <3>1 DEF Tick, TypeOK, github, watch, Registered
  <2>2. ASSUME NEW r \in Registered, Proceeds(r) \/ RunAgain(r) PROVE TypeOK' /\ UNCHANGED watch
    <3>1. PICK s \in State, t \in 0..Horizon :
            /\ state' = [state EXCEPT ![r] = s] /\ since' = [since EXCEPT ![r] = t]
            /\ UNCHANGED <<clock, born, watch>>
      BY <1>1, <2>2, CapsAssumption
      DEF Proceeds, RunAgain, Becomes, TypeOK, State, Unfinished
    <3>2. /\ Registered' = Registered
          /\ state' \in [Registered -> State] /\ since' \in [Registered -> 0..Horizon]
      BY <1>1, <3>1 DEF Registered, TypeOK
    <3> QED BY <1>1, <3>1, <3>2 DEF TypeOK, watch
  <2> QED BY <2>1, <2>2
<1> QED BY <1>1, <1>2 DEF WatchInvariant, StuckQueueIsReal, watch, Running

-----------------------------------------------------------------------------
(* What every step of the watch leaves alone.                              *)
Steady == UNCHANGED <<clock, github, pinned, bound>>

LEMMA RegisterKeeps ==
    ASSUME WatchInvariant, RegisterListing \/ RegisterDecision PROVE WatchInvariant'
<1> USE DEF WatchInvariant, StuckQueueIsReal
<1>1. TypeOK /\ result = Running /\ DOMAIN observed = {} /\ ~closed
  BY DEF RegisterListing, RegisterDecision
<1>2. /\ Steady /\ UNCHANGED <<closed, atDeadline, observed>> /\ Registered' = Registered
      /\ watched' \subseteq Registered
  BY <1>1, ListingsAreRegistered
  DEF RegisterListing, RegisterDecision, Steady, github, Registered, TypeOK
<1>3. \/ pc' \in {"register", "enough", "clock"} /\ result' = Running
      \/ /\ pc' = "done"
         /\ result'.says \in {"lookup_failed", "no_run"} /\ result'.run = None
  BY <1>1 DEF RegisterListing, RegisterDecision, Goes, Ends
<1>4. TypeOK'
  <2>1. DOMAIN observed' = {} /\ result'.run = None
    BY <1>1, <1>2, <1>3 DEF Running
  <2> QED BY <1>1, <1>2, <1>3, <2>1 DEF TypeOK, Steady, github
<1> QED BY <1>1, <1>2, <1>3, <1>4 DEF Running, Steady

LEMMA ReadClockKeeps ==
    ASSUME WatchInvariant, ReadClock PROVE WatchInvariant'
<1> USE DEF WatchInvariant, StuckQueueIsReal
<1>1. TypeOK /\ result = Running
  BY DEF ReadClock
<1>2. /\ UNCHANGED <<clock, github, pinned, bound, closed, watched, result>>
      /\ DOMAIN observed' = {} /\ pc' \in {"read", "list"} /\ atDeadline' \in BOOLEAN
  BY DEF ReadClock, Goes, Unread, DeadlinePassed
<1>3. TypeOK'
  BY <1>1, <1>2 DEF TypeOK, github, Registered
<1> QED BY <1>1, <1>2, <1>3 DEF Running

LEMMA ListingKeeps ==
    ASSUME WatchInvariant, Listing PROVE WatchInvariant'
<1> USE DEF WatchInvariant, StuckQueueIsReal
<1>1. TypeOK /\ result = Running
  BY DEF Listing
<1>2. /\ UNCHANGED <<clock, github, pinned, bound, atDeadline, observed>>
      /\ Registered' = Registered
      /\ watched \subseteq watched' /\ watched' \subseteq Registered /\ closed' \in BOOLEAN
  BY <1>1, ListingsAreRegistered DEF Listing, Goes, Ends, github, Registered, TypeOK
<1>3. \/ pc' = "read" /\ result' = Running
      \/ pc' = "done" /\ result'.says = "lookup_failed" /\ result'.run = None
  BY <1>1 DEF Listing, Goes, Ends
<1>4. TypeOK'
  <2>1. result'.run = None
    BY <1>3 DEF Running
  <2> QED BY <1>1, <1>2, <1>3, <2>1 DEF TypeOK, github
<1> QED BY <1>2, <1>3, <1>4 DEF Running

LEMMA ReadRunKeeps ==
    ASSUME WatchInvariant, NEW r \in watched, ReadRun(r) PROVE WatchInvariant'
<1> USE DEF WatchInvariant, StuckQueueIsReal
<1>1. TypeOK /\ result = Running /\ (bound => DOMAIN observed \cap Foreign = {})
  BY DEF ReadRun
<1>2. /\ UNCHANGED <<clock, github, pinned, bound, atDeadline, closed, watched>>
      /\ Registered' = Registered /\ r \notin DOMAIN observed
  BY DEF ReadRun, github, Registered
<1>3. CASE /\ pc' = "done" /\ observed' = observed
           /\ result'.says \in {"snapshot_failed", "head_mismatch"} /\ result'.run = r
  <2>1. TypeOK'
    BY <1>1, <1>2, <1>3 DEF TypeOK, github
  <2> QED BY <1>1, <1>2, <1>3, <2>1 DEF Running
<1>4. CASE /\ bound => r \notin Foreign
           /\ observed' = With(observed, r, Snapshot(r))
           /\ Goes(IF EnoughRead(DOMAIN observed') THEN "decide" ELSE "read")
  <2>1. /\ DOMAIN observed' = DOMAIN observed \cup {r}
        /\ \A q \in DOMAIN observed' : observed'[q] = IF q = r THEN Snapshot(r) ELSE observed[q]
    BY <1>4 DEF With
  <2>2. Snapshot(r) \in [state : State, since : 0..Horizon]
    BY <1>1 DEF Snapshot, TypeOK
  <2>3. pc' \in {"decide", "read"} /\ result' = Running
        /\ (pc' = "decide" => DOMAIN observed' = watched')
    BY <1>1, <1>2, <1>4 DEF Goes, EnoughRead
  <2>4. TypeOK'
    BY <1>1, <1>2, <2>1, <2>2, <2>3 DEF TypeOK, github, Running
  <2> QED BY <1>1, <1>2, <1>4, <2>1, <2>3, <2>4 DEF Running
<1> QED BY <1>3, <1>4 DEF ReadRun, Ends

LEMMA DecideKeeps ==
    ASSUME WatchInvariant, Decide PROVE WatchInvariant'
<1> USE DEF WatchInvariant, StuckQueueIsReal
<1>1. TypeOK /\ result = Running
  BY DEF Decide
<1>2. /\ UNCHANGED <<clock, github, pinned, bound, atDeadline, closed, watched, observed>>
      /\ DOMAIN observed = watched /\ Registered' = Registered
  BY <1>1 DEF Decide, TypeOK, github, Registered
<1>3. \/ pc' = "clock" /\ result' = Running
      \/ /\ pc' = "done" /\ result'.run \in watched \cup {None}
         /\ result'.says \in {"failure", "timed_out", "other", "success"}
      \/ /\ pc' = "done" /\ result'.run \in QueuedTooLong /\ result'.says = "queued_too_long"
         /\ Observed(Actionable) = {}
  BY <1>1 DEF Decide, Goes, Ends, Observed
<1>4. QueuedTooLong \subseteq watched
  BY DEF QueuedTooLong, Observed
<1>5. TypeOK'
  BY <1>1, <1>2, <1>3, <1>4 DEF TypeOK, github, Running
<1>6. StuckQueueIsReal'
  <2>1. CASE result'.says # "queued_too_long"
    BY <1>5, <2>1
  <2>2. CASE result'.says = "queued_too_long"
    <3>1. result'.run \in QueuedTooLong /\ Observed(Actionable) = {}
      BY <1>3, <2>2 DEF Running
    <3>2. observed[result'.run].since \in Nat /\ clock \in Nat /\ QueueCap \in Nat
      BY <1>1, <1>2, <1>4, <3>1, CapsAssumption DEF TypeOK
    <3> QED BY <1>2, <1>5, <3>1, <3>2 DEF QueuedTooLong, Observed
  <2> QED BY <2>1, <2>2
<1> QED BY <1>2, <1>3, <1>6 DEF Running

LEMMA NextWatches ==
    ASSUME WatchInvariant, [Next]_vars PROVE WatchInvariant'
<1>1. CASE UNCHANGED vars
  BY <1>1 DEF vars, github, watch, WatchInvariant, StuckQueueIsReal, TypeOK, Registered, Observed
<1>2. CASE Watch
  BY <1>2, RegisterKeeps, ReadClockKeeps, ListingKeeps, ReadRunKeeps, DecideKeeps DEF Watch
<1>3. CASE pc # "done" /\ (GitHub \/ Tick)
  BY <1>3, RegistersKeeps, WorldKeeps DEF GitHub
<1> QED BY <1>1, <1>2, <1>3 DEF Next

-----------------------------------------------------------------------------
(* The window.                                                             *)

(* GitHub and the clock, which only take the deadline nearer.              *)
LEMMA WorldCovered ==
    ASSUME WatchInvariant, WindowCovers, pc # "done", GitHub \/ Tick
    PROVE  WindowCovers'
<1>1. TypeOK /\ result = Running
  BY DEF WatchInvariant, StuckQueueIsReal
<1>2. UNCHANGED watch /\ clock \in Nat /\ clock' \in Nat /\ clock <= clock' /\ Registration \in Nat
  <2>1. UNCHANGED <<clock, watch>> \/ (UNCHANGED watch /\ clock' = clock + 1)
    BY DEF GitHub, Tick, Registers, Proceeds, RunAgain, Becomes
  <2> QED BY <1>1, <2>1, CapsAssumption DEF TypeOK
<1>3. Early' \subseteq Early \/ (Registration > clock /\ clock' = clock)
  <2>1. CASE born' = born
    BY <2>1 DEF Early, Registered
  <2>2. CASE \E r \in Run : Registers(r)
    <3>1. PICK r \in Run : Registers(r)
      BY <2>2
    <3>2. /\ DOMAIN born' = DOMAIN born \cup {r} /\ clock' = clock
          /\ \A x \in DOMAIN born' : born'[x] = IF x = r THEN clock ELSE born[x]
      BY <3>1 DEF Registers, With
    <3> QED BY <1>2, <3>2 DEF Early, Registered
  <2> QED BY <2>1, <2>2 DEF GitHub, Tick, Proceeds, RunAgain, Becomes, github
<1>4. SuccessCoversHead'
  BY <1>1, <1>2 DEF SuccessCoversHead, Running, watch
<1> QED BY <1>2, <1>3, <1>4 DEF WindowCovers, watch

LEMMA WatchCovered ==
    ASSUME ListingIsWhole, WatchInvariant, WindowCovers, Watch PROVE WindowCovers'
<1>0. TypeOK /\ Registered \subseteq Run /\ clock \in Nat /\ Registration \in Nat
  BY CapsAssumption DEF WatchInvariant, StuckQueueIsReal, TypeOK
<1>1. UNCHANGED <<clock, born, pinned, bound>> /\ Early' = Early
  BY DEF Watch, RegisterListing, RegisterDecision, ReadClock, Listing, ReadRun, Decide, github,
         Early, Registered
<1>2. CASE RegisterListing \/ RegisterDecision
  <2>1. ~closed /\ UNCHANGED <<closed, atDeadline>>
    BY <1>2 DEF WatchInvariant, RegisterListing, RegisterDecision
  <2>2. result'.says # "success"
    BY <1>2 DEF WatchInvariant, RegisterListing, RegisterDecision, Goes, Ends, Running
  <2> QED BY <1>1, <2>1, <2>2 DEF WindowCovers, SuccessCoversHead
<1>3. CASE ReadClock
  <2>1. /\ UNCHANGED <<closed, watched>> /\ atDeadline' = (clock >= Registration)
        /\ result'.says # "success"
    BY <1>3 DEF ReadClock, DeadlinePassed, Goes, WatchInvariant, Running
  <2> QED BY <1>0, <1>1, <2>1 DEF WindowCovers, SuccessCoversHead
<1>4. CASE Listing
  <2>1. result'.says # "success" /\ UNCHANGED atDeadline
    BY <1>4 DEF Listing, Goes, Ends, WatchInvariant, Running
  <2>2. CASE \E ids \in ListedRuns : watched' = watched \cup ids /\ closed' = atDeadline
    <3>1. Early \subseteq watched'
      BY <1>0, <2>2, WholeListing DEF Early
    <3> QED BY <1>1, <2>1, <2>2, <3>1 DEF WindowCovers, SuccessCoversHead
  <2>3. CASE UNCHANGED <<watched, closed>>
    BY <1>1, <2>1, <2>3 DEF WindowCovers, SuccessCoversHead
  <2> QED BY <1>4, <2>2, <2>3 DEF Listing
<1>5. CASE \E r \in watched : ReadRun(r)
  <2>1. UNCHANGED <<atDeadline, closed, watched>> /\ result'.says # "success"
    BY <1>5 DEF ReadRun, Goes, Ends, WatchInvariant, Running
  <2> QED BY <1>1, <2>1 DEF WindowCovers, SuccessCoversHead
<1>6. CASE Decide
  <2>1. /\ UNCHANGED <<atDeadline, closed, watched, observed, born, bound, pinned>>
        /\ DOMAIN observed = watched
        /\ \A r \in watched : observed[r].state \in State
        /\ bound => watched \cap Foreign = {}
    BY <1>0, <1>6 DEF Decide, github, TypeOK, WatchInvariant
  <2>2. result'.says = "success" =>
          /\ Observed(Actionable) = {} /\ Observed(Unfinished) = {} /\ Observed({"other"}) = {}
          /\ closed
    BY <1>6 DEF Decide, Goes, Ends, WatchInvariant, Running
  <2>3. result'.says = "success" => Observed({"success"}) = watched
    BY <2>1, <2>2 DEF Observed, State, Actionable, Unfinished, Completed
  <2>4. SuccessCoversHead'
    <3> SUFFICES ASSUME result'.says = "success" PROVE SuccessCoversHead'
      BY DEF SuccessCoversHead
    <3>1. Observed({"success"})' = watched'
      BY <2>1, <2>3 DEF Observed
    <3>2. pinned = None => Early \subseteq watched
      BY <2>2 DEF WindowCovers
    <3> QED BY <2>1, <3>1, <3>2 DEF SuccessCoversHead, Early, Registered
  <2> QED BY <1>1, <2>1, <2>4 DEF WindowCovers
<1> QED BY <1>2, <1>3, <1>4, <1>5, <1>6 DEF Watch

LEMMA NextCovered ==
    ASSUME ListingIsWhole, WatchInvariant, WindowCovers, [Next]_vars PROVE WindowCovers'
<1>1. CASE UNCHANGED vars
  BY <1>1 DEF vars, github, watch, WindowCovers, SuccessCoversHead, Early, Registered, Observed
<1> QED BY <1>1, WatchCovered, WorldCovered DEF Next

-----------------------------------------------------------------------------
(* What the watch judges, at every step (runCiWatcher, ci-watcher.js).     *)
THEOREM WatchInvariantHolds == Spec => []WatchInvariant
<1>1. WatchInvariant /\ [Next]_vars => WatchInvariant'
  BY NextWatches
<1> QED BY <1>1, InitWatches, PTL DEF Spec

(* A run that is blamed for waiting in the queue waits in it, in the       *)
(* attempt that was read, for longer than the cap (ciRunQueuedSeconds).    *)
THEOREM StuckQueueIsRealHolds == Spec => []StuckQueueIsReal
<1>1. WatchInvariant => StuckQueueIsReal
  BY DEF WatchInvariant
<1> QED BY <1>1, WatchInvariantHolds, PTL

(* Success covers the head, as long as no listing leaves a run out: the    *)
(* listing is limited (gh run list --limit), and a branch with more runs   *)
(* than that is beyond what the watch can promise.                         *)
THEOREM SuccessCoversHeadHolds ==
    ASSUME ListingIsWhole
    PROVE  Spec => []SuccessCoversHead
<1>1. Init => WindowCovers
  <2> SUFFICES ASSUME Init PROVE WindowCovers
    OBVIOUS
  <2>1. result.says = "nothing" /\ atDeadline = FALSE
    BY DEF Init, Running
  <2>2. pinned = None => closed = FALSE
    BY DEF Init
  <2> QED BY <2>1, <2>2 DEF WindowCovers, SuccessCoversHead
<1>2. WatchInvariant /\ WindowCovers /\ [Next]_vars => WindowCovers'
  BY NextCovered
<1>3. WindowCovers => SuccessCoversHead
  BY DEF WindowCovers
<1> QED BY <1>1, <1>2, <1>3, WatchInvariantHolds, PTL DEF Spec

=============================================================================
