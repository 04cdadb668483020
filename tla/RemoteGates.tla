----------------------------- MODULE RemoteGates -----------------------------
(***************************************************************************)
(* The hosted-gate snapshot of a pull request (lib/remote-gates.js) and    *)
(* the conditional reads under it (lib/github-conditional.js).  A call     *)
(* first probes four endpoints with the ETags it remembers; if all answer  *)
(* 304 it returns its last snapshot, else it reads everything again.  Two  *)
(* process-wide caches are involved: ETags are remembered by the probe,    *)
(* snapshots only at the end of a full read, and the calls of one process  *)
(* interleave at every await.                                              *)
(*                                                                         *)
(* One pull request is modelled.  Retargeting it moves the same payload as *)
(* a push and is one with it here.  GitHub is the sequence of worlds in    *)
(* past.  An ETag stands for the payload it was sent with: check payloads  *)
(* carry ids and times and never come back, a head neither, but branch     *)
(* protection that is changed and changed back reads the same again.       *)
(***************************************************************************)
EXTENDS Naturals, Sequences, FiniteSets

CONSTANTS Caller,     \* concurrent calls of one server process
          Commit,     \* the commits that become the pull request's head
          Faults,     \* which requests may fail: a subset of {"probe", "read"}
          Paginated,  \* heads whose check runs do not fit one page
          MaxWorlds,  \* bound: worlds GitHub goes through
          None

ASSUME WorldsAssumption == MaxWorlds \in Nat \ {0}

VARIABLES
    past,     \* every world so far, the last one is current
    etags,    \* _etagCache: per endpoint, the content last seen, or None
    snapshot, \* _snapshotCache: the last full answer, or None
    pc,       \* per caller: where in readRemoteGateSnapshot it is
    previous, \* per caller: the cached snapshot it revalidates
    got,      \* per caller: the answers of its full read so far
    began,    \* per caller: the world its call began in
    apart,    \* ghost: a full read failed since the last snapshot was made
    answer    \* per caller: what its call returned, None before

vars == <<past, etags, snapshot, pc, previous, got, began, answer, apart>>
local == <<pc, previous, got, began, answer, apart>>

(* A check payload: its verdict and the world it appeared in.              *)
Verdict == {"pending", "green", "red"} \X (1..MaxWorlds)
Protection == {"required", "open"}
ASSUME NoneAssumption == None \notin Commit \cup Verdict \cup Protection
Endpoints(h) == {<<"runs", h>>, <<"status", h>>, <<"protection", None>>}
Endpoint == {<<"pull", None>>} \cup UNION {Endpoints(h) : h \in Commit}
(* nothingChanged asks in this order.                                      *)
Probes(h) == <<<<"pull", None>>, <<"runs", h>>, <<"status", h>>, <<"protection", None>>>>

Content(e) == CASE e[1] = "pull" -> Commit
                [] e[1] = "protection" -> Protection
                [] OTHER -> Verdict
IsWorld(w) == DOMAIN w = Endpoint /\ \A e \in Endpoint : w[e] \in Content(e)

now == past[Len(past)]
PullHead(w) == w[<<"pull", None>>]

(* A snapshot is the pull request's head and what was read for it.         *)
Snapshot(h, w) == [head |-> h, runs |-> w[<<"runs", h>>], status |-> w[<<"status", h>>],
                   protection |-> w[<<"protection", None>>]]
AnySnapshot == [head : Commit, runs : Verdict, status : Verdict, protection : Protection]
Failed == [head |-> None]
Unread == [e \in {} |-> None]

(* evaluateRemoteChecks.                                                   *)
Passed(s) == s.protection = "required" /\ s.runs[1] = "green" /\ s.status[1] = "green"

Idle == {"idle"}
Probing == {"probe1", "probe2", "probe3", "probe4"}
PC == Idle \cup Probing \cup {"pr", "checks", "again"}

TypeOK ==
    /\ \A i \in DOMAIN past : IsWorld(past[i])
    /\ \A e \in Endpoint : etags[e] \in Content(e) \cup {None}
    /\ snapshot \in AnySnapshot \cup {None}
    /\ pc \in [Caller -> PC]
    /\ previous \in [Caller -> AnySnapshot \cup {None}]
    /\ began \in [Caller -> 1..Len(past)]
    /\ answer \in [Caller -> AnySnapshot \cup {None, Failed}]
    /\ apart \in BOOLEAN

Init ==
    /\ \E h \in Commit :
         past = << [e \in Endpoint |-> IF e[1] = "pull" THEN h
                                       ELSE IF e[1] = "protection" THEN "required"
                                       ELSE <<"green", 1>>] >>
    /\ etags = [e \in Endpoint |-> None]
    /\ snapshot = None
    /\ pc = [c \in Caller |-> "idle"]
    /\ previous = [c \in Caller |-> None]
    /\ got = [c \in Caller |-> Unread]
    /\ began = [c \in Caller |-> 1]
    /\ answer = [c \in Caller |-> None]
    /\ apart = FALSE

-----------------------------------------------------------------------------
(* GitHub.                                                                 *)

Becomes(w) ==
    /\ Len(past) < MaxWorlds
    /\ past' = Append(past, w)
    /\ UNCHANGED <<etags, snapshot, local>>

(* A push; a head never comes back, because the pull request's payload     *)
(* carries its own update time.                                            *)
Push ==
    \E h \in Commit : /\ \A i \in DOMAIN past : PullHead(past[i]) # h
                      /\ Becomes([now EXCEPT ![<<"pull", None>>] = h])

(* The runs of a replaced head go on, or are cancelled.                    *)
CheckMoves ==
    \E e \in Endpoint, v \in {"pending", "green", "red"} :
      /\ e[1] \in {"runs", "status"}
      /\ \E i \in DOMAIN past : PullHead(past[i]) = e[2]
      /\ Becomes([now EXCEPT ![e] = <<v, Len(past) + 1>>])

ProtectionMoves ==
    \E v \in Protection :
      /\ now[<<"protection", None>>] # v
      /\ Becomes([now EXCEPT ![<<"protection", None>>] = v])

-----------------------------------------------------------------------------
(* One call.                                                               *)

At(c, p) == pc[c] = p
Goto(c, p) == pc' = [pc EXCEPT ![c] = p]

(* The endpoint a probing caller asks next.                                *)
Asked(c) == LET i == CHOOSE i \in 1..4 : pc[c] = <<"probe1", "probe2", "probe3", "probe4">>[i]
            IN Probes(previous[c].head)[i]
AfterProbe(c) == CASE At(c, "probe1") -> "probe2"
                   [] At(c, "probe2") -> "probe3"
                   [] At(c, "probe3") -> "probe4"
                   [] OTHER -> "idle"

Call(c) ==
    /\ At(c, "idle")
    /\ began' = [began EXCEPT ![c] = Len(past)]
    /\ previous' = [previous EXCEPT ![c] = snapshot]
    /\ answer' = [answer EXCEPT ![c] = None]
    /\ got' = [got EXCEPT ![c] = Unread]
    /\ Goto(c, IF snapshot = None THEN "pr" ELSE "probe1")
    /\ UNCHANGED <<past, etags, snapshot, apart>>

(* Check runs that do not fit one page; the ETag is the first page's.      *)
Paged(c) == Asked(c)[1] = "runs" /\ Asked(c)[2] \in Paginated

(* Mutant: an endpoint without a remembered ETag counts as unchanged.      *)
UnchangedUnseen(c) == etags[Asked(c)] \in {None, now[Asked(c)]} \/ Paged(c)

(* ghConditionalGet answers 304; later pages may have changed even so.     *)
Unchanged(c) ==
    \/ etags[Asked(c)] = now[Asked(c)]
    \/ Paged(c) /\ etags[Asked(c)] # None

(* One endpoint answers 304: on to the next, or return the last snapshot.  *)
ProbeUnchanged(c) ==
    /\ pc[c] \in Probing
    /\ Unchanged(c) /\ ~Paged(c)
    /\ Goto(c, AfterProbe(c))
    /\ answer' = [answer EXCEPT ![c] = IF AfterProbe(c) = "idle" THEN previous[c] ELSE @]
    /\ UNCHANGED <<past, etags, snapshot, previous, got, began, apart>>

(* A changed or paginated endpoint ends the probe; the new ETag stays.     *)
ProbeChanged(c) ==
    /\ pc[c] \in Probing
    /\ ~Unchanged(c) \/ Paged(c)
    /\ etags' = [etags EXCEPT ![Asked(c)] = now[Asked(c)]]
    /\ Goto(c, "pr")
    /\ UNCHANGED <<past, snapshot, previous, got, began, answer, apart>>

ProbeFails(c) ==
    /\ "probe" \in Faults
    /\ pc[c] \in Probing
    /\ Goto(c, "pr")
    /\ UNCHANGED <<past, etags, snapshot, previous, got, began, answer, apart>>

Receive(c, e) == got' = [got EXCEPT ![c] = [x \in DOMAIN @ \cup {e} |->
                                              IF x = e THEN now[e] ELSE @[x]]]

ReadPr(c) ==
    /\ At(c, "pr")
    /\ Receive(c, <<"pull", None>>)
    /\ Goto(c, "checks")
    /\ UNCHANGED <<past, etags, snapshot, previous, began, answer, apart>>

(* The head the full read is about.                                        *)
ReadHead(c) == got[c][<<"pull", None>>]

(* Promise.all: the check rollup (check runs, then status) and the branch  *)
(* protection, in any interleaving.                                        *)
ReadChecks(c) ==
    /\ At(c, "checks")
    /\ \E e \in Endpoints(ReadHead(c)) \ DOMAIN got[c] :
         /\ e[1] = "status" => <<"runs", ReadHead(c)>> \in DOMAIN got[c]
         /\ Receive(c, e)
         /\ Goto(c, IF Endpoints(ReadHead(c)) \subseteq DOMAIN got[c] \cup {e}
                    THEN "again" ELSE "checks")
    /\ UNCHANGED <<past, etags, snapshot, previous, began, answer, apart>>

(* Mutant: the head is not read again.                                     *)
ReadAgainBlind(c) ==
    /\ At(c, "again")
    /\ Goto(c, "idle")
    /\ snapshot' = Snapshot(ReadHead(c), got[c])
    /\ apart' = FALSE
    /\ answer' = [answer EXCEPT ![c] = snapshot']
    /\ UNCHANGED <<past, etags, previous, got, began>>

(* The head is read again; only an unmoved head yields a snapshot.         *)
ReadAgain(c) ==
    /\ At(c, "again")
    /\ Goto(c, "idle")
    /\ \/ /\ PullHead(now) = ReadHead(c)
          /\ snapshot' = Snapshot(ReadHead(c), got[c])
          /\ apart' = FALSE
          /\ answer' = [answer EXCEPT ![c] = snapshot']
       \/ /\ PullHead(now) # ReadHead(c)
          /\ answer' = [answer EXCEPT ![c] = Failed]
          /\ UNCHANGED <<snapshot, apart>>
    /\ UNCHANGED <<past, etags, previous, got, began>>

ReadFails(c) ==
    /\ "read" \in Faults
    /\ pc[c] \in {"pr", "checks", "again"}
    /\ Goto(c, "idle")
    /\ answer' = [answer EXCEPT ![c] = Failed]
    /\ apart' = TRUE
    /\ UNCHANGED <<past, etags, snapshot, previous, got, began>>

(* The bounded caches drop an entry to make room for another pull request. *)
EvictSnapshot ==
    /\ snapshot # None
    /\ snapshot' = None
    /\ UNCHANGED <<past, etags, local>>
EvictEtag ==
    /\ \E e \in Endpoint : etags[e] # None /\ etags' = [etags EXCEPT ![e] = None]
    /\ UNCHANGED <<past, snapshot, local>>

Step(c) ==
    \/ Call(c)
    \/ ProbeUnchanged(c) \/ ProbeChanged(c) \/ ProbeFails(c)
    \/ ReadPr(c) \/ ReadChecks(c) \/ ReadAgain(c) \/ ReadFails(c)

Next ==
    \/ \E c \in Caller : Step(c)
    \/ Push \/ CheckMoves \/ ProtectionMoves
    \/ EvictSnapshot \/ EvictEtag

Spec == Init /\ [][Next]_vars

-----------------------------------------------------------------------------
(* Head and checks of s are what GitHub said in the worlds I, each item in *)
(* one of them.                                                            *)
TrueDuring(s, I) ==
    LET Agrees(e, v) == \E i \in I : past[i][e] = v
    IN /\ Agrees(<<"pull", None>>, s.head)
       /\ Agrees(<<"runs", s.head>>, s.runs)
       /\ Agrees(<<"status", s.head>>, s.status)

Answered(c) == At(c, "idle") /\ answer[c] \notin {None, Failed}

(* Every answer, a reused one too, says of the head and its checks only    *)
(* what GitHub said between the start and the end of the call              *)
(* (nothingChanged: "whether anything this snapshot depends on has         *)
(* changed") - unless a full read failed since the snapshot was made; see  *)
(* GreenIsCurrent for what happens then.                                   *)
FreshAnswer ==
    ~apart => \A c \in Caller : Answered(c) => TrueDuring(answer[c], began[c]..Len(past))

(* The same of the answers a merge may rest on, with no exception: gates   *)
(* reported as passed were not red for the whole call                      *)
(* (runPreMergeCompletion, quickfixReadiness).                             *)
GreenIsCurrent ==
    \A c \in Caller :
      Answered(c) /\ Passed(answer[c]) => TrueDuring(answer[c], began[c]..Len(past))

(* A snapshot never mixes two heads: all of it was read while the head it  *)
(* names was the pull request's (readRemoteGateSnapshot: the second read). *)
CoherentSnapshot ==
    /\ TypeOK
    /\ snapshot # None =>
         TrueDuring(snapshot, {i \in DOMAIN past : PullHead(past[i]) = snapshot.head})
=============================================================================
