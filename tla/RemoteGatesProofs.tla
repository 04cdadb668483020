-------------------------- MODULE RemoteGatesProofs --------------------------
(***************************************************************************)
(* What the gate snapshots of RemoteGates promise for every pull request,  *)
(* world and pattern of failures.  Heads and check payloads never come     *)
(* back: once GitHub has moved on from what was read, no ETag of what was  *)
(* read before can answer 304 again.  That keeps a snapshot within one     *)
(* head for any number of concurrent calls; that a reused snapshot is      *)
(* fresh needs the calls to come one at a time.                            *)
(***************************************************************************)
EXTENDS RemoteGates, TLAPS

Pull == <<"pull", None>>
Check == {e \in Endpoint : e[1] \in {"runs", "status"}}
AnyContent == Commit \cup Verdict \cup Protection
World == {w \in [Endpoint -> AnyContent] : IsWorld(w)}

(* What GitHub said of an endpoint so far; the payload of a check carries  *)
(* the world it appeared in.                                               *)
Seen(e, v) == \E i \in DOMAIN past : past[i][e] = v

Shape ==
    /\ past \in Seq(World) /\ Len(past) \in 1..MaxWorlds
    /\ etags \in [Endpoint -> AnyContent \cup {None}]
    /\ \A c \in Caller : \A e \in DOMAIN got[c] : e \in Endpoint
    /\ DOMAIN got = Caller
    /\ TypeOK

Stamped == \A i \in DOMAIN past : \A e \in Check : past[i][e][2] <= i

EtagsSeen == \A e \in Endpoint : etags[e] # None => Seen(e, etags[e])

(* What a call has read, it read while it ran; and as long as the head it  *)
(* read is the head, all of it was read under that head.                   *)
ReadIn(I, e, v) == \E i \in I : past[i][e] = v

Under(h) == {i \in DOMAIN past : PullHead(past[i]) = h}

Reading(c) ==
    pc[c] \in {"checks", "again"} =>
      /\ DOMAIN got[c] \subseteq {Pull} \cup Endpoints(ReadHead(c))
      /\ Pull \in DOMAIN got[c]
      /\ pc[c] = "again" => Endpoints(ReadHead(c)) \subseteq DOMAIN got[c]
      /\ \A e \in DOMAIN got[c] :
           /\ got[c][e] \in Content(e)
           /\ ReadIn(began[c]..Len(past), e, got[c][e])
           /\ PullHead(now) = ReadHead(c) => ReadIn(Under(ReadHead(c)), e, got[c][e])

Probed(c) ==
    /\ pc[c] \in Probing => previous[c] # None
    /\ pc[c] \in Probing \cup {"pr"} => DOMAIN got[c] = {}

SnapshotInvariant ==
    /\ Shape /\ Stamped /\ EtagsSeen
    /\ \A c \in Caller : Reading(c) /\ Probed(c)
    /\ CoherentSnapshot

(* An ETag that answers 304 says that v is still what GitHub says.         *)
Matches(e, v) == etags[e] = now[e] => v = now[e]

ChecksMatch(s) ==
    Matches(<<"runs", s.head>>, s.runs) /\ Matches(<<"status", s.head>>, s.status)

(* A snapshot may be reused: a probe that finds its head finds its checks. *)
Reusable(s) ==
    /\ Seen(Pull, s.head)
    /\ Matches(Pull, s.head)
    /\ PullHead(now) = s.head => ChecksMatch(s)

(* What a probing call has confirmed of the snapshot it revalidates.       *)
Confirmed(c) ==
    LET s == previous[c]
        I == began[c]..Len(past)
    IN /\ Reusable(s)
       /\ snapshot \in {None, s}
       /\ pc[c] # "probe1" => ReadIn(I, Pull, s.head) /\ ChecksMatch(s)
       /\ pc[c] \in {"probe3", "probe4"} => ReadIn(I, <<"runs", s.head>>, s.runs)
       /\ pc[c] = "probe4" => ReadIn(I, <<"status", s.head>>, s.status)

(* Nothing a call reads is older than the ETag of it.                      *)
ReadLater(c) ==
    pc[c] \in {"checks", "again"} =>
      /\ \A e \in DOMAIN got[c] \ {<<"protection", None>>} : Matches(e, got[c][e])
      /\ snapshot # None => \/ PullHead(now) = ReadHead(c)
                            \/ PullHead(now) # snapshot.head

Fresh(c) ==
    /\ ReadLater(c)
    /\ snapshot # None => Seen(Pull, snapshot.head)
    /\ ~apart =>
         /\ pc[c] = "idle" /\ snapshot # None => Reusable(snapshot)
         /\ pc[c] \in Probing => Confirmed(c)
         /\ Answered(c) => TrueDuring(answer[c], began[c]..Len(past))

FreshInvariant == SnapshotInvariant /\ \A c \in Caller : Fresh(c)

-----------------------------------------------------------------------------
(* Endpoints and what they contain.                                        *)
LEMMA Places ==
    ASSUME NEW h \in Commit
    PROVE  /\ Pull \in Endpoint /\ Pull \notin Endpoints(h)
           /\ <<"runs", h>> \in Check /\ <<"status", h>> \in Check
           /\ <<"protection", None>> \in Endpoint
           /\ Endpoints(h) = {<<"runs", h>>, <<"status", h>>, <<"protection", None>>}
           /\ Endpoints(h) \subseteq Endpoint
BY DEF Endpoint, Endpoints, Check, Pull

LEMMA PlaceKinds ==
    ASSUME NEW e \in Endpoint
    PROVE  \/ e = Pull
           \/ e \in Check /\ e # Pull /\ e # <<"protection", None>>
           \/ e = <<"protection", None>> /\ e # Pull /\ e \notin Check
BY DEF Endpoint, Endpoints, Check, Pull

LEMMA Contents ==
    /\ Content(Pull) = Commit
    /\ Content(<<"protection", None>>) = Protection
    /\ \A e \in Check : Content(e) = Verdict
<1>1. Content(Pull) = Commit /\ Content(<<"protection", None>>) = Protection
  BY DEF Content, Pull
<1>2. ASSUME NEW e \in Check PROVE Content(e) = Verdict
  BY DEF Content, Check
<1> QED BY <1>1, <1>2

LEMMA ContentKnown ==
    ASSUME NEW e \in Endpoint PROVE Content(e) \subseteq AnyContent /\ None \notin Content(e)
BY PlaceKinds, Contents, NoneAssumption DEF AnyContent

(* A world says something of each endpoint.                                *)
LEMMA Worlds ==
    ASSUME Shape, NEW i \in DOMAIN past
    PROVE  /\ past[i] \in World /\ IsWorld(past[i])
           /\ \A e \in Endpoint : past[i][e] \in Content(e)
BY DEF Shape, World, IsWorld

LEMMA Current ==
    ASSUME Shape
    PROVE  /\ Len(past) \in DOMAIN past /\ DOMAIN past = 1..Len(past) /\ Len(past) \in Nat
           /\ now \in World /\ \A e \in Endpoint : now[e] \in Content(e) /\ Seen(e, now[e])
<1>1. Len(past) \in DOMAIN past /\ DOMAIN past = 1..Len(past) /\ Len(past) \in Nat
  BY DEF Shape
<1> QED BY <1>1, Worlds DEF now, Seen

LEMMA HeadIsCommit ==
    ASSUME Shape, NEW c \in Caller, Reading(c), pc[c] \in {"checks", "again"}
    PROVE  ReadHead(c) \in Commit /\ Seen(Pull, ReadHead(c))
<1>1. Pull \in DOMAIN got[c] /\ ReadHead(c) = got[c][Pull] /\ Len(past) \in Nat
  BY Current DEF Reading, ReadHead, Pull
<1>2. ReadHead(c) \in Commit
  BY <1>1, Contents DEF Reading
<1>3. Seen(Pull, ReadHead(c))
  BY <1>1, Current DEF Reading, ReadIn, Seen, Shape, TypeOK
<1> QED BY <1>2, <1>3

-----------------------------------------------------------------------------
(* GitHub moves on: what changes was never there before.                   *)
Newer(w) ==
    /\ \A e \in Endpoint \ {<<"protection", None>>} : w[e] = now[e] \/ ~Seen(e, w[e])
    /\ \A e \in Check : w[e][2] <= Len(past) + 1

Moves(w) ==
    /\ w \in World /\ Newer(w) /\ Len(past) < MaxWorlds /\ past' = Append(past, w)
    /\ UNCHANGED <<etags, snapshot, local>>

LEMMA Grown ==
    ASSUME Shape, NEW w, Moves(w)
    PROVE  /\ Len(past') = Len(past) + 1 /\ past' \in Seq(World)
           /\ DOMAIN past' = DOMAIN past \cup {Len(past) + 1}
           /\ \A i \in DOMAIN past : past'[i] = past[i]
           /\ past'[Len(past) + 1] = w /\ now' = w
           /\ \A e, v : Seen(e, v) => Seen(e, v)'
<1>1. /\ Len(past') = Len(past) + 1 /\ past' \in Seq(World)
      /\ DOMAIN past' = DOMAIN past \cup {Len(past) + 1}
      /\ \A i \in DOMAIN past : past'[i] = past[i]
      /\ past'[Len(past) + 1] = w
  BY DEF Shape, Moves
<1> QED BY <1>1 DEF now, Seen

LEMMA ReadStays ==
    ASSUME Shape, NEW w, Moves(w), NEW e, NEW v, NEW b \in 1..Len(past),
           ReadIn(b..Len(past), e, v)
    PROVE  ReadIn(b..Len(past), e, v)'
<1>1. PICK i \in b..Len(past) : past[i][e] = v
  BY DEF ReadIn
<1>2. i \in DOMAIN past /\ i \in b..(Len(past) + 1)
  BY <1>1, Current
<1> QED BY <1>1, <1>2, Grown DEF ReadIn

LEMMA UnderStays ==
    ASSUME Shape, NEW w, Moves(w), NEW h, NEW e, NEW v, ReadIn(Under(h), e, v)
    PROVE  ReadIn(Under(h), e, v)'
<1>1. PICK i \in Under(h) : past[i][e] = v
  BY DEF ReadIn
<1>2. i \in Under(h)'
  BY <1>1, Grown DEF Under, PullHead
<1> QED BY <1>1, <1>2, Grown DEF ReadIn, Under

(* A head that has been replaced is not the head again.                    *)
LEMMA HeadGone ==
    ASSUME Shape, NEW w, Moves(w), NEW h, Seen(Pull, h), PullHead(now)' = h
    PROVE  PullHead(now) = h
<1>1. now' = w /\ w[Pull] = h
  BY Grown DEF PullHead, Pull
<1>2. Pull \in Endpoint \ {<<"protection", None>>}
  BY DEF Endpoint, Pull
<1> QED BY <1>1, <1>2 DEF Moves, Newer, PullHead, Pull

LEMMA MovesKeepShape ==
    ASSUME SnapshotInvariant, NEW w, Moves(w)
    PROVE  Shape' /\ Stamped' /\ EtagsSeen' /\ CoherentSnapshot'
<1>1. Shape /\ TypeOK
  BY DEF SnapshotInvariant, Shape
<1>2. TypeOK'
  <2>1. \A i \in DOMAIN past' : IsWorld(past'[i])
    BY <1>1, Grown DEF TypeOK, Moves, World
  <2>2. began \in [Caller -> 1..Len(past')]
    <3>1. 1..Len(past) \subseteq 1..Len(past')
      BY <1>1, Grown, Current
    <3> QED BY <1>1, <3>1 DEF TypeOK
  <2> QED BY <1>1, <2>1, <2>2 DEF TypeOK, Moves, local
<1>3. Shape'
  <2>1. Len(past') \in 1..MaxWorlds
    BY <1>1, Grown, Current, WorldsAssumption DEF Moves
  <2>2. past' \in Seq(World) /\ UNCHANGED <<etags, got>>
    BY <1>1, Grown DEF Moves, local
  <2> QED BY <1>1, <1>2, <2>1, <2>2 DEF Shape
<1>4. Stamped'
  <2>1. \A e \in Check : w[e][2] <= Len(past) + 1
    BY DEF Moves, Newer
  <2> QED BY <1>1, <2>1, Grown DEF SnapshotInvariant, Stamped
<1>5. EtagsSeen'
  BY <1>1, Grown DEF SnapshotInvariant, EtagsSeen, Moves
<1>6. CoherentSnapshot'
  <2> SUFFICES ASSUME snapshot # None
               PROVE  TrueDuring(snapshot, Under(snapshot.head))'
    BY <1>2 DEF CoherentSnapshot, Under, Moves
  <2>1. TrueDuring(snapshot, Under(snapshot.head))
    BY DEF SnapshotInvariant, CoherentSnapshot, Under
  <2>2. /\ ReadIn(Under(snapshot.head), Pull, snapshot.head)
        /\ ReadIn(Under(snapshot.head), <<"runs", snapshot.head>>, snapshot.runs)
        /\ ReadIn(Under(snapshot.head), <<"status", snapshot.head>>, snapshot.status)
    BY <2>1 DEF TrueDuring, ReadIn, Pull
  <2>3. /\ ReadIn(Under(snapshot.head), Pull, snapshot.head)'
        /\ ReadIn(Under(snapshot.head), <<"runs", snapshot.head>>, snapshot.runs)'
        /\ ReadIn(Under(snapshot.head), <<"status", snapshot.head>>, snapshot.status)'
    BY <1>1, <2>2, UnderStays DEF Moves, ReadIn, Under
  <2> QED BY <2>3 DEF TrueDuring, ReadIn, Pull
<1> QED BY <1>3, <1>4, <1>5, <1>6

LEMMA MovesKeep ==
    ASSUME SnapshotInvariant, NEW w, Moves(w) PROVE SnapshotInvariant'
<1>1. Shape /\ TypeOK /\ UNCHANGED <<etags, snapshot, pc, previous, got, began>>
  BY DEF SnapshotInvariant, Shape, Moves, local
<1>2. ASSUME NEW c \in Caller PROVE Reading(c)' /\ Probed(c)'
  <2>1. Probed(c)'
    BY <1>1 DEF SnapshotInvariant, Probed
  <2>2. ASSUME pc[c] \in {"checks", "again"}, NEW e \in DOMAIN got[c]
        PROVE  /\ ReadIn(began[c]..Len(past), e, got[c][e])'
               /\ (PullHead(now) = ReadHead(c) => ReadIn(Under(ReadHead(c)), e, got[c][e]))'
    <3>1. /\ ReadIn(began[c]..Len(past), e, got[c][e])
          /\ PullHead(now) = ReadHead(c) => ReadIn(Under(ReadHead(c)), e, got[c][e])
      BY <2>2 DEF SnapshotInvariant, Reading
    <3>2. began[c] \in 1..Len(past)
      BY <1>1 DEF TypeOK
    <3>3. ReadIn(began[c]..Len(past), e, got[c][e])'
      BY <1>1, <3>1, <3>2, ReadStays DEF ReadIn
    <3>4. Seen(Pull, ReadHead(c)) /\ ReadHead(c)' = ReadHead(c)
      BY <1>1, <2>2, HeadIsCommit DEF SnapshotInvariant, ReadHead
    <3>5. ASSUME PullHead(now)' = ReadHead(c) PROVE ReadIn(Under(ReadHead(c)), e, got[c][e])'
      <4>1. PullHead(now) = ReadHead(c)
        BY <1>1, <3>4, <3>5, HeadGone
      <4>2. PICK h, v : h = ReadHead(c) /\ v = got[c][e]
        OBVIOUS
      <4>3. ReadIn(Under(h), e, v)
        BY <3>1, <4>1, <4>2
      <4>4. ReadIn(Under(h), e, v)'
        BY <1>1, <4>3, UnderStays
      <4>5. h = ReadHead(c)' /\ v = got'[c][e]
        BY <1>1, <3>4, <4>2
      <4> QED BY <4>4, <4>5 DEF ReadIn, Under
    <3> QED BY <3>3, <3>4, <3>5
  <2>3. Reading(c)'
    BY <1>1, <2>2 DEF SnapshotInvariant, Reading, ReadHead
  <2> QED BY <2>1, <2>3
<1> QED BY <1>2, MovesKeepShape DEF SnapshotInvariant

LEMMA GitHubMoves ==
    ASSUME Shape, Stamped, Push \/ CheckMoves \/ ProtectionMoves
    PROVE  \E w : Moves(w)
<1>1. now \in [Endpoint -> AnyContent] /\ IsWorld(now)
  BY Current DEF World
<1>2. CASE Push
  <2>1. PICK h \in Commit : /\ \A i \in DOMAIN past : PullHead(past[i]) # h
                            /\ Becomes([now EXCEPT ![<<"pull", None>>] = h])
    BY <1>2 DEF Push
  <2> DEFINE w == [now EXCEPT ![<<"pull", None>>] = h]
  <2>2. w[Pull] = h /\ w \in [Endpoint -> AnyContent]
        /\ \A e \in Endpoint : e # Pull => w[e] = now[e]
    BY <1>1, <2>1, Places DEF Pull, AnyContent
  <2>3. w \in World
    BY <1>1, <2>2, Contents DEF World, IsWorld
  <2>4. ~Seen(Pull, h)
    BY <2>1 DEF Seen, PullHead, Pull
  <2>5. \A e \in Check : now[e][2] <= Len(past) + 1 /\ e \in Endpoint /\ e # Pull
    BY Current, Contents, PlaceKinds DEF Stamped, Check, Verdict, now, Pull
  <2>6. Newer(w)
    BY <2>2, <2>4, <2>5 DEF Newer
  <2> QED BY <2>1, <2>3, <2>6 DEF Moves, Becomes
<1>3. CASE CheckMoves
  <2>1. PICK e \in Endpoint, v \in {"pending", "green", "red"} :
          /\ e[1] \in {"runs", "status"}
          /\ Becomes([now EXCEPT ![e] = <<v, Len(past) + 1>>])
    BY <1>3 DEF CheckMoves
  <2> DEFINE w == [now EXCEPT ![e] = <<v, Len(past) + 1>>]
  <2>2. Len(past) + 1 \in 1..MaxWorlds /\ Len(past) \in Nat
    BY <2>1, Current, WorldsAssumption DEF Becomes
  <2>3. <<v, Len(past) + 1>> \in Verdict /\ e \in Check /\ e # Pull
    BY <2>1, <2>2 DEF Verdict, Check, Pull
  <2>4. w \in [Endpoint -> AnyContent] /\ w[e] = <<v, Len(past) + 1>>
        /\ \A x \in Endpoint : x # e => w[x] = now[x]
    BY <1>1, <2>3 DEF AnyContent
  <2>5. w \in World
    BY <1>1, <2>3, <2>4, Contents DEF World, IsWorld
  <2>6. \A x \in Check : \A i \in DOMAIN past : past[i][x][2] <= Len(past)
    <3> SUFFICES ASSUME NEW x \in Check, NEW i \in DOMAIN past PROVE past[i][x][2] <= Len(past)
      OBVIOUS
    <3>1. past[i][x] \in Verdict
      BY Worlds, Contents DEF Check
    <3>2. past[i][x][2] \in Nat /\ past[i][x][2] <= i /\ i \in 1..Len(past)
      BY <3>1, Current DEF Stamped, Verdict
    <3> QED BY <2>2, <3>2
  <2>7. ~Seen(e, <<v, Len(past) + 1>>)
    BY <2>2, <2>3, <2>6 DEF Seen
  <2>8. \A x \in Check : w[x][2] <= Len(past) + 1
    <3> SUFFICES ASSUME NEW x \in Check PROVE w[x][2] <= Len(past) + 1
      OBVIOUS
    <3>1. now[x][2] <= Len(past) /\ now[x] \in Verdict /\ x \in Endpoint
      BY <2>6, Current, Contents DEF now, Check
    <3> QED BY <2>2, <2>4, <3>1 DEF Verdict
  <2>9. Newer(w)
    BY <2>4, <2>7, <2>8 DEF Newer
  <2> QED BY <2>1, <2>5, <2>9 DEF Moves, Becomes
<1>4. CASE ProtectionMoves
  <2>1. PICK v \in Protection : Becomes([now EXCEPT ![<<"protection", None>>] = v])
    BY <1>4 DEF ProtectionMoves
  <2> DEFINE w == [now EXCEPT ![<<"protection", None>>] = v]
  <2>2. w \in [Endpoint -> AnyContent] /\ \A e \in Endpoint : e # <<"protection", None>> => w[e] = now[e]
    BY <1>1 DEF AnyContent
  <2>3. w \in World
    BY <1>1, <2>2, Contents DEF World, IsWorld
  <2>4. \A e \in Check : now[e][2] <= Len(past) + 1 /\ e \in Endpoint /\ e # <<"protection", None>>
    BY Current, Contents, PlaceKinds DEF Stamped, Check, Verdict, now
  <2>5. Newer(w)
    BY <2>2, <2>4 DEF Newer
  <2> QED BY <2>1, <2>3, <2>5 DEF Moves, Becomes
<1> QED BY <1>2, <1>3, <1>4

-----------------------------------------------------------------------------
(* One call.                                                               *)

(* A step of c alone: the other calls and GitHub stay as they are.         *)
Alone(c) ==
    /\ past' = past
    /\ DOMAIN got' = DOMAIN got
    /\ \A d \in Caller : d # c => /\ pc'[d] = pc[d] /\ previous'[d] = previous[d]
                                  /\ got'[d] = got[d] /\ began'[d] = began[d]

LEMMA CallKeeps ==
    ASSUME SnapshotInvariant, NEW c \in Caller, Alone(c), TypeOK',
           etags' \in [Endpoint -> AnyContent \cup {None}], EtagsSeen',
           Reading(c)', Probed(c)', \A e \in DOMAIN got'[c] : e \in Endpoint,
           snapshot' = snapshot \/ CoherentSnapshot'
    PROVE  SnapshotInvariant'
<1>1. Shape' /\ Stamped'
  BY DEF SnapshotInvariant, Shape, Stamped, Alone
<1>2. ASSUME NEW d \in Caller, d # c PROVE Reading(d)' /\ Probed(d)'
  <2>1. Reading(d) /\ Probed(d)
    BY DEF SnapshotInvariant
  <2>2. /\ pc'[d] = pc[d] /\ previous'[d] = previous[d] /\ got'[d] = got[d]
        /\ began'[d] = began[d] /\ past' = past
    BY <1>2 DEF Alone
  <2>3. Probed(d)'
    BY <2>1, <2>2 DEF Probed
  <2>4. now' = now /\ ReadHead(d)' = ReadHead(d)
    BY <2>2 DEF now, ReadHead
  <2>5. Reading(d)'
    BY <2>1, <2>2, <2>4 DEF Reading, ReadIn, Under
  <2> QED BY <2>3, <2>5
<1>3. CoherentSnapshot'
  BY DEF SnapshotInvariant, CoherentSnapshot, TrueDuring, Alone
<1> QED BY <1>1, <1>2, <1>3 DEF SnapshotInvariant

LEMMA EtagsStay ==
    ASSUME SnapshotInvariant, past' = past, etags' = etags
    PROVE  etags' \in [Endpoint -> AnyContent \cup {None}] /\ EtagsSeen'
BY DEF SnapshotInvariant, Shape, EtagsSeen, Seen

LEMMA CallBegins ==
    ASSUME SnapshotInvariant, NEW c \in Caller, Call(c) PROVE SnapshotInvariant'
<1> USE DEF Call, Goto, At
<1>1. Shape /\ TypeOK /\ DOMAIN got = Caller
  BY DEF SnapshotInvariant, Shape
<1>2. Alone(c)
  BY <1>1 DEF Alone, TypeOK
<1>3. pc'[c] \in {"pr", "probe1"} /\ (pc'[c] = "probe1" => snapshot # None)
      /\ previous'[c] = snapshot /\ DOMAIN got'[c] = {}
  BY <1>1 DEF TypeOK, Unread
<1>4. TypeOK'
  <2>1. pc' \in [Caller -> PC]
    BY <1>1 DEF TypeOK, PC, Probing
  <2>2. began' \in [Caller -> 1..Len(past)] /\ previous' \in [Caller -> AnySnapshot \cup {None}]
    BY <1>1, Current DEF TypeOK
  <2>3. answer' \in [Caller -> AnySnapshot \cup {None, Failed}]
    BY <1>1 DEF TypeOK
  <2> QED BY <1>1, <2>1, <2>2, <2>3 DEF TypeOK
<1>5. Reading(c)' /\ Probed(c)'
  BY <1>3 DEF Reading, Probed, Probing
<1> QED BY <1>2, <1>3, <1>4, <1>5, EtagsStay, CallKeeps

(* The endpoint a probe asks for is one of those the snapshot names.       *)
LEMMA AskedIs ==
    ASSUME NEW c \in Caller, pc[c] \in Probing
    PROVE  /\ pc[c] = "probe1" => Asked(c) = Pull /\ AfterProbe(c) = "probe2"
           /\ pc[c] = "probe2" => Asked(c) = <<"runs", previous[c].head>> /\ AfterProbe(c) = "probe3"
           /\ pc[c] = "probe3" => Asked(c) = <<"status", previous[c].head>> /\ AfterProbe(c) = "probe4"
           /\ pc[c] = "probe4" => Asked(c) = <<"protection", None>> /\ AfterProbe(c) = "idle"
<1> DEFINE steps == <<"probe1", "probe2", "probe3", "probe4">>
<1>1. ASSUME NEW n \in 1..4, pc[c] = steps[n]
      PROVE  (CHOOSE i \in 1..4 : pc[c] = steps[i]) = n
  BY <1>1
<1>2. ASSUME pc[c] = "probe1" PROVE Asked(c) = Pull /\ AfterProbe(c) = "probe2"
  <2>1. (CHOOSE i \in 1..4 : pc[c] = steps[i]) = 1
    BY <1>1, <1>2
  <2> QED BY <1>2, <2>1 DEF Asked, Probes, Pull, AfterProbe, At
<1>3. ASSUME pc[c] = "probe2"
      PROVE  Asked(c) = <<"runs", previous[c].head>> /\ AfterProbe(c) = "probe3"
  <2>1. (CHOOSE i \in 1..4 : pc[c] = steps[i]) = 2
    BY <1>1, <1>3
  <2> QED BY <1>3, <2>1 DEF Asked, Probes, AfterProbe, At
<1>4. ASSUME pc[c] = "probe3"
      PROVE  Asked(c) = <<"status", previous[c].head>> /\ AfterProbe(c) = "probe4"
  <2>1. (CHOOSE i \in 1..4 : pc[c] = steps[i]) = 3
    BY <1>1, <1>4
  <2> QED BY <1>4, <2>1 DEF Asked, Probes, AfterProbe, At
<1>5. ASSUME pc[c] = "probe4"
      PROVE  Asked(c) = <<"protection", None>> /\ AfterProbe(c) = "idle"
  <2>1. (CHOOSE i \in 1..4 : pc[c] = steps[i]) = 4
    BY <1>1, <1>5
  <2> QED BY <1>5, <2>1 DEF Asked, Probes, AfterProbe, At
<1> QED BY <1>2, <1>3, <1>4, <1>5

LEMMA AskedKnown ==
    ASSUME SnapshotInvariant, NEW c \in Caller, pc[c] \in Probing
    PROVE  /\ Asked(c) \in Endpoint /\ AfterProbe(c) \in PC
           /\ previous[c] \in AnySnapshot /\ previous[c].head \in Commit
<1>1. previous[c] \in AnySnapshot /\ previous[c].head \in Commit
  BY DEF SnapshotInvariant, Shape, TypeOK, Probed, AnySnapshot
<1>2. Asked(c) \in Endpoint /\ AfterProbe(c) \in PC
  BY <1>1, AskedIs, Places DEF Probing, PC, Idle, Check
<1> QED BY <1>1, <1>2

LEMMA ProbeUnchangedKeeps ==
    ASSUME SnapshotInvariant, NEW c \in Caller, ProbeUnchanged(c) PROVE SnapshotInvariant'
<1> USE DEF ProbeUnchanged, Goto
<1>1. Shape /\ TypeOK /\ DOMAIN got = Caller
  BY DEF SnapshotInvariant, Shape
<1>2. Alone(c) /\ pc'[c] = AfterProbe(c)
  BY <1>1 DEF Alone, TypeOK
<1>3. AfterProbe(c) \in Idle \cup Probing
  BY DEF AfterProbe, Idle, Probing
<1>4. previous[c] \in AnySnapshot /\ AfterProbe(c) \in PC
  BY AskedKnown
<1>5. TypeOK'
  <2>1. pc' \in [Caller -> PC] /\ answer' \in [Caller -> AnySnapshot \cup {None, Failed}]
    BY <1>1, <1>4 DEF TypeOK
  <2> QED BY <1>1, <2>1 DEF TypeOK
<1>6. Reading(c)' /\ Probed(c)'
  BY <1>2, <1>3 DEF Reading, Probed, Probing, Idle, SnapshotInvariant
<1> QED BY <1>1, <1>2, <1>5, <1>6, EtagsStay, CallKeeps DEF Shape

LEMMA ProbeEndsKeeps ==
    ASSUME SnapshotInvariant, NEW c \in Caller, ProbeChanged(c) \/ ProbeFails(c)
    PROVE  SnapshotInvariant'
<1> USE DEF ProbeChanged, ProbeFails, Goto
<1>1. Shape /\ TypeOK /\ DOMAIN got = Caller
  BY DEF SnapshotInvariant, Shape
<1>2. Alone(c) /\ pc'[c] = "pr"
  BY <1>1 DEF Alone, TypeOK
<1>3. /\ Asked(c) \in Endpoint /\ now[Asked(c)] \in Content(Asked(c))
      /\ Seen(Asked(c), now[Asked(c)])
  BY <1>1, AskedKnown, Current
<1>4. etags' \in [Endpoint -> AnyContent \cup {None}] /\ EtagsSeen'
  <2>1. CASE ProbeFails(c)
    BY <2>1, EtagsStay
  <2>2. CASE ProbeChanged(c)
    <3>1. etags' = [etags EXCEPT ![Asked(c)] = now[Asked(c)]] /\ past' = past
      BY <2>2
    <3>2. now[Asked(c)] \in AnyContent
      BY <1>3, ContentKnown
    <3> QED BY <1>1, <1>3, <3>1, <3>2 DEF SnapshotInvariant, Shape, EtagsSeen, Seen
  <2> QED BY <2>1, <2>2
<1>5. TypeOK'
  <2>1. pc' \in [Caller -> PC]
    BY <1>1 DEF TypeOK, PC
  <2>2. \A e \in Endpoint : etags'[e] \in Content(e) \cup {None}
    BY <1>1, <1>3 DEF TypeOK, Shape
  <2> QED BY <1>1, <2>1, <2>2 DEF TypeOK
<1>6. Reading(c)' /\ Probed(c)'
  <2>1. got' = got /\ DOMAIN got[c] = {}
    BY DEF SnapshotInvariant, Probed
  <2> QED BY <1>2, <2>1 DEF Reading, Probed, Probing
<1> QED BY <1>1, <1>2, <1>4, <1>5, <1>6, CallKeeps DEF Shape

(* What is read is so now, and while the head stays.                       *)
LEMMA Received ==
    ASSUME SnapshotInvariant, NEW c \in Caller, NEW e \in Endpoint, Receive(c, e)
    PROVE  /\ DOMAIN got' = DOMAIN got
           /\ \A d \in Caller : d # c => got'[d] = got[d]
           /\ DOMAIN got'[c] = DOMAIN got[c] \cup {e} /\ got'[c][e] = now[e]
           /\ \A x \in DOMAIN got[c] : x # e => got'[c][x] = got[c][x]
           /\ now[e] \in Content(e) /\ ReadIn(began[c]..Len(past), e, now[e])
           /\ ReadIn(Under(PullHead(now)), e, now[e])
<1>1. Shape /\ TypeOK /\ DOMAIN got = Caller
  BY DEF SnapshotInvariant, Shape
<1>2. /\ DOMAIN got' = DOMAIN got
      /\ \A d \in Caller : d # c => got'[d] = got[d]
      /\ DOMAIN got'[c] = DOMAIN got[c] \cup {e} /\ got'[c][e] = now[e]
      /\ \A x \in DOMAIN got[c] : x # e => got'[c][x] = got[c][x]
  BY <1>1 DEF Receive
<1>3. Len(past) \in began[c]..Len(past) /\ Len(past) \in Under(PullHead(now))
  BY <1>1, Current DEF TypeOK, Under, now
<1>4. now[e] \in Content(e)
  BY <1>1, Current
<1> QED BY <1>2, <1>3, <1>4 DEF ReadIn, now

LEMMA ReadPrKeeps ==
    ASSUME SnapshotInvariant, NEW c \in Caller, ReadPr(c) PROVE SnapshotInvariant'
<1> USE DEF ReadPr, Goto, At
<1>1. Shape /\ TypeOK /\ DOMAIN got = Caller
  BY DEF SnapshotInvariant, Shape
<1>2. Pull \in Endpoint /\ Receive(c, Pull)
  BY <1>1, Current, PlaceKinds DEF Pull, Shape, TypeOK, Endpoint
<1>3. Alone(c) /\ pc'[c] = "checks"
  BY <1>1, <1>2, Received DEF Alone, TypeOK
<1>4. TypeOK'
  <2>1. pc' \in [Caller -> PC]
    BY <1>1 DEF TypeOK, PC
  <2> QED BY <1>1, <2>1 DEF TypeOK
<1>5. DOMAIN got'[c] = {Pull} /\ got'[c][Pull] = now[Pull]
  BY <1>2, Received DEF SnapshotInvariant, Probed
<1>6. Reading(c)'
  <2>1. PullHead(now) = now[Pull] /\ ReadHead(c)' = now[Pull] /\ past' = past
    BY <1>5 DEF PullHead, ReadHead, Pull
  <2>2. /\ now[Pull] \in Content(Pull) /\ ReadIn(began[c]..Len(past), Pull, now[Pull])
        /\ ReadIn(Under(PullHead(now)), Pull, now[Pull])
    BY <1>2, Received
  <2> QED BY <1>3, <1>5, <2>1, <2>2 DEF Reading, ReadIn, Under
<1>7. Probed(c)' /\ \A e \in DOMAIN got'[c] : e \in Endpoint
  BY <1>2, <1>3, <1>5 DEF Probed, Probing
<1> QED BY <1>1, <1>3, <1>4, <1>6, <1>7, EtagsStay, CallKeeps

LEMMA ReadChecksKeeps ==
    ASSUME SnapshotInvariant, NEW c \in Caller, ReadChecks(c) PROVE SnapshotInvariant'
<1> USE DEF ReadChecks, Goto, At
<1>1. Shape /\ TypeOK /\ DOMAIN got = Caller /\ Reading(c) /\ pc[c] = "checks" /\ past' = past
  BY DEF SnapshotInvariant, Shape
<1>2. PICK h \in Commit : h = ReadHead(c)
  BY <1>1, HeadIsCommit
<1>3. PICK e \in Endpoints(h) \ DOMAIN got[c] :
        /\ Receive(c, e)
        /\ pc' = [pc EXCEPT ![c] = IF Endpoints(h) \subseteq DOMAIN got[c] \cup {e}
                                   THEN "again" ELSE "checks"]
  BY <1>2
<1>4. e \in Endpoint /\ e # Pull
  BY <1>3, Places
<1>5. /\ DOMAIN got' = DOMAIN got /\ \A d \in Caller : d # c => got'[d] = got[d]
      /\ DOMAIN got'[c] = DOMAIN got[c] \cup {e} /\ got'[c][e] = now[e]
      /\ \A x \in DOMAIN got[c] : x # e => got'[c][x] = got[c][x]
      /\ now[e] \in Content(e) /\ ReadIn(began[c]..Len(past), e, now[e])
      /\ ReadIn(Under(PullHead(now)), e, now[e])
  BY <1>3, <1>4, Received
<1>6. /\ Alone(c) /\ pc'[c] \in {"checks", "again"}
      /\ pc'[c] = "again" => Endpoints(h) \subseteq DOMAIN got'[c]
  BY <1>1, <1>3, <1>5 DEF Alone, TypeOK
<1>7. TypeOK'
  <2>1. pc' \in [Caller -> PC]
    BY <1>1, <1>3 DEF TypeOK, PC
  <2> QED BY <1>1, <2>1 DEF TypeOK
<1>8. ReadHead(c)' = h
  BY <1>1, <1>2, <1>4, <1>5 DEF Reading, ReadHead, Pull
<1>9. /\ DOMAIN got[c] \subseteq {Pull} \cup Endpoints(h) /\ Pull \in DOMAIN got[c]
      /\ \A x \in DOMAIN got[c] :
           /\ got[c][x] \in Content(x)
           /\ ReadIn(began[c]..Len(past), x, got[c][x])
           /\ PullHead(now) = h => ReadIn(Under(h), x, got[c][x])
  BY <1>1, <1>2 DEF Reading
<1>10. now' = now /\ began' = began /\ Under(h)' = Under(h)
  BY <1>1 DEF now, Under
<1>11. ASSUME NEW x \in DOMAIN got'[c]
       PROVE  /\ got'[c][x] \in Content(x)
              /\ ReadIn(began[c]..Len(past), x, got[c][x])'
              /\ PullHead(now) = h => ReadIn(Under(h), x, got[c][x])'
  <2>1. /\ got'[c][x] \in Content(x)
        /\ ReadIn(began[c]..Len(past), x, got'[c][x])
        /\ PullHead(now) = h => ReadIn(Under(h), x, got'[c][x])
    <3>1. CASE x = e
      BY <1>5, <3>1
    <3>2. CASE x # e
      BY <1>5, <1>9, <3>2
    <3> QED BY <3>1, <3>2
  <2> QED BY <1>1, <1>10, <2>1 DEF ReadIn
<1>12. Reading(c)'
  BY <1>3, <1>5, <1>6, <1>8, <1>9, <1>10, <1>11 DEF Reading
<1>13. Probed(c)' /\ \A x \in DOMAIN got'[c] : x \in Endpoint
  BY <1>1, <1>4, <1>5, <1>6 DEF Probed, Probing, Shape
<1> QED BY <1>1, <1>6, <1>7, <1>12, <1>13, EtagsStay, CallKeeps

(* What a call has read of a head that is still the head makes a snapshot. *)
LEMMA ReadWhole ==
    ASSUME SnapshotInvariant, NEW c \in Caller, pc[c] = "again"
    PROVE  LET h == ReadHead(c)
               s == Snapshot(h, got[c])
           IN /\ h \in Commit /\ s \in AnySnapshot
              /\ s.head = h /\ got[c][Pull] = h
              /\ s.runs = got[c][<<"runs", h>>] /\ s.status = got[c][<<"status", h>>]
              /\ {Pull, <<"runs", h>>, <<"status", h>>} \subseteq DOMAIN got[c]
<1>1. Shape /\ Reading(c)
  BY DEF SnapshotInvariant
<1>2. PICK h \in Commit : h = ReadHead(c)
  BY <1>1, HeadIsCommit
<1>3. {Pull, <<"runs", h>>, <<"status", h>>, <<"protection", None>>} \subseteq DOMAIN got[c]
  BY <1>1, <1>2, Places DEF Reading
<1>4. /\ got[c][<<"runs", h>>] \in Verdict /\ got[c][<<"status", h>>] \in Verdict
      /\ got[c][<<"protection", None>>] \in Protection
  BY <1>1, <1>3, Contents, Places DEF Reading
<1>5. Snapshot(h, got[c]) \in AnySnapshot
  BY <1>2, <1>4 DEF Snapshot, AnySnapshot
<1> QED BY <1>2, <1>3, <1>5 DEF Snapshot, ReadHead, Pull

LEMMA ReadAgainKeeps ==
    ASSUME SnapshotInvariant, NEW c \in Caller, ReadAgain(c) \/ ReadFails(c)
    PROVE  SnapshotInvariant'
<1> USE DEF ReadAgain, ReadFails, Goto, At
<1>1. Shape /\ TypeOK /\ DOMAIN got = Caller /\ Reading(c)
  BY DEF SnapshotInvariant, Shape
<1>2. Alone(c) /\ pc'[c] = "idle" /\ got' = got
  BY <1>1 DEF Alone, TypeOK
<1>3. Reading(c)' /\ Probed(c)' /\ pc' \in [Caller -> PC]
  BY <1>1, <1>2 DEF Reading, Probed, Probing, TypeOK, PC, Idle
<1>4. CASE snapshot' = snapshot /\ answer' = [answer EXCEPT ![c] = Failed]
  <2>1. apart' \in BOOLEAN
    BY <1>1 DEF TypeOK
  <2>2. TypeOK'
    BY <1>1, <1>3, <1>4, <2>1 DEF TypeOK
  <2> QED BY <1>1, <1>2, <1>3, <1>4, <2>2, EtagsStay, CallKeeps DEF Shape
<1>5. CASE ReadAgain(c) /\ PullHead(now) = ReadHead(c)
           /\ snapshot' = Snapshot(ReadHead(c), got[c]) /\ apart' = FALSE
           /\ answer' = [answer EXCEPT ![c] = snapshot']
  <2> DEFINE h == ReadHead(c)
             s == Snapshot(h, got[c])
  <2>1. /\ h \in Commit /\ s \in AnySnapshot /\ s.head = h /\ got[c][Pull] = h
        /\ s.runs = got[c][<<"runs", h>>] /\ s.status = got[c][<<"status", h>>]
        /\ {Pull, <<"runs", h>>, <<"status", h>>} \subseteq DOMAIN got[c]
    BY <1>5, ReadWhole
  <2>2. TypeOK'
    BY <1>1, <1>3, <1>5, <2>1 DEF TypeOK
  <2>3. \A e \in {Pull, <<"runs", h>>, <<"status", h>>} : ReadIn(Under(h), e, got[c][e])
    BY <1>1, <1>5, <2>1 DEF Reading
  <2>4. TrueDuring(s, Under(h))
    BY <2>1, <2>3 DEF TrueDuring, ReadIn, Pull
  <2>5. snapshot' = s /\ past' = past
    BY <1>5
  <2> HIDE DEF h, s
  <2>6. CoherentSnapshot'
    BY <2>1, <2>2, <2>4, <2>5 DEF CoherentSnapshot, TrueDuring, Under
  <2> QED BY <1>1, <1>2, <1>3, <1>5, <2>2, <2>6, EtagsStay, CallKeeps DEF Shape
<1> QED BY <1>4, <1>5

-----------------------------------------------------------------------------
LEMMA EvictionsKeep ==
    ASSUME SnapshotInvariant, EvictSnapshot \/ EvictEtag \/ UNCHANGED vars
    PROVE  SnapshotInvariant'
<1>1. Shape /\ TypeOK /\ UNCHANGED <<past, pc, previous, got, began, answer, apart>>
  BY DEF SnapshotInvariant, Shape, EvictSnapshot, EvictEtag, vars, local
<1>2. snapshot' \in {snapshot, None}
  BY DEF EvictSnapshot, EvictEtag, vars
<1>3. etags' = etags \/ \E e \in Endpoint : etags' = [etags EXCEPT ![e] = None]
  BY DEF EvictSnapshot, EvictEtag, vars
<1>4. /\ etags' \in [Endpoint -> AnyContent \cup {None}] /\ EtagsSeen'
      /\ \A e \in Endpoint : etags'[e] \in {etags[e], None}
  BY <1>1, <1>3 DEF Shape, SnapshotInvariant, EtagsSeen, Seen
<1>5. TypeOK'
  BY <1>1, <1>2, <1>4 DEF TypeOK
<1>6. Shape' /\ Stamped'
  BY <1>1, <1>4, <1>5 DEF SnapshotInvariant, Shape, Stamped
<1>7. ASSUME NEW c \in Caller PROVE Reading(c)' /\ Probed(c)'
  <2>1. Reading(c) /\ Probed(c)
    BY DEF SnapshotInvariant
  <2>2. Probed(c)'
    BY <1>1, <2>1 DEF Probed
  <2>3. now' = now /\ ReadHead(c)' = ReadHead(c)
    BY <1>1 DEF now, ReadHead
  <2>4. Reading(c)'
    BY <1>1, <2>1, <2>3 DEF Reading, ReadIn, Under
  <2> QED BY <2>2, <2>4
<1>8. CoherentSnapshot'
  BY <1>1, <1>2, <1>5 DEF SnapshotInvariant, CoherentSnapshot, TrueDuring
<1> QED BY <1>4, <1>6, <1>7, <1>8 DEF SnapshotInvariant

LEMMA SnapshotInit == Init => SnapshotInvariant
<1> SUFFICES ASSUME Init PROVE SnapshotInvariant
  OBVIOUS
<1>1. PICK h \in Commit :
        past = << [e \in Endpoint |-> IF e[1] = "pull" THEN h
                                      ELSE IF e[1] = "protection" THEN "required"
                                      ELSE <<"green", 1>>] >>
  BY DEF Init
<1> DEFINE w == [e \in Endpoint |-> IF e[1] = "pull" THEN h
                                    ELSE IF e[1] = "protection" THEN "required"
                                    ELSE <<"green", 1>>]
<1>2. \A e \in Endpoint : w[e] \in Content(e)
  <2> SUFFICES ASSUME NEW e \in Endpoint PROVE w[e] \in Content(e)
    OBVIOUS
  <2>1. <<"green", 1>> \in Verdict /\ "required" \in Protection
    BY WorldsAssumption DEF Verdict, Protection
  <2>2. CASE e = Pull
    BY <2>2, Contents DEF Pull
  <2>3. CASE e \in Check
    BY <2>1, <2>3, Contents DEF Check
  <2>4. CASE e = <<"protection", None>>
    BY <2>1, <2>4, Contents
  <2> QED BY <2>2, <2>3, <2>4, PlaceKinds
<1>3. w \in World
  BY <1>2, ContentKnown DEF World, IsWorld
<1>4. past \in Seq(World) /\ Len(past) = 1 /\ past[1] = w /\ DOMAIN past = {1}
  BY <1>1, <1>3
<1>5. TypeOK
  <2>1. \A i \in DOMAIN past : IsWorld(past[i])
    BY <1>3, <1>4 DEF World
  <2>2. pc \in [Caller -> PC] /\ began \in [Caller -> 1..Len(past)]
    BY <1>4 DEF Init, PC, Idle
  <2> QED BY <2>1, <2>2 DEF Init, TypeOK
<1>6. Shape /\ EtagsSeen
  BY <1>4, <1>5, WorldsAssumption DEF Init, Shape, EtagsSeen, Unread
<1>7. Stamped
  BY <1>4 DEF Stamped, Check
<1>8. \A c \in Caller : Reading(c) /\ Probed(c)
  BY DEF Init, Reading, Probed, Probing
<1>9. CoherentSnapshot
  BY <1>5 DEF Init, CoherentSnapshot
<1> QED BY <1>6, <1>7, <1>8, <1>9 DEF SnapshotInvariant

LEMMA SnapshotStep == SnapshotInvariant /\ [Next]_vars => SnapshotInvariant'
<1> SUFFICES ASSUME SnapshotInvariant, [Next]_vars PROVE SnapshotInvariant'
  OBVIOUS
<1>1. ASSUME NEW c \in Caller, Step(c) PROVE SnapshotInvariant'
  BY <1>1, CallBegins, ProbeUnchangedKeeps, ProbeEndsKeeps, ReadPrKeeps, ReadChecksKeeps,
     ReadAgainKeeps DEF Step
<1>2. CASE Push \/ CheckMoves \/ ProtectionMoves
  BY <1>2, GitHubMoves, MovesKeep DEF SnapshotInvariant
<1>3. CASE EvictSnapshot \/ EvictEtag \/ UNCHANGED vars
  BY <1>3, EvictionsKeep
<1> QED BY <1>1, <1>2, <1>3 DEF Next

(* The inductive invariant: what a call has read of the head it read first *)
(* is what GitHub said under that head, as long as that head stays.        *)
THEOREM SnapshotInvariantHolds == Spec => []SnapshotInvariant
BY SnapshotInit, SnapshotStep, PTL DEF Spec

(* readRemoteGateSnapshot reads the head twice; between the two, whatever  *)
(* number of calls share the caches, all it read belongs to that head.     *)
THEOREM CoherentSnapshotHolds == Spec => []CoherentSnapshot
<1>1. SnapshotInvariant => CoherentSnapshot
  BY DEF SnapshotInvariant
<1> QED BY <1>1, SnapshotInvariantHolds, PTL

-----------------------------------------------------------------------------
(* Calls that come one at a time.                                          *)
OneCall == \A c, d \in Caller : c = d

(* GitHub moves on: an ETag that no longer answers 304 never will again.   *)
LEMMA MatchStays ==
    ASSUME Shape, EtagsSeen, NEW w, Moves(w),
           NEW e \in Endpoint \ {<<"protection", None>>}, NEW v, Matches(e, v)
    PROVE  Matches(e, v)'
<1> SUFFICES ASSUME etags[e] = w[e] PROVE v = w[e]
  BY Grown DEF Matches, Moves
<1>1. etags[e] # None
  <2>1. w[e] \in Content(e)
    BY DEF Moves, World, IsWorld
  <2> QED BY <2>1, ContentKnown
<1>2. Seen(e, w[e])
  BY <1>1 DEF EtagsSeen
<1> QED BY <1>2 DEF Moves, Newer, Matches

LEMMA HeadKnown ==
    ASSUME Shape, NEW h, Seen(Pull, h)
    PROVE  h \in Commit /\ {Pull, <<"runs", h>>, <<"status", h>>}
                             \subseteq Endpoint \ {<<"protection", None>>}
<1>1. PICK i \in DOMAIN past : past[i][Pull] = h
  BY DEF Seen
<1>2. Pull \in Endpoint /\ Pull # <<"protection", None>>
  BY DEF Endpoint, Pull
<1>3. h \in Commit
  BY <1>1, <1>2, Worlds, Contents
<1> QED BY <1>2, <1>3, Places DEF Check

LEMMA ReusableStays ==
    ASSUME Shape, EtagsSeen, NEW w, Moves(w), NEW s, Reusable(s) PROVE Reusable(s)'
<1>1. {Pull, <<"runs", s.head>>, <<"status", s.head>>} \subseteq Endpoint \ {<<"protection", None>>}
  BY HeadKnown DEF Reusable
<1>2. Seen(Pull, s.head)' /\ Matches(Pull, s.head)'
  BY <1>1, Grown, MatchStays DEF Reusable
<1>3. ASSUME PullHead(now)' = s.head PROVE ChecksMatch(s)'
  <2>1. PullHead(now) = s.head
    BY <1>3, HeadGone DEF Reusable
  <2> QED BY <1>1, <2>1, MatchStays DEF Reusable, ChecksMatch
<1> QED BY <1>2, <1>3 DEF Reusable

LEMMA FreshMoves ==
    ASSUME FreshInvariant, NEW w, Moves(w), NEW c \in Caller PROVE Fresh(c)'
<1>1. Shape /\ TypeOK /\ EtagsSeen /\ Reading(c) /\ Fresh(c)
  BY DEF FreshInvariant, SnapshotInvariant, Shape
<1>2. UNCHANGED <<etags, snapshot, pc, previous, got, began, answer, apart>>
  BY DEF Moves, local
<1>3. ReadLater(c)'
  <2> SUFFICES ASSUME pc[c] \in {"checks", "again"} PROVE ReadLater(c)'
    BY <1>2 DEF ReadLater
  <2>1. ASSUME NEW e \in DOMAIN got[c] \ {<<"protection", None>>} PROVE Matches(e, got[c][e])'
    <3>1. e \in Endpoint \ {<<"protection", None>>} /\ Matches(e, got[c][e])
      BY <1>1 DEF Shape, Fresh, ReadLater
    <3>2. PICK v : v = got[c][e]
      OBVIOUS
    <3>3. Matches(e, v)'
      BY <1>1, <3>1, <3>2, MatchStays
    <3> QED BY <1>2, <3>2, <3>3 DEF Matches
  <2>2. ASSUME snapshot # None
        PROVE  PullHead(now)' = ReadHead(c)' \/ PullHead(now)' # snapshot.head
    <3>1. Seen(Pull, snapshot.head)
      BY <1>1, <2>2 DEF Fresh
    <3>2. ReadHead(c)' = ReadHead(c)
      BY <1>2 DEF ReadHead
    <3>3. ASSUME PullHead(now)' = snapshot.head PROVE PullHead(now)' = ReadHead(c)
      <4>1. PullHead(now) = snapshot.head
        BY <1>1, <3>1, <3>3, HeadGone
      <4> QED BY <1>1, <2>2, <3>3, <4>1 DEF Fresh, ReadLater
    <3> QED BY <3>2, <3>3
  <2> QED BY <1>2, <2>1, <2>2 DEF ReadLater
<1>4. snapshot # None => Seen(Pull, snapshot.head)'
  <2>1. PICK h : h = snapshot.head
    OBVIOUS
  <2>2. snapshot # None => Seen(Pull, h)'
    BY <1>1, <2>1, Grown DEF Fresh
  <2> QED BY <1>2, <2>1, <2>2 DEF Seen
<1>5. PICK b \in 1..Len(past) : b = began[c]
  BY <1>1 DEF TypeOK
<1>6. ASSUME ~apart, pc[c] \in Probing PROVE Confirmed(c)'
  <2>1. PICK s : s = previous[c]
    OBVIOUS
  <2>2. /\ Reusable(s) /\ snapshot \in {None, s}
        /\ pc[c] # "probe1" => ReadIn(b..Len(past), Pull, s.head) /\ ChecksMatch(s)
        /\ pc[c] \in {"probe3", "probe4"} => ReadIn(b..Len(past), <<"runs", s.head>>, s.runs)
        /\ pc[c] = "probe4" => ReadIn(b..Len(past), <<"status", s.head>>, s.status)
    BY <1>1, <1>5, <1>6, <2>1 DEF Fresh, Confirmed
  <2>3. {<<"runs", s.head>>, <<"status", s.head>>} \subseteq Endpoint \ {<<"protection", None>>}
    BY <1>1, <2>2, HeadKnown DEF Reusable
  <2>4. ChecksMatch(s) => ChecksMatch(s)'
    BY <1>1, <2>3, MatchStays DEF ChecksMatch
  <2>5. /\ Reusable(s)' /\ snapshot \in {None, s}
        /\ pc[c] # "probe1" => ReadIn(b..Len(past), Pull, s.head)' /\ ChecksMatch(s)'
        /\ pc[c] \in {"probe3", "probe4"} => ReadIn(b..Len(past), <<"runs", s.head>>, s.runs)'
        /\ pc[c] = "probe4" => ReadIn(b..Len(past), <<"status", s.head>>, s.status)'
    BY <1>1, <2>2, <2>4, ReusableStays, ReadStays
  <2>6. s = previous'[c] /\ b = began'[c]
    BY <1>2, <1>5, <2>1
  <2> QED BY <1>2, <2>5, <2>6 DEF Confirmed
<1>7. ASSUME ~apart, Answered(c) PROVE TrueDuring(answer[c], began[c]..Len(past))'
  <2>1. PICK s : s = answer[c]
    OBVIOUS
  <2>2. /\ ReadIn(b..Len(past), Pull, s.head)
        /\ ReadIn(b..Len(past), <<"runs", s.head>>, s.runs)
        /\ ReadIn(b..Len(past), <<"status", s.head>>, s.status)
    BY <1>1, <1>5, <1>7, <2>1 DEF Fresh, TrueDuring, ReadIn, Pull
  <2>3. /\ ReadIn(b..Len(past), Pull, s.head)'
        /\ ReadIn(b..Len(past), <<"runs", s.head>>, s.runs)'
        /\ ReadIn(b..Len(past), <<"status", s.head>>, s.status)'
    BY <1>1, <2>2, ReadStays
  <2>4. s = answer'[c] /\ b = began'[c]
    BY <1>2, <1>5, <2>1
  <2> QED BY <2>3, <2>4 DEF TrueDuring, ReadIn, Pull
<1>8. ASSUME ~apart, pc[c] = "idle", snapshot # None PROVE Reusable(snapshot)'
  <2>1. PICK s : s = snapshot
    OBVIOUS
  <2>2. Reusable(s)'
    BY <1>1, <1>8, <2>1, ReusableStays DEF Fresh
  <2> QED BY <1>2, <2>1, <2>2 DEF Reusable, ChecksMatch, Matches, Seen
<1>9. Answered(c)' => Answered(c)
  BY <1>2 DEF Answered, At
<1> QED BY <1>2, <1>3, <1>4, <1>6, <1>7, <1>8, <1>9 DEF Fresh

(* A cache drops an entry: what answers 304 still tells the truth.         *)
LEMMA FreshEvictions ==
    ASSUME FreshInvariant, EvictSnapshot \/ EvictEtag \/ UNCHANGED vars, NEW c \in Caller
    PROVE  Fresh(c)'
<1>1. Shape /\ TypeOK /\ Reading(c) /\ Fresh(c)
  BY DEF FreshInvariant, SnapshotInvariant, Shape
<1>2. UNCHANGED <<past, pc, previous, got, began, answer, apart>> /\ snapshot' \in {snapshot, None}
  BY DEF EvictSnapshot, EvictEtag, vars, local
<1>3. \A e \in Endpoint : etags'[e] \in {etags[e], None}
  <2>1. etags' = etags \/ \E e \in Endpoint : etags' = [etags EXCEPT ![e] = None]
    BY DEF EvictSnapshot, EvictEtag, vars
  <2> QED BY <1>1, <2>1 DEF Shape
<1>4. now' = now /\ \A e \in Endpoint : now[e] # None
  BY <1>1, <1>2, Current, ContentKnown DEF now
<1>5. ASSUME NEW e \in Endpoint, NEW v, Matches(e, v) PROVE Matches(e, v)'
  BY <1>3, <1>4, <1>5 DEF Matches
<1>6. ASSUME NEW s, Reusable(s)
      PROVE  Reusable(s)' /\ (ChecksMatch(s) => ChecksMatch(s)')
  <2>1. {Pull, <<"runs", s.head>>, <<"status", s.head>>} \subseteq Endpoint
    BY <1>1, <1>6, HeadKnown DEF Reusable
  <2>2. ChecksMatch(s) => ChecksMatch(s)'
    BY <1>5, <2>1 DEF ChecksMatch
  <2>3. Seen(Pull, s.head)' /\ Matches(Pull, s.head)'
    BY <1>2, <1>5, <1>6, <2>1 DEF Reusable, Seen
  <2> QED BY <1>4, <1>6, <2>2, <2>3 DEF Reusable
<1>7. ReadLater(c)'
  <2> SUFFICES ASSUME pc[c] \in {"checks", "again"} PROVE ReadLater(c)'
    BY <1>2 DEF ReadLater
  <2>1. ASSUME NEW e \in DOMAIN got[c] \ {<<"protection", None>>} PROVE Matches(e, got[c][e])'
    <3>1. e \in Endpoint /\ Matches(e, got[c][e])
      BY <1>1 DEF Shape, Fresh, ReadLater
    <3>2. PICK v : v = got[c][e]
      OBVIOUS
    <3>3. Matches(e, v)'
      BY <1>5, <3>1, <3>2
    <3> QED BY <1>2, <3>2, <3>3 DEF Matches
  <2>2. ReadHead(c)' = ReadHead(c)
    BY <1>2 DEF ReadHead
  <2> QED BY <1>1, <1>2, <1>4, <2>1, <2>2 DEF Fresh, ReadLater
<1>8. snapshot' # None => Seen(Pull, snapshot.head)'
  BY <1>1, <1>2 DEF Fresh, Seen
<1>9. ASSUME ~apart, pc[c] = "idle", snapshot' # None PROVE Reusable(snapshot)'
  <2>1. PICK s : s = snapshot
    OBVIOUS
  <2>2. Reusable(s)' /\ s = snapshot'
    BY <1>1, <1>2, <1>6, <1>9, <2>1 DEF Fresh
  <2> QED BY <2>2 DEF Reusable, ChecksMatch, Matches, Seen
<1>10. ASSUME ~apart, pc[c] \in Probing PROVE Confirmed(c)'
  <2>1. PICK s : s = previous[c]
    OBVIOUS
  <2>2. Reusable(s)' /\ (ChecksMatch(s) => ChecksMatch(s)') /\ s = previous'[c]
    BY <1>1, <1>2, <1>6, <1>10, <2>1 DEF Fresh, Confirmed
  <2> QED BY <1>1, <1>2, <1>10, <2>1, <2>2 DEF Fresh, Confirmed, ReadIn
<1>11. Answered(c)' => Answered(c)
  BY <1>2 DEF Answered, At
<1>12. Answered(c) /\ ~apart => TrueDuring(answer[c], began[c]..Len(past))'
  BY <1>1, <1>2 DEF Fresh, TrueDuring
<1> QED BY <1>2, <1>7, <1>8, <1>9, <1>10, <1>11, <1>12 DEF Fresh

(* A step that ends or passes over a read leaves nothing to confirm but    *)
(* the snapshot.                                                           *)
LEMMA FreshCall ==
    ASSUME FreshInvariant, NEW c \in Caller, Call(c) PROVE Fresh(c)'
<1> USE DEF Call, Goto, At
<1>1. Shape /\ TypeOK /\ Fresh(c)
  BY DEF FreshInvariant, SnapshotInvariant, Shape
<1>2. /\ pc'[c] \in {"pr", "probe1"} /\ (pc'[c] = "probe1" => snapshot # None)
      /\ previous'[c] = snapshot /\ answer'[c] = None
      /\ UNCHANGED <<past, etags, snapshot, apart>> /\ pc[c] = "idle"
  BY <1>1 DEF TypeOK
<1>3. now' = now
  BY <1>2 DEF now
<1>4. ReadLater(c)' /\ ~Answered(c)'
  BY <1>2 DEF ReadLater, Answered
<1>5. snapshot' # None => Seen(Pull, snapshot.head)'
  BY <1>1, <1>2 DEF Fresh, Seen
<1>6. ASSUME ~apart, pc'[c] = "probe1" PROVE Confirmed(c)'
  <2>1. Reusable(snapshot)
    BY <1>1, <1>2, <1>6 DEF Fresh
  <2>2. PICK s : s = snapshot
    OBVIOUS
  <2>3. Reusable(s)'
    BY <1>2, <1>3, <2>1, <2>2 DEF Reusable, ChecksMatch, Matches, Seen
  <2> QED BY <1>2, <1>6, <2>2, <2>3 DEF Confirmed, Reusable, ChecksMatch, Matches, Seen
<1> QED BY <1>2, <1>4, <1>5, <1>6 DEF Fresh, Probing

LEMMA FreshProbeEnds ==
    ASSUME FreshInvariant, NEW c \in Caller, ProbeChanged(c) \/ ProbeFails(c) PROVE Fresh(c)'
<1> USE DEF ProbeChanged, ProbeFails, Goto
<1>1. Shape /\ TypeOK /\ Fresh(c)
  BY DEF FreshInvariant, SnapshotInvariant, Shape
<1>2. pc'[c] = "pr" /\ UNCHANGED <<past, snapshot>>
  BY <1>1 DEF TypeOK
<1>3. snapshot' # None => Seen(Pull, snapshot.head)'
  BY <1>1, <1>2 DEF Fresh, Seen
<1> QED BY <1>2, <1>3 DEF Fresh, ReadLater, Answered, At, Probing

(* A 304 confirms the snapshot: what it says is what GitHub says now.      *)
LEMMA FreshProbeUnchanged ==
    ASSUME FreshInvariant, NEW c \in Caller, ProbeUnchanged(c) PROVE Fresh(c)'
<1> USE DEF ProbeUnchanged, Goto
<1>1. Shape /\ TypeOK /\ Fresh(c) /\ pc[c] \in Probing
  BY DEF FreshInvariant, SnapshotInvariant, Shape
<1>2. /\ pc'[c] = AfterProbe(c) /\ previous' = previous /\ began' = began
      /\ UNCHANGED <<past, etags, snapshot, apart>>
      /\ answer'[c] = IF AfterProbe(c) = "idle" THEN previous[c] ELSE answer[c]
  BY <1>1 DEF TypeOK
<1>3. now' = now /\ etags[Asked(c)] = now[Asked(c)]
  BY <1>2 DEF now, Unchanged
<1>4. AfterProbe(c) \in {"idle", "probe2", "probe3", "probe4"}
  BY <1>1, AskedIs DEF Probing
<1>5. ReadLater(c)' /\ (snapshot' # None => Seen(Pull, snapshot.head)')
  BY <1>1, <1>2, <1>4 DEF Fresh, ReadLater, Seen
<1>6. PICK s, I : s = previous[c] /\ I = began[c]..Len(past)
  OBVIOUS
<1>7. Len(past) \in I
  BY <1>1, <1>6, Current DEF TypeOK
<1>8. ASSUME NEW e, NEW v, Matches(e, v), Asked(c) = e PROVE ReadIn(I, e, v)
  BY <1>3, <1>7, <1>8 DEF Matches, ReadIn, now
<1>9. ASSUME ~apart
      PROVE  /\ Reusable(s) /\ snapshot \in {None, s}
             /\ ReadIn(I, Pull, s.head) /\ ChecksMatch(s)
             /\ pc[c] \in {"probe2", "probe3", "probe4"} => ReadIn(I, <<"runs", s.head>>, s.runs)
             /\ pc[c] \in {"probe3", "probe4"} => ReadIn(I, <<"status", s.head>>, s.status)
  <2>1. Confirmed(c)
    BY <1>1, <1>9 DEF Fresh
  <2>2. Reusable(s) /\ snapshot \in {None, s}
    BY <1>6, <2>1 DEF Confirmed
  <2>3. ReadIn(I, Pull, s.head) /\ ChecksMatch(s)
    <3>1. CASE pc[c] = "probe1"
      <4>1. Asked(c) = Pull
        BY <1>1, <3>1, AskedIs
      <4>2. Matches(Pull, s.head)
        BY <2>2 DEF Reusable
      <4>3. s.head = PullHead(now)
        BY <1>3, <4>1, <4>2 DEF Matches, PullHead, Pull
      <4> QED BY <1>8, <2>2, <4>1, <4>2, <4>3 DEF Reusable
    <3>2. CASE pc[c] # "probe1"
      BY <1>6, <2>1, <3>2 DEF Confirmed
    <3> QED BY <3>1, <3>2
  <2>4. ASSUME pc[c] \in {"probe2", "probe3", "probe4"}
        PROVE  ReadIn(I, <<"runs", s.head>>, s.runs)
    <3>1. CASE pc[c] = "probe2"
      BY <1>1, <1>6, <1>8, <2>3, <3>1, AskedIs DEF ChecksMatch
    <3>2. CASE pc[c] # "probe2"
      BY <1>6, <2>1, <2>4, <3>2 DEF Confirmed
    <3> QED BY <3>1, <3>2
  <2>5. ASSUME pc[c] \in {"probe3", "probe4"}
        PROVE  ReadIn(I, <<"status", s.head>>, s.status)
    <3>1. CASE pc[c] = "probe3"
      BY <1>1, <1>6, <1>8, <2>3, <3>1, AskedIs DEF ChecksMatch
    <3>2. CASE pc[c] # "probe3"
      BY <1>6, <2>1, <2>5, <3>2 DEF Confirmed
    <3> QED BY <3>1, <3>2
  <2> QED BY <2>2, <2>3, <2>4, <2>5
<1>10. /\ pc'[c] = "probe3" => pc[c] = "probe2"
       /\ pc'[c] = "probe4" => pc[c] = "probe3"
       /\ pc'[c] = "idle" => pc[c] = "probe4"
  BY <1>1, <1>2, AskedIs DEF Probing
<1>11. /\ s = previous'[c] /\ I = (began[c]..Len(past))'
       /\ Reusable(s) => Reusable(s)'
       /\ ChecksMatch(s) => ChecksMatch(s)'
       /\ \A e, v : ReadIn(I, e, v) => ReadIn(I, e, v)'
  BY <1>2, <1>3, <1>6 DEF Reusable, ChecksMatch, Matches, Seen, ReadIn
<1>12. ASSUME ~apart, pc'[c] \in Probing PROVE Confirmed(c)'
  <2>1. /\ Reusable(s)' /\ snapshot' \in {None, s}
        /\ ReadIn(I, Pull, s.head)' /\ ChecksMatch(s)'
        /\ pc'[c] \in {"probe3", "probe4"} => ReadIn(I, <<"runs", s.head>>, s.runs)'
        /\ pc'[c] = "probe4" => ReadIn(I, <<"status", s.head>>, s.status)'
    BY <1>2, <1>9, <1>10, <1>11, <1>12
  <2> QED BY <1>11, <2>1 DEF Confirmed
<1>13. ASSUME ~apart, Answered(c)' PROVE TrueDuring(answer[c], began[c]..Len(past))'
  <2>1. pc'[c] = "idle" /\ pc[c] = "probe4" /\ answer'[c] = s
    BY <1>2, <1>6, <1>10, <1>13 DEF Answered, At
  <2>2. /\ ReadIn(I, Pull, s.head)' /\ ReadIn(I, <<"runs", s.head>>, s.runs)'
        /\ ReadIn(I, <<"status", s.head>>, s.status)'
    BY <1>9, <1>11, <1>13, <2>1
  <2> QED BY <1>11, <2>1, <2>2 DEF TrueDuring, ReadIn, Pull
<1>14. ASSUME ~apart, snapshot' # None PROVE Reusable(snapshot)'
  BY <1>2, <1>9, <1>11, <1>14 DEF Reusable, ChecksMatch, Matches, Seen
<1> QED BY <1>2, <1>5, <1>12, <1>13, <1>14 DEF Fresh

LEMMA FreshReadPr ==
    ASSUME FreshInvariant, NEW c \in Caller, ReadPr(c) PROVE Fresh(c)'
<1> USE DEF ReadPr, Goto, At
<1>1. SnapshotInvariant /\ Shape /\ TypeOK /\ Fresh(c)
  BY DEF FreshInvariant, SnapshotInvariant, Shape
<1>2. pc'[c] = "checks" /\ UNCHANGED <<past, etags, snapshot>> /\ now' = now
  BY <1>1 DEF TypeOK, now
<1>3. Pull \in Endpoint /\ Receive(c, Pull)
  BY <1>1, Current, PlaceKinds DEF Pull, Shape, TypeOK, Endpoint
<1>4. DOMAIN got'[c] = {Pull} /\ got'[c][Pull] = now[Pull]
  BY <1>1, <1>3, Received DEF SnapshotInvariant, Probed
<1>5. ReadLater(c)'
  BY <1>2, <1>4 DEF ReadLater, ReadHead, PullHead, Matches, Pull
<1>6. snapshot' # None => Seen(Pull, snapshot.head)'
  BY <1>1, <1>2 DEF Fresh, Seen
<1> QED BY <1>2, <1>5, <1>6 DEF Fresh, Answered, Probing

LEMMA FreshReadChecks ==
    ASSUME FreshInvariant, NEW c \in Caller, ReadChecks(c) PROVE Fresh(c)'
<1> USE DEF ReadChecks, Goto, At
<1>1. SnapshotInvariant /\ Shape /\ TypeOK /\ Fresh(c) /\ Reading(c) /\ pc[c] = "checks"
  BY DEF FreshInvariant, SnapshotInvariant, Shape
<1>2. pc'[c] \in {"checks", "again"} /\ UNCHANGED <<past, etags, snapshot>> /\ now' = now
  BY <1>1 DEF TypeOK, now
<1>3. PICK h \in Commit : h = ReadHead(c)
  BY <1>1, HeadIsCommit
<1>4. PICK e \in Endpoints(h) : Receive(c, e)
  BY <1>3
<1>5. e \in Endpoint /\ e # Pull
  BY <1>4, Places
<1>6. /\ DOMAIN got'[c] = DOMAIN got[c] \cup {e} /\ got'[c][e] = now[e]
      /\ \A x \in DOMAIN got[c] : x # e => got'[c][x] = got[c][x]
  BY <1>1, <1>4, <1>5, Received
<1>7. ReadHead(c)' = ReadHead(c)
  BY <1>1, <1>5, <1>6 DEF Reading, ReadHead, Pull
<1>8. ReadLater(c)'
  <2>1. ASSUME NEW x \in DOMAIN got'[c] \ {<<"protection", None>>}
        PROVE  (etags'[x] = now'[x] => got'[c][x] = now'[x])
    BY <1>1, <1>2, <1>6 DEF Fresh, ReadLater, Matches
  <2> QED BY <1>1, <1>2, <1>7, <2>1 DEF Fresh, ReadLater, Matches
<1>9. snapshot' # None => Seen(Pull, snapshot.head)'
  BY <1>1, <1>2 DEF Fresh, Seen
<1> QED BY <1>2, <1>8, <1>9 DEF Fresh, Answered, Probing

(* A full read ends: in a snapshot whose ETags are no newer than it, in a  *)
(* head that moved, or in a failure.                                       *)
LEMMA FreshReadAgain ==
    ASSUME FreshInvariant, NEW c \in Caller, ReadAgain(c) \/ ReadFails(c) PROVE Fresh(c)'
<1> USE DEF ReadAgain, ReadFails, Goto, At
<1>1. SnapshotInvariant /\ Shape /\ TypeOK /\ Fresh(c) /\ Reading(c)
  BY DEF FreshInvariant, SnapshotInvariant, Shape
<1>2. pc'[c] = "idle" /\ UNCHANGED <<past, etags, got, began>> /\ now' = now
  BY <1>1 DEF TypeOK, now
<1>3. ReadLater(c)'
  BY <1>2 DEF ReadLater
<1>4. CASE ReadFails(c)
  <2>1. snapshot' = snapshot /\ apart' = TRUE
    BY <1>4
  <2>2. snapshot' # None => Seen(Pull, snapshot.head)'
    BY <1>1, <1>2, <2>1 DEF Fresh, Seen
  <2> QED BY <1>3, <2>1, <2>2 DEF Fresh
<1>5. CASE ReadAgain(c) /\ PullHead(now) # ReadHead(c) /\ UNCHANGED <<snapshot, apart>>
           /\ answer' = [answer EXCEPT ![c] = Failed]
  <2>1. pc[c] = "again" /\ answer'[c] = Failed
    BY <1>1, <1>5 DEF TypeOK
  <2>2. ~Answered(c)'
    BY <2>1 DEF Answered
  <2>3. snapshot' # None => Seen(Pull, snapshot.head)'
    BY <1>1, <1>2, <1>5 DEF Fresh, Seen
  <2>4. ASSUME snapshot # None PROVE Reusable(snapshot)'
    <3>1. Seen(Pull, snapshot.head) /\ PullHead(now) # snapshot.head
      BY <1>1, <1>5, <2>1, <2>4 DEF Fresh, ReadLater
    <3>2. Matches(Pull, ReadHead(c))
      <4>1. Pull \in DOMAIN got[c] \ {<<"protection", None>>} /\ got[c][Pull] = ReadHead(c)
        BY <1>1, <2>1, ReadWhole DEF Pull, ReadHead
      <4> QED BY <1>1, <2>1, <4>1 DEF Fresh, ReadLater
    <3>3. Matches(Pull, snapshot.head)
      BY <1>5, <3>2 DEF Matches, PullHead, Pull
    <3> QED BY <1>2, <1>5, <3>1, <3>3 DEF Reusable, Matches, Seen
  <2> QED BY <1>2, <1>3, <1>5, <2>2, <2>3, <2>4 DEF Fresh, Probing
<1>6. CASE ReadAgain(c) /\ PullHead(now) = ReadHead(c)
           /\ snapshot' = Snapshot(ReadHead(c), got[c]) /\ apart' = FALSE
           /\ answer' = [answer EXCEPT ![c] = snapshot']
  <2>1. PICK h, s : h = ReadHead(c) /\ s = Snapshot(ReadHead(c), got[c])
    OBVIOUS
  <2>2. /\ h \in Commit /\ s.head = h /\ got[c][Pull] = h
        /\ s.runs = got[c][<<"runs", h>>] /\ s.status = got[c][<<"status", h>>]
        /\ {Pull, <<"runs", h>>, <<"status", h>>} \subseteq DOMAIN got[c]
    BY <1>1, <1>6, <2>1, ReadWhole
  <2>3. pc[c] = "again" /\ snapshot' = s /\ answer'[c] = s
    BY <1>1, <1>6, <2>1 DEF TypeOK
  <2>4. \A e \in {Pull, <<"runs", h>>, <<"status", h>>} : Matches(e, got[c][e])
    <3>1. {Pull, <<"runs", h>>, <<"status", h>>} \subseteq DOMAIN got[c] \ {<<"protection", None>>}
      BY <2>2 DEF Pull
    <3> QED BY <1>1, <2>3, <3>1 DEF Fresh, ReadLater
  <2>5. Seen(Pull, h)
    BY <1>1, <2>1, <2>3, HeadIsCommit
  <2>6. Reusable(s)
    BY <2>2, <2>4, <2>5 DEF Reusable, ChecksMatch
  <2>7. Reusable(snapshot)'
    BY <1>2, <2>3, <2>6 DEF Reusable, ChecksMatch, Matches, Seen
  <2>8. \A e \in {Pull, <<"runs", h>>, <<"status", h>>} :
          ReadIn(began[c]..Len(past), e, got[c][e])
    BY <1>1, <2>2, <2>3 DEF Reading
  <2>9. TrueDuring(s, began[c]..Len(past))
    BY <2>2, <2>8 DEF TrueDuring, ReadIn, Pull
  <2>10. TrueDuring(answer[c], began[c]..Len(past))'
    BY <1>2, <2>3, <2>9 DEF TrueDuring
  <2>11. snapshot' # None => Seen(Pull, snapshot.head)'
    BY <2>7 DEF Reusable
  <2> QED BY <1>2, <1>3, <2>7, <2>10, <2>11 DEF Fresh, Probing
<1> QED BY <1>4, <1>5, <1>6

LEMMA FreshStep == ASSUME OneCall PROVE FreshInvariant /\ [Next]_vars => FreshInvariant'
<1> SUFFICES ASSUME FreshInvariant, [Next]_vars, NEW d \in Caller PROVE Fresh(d)'
  BY SnapshotStep DEF FreshInvariant
<1>1. ASSUME NEW c \in Caller, Step(c) PROVE Fresh(c)'
  BY <1>1, FreshCall, FreshProbeUnchanged, FreshProbeEnds, FreshReadPr, FreshReadChecks,
     FreshReadAgain DEF Step
<1>2. CASE Push \/ CheckMoves \/ ProtectionMoves
  BY <1>2, GitHubMoves, FreshMoves DEF FreshInvariant, SnapshotInvariant
<1>3. CASE EvictSnapshot \/ EvictEtag \/ UNCHANGED vars
  BY <1>3, FreshEvictions
<1>4. \A c \in Caller : c = d
  BY DEF OneCall
<1> QED BY <1>1, <1>2, <1>3, <1>4 DEF Next

LEMMA FreshInit == Init => FreshInvariant
<1> SUFFICES ASSUME Init, NEW c \in Caller PROVE Fresh(c)
  BY SnapshotInit DEF FreshInvariant
<1> QED BY DEF Init, Fresh, ReadLater, Answered, Probing

(* nothingChanged: with one call at a time, and no full read that failed   *)
(* since the snapshot was made, every answer says of the head and its      *)
(* checks what GitHub said during the call, a reused one too.  An ETag     *)
(* kept by a probe is followed by a full read that is no older.            *)
THEOREM FreshAnswerHolds == ASSUME OneCall PROVE Spec => []FreshAnswer
<1>1. Spec => []FreshInvariant
  BY FreshInit, FreshStep, PTL DEF Spec
<1>2. FreshInvariant => FreshAnswer
  BY DEF FreshInvariant, Fresh, FreshAnswer
<1> QED BY <1>1, <1>2, PTL
=============================================================================
