------------------------- MODULE LevelEffectsProofs --------------------------
(***************************************************************************)
(* Proofs about LevelEffects, for every level, every set of effects, every *)
(* code of their positions and any number of clients: type correctness,    *)
(* and that the copies of the level agree.                                 *)
(***************************************************************************)
EXTENDS LevelEffects, SequenceTheorems, TLAPS

-----------------------------------------------------------------------------
(***************************************************************************)
(* The inductive invariant.  CopiesAgree speaks of a client that waits for *)
(* nothing; what holds of one that waits is that the events under way take *)
(* away what it lacks (NothingIsLost), or that it is still to be sent the  *)
(* list, which makes the whole level (ListMakesLevel).                     *)
(***************************************************************************)
NothingIsLost ==
  Exact => \A c \in Linked \ toInit : gone[Server] \subseteq gone[c] \cup TakenBy(toGame[c])

\* Nobody is in a session that is over.
OffWithoutHost == ~hosting => \A c \in Clients : status[c] \in {"off", "closed"}

\* A level is loaded fresh, and nothing is sent before the node is linked.
LoadedIsFresh ==
  \A c \in Clients :
    /\ status[c] \in {"off", "loaded"} => toGame[c] = <<>>
    /\ status[c] = "loaded" => gone[c] = {}

IInv ==
  /\ TypeOK /\ ListMakesLevel /\ NeverAhead /\ NothingIsLost
  /\ OffWithoutHost /\ LoadedIsFresh

-----------------------------------------------------------------------------
(***************************************************************************)
(* What a sequence of effects takes away.                                  *)
(***************************************************************************)
\* One more effect takes away what it takes by itself.
LEMMA TakenByAppend ==
  ASSUME NEW S, NEW s \in Seq(S), NEW h \in S
  PROVE  TakenBy(Append(s, h)) = TakenBy(s) \cup Takes(h.index, h.x)
<1>1. /\ Len(s) \in Nat /\ DOMAIN s = 1..Len(s)
      /\ DOMAIN Append(s, h) = 1..Len(s) + 1
      /\ Append(s, h)[Len(s) + 1] = h
      /\ \A i \in 1..Len(s) : Append(s, h)[i] = s[i]
  BY AppendProperties, LenProperties
<1>2. DOMAIN Append(s, h) = DOMAIN s \cup {Len(s) + 1}
  BY <1>1
<1>3. QED
  BY <1>1, <1>2 DEF TakenBy

\* Two sequences take away what each of them takes.
LEMMA TakenByConcat ==
  ASSUME NEW S, NEW s \in Seq(S), NEW t \in Seq(S)
  PROVE  TakenBy(s \o t) = TakenBy(s) \cup TakenBy(t)
<1>1. /\ Len(s) \in Nat /\ DOMAIN s = 1..Len(s)
      /\ Len(t) \in Nat /\ DOMAIN t = 1..Len(t)
      /\ s \o t \in Seq(S) /\ Len(s \o t) = Len(s) + Len(t)
      /\ \A i \in 1..Len(s) + Len(t) :
           (s \o t)[i] = IF i <= Len(s) THEN s[i] ELSE t[i - Len(s)]
  BY ConcatProperties, LenProperties
<1>2. DOMAIN (s \o t) = 1..Len(s) + Len(t)
  BY <1>1, LenProperties
<1>3. \A i \in DOMAIN s : i \in DOMAIN (s \o t) /\ (s \o t)[i] = s[i]
  BY <1>1, <1>2
<1>4. \A i \in DOMAIN t :
        i + Len(s) \in DOMAIN (s \o t) /\ (s \o t)[i + Len(s)] = t[i]
  BY <1>1, <1>2
<1>5. \A i \in DOMAIN (s \o t) :
        \/ i \in DOMAIN s /\ (s \o t)[i] = s[i]
        \/ i - Len(s) \in DOMAIN t /\ (s \o t)[i] = t[i - Len(s)]
  BY <1>1, <1>2
<1>6. QED
  BY <1>3, <1>4, <1>5 DEF TakenBy

\* The first effect and those after it take away what all of them take.
LEMMA TakenByTail ==
  ASSUME NEW S, NEW s \in Seq(S), s # <<>>
  PROVE  TakenBy(s) = Takes(Head(s).index, Head(s).x) \cup TakenBy(Tail(s))
<1>1. /\ Len(s) \in Nat /\ Len(s) >= 1 /\ DOMAIN s = 1..Len(s)
      /\ Head(s) = s[1]
      /\ DOMAIN Tail(s) = 1..Len(s) - 1
      /\ \A i \in 1..Len(s) - 1 : Tail(s)[i] = s[i + 1]
  BY HeadTailProperties, LenProperties, EmptySeq
<1>2. \A i \in DOMAIN s : i = 1 \/ (i - 1 \in DOMAIN Tail(s) /\ Tail(s)[i - 1] = s[i])
  BY <1>1
<1>3. \A i \in DOMAIN Tail(s) : i + 1 \in DOMAIN s /\ Tail(s)[i] = s[i + 1]
  BY <1>1
<1>4. 1 \in DOMAIN s
  BY <1>1
<1>5. QED
  BY <1>1, <1>2, <1>3, <1>4 DEF TakenBy

\* An effect takes away nothing but dirt.
LEMMA TakesDirt == \A e, x : Takes(e, x) \subseteq Dirt
BY DEF Takes

\* No effects take nothing away.
LEMMA TakenByNone == TakenBy(<<>>) = {}
BY DEF TakenBy

\* An event has the form of one, and is the effect itself if its position
\* has a code.
LEMMA SentType == \A hole \in Hole : Sent(hole) \in Code
BY LevelAssumption DEF Sent, Hole, Code

\* The list that a client is sent takes away what the effects in it did.
LEMMA ReplayTakes ==
  ASSUME TypeOK
  PROVE  Replay \in Seq(Code) /\ (Exact => TakenBy(Replay) = TakenBy(appliedLevelEffects))
<1>1. /\ appliedLevelEffects \in Seq(Hole)
      /\ Len(appliedLevelEffects) \in Nat
      /\ DOMAIN appliedLevelEffects = 1..Len(appliedLevelEffects)
      /\ \A i \in DOMAIN appliedLevelEffects : appliedLevelEffects[i] \in Hole
  BY LenProperties, ElementOfSeq DEF TypeOK
<1>2. Replay \in [1..Len(appliedLevelEffects) -> Code]
  BY <1>1, SentType DEF Replay
<1>3. Replay \in Seq(Code)
  BY <1>1, <1>2, SeqDef
<1>4. DOMAIN Replay = DOMAIN appliedLevelEffects
  BY DEF Replay
<1>5. Exact => \A i \in DOMAIN Replay : Replay[i] = appliedLevelEffects[i]
  BY DEF Replay, Exact
<1>6. QED
  BY <1>3, <1>4, <1>5 DEF TakenBy

-----------------------------------------------------------------------------
(***************************************************************************)
(* Type correctness.                                                       *)
(***************************************************************************)
LEMMA InitTypeOK == Init => TypeOK
<1>1. <<>> \in Seq(Hole) /\ <<>> \in Seq(Code)
  BY EmptySeq
<1>2. QED
  BY <1>1 DEF Init, TypeOK, Statuses

LEMMA NextTypeOK == TypeOK /\ [Next]_vars => TypeOK'
<1> SUFFICES ASSUME TypeOK, [Next]_vars PROVE TypeOK'
  OBVIOUS
<1>1. ASSUME NEW m \in Machines, NEW e \in Effects, NEW x \in Positions,
             applyLevelEffect(m, e, x)
      PROVE  TypeOK'
  <2> DEFINE hole == [index |-> e, x |-> x]
  <2>1. hole \in Hole /\ Sent(hole) \in Code
    BY SentType DEF Hole
  <2>2. gone' \in [Machines -> SUBSET Dirt]
    BY <1>1, TakesDirt DEF applyLevelEffect, TypeOK
  <2>3. Append(appliedLevelEffects, hole) \in Seq(Hole)
    BY <2>1, AppendProperties DEF TypeOK
  <2>4. \A c \in Clients : Append(toGame[c], Sent(hole)) \in Seq(Code)
    BY <2>1, AppendProperties DEF TypeOK
  <2>5. appliedLevelEffects' \in Seq(Hole)
    BY <1>1, <2>3 DEF applyLevelEffect, TypeOK
  <2>6. toGame' \in [Clients -> Seq(Code)]
    BY <1>1, <2>4 DEF applyLevelEffect, TypeOK
  <2>7. QED
    BY <1>1, <2>2, <2>5, <2>6 DEF applyLevelEffect, TypeOK
<1>2. CASE EventInit
  <2>1. \A c \in Clients : toGame[c] \o Replay \in Seq(Code)
    BY ReplayTakes, ConcatProperties DEF TypeOK
  <2>2. QED
    BY <1>2, <2>1 DEF EventInit, TypeOK
<1>3. CASE StopHosting
  BY <1>3 DEF StopHosting, Close, TypeOK, Statuses
<1>4. ASSUME NEW host \in BOOLEAN, ChangeLevel(host) PROVE TypeOK'
  <2>1. <<>> \in Seq(Hole)
    BY EmptySeq
  <2>2. QED
    BY <1>4, <2>1 DEF ChangeLevel, TypeOK, Machines
<1>5. ASSUME NEW c \in Clients, Client(c) PROVE TypeOK'
  <2>1. CASE ConnectResult(c)
    BY <2>1 DEF ConnectResult, TypeOK, Statuses, Machines
  <2>2. CASE ZoidResult(c)
    BY <2>2 DEF ZoidResult, TypeOK, Statuses
  <2>3. CASE eHole(c)
    <3>1. Tail(toGame[c]) \in Seq(Code)
      BY <2>3, HeadTailProperties DEF eHole, TypeOK
    <3>2. gone' \in [Machines -> SUBSET Dirt]
      BY <2>3, TakesDirt DEF eHole, TypeOK
    <3>3. QED
      BY <2>3, <3>1, <3>2 DEF eHole, TypeOK
  <2>4. CASE ConnectionClosed(c)
    BY <2>4 DEF ConnectionClosed, Close, TypeOK, Statuses
  <2>5. CASE Disconnected(c)
    <3>1. <<>> \in Seq(Code)
      BY EmptySeq
    <3>2. QED
      BY <2>5, <3>1 DEF Disconnected, TypeOK, Statuses
  <2>6. QED
    BY <1>5, <2>1, <2>2, <2>3, <2>4, <2>5 DEF Client
<1>6. CASE UNCHANGED vars
  BY <1>6 DEF vars, TypeOK
<1>7. QED
  BY <1>1, <1>2, <1>3, <1>4, <1>5, <1>6 DEF Next, Apply, Host

\* The variables have their types: no copy loses anything but dirt, and what
\* is sent has the form of an effect.
THEOREM SpecTypeOK == Spec => []TypeOK
BY InitTypeOK, NextTypeOK, PTL DEF Spec

-----------------------------------------------------------------------------
(***************************************************************************)
(* The copies agree.                                                       *)
(***************************************************************************)
LEMMA InitIInv == Init => IInv
<1>1. Init => TypeOK
  BY InitTypeOK
<1>2. QED
  BY <1>1, TakenByNone
  DEF Init, IInv, ListMakesLevel, NeverAhead, NothingIsLost, OffWithoutHost,
      LoadedIsFresh, Linked, Machines

\* An effect on the server takes the same from every linked client, now or
\* when its event arrives.
LEMMA ApplyIInv ==
  ASSUME IInv, NEW m \in Machines, NEW e \in Effects, NEW x \in Positions,
         applyLevelEffect(m, e, x)
  PROVE  IInv'
<1> DEFINE hole == [index |-> e, x |-> x]
<1> USE DEF isClient
<1>1. TypeOK /\ TypeOK'
  <2>1. Next
    BY DEF Next, Apply
  <2>2. QED
    BY <2>1, NextTypeOK DEF IInv
<1>2. hole \in Hole /\ Sent(hole) \in Code
  BY SentType DEF Hole
<1>3. Server \in Machines /\ Server \notin Clients /\ Clients \subseteq Machines
  BY LevelAssumption DEF Machines
<1>4. Linked' = Linked /\ toInit' = toInit /\ hosting' = hosting /\ status' = status
  BY DEF applyLevelEffect, Linked
<1>5. CASE m = Server /\ hosting /\ ~(Takes(e, x) \subseteq gone[m])
  <2>1. /\ appliedLevelEffects' = Append(appliedLevelEffects, hole)
        /\ toGame' = [c \in Clients |->
             IF c \in Linked THEN Append(toGame[c], Sent(hole)) ELSE toGame[c]]
        /\ gone' = [gone EXCEPT ![Server] = @ \cup Takes(e, x)]
    BY <1>5 DEF applyLevelEffect
  <2>2. /\ gone'[Server] = gone[Server] \cup Takes(e, x)
        /\ \A c \in Clients : gone'[c] = gone[c]
    BY <1>1, <1>3, <2>1 DEF TypeOK
  <2>3. TakenBy(appliedLevelEffects') = TakenBy(appliedLevelEffects) \cup Takes(e, x)
    BY <1>1, <1>2, <2>1, TakenByAppend DEF TypeOK
  <2>4. Exact' => Exact /\ Sent(hole) = hole
    <3>1. /\ Len(appliedLevelEffects) \in Nat
          /\ DOMAIN appliedLevelEffects = 1..Len(appliedLevelEffects)
          /\ DOMAIN appliedLevelEffects' = 1..Len(appliedLevelEffects) + 1
          /\ appliedLevelEffects'[Len(appliedLevelEffects) + 1] = hole
          /\ \A i \in 1..Len(appliedLevelEffects) :
               appliedLevelEffects'[i] = appliedLevelEffects[i]
      BY <1>1, <1>2, <2>1, AppendProperties, LenProperties DEF TypeOK
    <3>2. \A i \in DOMAIN appliedLevelEffects :
            i \in DOMAIN appliedLevelEffects' /\ appliedLevelEffects'[i] = appliedLevelEffects[i]
      BY <3>1
    <3>3. Len(appliedLevelEffects) + 1 \in DOMAIN appliedLevelEffects'
      BY <3>1
    <3>4. QED
      BY <3>1, <3>2, <3>3 DEF Exact, Sent
  <2>5. ASSUME NEW c \in Linked
        PROVE  TakenBy(toGame'[c]) = TakenBy(toGame[c]) \cup Takes(Sent(hole).index, Sent(hole).x)
    BY <1>1, <1>2, <2>1, TakenByAppend DEF TypeOK, Linked
  <2>6. Exact' => \A c \in Linked : TakenBy(toGame'[c]) = TakenBy(toGame[c]) \cup Takes(e, x)
    BY <2>4, <2>5
  <2>7. ListMakesLevel'
    BY <1>5, <2>2, <2>3 DEF IInv, ListMakesLevel
  <2>8. NeverAhead'
    BY <1>4, <2>2, <2>4, <2>6 DEF IInv, NeverAhead, Linked
  <2>9. NothingIsLost'
    BY <1>4, <2>2, <2>4, <2>6 DEF IInv, NothingIsLost, Linked
  <2>10. OffWithoutHost' /\ LoadedIsFresh'
    <3>1. \A c \in Clients : status[c] \in {"off", "loaded"} => c \notin Linked
      BY DEF Linked
    <3>2. QED
      BY <1>4, <2>1, <2>2, <3>1 DEF IInv, OffWithoutHost, LoadedIsFresh
  <2>11. QED
    BY <1>1, <2>7, <2>8, <2>9, <2>10 DEF IInv
<1>6. CASE ~(m = Server /\ hosting /\ ~(Takes(e, x) \subseteq gone[m]))
  <2>1. UNCHANGED <<toGame, appliedLevelEffects>>
    BY <1>6 DEF applyLevelEffect
  <2>2. \A c \in Clients : status[c] # "off" => gone'[c] = gone[c]
    BY <1>1, <1>3 DEF applyLevelEffect, TypeOK
  <2>3. hosting => gone'[Server] = gone[Server]
    BY <1>1, <1>3, <1>6 DEF applyLevelEffect, TypeOK
  <2>4. ~hosting => Linked = {}
    BY DEF IInv, OffWithoutHost, Linked
  <2>5. Exact' = Exact
    BY <2>1 DEF Exact
  <2>6. ListMakesLevel'
    BY <1>4, <2>1, <2>3 DEF IInv, ListMakesLevel
  <2>7. NeverAhead' /\ NothingIsLost'
    BY <1>4, <2>1, <2>2, <2>3, <2>4, <2>5
    DEF IInv, NeverAhead, NothingIsLost, Linked
  <2>8. OffWithoutHost' /\ LoadedIsFresh'
    BY <1>4, <2>1, <2>2 DEF IInv, OffWithoutHost, LoadedIsFresh
  <2>9. QED
    BY <1>1, <2>6, <2>7, <2>8 DEF IInv
<1>7. QED
  BY <1>5, <1>6

\* The list makes up for what a client missed before its node was linked.
LEMMA EventInitIInv == IInv /\ EventInit => IInv'
<1> SUFFICES ASSUME IInv, EventInit PROVE IInv'
  OBVIOUS
<1>1. TypeOK /\ TypeOK'
  BY NextTypeOK DEF IInv, Next, Host
<1>2. /\ UNCHANGED <<gone, appliedLevelEffects, hosting, status>> /\ toInit' = {}
      /\ Linked' = Linked /\ Exact' = Exact
  BY DEF EventInit, Linked, Exact
<1>3. ~hosting => Linked = {}
  BY DEF IInv, OffWithoutHost, Linked
<1>4. ASSUME NEW c \in Linked \cap toInit, Exact
      PROVE  TakenBy(toGame'[c]) = TakenBy(toGame[c]) \cup gone[Server]
  <2>1. toGame'[c] = toGame[c] \o Replay
    BY DEF EventInit, Linked
  <2>2. toGame[c] \in Seq(Code) /\ Replay \in Seq(Code)
    BY <1>1, ReplayTakes DEF TypeOK, Linked
  <2>3. TakenBy(Replay) = gone[Server]
    BY <1>1, <1>3, <1>4, ReplayTakes DEF IInv, ListMakesLevel
  <2>4. QED
    BY <2>1, <2>2, <2>3, TakenByConcat
<1>5. \A c \in Linked \ toInit : toGame'[c] = toGame[c]
  BY DEF EventInit, Linked
<1>6. ListMakesLevel' /\ OffWithoutHost'
  BY <1>2 DEF IInv, ListMakesLevel, OffWithoutHost, TakenBy
<1>7. NeverAhead'
  BY <1>2, <1>4, <1>5 DEF IInv, NeverAhead
<1>8. NothingIsLost'
  BY <1>2, <1>4, <1>5 DEF IInv, NothingIsLost
<1>9. LoadedIsFresh'
  BY <1>2 DEF EventInit, IInv, LoadedIsFresh, Linked
<1>10. QED
  BY <1>1, <1>6, <1>7, <1>8, <1>9 DEF IInv

\* No client is linked when the server changes the level.
LEMMA ServerIInv ==
  ASSUME IInv, NEW host \in BOOLEAN, StopHosting \/ ChangeLevel(host)
  PROVE  IInv'
<1>1. TypeOK /\ TypeOK'
  BY NextTypeOK DEF IInv, Next, Host
<1>2. Server \in Machines /\ Server \notin Clients
  BY LevelAssumption DEF Machines
<1>3. CASE StopHosting
  <2>1. Linked' = {}
    BY <1>1, <1>3 DEF StopHosting, Close, Linked, TypeOK
  <2>2. \A c \in Clients : status'[c] \in {"off", "closed"}
                           /\ (status'[c] = "off" => status[c] = "off")
    BY <1>1, <1>3 DEF StopHosting, Close, TypeOK
  <2>3. QED
    BY <1>1, <1>3, <2>1, <2>2
    DEF StopHosting, IInv, ListMakesLevel, NeverAhead, NothingIsLost,
        OffWithoutHost, LoadedIsFresh
<1>4. CASE ChangeLevel(host)
  <2>1. Linked' = {}
    BY <1>4 DEF ChangeLevel, IInv, OffWithoutHost, Linked
  <2>2. gone'[Server] = {} /\ \A c \in Clients : gone'[c] = gone[c]
    BY <1>1, <1>2, <1>4 DEF ChangeLevel, TypeOK
  <2>3. TakenBy(appliedLevelEffects') = {}
    BY <1>4, TakenByNone DEF ChangeLevel
  <2>4. QED
    BY <1>1, <1>4, <2>1, <2>2, <2>3
    DEF ChangeLevel, IInv, ListMakesLevel, NeverAhead, NothingIsLost,
        OffWithoutHost, LoadedIsFresh
<1>5. QED
  BY <1>3, <1>4

\* An event takes from a client what was counted as under way to it; the
\* other steps of a client leave it with nothing, or out of the session.
LEMMA ClientIInv ==
  ASSUME IInv, NEW c \in Clients, Client(c)
  PROVE  IInv'
<1>1. TypeOK /\ TypeOK'
  BY NextTypeOK DEF IInv, Next
<1>2. Server \in Machines /\ Server \notin Clients /\ c \in Machines /\ c # Server
  BY LevelAssumption DEF Machines
<1>3. ASSUME UNCHANGED <<gone, appliedLevelEffects, hosting>>
      PROVE  ListMakesLevel' /\ Exact' = Exact
  BY <1>3 DEF IInv, ListMakesLevel, Exact, TakenBy
<1>4. CASE ConnectResult(c)
  <2>1. gone' = [gone EXCEPT ![c] = {}] /\ status' = [status EXCEPT ![c] = "loaded"]
        /\ hosting /\ status[c] = "off"
        /\ UNCHANGED <<appliedLevelEffects, hosting, toInit, toGame>>
    BY <1>4 DEF ConnectResult
  <2>2. Linked' = Linked /\ c \notin Linked
    BY <1>1, <2>1 DEF Linked, TypeOK
  <2>3. gone'[c] = {} /\ \A m \in Machines : m # c => gone'[m] = gone[m]
    BY <1>1, <1>2, <2>1 DEF TypeOK
  <2>4. Linked \subseteq Machines
    BY DEF Linked, Machines
  <2>5. NeverAhead' /\ NothingIsLost' /\ ListMakesLevel'
    BY <1>2, <2>1, <2>2, <2>3, <2>4
    DEF IInv, NeverAhead, NothingIsLost, ListMakesLevel, Exact, TakenBy
  <2>6. OffWithoutHost' /\ LoadedIsFresh'
    BY <1>1, <2>1, <2>3 DEF IInv, OffWithoutHost, LoadedIsFresh, TypeOK, Machines
  <2>7. QED
    BY <1>1, <2>5, <2>6 DEF IInv
<1>5. CASE ZoidResult(c)
  <2>1. /\ status[c] = "loaded" /\ status' = [status EXCEPT ![c] = "linked"]
        /\ toInit' = toInit \cup {c}
        /\ UNCHANGED <<gone, appliedLevelEffects, hosting, toGame>>
    BY <1>5 DEF ZoidResult
  <2>2. Linked' = Linked \cup {c}
    BY <1>1, <2>1 DEF Linked, TypeOK
  <2>3. gone[c] = {} /\ toGame[c] = <<>> /\ hosting
    BY <2>1 DEF IInv, LoadedIsFresh, OffWithoutHost
  <2>4. NeverAhead' /\ NothingIsLost'
    BY <1>3, <2>1, <2>2, <2>3, TakenByNone DEF IInv, NeverAhead, NothingIsLost
  <2>5. OffWithoutHost' /\ LoadedIsFresh'
    BY <1>1, <2>1, <2>3 DEF IInv, OffWithoutHost, LoadedIsFresh, TypeOK
  <2>6. QED
    BY <1>1, <1>3, <2>1, <2>4, <2>5 DEF IInv
<1>6. CASE eHole(c)
  <2> DEFINE h == Head(toGame[c])
  <2>1. /\ status[c] \in {"linked", "closed"} /\ toGame[c] # <<>>
        /\ gone' = [gone EXCEPT ![c] = @ \cup Takes(h.index, h.x)]
        /\ toGame' = [toGame EXCEPT ![c] = Tail(@)]
        /\ UNCHANGED <<appliedLevelEffects, hosting, toInit, status>>
    BY <1>6 DEF eHole
  <2>2. TakenBy(toGame[c]) = Takes(h.index, h.x) \cup TakenBy(toGame'[c])
    BY <1>1, <2>1, TakenByTail DEF TypeOK
  <2>3. /\ gone'[c] = gone[c] \cup Takes(h.index, h.x) /\ gone'[Server] = gone[Server]
        /\ \A d \in Clients : d # c => gone'[d] = gone[d] /\ toGame'[d] = toGame[d]
    BY <1>1, <1>2, <2>1 DEF TypeOK, Machines
  <2>4. gone'[c] \cup TakenBy(toGame'[c]) = gone[c] \cup TakenBy(toGame[c])
    BY <2>2, <2>3
  <2>5. Linked' = Linked /\ Linked \subseteq Clients /\ Exact' = Exact
    BY <2>1 DEF Linked, Exact
  <2>6. \A d \in Linked : gone'[d] \cup TakenBy(toGame'[d]) = gone[d] \cup TakenBy(toGame[d])
    BY <2>3, <2>4, <2>5
  <2>7. NeverAhead' /\ NothingIsLost'
    BY <2>1, <2>3, <2>5, <2>6 DEF IInv, NeverAhead, NothingIsLost
  <2>8. ListMakesLevel' /\ OffWithoutHost' /\ LoadedIsFresh'
    BY <2>1, <2>3 DEF IInv, ListMakesLevel, OffWithoutHost, LoadedIsFresh, TakenBy
  <2>9. QED
    BY <1>1, <2>7, <2>8 DEF IInv
<1>7. CASE ConnectionClosed(c)
  <2>1. /\ UNCHANGED <<gone, appliedLevelEffects, hosting, toInit, toGame>>
        /\ status[c] # "off"
        /\ status' = [status EXCEPT ![c] = "closed"]
    BY <1>1, <1>7 DEF ConnectionClosed, Close, TypeOK
  <2>2. Linked' = Linked \ {c}
    BY <1>1, <2>1 DEF Linked, TypeOK
  <2>3. NeverAhead' /\ NothingIsLost'
    BY <1>3, <2>1, <2>2 DEF IInv, NeverAhead, NothingIsLost
  <2>4. OffWithoutHost' /\ LoadedIsFresh'
    BY <1>1, <2>1 DEF IInv, OffWithoutHost, LoadedIsFresh, TypeOK
  <2>5. QED
    BY <1>1, <1>3, <2>1, <2>3, <2>4 DEF IInv
<1>8. CASE Disconnected(c)
  <2>1. /\ UNCHANGED <<gone, appliedLevelEffects, hosting, toInit>>
        /\ status[c] = "closed"
        /\ status' = [status EXCEPT ![c] = "off"] /\ toGame' = [toGame EXCEPT ![c] = <<>>]
    BY <1>8 DEF Disconnected
  <2>2. Linked' = Linked /\ \A d \in Linked : toGame'[d] = toGame[d]
    BY <1>1, <2>1 DEF Linked, TypeOK
  <2>3. NeverAhead' /\ NothingIsLost'
    BY <1>3, <2>1, <2>2 DEF IInv, NeverAhead, NothingIsLost
  <2>4. OffWithoutHost' /\ LoadedIsFresh'
    BY <1>1, <2>1 DEF IInv, OffWithoutHost, LoadedIsFresh, TypeOK
  <2>5. QED
    BY <1>1, <1>3, <2>1, <2>3, <2>4 DEF IInv
<1>9. QED
  BY <1>4, <1>5, <1>6, <1>7, <1>8 DEF Client

LEMMA NextIInv == IInv /\ [Next]_vars => IInv'
<1> SUFFICES ASSUME IInv, [Next]_vars PROVE IInv'
  OBVIOUS
<1>1. CASE Apply
  BY <1>1, ApplyIInv DEF Apply
<1>2. CASE Host
  BY <1>2, EventInitIInv, ServerIInv DEF Host
<1>3. ASSUME NEW c \in Clients, Client(c) PROVE IInv'
  BY <1>3, ClientIInv
<1>4. CASE UNCHANGED vars
  BY <1>4 DEF vars, IInv, TypeOK, ListMakesLevel, NeverAhead, NothingIsLost,
              OffWithoutHost, LoadedIsFresh, Exact, Linked, TakenBy
<1>5. QED
  BY <1>1, <1>2, <1>3, <1>4 DEF Next

LEMMA SpecIInv == Spec => []IInv
BY InitIInv, NextIInv, PTL DEF Spec

\* The list that a joining client is sent makes the server's level.
THEOREM SpecListMakesLevel == Spec => []ListMakesLevel
<1>1. IInv => ListMakesLevel
  BY DEF IInv
<1>2. QED
  BY <1>1, SpecIInv, PTL

\* No client shows a hole that is not on the server, or is on its way to.
THEOREM SpecNeverAhead == Spec => []NeverAhead
<1>1. IInv => NeverAhead
  BY DEF IInv
<1>2. QED
  BY <1>1, SpecIInv, PTL

\* A linked client that waits for nothing has the server's level.
THEOREM SpecCopiesAgree == Spec => []CopiesAgree
<1>1. IInv => CopiesAgree
  BY TakenByNone DEF IInv, CopiesAgree, NeverAhead, NothingIsLost
<1>2. QED
  BY <1>1, SpecIInv, PTL

=============================================================================
