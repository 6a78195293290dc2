----------------------------- MODULE LevelEffects -----------------------------
(***************************************************************************)
(* The copies of the level that the machines of a game hold, and the       *)
(* effects that take dirt away from them: Game::applyLevelEffect and the   *)
(* events of the game's node (Goop/game.cpp), Level::applyEffect           *)
(* (Goop/level.cpp), and a client's way into a game (Goop/client.cpp).     *)
(*                                                                         *)
(* Only the server applies the effects of the game.  It sends each one     *)
(* that took dirt away to the clients whose node is linked to its own, and *)
(* keeps it in appliedLevelEffects, from which a client that has just been *)
(* linked is sent them all.                                                *)
(*                                                                         *)
(* A level is one row of pixels, and an effect is at one coordinate.  What  *)
(* its code does to the coordinate is a parameter, ArrivesAt; the runs     *)
(* take it from Encoding.  The dirt is what an effect may take away; water,      *)
(* which flows through the holes, takes none.  The events of one node      *)
(* reach one machine in order and without loss (eZCom_ReliableOrdered)     *)
(* while the connection lasts.                                             *)
(***************************************************************************)
EXTENDS Integers, Sequences

CONSTANTS
  Server, Clients,
  Dirt,              \* the pixels of destroyable material of a fresh level
  Effects,           \* levelEffectList
  Mask,              \* the pixels of an effect, from its pivot
  Positions,         \* where objects apply effects
  ArrivesAt          \* level.intVectorEncoding: where a client has them

ASSUME LevelAssumption ==
  /\ Server \notin Clients
  /\ Dirt \subseteq Int /\ Mask \in [Effects -> SUBSET Int] 
  /\ Positions \subseteq Int /\ ArrivesAt \in [Positions -> Int]

Machines == {Server} \cup Clients

VARIABLES
  gone,              \* the dirt that has been taken from each copy
  appliedLevelEffects,
  hosting,           \* network.isHost(), and m_node of the server's game
  toInit,            \* the clients of eZCom_EventInit in m_node's queue; one
                     \* that is there twice is sent the same events twice
  status,            \* of a client: off the network; connected, its level
                     \* loaded; its node linked; or its session over
  toGame             \* the eHole events under way to a client's node

vars == <<gone, appliedLevelEffects, hosting, toInit, status, toGame>>
Statuses == {"off", "loaded", "linked", "closed"}
Hole     == [index : Effects, x : Positions]
Code     == [index : Effects, x : Int]

-----------------------------------------------------------------------------
(***************************************************************************)
(* An eHole event, and what Level::applyEffect takes away.                 *)
(***************************************************************************)
Sent(hole) == [index |-> hole.index, x |-> ArrivesAt[hole.x]]
\* Mutant: whatever is under the mask goes, dirt or not.
TakesAll(effect, x) == {x + d : d \in Mask[effect]}
Takes(effect, x) == {x + d : d \in Mask[effect]} \cap Dirt

Linked == {c \in Clients : status[c] = "linked"}
isClient(m) == m \in Clients /\ status[m] # "off"

-----------------------------------------------------------------------------
Init ==
  /\ gone = [m \in Machines |-> {}] /\ appliedLevelEffects = <<>>
  /\ hosting = FALSE /\ toInit = {}
  /\ status = [c \in Clients |-> "off"] /\ toGame = [c \in Clients |-> <<>>]

(***************************************************************************)
(* Game::applyLevelEffect, called by the script of an object.  A client    *)
(* off the network plays on in the level it has loaded.                    *)
(***************************************************************************)
applyLevelEffect(m, effect, x) ==
  /\ ~isClient(m)
  /\ gone' = [gone EXCEPT ![m] = @ \cup Takes(effect, x)]
  /\ LET hole == [index |-> effect, x |-> x]
     IN  IF m = Server /\ hosting /\ ~(Takes(effect, x) \subseteq gone[m])
         THEN /\ toGame' = [c \in Clients |->
                   IF c \in Linked THEN Append(toGame[c], Sent(hole)) ELSE toGame[c]]
              /\ appliedLevelEffects' = Append(appliedLevelEffects, hole)
         ELSE UNCHANGED <<toGame, appliedLevelEffects>>
  /\ UNCHANGED <<hosting, toInit, status>>

(***************************************************************************)
(* Game::think of the server: eZCom_EventInit for every client that was    *)
(* linked since the last tick.                                             *)
(***************************************************************************)
\* Mutant: the list is read up to its last entry but one.
ReplayButLast == [i \in 1..Len(appliedLevelEffects) - 1 |-> Sent(appliedLevelEffects[i])]
Replay == [i \in DOMAIN appliedLevelEffects |-> Sent(appliedLevelEffects[i])]
EventInit ==
  /\ toInit # {}
  /\ toGame' = [c \in Clients |->
       IF c \in toInit \cap Linked THEN toGame[c] \o Replay ELSE toGame[c]]
  /\ toInit' = {}
  /\ UNCHANGED <<gone, appliedLevelEffects, hosting, status>>

(***************************************************************************)
(* Game::think of a client: an eHole event that has arrived.               *)
(***************************************************************************)
eHole(c) ==
  /\ status[c] \in {"linked", "closed"} /\ toGame[c] # <<>>
  /\ LET hole == Head(toGame[c])
     IN  gone' = [gone EXCEPT ![c] = @ \cup Takes(hole.index, hole.x)]
  /\ toGame' = [toGame EXCEPT ![c] = Tail(@)]
  /\ UNCHANGED <<appliedLevelEffects, hosting, toInit, status>>

(***************************************************************************)
(* The server's ChangeLevel, which waits until the network is down:        *)
(* Game::changeLevel unloads the game, then network.host() if the variable *)
(* HOST is set.  A level played off the network is changed in the same way.*)
(***************************************************************************)
\* Mutant: the list of the level before is kept.
ChangeLevelKeepsList(host) ==
  /\ ~hosting
  /\ gone' = [gone EXCEPT ![Server] = {}]
  /\ hosting' = host
  /\ UNCHANGED <<appliedLevelEffects, toInit, status, toGame>>

ChangeLevel(host) ==
  /\ ~hosting
  /\ gone' = [gone EXCEPT ![Server] = {}]
  /\ appliedLevelEffects' = <<>>
  /\ hosting' = host
  /\ UNCHANGED <<toInit, status, toGame>>

(***************************************************************************)
(* The end of the server's session: the library and the node are deleted.  *)
(* A client may still find events that have arrived before; those that     *)
(* have not are lost (Disconnected).                                       *)
(***************************************************************************)
Close(C) ==
  status' = [c \in Clients |-> IF c \in C /\ status[c] # "off" THEN "closed" ELSE status[c]]

StopHosting ==
  /\ hosting /\ hosting' = FALSE
  /\ toInit' = {}
  /\ Close(Clients)
  /\ UNCHANGED <<gone, appliedLevelEffects, toGame>>

(***************************************************************************)
(* A client: its connect is accepted and the level loaded; it is in zoid   *)
(* mode and its node is linked; its connection ends; its session is over.  *)
(***************************************************************************)
\* Mutant: a client that has the level loaded does not load it again.
ConnectResultNoReload(c) ==
  /\ hosting /\ status[c] = "off"
  /\ status' = [status EXCEPT ![c] = "loaded"]
  /\ UNCHANGED <<gone, appliedLevelEffects, hosting, toInit, toGame>>

ConnectResult(c) ==
  /\ hosting /\ status[c] = "off"
  /\ gone' = [gone EXCEPT ![c] = {}]
  /\ status' = [status EXCEPT ![c] = "loaded"]
  /\ UNCHANGED <<appliedLevelEffects, hosting, toInit, toGame>>

\* Mutant: the game's node does not ask for eZCom_EventInit.
ZoidResultUnnoticed(c) ==
  /\ status[c] = "loaded"
  /\ status' = [status EXCEPT ![c] = "linked"]
  /\ UNCHANGED <<gone, appliedLevelEffects, hosting, toInit, toGame>>

ZoidResult(c) ==
  /\ status[c] = "loaded"
  /\ status' = [status EXCEPT ![c] = "linked"]
  /\ toInit' = toInit \cup {c}
  /\ UNCHANGED <<gone, appliedLevelEffects, hosting, toGame>>

ConnectionClosed(c) ==
  /\ status[c] \in {"loaded", "linked"}
  /\ Close({c})
  /\ UNCHANGED <<gone, appliedLevelEffects, hosting, toInit, toGame>>

Disconnected(c) ==
  /\ status[c] = "closed"
  /\ status' = [status EXCEPT ![c] = "off"]
  /\ toGame' = [toGame EXCEPT ![c] = <<>>]
  /\ UNCHANGED <<gone, appliedLevelEffects, hosting, toInit>>

-----------------------------------------------------------------------------
Apply == \E m \in Machines, e \in Effects, x \in Positions : applyLevelEffect(m, e, x)
Host  == \/ EventInit
         \/ StopHosting
         \/ \E host \in BOOLEAN : ChangeLevel(host)
Client(c) == \/ ConnectResult(c) \/ ZoidResult(c) \/ eHole(c)
             \/ ConnectionClosed(c) \/ Disconnected(c)

Next == Apply \/ Host \/ \E c \in Clients : Client(c)
Spec == Init /\ [][Next]_vars

(***************************************************************************)
(* The machines tick, and the library delivers.                            *)
(***************************************************************************)
Fairness == WF_vars(EventInit) /\ \A c \in Clients : WF_vars(eHole(c))
FairSpec == Spec /\ Fairness
-----------------------------------------------------------------------------
TypeOK ==
  /\ gone \in [Machines -> SUBSET Dirt]
  /\ appliedLevelEffects \in Seq(Hole)
  /\ hosting \in BOOLEAN /\ toInit \subseteq Clients
  /\ status \in [Clients -> Statuses]
  /\ toGame \in [Clients -> Seq(Code)]

(***************************************************************************)
(* The list that a joining client is sent makes the server's level, effect *)
(* for effect, out of a fresh one: nothing that was taken away before the  *)
(* server went on the network, after it, or while clients came and went is *)
(* missing from it, and nothing of an earlier level is left in it.         *)
(***************************************************************************)
TakenBy(holes) == UNION {Takes(holes[i].index, holes[i].x) : i \in DOMAIN holes}
ListMakesLevel == hosting => gone[Server] = TakenBy(appliedLevelEffects)

(***************************************************************************)
(* The positions of all effects had a code.  An effect outside the level   *)
(* may reach into it although its position has none; then the copies       *)
(* differ, as its code is that of another position.                        *)
(***************************************************************************)
Exact == \A i \in DOMAIN appliedLevelEffects :
           Sent(appliedLevelEffects[i]) = appliedLevelEffects[i]

(***************************************************************************)
(* No client whose node is linked shows a hole that is not on the server,  *)
(* and when it waits for nothing it shows them all: neither an effect that *)
(* comes between the client's level and its node, nor one between its node *)
(* and the tick that sends it the list, is lost.                           *)
(***************************************************************************)
NeverAhead ==
  Exact => \A c \in Linked : gone[c] \cup TakenBy(toGame[c]) \subseteq gone[Server]
CopiesAgree ==
  Exact => \A c \in Linked \ toInit : toGame[c] = <<>> => gone[c] = gone[Server]

(***************************************************************************)
(* Every effect reaches every client that stays: the machines' ticks bring *)
(* a hole on the server to each of them.                                   *)
(***************************************************************************)
HolesArrive ==
  \A c \in Clients, p \in Dirt :
    (status[c] = "linked" /\ Exact /\ p \in gone[Server])
      ~> (p \in gone[c] \/ status[c] # "linked" \/ ~Exact)
=============================================================================
