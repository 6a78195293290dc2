-------------------------------- MODULE Owners --------------------------------
(***************************************************************************)
(* Who owns what: the players, their worms, and the objects that name a    *)
(* player as their owner (BaseObject::m_owner) or as the last who hurt     *)
(* them (BaseWorm::m_lastHurt), over the turns of the main loop.  A player *)
(* is marked at any time and deleted after the players have thought, and   *)
(* deleteThis() then takes its name from the objects the grid lists.       *)
(*                                                                         *)
(* A server, or a game without a network, makes a player and its worm in   *)
(* one call.  A client makes each for a node of the server, in any order,  *)
(* and links them when one of the nodes says so, or never.                 *)
(*                                                                         *)
(* The objects are those of ObjectSet; Worm tells which are worms.          *)
(* What happens within the "rest" of its loop has an order here: stage.    *)
(***************************************************************************)
EXTENDS Naturals, FiniteSets

CONSTANTS
  Object, Cell, NoCell,
  Worm,        \* the objects that are worms
  Player,      \* the players there will be; the name of one deleted is not used again
  None         \* NULL of a pointer to a player

ASSUME OwnersAssumption ==
  /\ None \notin Player \cup Object /\ NoCell \notin Cell
  /\ Player \cap Object = {} /\ Worm \subseteq Object

VARIABLES
  listed, pending, lost, place, marked, todo, phase, loaded,
  stage,       \* what the loop does while no pass is under way
  players,     \* Game::players
  gone,        \* the players deleted
  playerMark,  \* BasePlayer::deleteMe
  toThink,     \* the players that have yet to think in this turn
  worm,        \* BasePlayer::m_worm
  owner,       \* BaseObject::m_owner
  lastHurt,    \* BaseWorm::m_lastHurt
  client,      \* Network::m_client, in a level loaded for the server's game
  remote,      \* the players and worms made for a node of the server: not m_isAuthority
  linked,      \* history: the worms that were given to a player
  stray        \* history: waiting when their owner was deleted, or their doing

O == INSTANCE ObjectSet

objVars == <<listed, pending, lost, place, marked, todo, phase, loaded>>
refVars == <<owner, lastHurt, stray>>
netVars == <<client, remote, linked>>
playerVars == <<players, gone, playerMark, worm>>
loopVars == <<stage, toThink>>
ownersVars == <<objVars, loopVars, playerVars, refVars, netVars>>

Live == listed \cup pending
IsWorm(o) == o \in Worm \cap listed
NoRefs == [o \in Object |-> None]

Init ==
  /\ O!Init
  /\ stage = "network"
  /\ players = {} /\ gone = {} /\ playerMark = {} /\ toThink = {}
  /\ worm = [p \in Player |-> None]
  /\ owner = NoRefs /\ lastHurt = NoRefs /\ stray = {}
  /\ client = FALSE /\ remote = {} /\ linked = {}

-----------------------------------------------------------------------------
(* The turns of the main loop *)

BeginErase ==
  /\ stage = "network" /\ O!BeginErase
  /\ stage' = "pass"
  /\ UNCHANGED <<toThink, playerVars, refVars, netVars>>

EndErase ==
  /\ O!EndErase
  /\ stage' = IF loaded THEN "pass" ELSE "delete"
  /\ UNCHANGED <<toThink, playerVars, refVars, netVars>>

(* The memory of an erased object names nobody. *)
Forget(o) ==
  /\ owner' = [owner EXCEPT ![o] = None]
  /\ lastHurt' = [lastHurt EXCEPT ![o] = None]
  /\ stray' = stray \ {o}
  /\ remote' = remote \ {o} /\ linked' = linked \ {o}
  /\ UNCHANGED <<loopVars, playerVars, client>>

Erase(o) == O!Erase(o) /\ Forget(o)
Clear(o) == O!Clear(o) /\ Forget(o)

Pass(o) ==
  /\ O!Keep(o) \/ O!Think(o, place[o]) \/ O!Flush(o)
  /\ UNCHANGED <<loopVars, playerVars, refVars, netVars>>

EndThink == O!EndThink /\ UNCHANGED <<loopVars, playerVars, refVars, netVars>>

EndFlush ==
  /\ O!EndFlush
  /\ stage' = "players" /\ toThink' = players
  /\ UNCHANGED <<playerVars, refVars, netVars>>

PlayerThought(p) ==
  /\ stage = "players" /\ p \in toThink
  /\ toThink' = toThink \ {p}
  /\ UNCHANGED <<objVars, stage, playerVars, refVars, netVars>>

EndPlayers ==
  /\ stage = "players" /\ toThink = {}
  /\ stage' = "delete"
  /\ UNCHANGED <<objVars, toThink, playerVars, refVars, netVars>>

EndDeleteEarly ==   \* mutant: the loop that deletes players may skip some
  /\ stage = "delete"
  /\ stage' = "network"
  /\ UNCHANGED <<objVars, toThink, playerVars, refVars, netVars>>

EndDelete ==
  /\ stage = "delete" /\ playerMark = {}
  /\ stage' = "network"
  /\ UNCHANGED <<objVars, toThink, playerVars, refVars, netVars>>

-----------------------------------------------------------------------------
(* Objects *)

(* A new object gets an owner, and is as stray as what made it. *)
Named(o, p, isStray) ==
  /\ owner' = [owner EXCEPT ![o] = p]
  /\ stray' = IF isStray THEN stray \cup {o} ELSE stray
  /\ UNCHANGED lastHurt

(* An object that is to think makes another, with its own owner. *)
MakeByObject(maker, o) ==
  /\ phase = "think" /\ maker \in todo
  /\ O!Insert(o, NoCell) /\ o \notin Worm
  /\ Named(o, owner[maker], maker \in stray)
  /\ UNCHANGED <<loopVars, playerVars, netVars>>

(* A player makes one as it thinks: its worm digs, or a trigger is pulled. *)
MakeByPlayer(p, o) ==
  /\ stage = "players" /\ p \in toThink /\ worm[p] # None
  /\ O!Insert(o, NoCell) /\ o \notin Worm
  /\ Named(o, owner[worm[p]], FALSE)
  /\ UNCHANGED <<loopVars, playerVars, netVars>>

(* A packet makes one for a client, with the owner that goes by the number it *)
(* holds, if any does.                                                         *)
MakeByPacket(p, o) ==
  /\ stage = "network" /\ client /\ p \in players \cup {None}
  /\ O!Insert(o, NoCell) /\ o \notin Worm
  /\ Named(o, p, FALSE)
  /\ UNCHANGED <<loopVars, playerVars, netVars>>

(* A client's copy of a worm is hurt by what the server says only. *)
damage(o, w) ==
  /\ phase = "think" /\ o \in todo /\ IsWorm(w) /\ w \notin remote
  /\ lastHurt' = [lastHurt EXCEPT ![w] = owner[o]]
  /\ stray' = IF o \in stray THEN stray \cup {w} ELSE stray
  /\ UNCHANGED <<objVars, loopVars, playerVars, owner, netVars>>

(* The event Die, as the worm thinks: it names who did it, if the client has *)
(* that player, and the worm may leave a particle with its own owner.         *)
die(w, p) ==
  /\ phase = "think" /\ w \in todo \cap remote /\ p \in players \cup {None}
  /\ lastHurt' = [lastHurt EXCEPT ![w] = p]
  /\ \/ UNCHANGED <<objVars, owner, stray>>
     \/ \E o \in Object :
          /\ O!Insert(o, NoCell) /\ o \notin Worm
          /\ owner' = [owner EXCEPT ![o] = owner[w]]
          /\ stray' = IF w \in stray THEN stray \cup {o} ELSE stray
  /\ UNCHANGED <<loopVars, playerVars, netVars>>

(* An object removes itself, or another removes it; a worm goes with its player only. *)
remove(o) ==
  /\ phase = "think" /\ O!Mark({o}) /\ o \notin lost \cup Worm
  /\ UNCHANGED <<loopVars, playerVars, refVars, netVars>>

(* A worm is given life again: as its player asks, as it has been dead for *)
(* long, or as the server says.                                            *)
respawn(w) ==
  /\ \/ stage = "players" /\ w \notin remote /\ \E p \in toThink : worm[p] = w
     \/ phase = "think" /\ w \in todo /\ IsWorm(w)
  /\ lastHurt' = [lastHurt EXCEPT ![w] = None]
  /\ UNCHANGED <<objVars, loopVars, playerVars, owner, stray, netVars>>

-----------------------------------------------------------------------------
(* Players *)

(* Game::addWorm and addPlayer with their link, in one call: from a request, *)
(* a script or the console.                                                   *)
addPlayer(p, w, c) ==
  /\ stage = "network" /\ ~client /\ p \notin players \cup gone
  /\ O!InsertImmediately(w, c) /\ w \in Worm
  /\ players' = players \cup {p}
  /\ worm' = [worm EXCEPT ![p] = w]
  /\ owner' = [owner EXCEPT ![w] = p]
  /\ linked' = linked \cup {w}
  /\ UNCHANGED <<gone, playerMark, lastHurt, stray, loopVars, client, remote>>

(* The server has a worm: a client makes one, without a player. *)
requestWorm(w, c) ==
  /\ stage = "network" /\ client
  /\ O!InsertImmediately(w, c) /\ w \in Worm
  /\ owner' = [owner EXCEPT ![w] = None]
  /\ remote' = remote \cup {w}
  /\ UNCHANGED <<loopVars, playerVars, lastHurt, stray, client, linked>>

(* The server has a player: a client makes one, without a worm. *)
requestPlayer(p) ==
  /\ stage = "network" /\ client /\ loaded /\ p \notin players \cup gone
  /\ players' = players \cup {p}
  /\ worm' = [worm EXCEPT ![p] = None]
  /\ remote' = remote \cup {p}
  /\ UNCHANGED <<objVars, loopVars, gone, playerMark, refVars, client, linked>>

(* A node's number arrives that links the two.  The server gives a worm to one *)
(* player, for good.                                                            *)
assignWorm(p, w) ==
  /\ stage = "network" /\ client /\ {p, w} \subseteq remote
  /\ p \in players /\ IsWorm(w)
  /\ worm[p] = w \/ (worm[p] = None /\ w \notin linked)
  /\ worm' = [worm EXCEPT ![p] = w]
  /\ owner' = [owner EXCEPT ![w] = p]
  /\ linked' = linked \cup {w}
  /\ UNCHANGED <<objVars, loopVars, players, gone, playerMark, lastHurt, stray, client, remote>>

(* A kick or a connection closed, on a server; on a client, the player's node *)
(* removed, as it thinks.                                                      *)
markPlayer(p) ==
  /\ \/ stage = "network" /\ ~client
     \/ stage = "players" /\ p \in toThink \cap remote
  /\ p \in players \ playerMark
  /\ playerMark' = playerMark \cup {p}
  /\ UNCHANGED <<objVars, players, gone, worm, refVars, loopVars, netVars>>

(* The session ends, and the level may stay: a connection that never closed. *)
leave ==
  /\ stage = "network" /\ client
  /\ client' = FALSE
  /\ UNCHANGED <<objVars, loopVars, playerVars, refVars, remote, linked>>

(* removeRefsToPlayer of every listed object. *)
removeRefs(refs, p) == [o \in Object |-> IF o \in listed /\ refs[o] = p THEN None ELSE refs[o]]
removeOwner(p) ==   \* mutant: the last who hurt a worm is kept
  /\ owner' = removeRefs(owner, p)
  /\ UNCHANGED lastHurt

removeRefsToPlayer(p) ==
  /\ owner' = removeRefs(owner, p)
  /\ lastHurt' = removeRefs(lastHurt, p)

deleteOnly(p) ==   \* mutant: the worm is not removed with its player
  /\ p \in players
  /\ (stage = "delete" /\ p \in playerMark) \/ stage = "reset"
  /\ removeRefsToPlayer(p)
  /\ worm' = [worm EXCEPT ![p] = None]
  /\ players' = players \ {p} /\ gone' = gone \cup {p} /\ playerMark' = playerMark \ {p}
  /\ stray' = stray \cup {o \in pending : owner[o] = p}
  /\ remote' = remote \ {p}
  /\ UNCHANGED <<objVars, loopVars, client, linked>>

deleteThis(p) ==
  /\ p \in players
  /\ (stage = "delete" /\ p \in playerMark) \/ stage = "reset"
  /\ removeRefsToPlayer(p)
  /\ O!Mark({worm[p]} \ {None})
  /\ worm' = [worm EXCEPT ![p] = None]
  /\ players' = players \ {p} /\ gone' = gone \cup {p} /\ playerMark' = playerMark \ {p}
  /\ stray' = stray \cup {o \in pending : owner[o] = p}
  /\ remote' = remote \ {p}
  /\ UNCHANGED <<loopVars, client, linked>>

(* Game::reset deletes every player, then what the grid lists. *)
reset ==
  /\ stage \in {"delete", "network"} /\ loaded
  /\ stage' = "reset"
  /\ UNCHANGED <<objVars, toThink, playerVars, refVars, netVars>>

BeginClear ==
  /\ stage = "reset" /\ players = {} /\ O!BeginClear
  /\ stage' = "pass"
  /\ UNCHANGED <<toThink, playerVars, refVars, netVars>>

EndClear == O!EndClear /\ stage' = "network" /\ UNCHANGED <<toThink, playerVars, refVars, netVars>>

(* The next level, of a game of this machine or of a server it is connected to. *)
changeLevel ==
  /\ stage = "network" /\ O!Resize
  /\ client' \in BOOLEAN
  /\ UNCHANGED <<loopVars, playerVars, refVars, remote, linked>>

-----------------------------------------------------------------------------
Loop ==
  \/ BeginErase \/ EndErase \/ EndThink \/ EndFlush \/ EndPlayers \/ EndDelete
  \/ BeginClear \/ EndClear
  \/ \E o \in Object : Erase(o) \/ Clear(o) \/ Pass(o)
  \/ \E p \in Player : PlayerThought(p) \/ deleteThis(p)

Next ==
  \/ Loop \/ reset \/ changeLevel \/ leave
  \/ \E o \in Object :
       \/ remove(o) \/ respawn(o)
       \/ \E b \in Object : MakeByObject(b, o) \/ damage(b, o)
       \/ \E c \in Cell : requestWorm(o, c)
  \/ \E p \in Player :
       \/ markPlayer(p) \/ requestPlayer(p)
       \/ \E o \in Object : \/ MakeByPlayer(p, o) \/ assignWorm(p, o)
                            \/ \E c \in Cell : addPlayer(p, o, c)
  \/ \E p \in Player \cup {None}, o \in Object : MakeByPacket(p, o) \/ die(o, p)

(* The main loop goes on while the program runs. *)
FairSpec == Init /\ [][Next]_ownersVars /\ WF_ownersVars(Loop)

-----------------------------------------------------------------------------

PlayerOrNone == Player \cup {None}

TypeOK ==
  /\ O!SetTypeOK /\ O!OnePlace
  /\ stage \in {"pass", "players", "delete", "network", "reset"}
  /\ (stage = "pass") <=> (phase # "rest")
  /\ players \subseteq Player /\ gone \subseteq Player \ players
  /\ playerMark \subseteq players /\ toThink \subseteq players
  /\ worm \in [Player -> Object \cup {None}]
  /\ owner \in [Object -> PlayerOrNone] /\ lastHurt \in [Object -> PlayerOrNone]
  /\ stray \subseteq Object
  /\ client \in BOOLEAN /\ remote \subseteq players \cup Object /\ linked \subseteq Worm

(* As the comments at gusanos.cpp:177 and base_object.h:49 have it: once a *)
(* player is deleted, no object of the grid names it.                       *)
RefsAreLive ==
  \A o \in listed : owner[o] \in players \cup {None} /\ lastHurt[o] \in players \cup {None}

(* An object that names a deleted player was waiting when the player was      *)
(* deleted (made in the players' turn, after the flush), or was made or hurt  *)
(* by one that was: there is no other way to keep the name.                   *)
OnlyStraysDangle ==
  \A o \in Live : owner[o] \in gone \/ lastHurt[o] \in gone => o \in stray

(* The worm a player refers to is in the grid, unmarked and its own: it is    *)
(* never erased under a player that is to think.  Only a client's player is   *)
(* without a worm, and a worm without a player is on its way out (marked), or *)
(* a client's that was never linked: that one stays until the level goes.     *)
WormsAreWhole ==
  /\ TypeOK
  /\ \A p \in players :
       IF worm[p] = None THEN p \in remote
       ELSE /\ IsWorm(worm[p]) /\ worm[p] \notin marked
            /\ owner[worm[p]] = p
            /\ \A q \in players : worm[q] = worm[p] => q = p
  /\ \A o \in Object : IsWorm(o) => \/ o \in marked
                                    \/ \E p \in players : worm[p] = o
                                    \/ o \in remote \ linked

(* A player that is marked is deleted, and an object of the grid that is       *)
(* marked, or is the worm of a marked player, is erased in the next turn.      *)
MarkedGo ==
  /\ \A o \in Object :
       (o \in listed /\ (o \in marked \/ \E p \in playerMark : worm[p] = o)) ~> o \notin listed
  /\ \A p \in Player : p \in playerMark ~> p \in gone
=============================================================================
