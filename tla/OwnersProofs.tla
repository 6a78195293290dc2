------------------------------ MODULE OwnersProofs ------------------------------
(***************************************************************************)
(* Proofs about Owners: for any number of players, objects and squares, a  *)
(* player's worm is never erased under it, and only strays keep the name   *)
(* of a deleted player.                                                    *)
(***************************************************************************)
EXTENDS Owners, TLAPS

(* Who is named was a player once: a new player finds no object of its name. *)
NamesAreKnown ==
  \A o \in Object : /\ owner[o] \in players \cup gone \cup {None}
                    /\ lastHurt[o] \in players \cup gone \cup {None}

(* Only what is in the grid is hurt. *)
OthersAreUnhurt == \A o \in Object : o \notin listed => lastHurt[o] = None

(* What waits to be flushed is no worm. *)
WaitingIsNoWorm == pending \cap Worm = {}

(* The grid is cleared after the players have been deleted. *)
ClearedWithoutPlayers == phase = "clear" => players = {}

(* Players think at their stage only. *)
ThinkInTime == stage # "players" => toThink = {}

(* A worm is marked with the player it was given to; a new one was given to nobody. *)
GivenOnce ==
  /\ marked \cap Worm \subseteq linked /\ linked \subseteq listed
  /\ \A p \in players : worm[p] # None => worm[p] \in linked

IInv ==
  /\ WormsAreWhole
  /\ OnlyStraysDangle
  /\ NamesAreKnown
  /\ OthersAreUnhurt
  /\ WaitingIsNoWorm
  /\ ClearedWithoutPlayers
  /\ ThinkInTime
  /\ GivenOnce

(* A program that starts has no players and no objects. *)
LEMMA InitIInv == Init => IInv
<1> SUFFICES ASSUME Init PROVE IInv
  OBVIOUS
<1> USE OwnersAssumption DEF Init, O!Init
<1>1. TypeOK
  BY DEF TypeOK, O!SetTypeOK, O!OnePlace, O!Place, O!Phase, NoRefs, PlayerOrNone
<1>2. WormsAreWhole
  BY <1>1 DEF WormsAreWhole, IsWorm
<1>3. OnlyStraysDangle /\ NamesAreKnown /\ OthersAreUnhurt
  BY DEF OnlyStraysDangle, NamesAreKnown, OthersAreUnhurt, Live, NoRefs
<1>4. WaitingIsNoWorm /\ ClearedWithoutPlayers /\ ThinkInTime /\ GivenOnce
  BY DEF WaitingIsNoWorm, ClearedWithoutPlayers, ThinkInTime, GivenOnce
<1>5. QED
  BY <1>2, <1>3, <1>4 DEF IInv

-----------------------------------------------------------------------------
(* One lemma for each kind of step. *)

(* A pass begins or ends, or the loop goes from one stage to the next. *)
LEMMA LoopStep ==
  ASSUME IInv,
         BeginErase \/ EndErase \/ EndThink \/ EndFlush \/ BeginClear \/ EndClear
           \/ reset \/ changeLevel \/ leave \/ EndPlayers \/ EndDelete
           \/ \E p \in Player : PlayerThought(p)
  PROVE  IInv'
<1> USE OwnersAssumption
<1>1. /\ UNCHANGED <<place, marked, players, gone, playerMark, worm, owner, lastHurt, stray, listed,
                     remote, linked>>
      /\ pending' \subseteq pending
  BY DEF BeginErase, EndErase, EndThink, EndFlush, BeginClear, EndClear, reset, changeLevel, leave, netVars,
         EndPlayers, EndDelete, PlayerThought, O!BeginErase, O!EndErase, O!EndThink, O!EndFlush,
         O!BeginClear, O!EndClear, O!Resize, O!Begin, objVars, refVars, playerVars, loopVars
<1>2. TypeOK'
  <2> USE DEF IInv, WormsAreWhole, TypeOK, O!SetTypeOK, O!OnePlace, O!Place, O!Phase, PlayerOrNone
  <2>1. CASE BeginErase \/ EndErase \/ BeginClear
    BY <2>1, <1>1 DEF BeginErase, EndErase, BeginClear, O!BeginErase, O!EndErase, O!BeginClear,
                      O!Begin, playerVars, refVars, netVars
  <2>2. CASE EndThink \/ EndFlush \/ EndClear
    BY <2>2, <1>1 DEF EndThink, EndFlush, EndClear, O!EndThink, O!EndFlush, O!EndClear,
                      playerVars, refVars, loopVars, netVars
  <2>3. CASE reset \/ EndPlayers \/ EndDelete \/ \E p \in Player : PlayerThought(p)
    BY <2>3, <1>1 DEF reset, EndPlayers, EndDelete, PlayerThought, objVars, playerVars, refVars,
                      netVars
  <2>4. CASE changeLevel
    BY <2>4, <1>1 DEF changeLevel, O!Resize, playerVars, refVars, loopVars
  <2>5. CASE leave
    <3>1. /\ UNCHANGED <<listed, pending, lost, place, marked, todo, phase, loaded, stage, toThink>>
          /\ client' \in BOOLEAN
      BY <2>5 DEF leave, objVars, loopVars
    <3>2. QED
      BY <1>1, <3>1
  <2>6. QED
    BY <2>1, <2>2, <2>3, <2>4, <2>5
<1>3. ClearedWithoutPlayers' /\ ThinkInTime'
  BY DEF IInv, ClearedWithoutPlayers, ThinkInTime, WormsAreWhole, TypeOK,
         BeginErase, EndErase, EndThink, EndFlush, BeginClear, EndClear, reset, changeLevel, leave,
         EndPlayers, EndDelete, PlayerThought, O!BeginErase, O!EndErase, O!EndThink, O!EndFlush,
         O!BeginClear, O!EndClear, O!Resize, O!Begin, objVars, refVars, playerVars, loopVars
<1>4. WormsAreWhole'
  BY <1>1, <1>2 DEF IInv, WormsAreWhole, IsWorm
<1>5. OnlyStraysDangle' /\ NamesAreKnown' /\ OthersAreUnhurt' /\ WaitingIsNoWorm' /\ GivenOnce'
  BY <1>1 DEF IInv, OnlyStraysDangle, NamesAreKnown, OthersAreUnhurt, WaitingIsNoWorm, Live,
              GivenOnce
<1>6. QED
  BY <1>3, <1>4, <1>5 DEF IInv

(* An object is erased, or cleared with the level: it is not a player's worm. *)
LEMMA EraseStep ==
  ASSUME IInv, NEW o \in Object, Erase(o) \/ Clear(o)
  PROVE  IInv'
<1> USE OwnersAssumption
<1>1. /\ listed' = listed \ {o} /\ marked' = marked \ {o} /\ todo' = todo \ {o}
      /\ place' = [place EXCEPT ![o] = NoCell]
      /\ UNCHANGED <<pending, lost, phase, loaded, stage, toThink, players, gone, playerMark, worm>>
      /\ owner' = [owner EXCEPT ![o] = None] /\ lastHurt' = [lastHurt EXCEPT ![o] = None]
      /\ stray' = stray \ {o} /\ remote' = remote \ {o} /\ linked' = linked \ {o} /\ client' = client
  BY DEF Erase, Clear, O!Erase, O!Clear, Forget, loopVars, playerVars
<1>2. o \in listed /\ o \notin pending /\ o \notin lost
  BY DEF IInv, WormsAreWhole, TypeOK, O!OnePlace, Erase, Clear, O!Erase, O!Clear
<1>3. \A p \in players : worm[p] # o
  <2>1. CASE Erase(o)
    BY <2>1 DEF IInv, WormsAreWhole, Erase, O!Erase
  <2>2. CASE Clear(o)
    BY <2>2 DEF IInv, ClearedWithoutPlayers, Clear, O!Clear
  <2>3. QED
    BY <2>1, <2>2
<1>4. TypeOK'
  BY <1>1 DEF IInv, WormsAreWhole, TypeOK, O!SetTypeOK, O!OnePlace, O!Place, O!Phase, PlayerOrNone
<1>5. WormsAreWhole'
  BY <1>1, <1>2, <1>3, <1>4 DEF IInv, WormsAreWhole, IsWorm, TypeOK, O!SetTypeOK
<1>6. OnlyStraysDangle' /\ NamesAreKnown' /\ OthersAreUnhurt'
  BY <1>1, <1>2 DEF IInv, WormsAreWhole, TypeOK, OnlyStraysDangle, NamesAreKnown,
                    OthersAreUnhurt, Live
<1>7. WaitingIsNoWorm' /\ ClearedWithoutPlayers' /\ ThinkInTime' /\ GivenOnce'
  BY <1>1, <1>2, <1>3 DEF IInv, WaitingIsNoWorm, ClearedWithoutPlayers, ThinkInTime, GivenOnce
<1>8. QED
  BY <1>5, <1>6, <1>7 DEF IInv

(* A pass comes to an object, or a flush does. *)
LEMMA PassesStep ==
  ASSUME IInv, NEW o \in Object, Pass(o)
  PROVE  IInv'
<1> USE OwnersAssumption
<1>1. /\ UNCHANGED <<lost, marked, phase, loaded, stage, toThink, players, gone, playerMark, worm,
                     owner, lastHurt, stray, client, remote, linked>>
      /\ place' = place
  BY DEF Pass, O!Keep, O!Think, O!Flush, loopVars, playerVars, refVars, netVars, IInv, WormsAreWhole,
         TypeOK, O!SetTypeOK
<1>2. \/ listed' = listed /\ pending' = pending /\ todo' = todo \ {o}
      \/ o \in pending /\ pending' = pending \ {o} /\ listed' = listed \cup {o} /\ todo' = todo
  BY DEF Pass, O!Keep, O!Think, O!Flush
<1>3. TypeOK'
  BY <1>1, <1>2 DEF IInv, WormsAreWhole, TypeOK, O!SetTypeOK, O!OnePlace, O!Place, O!Phase,
                    PlayerOrNone
<1>4. WormsAreWhole'
  BY <1>1, <1>2, <1>3 DEF IInv, WormsAreWhole, IsWorm, WaitingIsNoWorm
<1>5. OnlyStraysDangle' /\ NamesAreKnown' /\ OthersAreUnhurt'
  BY <1>1, <1>2 DEF IInv, OnlyStraysDangle, NamesAreKnown, OthersAreUnhurt, Live
<1>6. WaitingIsNoWorm' /\ ClearedWithoutPlayers' /\ ThinkInTime' /\ GivenOnce'
  BY <1>1, <1>2 DEF IInv, WaitingIsNoWorm, ClearedWithoutPlayers, ThinkInTime, GivenOnce
<1>7. QED
  BY <1>4, <1>5, <1>6 DEF IInv

(* An object is made, or waits already: a stray's is a stray, and every other   *)
(* maker names a player.  The event Die names another who hurt the worm as well. *)
Made(o, q) ==
  /\ o \notin listed \cup pending \cup lost /\ o \notin Worm
  /\ pending' = pending \cup {o} /\ place' = [place EXCEPT ![o] = NoCell]
  /\ UNCHANGED <<listed, lost, marked, todo, phase, loaded, stage, toThink, players, gone,
                 playerMark, worm, client, remote, linked>>
  /\ owner' = [owner EXCEPT ![o] = q] /\ q \in players \cup gone \cup {None}
  /\ stray' = stray \/ stray' = stray \cup {o}
  /\ q \in gone => stray' = stray \cup {o}

HurtBySome ==
  /\ lastHurt' \in [Object -> PlayerOrNone]
  /\ \A x \in Object : \/ lastHurt'[x] = lastHurt[x]
                       \/ x \in listed /\ lastHurt'[x] \in players \cup {None}

LEMMA MadeIsKnown ==
  ASSUME IInv, NEW o \in Object, NEW q, Made(o, q), HurtBySome
  PROVE  IInv'
<1> USE OwnersAssumption DEF Made, HurtBySome
<1>1. o \notin marked /\ o \notin todo
  BY DEF IInv, WormsAreWhole, TypeOK, O!OnePlace
<1>2. TypeOK'
  <2>1. (O!SetTypeOK /\ O!OnePlace)'
    BY <1>1 DEF IInv, WormsAreWhole, TypeOK, O!SetTypeOK, O!OnePlace, O!Place, O!Phase
  <2>2. owner' \in [Object -> PlayerOrNone]
    BY DEF IInv, WormsAreWhole, TypeOK, PlayerOrNone
  <2>3. stray' \subseteq Object
    BY DEF IInv, WormsAreWhole, TypeOK
  <2>4. QED
    BY <2>1, <2>2, <2>3 DEF IInv, WormsAreWhole, TypeOK
<1>3. WormsAreWhole'
  BY <1>2 DEF IInv, WormsAreWhole, IsWorm, TypeOK, O!SetTypeOK
<1>4. OnlyStraysDangle'
  <2>1. players \cap gone = {} /\ None \notin gone /\ stray \subseteq stray'
    BY DEF IInv, WormsAreWhole, TypeOK
  <2>2. lastHurt'[o] \notin gone /\ owner'[o] = q
    BY <2>1 DEF IInv, WormsAreWhole, TypeOK, OthersAreUnhurt
  <2>3. \A x \in Object : lastHurt'[x] \in gone => lastHurt'[x] = lastHurt[x]
    BY <2>1
  <2>4. ASSUME NEW x \in Live', owner'[x] \in gone' \/ lastHurt'[x] \in gone'
        PROVE  x \in stray'
    <3>1. CASE x = o
      BY <2>2, <2>4, <3>1
    <3>2. CASE x # o
      <4>1. x \in Live /\ x \in Object /\ owner'[x] = owner[x]
        BY <3>2, <2>4 DEF IInv, WormsAreWhole, TypeOK, O!SetTypeOK, Live
      <4>2. QED
        BY <2>1, <2>3, <2>4, <4>1 DEF IInv, OnlyStraysDangle
    <3>3. QED
      BY <3>1, <3>2
  <2>5. QED
    BY <2>4 DEF OnlyStraysDangle
<1>5. NamesAreKnown' /\ OthersAreUnhurt'
  BY DEF IInv, WormsAreWhole, TypeOK, NamesAreKnown, OthersAreUnhurt
<1>6. WaitingIsNoWorm' /\ ClearedWithoutPlayers' /\ ThinkInTime' /\ GivenOnce'
  BY DEF IInv, WaitingIsNoWorm, ClearedWithoutPlayers, ThinkInTime, GivenOnce
<1>7. QED
  BY <1>3, <1>4, <1>5, <1>6 DEF IInv

LEMMA MakeStep ==
  ASSUME IInv, NEW o \in Object,
         \/ \E b \in Object : MakeByObject(b, o)
         \/ \E p \in Player : MakeByPlayer(p, o)
         \/ \E p \in Player \cup {None} : MakeByPacket(p, o)
  PROVE  IInv'
<1> USE OwnersAssumption
<1>1. /\ o \notin listed \cup pending \cup lost /\ o \notin Worm
      /\ pending' = pending \cup {o} /\ place' = [place EXCEPT ![o] = NoCell]
      /\ UNCHANGED <<listed, lost, marked, todo, phase, loaded, stage, toThink, players, gone,
                     playerMark, worm, client, remote, linked>>
      /\ lastHurt' = lastHurt
  BY DEF MakeByObject, MakeByPlayer, MakeByPacket, O!Insert, O!Dead, Named, loopVars, playerVars,
         netVars
<1>2. PICK q : /\ q \in players \cup gone \cup {None}
               /\ owner' = [owner EXCEPT ![o] = q]
               /\ stray' = stray \/ stray' = stray \cup {o}
               /\ q \in gone => stray' = stray \cup {o}
  <2>1. ASSUME NEW b \in Object, MakeByObject(b, o)
        PROVE  owner[b] \in gone => b \in stray
    BY <2>1 DEF IInv, MakeByObject, OnlyStraysDangle, WormsAreWhole, TypeOK, O!OnePlace, Live
  <2>2. CASE \E b \in Object : MakeByObject(b, o)
    BY <2>1, <2>2 DEF IInv, MakeByObject, Named, NamesAreKnown
  <2>3. CASE \E p \in Player : MakeByPlayer(p, o)
    BY <2>3 DEF IInv, MakeByPlayer, Named, WormsAreWhole, TypeOK
  <2>4. CASE \E p \in Player \cup {None} : MakeByPacket(p, o)
    BY <2>4 DEF IInv, MakeByPacket, Named, WormsAreWhole, TypeOK
  <2>5. QED
    BY <2>2, <2>3, <2>4
<1>3. HurtBySome
  <2>1. lastHurt \in [Object -> PlayerOrNone]
    BY DEF IInv, WormsAreWhole, TypeOK
  <2>2. QED
    BY <1>1, <2>1 DEF HurtBySome
<1>4. Made(o, q)
  BY <1>1, <1>2 DEF Made
<1>5. QED
  BY <1>3, <1>4, MadeIsKnown

(* The event Die: the worm was hurt by a player there is, and leaves a particle or none. *)
LEMMA DieStep ==
  ASSUME IInv, NEW w \in Object, NEW p \in Player \cup {None}, die(w, p)
  PROVE  IInv'
<1> USE OwnersAssumption
<1>1. /\ w \in listed /\ p \in players \cup {None}
      /\ lastHurt' = [lastHurt EXCEPT ![w] = p]
      /\ UNCHANGED <<stage, toThink, players, gone, playerMark, worm, client, remote, linked>>
  BY DEF IInv, WormsAreWhole, TypeOK, O!OnePlace, die, loopVars, playerVars, netVars
<1>2. HurtBySome
  <2>1. lastHurt \in [Object -> PlayerOrNone] /\ p \in PlayerOrNone
    BY DEF IInv, WormsAreWhole, TypeOK, PlayerOrNone
  <2>2. lastHurt' \in [Object -> PlayerOrNone]
    BY <1>1, <2>1
  <2>3. ASSUME NEW x \in Object
        PROVE  \/ lastHurt'[x] = lastHurt[x]
               \/ x \in listed /\ lastHurt'[x] \in players \cup {None}
    BY <1>1, <2>1
  <2>4. QED
    BY <2>2, <2>3 DEF HurtBySome
<1>3. CASE UNCHANGED <<objVars, owner, stray>>
  <2>1. UNCHANGED <<listed, pending, lost, place, marked, todo, phase, loaded, owner, stray>>
    BY <1>3 DEF objVars
  <2>2. TypeOK'
    BY <1>1, <1>2, <2>1 DEF IInv, WormsAreWhole, TypeOK, O!SetTypeOK, O!OnePlace, O!Place, O!Phase,
                            HurtBySome
  <2>3. WormsAreWhole'
    BY <1>1, <2>1, <2>2 DEF IInv, WormsAreWhole, IsWorm
  <2>4. OnlyStraysDangle' /\ NamesAreKnown' /\ OthersAreUnhurt'
    BY <1>1, <1>2, <2>1 DEF IInv, WormsAreWhole, TypeOK, OnlyStraysDangle, NamesAreKnown,
                            OthersAreUnhurt, Live, HurtBySome
  <2>5. WaitingIsNoWorm' /\ ClearedWithoutPlayers' /\ ThinkInTime' /\ GivenOnce'
    BY <1>1, <2>1 DEF IInv, WaitingIsNoWorm, ClearedWithoutPlayers, ThinkInTime, GivenOnce
  <2>6. QED
    BY <2>3, <2>4, <2>5 DEF IInv
<1>4. ASSUME NEW o \in Object,
             /\ O!Insert(o, NoCell) /\ o \notin Worm
             /\ owner' = [owner EXCEPT ![o] = owner[w]]
             /\ stray' = IF w \in stray THEN stray \cup {o} ELSE stray
      PROVE  IInv'
  <2>1. /\ o \notin listed \cup pending \cup lost /\ o \notin Worm
        /\ pending' = pending \cup {o} /\ place' = [place EXCEPT ![o] = NoCell]
        /\ UNCHANGED <<listed, lost, marked, todo, phase, loaded>>
    BY <1>4 DEF O!Insert, O!Dead
  <2>2. owner[w] \in players \cup gone \cup {None}
    BY DEF IInv, NamesAreKnown
  <2>3. owner[w] \in gone => w \in stray
    BY <1>1 DEF IInv, OnlyStraysDangle, Live
  <2>4. stray' = stray \/ stray' = stray \cup {o}
    BY <1>4
  <2>5. owner[w] \in gone => stray' = stray \cup {o}
    BY <1>4, <2>3
  <2>6. Made(o, owner[w])
    BY <1>1, <1>4, <2>1, <2>2, <2>4, <2>5 DEF Made
  <2>7. QED
    BY <1>2, <2>6, MadeIsKnown
<1>5. QED
  BY <1>3, <1>4 DEF die

(* A worm is hurt or comes to life, an object is marked, a player is marked. *)
LEMMA HurtStep ==
  ASSUME IInv,
         \/ \E b, o \in Object : damage(b, o)
         \/ \E o \in Object : remove(o)
         \/ \E o \in Object : respawn(o)
         \/ \E p \in Player : markPlayer(p)
  PROVE  IInv'
<1> USE OwnersAssumption
<1>1. ASSUME NEW b \in Object, NEW w \in Object, damage(b, w) PROVE IInv'
  <2>1. owner[b] \in gone => b \in stray
    BY <1>1 DEF IInv, damage, OnlyStraysDangle, WormsAreWhole, TypeOK, O!OnePlace, Live
  <2>2. TypeOK'
    BY <1>1 DEF IInv, damage, WormsAreWhole, TypeOK, O!SetTypeOK, O!OnePlace, O!Place, O!Phase,
                PlayerOrNone, objVars, loopVars, playerVars, netVars, NamesAreKnown
  <2>3. WormsAreWhole'
    BY <1>1, <2>2 DEF IInv, damage, WormsAreWhole, IsWorm, objVars, loopVars, playerVars, netVars
  <2>4. OnlyStraysDangle' /\ NamesAreKnown' /\ OthersAreUnhurt'
    BY <1>1, <2>1 DEF IInv, damage, WormsAreWhole, TypeOK, OnlyStraysDangle, NamesAreKnown,
                OthersAreUnhurt, Live, IsWorm, objVars, loopVars, playerVars
  <2>5. WaitingIsNoWorm' /\ ClearedWithoutPlayers' /\ ThinkInTime' /\ GivenOnce'
    BY <1>1 DEF IInv, damage, WaitingIsNoWorm, ClearedWithoutPlayers, ThinkInTime, GivenOnce, loopVars, objVars,
                playerVars, netVars
  <2>6. QED
    BY <2>3, <2>4, <2>5 DEF IInv
<1>2. ASSUME NEW o \in Object, remove(o) PROVE IInv'
  <2>1. TypeOK'
    BY <1>2 DEF IInv, remove, O!Mark, O!Dead, WormsAreWhole, TypeOK, O!SetTypeOK, O!OnePlace,
                O!Place, O!Phase, PlayerOrNone, loopVars, playerVars, refVars, netVars
  <2>2. WormsAreWhole'
    BY <1>2, <2>1 DEF IInv, remove, O!Mark, WormsAreWhole, IsWorm, loopVars, playerVars, refVars, netVars
  <2>3. QED
    BY <1>2, <2>2 DEF IInv, remove, O!Mark, OnlyStraysDangle, NamesAreKnown, OthersAreUnhurt,
                WaitingIsNoWorm, ClearedWithoutPlayers, ThinkInTime, GivenOnce, Live, loopVars, playerVars, refVars, netVars
<1>3. ASSUME NEW w \in Object, respawn(w) PROVE IInv'
  <2>1. TypeOK'
    BY <1>3 DEF IInv, respawn, WormsAreWhole, TypeOK, O!SetTypeOK, O!OnePlace, O!Place, O!Phase,
                PlayerOrNone, objVars, loopVars, playerVars, netVars
  <2>2. WormsAreWhole'
    BY <1>3, <2>1 DEF IInv, respawn, WormsAreWhole, IsWorm, objVars, loopVars, playerVars, netVars
  <2>3. QED
    BY <1>3, <2>2 DEF IInv, respawn, OnlyStraysDangle, NamesAreKnown, OthersAreUnhurt,
                WaitingIsNoWorm, ClearedWithoutPlayers, ThinkInTime, GivenOnce, Live, objVars, loopVars, playerVars, netVars,
                WormsAreWhole, TypeOK
<1>4. ASSUME NEW p \in Player, markPlayer(p) PROVE IInv'
  <2>1. TypeOK'
    BY <1>4 DEF IInv, markPlayer, WormsAreWhole, TypeOK, O!SetTypeOK, O!OnePlace, O!Place, O!Phase,
                PlayerOrNone, objVars, loopVars, refVars, netVars
  <2>2. WormsAreWhole'
    BY <1>4, <2>1 DEF IInv, markPlayer, WormsAreWhole, IsWorm, objVars, loopVars, refVars, netVars
  <2>3. QED
    BY <1>4, <2>2 DEF IInv, markPlayer, OnlyStraysDangle, NamesAreKnown, OthersAreUnhurt,
                WaitingIsNoWorm, ClearedWithoutPlayers, ThinkInTime, GivenOnce, Live, objVars, loopVars, refVars, netVars
<1>5. QED
  BY <1>1, <1>2, <1>3, <1>4

(* A player comes with a worm of its own. *)
LEMMA JoinStep ==
  ASSUME IInv, NEW p \in Player, NEW w \in Object, NEW c \in Cell, addPlayer(p, w, c)
  PROVE  IInv'
<1> USE OwnersAssumption
<1>1. /\ stage = "network" /\ p \notin players /\ p \notin gone /\ w \in Worm
      /\ w \notin listed \cup pending \cup lost /\ c # NoCell /\ phase = "rest"
      /\ listed' = listed \cup {w} /\ place' = [place EXCEPT ![w] = c]
      /\ players' = players \cup {p} /\ worm' = [worm EXCEPT ![p] = w]
      /\ owner' = [owner EXCEPT ![w] = p] /\ linked' = linked \cup {w}
      /\ UNCHANGED <<pending, lost, marked, todo, phase, loaded, gone, playerMark, lastHurt, stray,
                     stage, toThink, client, remote>>
  BY DEF addPlayer, O!InsertImmediately, O!Dead, loopVars
<1>2. TypeOK'
  BY <1>1 DEF IInv, WormsAreWhole, TypeOK, O!SetTypeOK, O!OnePlace, O!Place, O!Phase, PlayerOrNone
<1>3. w \notin marked /\ w # None /\ \A q \in players : worm[q] # w
  BY <1>1 DEF IInv, WormsAreWhole, TypeOK, O!OnePlace, IsWorm
<1>4. WormsAreWhole'
  <2>1. ASSUME NEW q \in players'
        PROVE  IF worm'[q] = None THEN q \in remote'
               ELSE /\ IsWorm(worm[q])' /\ worm'[q] \notin marked'
                    /\ owner'[worm'[q]] = q
                    /\ \A r \in players' : worm'[r] = worm'[q] => r = q
    BY <1>1, <1>3 DEF IInv, WormsAreWhole, IsWorm, TypeOK, O!SetTypeOK
  <2>2. \A x \in Object : IsWorm(x)' => \/ x \in marked'
                                        \/ \E q \in players' : worm'[q] = x
                                        \/ x \in remote' \ linked'
    BY <1>1, <1>3 DEF IInv, WormsAreWhole, IsWorm, TypeOK, O!SetTypeOK
  <2>3. QED
    BY <1>2, <2>1, <2>2 DEF WormsAreWhole, IsWorm
<1>5. OnlyStraysDangle' /\ NamesAreKnown' /\ OthersAreUnhurt'
  BY <1>1 DEF IInv, WormsAreWhole, TypeOK, OnlyStraysDangle, NamesAreKnown, OthersAreUnhurt, Live
<1>6. WaitingIsNoWorm' /\ ClearedWithoutPlayers' /\ ThinkInTime' /\ GivenOnce'
  BY <1>1, <1>3 DEF IInv, WaitingIsNoWorm, ClearedWithoutPlayers, ThinkInTime, GivenOnce, WormsAreWhole,
                    TypeOK, O!SetTypeOK
<1>7. QED
  BY <1>4, <1>5, <1>6 DEF IInv

(* A client's worm comes without a player. *)
LEMMA RequestWormStep ==
  ASSUME IInv, NEW w \in Object, NEW c \in Cell, requestWorm(w, c)
  PROVE  IInv'
<1> USE OwnersAssumption
<1>1. /\ w \in Worm /\ w \notin listed \cup pending \cup lost /\ phase = "rest"
      /\ listed' = listed \cup {w} /\ place' = [place EXCEPT ![w] = c]
      /\ remote' = remote \cup {w} /\ owner' = [owner EXCEPT ![w] = None]
      /\ UNCHANGED <<pending, lost, marked, todo, phase, loaded, players, gone, playerMark, worm, lastHurt,
                     stray, stage, toThink, client, linked>>
  BY DEF requestWorm, O!InsertImmediately, O!Dead, loopVars, playerVars, refVars
<1>2. TypeOK'
  BY <1>1 DEF IInv, WormsAreWhole, TypeOK, O!SetTypeOK, O!OnePlace, O!Place, O!Phase, PlayerOrNone
<1>3. w \notin linked
  BY <1>1 DEF IInv, GivenOnce
<1>4. WormsAreWhole'
  BY <1>1, <1>2, <1>3 DEF IInv, WormsAreWhole, IsWorm, TypeOK
<1>5. OnlyStraysDangle' /\ NamesAreKnown' /\ OthersAreUnhurt'
  BY <1>1 DEF IInv, WormsAreWhole, TypeOK, OnlyStraysDangle, NamesAreKnown, OthersAreUnhurt, Live
<1>6. WaitingIsNoWorm' /\ ClearedWithoutPlayers' /\ ThinkInTime' /\ GivenOnce'
  BY <1>1 DEF IInv, WaitingIsNoWorm, ClearedWithoutPlayers, ThinkInTime, GivenOnce
<1>7. QED
  BY <1>4, <1>5, <1>6 DEF IInv

(* A client's player comes without a worm, and a number links it with one. *)
LEMMA LinkStep ==
  ASSUME IInv,
         \/ \E p \in Player : requestPlayer(p)
         \/ \E p \in Player, w \in Object : assignWorm(p, w)
  PROVE  IInv'
<1> USE OwnersAssumption
<1>1. ASSUME NEW p \in Player, requestPlayer(p) PROVE IInv'
  <2>1. /\ stage = "network" /\ phase = "rest" /\ p \notin players /\ p \notin gone
        /\ players' = players \cup {p} /\ remote' = remote \cup {p}
        /\ worm' = [worm EXCEPT ![p] = None]
        /\ UNCHANGED <<listed, pending, lost, place, marked, todo, phase, loaded, gone, playerMark, owner,
                       lastHurt, stray, stage, toThink, client, linked>>
    BY <1>1 DEF IInv, WormsAreWhole, TypeOK, requestPlayer, objVars, loopVars, refVars
  <2>2. TypeOK'
    BY <2>1 DEF IInv, WormsAreWhole, TypeOK, O!SetTypeOK, O!OnePlace, O!Place, O!Phase, PlayerOrNone
  <2>3. WormsAreWhole'
    BY <2>1, <2>2 DEF IInv, WormsAreWhole, IsWorm, TypeOK
  <2>4. OnlyStraysDangle' /\ NamesAreKnown' /\ OthersAreUnhurt'
    BY <2>1 DEF IInv, OnlyStraysDangle, NamesAreKnown, OthersAreUnhurt, Live
  <2>5. WaitingIsNoWorm' /\ ClearedWithoutPlayers' /\ ThinkInTime' /\ GivenOnce'
    BY <2>1 DEF IInv, WormsAreWhole, TypeOK, WaitingIsNoWorm, ClearedWithoutPlayers, ThinkInTime, GivenOnce
  <2>6. QED
    BY <2>1, <2>3, <2>4, <2>5 DEF IInv
<1>2. ASSUME NEW p \in Player, NEW w \in Object, assignWorm(p, w) PROVE IInv'
  <2>1. /\ p \in players /\ w \in Worm /\ w \in listed /\ w \in remote
        /\ worm[p] = w \/ (worm[p] = None /\ w \notin linked)
        /\ worm' = [worm EXCEPT ![p] = w] /\ owner' = [owner EXCEPT ![w] = p]
        /\ linked' = linked \cup {w}
        /\ UNCHANGED <<listed, pending, lost, place, marked, todo, phase, loaded, players, gone, playerMark,
                       lastHurt, stray, stage, toThink, client, remote>>
    BY <1>2 DEF assignWorm, IsWorm, objVars, loopVars
  <2>2. w \notin marked /\ w # None /\ p \notin gone
    BY <2>1 DEF IInv, WormsAreWhole, GivenOnce, TypeOK
  <2>3. \A q \in players : worm[q] = w => q = p
    BY <2>1 DEF IInv, WormsAreWhole, GivenOnce, TypeOK
  <2>4. TypeOK'
    BY <2>1 DEF IInv, WormsAreWhole, TypeOK, O!SetTypeOK, O!OnePlace, O!Place, O!Phase, PlayerOrNone
  <2>5. WormsAreWhole'
    <3>1. ASSUME NEW q \in players'
          PROVE  IF worm'[q] = None THEN q \in remote'
                 ELSE /\ IsWorm(worm[q])' /\ worm'[q] \notin marked'
                      /\ owner'[worm'[q]] = q
                      /\ \A r \in players' : worm'[r] = worm'[q] => r = q
      BY <2>1, <2>2, <2>3 DEF IInv, WormsAreWhole, IsWorm, TypeOK, O!SetTypeOK
    <3>2. \A x \in Object : IsWorm(x)' => \/ x \in marked'
                                          \/ \E q \in players' : worm'[q] = x
                                          \/ x \in remote' \ linked'
      BY <2>1, <2>2, <2>3 DEF IInv, WormsAreWhole, IsWorm, TypeOK, O!SetTypeOK
    <3>3. QED
      BY <2>4, <3>1, <3>2 DEF WormsAreWhole, IsWorm
  <2>6. OnlyStraysDangle' /\ NamesAreKnown' /\ OthersAreUnhurt'
    BY <2>1, <2>2 DEF IInv, WormsAreWhole, TypeOK, OnlyStraysDangle, NamesAreKnown, OthersAreUnhurt, Live
  <2>7. WaitingIsNoWorm' /\ ClearedWithoutPlayers' /\ ThinkInTime' /\ GivenOnce'
    BY <2>1 DEF IInv, WormsAreWhole, TypeOK, WaitingIsNoWorm, ClearedWithoutPlayers, ThinkInTime, GivenOnce
  <2>8. QED
    BY <2>5, <2>6, <2>7 DEF IInv
<1>3. QED
  BY <1>1, <1>2

(* A player is deleted: its name stays with what waits, and its worm is marked. *)
LEMMA DeleteStep ==
  ASSUME IInv, NEW p \in Player, deleteThis(p)
  PROVE  IInv'
<1> USE OwnersAssumption
<1>1. \/ worm[p] = None /\ marked' = marked
      \/ /\ worm[p] \in listed /\ worm[p] \in Worm /\ worm[p] # None /\ worm[p] \in linked
         /\ marked' = marked \cup {worm[p]}
  BY DEF IInv, deleteThis, O!Mark, WormsAreWhole, IsWorm, GivenOnce
<1>2. /\ p \in players /\ p \notin gone /\ worm' = [worm EXCEPT ![p] = None]
      /\ players' = players \ {p} /\ gone' = gone \cup {p} /\ playerMark' = playerMark \ {p}
      /\ stray' = stray \cup {o \in pending : owner[o] = p} /\ remote' = remote \ {p}
      /\ UNCHANGED <<listed, pending, lost, place, todo, phase, loaded, stage, toThink, client, linked>>
  BY DEF IInv, deleteThis, O!Mark, loopVars, WormsAreWhole, TypeOK
<1>3. /\ owner' = [o \in Object |-> IF o \in listed /\ owner[o] = p THEN None ELSE owner[o]]
      /\ lastHurt' = [o \in Object |-> IF o \in listed /\ lastHurt[o] = p THEN None ELSE lastHurt[o]]
  BY DEF deleteThis, removeRefsToPlayer, removeRefs
<1>4. toThink = {}
  BY DEF IInv, ThinkInTime, deleteThis
<1>5. TypeOK'
  BY <1>1, <1>2, <1>3, <1>4 DEF IInv, WormsAreWhole, TypeOK, O!SetTypeOK, O!OnePlace, O!Place,
                          O!Phase, PlayerOrNone
<1>6. WormsAreWhole'
  <2>1. ASSUME NEW q \in players'
        PROVE  IF worm'[q] = None THEN q \in remote'
               ELSE /\ IsWorm(worm[q])' /\ worm'[q] \notin marked'
                    /\ owner'[worm'[q]] = q
                    /\ \A r \in players' : worm'[r] = worm'[q] => r = q
    BY <1>1, <1>2, <1>3 DEF IInv, WormsAreWhole, IsWorm, TypeOK, O!SetTypeOK
  <2>2. \A x \in Object : IsWorm(x)' => \/ x \in marked'
                                        \/ \E q \in players' : worm'[q] = x
                                        \/ x \in remote' \ linked'
    <3>1. ASSUME NEW x \in Object, IsWorm(x)'
          PROVE  x \in marked \/ (\E q \in players : worm[q] = x) \/ x \in remote \ linked
      BY <1>2, <3>1 DEF IInv, WormsAreWhole, IsWorm
    <3>2. ASSUME NEW x \in Object, x \in remote \ linked PROVE x \in remote' \ linked'
      BY <1>2, <3>2
    <3>3. ASSUME NEW x \in Object, NEW q \in players, worm[q] = x
          PROVE  x \in marked' \/ \E k \in players' : worm'[k] = x
      BY <1>1, <1>2, <3>3 DEF IInv, WormsAreWhole, TypeOK
    <3>4. marked \subseteq marked'
      BY <1>1
    <3>5. ASSUME NEW x \in Object, IsWorm(x)'
          PROVE  x \in marked' \/ (\E q \in players' : worm'[q] = x) \/ x \in remote' \ linked'
      <4>1. CASE x \in marked
        BY <3>4, <4>1
      <4>2. CASE \E q \in players : worm[q] = x
        BY <3>3, <4>2
      <4>3. CASE x \in remote \ linked
        BY <3>2, <4>3
      <4>4. QED
        BY <3>1, <3>5, <4>1, <4>2, <4>3
    <3>6. QED
      BY <3>5
  <2>3. QED
    BY <1>5, <2>1, <2>2 DEF WormsAreWhole, IsWorm
<1>7. OnlyStraysDangle' /\ NamesAreKnown' /\ OthersAreUnhurt'
  BY <1>2, <1>3 DEF IInv, WormsAreWhole, TypeOK, O!SetTypeOK, OnlyStraysDangle, NamesAreKnown,
                    OthersAreUnhurt, Live
<1>8. WaitingIsNoWorm' /\ ClearedWithoutPlayers' /\ ThinkInTime' /\ GivenOnce'
  BY <1>1, <1>2 DEF IInv, WormsAreWhole, TypeOK, WaitingIsNoWorm, ClearedWithoutPlayers, ThinkInTime,
                    GivenOnce
<1>9. QED
  BY <1>6, <1>7, <1>8 DEF IInv

(* Every step of the program keeps the invariant. *)
LEMMA NextIInv == IInv /\ [Next]_ownersVars => IInv'
<1> SUFFICES ASSUME IInv, [Next]_ownersVars PROVE IInv'
  OBVIOUS
<1>1. CASE Loop
  BY <1>1, LoopStep, EraseStep, PassesStep, DeleteStep DEF Loop
<1>2. CASE reset \/ changeLevel \/ leave
  BY <1>2, LoopStep
<1>3. CASE \E o \in Object :
             \/ remove(o) \/ respawn(o)
             \/ \E b \in Object : MakeByObject(b, o) \/ damage(b, o)
             \/ \E c \in Cell : requestWorm(o, c)
  BY <1>3, HurtStep, MakeStep, RequestWormStep
<1>4. CASE \E p \in Player :
             \/ markPlayer(p) \/ requestPlayer(p)
             \/ \E o \in Object : \/ MakeByPlayer(p, o) \/ assignWorm(p, o)
                                  \/ \E c \in Cell : addPlayer(p, o, c)
  BY <1>4, HurtStep, MakeStep, JoinStep, LinkStep
<1>5. CASE \E p \in Player \cup {None}, o \in Object : MakeByPacket(p, o) \/ die(o, p)
  BY <1>5, MakeStep, DieStep
<1>6. CASE UNCHANGED ownersVars
  BY <1>6 DEF ownersVars, objVars, loopVars, playerVars, refVars, netVars, IInv, WormsAreWhole, TypeOK,
              O!SetTypeOK, O!OnePlace, IsWorm, OnlyStraysDangle, NamesAreKnown, OthersAreUnhurt,
              WaitingIsNoWorm, ClearedWithoutPlayers, ThinkInTime, GivenOnce, Live
<1>7. QED
  BY <1>1, <1>2, <1>3, <1>4, <1>5, <1>6 DEF Next

-----------------------------------------------------------------------------

(* The inductive invariant holds of every behaviour. *)
THEOREM SpecIInv == FairSpec => []IInv
  BY InitIInv, NextIInv, PTL DEF FairSpec

(* However players and worms are made, linked and deleted: the worm of a     *)
(* player is in the grid, unmarked and its own, only a client's player is     *)
(* without one, and a worm without a player is marked or a client's that was  *)
(* never given to one.                                                         *)
THEOREM SpecWormsAreWhole == FairSpec => []WormsAreWhole
<1>1. IInv => WormsAreWhole
  BY DEF IInv
<1>2. QED
  BY <1>1, SpecIInv, PTL

(* What names a deleted player waited when it was deleted, or comes of what did. *)
THEOREM SpecOnlyStraysDangle == FairSpec => []OnlyStraysDangle
<1>1. IInv => OnlyStraysDangle
  BY DEF IInv
<1>2. QED
  BY <1>1, SpecIInv, PTL

-----------------------------------------------------------------------------
(* The players use the grid as ObjectSet allows. *)

(* A step of the program is one of the set of objects, or leaves it alone. *)
LEMMA NextObjects == IInv /\ [Next]_ownersVars => [O!Next]_(O!setVars)
<1> SUFFICES ASSUME IInv, [Next]_ownersVars PROVE O!Next \/ UNCHANGED objVars
  BY DEF O!setVars, objVars
<1>1. ASSUME NEW o \in Object, Erase(o) \/ Clear(o) \/ Pass(o) PROVE O!Next
  <2>1. place[o] \in O!Place
    BY DEF IInv, WormsAreWhole, TypeOK, O!SetTypeOK
  <2>2. QED
    BY <1>1, <2>1 DEF Erase, Clear, Pass, O!Next
<1>2. ASSUME NEW p \in Player, PlayerThought(p) \/ deleteThis(p)
      PROVE  O!Next \/ UNCHANGED objVars
  <2>1. CASE PlayerThought(p)
    BY <2>1 DEF PlayerThought
  <2>2. CASE deleteThis(p)
    <3>1. worm[p] \in Object \cup {None}
      BY DEF IInv, WormsAreWhole, TypeOK
    <3>2. CASE worm[p] = None
      <4>1. marked' = marked
        BY <2>2, <3>2 DEF deleteThis, O!Mark
      <4>2. QED
        BY <2>2, <4>1 DEF deleteThis, O!Mark, objVars
    <3>3. CASE worm[p] # None
      <4>1. {worm[p]} \ {None} = {worm[p]}
        BY <3>3
      <4>2. QED
        BY <2>2, <3>1, <3>3, <4>1 DEF deleteThis, O!Next
    <3>4. QED
      BY <3>2, <3>3
  <2>3. QED
    BY <1>2, <2>1, <2>2
<1>3. CASE Loop
  <2>1. CASE EndPlayers \/ EndDelete
    BY <2>1 DEF EndPlayers, EndDelete
  <2>2. CASE BeginErase \/ EndErase \/ EndThink \/ EndFlush \/ BeginClear \/ EndClear
    BY <2>2 DEF BeginErase, EndErase, EndThink, EndFlush, BeginClear, EndClear, O!Next
  <2>3. QED
    BY <1>1, <1>2, <1>3, <2>1, <2>2 DEF Loop
<1>4. CASE reset \/ changeLevel \/ leave
  BY <1>4 DEF reset, changeLevel, leave, O!Next
<1>5. ASSUME NEW o \in Object, remove(o) PROVE O!Next
  BY <1>5 DEF remove, O!Next
<1>6. ASSUME NEW o \in Object, O!Insert(o, NoCell) PROVE O!Next
  <2>1. NoCell \in O!Place
    BY DEF O!Place
  <2>2. QED
    BY <1>6, <2>1 DEF O!Next
<1>7. ASSUME NEW o \in Object,
             \/ \E b \in Object : MakeByObject(b, o)
             \/ \E p \in Player : MakeByPlayer(p, o)
             \/ \E p \in Player \cup {None} : MakeByPacket(p, o)
      PROVE  O!Next
  BY <1>6, <1>7 DEF MakeByObject, MakeByPlayer, MakeByPacket
<1>8. ASSUME NEW o \in Object, NEW p \in Player \cup {None}, die(o, p)
      PROVE  O!Next \/ UNCHANGED objVars
  BY <1>6, <1>8 DEF die
<1>9. ASSUME NEW o \in Object, respawn(o) \/ \E b \in Object : damage(b, o)
      PROVE  UNCHANGED objVars
  BY <1>9 DEF respawn, damage
<1>10. ASSUME NEW p \in Player,
              markPlayer(p) \/ requestPlayer(p) \/ \E o \in Object : assignWorm(p, o)
       PROVE  UNCHANGED objVars
  BY <1>10 DEF markPlayer, requestPlayer, assignWorm
<1>11. ASSUME NEW o \in Object, NEW c \in Cell, requestWorm(o, c) \/ \E p \in Player : addPlayer(p, o, c)
       PROVE  O!Next
  BY <1>11 DEF requestWorm, addPlayer, O!Next, O!Place
<1>12. CASE UNCHANGED ownersVars
  BY <1>12 DEF ownersVars
<1>13. QED
  BY <1>3, <1>4, <1>5, <1>7, <1>8, <1>9, <1>10, <1>11, <1>12 DEF Next

(* Owners implements ObjectSet: all it asks of the grid is what the grid promises. *)
THEOREM SpecObjectSet == FairSpec => O!Spec
<1>1. Init => O!Init
  BY DEF Init
<1>2. QED
  BY <1>1, NextObjects, SpecIInv, PTL DEF FairSpec, O!Spec
=============================================================================
