-------------------------------- MODULE Weapon --------------------------------
(***************************************************************************)
(* One weapon of one worm, and its ninja rope, as the machines of a game   *)
(* each hold them: Weapon of Goop/weapon.cpp and NinjaRope of              *)
(* Goop/ninjarope.cpp, driven by the worm (Goop/base_worm.cpp,             *)
(* Goop/net_worm.cpp), by its player (Goop/base_player.cpp) and by the     *)
(* keys of the player (Goop/player.cpp).                                   *)
(*                                                                         *)
(* The server has the authority over the worm, one client owns it and      *)
(* aims and shoots ahead of the server, the other clients are proxies.     *)
(* The copies keep in step by events of the worm's network node and of the *)
(* player's node.  The library delivers the events of one node to one      *)
(* machine in order and without loss (eZCom_ReliableOrdered); nothing is   *)
(* assumed of events of different nodes.                                   *)
(*                                                                         *)
(* The worm has MaxWeapons slots, and this weapon is the one of Slot.  A   *)
(* selection of weapons fills the first slots anew and leaves the others   *)
(* empty, and a machine takes no weapon from a slot that it has empty.     *)
(*                                                                         *)
(* Scripts are abstracted to what reaches this state: primary_shoot uses   *)
(* ShotUse rounds; inactiveTime, which only scripts set, may keep a weapon *)
(* from shooting in any tick.                                              *)
(***************************************************************************)
EXTENDS Integers, Sequences, FiniteSets, SequencesExt

CONSTANTS
  Server, Owner,     \* the machine with the authority, the owner's client
  Proxies,           \* the other clients
  MaxWeapons,        \* game.options.maxWeapons, the length of m_weapons
  Slot,              \* the slot of this weapon
  MaxAmmo,           \* m_type->ammo
  ReloadTime,        \* m_type->reloadTime
  ShotUse,           \* what the script of a shot passes to use_ammo
  SyncShot,          \* m_type->syncHax, "sync_shot" in a weapon's script
  SyncReload,        \* m_type->syncReload, "sync_reload"
  MaxInFlight        \* bound: events on their way when one more is sent

ASSUME WeaponAssumption ==
  /\ Server # Owner /\ {Server, Owner} \cap Proxies = {}
  /\ MaxWeapons \in Nat \ {0} /\ Slot \in 0..MaxWeapons-1
  /\ MaxAmmo \in Nat \ {0} /\ ReloadTime \in Nat /\ ShotUse \in Nat \ {0}
  /\ SyncShot \in BOOLEAN /\ SyncReload \in BOOLEAN
  /\ MaxInFlight \in Nat \ {0}

Clients  == {Owner} \cup Proxies
Machines == {Server} \cup Clients
Slots    == 0..MaxWeapons-1

VARIABLES
  weapon,            \* the copies
  outOfAmmoCheck,    \* of the server's copy; no other machine is sent one
  isActive,          \* m_isActive of the worm
  held,              \* the slots of m_weapons that hold a weapon
  currentWeapon,     \* the slot of the weapon in hand; it may be empty
  rope,              \* NinjaRope::active of the worm's rope
  present,           \* the clients that have joined
  toWorm,            \* events for the worm, to each machine
  toPlayer,          \* events for its player: actions begun and stopped
  trigger,           \* is the owner's FIRE key down
  thrown,            \* history: did the owner last shoot the rope, or take it in
  late,              \* history: the clients that joined during a reload of
                     \* the server's copy and missed that it had begun
  tangled,           \* history: the clients that took the rope in before a
                     \* SYNC told them that it was out
  astray             \* history: the server "refused" the owner's last change of
                     \* weapon and kept another, or a SYNC has "undone" it;
                     \* otherwise "no"

slots  == <<held, currentWeapon>>
copies == <<weapon, outOfAmmoCheck, isActive, slots, rope>>
history == <<thrown, late, tangled, astray>>
vars   == <<copies, present, toWorm, toPlayer, trigger, history>>

-----------------------------------------------------------------------------
(***************************************************************************)
(* The methods of a Weapon, on its record.                                 *)
(***************************************************************************)
Fresh == [ammo |-> MaxAmmo, reloading |-> FALSE, reloadTime |-> 0,
          m_outOfAmmo |-> FALSE, primaryShooting |-> FALSE]

useAmmo(w, amount) ==
  [w EXCEPT !.ammo = IF @ < amount THEN 0 ELSE @ - amount]

\* Mutant: whoever is out of ammo has none, so there is nothing to clear.
outOfAmmoKeepsAmmo(w) ==
  [w EXCEPT !.reloading = TRUE,
            !.reloadTime = IF w.reloading THEN @ ELSE ReloadTime]

outOfAmmo(w) ==
  [w EXCEPT !.ammo = 0,
            !.reloading = TRUE,
            !.reloadTime = IF w.reloading THEN @ ELSE ReloadTime]

reload(w) ==
  [w EXCEPT !.reloading = FALSE, !.ammo = MaxAmmo, !.m_outOfAmmo = FALSE]

\* reset() leaves outOfAmmoCheck alone.
reset(w) == Fresh

\* Is this weapon in hand?  Where the slot is empty, weapon[m] stands for none.
focused(m) == currentWeapon[m] = Slot /\ Slot \in held[m]

\* The machine decides when this weapon is empty and when it is full again.
Decides(m) == m = Server \/ ~SyncReload

\* Does copy w shoot in a tick of m in which inactiveTime has run out?
Shoots(m, w) ==
  /\ focused(m) /\ w.primaryShooting /\ w.ammo > 0
  /\ m \in Proxies => ~SyncShot

-----------------------------------------------------------------------------
(***************************************************************************)
(* Events.  Each sender names the events it sends to each machine; those   *)
(* to clients that have not joined go nowhere.                             *)
(***************************************************************************)
Event(type)         == [type |-> type]
AmmoCorrection(n)   == [type |-> "AmmoCorrection", ammo |-> n]
SetWeapon(k)        == [type |-> "SetWeapon", slot |-> k]
SYNC                == [type |-> "SYNC", active |-> isActive[Server],
                        rope |-> rope[Server], slot |-> currentWeapon[Server],
                        held |-> held[Server]]
\* taken is history: did the machine that sends it change to the slot itself?
ChangeWeapon(m, k)  == [type |-> "ChangeWeapon", slot |-> k, taken |-> k \in held[m]]
Action(a, start)    == [action |-> a, start |-> start]

If(b, s) == IF b THEN s ELSE <<>>

Listening(m) == m = Server \/ m \in present

\* Append Sent(m) to the events on their way to each machine m.
Send(channel, Sent(_)) ==
  [m \in Machines |-> If(Listening(m), channel[m] \o Sent(m))]

\* The bound: the server waits until no more than this is on its way over the
\* same channel, and the owner until none of its doings is under way.
RoomIn(channel, ms) == \A m \in ms : Len(channel[m]) < MaxInFlight
Room(m) ==
  IF m = Server THEN RoomIn(toWorm, Clients)
  ELSE RoomIn(toWorm, {Server}) /\ RoomIn(toPlayer, {Server} \cup Proxies)

-----------------------------------------------------------------------------
(***************************************************************************)
(* A tick of one machine: BaseWorm::think and in it Weapon::think.  On the *)
(* server the worm may have lost its last health, and then its weapons     *)
(* still think in that tick.  m_outOfAmmo keeps a client from asking the   *)
(* server twice.                                                           *)
(***************************************************************************)
RunsDry(m, w) == focused(m) /\ w.ammo <= 0 /\ ~w.reloading /\ ~w.m_outOfAmmo

NotesDry(m, w) ==
  LET noted == [w EXCEPT !.m_outOfAmmo = TRUE]
  IN  IF ~RunsDry(m, w) THEN w
      ELSE IF Decides(m) THEN outOfAmmo(noted) ELSE noted

ReloadDone(m, w) ==
  focused(m) /\ w.reloading /\ w.reloadTime = 0 /\ Decides(m)

TicksReload(m, w) ==
  IF ReloadDone(m, w) THEN reload(w)
  ELSE IF focused(m) /\ w.reloading /\ w.reloadTime > 0
         THEN [w EXCEPT !.reloadTime = @ - 1]
         ELSE w

Tick(m, die, shot) ==
  /\ isActive[m] /\ Room(m)
  /\ LET w1 == IF shot THEN useAmmo(weapon[m], ShotUse) ELSE weapon[m]
         w2 == NotesDry(m, w1)
         w3 == TicksReload(m, w2)
         ask == SyncReload /\ RunsDry(m, w1)
         Sent(n) ==
           IF m = Server /\ n \in Clients
             THEN If(die, <<Event("Die")>>)
                  \o If(shot /\ SyncShot /\ n \in Proxies, <<Event("SHOOT")>>)
                  \o If(ask, <<Event("OUTOFAMMO")>>)
                  \o If(SyncReload /\ ReloadDone(m, w2), <<Event("RELOADED")>>)
                  \o If(outOfAmmoCheck /\ w3.ammo > 0 /\ n = Owner,
                        <<AmmoCorrection(w3.ammo)>>)
             ELSE If(m = Owner /\ n = Server /\ ask,
                     <<Event("OutOfAmmoCheck")>>)
     IN  /\ weapon' = [weapon EXCEPT ![m] = w3]
         /\ isActive' = [isActive EXCEPT ![m] = ~die]
         /\ rope' = [rope EXCEPT ![m] = @ /\ ~die]
         /\ toWorm' = Send(toWorm, Sent)
  /\ outOfAmmoCheck' = (outOfAmmoCheck /\ m # Server)
  /\ UNCHANGED <<slots, present, toPlayer, trigger, history>>

Think(m) ==
  \E die \in {FALSE, m = Server}, shot \in {FALSE, Shoots(m, weapon[m])} :
    Tick(m, die, shot)

-----------------------------------------------------------------------------
(***************************************************************************)
(* The FIRE key and the rope.  The owner's machine acts at once and tells  *)
(* the server, which acts and tells the proxies.  A worm that is dead, or  *)
(* that has another weapon in hand or none, pays no attention to FIRE, and *)
(* a dead one shoots no rope; it is taken in at any time.                  *)
(***************************************************************************)
Pulled(m, on) ==
  IF isActive[m] /\ focused(m)
    THEN [weapon EXCEPT ![m].primaryShooting = on]
    ELSE weapon

Roped(m, on) ==
  IF on => isActive[m] THEN [rope EXCEPT ![m] = on] ELSE rope

\* BaseWorm::actionStart, actionStop.
Acted(m, a) ==
  /\ weapon' = IF a.action = "FIRE" THEN Pulled(m, a.start) ELSE weapon
  /\ rope' = IF a.action = "NINJAROPE" THEN Roped(m, a.start) ELSE rope

\* baseActionStart and baseActionStop on the owner's machine.
BaseAction(a) ==
  /\ Room(Owner)
  /\ Acted(Owner, a)
  /\ LET Sent(n) == If(n = Server, <<a>>) IN toPlayer' = Send(toPlayer, Sent)
  /\ UNCHANGED <<outOfAmmoCheck, isActive, slots, present, toWorm, late, tangled, astray>>

\* The player presses FIRE, or lets it go.
Fire(on) ==
  /\ trigger # on
  /\ trigger' = on
  /\ BaseAction(Action("FIRE", on))
  /\ UNCHANGED thrown

\* JUMP together with CHANGE shoots the rope; JUMP alone takes it in, unless
\* it asks for a new life.
Rope(on) ==
  /\ on \/ isActive[Owner]
  /\ thrown' = on
  /\ BaseAction(Action("NINJAROPE", on))
  /\ UNCHANGED trigger

\* CHANGE pressed while FIRE is down: the owner's copy alone stops.
HoldFire ==
  /\ trigger
  /\ weapon' = Pulled(Owner, FALSE)
  /\ UNCHANGED <<outOfAmmoCheck, isActive, slots, rope, present, toWorm, toPlayer,
                 trigger, history>>

OnItsWay(m, types) == \E i \in DOMAIN toWorm[m] : toWorm[m][i].type \in types

\* BasePlayer::think takes an ACTION_START or ACTION_STOP.  What the server
\* does it passes on to the proxies.
ReceivePlayer(m) ==
  /\ toPlayer[m] # <<>>
  /\ m = Server => RoomIn(toPlayer, Clients)
  /\ LET a       == Head(toPlayer[m])
         taken   == [toPlayer EXCEPT ![m] = Tail(@)]
         Sent(n) == If(m = Server /\ n \in Proxies, <<a>>)
     IN  /\ Acted(m, a) /\ toPlayer' = Send(taken, Sent)
         /\ tangled' = IF a.action # "NINJAROPE" THEN tangled
                       ELSE IF ~a.start /\ OnItsWay(m, {"SYNC"}) THEN tangled \cup {m}
                       ELSE tangled \ {m}
  /\ UNCHANGED <<outOfAmmoCheck, isActive, slots, present, toWorm, trigger,
                 thrown, late, astray>>

-----------------------------------------------------------------------------
(***************************************************************************)
(* What the worm does with its weapons.                                    *)
(***************************************************************************)
\* Mutant: the weapon in hand so far is not stopped.
ChangedUnstopped(m, k) ==
  /\ currentWeapon' = IF k \in held[m] THEN [currentWeapon EXCEPT ![m] = k] ELSE currentWeapon
  /\ UNCHANGED weapon

\* BaseWorm::changeWeaponTo: the weapon in hand so far stops; the new slot is
\* refused if it is empty.
Changed(m, k) ==
  /\ currentWeapon' = IF k \in held[m] THEN [currentWeapon EXCEPT ![m] = k] ELSE currentWeapon
  /\ weapon' = IF focused(m) THEN [weapon EXCEPT ![m].primaryShooting = FALSE] ELSE weapon

\* The owner changes to a slot.  getWeaponIndexOffset gives one that holds a
\* weapon, or the slot in hand.
changeWeaponTo(k) ==
  /\ Room(Owner) /\ k \in held[Owner] \cup {currentWeapon[Owner]}
  /\ Changed(Owner, k)
  /\ LET Sent(n) == If(n = Server, <<ChangeWeapon(Owner, k)>>)
     IN  toWorm' = Send(toWorm, Sent)
  /\ astray' = "no"
  /\ UNCHANGED <<outOfAmmoCheck, isActive, held, rope, present, toPlayer, trigger,
                 thrown, late, tangled>>

\* The server brings a dead worm back: on request or because time is up.
respawn ==
  /\ ~isActive[Server] /\ Room(Server)
  /\ isActive' = [isActive EXCEPT ![Server] = TRUE]
  /\ weapon' = [weapon EXCEPT ![Server] = reset(@)]
  /\ LET Sent(n) == If(n # Server, <<Event("Respawn")>>)
     IN  toWorm' = Send(toWorm, Sent)
  /\ UNCHANGED <<outOfAmmoCheck, slots, rope, present, toPlayer, trigger, history>>

\* Mutant: the clients do not hear that the slots were cleared.
setWeaponsUncleared(n) ==
  /\ Room(Server)
  /\ weapon' = [weapon EXCEPT ![Server] = Fresh]
  /\ held' = [held EXCEPT ![Server] = 0..n-1]
  /\ outOfAmmoCheck' = FALSE
  /\ LET Sent(m) == If(m # Server, [i \in 1..n |-> SetWeapon(i - 1)])
     IN  toWorm' = Send(toWorm, Sent)
  /\ UNCHANGED <<isActive, currentWeapon, rope, present, toPlayer, trigger, history>>

\* The server gives the worm a selection of n weapons, at the player's request
\* or for a script: it clears the slots and fills the first n.  The weapon of
\* Slot, if it is one of them, is new and of the same type.
setWeapons(n) ==
  /\ Room(Server)
  /\ weapon' = [weapon EXCEPT ![Server] = Fresh]
  /\ held' = [held EXCEPT ![Server] = 0..n-1]
  /\ outOfAmmoCheck' = FALSE
  /\ LET Sent(m) == If(m # Server, <<Event("ClearWeapons")>>
                                     \o [i \in 1..n |-> SetWeapon(i - 1)])
     IN  toWorm' = Send(toWorm, Sent)
  /\ UNCHANGED <<isActive, currentWeapon, rope, present, toPlayer, trigger, history>>

\* A client joins: its worm comes from the constructor, and sendSyncMessage
\* answers eZCom_EventInit with the types of the weapons, not their state.
Join(c) ==
  /\ c \notin present
  /\ present' = present \cup {c}
  /\ toWorm' = [toWorm EXCEPT ![c] = <<SYNC>>]
  /\ late' = IF weapon[Server].reloading THEN late \cup {c} ELSE late
  /\ UNCHANGED <<copies, toPlayer, trigger, thrown, tangled, astray>>

-----------------------------------------------------------------------------
(***************************************************************************)
(* NetWorm::think takes an event: Weapon::recieveMessage, and the events   *)
(* of the worm that concern its weapons.                                   *)
(***************************************************************************)
Messages == {"OUTOFAMMO", "RELOADED", "SHOOT", "AmmoCorrection"}

\* Mutant: a correction leaves the client believing that it is empty.
recieveMessageStillOut(w, e) ==
  CASE e.type = "OUTOFAMMO"       -> outOfAmmo(w)
    [] e.type = "RELOADED"        -> reload(w)
    [] e.type = "SHOOT"           -> [useAmmo(w, ShotUse) EXCEPT !.ammo = @ - 1]
    [] e.type = "AmmoCorrection"  -> [w EXCEPT !.ammo = e.ammo]

\* The weapon a message leaves.
recieveMessage(w, e) ==
  CASE e.type = "OUTOFAMMO"       -> outOfAmmo(w)
    [] e.type = "RELOADED"        -> reload(w)
    [] e.type = "SHOOT"           -> [useAmmo(w, ShotUse) EXCEPT !.ammo = @ - 1]
    [] e.type = "AmmoCorrection"  -> [w EXCEPT !.ammo = e.ammo,
                                               !.m_outOfAmmo = FALSE]

\* A message to an empty slot is dropped; a new weapon, or a new life, begins anew.
WeaponAfter(c, e) ==
  CASE e.type \in Messages -> IF Slot \in held[c] THEN recieveMessage(weapon[c], e)
                                                  ELSE weapon[c]
    [] e.type = "Respawn"                  -> reset(weapon[c])
    [] e.type \in {"SYNC", "ClearWeapons"} -> Fresh
    [] e.type = "SetWeapon"                -> IF e.slot = Slot THEN Fresh ELSE weapon[c]
    [] OTHER                               -> weapon[c]

HeldAfter(c, e) ==
  CASE e.type = "SYNC"         -> e.held
    [] e.type = "ClearWeapons" -> {}
    [] e.type = "SetWeapon"    -> held[c] \cup {e.slot}
    [] OTHER                   -> held[c]

ReceiveAtClient(c) ==
  LET e == Head(toWorm[c]) IN
  /\ c \in Clients /\ toWorm[c] # <<>>
  /\ toWorm' = [toWorm EXCEPT ![c] = Tail(@)]
  /\ IF e.type = "ChangeWeapon"
       THEN Changed(c, e.slot)
       ELSE /\ weapon' = [weapon EXCEPT ![c] = WeaponAfter(c, e)]
            /\ currentWeapon' = IF e.type = "SYNC" THEN [currentWeapon EXCEPT ![c] = e.slot]
                                                   ELSE currentWeapon
  /\ held' = [held EXCEPT ![c] = HeldAfter(c, e)]
  /\ isActive' = CASE e.type = "Die"     -> [isActive EXCEPT ![c] = FALSE]
                   [] e.type = "Respawn" -> [isActive EXCEPT ![c] = TRUE]
                   [] e.type = "SYNC"    -> [isActive EXCEPT ![c] = e.active]
                   [] OTHER              -> isActive
  /\ rope' = CASE e.type = "Die"  -> [rope EXCEPT ![c] = FALSE]
               [] e.type = "SYNC" -> [rope EXCEPT ![c] = e.rope]
               [] OTHER           -> rope
  /\ tangled' = IF e.type = "Die" THEN tangled \ {c} ELSE tangled
  /\ late' = IF e.type \in {"OUTOFAMMO", "RELOADED", "Respawn", "ClearWeapons"}
               THEN late \ {c} ELSE late
  /\ astray' = IF c = Owner /\ e.type = "SYNC" /\ e.slot # currentWeapon[c]
                 THEN "undone" ELSE astray
  /\ UNCHANGED <<outOfAmmoCheck, present, toPlayer, trigger, thrown>>

\* The server takes what the owner sends.  A change of weapon it passes on to
\* the proxies, also one that it refuses.
ReceiveAtServer ==
  LET e == Head(toWorm[Server])
      taken == [toWorm EXCEPT ![Server] = Tail(@)]
      Sent(n) == If(n \in Proxies /\ e.type = "ChangeWeapon",
                    <<ChangeWeapon(Server, e.slot)>>)
  IN
  /\ toWorm[Server] # <<>> /\ Room(Server)
  /\ toWorm' = Send(taken, Sent)
  /\ IF e.type = "ChangeWeapon"
       THEN /\ Changed(Server, e.slot)
            /\ astray' = IF astray = "undone" THEN astray
                         ELSE IF e.slot \in held[Server] \cup {currentWeapon[Server]} THEN "no"
                         ELSE "refused"
            /\ UNCHANGED outOfAmmoCheck
       ELSE /\ outOfAmmoCheck' = (outOfAmmoCheck \/ Slot \in held[Server])
            /\ UNCHANGED <<weapon, currentWeapon, astray>>
  /\ UNCHANGED <<isActive, held, rope, present, toPlayer, trigger, thrown, late, tangled>>

Receive(m) == ReceiveAtClient(m) \/ (m = Server /\ ReceiveAtServer)

-----------------------------------------------------------------------------
\* The worm is made when the owner joins, with a weapon in every slot, and is dead
\* until it spawns; the owner has yet to take the SYNC of its worm.
Init ==
  /\ weapon = [m \in Machines |-> Fresh]
  /\ outOfAmmoCheck = FALSE
  /\ isActive = [m \in Machines |-> FALSE]
  /\ held = [m \in Machines |-> Slots] /\ currentWeapon = [m \in Machines |-> 0]
  /\ rope = [m \in Machines |-> FALSE]
  /\ present = {Owner}
  /\ toWorm = [m \in Machines |-> If(m = Owner, <<SYNC>>)]
  /\ toPlayer = [m \in Machines |-> <<>>]
  /\ trigger = FALSE /\ thrown = FALSE
  /\ late = {} /\ tangled = {} /\ astray = "no"

Machine(m) == Think(m) \/ Receive(m) \/ ReceivePlayer(m)
Player     == \/ HoldFire \/ \E b \in BOOLEAN : Fire(b) \/ Rope(b)
              \/ \E k \in Slots : changeWeaponTo(k)
World      == \/ respawn \/ \E n \in 0..MaxWeapons : setWeapons(n)
              \/ \E c \in Clients : Join(c)

Next == (\E m \in Machines : Machine(m)) \/ Player \/ World

Spec == Init /\ [][Next]_vars

\* The server ticks for ever, and what is sent to a worm arrives; nothing else is
\* asked of clients or of the player's events.  Nothing forces a death or a shot.
\* Fairness is strong where the bound may stop the server again and again.
Fairness ==
  /\ SF_vars(Tick(Server, FALSE, FALSE)) /\ SF_vars(Receive(Server))
  /\ WF_vars(\E c \in Clients : Receive(c))

FairSpec == Spec /\ Fairness

-----------------------------------------------------------------------------
(***************************************************************************)
(* Properties                                                              *)
(***************************************************************************)
WormEvents ==
  [type : {"Die", "Respawn", "ClearWeapons", "SHOOT", "OUTOFAMMO", "RELOADED",
           "OutOfAmmoCheck"}]
    \cup [type : {"AmmoCorrection"}, ammo : 1..MaxAmmo]
    \cup [type : {"SetWeapon"}, slot : Slots]
    \cup [type : {"ChangeWeapon"}, slot : Slots, taken : BOOLEAN]
    \cup [type : {"SYNC"}, active : BOOLEAN, rope : BOOLEAN, slot : Slots,
          held : SUBSET Slots]
Actions == [action : {"FIRE", "NINJAROPE"}, start : BOOLEAN]

\* Types.  Only a SHOOT takes ammo below zero, and only by one.  The ammo of
\* the server's copy can be encoded: Encoding::encode asserts it.
TypeOK ==
  /\ \A m \in Machines :
       weapon[m] \in [ammo : -1..MaxAmmo, reloading : BOOLEAN,
                      reloadTime : 0..ReloadTime, m_outOfAmmo : BOOLEAN,
                      primaryShooting : BOOLEAN]
  /\ weapon[Server].ammo \in 0..MaxAmmo /\ weapon[Owner].ammo \in 0..MaxAmmo
  /\ outOfAmmoCheck \in BOOLEAN /\ trigger \in BOOLEAN
  /\ isActive \in [Machines -> BOOLEAN] /\ held \in [Machines -> SUBSET Slots]
  /\ currentWeapon \in [Machines -> Slots] /\ astray \in {"no", "refused", "undone"}
  /\ rope \in [Machines -> BOOLEAN] /\ thrown \in BOOLEAN
  /\ present \subseteq Clients /\ late \subseteq Clients /\ tangled \subseteq Proxies
  /\ toWorm \in [Machines -> Seq(WormEvents)]
  /\ toPlayer \in [Machines -> Seq(Actions)]

\* A copy that reloads is empty: no correction, shot or respawn of the
\* server's copy reaches another copy in the middle of a reload
\* (weapon.cpp: outOfAmmo, reload and AmmoCorrection).
ReloadingIsEmpty ==
  /\ TypeOK
  /\ \A m \in Machines : weapon[m].reloading => weapon[m].ammo <= 0

\* With no event on its way to a client, its worm lives or is dead, the same
\* slots hold weapons, and its weapon is being reloaded, as on the server, but
\* for a client that joined during the reload.  It has the server's slot in hand,
\* but for an owner whose last change has not reached the server, was undone by
\* a SYNC sent before it, or was refused, for the server had emptied the slot
\* (base_worm.cpp: changeWeaponTo; net_worm.cpp: SYNC, clearWeapons).
CopiesAgree ==
  \A c \in present : toWorm[c] = <<>> =>
    /\ isActive[c] = isActive[Server] /\ held[c] = held[Server]
    /\ SyncReload /\ c \notin late =>
         weapon[c].reloading = weapon[Server].reloading
    /\ \/ currentWeapon[c] = currentWeapon[Server]
       \/ c = Owner /\ (OnItsWay(Server, {"ChangeWeapon"}) \/ astray # "no")

\* With FIRE let go, or the rope taken in, and no event on its way, no living
\* copy goes on shooting and no copy has the rope out, whatever deaths, changes
\* of weapon and new lives came between; but for a client that took the rope in
\* before the SYNC that told it otherwise (base_player.cpp: baseActionStart,
\* baseActionStop; net_worm.cpp: Die, SYNC; player.cpp: CHANGE, JUMP).
ReleaseReachesAll ==
  (\A m \in Machines : toWorm[m] = <<>> /\ toPlayer[m] = <<>>) =>
    \A m \in Machines :
      /\ ~trigger /\ isActive[m] => ~weapon[m].primaryShooting
      /\ ~thrown /\ m \notin tangled => ~rope[m]

\* Ammo is drained by use_ammo alone, which stops at zero (ChangeLog:6).
\* The SHOOT case of recieveMessage takes one more.
UseAmmoStopsAtZero == \A m \in Machines : weapon[m].ammo >= 0

\* An owner out of ammo does not wait for ever while it keeps the weapon and
\* lives, also if the server has another weapon in hand since it refused the
\* owner's; but if a SYNC undid the owner's change, the server's copy may have been
\* emptied before it was put away, and then it neither answers nor reloads.
OwnerRecovers ==
  weapon[Owner].m_outOfAmmo
    ~> \/ ~weapon[Owner].m_outOfAmmo \/ ~focused(Owner) \/ ~isActive[Owner]
       \/ astray = "undone"
=============================================================================
