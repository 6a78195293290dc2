----------------------------- MODULE WeaponProofs -----------------------------
(***************************************************************************)
(* Proofs about Weapon, for every value of its constants: what its runs    *)
(* check of the copies of a weapon and of the events that keep them in     *)
(* step.                                                                   *)
(*                                                                         *)
(* The argument looks ahead.  Each event sets some part of a copy, or      *)
(* leaves it; the events on their way to a client settle on what the last  *)
(* of them that sets it says, or on what the client has.  The invariant is *)
(* that they settle on what the server has.                                *)
(***************************************************************************)
EXTENDS Weapon, SequenceTheorems, FiniteSetTheorems, TLAPS

-----------------------------------------------------------------------------
(***************************************************************************)
(* What events do to a part of a copy: an effect maps each event to the    *)
(* set of what it makes of that part, which is empty if it leaves it.      *)
(***************************************************************************)
ActiveEffect ==
  [e \in WormEvents |-> IF e.type = "Die" THEN {FALSE}
                        ELSE IF e.type = "Respawn" THEN {TRUE}
                        ELSE IF e.type = "SYNC" THEN {e.active} ELSE {}]

\* Of what the server changes to, the proxies hear; of what it refuses, too.
FocusEffect ==
  [e \in WormEvents |-> IF e.type = "ChangeWeapon" THEN IF e.taken THEN {e.slot} ELSE {}
                        ELSE IF e.type = "SYNC" THEN {e.slot} ELSE {}]

\* What the owner tells the server.
SlotEffect ==
  [e \in WormEvents |-> IF e.type = "ChangeWeapon" THEN {e.slot} ELSE {}]

\* Does slot k hold a weapon?
HeldEffect(k) ==
  [e \in WormEvents |-> IF e.type = "SetWeapon" THEN IF e.slot = k THEN {TRUE} ELSE {}
                        ELSE IF e.type = "ClearWeapons" THEN {FALSE}
                        ELSE IF e.type = "SYNC"
                               THEN IF k \in e.held THEN {TRUE} ELSE {FALSE}
                        ELSE {}]

\* The events that end what is left of a client that joined late.
Clearing == {"OUTOFAMMO", "RELOADED", "Respawn", "ClearWeapons"}

\* The events that set the weapon anew.
Anew(e) == e.type \in {"ClearWeapons", "SYNC"} \/ (e.type = "SetWeapon" /\ e.slot = Slot)

ReloadEffect ==
  [e \in WormEvents |-> IF e.type = "OUTOFAMMO" THEN {TRUE}
                        ELSE IF e.type \in Clearing \/ Anew(e) THEN {FALSE} ELSE {}]

\* From `from', the first n events of s settle on `to'.
Settles(effect, s, n, from, to) ==
  \/ to = from /\ \A i \in 1..n : effect[s[i]] = {}
  \/ \E k \in 1..n : /\ effect[s[k]] = {to}
                     /\ \A i \in 1..n : i > k => effect[s[i]] = {}

-----------------------------------------------------------------------------
ServerEvents == {e \in WormEvents : e.type \in {"OutOfAmmoCheck", "ChangeWeapon"}}
OwnerEvents  ==
  {e \in WormEvents : /\ e.type \in Clearing \cup {"Die", "AmmoCorrection", "SetWeapon", "SYNC"}
                      /\ e.type = "SYNC" => ~e.rope}
ProxyEvents  ==
  {e \in WormEvents :
     e.type \in Clearing \cup {"Die", "SHOOT", "ChangeWeapon", "SetWeapon", "SYNC"}}

Copy == [ammo : -1..MaxAmmo, reloading : BOOLEAN, reloadTime : 0..ReloadTime,
         m_outOfAmmo : BOOLEAN, primaryShooting : BOOLEAN]

\* The types.
Types ==
  /\ weapon \in [Machines -> Copy]
  /\ weapon[Server].ammo # -1 /\ weapon[Owner].ammo # -1
  /\ outOfAmmoCheck \in BOOLEAN /\ trigger \in BOOLEAN
  /\ isActive \in [Machines -> BOOLEAN] /\ held \in [Machines -> SUBSET Slots]
  /\ currentWeapon \in [Machines -> Slots] /\ astray \in {"no", "refused", "undone"}
  /\ rope \in [Machines -> BOOLEAN] /\ thrown \in BOOLEAN
  /\ present \subseteq Clients /\ Owner \in present
  /\ late \subseteq Proxies /\ tangled \subseteq Proxies
  /\ toPlayer \in [Machines -> Seq(Actions)] /\ toPlayer[Owner] = <<>>

\* What is sent to whom; SYNC is the first event that a client is sent.
ClientEvents(c) == IF c = Owner THEN OwnerEvents ELSE ProxyEvents
Told(c, q) ==
  \A i \in 1..Len(q) : q[i] \in ClientEvents(c) /\ (q[i].type = "SYNC" => i = 1)

Queues ==
  /\ toWorm \in [Machines -> Seq(WormEvents)]
  /\ \A i \in 1..Len(toWorm[Server]) : toWorm[Server][i] \in ServerEvents
  /\ \A c \in Clients : Told(c, toWorm[c])

\* A client that has not joined has the worm of the constructor and no events.
Joining ==
  \A c \in Clients \ present :
    ~isActive[c] /\ ~rope[c] /\ toWorm[c] = <<>> /\ toPlayer[c] = <<>>

ActiveAgrees ==
  \A c \in present :
    Settles(ActiveEffect, toWorm[c], Len(toWorm[c]), isActive[c], isActive[Server])

\* The server is ahead of the proxies, and the owner of the server, unless the
\* server refused what it was told last or the owner took back what it told.
FocusAgrees ==
  \A p \in present \ {Owner} :
    Settles(FocusEffect, toWorm[p], Len(toWorm[p]), currentWeapon[p], currentWeapon[Server])

Tells(q) == \E i \in 1..Len(q) : q[i].type = "ChangeWeapon"

OwnerAhead ==
  \/ astray = "undone"
  \/ astray = "refused" /\ ~Tells(toWorm[Server])
  \/ Settles(SlotEffect, toWorm[Server], Len(toWorm[Server]), currentWeapon[Server],
             currentWeapon[Owner])

\* Each client hears which slots hold weapons.
Holds(m, k) == IF k \in held[m] THEN TRUE ELSE FALSE
HeldAgrees ==
  \A c \in present, k \in Slots :
    Settles(HeldEffect(k), toWorm[c], Len(toWorm[c]), Holds(c, k), Holds(Server, k))

\* A message finds the weapon it is for, and a change finds the slot as the server
\* found it.
Finds(e, k, has) ==
  \/ e.type \in Messages /\ k = Slot /\ has = TRUE
  \/ e.type = "ChangeWeapon" /\ k = e.slot /\ has = e.taken
FindsHeld ==
  \A c \in Clients : \A i \in 1..Len(toWorm[c]) : \A k \in Slots, has \in BOOLEAN :
    Finds(toWorm[c][i], k, has) =>
      Settles(HeldEffect(k), toWorm[c], i - 1, Holds(c, k), has)

\* Who is to be answered has not lost the weapon since.
AnswersHeld == outOfAmmoCheck => Holds(Server, Slot)

IsCleared(c) == \E i \in 1..Len(toWorm[c]) : toWorm[c][i].type \in Clearing

ReloadAgrees ==
  SyncReload => \A c \in present :
    \/ c \in late /\ ~IsCleared(c) /\ weapon[Server].reloading
    \/ Settles(ReloadEffect, toWorm[c], Len(toWorm[c]), weapon[c].reloading,
               weapon[Server].reloading)

\* A correction is sent where the server decides, and reaches no copy in the
\* middle of a reload.
CorrectionFindsFull ==
  /\ ~SyncReload =>
       /\ ~outOfAmmoCheck
       /\ \A m \in Machines : \A i \in 1..Len(toWorm[m]) :
            toWorm[m][i].type \notin {"OutOfAmmoCheck", "AmmoCorrection"}
  /\ \A i \in 1..Len(toWorm[Owner]) : toWorm[Owner][i].type = "AmmoCorrection" =>
       Settles(ReloadEffect, toWorm[Owner], i - 1, weapon[Owner].reloading, FALSE)

EmptyOnReload == \A m \in Machines : weapon[m].reloading => weapon[m].ammo <= 0

\* What the owner's player last asked for.
Asked(a) == IF a = "FIRE" THEN trigger ELSE thrown

Stops(m, i, a) ==
  \E j \in 1..Len(toPlayer[m]) : j > i /\ toPlayer[m][j] = Action(a, FALSE)

\* What begins at m with the action i, or has begun if i is 0, will end, or the
\* player still asks for it.
Ends(m, i, a) ==
  Asked(a) \/ Stops(m, i, a) \/ (m \in Proxies /\ Stops(Server, 0, a))

ActionsEnd ==
  \A m \in Machines : \A i \in 1..Len(toPlayer[m]) : \A a \in {"FIRE", "NINJAROPE"} :
    toPlayer[m][i] = Action(a, TRUE) => Ends(m, i, a)

\* A weapon that is not held does not shoot, and one that shoots will stop.
ShootingEnds ==
  \A m \in Machines : weapon[m].primaryShooting =>
    focused(m) /\ (isActive[m] => Ends(m, 0, "FIRE"))

RopeTold(m) ==
  \E i \in 1..Len(toWorm[m]) : toWorm[m][i].type = "SYNC" /\ toWorm[m][i].rope

RopeEnds ==
  \A m \in Machines :
    rope[m] \/ RopeTold(m) => m \in tangled \/ Ends(m, 0, "NINJAROPE")

IInv ==
  /\ Types /\ Queues /\ Joining /\ ActiveAgrees /\ FocusAgrees /\ ReloadAgrees
  /\ CorrectionFindsFull /\ EmptyOnReload /\ ActionsEnd /\ ShootingEnds /\ RopeEnds
  /\ OwnerAhead /\ HeldAgrees /\ FindsHeld /\ AnswersHeld

-----------------------------------------------------------------------------
(***************************************************************************)
(* Sequences of events and what they settle on.                            *)
(***************************************************************************)
\* Taking the first event and doing what it says leaves the rest to settle on
\* the same.
LEMMA SettlesRest ==
  ASSUME NEW E, NEW s \in Seq(E), s # <<>>, NEW n \in 1..Len(s),
         NEW effect, NEW from, NEW mid, NEW to,
         Settles(effect, s, n, from, to),
         effect[Head(s)] = {mid} \/ (effect[Head(s)] = {} /\ mid = from)
  PROVE  Settles(effect, Tail(s), n - 1, mid, to)
<1>1. /\ Len(s) \in Nat /\ Head(s) = s[1]
      /\ \A i \in 1..n-1 : i + 1 \in 1..n /\ Tail(s)[i] = s[i + 1]
  BY HeadTailProperties, LenProperties
<1>2. CASE to = from /\ \A i \in 1..n : effect[s[i]] = {}
  <2>1. effect[Head(s)] = {}
    BY <1>1, <1>2
  <2>2. \A i \in 1..n-1 : effect[Tail(s)[i]] = {}
    BY <1>1, <1>2
  <2>3. mid = to
    BY <1>2, <2>1
  <2>4. QED
    BY <2>2, <2>3 DEF Settles
<1>3. CASE \E k \in 1..n : /\ effect[s[k]] = {to}
                           /\ \A i \in 1..n : i > k => effect[s[i]] = {}
  <2>1. PICK k \in 1..n : /\ effect[s[k]] = {to}
                          /\ \A i \in 1..n : i > k => effect[s[i]] = {}
    BY <1>3
  <2>2. CASE k = 1
    <3>1. mid = to
      BY <1>1, <2>1, <2>2
    <3>2. \A i \in 1..n-1 : effect[Tail(s)[i]] = {}
      BY <1>1, <2>1, <2>2
    <3>3. QED
      BY <3>1, <3>2 DEF Settles
  <2>3. CASE k # 1
    <3>1. k - 1 \in 1..n-1 /\ Tail(s)[k - 1] = s[k]
      BY <1>1, <2>3
    <3>2. \A i \in 1..n-1 : i > k - 1 => effect[Tail(s)[i]] = {}
      BY <1>1, <2>1
    <3>3. QED
      BY <2>1, <3>1, <3>2 DEF Settles
  <2>4. QED
    BY <2>2, <2>3
<1>4. QED
  BY <1>2, <1>3 DEF Settles

\* An event sent: where it stands, and that no other is moved.
LEMMA SentOne ==
  ASSUME NEW E, NEW s \in Seq(E), NEW e \in E
  PROVE  /\ s \o <<e>> \in Seq(E) /\ Len(s \o <<e>>) = Len(s) + 1
         /\ \A i \in 1..Len(s) : i \in 1..Len(s \o <<e>>) /\ (s \o <<e>>)[i] = s[i]
         /\ (s \o <<e>>)[Len(s) + 1] = e /\ Len(s) + 1 \in 1..Len(s \o <<e>>)
         /\ \A i \in 1..Len(s \o <<e>>) : i \in 1..Len(s) \/ i = Len(s) + 1
<1> DEFINE r == s \o <<e>>
<1>1. Len(s) \in Nat
  BY LenProperties
<1>2. <<e>> \in Seq(E) /\ Len(<<e>>) = 1 /\ <<e>>[1] = e
  OBVIOUS
<1>3. /\ r \in Seq(E) /\ Len(r) = Len(s) + 1
      /\ \A i \in 1..Len(s) + 1 :
           r[i] = IF i <= Len(s) THEN s[i] ELSE <<e>>[i - Len(s)]
  BY <1>2, ConcatProperties
<1> HIDE DEF r
<1>4. r[Len(s) + 1] = e
  BY <1>1, <1>2, <1>3
<1>5. \A i \in 1..Len(s) : i \in 1..Len(r) /\ r[i] = s[i]
  BY <1>1, <1>3
<1>6. Len(s) + 1 \in 1..Len(r) /\ \A i \in 1..Len(r) : i \in 1..Len(s) \/ i = Len(s) + 1
  BY <1>1, <1>3
<1>7. QED
  BY <1>3, <1>4, <1>5, <1>6 DEF r

\* An event sent if b: where it stands, and that no other is moved.
SentTo(E, s, b, e, r) ==
  /\ r \in Seq(E) /\ Len(r) = IF b THEN Len(s) + 1 ELSE Len(s)
  /\ \A i \in 1..Len(s) : i \in 1..Len(r) /\ r[i] = s[i]
  /\ \A i \in 1..Len(r) :
       \/ i \in 1..Len(s)
       \/ b /\ i = Len(s) + 1 /\ r[i] = e
  /\ b => Len(r) \in 1..Len(r) /\ r[Len(r)] = e

LEMMA SentIf ==
  ASSUME NEW E, NEW s \in Seq(E), NEW b \in BOOLEAN, NEW e, b => e \in E
  PROVE  SentTo(E, s, b, e, s \o If(b, <<e>>))
<1> DEFINE r == s \o If(b, <<e>>)
<1>2. CASE b
  <2>1. r = s \o <<e>>
    BY <1>2 DEF If
  <2> HIDE DEF r
  <2>2. /\ r \in Seq(E) /\ Len(r) = Len(s) + 1 /\ r[Len(s) + 1] = e
        /\ \A i \in 1..Len(s) : i \in 1..Len(r) /\ r[i] = s[i]
        /\ Len(s) + 1 \in 1..Len(r)
        /\ \A i \in 1..Len(r) : i \in 1..Len(s) \/ i = Len(s) + 1
    BY <1>2, <2>1, SentOne
  <2>3. SentTo(E, s, b, e, r)
    BY <1>2, <2>2 DEF SentTo
  <2>4. QED
    BY <2>3 DEF r
<1>3. CASE ~b
  <2>1. r = s
    BY <1>3, ConcatEmptySeq DEF If
  <2> HIDE DEF r
  <2>2. SentTo(E, s, b, e, r)
    BY <1>3, <2>1 DEF SentTo
  <2>3. QED
    BY <2>2 DEF r
<1>4. QED
  BY <1>2, <1>3

\* What the events of s say is not changed by one sent behind them.
LEMMA SettlesBefore ==
  ASSUME NEW s, NEW r, NEW n \in Nat, NEW effect, NEW from, NEW to,
         \A i \in 1..n : r[i] = s[i]
  PROVE  Settles(effect, r, n, from, to) <=> Settles(effect, s, n, from, to)
BY DEF Settles

\* One sent behind them has the last word, if it says anything.
LEMMA SettlesSentIf ==
  ASSUME NEW E, NEW s \in Seq(E), NEW b \in BOOLEAN, NEW e, NEW r, SentTo(E, s, b, e, r),
         NEW effect, NEW from, NEW to,
         \/ b /\ effect[e] = {to}
         \/ (b => effect[e] = {}) /\ Settles(effect, s, Len(s), from, to)
  PROVE  Settles(effect, r, Len(r), from, to)
<1>1. /\ r \in Seq(E) /\ Len(r) = IF b THEN Len(s) + 1 ELSE Len(s)
      /\ \A i \in 1..Len(s) : i \in 1..Len(r) /\ r[i] = s[i]
      /\ \A i \in 1..Len(r) : \/ i \in 1..Len(s)
                              \/ b /\ i = Len(s) + 1 /\ r[i] = e
      /\ b => Len(r) \in 1..Len(r) /\ r[Len(r)] = e
  BY DEF SentTo
<1>2. Len(s) \in Nat /\ Len(r) \in Nat
  BY <1>1, LenProperties
<1>3. CASE b /\ effect[e] = {to}
  <2>1. \A i \in 1..Len(r) : ~(i > Len(r))
    BY <1>2
  <2>2. QED
    BY <1>1, <1>3, <2>1 DEF Settles
<1>4. CASE (b => effect[e] = {}) /\ Settles(effect, s, Len(s), from, to)
  <2>1. \A i \in 1..Len(r) : i \notin 1..Len(s) => effect[r[i]] = {}
    BY <1>1, <1>4
  <2>2. CASE to = from /\ \A i \in 1..Len(s) : effect[s[i]] = {}
    <3>1. \A i \in 1..Len(r) : effect[r[i]] = {}
      BY <1>1, <2>1, <2>2
    <3>2. QED
      BY <2>2, <3>1 DEF Settles
  <2>3. CASE \E k \in 1..Len(s) : /\ effect[s[k]] = {to}
                                  /\ \A i \in 1..Len(s) : i > k => effect[s[i]] = {}
    <3>1. PICK k \in 1..Len(s) : /\ effect[s[k]] = {to}
                                 /\ \A i \in 1..Len(s) : i > k => effect[s[i]] = {}
      BY <2>3
    <3>2. k \in 1..Len(r) /\ effect[r[k]] = {to}
      BY <1>1, <3>1
    <3>3. \A i \in 1..Len(r) : i > k => effect[r[i]] = {}
      BY <1>1, <2>1, <3>1
    <3>4. QED
      BY <3>2, <3>3 DEF Settles
  <2>4. QED
    BY <1>4, <2>2, <2>3 DEF Settles
<1>5. QED
  BY <1>3, <1>4

\* Events sent that leave a part of a copy leave what any number of them settles on.
LEMMA SettlesQuiet ==
  ASSUME NEW s, NEW r, NEW l \in Nat, NEW n \in Nat, l <= n, NEW effect, NEW from, NEW to,
         \A i \in 1..l : r[i] = s[i],
         \A i \in 1..n : i \in 1..l \/ effect[r[i]] = {},
         Settles(effect, s, l, from, to)
  PROVE  Settles(effect, r, n, from, to)
<1>1. \A i \in 1..l : i \in 1..n
  OBVIOUS
<1>2. CASE to = from /\ \A i \in 1..l : effect[s[i]] = {}
  <2>1. \A i \in 1..n : effect[r[i]] = {}
    BY <1>2
  <2>2. QED
    BY <1>2, <2>1 DEF Settles
<1>3. CASE \E k \in 1..l : /\ effect[s[k]] = {to}
                           /\ \A i \in 1..l : i > k => effect[s[i]] = {}
  <2>1. PICK k \in 1..l : /\ effect[s[k]] = {to}
                          /\ \A i \in 1..l : i > k => effect[s[i]] = {}
    BY <1>3
  <2>2. k \in 1..n /\ effect[r[k]] = {to}
    BY <1>1, <2>1
  <2>3. \A i \in 1..n : i > k => effect[r[i]] = {}
    BY <2>1
  <2>4. QED
    BY <2>2, <2>3 DEF Settles
<1>4. QED
  BY <1>2, <1>3 DEF Settles

\* Where t begins what s settles on, or does not leave it, the two together settle on
\* what t does.
LEMMA SettlesOn ==
  ASSUME NEW E, NEW s \in Seq(E), NEW t \in Seq(E), NEW effect, NEW from, NEW mid, NEW to,
         mid # to \/ Settles(effect, s, Len(s), from, mid),
         Settles(effect, t, Len(t), mid, to)
  PROVE  Settles(effect, s \o t, Len(s \o t), from, to)
<1> DEFINE r == s \o t
<1>1. /\ Len(s) \in Nat /\ Len(t) \in Nat /\ Len(r) = Len(s) + Len(t)
      /\ \A i \in 1..Len(r) : r[i] = IF i <= Len(s) THEN s[i] ELSE t[i - Len(s)]
  BY ConcatProperties, LenProperties
<1> HIDE DEF r
<1>2. \A i \in 1..Len(t) : Len(s) + i \in 1..Len(r) /\ r[Len(s) + i] = t[i]
  <2> SUFFICES ASSUME NEW i \in 1..Len(t)
               PROVE  Len(s) + i \in 1..Len(r) /\ r[Len(s) + i] = t[i]
    OBVIOUS
  <2>1. Len(s) + i \in 1..Len(r) /\ ~(Len(s) + i <= Len(s)) /\ (Len(s) + i) - Len(s) = i
    BY <1>1
  <2>2. QED
    BY <1>1, <2>1
<1>3. \A i \in 1..Len(r) : i \in 1..Len(s) \/ i - Len(s) \in 1..Len(t)
  BY <1>1
<1>4. \A i \in 1..Len(s) : i \in 1..Len(r) /\ r[i] = s[i]
  BY <1>1
<1>5. CASE \E k \in 1..Len(t) : /\ effect[t[k]] = {to}
                                /\ \A i \in 1..Len(t) : i > k => effect[t[i]] = {}
  <2>1. PICK k \in 1..Len(t) : /\ effect[t[k]] = {to}
                               /\ \A i \in 1..Len(t) : i > k => effect[t[i]] = {}
    BY <1>5
  <2>2. Len(s) + k \in 1..Len(r) /\ effect[r[Len(s) + k]] = {to}
    BY <1>2, <2>1
  <2>3. \A i \in 1..Len(r) : i > Len(s) + k => effect[r[i]] = {}
    <3> SUFFICES ASSUME NEW i \in 1..Len(r), i > Len(s) + k
                 PROVE  effect[r[i]] = {}
      OBVIOUS
    <3>1. PICK j \in 1..Len(t) : j = i - Len(s)
      BY <1>1, <1>3
    <3>2. j > k /\ Len(s) + j = i
      BY <1>1, <3>1
    <3>3. r[i] = t[j] /\ effect[t[j]] = {}
      BY <1>2, <2>1, <3>2
    <3>4. QED
      BY <3>3
  <2>4. Settles(effect, r, Len(r), from, to)
    BY <2>2, <2>3 DEF Settles
  <2>5. QED
    BY <2>4 DEF r
<1>6. CASE to = mid /\ \A i \in 1..Len(t) : effect[t[i]] = {}
  <2>1. \A i \in 1..Len(r) : i \in 1..Len(s) \/ effect[r[i]] = {}
    <3> SUFFICES ASSUME NEW i \in 1..Len(r), i \notin 1..Len(s)
                 PROVE  effect[r[i]] = {}
      OBVIOUS
    <3>1. i - Len(s) \in 1..Len(t) /\ Len(s) + (i - Len(s)) = i
      BY <1>1, <1>3
    <3>2. QED
      BY <1>2, <1>6, <3>1
  <2>2. Len(r) \in Nat /\ Len(s) <= Len(r)
    BY <1>1
  <2>3. Settles(effect, s, Len(s), from, to)
    BY <1>6
  <2>4. Settles(effect, r, Len(r), from, to)
    BY <1>1, <1>4, <2>1, <2>2, <2>3, SettlesQuiet
  <2>5. QED
    BY <2>4 DEF r
<1>7. QED
  BY <1>5, <1>6 DEF Settles

-----------------------------------------------------------------------------
(***************************************************************************)
(* The machines, and what leaves most of the invariant alone.              *)
(***************************************************************************)
LEMMA TheMachines ==
  /\ Server \in Machines /\ Owner \in Machines /\ Owner \in Clients
  /\ Server \notin Clients /\ Owner \notin Proxies /\ Server \notin Proxies
  /\ Machines = {Server, Owner} \cup Proxies /\ Clients = {Owner} \cup Proxies
  /\ Server # Owner
BY WeaponAssumption DEF Machines, Clients

\* The kinds of events in the terms the effects are stated in.
LEMMA EventKinds ==
  /\ \A t \in {"Die", "Respawn", "ClearWeapons", "SHOOT", "OUTOFAMMO", "RELOADED",
               "OutOfAmmoCheck"} :
       Event(t) \in WormEvents /\ Event(t).type = t
  /\ \A n \in 1..MaxAmmo :
       AmmoCorrection(n) \in WormEvents /\ AmmoCorrection(n).type = "AmmoCorrection"
  /\ \A k \in Slots :
       /\ SetWeapon(k) \in WormEvents /\ SetWeapon(k).type = "SetWeapon"
       /\ SetWeapon(k).slot = k
  /\ \A m \in Machines, k \in Slots :
       /\ ChangeWeapon(m, k) \in WormEvents /\ ChangeWeapon(m, k).type = "ChangeWeapon"
       /\ ChangeWeapon(m, k).slot = k /\ ChangeWeapon(m, k).taken = Holds(m, k)
<1>1. \A t \in {"Die", "Respawn", "ClearWeapons", "SHOOT", "OUTOFAMMO", "RELOADED",
                "OutOfAmmoCheck"} :
        Event(t) \in WormEvents /\ Event(t).type = t
  BY DEF Event, WormEvents
<1>2. \A n \in 1..MaxAmmo :
        AmmoCorrection(n) \in WormEvents /\ AmmoCorrection(n).type = "AmmoCorrection"
  BY DEF AmmoCorrection, WormEvents
<1>3. \A k \in Slots :
        /\ SetWeapon(k) \in WormEvents /\ SetWeapon(k).type = "SetWeapon"
        /\ SetWeapon(k).slot = k
  BY DEF SetWeapon, WormEvents
<1>4. ASSUME NEW m \in Machines, NEW k \in Slots
      PROVE  /\ ChangeWeapon(m, k) \in WormEvents
             /\ ChangeWeapon(m, k).type = "ChangeWeapon"
             /\ ChangeWeapon(m, k).slot = k /\ ChangeWeapon(m, k).taken = Holds(m, k)
  <2>1. \A b \in BOOLEAN : [type |-> "ChangeWeapon", slot |-> k, taken |-> b] \in WormEvents
    BY DEF WormEvents
  <2>2. CASE k \in held[m]
    <3> DEFINE r == [type |-> "ChangeWeapon", slot |-> k, taken |-> TRUE]
    <3>0. (k \in held[m]) = TRUE
      BY <2>2
    <3>1. ChangeWeapon(m, k) = r
      BY <3>0 DEF ChangeWeapon
    <3>2. r \in WormEvents /\ r.type = "ChangeWeapon" /\ r.slot = k /\ r.taken = TRUE
      BY <2>1
    <3> HIDE DEF r
    <3>3. Holds(m, k) = TRUE
      BY <2>2 DEF Holds
    <3>4. QED
      BY <3>1, <3>2, <3>3
  <2>3. CASE k \notin held[m]
    <3> DEFINE r == [type |-> "ChangeWeapon", slot |-> k, taken |-> FALSE]
    <3>0. (k \in held[m]) = FALSE
      BY <2>3
    <3>1. ChangeWeapon(m, k) = r
      BY <3>0 DEF ChangeWeapon
    <3>2. r \in WormEvents /\ r.type = "ChangeWeapon" /\ r.slot = k /\ r.taken = FALSE
      BY <2>1
    <3> HIDE DEF r
    <3>3. Holds(m, k) = FALSE
      BY <2>3 DEF Holds
    <3>4. QED
      BY <3>1, <3>2, <3>3
  <2>4. QED
    BY <2>2, <2>3
<1>5. QED
  BY <1>1, <1>2, <1>3, <1>4

\* The effects of the events.
LEMMA Effects ==
  ASSUME NEW e \in WormEvents
  PROVE  /\ ActiveEffect[e] = IF e.type = "Die" THEN {FALSE}
                              ELSE IF e.type = "Respawn" THEN {TRUE}
                              ELSE IF e.type = "SYNC" THEN {e.active} ELSE {}
         /\ FocusEffect[e] = IF e.type = "ChangeWeapon" THEN IF e.taken THEN {e.slot} ELSE {}
                             ELSE IF e.type = "SYNC" THEN {e.slot} ELSE {}
         /\ SlotEffect[e] = IF e.type = "ChangeWeapon" THEN {e.slot} ELSE {}
         /\ \A k : HeldEffect(k)[e] =
              IF e.type = "SetWeapon" THEN IF e.slot = k THEN {TRUE} ELSE {}
              ELSE IF e.type = "ClearWeapons" THEN {FALSE}
              ELSE IF e.type = "SYNC" THEN IF k \in e.held THEN {TRUE} ELSE {FALSE}
              ELSE {}
         /\ ReloadEffect[e] = IF e.type = "OUTOFAMMO" THEN {TRUE}
                              ELSE IF e.type \in Clearing \/ Anew(e) THEN {FALSE} ELSE {}
BY DEF ActiveEffect, FocusEffect, SlotEffect, HeldEffect, ReloadEffect

\* What the events carry.
LEMMA EventFields ==
  ASSUME NEW e \in WormEvents
  PROVE  /\ e.type \in {"ChangeWeapon", "SYNC", "SetWeapon"} => e.slot \in Slots
         /\ e.type = "ChangeWeapon" => e.taken \in BOOLEAN
         /\ e.type = "SYNC" => /\ e.active \in BOOLEAN /\ e.rope \in BOOLEAN
                               /\ e.held \in SUBSET Slots
         /\ e.type = "AmmoCorrection" => e.ammo \in 1..MaxAmmo
BY DEF WormEvents

\* What is in hand is about the slots alone.
LEMMA SameFocus ==
  ASSUME NEW m, held'[m] = held[m], currentWeapon'[m] = currentWeapon[m]
  PROVE  /\ focused(m)' <=> focused(m)
         /\ \A k : Holds(m, k)' <=> Holds(m, k)
BY DEF focused, Holds

\* Steps that touch neither the events of the worm nor what they settle.
LEMMA SameWorm ==
  ASSUME UNCHANGED <<toWorm, isActive, held, currentWeapon, present, late, outOfAmmoCheck,
                     astray>>,
         Types,
         \A m \in Machines : /\ weapon'[m].reloading = weapon[m].reloading
                             /\ weapon'[m].ammo = weapon[m].ammo
  PROVE  /\ ActiveAgrees => ActiveAgrees'
         /\ FocusAgrees => FocusAgrees'
         /\ ReloadAgrees => ReloadAgrees'
         /\ CorrectionFindsFull => CorrectionFindsFull'
         /\ EmptyOnReload => EmptyOnReload'
         /\ Queues => Queues'
         /\ OwnerAhead => OwnerAhead'
         /\ HeldAgrees => HeldAgrees'
         /\ FindsHeld => FindsHeld'
         /\ AnswersHeld => AnswersHeld'
<1>1. ActiveAgrees => ActiveAgrees'
  BY DEF ActiveAgrees
<1>2. FocusAgrees => FocusAgrees'
  BY DEF FocusAgrees
<1>3. \A c \in present : c \in Machines
  BY TheMachines DEF Types
<1>4. ReloadAgrees => ReloadAgrees'
  BY <1>3, TheMachines DEF ReloadAgrees, IsCleared
<1>5. CorrectionFindsFull => CorrectionFindsFull'
  BY TheMachines DEF CorrectionFindsFull
<1>6. EmptyOnReload => EmptyOnReload'
  BY DEF EmptyOnReload
<1>7. Queues => Queues'
  BY DEF Queues
<1>8. OwnerAhead => OwnerAhead'
  BY DEF OwnerAhead
<1>9. \A m, k : Holds(m, k)' <=> Holds(m, k)
  BY DEF Holds
<1>10. HeldAgrees => HeldAgrees'
  BY DEF HeldAgrees, Holds
<1>11. FindsHeld => FindsHeld'
  BY DEF FindsHeld, Holds
<1>12. AnswersHeld => AnswersHeld'
  BY DEF AnswersHeld, Holds
<1>13. QED
  BY <1>1, <1>2, <1>4, <1>5, <1>6, <1>7, <1>8, <1>10, <1>11, <1>12

\* The players' part of the invariant is about these variables alone.
LEMMA SamePlayer ==
  ASSUME UNCHANGED <<toPlayer, trigger, thrown>>
  PROVE  /\ ActionsEnd => ActionsEnd'
         /\ \A m, i, a : Ends(m, i, a)' <=> Ends(m, i, a)
<1>1. \A m, i, a : Ends(m, i, a)' <=> Ends(m, i, a)
  BY DEF Ends, Stops, Asked
<1>2. QED
  BY <1>1 DEF ActionsEnd

-----------------------------------------------------------------------------
\* The initial states.
LEMMA InitIInv == Init => IInv
<1> SUFFICES ASSUME Init PROVE IInv
  OBVIOUS
<1>z. /\ weapon = [m \in Machines |-> Fresh] /\ outOfAmmoCheck = FALSE
      /\ isActive = [m \in Machines |-> FALSE] /\ held = [m \in Machines |-> Slots]
      /\ currentWeapon = [m \in Machines |-> 0] /\ rope = [m \in Machines |-> FALSE]
      /\ present = {Owner} /\ toWorm = [m \in Machines |-> If(m = Owner, <<SYNC>>)]
      /\ toPlayer = [m \in Machines |-> <<>>] /\ trigger = FALSE /\ thrown = FALSE
      /\ late = {} /\ tangled = {} /\ astray = "no"
  BY DEF Init
<1>1. Fresh \in Copy /\ Fresh.ammo # -1 /\ Fresh.reloading = FALSE
      /\ Fresh.primaryShooting = FALSE
  BY WeaponAssumption DEF Fresh, Copy
<1>2. Types
  <2>1. toPlayer \in [Machines -> Seq(Actions)]
    BY <1>z
  <2>2. weapon \in [Machines -> Copy] /\ weapon[Server].ammo # -1 /\ weapon[Owner].ammo # -1
    BY <1>1, <1>z, TheMachines
  <2>0. 0 \in Slots
    BY WeaponAssumption DEF Slots
  <2>3. /\ isActive \in [Machines -> BOOLEAN] /\ held \in [Machines -> SUBSET Slots]
        /\ currentWeapon \in [Machines -> Slots] /\ rope \in [Machines -> BOOLEAN]
    BY <1>z, <2>0
  <2>4. QED
    BY <1>z, <2>1, <2>2, <2>3, TheMachines DEF Types
<1> DEFINE e == SYNC
<1>e. /\ e \in WormEvents /\ e \in OwnerEvents /\ e.type = "SYNC"
      /\ ActiveEffect[e] = {FALSE} /\ ReloadEffect[e] = {FALSE}
      /\ \A k \in Slots : HeldEffect(k)[e] = {TRUE}
  <2>1. /\ e.type = "SYNC" /\ e.active = FALSE /\ e.rope = FALSE /\ e.held = Slots
        /\ e \in WormEvents
    <3>1. 0 \in Slots /\ Server \in Machines
      BY TheMachines, WeaponAssumption DEF Slots
    <3>2. /\ isActive[Server] = FALSE /\ rope[Server] = FALSE /\ currentWeapon[Server] = 0
          /\ held[Server] = Slots
      BY <1>z, <3>1
    <3>3. QED
      BY <3>1, <3>2 DEF SYNC, WormEvents
  <2> HIDE DEF e
  <2>2. ActiveEffect[e] = {FALSE}
    BY <2>1, Effects
  <2>3. ReloadEffect[e] = {FALSE}
    BY <2>1, Effects DEF Anew
  <2>4. ASSUME NEW k \in Slots
        PROVE  HeldEffect(k)[e] = {TRUE}
    BY <2>1, Effects
  <2>5. QED
    BY <2>1, <2>2, <2>3, <2>4 DEF OwnerEvents
<1>q. /\ toWorm \in [Machines -> Seq(WormEvents)]
      /\ \A m \in Machines \ {Owner} : toWorm[m] = <<>> /\ Len(toWorm[m]) = 0
      /\ Len(toWorm[Owner]) = 1 /\ toWorm[Owner][1] = e
  <2>0. toWorm = [m \in Machines |-> If(m = Owner, <<e>>)]
    BY <1>z
  <2> HIDE DEF e
  <2>1. \A m \in Machines : toWorm[m] = IF m = Owner THEN <<e>> ELSE <<>>
    BY <2>0 DEF If
  <2>2. <<e>> \in Seq(WormEvents) /\ <<>> \in Seq(WormEvents)
    BY <1>e
  <2>3. \A m \in Machines : toWorm[m] \in Seq(WormEvents)
    BY <2>1, <2>2
  <2>4. toWorm \in [Machines -> Seq(WormEvents)]
    BY <2>0, <2>3
  <2>5. Len(<<e>>) = 1 /\ <<e>>[1] = e /\ Len(<<>>) = 0
    OBVIOUS
  <2>6. QED
    BY <2>1, <2>4, <2>5, TheMachines
<1> HIDE DEF e
<1>i. 1 \in 1..Len(toWorm[Owner]) /\ \A i \in 1..Len(toWorm[Owner]) : i = 1
  BY <1>q
<1>o. \A effect, from, to : effect[e] = {to} =>
        Settles(effect, toWorm[Owner], Len(toWorm[Owner]), from, to)
  BY <1>i, <1>q DEF Settles
<1>p. present = {Owner}
  BY <1>z
<1>0. Queues
  <2>1. \A c \in Clients : Told(c, toWorm[c])
    BY <1>e, <1>i, <1>q, TheMachines DEF Told, ClientEvents
  <2>2. QED
    BY <1>q, <2>1, TheMachines DEF Queues
<1>3. Joining
  BY <1>p, <1>q, <1>z, TheMachines DEF Joining
<1>4. ActiveAgrees
  <2>1. isActive[Server] = FALSE
    BY <1>z, TheMachines
  <2>2. QED
    BY <1>e, <1>o, <1>p, <2>1 DEF ActiveAgrees
<1>5. FocusAgrees
  BY <1>p DEF FocusAgrees
<1>6. ReloadAgrees
  <2>1. weapon[Server].reloading = FALSE
    BY <1>1, <1>z, TheMachines
  <2>2. QED
    BY <1>e, <1>o, <1>p, <2>1 DEF ReloadAgrees
<1>7. CorrectionFindsFull
  <2>1. \A m \in Machines : \A i \in 1..Len(toWorm[m]) : m = Owner /\ toWorm[m][i] = e
    BY <1>i, <1>q
  <2>2. QED
    BY <1>e, <1>z, <2>1, TheMachines DEF CorrectionFindsFull
<1>8. EmptyOnReload
  BY <1>1, <1>z DEF EmptyOnReload
<1>9. ActionsEnd
  BY <1>z DEF ActionsEnd
<1>10. ShootingEnds
  BY <1>1, <1>z DEF ShootingEnds
<1>11. RopeEnds
  <2>1. \A m \in Machines : \A i \in 1..Len(toWorm[m]) : m = Owner /\ toWorm[m][i] = e
    BY <1>i, <1>q
  <2>2. e.type = "SYNC" => ~e.rope
    BY <1>e DEF OwnerEvents
  <2>3. QED
    BY <1>e, <1>z, <2>1, <2>2 DEF RopeEnds, RopeTold
<1>13. OwnerAhead
  <2>1. Len(toWorm[Server]) = 0 /\ currentWeapon[Owner] = 0 /\ currentWeapon[Server] = 0
    BY <1>q, <1>z, TheMachines
  <2>2. Settles(SlotEffect, toWorm[Server], Len(toWorm[Server]), currentWeapon[Server],
                currentWeapon[Owner])
    BY <2>1 DEF Settles
  <2>3. QED
    BY <2>2 DEF OwnerAhead
<1>14. HeldAgrees
  <2>1. \A k \in Slots : Holds(Server, k) = TRUE
    BY <1>z, TheMachines DEF Holds
  <2>2. QED
    BY <1>e, <1>o, <1>p, <2>1 DEF HeldAgrees
<1>15. FindsHeld
  <2> SUFFICES ASSUME NEW c \in Clients, NEW i \in 1..Len(toWorm[c]), NEW k, NEW has,
                      Finds(toWorm[c][i], k, has)
               PROVE  FALSE
    BY DEF FindsHeld
  <2>1. toWorm[c][i] = e
    BY <1>i, <1>q, TheMachines
  <2>2. QED
    BY <1>e, <2>1 DEF Finds, Messages
<1>16. AnswersHeld
  BY <1>z DEF AnswersHeld
<1>12. QED
  BY <1>0, <1>2, <1>3, <1>4, <1>5, <1>6, <1>7, <1>8, <1>9, <1>10, <1>11, <1>13, <1>14, <1>15,
     <1>16 DEF IInv

-----------------------------------------------------------------------------
(***************************************************************************)
(* The actions of the player.                                              *)
(***************************************************************************)
\* What Acted does: nothing to another machine, to the ammo or the reload.
LEMMA ActedFacts ==
  ASSUME Types, NEW m \in Machines, NEW a \in Actions, Acted(m, a)
  PROVE  /\ weapon' \in [Machines -> Copy] /\ rope' \in [Machines -> BOOLEAN]
         /\ \A n \in Machines : n # m => weapon'[n] = weapon[n] /\ rope'[n] = rope[n]
         /\ \A n \in Machines : /\ weapon'[n].reloading = weapon[n].reloading
                                /\ weapon'[n].ammo = weapon[n].ammo
         /\ weapon'[m].primaryShooting =
              IF a.action = "FIRE" /\ isActive[m] /\ focused(m)
                THEN a.start ELSE weapon[m].primaryShooting
         /\ rope'[m] = IF a.action = "NINJAROPE" /\ (a.start => isActive[m])
                         THEN a.start ELSE rope[m]
<1> DEFINE w == [weapon[m] EXCEPT !.primaryShooting = a.start]
<1>1. a.start \in BOOLEAN /\ a.action \in {"FIRE", "NINJAROPE"}
  BY DEF Actions
<1>2. weapon \in [Machines -> Copy] /\ rope \in [Machines -> BOOLEAN] /\ weapon[m] \in Copy
  BY DEF Types
<1>3. w \in Copy /\ w.reloading = weapon[m].reloading /\ w.ammo = weapon[m].ammo
      /\ w.primaryShooting = a.start
  BY <1>1, <1>2 DEF Copy
<1>4. weapon' = IF a.action = "FIRE" /\ isActive[m] /\ focused(m)
                  THEN [weapon EXCEPT ![m] = w] ELSE weapon
  BY <1>2 DEF Acted, Pulled
<1>5. rope' = IF a.action = "NINJAROPE" /\ (a.start => isActive[m])
                THEN [rope EXCEPT ![m] = a.start] ELSE rope
  BY DEF Acted, Roped
<1> HIDE DEF w
<1>6. QED
  BY <1>1, <1>2, <1>3, <1>4, <1>5

\* An action is one of the two kinds, begun or stopped.
LEMMA ActionKinds ==
  /\ \A a \in {"FIRE", "NINJAROPE"}, b \in BOOLEAN :
       /\ Action(a, b) \in Actions
       /\ Action(a, b).action = a /\ Action(a, b).start = b
  /\ \A a \in Actions : a = Action(a.action, a.start)
BY DEF Action, Actions

\* The owner's machine tells the server, and nobody else, what the player does.
LEMMA BaseActionSends ==
  ASSUME Types, Joining, NEW a \in Actions, BaseAction(a)
  PROVE  /\ toPlayer' \in [Machines -> Seq(Actions)]
         /\ Len(toPlayer'[Server]) = Len(toPlayer[Server]) + 1
         /\ toPlayer'[Server][Len(toPlayer[Server]) + 1] = a
         /\ \A i \in 1..Len(toPlayer[Server]) : toPlayer'[Server][i] = toPlayer[Server][i]
         /\ \A c \in Clients : toPlayer'[c] = toPlayer[c]
<1>1. toPlayer' = [m \in Machines |->
                     If(Listening(m), toPlayer[m] \o If(m = Server, <<a>>))]
  BY DEF BaseAction, Send
<1>2. toPlayer'[Server] = toPlayer[Server] \o <<a>>
  BY <1>1, TheMachines DEF Listening, If
<1>3. \A m \in Machines : toPlayer[m] \in Seq(Actions)
  BY DEF Types
<1>4. toPlayer[Server] \in Seq(Actions)
  BY <1>3, TheMachines
<1>5. /\ toPlayer'[Server] \in Seq(Actions)
      /\ Len(toPlayer'[Server]) = Len(toPlayer[Server]) + 1
      /\ \A i \in 1..Len(toPlayer[Server]) : toPlayer'[Server][i] = toPlayer[Server][i]
      /\ toPlayer'[Server][Len(toPlayer[Server]) + 1] = a
  BY <1>2, <1>4, SentOne
<1>6. ASSUME NEW c \in Clients
      PROVE  toPlayer'[c] = toPlayer[c]
  <2>1. toPlayer'[c] = If(Listening(c), toPlayer[c] \o <<>>)
    BY <1>1, TheMachines DEF If
  <2>2. toPlayer[c] \o <<>> = toPlayer[c]
    BY <1>3, TheMachines, ConcatEmptySeq
  <2>3. c \notin present => toPlayer[c] = <<>>
    BY DEF Joining
  <2>4. QED
    BY <2>1, <2>2, <2>3, TheMachines DEF Listening, If
<1>7. toPlayer' \in [Machines -> Seq(Actions)]
  <2>1. \A m \in Machines : toPlayer'[m] \in Seq(Actions)
    BY <1>3, <1>5, <1>6, TheMachines
  <2>2. QED
    BY <1>1, <2>1
<1>8. QED
  BY <1>5, <1>6, <1>7

\* A press of the player, and what it lets go, reach the server behind all that
\* it did before.
LEMMA BaseActionIInv ==
  ASSUME IInv, NEW k \in {"FIRE", "NINJAROPE"}, NEW on \in BOOLEAN,
         BaseAction(Action(k, on)),
         trigger' = (IF k = "FIRE" THEN on ELSE trigger),
         thrown' = (IF k = "FIRE" THEN thrown ELSE on)
  PROVE  IInv'
<1> USE DEF IInv
<1> DEFINE a == Action(k, on)
<1>1. a \in Actions /\ a.action = k /\ a.start = on
  BY ActionKinds
<1>0. BaseAction(a) /\ a = Action(k, on)
  OBVIOUS
<1> HIDE DEF a
<1>2. /\ UNCHANGED <<outOfAmmoCheck, isActive, held, currentWeapon, present, toWorm, late,
                    tangled, astray>>
      /\ Acted(Owner, a)
  BY <1>0 DEF BaseAction, slots
<1>f. \A m : focused(m)' <=> focused(m)
  BY <1>2, SameFocus
<1>3. /\ weapon' \in [Machines -> Copy] /\ rope' \in [Machines -> BOOLEAN]
      /\ \A n \in Machines : n # Owner => weapon'[n] = weapon[n] /\ rope'[n] = rope[n]
      /\ \A n \in Machines : /\ weapon'[n].reloading = weapon[n].reloading
                             /\ weapon'[n].ammo = weapon[n].ammo
      /\ weapon'[Owner].primaryShooting =
           IF k = "FIRE" /\ isActive[Owner] /\ focused(Owner)
             THEN on ELSE weapon[Owner].primaryShooting
      /\ rope'[Owner] = IF k = "NINJAROPE" /\ (on => isActive[Owner])
                          THEN on ELSE rope[Owner]
  BY <1>1, <1>2, ActedFacts, TheMachines
<1>4. /\ toPlayer' \in [Machines -> Seq(Actions)]
      /\ Len(toPlayer'[Server]) = Len(toPlayer[Server]) + 1
      /\ toPlayer'[Server][Len(toPlayer[Server]) + 1] = a
      /\ \A i \in 1..Len(toPlayer[Server]) : toPlayer'[Server][i] = toPlayer[Server][i]
      /\ \A c \in Clients : toPlayer'[c] = toPlayer[c]
  BY <1>0, <1>1, BaseActionSends
<1>n. Len(toPlayer[Server]) \in Nat /\ \A m \in Machines : Len(toPlayer[m]) \in Nat
  BY TheMachines, LenProperties DEF Types
<1>5. /\ Asked(k)' = on
      /\ \A b \in {"FIRE", "NINJAROPE"} : b # k => (Asked(b)' <=> Asked(b))
  BY DEF Asked
<1>6. \A m \in Machines, i \in Nat, b \in {"FIRE", "NINJAROPE"} :
        Stops(m, i, b) => Stops(m, i, b)'
  <2> SUFFICES ASSUME NEW m \in Machines, NEW i \in Nat,
                      NEW b \in {"FIRE", "NINJAROPE"}, Stops(m, i, b)
               PROVE  Stops(m, i, b)'
    OBVIOUS
  <2>1. CASE m = Server
    <3>1. PICK j \in 1..Len(toPlayer[Server]) : j > i /\ toPlayer[Server][j] = Action(b, FALSE)
      BY <2>1 DEF Stops
    <3>2. j \in 1..Len(toPlayer'[Server])
      BY <1>4, <1>n
    <3>3. QED
      BY <1>4, <2>1, <3>1, <3>2 DEF Stops
  <2>2. CASE m # Server
    BY <1>4, <2>2, TheMachines DEF Stops
  <2>3. QED
    BY <2>1, <2>2
<1>7. ~on => \A i \in 0..Len(toPlayer[Server]) : Stops(Server, i, k)'
  <2> DEFINE j == Len(toPlayer[Server]) + 1
  <2>1. j \in 1..Len(toPlayer'[Server]) /\ \A i \in 0..Len(toPlayer[Server]) : j > i
    BY <1>4, <1>n
  <2>2. ~on => toPlayer'[Server][j] = Action(k, FALSE)
    BY <1>0, <1>4
  <2> HIDE DEF j
  <2>3. QED
    BY <2>1, <2>2 DEF Stops
<1>8. \A m \in {Server} \cup Proxies :
        \A i \in 0..Len(toPlayer[m]), b \in {"FIRE", "NINJAROPE"} :
          Ends(m, i, b) => Ends(m, i, b)'
  <2> SUFFICES ASSUME NEW m \in {Server} \cup Proxies, NEW i \in 0..Len(toPlayer[m]),
                      NEW b \in {"FIRE", "NINJAROPE"}, Ends(m, i, b)
               PROVE  Ends(m, i, b)'
    OBVIOUS
  <2>0. i \in Nat
    BY <1>n, TheMachines
  <2>1. CASE b = k
    <3>1. CASE on
      BY <1>5, <2>1, <3>1 DEF Ends
    <3>2. CASE ~on
      <4>1. CASE m = Server
        BY <1>7, <2>1, <3>2, <4>1 DEF Ends
      <4>2. CASE m \in Proxies
        BY <1>7, <1>n, <2>1, <3>2, <4>2 DEF Ends
      <4>3. QED
        BY <4>1, <4>2
    <3>3. QED
      BY <3>1, <3>2
  <2>2. CASE b # k
    <3>1. Asked(b) => Asked(b)'
      BY <1>5, <2>2
    <3>2. m \in Machines /\ Server \in Machines
      BY TheMachines
    <3>3. QED
      BY <1>6, <2>0, <3>1, <3>2 DEF Ends
  <2>3. QED
    BY <2>1, <2>2
<1>z. \A m \in {Server} \cup Proxies, b \in {"FIRE", "NINJAROPE"} :
        Ends(m, 0, b) => Ends(m, 0, b)'
  <2>1. \A m \in {Server} \cup Proxies : 0 \in 0..Len(toPlayer[m])
    BY <1>n, TheMachines
  <2>2. QED
    BY <1>8, <2>1
<1>9. ActionsEnd'
  <2> SUFFICES ASSUME NEW m \in Machines, NEW i \in 1..Len(toPlayer'[m]),
                      NEW b \in {"FIRE", "NINJAROPE"}, toPlayer'[m][i] = Action(b, TRUE)
               PROVE  Ends(m, i, b)'
    BY DEF ActionsEnd
  <2>1. CASE m = Owner
    BY <1>4, <2>1, TheMachines DEF Types
  <2>2. CASE m \in Proxies
    <3>1. Ends(m, i, b)
      BY <1>4, <2>2, TheMachines DEF ActionsEnd
    <3>2. i \in 0..Len(toPlayer[m])
      BY <1>4, <1>n, <2>2, TheMachines
    <3>3. QED
      BY <1>8, <2>2, <3>1, <3>2
  <2>3. CASE m = Server
    <3>1. CASE i = Len(toPlayer[Server]) + 1
      <4>1. b = k /\ on
        BY <1>0, <1>4, <2>3, <3>1, ActionKinds
      <4>2. QED
        BY <1>5, <4>1 DEF Ends
    <3>2. CASE i # Len(toPlayer[Server]) + 1
      <4>1. i \in 1..Len(toPlayer[Server])
        BY <1>4, <1>n, <2>3, <3>2
      <4>0. i \in 0..Len(toPlayer[Server])
        BY <1>n, <4>1
      <4>2. Ends(Server, i, b)
        BY <1>4, <2>3, <4>1, TheMachines DEF ActionsEnd
      <4>3. QED
        BY <1>8, <2>3, <4>0, <4>2
    <3>3. QED
      BY <3>1, <3>2
  <2>4. QED
    BY <2>1, <2>2, <2>3, TheMachines
<1>10. ASSUME NEW b \in {"FIRE", "NINJAROPE"}
       PROVE  /\ Ends(Owner, 0, b) <=> Asked(b)
              /\ Ends(Owner, 0, b)' <=> Asked(b)'
  <2>1. toPlayer[Owner] = <<>> /\ toPlayer'[Owner] = <<>> /\ Owner \notin Proxies
    BY <1>4, TheMachines DEF Types
  <2>2. ~Stops(Owner, 0, b) /\ ~Stops(Owner, 0, b)'
    BY <2>1 DEF Stops
  <2>3. QED
    BY <2>1, <2>2 DEF Ends
<1>11. ShootingEnds'
  <2> SUFFICES ASSUME NEW m \in Machines, weapon'[m].primaryShooting
               PROVE  focused(m) /\ (isActive[m] => Ends(m, 0, "FIRE")')
    BY <1>2, <1>f DEF ShootingEnds
  <2>1. CASE m = Owner
    <3>1. weapon[Owner].primaryShooting => focused(Owner) /\ (isActive[Owner] => Asked("FIRE"))
      BY <1>10, TheMachines DEF ShootingEnds
    <3>2. CASE k = "FIRE" /\ isActive[Owner] /\ focused(Owner)
      <4>1. on
        BY <1>3, <2>1, <3>2
      <4>2. Asked("FIRE")'
        BY <1>5, <3>2, <4>1
      <4>3. Ends(m, 0, "FIRE")'
        BY <4>2 DEF Ends
      <4>4. QED
        BY <2>1, <3>2, <4>3
    <3>3. CASE k = "FIRE" /\ ~(isActive[Owner] /\ focused(Owner))
      BY <1>3, <2>1, <3>1, <3>3
    <3>4. CASE k # "FIRE"
      BY <1>3, <1>5, <1>10, <2>1, <3>1, <3>4
    <3>5. QED
      BY <3>2, <3>3, <3>4
  <2>2. CASE m # Owner
    <3>1. m \in {Server} \cup Proxies /\ weapon[m].primaryShooting
      BY <1>3, <2>2, TheMachines
    <3>2. focused(m) /\ (isActive[m] => Ends(m, 0, "FIRE"))
      BY <3>1 DEF ShootingEnds
    <3>3. Ends(m, 0, "FIRE") => Ends(m, 0, "FIRE")'
      BY <1>z, <3>1
    <3>4. QED
      BY <3>2, <3>3
  <2>3. QED
    BY <2>1, <2>2
<1>12. RopeEnds'
  <2> SUFFICES ASSUME NEW m \in Machines, rope'[m] \/ RopeTold(m)
               PROVE  m \in tangled \/ Ends(m, 0, "NINJAROPE")'
    BY <1>2 DEF RopeEnds, RopeTold
  <2>1. CASE m = Owner
    <3>1. ~RopeTold(Owner)
      BY TheMachines DEF Queues, Told, ClientEvents, RopeTold, OwnerEvents, Clearing
    <3>2. rope'[Owner]
      BY <2>1, <3>1
    <3>3. rope[Owner] => Asked("NINJAROPE")
      BY <1>10, TheMachines DEF RopeEnds, Types
    <3>4. Asked("NINJAROPE")'
      BY <1>3, <1>5, <3>2, <3>3
    <3>5. QED
      BY <1>10, <2>1, <3>4
  <2>2. CASE m # Owner
    <3>1. m \in {Server} \cup Proxies /\ rope'[m] = rope[m]
      BY <1>3, <2>2, TheMachines
    <3>2. m \in tangled \/ Ends(m, 0, "NINJAROPE")
      BY <3>1 DEF RopeEnds
    <3>3. QED
      BY <1>z, <3>1, <3>2
  <2>3. QED
    BY <2>1, <2>2
<1>13. Types'
  BY <1>2, <1>3, <1>4, TheMachines DEF Types
<1>14. Joining'
  BY <1>2, <1>3, <1>4, TheMachines DEF Joining, Types
<1>15. QED
  BY <1>2, <1>3, <1>9, <1>11, <1>12, <1>13, <1>14, SameWorm

\* The keys of the player: FIRE, JUMP, and CHANGE while FIRE is down.
LEMMA PlayerKeysIInv ==
  ASSUME IInv, NEW on \in BOOLEAN
  PROVE  /\ Fire(on) => IInv'
         /\ Rope(on) => IInv'
         /\ HoldFire => IInv'
<1>1. Fire(on) => IInv'
  BY BaseActionIInv DEF Fire
<1>2. Rope(on) => IInv'
  BY BaseActionIInv DEF Rope
<1>3. ASSUME HoldFire
      PROVE  IInv'
  <2> DEFINE a == Action("FIRE", FALSE)
  <2>1. a \in Actions /\ a.action = "FIRE" /\ a.start = FALSE
    BY ActionKinds
  <2>2. UNCHANGED <<outOfAmmoCheck, isActive, held, currentWeapon, rope, present, toWorm,
                    toPlayer, trigger, thrown, late, tangled, astray>>
    BY <1>3 DEF HoldFire, history, slots
  <2>f. \A m : focused(m)' <=> focused(m)
    BY <2>2, SameFocus
  <2>3. Acted(Owner, a)
    BY <1>3, <2>1, <2>2 DEF HoldFire, Acted
  <2> HIDE DEF a
  <2>4. /\ weapon' \in [Machines -> Copy]
        /\ \A n \in Machines : n # Owner => weapon'[n] = weapon[n]
        /\ \A n \in Machines : /\ weapon'[n].reloading = weapon[n].reloading
                               /\ weapon'[n].ammo = weapon[n].ammo
        /\ weapon'[Owner].primaryShooting =
             IF isActive[Owner] /\ focused(Owner)
               THEN FALSE ELSE weapon[Owner].primaryShooting
    BY <2>1, <2>3, ActedFacts, TheMachines DEF IInv
  <2>5. \A m, i, b : Ends(m, i, b)' <=> Ends(m, i, b)
    BY <2>2, SamePlayer
  <2>6. ShootingEnds'
    <3> SUFFICES ASSUME NEW m \in Machines, weapon'[m].primaryShooting
                 PROVE  focused(m) /\ (isActive[m] => Ends(m, 0, "FIRE"))
      BY <2>2, <2>5, <2>f DEF ShootingEnds
    <3>1. weapon[m].primaryShooting
      BY <2>4
    <3>2. QED
      BY <3>1 DEF IInv, ShootingEnds
  <2>7. RopeEnds'
    BY <2>2, <2>5 DEF IInv, RopeEnds, RopeTold
  <2>8. ActionsEnd'
    BY <2>2, SamePlayer DEF IInv
  <2>9. Types'
    BY <2>2, <2>4, TheMachines DEF IInv, Types
  <2>10. Joining'
    BY <2>2 DEF IInv, Joining
  <2>11. QED
    BY <2>2, <2>4, <2>6, <2>7, <2>8, <2>9, <2>10, SameWorm DEF IInv
<1>4. QED
  BY <1>1, <1>2, <1>3

-----------------------------------------------------------------------------
(***************************************************************************)
(* A machine hears of an action of the player.                             *)
(***************************************************************************)
\* The machine takes the first action; what the server takes it sends on to the
\* proxies that have joined.
LEMMA ReceivePlayerSends ==
  ASSUME Types, Joining, NEW m \in Machines, ReceivePlayer(m)
  PROVE  /\ toPlayer[m] # <<>> /\ Head(toPlayer[m]) \in Actions
         /\ Head(toPlayer[m]) = toPlayer[m][1] /\ 1 \in 1..Len(toPlayer[m])
         /\ m \in {Server} \cup Proxies /\ (m \in Clients => m \in present)
         /\ toPlayer' \in [Machines -> Seq(Actions)] /\ toPlayer'[Owner] = <<>>
         /\ Len(toPlayer'[m]) = Len(toPlayer[m]) - 1
         /\ \A i \in 1..Len(toPlayer'[m]) : toPlayer'[m][i] = toPlayer[m][i + 1]
         /\ m # Server => \A n \in Machines \ {m} : toPlayer'[n] = toPlayer[n]
         /\ m = Server => \A p \in Proxies \cap present :
              /\ Len(toPlayer'[p]) = Len(toPlayer[p]) + 1
              /\ toPlayer'[p][Len(toPlayer[p]) + 1] = Head(toPlayer[m])
              /\ \A i \in 1..Len(toPlayer[p]) : toPlayer'[p][i] = toPlayer[p][i]
         /\ \A c \in Clients \ present : toPlayer'[c] = <<>>
<1> DEFINE a == Head(toPlayer[m])
           taken == [toPlayer EXCEPT ![m] = Tail(@)]
<1>1. /\ toPlayer \in [Machines -> Seq(Actions)] /\ toPlayer[Owner] = <<>>
      /\ \A n \in Machines : toPlayer[n] \in Seq(Actions)
      /\ \A c \in Clients \ present : toPlayer[c] = <<>>
      /\ Owner \in present
  BY DEF Types, Joining
<1>2. /\ toPlayer[m] # <<>>
      /\ toPlayer' = [n \in Machines |->
           If(Listening(n), taken[n] \o If(m = Server /\ n \in Proxies, <<a>>))]
  BY DEF ReceivePlayer, Send
<1>3. /\ a \in Actions /\ a = toPlayer[m][1] /\ 1 \in 1..Len(toPlayer[m])
      /\ Tail(toPlayer[m]) \in Seq(Actions) /\ Len(Tail(toPlayer[m])) = Len(toPlayer[m]) - 1
      /\ \A i \in 1..Len(Tail(toPlayer[m])) : Tail(toPlayer[m])[i] = toPlayer[m][i + 1]
  BY <1>1, <1>2, HeadTailProperties, LenProperties
<1>4. /\ taken \in [Machines -> Seq(Actions)] /\ taken[m] = Tail(toPlayer[m])
      /\ \A n \in Machines \ {m} : taken[n] = toPlayer[n]
  BY <1>1, <1>3
<1> HIDE DEF a, taken
<1>5. m \in {Server} \cup Proxies /\ (m \in Clients => m \in present)
  BY <1>1, <1>2, TheMachines
<1>6. ASSUME NEW n \in Machines, ~(m = Server /\ n \in Proxies)
      PROVE  toPlayer'[n] = taken[n]
  <2>1. toPlayer'[n] = If(Listening(n), taken[n] \o <<>>)
    BY <1>2, <1>6 DEF If
  <2>2. taken[n] \o <<>> = taken[n]
    BY <1>4, ConcatEmptySeq
  <2>3. ~Listening(n) => taken[n] = <<>>
    BY <1>1, <1>4, <1>5, TheMachines DEF Listening
  <2>4. QED
    BY <2>1, <2>2, <2>3 DEF If
<1>7. \A c \in Clients \ present : toPlayer'[c] = <<>>
  BY <1>2, TheMachines DEF Listening, If
<1>8. ASSUME m = Server, NEW p \in Proxies \cap present
      PROVE  /\ toPlayer'[p] \in Seq(Actions)
             /\ Len(toPlayer'[p]) = Len(toPlayer[p]) + 1
             /\ toPlayer'[p][Len(toPlayer[p]) + 1] = a
             /\ \A i \in 1..Len(toPlayer[p]) : toPlayer'[p][i] = toPlayer[p][i]
  <2>1. toPlayer'[p] = toPlayer[p] \o <<a>>
    BY <1>2, <1>4, <1>8, TheMachines DEF Listening, If
  <2>2. toPlayer[p] \in Seq(Actions)
    BY <1>1, TheMachines
  <2>3. QED
    BY <1>3, <2>1, <2>2, SentOne
<1>9. toPlayer' \in [Machines -> Seq(Actions)]
  <2>1. \A n \in Machines : taken[n] \in Seq(Actions) /\ <<>> \in Seq(Actions)
    BY <1>4
  <2>2. \A n \in Machines : toPlayer'[n] \in Seq(Actions)
    BY <1>6, <1>7, <1>8, <2>1, TheMachines
  <2>3. QED
    BY <1>2, <2>2
<1>10. toPlayer'[m] = Tail(toPlayer[m])
  BY <1>4, <1>6, TheMachines
<1>11. toPlayer'[Owner] = <<>>
  BY <1>1, <1>4, <1>5, <1>6, TheMachines
<1>12. m # Server => \A n \in Machines \ {m} : toPlayer'[n] = toPlayer[n]
  BY <1>4, <1>6
<1>13. /\ Len(toPlayer'[m]) = Len(toPlayer[m]) - 1
       /\ \A i \in 1..Len(toPlayer'[m]) : toPlayer'[m][i] = toPlayer[m][i + 1]
  BY <1>3, <1>10
<1>14. m = Server => \A p \in Proxies \cap present :
         /\ Len(toPlayer'[p]) = Len(toPlayer[p]) + 1
         /\ toPlayer'[p][Len(toPlayer[p]) + 1] = a
         /\ \A i \in 1..Len(toPlayer[p]) : toPlayer'[p][i] = toPlayer[p][i]
  BY <1>8
<1>15. toPlayer[m] # <<>> /\ a \in Actions /\ a = toPlayer[m][1] /\ 1 \in 1..Len(toPlayer[m])
  BY <1>2, <1>3
<1>16. QED
  BY <1>5, <1>7, <1>9, <1>11, <1>12, <1>13, <1>14, <1>15 DEF a

\* What was to end still ends: at another machine, behind the action taken, and
\* from now on if the action taken was not the end itself.
LEMMA StillEnds ==
  ASSUME Types, Joining, NEW m \in Machines, ReceivePlayer(m),
         NEW a \in {"FIRE", "NINJAROPE"}
  PROVE  /\ \A n \in Machines \ {m} : \A i \in 0..Len(toPlayer[n]) :
              n \notin Clients \ present /\ Ends(n, i, a) => Ends(n, i, a)'
         /\ \A i \in Nat : Ends(m, i + 1, a) => Ends(m, i, a)'
         /\ Ends(m, 0, a) /\ Head(toPlayer[m]) # Action(a, FALSE) => Ends(m, 1, a)
<1> DEFINE h == Head(toPlayer[m])
<1>1. /\ h = toPlayer[m][1] /\ 1 \in 1..Len(toPlayer[m])
      /\ m \in {Server} \cup Proxies
      /\ toPlayer'[Owner] = <<>>
      /\ Len(toPlayer'[m]) = Len(toPlayer[m]) - 1
      /\ \A i \in 1..Len(toPlayer'[m]) : toPlayer'[m][i] = toPlayer[m][i + 1]
      /\ m # Server => \A n \in Machines \ {m} : toPlayer'[n] = toPlayer[n]
      /\ m = Server => \A p \in Proxies \cap present :
           /\ Len(toPlayer'[p]) = Len(toPlayer[p]) + 1
           /\ toPlayer'[p][Len(toPlayer[p]) + 1] = h
           /\ \A i \in 1..Len(toPlayer[p]) : toPlayer'[p][i] = toPlayer[p][i]
  BY ReceivePlayerSends
<1> HIDE DEF h
<1>2. /\ toPlayer[Owner] = <<>>
      /\ \A n \in Machines : toPlayer[n] \in Seq(Actions) /\ Len(toPlayer[n]) \in Nat
  BY LenProperties DEF Types
<1>3. Asked(a)' <=> Asked(a)
  BY DEF ReceivePlayer, Asked
<1>4. \A i \in Nat : Stops(m, i + 1, a) => Stops(m, i, a)'
  <2> SUFFICES ASSUME NEW i \in Nat, NEW j \in 1..Len(toPlayer[m]), j > i + 1,
                      toPlayer[m][j] = Action(a, FALSE)
               PROVE  Stops(m, i, a)'
    BY DEF Stops
  <2>0. m \in Machines /\ Len(toPlayer[m]) \in Nat
    BY <1>2
  <2>1. j - 1 \in 1..Len(toPlayer'[m]) /\ j - 1 > i /\ (j - 1) + 1 = j
    BY <1>1, <2>0
  <2>2. toPlayer'[m][j - 1] = toPlayer[m][j]
    BY <1>1, <2>1
  <2>3. QED
    BY <2>1, <2>2 DEF Stops
<1>5. Stops(m, 0, a) /\ h # Action(a, FALSE) => Stops(m, 1, a)
  <2> SUFFICES ASSUME NEW j \in 1..Len(toPlayer[m]), toPlayer[m][j] = Action(a, FALSE),
                      h # Action(a, FALSE)
               PROVE  Stops(m, 1, a)
    BY DEF Stops
  <2>1. j # 1
    BY <1>1
  <2>2. j > 1
    BY <1>2, <2>1
  <2>3. QED
    BY <2>2 DEF Stops
<1>6. ASSUME NEW n \in Machines \ {m}, NEW i \in Nat, n \notin Clients \ present,
             Stops(n, i, a)
      PROVE  Stops(n, i, a)'
  <2>1. n # Owner
    BY <1>2, <1>6 DEF Stops
  <2>2. PICK j \in 1..Len(toPlayer[n]) : j > i /\ toPlayer[n][j] = Action(a, FALSE)
    BY <1>6 DEF Stops
  <2>3. CASE m # Server
    BY <1>1, <2>2, <2>3 DEF Stops
  <2>4. CASE m = Server
    <3>1. n \in Proxies \cap present
      BY <1>6, <2>1, <2>4, TheMachines
    <3>2. j \in 1..Len(toPlayer'[n]) /\ toPlayer'[n][j] = toPlayer[n][j]
      BY <1>1, <1>2, <2>4, <3>1, TheMachines
    <3>3. QED
      BY <2>2, <3>2 DEF Stops
  <2>5. QED
    BY <2>3, <2>4
<1>7. ASSUME m = Server, NEW n \in Proxies \cap present, NEW i \in 0..Len(toPlayer[n]),
             Stops(Server, 0, a)
      PROVE  Stops(n, i, a)' \/ Stops(Server, 0, a)'
  <2>1. CASE h = Action(a, FALSE)
    <3>1. Len(toPlayer[n]) + 1 \in 1..Len(toPlayer'[n]) /\ Len(toPlayer[n]) + 1 > i
      BY <1>1, <1>2, <1>7, TheMachines
    <3>2. toPlayer'[n][Len(toPlayer[n]) + 1] = Action(a, FALSE)
      BY <1>1, <1>7, <2>1
    <3>3. QED
      BY <3>1, <3>2 DEF Stops
  <2>2. CASE h # Action(a, FALSE)
    <3>1. Stops(Server, 1, a)
      BY <1>5, <1>7, <2>2
    <3>2. 0 \in Nat /\ 1 = 0 + 1
      OBVIOUS
    <3>3. QED
      BY <1>4, <1>7, <3>1, <3>2
  <2>3. QED
    BY <2>1, <2>2
<1>8. m # Server => (Stops(Server, 0, a) => Stops(Server, 0, a)')
  BY <1>6, TheMachines
<1>9. ASSUME NEW n \in Machines \ {m}, NEW i \in 0..Len(toPlayer[n]),
             n \notin Clients \ present, Ends(n, i, a)
      PROVE  Ends(n, i, a)'
  <2>1. CASE Asked(a)
    BY <1>3, <2>1 DEF Ends
  <2>2. CASE Stops(n, i, a)
    <3>1. i \in Nat
      BY <1>2
    <3>2. Stops(n, i, a)'
      BY <1>6, <1>9, <2>2, <3>1
    <3>3. QED
      BY <3>2 DEF Ends
  <2>3. CASE n \in Proxies /\ Stops(Server, 0, a)
    <3>1. CASE m = Server
      <4>1. n \in Proxies \cap present
        BY <1>9, <2>3, TheMachines
      <4>2. Stops(n, i, a)' \/ Stops(Server, 0, a)'
        BY <1>7, <2>3, <3>1, <4>1
      <4>3. QED
        BY <2>3, <4>2 DEF Ends
    <3>2. CASE m # Server
      <4>1. Stops(Server, 0, a)'
        BY <1>8, <2>3, <3>2
      <4>2. QED
        BY <2>3, <4>1 DEF Ends
    <3>3. QED
      BY <3>1, <3>2
  <2>4. QED
    BY <1>9, <2>1, <2>2, <2>3 DEF Ends
<1>10. ASSUME NEW i \in Nat, Ends(m, i + 1, a)
       PROVE  Ends(m, i, a)'
  <2>1. CASE Asked(a)
    BY <1>3, <2>1 DEF Ends
  <2>2. CASE Stops(m, i + 1, a)
    <3>1. Stops(m, i, a)'
      BY <1>4, <2>2
    <3>2. QED
      BY <3>1 DEF Ends
  <2>3. CASE m \in Proxies /\ Stops(Server, 0, a)
    <3>1. Stops(Server, 0, a)'
      BY <1>8, <2>3, TheMachines
    <3>2. QED
      BY <2>3, <3>1 DEF Ends
  <2>4. QED
    BY <1>10, <2>1, <2>2, <2>3 DEF Ends
<1>11. Ends(m, 0, a) /\ h # Action(a, FALSE) => Ends(m, 1, a)
  BY <1>5 DEF Ends
<1>12. QED
  BY <1>9, <1>10, <1>11 DEF h

LEMMA ReceivePlayerIInv ==
  ASSUME IInv, NEW m \in Machines, ReceivePlayer(m)
  PROVE  IInv'
<1> USE DEF IInv
<1> DEFINE a == Head(toPlayer[m])
           Kinds == {"FIRE", "NINJAROPE"}
<1>1. /\ a \in Actions /\ a = toPlayer[m][1] /\ 1 \in 1..Len(toPlayer[m])
      /\ m \in {Server} \cup Proxies /\ (m \in Clients => m \in present)
      /\ toPlayer' \in [Machines -> Seq(Actions)] /\ toPlayer'[Owner] = <<>>
      /\ Len(toPlayer'[m]) = Len(toPlayer[m]) - 1
      /\ \A i \in 1..Len(toPlayer'[m]) : toPlayer'[m][i] = toPlayer[m][i + 1]
      /\ m # Server => \A n \in Machines \ {m} : toPlayer'[n] = toPlayer[n]
      /\ m = Server => \A p \in Proxies \cap present :
           /\ Len(toPlayer'[p]) = Len(toPlayer[p]) + 1
           /\ toPlayer'[p][Len(toPlayer[p]) + 1] = a
           /\ \A i \in 1..Len(toPlayer[p]) : toPlayer'[p][i] = toPlayer[p][i]
      /\ \A c \in Clients \ present : toPlayer'[c] = <<>>
  BY ReceivePlayerSends
<1>2. /\ Acted(m, a)
      /\ tangled' = IF a.action # "NINJAROPE" THEN tangled
                    ELSE IF ~a.start /\ OnItsWay(m, {"SYNC"}) THEN tangled \cup {m}
                    ELSE tangled \ {m}
      /\ UNCHANGED <<outOfAmmoCheck, isActive, held, currentWeapon, present, toWorm, trigger,
                     thrown, late, astray>>
  BY DEF ReceivePlayer, slots
<1>f. \A n : focused(n)' <=> focused(n)
  BY <1>2, SameFocus
<1> HIDE DEF a
<1>3. a.start \in BOOLEAN /\ a.action \in Kinds /\ a = Action(a.action, a.start)
  BY <1>1, ActionKinds DEF Actions
<1>4. /\ weapon' \in [Machines -> Copy] /\ rope' \in [Machines -> BOOLEAN]
      /\ \A n \in Machines : n # m => weapon'[n] = weapon[n] /\ rope'[n] = rope[n]
      /\ \A n \in Machines : /\ weapon'[n].reloading = weapon[n].reloading
                             /\ weapon'[n].ammo = weapon[n].ammo
      /\ weapon'[m].primaryShooting =
           IF a.action = "FIRE" /\ isActive[m] /\ focused(m)
             THEN a.start ELSE weapon[m].primaryShooting
      /\ rope'[m] = IF a.action = "NINJAROPE" /\ (a.start => isActive[m])
                      THEN a.start ELSE rope[m]
  BY <1>1, <1>2, ActedFacts
<1>5. /\ toPlayer[Owner] = <<>> /\ Owner \in present
      /\ \A n \in Machines : toPlayer[n] \in Seq(Actions) /\ Len(toPlayer[n]) \in Nat
      /\ \A c \in Clients \ present :
           ~isActive[c] /\ ~rope[c] /\ toWorm[c] = <<>> /\ toPlayer[c] = <<>>
  BY LenProperties DEF Types, Joining
<1>6. \A k \in Kinds : \A n \in Machines \ {m} : \A i \in 0..Len(toPlayer[n]) :
        n \notin Clients \ present /\ Ends(n, i, k) => Ends(n, i, k)'
  BY StillEnds
<1>7. \A k \in Kinds : \A i \in Nat : Ends(m, i + 1, k) => Ends(m, i, k)'
  BY StillEnds
<1>8. \A k \in Kinds : Ends(m, 1, k) => Ends(m, 0, k)'
  <2>1. 0 \in Nat /\ 0 + 1 = 1
    OBVIOUS
  <2>2. QED
    BY <1>7, <2>1
<1>9. \A k \in Kinds : Ends(m, 0, k) /\ a # Action(k, FALSE) => Ends(m, 0, k)'
  BY <1>8, StillEnds DEF a
<1>10. \A k \in Kinds : a = Action(k, TRUE) => Ends(m, 0, k)'
  BY <1>1, <1>8 DEF ActionsEnd
<1>11. ActionsEnd'
  <2> SUFFICES ASSUME NEW n \in Machines, NEW i \in 1..Len(toPlayer'[n]), NEW k \in Kinds,
                      toPlayer'[n][i] = Action(k, TRUE)
               PROVE  Ends(n, i, k)'
    BY DEF ActionsEnd
  <2>1. CASE n = m
    <3>0. toPlayer[m][i + 1] = Action(k, TRUE)
      BY <1>1, <2>1
    <3>1. i + 1 \in 1..Len(toPlayer[m]) /\ i \in Nat
      <4>1. Len(toPlayer[m]) \in Nat
        BY <1>5
      <4>2. i \in 1..Len(toPlayer[m]) - 1
        BY <1>1, <2>1
      <4>3. QED
        BY <4>1, <4>2
    <3>2. Ends(m, i + 1, k)
      BY <3>0, <3>1 DEF ActionsEnd
    <3>3. QED
      BY <1>7, <2>1, <3>1, <3>2
  <2>2. CASE n # m /\ i \in 1..Len(toPlayer[n])
    <3>1. n \notin Clients \ present
      BY <1>5, <2>2
    <3>2. toPlayer'[n][i] = toPlayer[n][i]
      BY <1>1, <1>5, <2>2, <3>1, TheMachines
    <3>3. Ends(n, i, k)
      BY <2>2, <3>2 DEF ActionsEnd
    <3>4. i \in 0..Len(toPlayer[n])
      BY <1>5, <2>2
    <3>5. QED
      BY <1>6, <2>2, <3>1, <3>3, <3>4
  <2>3. CASE n # m /\ i \notin 1..Len(toPlayer[n])
    <3>1. m = Server /\ n \in Proxies \cap present
      BY <1>1, <1>5, <2>3, TheMachines
    <3>2. i = Len(toPlayer[n]) + 1
      BY <1>1, <1>5, <2>3, <3>1
    <3>3. a = Action(k, TRUE)
      BY <1>1, <3>1, <3>2
    <3>4. Ends(Server, 0, k)'
      BY <1>10, <3>1, <3>3
    <3>5. QED
      BY <3>1, <3>4, TheMachines DEF Ends
  <2>4. QED
    BY <2>1, <2>2, <2>3
<1>12. ShootingEnds'
  <2> SUFFICES ASSUME NEW n \in Machines, weapon'[n].primaryShooting
               PROVE  focused(n) /\ (isActive[n] => Ends(n, 0, "FIRE")')
    BY <1>2, <1>f DEF ShootingEnds
  <2>1. weapon[n].primaryShooting => focused(n) /\ (isActive[n] => Ends(n, 0, "FIRE"))
    BY DEF ShootingEnds
  <2>2. CASE n # m
    <3>1. isActive[n] => n \notin Clients \ present
      BY <1>5
    <3>2. 0 \in 0..Len(toPlayer[n])
      BY <1>5
    <3>3. Ends(n, 0, "FIRE") /\ n \notin Clients \ present => Ends(n, 0, "FIRE")'
      BY <1>6, <2>2, <3>2
    <3>4. weapon[n].primaryShooting
      BY <1>4, <2>2
    <3>5. QED
      BY <2>1, <3>1, <3>3, <3>4
  <2>3. CASE n = m /\ a.action = "FIRE" /\ isActive[m] /\ focused(m)
    <3>1. a = Action("FIRE", TRUE)
      BY <1>3, <1>4, <2>3
    <3>2. QED
      BY <1>10, <2>3, <3>1
  <2>4. CASE n = m /\ ~(a.action = "FIRE" /\ isActive[m] /\ focused(m))
    <3>1. weapon[m].primaryShooting
      BY <1>4, <2>4
    <3>2. focused(m) /\ (isActive[m] => Ends(m, 0, "FIRE"))
      BY <2>1, <2>4, <3>1
    <3>3. isActive[m] => a # Action("FIRE", FALSE)
      BY <2>4, <3>2, ActionKinds
    <3>4. Ends(m, 0, "FIRE") /\ a # Action("FIRE", FALSE) => Ends(m, 0, "FIRE")'
      BY <1>9
    <3>5. QED
      BY <2>4, <3>2, <3>3, <3>4
  <2>5. QED
    BY <2>2, <2>3, <2>4
<1>13. RopeEnds'
  <2> SUFFICES ASSUME NEW n \in Machines, rope'[n] \/ RopeTold(n)
               PROVE  n \in tangled' \/ Ends(n, 0, "NINJAROPE")'
    BY <1>2 DEF RopeEnds, RopeTold
  <2>1. rope[n] \/ RopeTold(n) => n \in tangled \/ Ends(n, 0, "NINJAROPE")
    BY DEF RopeEnds
  <2>2. RopeTold(m) => OnItsWay(m, {"SYNC"})
    <3>1. toWorm[m] \in Seq(WormEvents)
      BY DEF Queues
    <3>2. DOMAIN toWorm[m] = 1..Len(toWorm[m])
      BY <3>1, LenProperties
    <3>3. QED
      BY <3>2 DEF OnItsWay, RopeTold
  <2>3. RopeTold(n) => n \notin Clients \ present
    BY <1>5 DEF RopeTold
  <2>4. CASE n # m
    <3>1. rope[n] \/ RopeTold(n)
      BY <1>4, <2>4
    <3>2. n \notin Clients \ present
      BY <1>5, <2>3, <3>1
    <3>3. n \in tangled => n \in tangled'
      BY <1>2, <2>4
    <3>4. 0 \in 0..Len(toPlayer[n])
      BY <1>5
    <3>5. Ends(n, 0, "NINJAROPE") => Ends(n, 0, "NINJAROPE")'
      BY <1>6, <2>4, <3>2, <3>4
    <3>6. QED
      BY <2>1, <3>1, <3>3, <3>5
  <2>5. CASE n = m /\ a.action # "NINJAROPE"
    <3>1. rope'[m] = rope[m] /\ tangled' = tangled
      BY <1>2, <1>4, <2>5
    <3>2. a # Action("NINJAROPE", FALSE)
      BY <2>5, ActionKinds
    <3>3. Ends(m, 0, "NINJAROPE") => Ends(m, 0, "NINJAROPE")'
      BY <1>9, <3>2
    <3>4. QED
      BY <2>1, <2>5, <3>1, <3>3
  <2>6. CASE n = m /\ a = Action("NINJAROPE", TRUE)
    BY <1>10, <2>6
  <2>7. CASE n = m /\ a = Action("NINJAROPE", FALSE)
    <3>1. a.action = "NINJAROPE" /\ a.start = FALSE
      BY <2>7, ActionKinds
    <3>2. ~rope'[m]
      BY <1>4, <3>1
    <3>3. QED
      BY <1>2, <2>2, <2>7, <3>1, <3>2
  <2>8. QED
    BY <1>3, <2>4, <2>5, <2>6, <2>7
<1>14. Types'
  <2>1. ASSUME OnItsWay(m, {"SYNC"})
        PROVE  m \in Proxies
    <3>1. PICK i \in DOMAIN toWorm[m] : toWorm[m][i].type = "SYNC"
      BY <2>1 DEF OnItsWay
    <3>2. i \in 1..Len(toWorm[m])
      BY <3>1, LenProperties DEF Queues
    <3>3. m # Server
      BY <3>1, <3>2 DEF Queues, ServerEvents
    <3>4. QED
      BY <1>1, <3>3
  <2>2. tangled' \subseteq Proxies
    BY <1>2, <2>1 DEF Types
  <2>3. QED
    BY <1>1, <1>2, <1>4, <2>2, TheMachines DEF Types
<1>15. Joining'
  BY <1>1, <1>2, <1>4, TheMachines DEF Joining
<1>16. QED
  BY <1>2, <1>4, <1>11, <1>12, <1>13, <1>14, <1>15, SameWorm

-----------------------------------------------------------------------------
(***************************************************************************)
(* The events of the worm.                                                 *)
(***************************************************************************)
\* What is sent to a client is for it to take, and no second SYNC.
LEMMA ToldMore ==
  ASSUME NEW c \in Clients, NEW q \in Seq(WormEvents), Told(c, q), NEW b \in BOOLEAN,
         NEW e, b => e \in ClientEvents(c) /\ e.type # "SYNC",
         NEW r, r = q \o If(b, <<e>>)
  PROVE  Told(c, r) /\ SentTo(WormEvents, q, b, e, r)
<1>1. b => e \in WormEvents
  BY DEF ClientEvents, OwnerEvents, ProxyEvents
<1>2. SentTo(WormEvents, q, b, e, r)
  BY <1>1, SentIf
<1>3. Told(c, r)
  <2> SUFFICES ASSUME NEW i \in 1..Len(r)
               PROVE  r[i] \in ClientEvents(c) /\ (r[i].type = "SYNC" => i = 1)
    BY DEF Told
  <2>1. CASE i \in 1..Len(q)
    BY <1>2, <2>1 DEF Told, SentTo
  <2>2. CASE b /\ r[i] = e
    BY <2>2
  <2>3. QED
    BY <1>2, <2>1, <2>2 DEF SentTo
<1>4. QED
  BY <1>2, <1>3

\* A weapon goes on shooting only where it did, and there for as long.
LEMMA ShootingKept ==
  ASSUME UNCHANGED <<toPlayer, trigger, thrown>>, ShootingEnds,
         \A m \in Machines : weapon'[m].primaryShooting =>
           /\ weapon[m].primaryShooting
           /\ focused(m) => focused(m)'
           /\ isActive'[m] => isActive[m]
  PROVE  ShootingEnds'
<1>1. \A m, i, a : Ends(m, i, a)' <=> Ends(m, i, a)
  BY SamePlayer
<1> SUFFICES ASSUME NEW m \in Machines, weapon'[m].primaryShooting
             PROVE  focused(m)' /\ (isActive'[m] => Ends(m, 0, "FIRE"))
  BY <1>1 DEF ShootingEnds
<1>2. focused(m) /\ (isActive[m] => Ends(m, 0, "FIRE"))
  BY DEF ShootingEnds
<1>3. QED
  BY <1>2

\* No rope is out, or told of, where none was.
LEMMA RopeKept ==
  ASSUME UNCHANGED <<toPlayer, trigger, thrown>>, RopeEnds,
         \A m \in Machines : rope'[m] \/ RopeTold(m)' =>
           /\ rope[m] \/ RopeTold(m)
           /\ m \in tangled => m \in tangled'
  PROVE  RopeEnds'
<1>1. \A m, i, a : Ends(m, i, a)' <=> Ends(m, i, a)
  BY SamePlayer
<1> SUFFICES ASSUME NEW m \in Machines, rope'[m] \/ RopeTold(m)'
             PROVE  m \in tangled' \/ Ends(m, 0, "NINJAROPE")
  BY <1>1 DEF RopeEnds
<1>2. m \in tangled \/ Ends(m, 0, "NINJAROPE")
  BY DEF RopeEnds
<1>3. QED
  BY <1>2

\* The step sends event e to client c if it is in B.
Sent(c, e, B) ==
  /\ toWorm'[c] = toWorm[c] \o If(c \in B, <<e>>)
  /\ Len(toWorm'[c]) = IF c \in B THEN Len(toWorm[c]) + 1 ELSE Len(toWorm[c])
  /\ \A i \in 1..Len(toWorm[c]) :
       i \in 1..Len(toWorm'[c]) /\ toWorm'[c][i] = toWorm[c][i]
  /\ \A i \in 1..Len(toWorm'[c]) :
       \/ i \in 1..Len(toWorm[c])
       \/ c \in B /\ i = Len(toWorm[c]) + 1 /\ toWorm'[c][i] = e

\* The server sends an event to some clients, and may have taken one.
LEMMA ServerSends ==
  ASSUME Types, Queues, Joining, NEW e, NEW B \in SUBSET Clients,
         e.type # "SYNC", \A c \in B : e \in ClientEvents(c),
         NEW q \in Seq(WormEvents), \A i \in 1..Len(q) : q[i] \in ServerEvents,
         toWorm' = [n \in Machines |->
           If(Listening(n), (IF n = Server THEN q ELSE toWorm[n]) \o If(n \in B, <<e>>))]
  PROVE  /\ Queues' /\ toWorm'[Server] = q
         /\ \A c \in Clients \ present : toWorm'[c] = <<>>
         /\ \A c \in Clients \cap present : Sent(c, e, B)
<1>1. toWorm'[Server] = q
  <2>1. toWorm'[Server] = q \o <<>>
    BY TheMachines DEF Listening, If
  <2>2. QED
    BY <2>1, ConcatEmptySeq
<1>2. \A c \in Clients \ present : toWorm'[c] = <<>>
  BY TheMachines DEF Listening, If
<1>3. ASSUME NEW c \in Clients, c \in present
      PROVE  Sent(c, e, B) /\ Told(c, toWorm'[c]) /\ toWorm'[c] \in Seq(WormEvents)
  <2>1. toWorm'[c] = toWorm[c] \o If(c \in B, <<e>>)
    BY <1>3, TheMachines DEF Listening, If
  <2>2. toWorm[c] \in Seq(WormEvents) /\ Told(c, toWorm[c])
    BY TheMachines DEF Queues
  <2>3. PICK b \in BOOLEAN : b <=> c \in B
    OBVIOUS
  <2>4. toWorm'[c] = toWorm[c] \o If(b, <<e>>)
    BY <2>1, <2>3 DEF If
  <2>5. b => e \in ClientEvents(c) /\ e.type # "SYNC"
    BY <2>3
  <2>6. Told(c, toWorm'[c]) /\ SentTo(WormEvents, toWorm[c], b, e, toWorm'[c])
    BY <2>2, <2>4, <2>5, ToldMore
  <2>7. QED
    BY <2>1, <2>3, <2>6 DEF Sent, SentTo
<1>4. Queues'
  <2>1. \A c \in Clients : toWorm'[c] \in Seq(WormEvents) /\ Told(c, toWorm'[c])
    <3>1. \A c \in Clients : Told(c, <<>>) /\ <<>> \in Seq(WormEvents)
      BY DEF Told
    <3>2. QED
      BY <1>2, <1>3, <3>1
  <2>2. \A n \in Machines : toWorm'[n] \in Seq(WormEvents)
    BY <1>1, <2>1, TheMachines
  <2>3. toWorm' \in [Machines -> Seq(WormEvents)]
    BY <2>2
  <2>4. (\A c \in Clients : Told(c, toWorm[c]))'
    BY <2>1 DEF Told
  <2>5. QED
    BY <1>1, <2>3, <2>4 DEF Queues
<1>5. QED
  BY <1>1, <1>2, <1>3, <1>4

\* What the events on their way to a client settle on, once it is sent another.
LEMMA SettlesSent ==
  ASSUME Queues, NEW c \in Clients, NEW e \in WormEvents, NEW B, Sent(c, e, B),
         NEW effect, NEW from, NEW to,
         \/ c \in B /\ effect[e] = {to}
         \/ /\ c \in B => effect[e] = {}
            /\ Settles(effect, toWorm[c], Len(toWorm[c]), from, to)
  PROVE  Settles(effect, toWorm'[c], Len(toWorm'[c]), from, to)
<1>1. toWorm[c] \in Seq(WormEvents)
  BY TheMachines DEF Queues
<1>2. PICK b \in BOOLEAN : b <=> c \in B
  OBVIOUS
<1>3. SentTo(WormEvents, toWorm[c], b, e, toWorm'[c])
  <2>1. toWorm'[c] = toWorm[c] \o If(b, <<e>>)
    BY <1>2 DEF Sent, If
  <2>2. QED
    BY <1>1, <2>1, SentIf
<1>4. \/ b /\ effect[e] = {to}
      \/ (b => effect[e] = {}) /\ Settles(effect, toWorm[c], Len(toWorm[c]), from, to)
  BY <1>2
<1>5. QED
  BY <1>1, <1>3, <1>4, SettlesSentIf

\* Sent to a client, e leaves its slots and finds them as the server has them.
StillHeld(e) ==
  /\ \A k \in Slots : HeldEffect(k)[e] = {}
  /\ \A k \in Slots, has \in BOOLEAN : Finds(e, k, has) => has = Holds(Server, k)

\* The slots are as they were, and what is sent finds them so.
LEMMA HeldKept ==
  ASSUME IInv, Queues', UNCHANGED <<held, present>>,
         \A c \in Clients \ present : toWorm'[c] = <<>>,
         \A c \in Clients \cap present :
           /\ \A i \in 1..Len(toWorm[c]) :
                i \in 1..Len(toWorm'[c]) /\ toWorm'[c][i] = toWorm[c][i]
           /\ \A i \in 1..Len(toWorm'[c]) :
                i \in 1..Len(toWorm[c]) \/ StillHeld(toWorm'[c][i])
  PROVE  HeldAgrees' /\ FindsHeld'
<1>1. \A m, k : Holds(m, k)' = Holds(m, k)
  BY DEF Holds
<1>2. /\ present \subseteq Clients
      /\ \A c \in Clients : Len(toWorm[c]) \in Nat /\ Len(toWorm'[c]) \in Nat
  <2>1. \A c \in Clients : c \in Machines
    BY TheMachines
  <2>2. \A c \in Clients : toWorm[c] \in Seq(WormEvents) /\ toWorm'[c] \in Seq(WormEvents)
    BY <2>1 DEF IInv, Queues
  <2>3. QED
    BY <2>2, LenProperties DEF IInv, Types
<1>3. ASSUME NEW c \in present, NEW k \in Slots
      PROVE  Settles(HeldEffect(k), toWorm[c], Len(toWorm[c]), Holds(c, k), Holds(Server, k))
  BY DEF IInv, HeldAgrees
<1>4. ASSUME NEW c \in present, NEW n \in Nat, Len(toWorm[c]) <= n, n <= Len(toWorm'[c]),
             NEW k \in Slots
      PROVE  Settles(HeldEffect(k), toWorm'[c], n, Holds(c, k), Holds(Server, k))
  <2>1. c \in Clients \cap present /\ Len(toWorm[c]) \in Nat /\ Len(toWorm'[c]) \in Nat
    BY <1>2
  <2>2. \A i \in 1..Len(toWorm[c]) : toWorm'[c][i] = toWorm[c][i]
    BY <2>1
  <2>3. \A i \in 1..n : i \in 1..Len(toWorm[c]) \/ HeldEffect(k)[toWorm'[c][i]] = {}
    <3>1. \A i \in 1..n : i \in 1..Len(toWorm'[c])
      BY <1>4, <2>1
    <3>2. QED
      BY <2>1, <3>1 DEF StillHeld
  <2> DEFINE q == toWorm[c]
             r == toWorm'[c]
             l == Len(toWorm[c])
             effect == HeldEffect(k)
             from == Holds(c, k)
             to == Holds(Server, k)
  <2>4. /\ l \in Nat /\ l <= n /\ \A i \in 1..l : r[i] = q[i]
        /\ \A i \in 1..n : i \in 1..l \/ effect[r[i]] = {}
        /\ Settles(effect, q, l, from, to)
    BY <1>3, <1>4, <2>1, <2>2, <2>3
  <2> HIDE DEF q, r, l, effect, from, to
  <2>5. Settles(effect, r, n, from, to)
    BY <2>4, SettlesQuiet
  <2>6. QED
    BY <2>5 DEF r, effect, from, to
<1>5. HeldAgrees'
  <2> SUFFICES ASSUME NEW c \in present, NEW k \in Slots
               PROVE  Settles(HeldEffect(k), toWorm'[c], Len(toWorm'[c]), Holds(c, k)',
                              Holds(Server, k)')
    BY DEF HeldAgrees
  <2>1. c \in Clients \cap present /\ Len(toWorm[c]) \in Nat /\ Len(toWorm'[c]) \in Nat
    BY <1>2
  <2>2. Len(toWorm[c]) <= Len(toWorm'[c])
    <3>1. CASE Len(toWorm[c]) = 0
      BY <2>1, <3>1
    <3>2. CASE Len(toWorm[c]) # 0
      <4>1. Len(toWorm[c]) \in 1..Len(toWorm[c])
        BY <2>1, <3>2
      <4>2. Len(toWorm[c]) \in 1..Len(toWorm'[c])
        BY <2>1, <4>1
      <4>3. QED
        BY <2>1, <4>2
    <3>3. QED
      BY <3>1, <3>2
  <2>3. Len(toWorm'[c]) <= Len(toWorm'[c])
    BY <2>1
  <2>4. Settles(HeldEffect(k), toWorm'[c], Len(toWorm'[c]), Holds(c, k), Holds(Server, k))
    BY <1>4, <2>1, <2>2, <2>3
  <2>5. QED
    BY <1>1, <2>4
<1>6. FindsHeld'
  <2> SUFFICES ASSUME NEW c \in Clients, NEW i \in 1..Len(toWorm'[c]), NEW k \in Slots,
                      NEW has \in BOOLEAN, Finds(toWorm'[c][i], k, has)
               PROVE  Settles(HeldEffect(k), toWorm'[c], i - 1, Holds(c, k)', has)
    BY DEF FindsHeld, Finds
  <2>1. c \in present /\ Len(toWorm[c]) \in Nat /\ Len(toWorm'[c]) \in Nat
    BY <1>2
  <2>2. CASE i \in 1..Len(toWorm[c])
    <3>1. Finds(toWorm[c][i], k, has)
      BY <2>1, <2>2
    <3>2. Settles(HeldEffect(k), toWorm[c], i - 1, Holds(c, k), has)
      BY <2>2, <3>1 DEF IInv, FindsHeld
    <3>3. i - 1 \in Nat /\ \A j \in 1..i-1 : j \in 1..Len(toWorm[c])
      BY <2>1, <2>2
    <3>4. \A j \in 1..i-1 : toWorm'[c][j] = toWorm[c][j]
      BY <2>1, <3>3
    <3>5. Settles(HeldEffect(k), toWorm'[c], i - 1, Holds(c, k), has)
      BY <3>2, <3>3, <3>4, SettlesBefore
    <3>6. QED
      BY <1>1, <3>5
  <2>3. CASE i \notin 1..Len(toWorm[c])
    <3>1. has = Holds(Server, k)
      BY <2>1, <2>3 DEF StillHeld
    <3>2. i - 1 \in Nat /\ Len(toWorm[c]) <= i - 1 /\ i - 1 <= Len(toWorm'[c])
      BY <2>1, <2>3
    <3>3. Settles(HeldEffect(k), toWorm'[c], i - 1, Holds(c, k), Holds(Server, k))
      BY <1>4, <2>1, <3>2
    <3>4. QED
      BY <1>1, <3>1, <3>3
  <2>4. QED
    BY <2>2, <2>3
<1>7. QED
  BY <1>5, <1>6

\* What e does to a part of a copy, for those in C, is what the server did.
Follows(effect, e, B, C, old, new) ==
  \/ C \subseteq B /\ effect[e] = {new}
  \/ effect[e] = {} /\ new = old

\* The clients follow what the server did and told them.
ClientsFollow(e, B) ==
  /\ ActiveAgrees' /\ ReloadAgrees'
  /\ \A p \in present \ {Owner} :
       Settles(FocusEffect, toWorm'[p], Len(toWorm'[p]), currentWeapon[p],
               currentWeapon'[Server])
  /\ HeldAgrees' /\ FindsHeld'
  /\ \A i \in 1..Len(toWorm'[Owner]) : toWorm'[Owner][i].type = "AmmoCorrection" =>
       Settles(ReloadEffect, toWorm'[Owner], i - 1, weapon[Owner].reloading, FALSE)
  /\ \A c \in Clients \cap present : \A i \in 1..Len(toWorm'[c]) :
       \/ i \in 1..Len(toWorm[c]) /\ toWorm'[c][i] = toWorm[c][i]
       \/ c \in B /\ toWorm'[c][i] = e

\* The server changes its copy, and tells those of the clients whom it concerns.
LEMMA ServerStep ==
  ASSUME IInv, NEW e \in WormEvents, NEW B \in SUBSET Clients,
         UNCHANGED <<present, late, held>>, Queues',
         \A c \in Clients : /\ weapon'[c] = weapon[c] /\ isActive'[c] = isActive[c]
                            /\ currentWeapon'[c] = currentWeapon[c],
         \A c \in Clients \cap present : Sent(c, e, B),
         \A c \in Clients \ present : toWorm'[c] = <<>>,
         B # {} => StillHeld(e),
         Follows(ActiveEffect, e, B, Clients, isActive[Server], isActive'[Server]),
         Follows(FocusEffect, e, B, Proxies, currentWeapon[Server], currentWeapon'[Server]),
         Follows(ReloadEffect, e, B, Clients, weapon[Server].reloading,
                 weapon'[Server].reloading),
         e.type # "AmmoCorrection"
  PROVE  ClientsFollow(e, B)
<1>1. /\ present \subseteq Clients /\ Owner \in present /\ Owner \in Clients
      /\ \A c \in Clients : toWorm[c] \in Seq(WormEvents)
      /\ \A c \in present \ {Owner} : c \in Clients \cap present /\ c \in Proxies
  BY TheMachines DEF IInv, Types, Queues
<1>0. \A c \in Clients \cap present :
        /\ \A i \in 1..Len(toWorm[c]) : toWorm'[c][i] = toWorm[c][i]
        /\ \A i \in 1..Len(toWorm'[c]) : i \in 1..Len(toWorm[c]) \/ (c \in B /\ toWorm'[c][i] = e)
  BY DEF Sent
<1>2. ActiveAgrees'
  <2> SUFFICES ASSUME NEW c \in present
               PROVE  Settles(ActiveEffect, toWorm'[c], Len(toWorm'[c]), isActive[c],
                              isActive'[Server])
    BY <1>1 DEF ActiveAgrees
  <2>1. Settles(ActiveEffect, toWorm[c], Len(toWorm[c]), isActive[c], isActive[Server])
    BY DEF IInv, ActiveAgrees
  <2>2. c \in Clients /\ toWorm[c] \in Seq(WormEvents)
    BY <1>1
  <2>3. Sent(c, e, B) /\ Queues
    BY <2>2 DEF IInv
  <2>4. \/ c \in B /\ ActiveEffect[e] = {isActive'[Server]}
        \/ /\ c \in B => ActiveEffect[e] = {}
           /\ Settles(ActiveEffect, toWorm[c], Len(toWorm[c]), isActive[c], isActive'[Server])
    BY <2>1, <2>2 DEF Follows
  <2>5. QED
    BY <2>2, <2>3, <2>4, SettlesSent
<1>3. ASSUME NEW p \in present \ {Owner}
      PROVE  Settles(FocusEffect, toWorm'[p], Len(toWorm'[p]), currentWeapon[p],
                     currentWeapon'[Server])
  <2>1. Settles(FocusEffect, toWorm[p], Len(toWorm[p]), currentWeapon[p],
                currentWeapon[Server])
    BY DEF IInv, FocusAgrees
  <2>2. p \in Clients /\ p \in Proxies /\ toWorm[p] \in Seq(WormEvents)
    BY <1>1
  <2>3. Sent(p, e, B) /\ Queues
    BY <2>2 DEF IInv
  <2>4. \/ p \in B /\ FocusEffect[e] = {currentWeapon'[Server]}
        \/ /\ p \in B => FocusEffect[e] = {}
           /\ Settles(FocusEffect, toWorm[p], Len(toWorm[p]), currentWeapon[p],
                      currentWeapon'[Server])
    BY <2>1, <2>2 DEF Follows
  <2>5. QED
    BY <2>2, <2>3, <2>4, SettlesSent
<1>4. ASSUME NEW c \in Clients \cap present, NEW i \in 1..Len(toWorm'[c])
      PROVE  \/ i \in 1..Len(toWorm[c]) /\ toWorm'[c][i] = toWorm[c][i]
             \/ c \in B /\ toWorm'[c][i] = e
  BY <1>0
<1>5. ReloadAgrees'
  <2> SUFFICES ASSUME SyncReload, NEW c \in present
               PROVE  \/ c \in late /\ ~IsCleared(c)' /\ weapon'[Server].reloading
                      \/ Settles(ReloadEffect, toWorm'[c], Len(toWorm'[c]),
                                 weapon[c].reloading, weapon'[Server].reloading)
    BY <1>1 DEF ReloadAgrees
  <2>1. c \in Clients /\ toWorm[c] \in Seq(WormEvents)
    BY <1>1
  <2>2. Sent(c, e, B) /\ Queues
    BY <2>1 DEF IInv
  <2>3. CASE Clients \subseteq B /\ ReloadEffect[e] = {weapon'[Server].reloading}
    <3>1. c \in B
      BY <2>1, <2>3
    <3>2. QED
      BY <2>1, <2>2, <2>3, <3>1, SettlesSent
  <2>4. CASE ReloadEffect[e] = {} /\ weapon'[Server].reloading = weapon[Server].reloading
    <3>1. CASE c \in late /\ ~IsCleared(c) /\ weapon[Server].reloading
      <4>1. e.type \notin Clearing
        BY <2>4, Effects DEF Clearing
      <4>2. ~IsCleared(c)'
        BY <1>4, <2>1, <3>1, <4>1 DEF IsCleared
      <4>3. QED
        BY <2>4, <3>1, <4>2
    <3>2. CASE Settles(ReloadEffect, toWorm[c], Len(toWorm[c]), weapon[c].reloading,
                       weapon[Server].reloading)
      <4>1. Settles(ReloadEffect, toWorm[c], Len(toWorm[c]), weapon[c].reloading,
                    weapon'[Server].reloading)
        BY <2>4, <3>2
      <4>2. QED
        BY <2>1, <2>2, <2>4, <4>1, SettlesSent
    <3>3. QED
      BY <3>1, <3>2 DEF IInv, ReloadAgrees
  <2>5. QED
    BY <2>3, <2>4 DEF Follows
<1>6. ASSUME NEW i \in 1..Len(toWorm'[Owner]), toWorm'[Owner][i].type = "AmmoCorrection"
      PROVE  Settles(ReloadEffect, toWorm'[Owner], i - 1, weapon[Owner].reloading, FALSE)
  <2>1. i \in 1..Len(toWorm[Owner]) /\ toWorm'[Owner][i] = toWorm[Owner][i]
    BY <1>1, <1>4, <1>6
  <2>2. Len(toWorm[Owner]) \in Nat
    BY <1>1, LenProperties
  <2>3. i - 1 \in Nat /\ \A j \in 1..i-1 : j \in 1..Len(toWorm[Owner])
    BY <2>1, <2>2
  <2>4. \A j \in 1..i-1 : toWorm'[Owner][j] = toWorm[Owner][j]
    BY <1>0, <1>1, <2>3
  <2>5. Settles(ReloadEffect, toWorm[Owner], i - 1, weapon[Owner].reloading, FALSE)
    BY <1>6, <2>1 DEF IInv, CorrectionFindsFull
  <2>6. QED
    BY <2>3, <2>4, <2>5, SettlesBefore
<1>7. HeldAgrees' /\ FindsHeld'
  <2>1. \A c \in Clients \cap present :
          /\ \A i \in 1..Len(toWorm[c]) :
               i \in 1..Len(toWorm'[c]) /\ toWorm'[c][i] = toWorm[c][i]
          /\ \A i \in 1..Len(toWorm'[c]) :
               i \in 1..Len(toWorm[c]) \/ StillHeld(toWorm'[c][i])
    BY <1>4 DEF Sent
  <2>2. QED
    BY <2>1, HeldKept
<1>8. QED
  BY <1>2, <1>3, <1>4, <1>5, <1>6, <1>7 DEF ClientsFollow

-----------------------------------------------------------------------------
(***************************************************************************)
(* What the server does with the worm's weapons.                           *)
(***************************************************************************)
\* Nothing else comes on its way.
LEMMA ServerSaid ==
  ASSUME IInv, NEW e \in WormEvents, NEW B, ClientsFollow(e, B),
         e.type \notin {"SYNC", "OutOfAmmoCheck", "AmmoCorrection"} \/ B = {},
         \A c \in Clients \ present : toWorm'[c] = <<>>,
         \A i \in 1..Len(toWorm'[Server]) : \E j \in 1..Len(toWorm[Server]) :
           toWorm'[Server][i] = toWorm[Server][j]
  PROVE  /\ \A m \in Machines : RopeTold(m)' => RopeTold(m)
         /\ ~SyncReload => \A m \in Machines : \A i \in 1..Len(toWorm'[m]) :
              toWorm'[m][i].type \notin {"OutOfAmmoCheck", "AmmoCorrection"}
<1>1. ASSUME NEW m \in Machines, NEW i \in 1..Len(toWorm'[m])
      PROVE  \/ \E j \in 1..Len(toWorm[m]) : toWorm'[m][i] = toWorm[m][j]
             \/ toWorm'[m][i].type \notin {"SYNC", "OutOfAmmoCheck", "AmmoCorrection"}
  <2>1. CASE m = Server
    BY <2>1
  <2>2. CASE m \in Clients \ present
    BY <2>2
  <2>3. CASE m \in Clients \cap present
    BY <2>3 DEF ClientsFollow
  <2>4. QED
    BY <2>1, <2>2, <2>3, TheMachines
<1>2. \A m \in Machines : RopeTold(m)' => RopeTold(m)
  <2> SUFFICES ASSUME NEW m \in Machines, NEW i \in 1..Len(toWorm'[m]),
                      toWorm'[m][i].type = "SYNC", toWorm'[m][i].rope
               PROVE  RopeTold(m)
    BY DEF RopeTold
  <2>1. QED
    BY <1>1 DEF RopeTold
<1>3. ~SyncReload => \A m \in Machines : \A j \in 1..Len(toWorm[m]) :
        toWorm[m][j].type \notin {"OutOfAmmoCheck", "AmmoCorrection"}
  BY DEF IInv, CorrectionFindsFull
<1>4. ASSUME ~SyncReload, NEW m \in Machines, NEW i \in 1..Len(toWorm'[m])
      PROVE  toWorm'[m][i].type \notin {"OutOfAmmoCheck", "AmmoCorrection"}
  BY <1>1, <1>3, <1>4
<1>5. QED
  BY <1>2, <1>4

\* A new life begins anew with the server's copy, and it says so to all.
LEMMA RespawnIInv == ASSUME IInv, respawn PROVE IInv'
<1> DEFINE e == Event("Respawn")
<1>0. /\ weapon' = [weapon EXCEPT ![Server] = Fresh]
      /\ isActive' = [isActive EXCEPT ![Server] = TRUE]
      /\ toWorm' = [n \in Machines |->
           If(Listening(n), toWorm[n] \o If(n # Server, <<e>>))]
      /\ UNCHANGED <<outOfAmmoCheck, held, currentWeapon, rope, present, toPlayer, trigger,
                     thrown, late, tangled, astray>>
  BY DEF respawn, reset, Send, history, slots
<1>1. /\ e \in WormEvents /\ e.type = "Respawn"
      /\ e \in OwnerEvents /\ e \in ProxyEvents
      /\ ActiveEffect[e] = {TRUE} /\ FocusEffect[e] = {} /\ ReloadEffect[e] = {FALSE}
      /\ StillHeld(e)
  <2>1. e \in WormEvents /\ e.type = "Respawn"
    BY EventKinds
  <2> HIDE DEF e
  <2>2. StillHeld(e)
    BY <2>1, Effects DEF StillHeld, Finds, Messages
  <2>3. QED
    BY <2>1, <2>2, Effects DEF OwnerEvents, ProxyEvents, Clearing
<1> HIDE DEF e
<1>2. /\ toWorm \in [Machines -> Seq(WormEvents)] /\ toWorm[Server] \in Seq(WormEvents)
      /\ \A i \in 1..Len(toWorm[Server]) : toWorm[Server][i] \in ServerEvents
  BY TheMachines DEF IInv, Queues
<1>3. toWorm' = [n \in Machines |->
        If(Listening(n), (IF n = Server THEN toWorm[Server] ELSE toWorm[n])
                         \o If(n \in Clients, <<e>>))]
  BY <1>0, TheMachines DEF If
<1>4. /\ Queues' /\ toWorm'[Server] = toWorm[Server]
      /\ \A c \in Clients \ present : toWorm'[c] = <<>>
      /\ \A c \in Clients \cap present : Sent(c, e, Clients)
  BY <1>1, <1>2, <1>3, ServerSends DEF IInv, ClientEvents
<1>5. /\ Fresh \in Copy /\ Fresh.ammo # -1 /\ Fresh.reloading = FALSE
      /\ Fresh.primaryShooting = FALSE
  BY WeaponAssumption DEF Fresh, Copy
<1>6. weapon \in [Machines -> Copy] /\ isActive \in [Machines -> BOOLEAN]
  BY DEF IInv, Types
<1>7. /\ weapon'[Server] = Fresh /\ weapon' \in [Machines -> Copy]
      /\ \A c \in Machines \ {Server} : weapon'[c] = weapon[c] /\ isActive'[c] = isActive[c]
      /\ isActive' \in [Machines -> BOOLEAN] /\ isActive'[Server] = TRUE
  BY <1>0, <1>5, <1>6, TheMachines
<1>8. ClientsFollow(e, Clients)
  <2>1. /\ \A c \in Clients : /\ weapon'[c] = weapon[c] /\ isActive'[c] = isActive[c]
                              /\ currentWeapon'[c] = currentWeapon[c]
        /\ UNCHANGED <<present, late, held>>
        /\ currentWeapon'[Server] = currentWeapon[Server]
    BY <1>0, <1>7, TheMachines
  <2>2. Follows(ActiveEffect, e, Clients, Clients, isActive[Server], isActive'[Server])
    BY <1>1, <1>7 DEF Follows
  <2>3. Follows(ReloadEffect, e, Clients, Clients, weapon[Server].reloading,
                weapon'[Server].reloading)
    BY <1>1, <1>5, <1>7 DEF Follows
  <2>4. Follows(FocusEffect, e, Clients, Proxies, currentWeapon[Server],
                currentWeapon'[Server])
    BY <1>1, <2>1 DEF Follows
  <2>5. Clients \in SUBSET Clients /\ e.type # "AmmoCorrection"
    BY <1>1
  <2>6. QED
    BY <1>1, <1>4, <2>1, <2>2, <2>3, <2>4, <2>5, ServerStep
<1>9. FocusAgrees'
  BY <1>0, <1>8 DEF FocusAgrees, ClientsFollow
<1>s. /\ \A m \in Machines : RopeTold(m)' => RopeTold(m)
      /\ ~SyncReload => \A m \in Machines : \A i \in 1..Len(toWorm'[m]) :
           toWorm'[m][i].type \notin {"OutOfAmmoCheck", "AmmoCorrection"}
  <2>1. \A i \in 1..Len(toWorm'[Server]) : \E j \in 1..Len(toWorm[Server]) :
          toWorm'[Server][i] = toWorm[Server][j]
    BY <1>4
  <2>2. QED
    BY <1>1, <1>4, <1>8, <2>1, ServerSaid
<1>10. CorrectionFindsFull'
  <2>1. weapon'[Owner] = weapon[Owner]
    BY <1>7, TheMachines
  <2>2. ~SyncReload => ~outOfAmmoCheck'
    BY <1>0 DEF IInv, CorrectionFindsFull
  <2>3. QED
    BY <1>8, <1>s, <2>1, <2>2 DEF CorrectionFindsFull, ClientsFollow
<1>11. EmptyOnReload'
  BY <1>5, <1>7 DEF IInv, EmptyOnReload
<1>12. ActionsEnd'
  BY <1>0, SamePlayer DEF IInv
<1>13. ShootingEnds'
  <2>1. \A m \in Machines : weapon'[m].primaryShooting =>
          /\ weapon[m].primaryShooting
          /\ focused(m) => focused(m)'
          /\ isActive'[m] => isActive[m]
    BY <1>0, <1>5, <1>7, SameFocus
  <2>2. QED
    BY <1>0, <2>1, ShootingKept DEF IInv
<1>14. RopeEnds'
  BY <1>0, <1>s, RopeKept DEF IInv
<1>15. Types'
  BY <1>0, <1>5, <1>7, TheMachines DEF IInv, Types
<1>16. Joining'
  BY <1>0, <1>4, <1>7, TheMachines DEF IInv, Joining
<1>17. OwnerAhead'
  BY <1>0, <1>4 DEF IInv, OwnerAhead, Tells
<1>18. AnswersHeld'
  BY <1>0 DEF IInv, AnswersHeld, Holds
<1>19. QED
  BY <1>4, <1>8, <1>9, <1>10, <1>11, <1>12, <1>13, <1>14, <1>15, <1>16, <1>17, <1>18
  DEF IInv, ClientsFollow

\* What a selection of n weapons tells: all slots are empty, and then the first n hold
\* weapons anew.
Selection(n) == <<Event("ClearWeapons")>> \o [i \in 1..n |-> SetWeapon(i - 1)]

Selects(n, t) ==
  /\ t \in Seq(WormEvents) /\ 1 \in 1..Len(t)
  /\ t[1].type = "ClearWeapons"
  /\ \A i \in 1..Len(t) : i > 1 => t[i].type = "SetWeapon" /\ t[i].slot = i - 2
  /\ \A k \in 0..n-1 : k + 2 \in 1..Len(t)
  /\ \A k : k + 2 \in 1..Len(t) /\ k \in Nat => k \in 0..n-1

LEMMA SelectionSelects ==
  ASSUME NEW n \in 0..MaxWeapons
  PROVE  Selects(n, Selection(n))
<1> DEFINE c == <<Event("ClearWeapons")>>
           w == [i \in 1..n |-> SetWeapon(i - 1)]
           t == Selection(n)
<1>1. n \in Nat /\ \A i \in 1..n : i - 1 \in Slots
  BY WeaponAssumption DEF Slots
<1>2. /\ Event("ClearWeapons") \in WormEvents
      /\ Event("ClearWeapons").type = "ClearWeapons"
      /\ \A i \in 1..n : /\ SetWeapon(i - 1) \in WormEvents
                         /\ SetWeapon(i - 1).type = "SetWeapon"
                         /\ SetWeapon(i - 1).slot = i - 1
  BY <1>1, EventKinds
<1>3. c \in Seq(WormEvents) /\ Len(c) = 1 /\ c[1] = Event("ClearWeapons")
  BY <1>2
<1>4. w \in Seq(WormEvents) /\ Len(w) = n /\ \A i \in 1..n : w[i] = SetWeapon(i - 1)
  <2>1. w \in [1..n -> WormEvents]
    BY <1>2
  <2>2. w \in Seq(WormEvents)
    BY <1>1, <2>1, SeqDef
  <2>3. DOMAIN w = 1..n
    OBVIOUS
  <2>4. Len(w) = n
    BY <1>1, <2>2, <2>3, LenProperties
  <2>5. QED
    BY <2>2, <2>4
<1>5. t = c \o w
  BY DEF Selection
<1> HIDE DEF c, w, t
<1>6. /\ t \in Seq(WormEvents) /\ Len(t) = n + 1
      /\ \A i \in 1..n+1 : t[i] = IF i <= 1 THEN c[i] ELSE w[i - 1]
  <2>1. /\ t \in Seq(WormEvents) /\ Len(t) = Len(c) + Len(w)
        /\ \A i \in 1..Len(c)+Len(w) : t[i] = IF i <= Len(c) THEN c[i] ELSE w[i - Len(c)]
    BY <1>3, <1>4, <1>5, ConcatProperties
  <2>2. Len(c) + Len(w) = n + 1
    BY <1>1, <1>3, <1>4
  <2>3. QED
    BY <1>3, <2>1, <2>2
<1>7. \A i \in 1..Len(t) : i > 1 => t[i].type = "SetWeapon" /\ t[i].slot = i - 2
  <2> SUFFICES ASSUME NEW i \in 1..Len(t), i > 1
               PROVE  t[i].type = "SetWeapon" /\ t[i].slot = i - 2
    OBVIOUS
  <2>1. PICK j \in 1..n : j = i - 1
    BY <1>1, <1>6
  <2>2. t[i] = w[j]
    BY <1>1, <1>6, <2>1
  <2>3. t[i] = SetWeapon(j - 1) /\ j - 1 = i - 2
    BY <1>1, <1>4, <2>1, <2>2
  <2>4. QED
    BY <1>2, <2>3
<1>8. t[1].type = "ClearWeapons" /\ 1 \in 1..Len(t)
  BY <1>1, <1>2, <1>3, <1>6
<1>9. /\ \A k \in 0..n-1 : k + 2 \in 1..Len(t)
      /\ \A k : k + 2 \in 1..Len(t) /\ k \in Nat => k \in 0..n-1
  BY <1>1, <1>6
<1>10. Selects(n, t)
  BY <1>6, <1>7, <1>8, <1>9 DEF Selects
<1>11. QED
  BY <1>10 DEF t

\* What it settles on.
LEMMA SelectionSettles ==
  ASSUME NEW n \in 0..MaxWeapons, NEW t, Selects(n, t)
  PROVE  /\ \A from : Settles(ActiveEffect, t, Len(t), from, from)
         /\ \A from : Settles(FocusEffect, t, Len(t), from, from)
         /\ \A from : Settles(ReloadEffect, t, Len(t), from, FALSE)
         /\ \A k \in Slots : \A from :
              Settles(HeldEffect(k), t, Len(t), from, IF k \in 0..n-1 THEN TRUE ELSE FALSE)
<1>1. /\ t \in Seq(WormEvents) /\ 1 \in 1..Len(t) /\ t[1].type = "ClearWeapons"
      /\ \A i \in 1..Len(t) : i > 1 => t[i].type = "SetWeapon" /\ t[i].slot = i - 2
      /\ \A k \in 0..n-1 : k + 2 \in 1..Len(t)
      /\ \A k : k + 2 \in 1..Len(t) /\ k \in Nat => k \in 0..n-1
  BY DEF Selects
<1>2. \A i \in 1..Len(t) : t[i] \in WormEvents /\ i \in Nat /\ (i = 1 \/ i > 1)
  <2>1. Len(t) \in Nat /\ \A i \in 1..Len(t) : t[i] \in WormEvents
    BY <1>1, LenProperties
  <2>2. QED
    BY <2>1
<1>3. ASSUME NEW i \in 1..Len(t)
      PROVE  t[i].type \in {"ClearWeapons", "SetWeapon"}
  BY <1>1, <1>2
<1>4. ASSUME NEW i \in 1..Len(t)
      PROVE  ActiveEffect[t[i]] = {} /\ FocusEffect[t[i]] = {}
  <2>1. t[i] \in WormEvents
    BY <1>2
  <2>2. QED
    BY <1>3, <2>1, Effects
<1>5. /\ HeldEffect(Slot)[t[1]] = {FALSE} /\ ReloadEffect[t[1]] = {FALSE}
      /\ \A k \in Slots : HeldEffect(k)[t[1]] = {FALSE}
  <2>1. t[1] \in WormEvents
    BY <1>1, <1>2
  <2>2. QED
    BY <1>1, <2>1, Effects DEF Anew, Clearing
<1>6. ASSUME NEW i \in 1..Len(t), i > 1, NEW k \in Slots
      PROVE  /\ HeldEffect(k)[t[i]] = IF i - 2 = k THEN {TRUE} ELSE {}
             /\ i - 2 = Slot => ReloadEffect[t[i]] = {FALSE}
             /\ i - 2 # Slot => ReloadEffect[t[i]] = {}
  <2>1. t[i] \in WormEvents /\ t[i].type = "SetWeapon" /\ t[i].slot = i - 2
    BY <1>1, <1>2, <1>6
  <2>2. HeldEffect(k)[t[i]] = IF i - 2 = k THEN {TRUE} ELSE {}
    <3> DEFINE e == t[i]
               j == i - 2
    <3>1. e \in WormEvents /\ e.type = "SetWeapon" /\ e.slot = j
      BY <2>1
    <3> HIDE DEF e, j
    <3>2. HeldEffect(k)[e] = IF e.slot = k THEN {TRUE} ELSE {}
      BY <3>1, Effects
    <3>3. HeldEffect(k)[e] = IF j = k THEN {TRUE} ELSE {}
      BY <3>1, <3>2
    <3>4. QED
      BY <3>3 DEF e, j
  <2>3. ReloadEffect[t[i]] = IF Anew(t[i]) THEN {FALSE} ELSE {}
    BY <2>1, Effects DEF Clearing
  <2>4. QED
    BY <2>1, <2>2, <2>3 DEF Anew
<1>7. Slot \in Slots /\ \A k \in Slots : k \in Nat
  BY WeaponAssumption DEF Slots
<1>8. ASSUME NEW from
      PROVE  /\ Settles(ActiveEffect, t, Len(t), from, from)
             /\ Settles(FocusEffect, t, Len(t), from, from)
  BY <1>4 DEF Settles
<1>9. ASSUME NEW k \in Slots, NEW from
      PROVE  Settles(HeldEffect(k), t, Len(t), from, IF k \in 0..n-1 THEN TRUE ELSE FALSE)
  <2>1. CASE k \in 0..n-1
    <3>1. k + 2 \in 1..Len(t) /\ k + 2 > 1 /\ (k + 2) - 2 = k
      BY <1>1, <1>7, <2>1
    <3>2. HeldEffect(k)[t[k + 2]] = {TRUE}
      BY <1>6, <3>1
    <3>3. \A i \in 1..Len(t) : i > k + 2 => i > 1 /\ i - 2 # k
      BY <1>2, <1>7
    <3>4. \A i \in 1..Len(t) : i > k + 2 => HeldEffect(k)[t[i]] = {}
      BY <1>6, <3>3
    <3>5. QED
      BY <2>1, <3>1, <3>2, <3>4 DEF Settles
  <2>2. CASE k \notin 0..n-1
    <3>1. \A i \in 1..Len(t) : i > 1 => i - 2 # k
      <4> SUFFICES ASSUME NEW i \in 1..Len(t), i > 1, i - 2 = k
                   PROVE  FALSE
        OBVIOUS
      <4>1. i = k + 2
        BY <1>2, <1>7
      <4>2. QED
        BY <1>1, <1>7, <2>2, <4>1
    <3>2. \A i \in 1..Len(t) : i > 1 => HeldEffect(k)[t[i]] = {}
      BY <1>6, <3>1
    <3>3. QED
      BY <1>1, <1>5, <2>2, <3>2 DEF Settles
  <2>3. QED
    BY <2>1, <2>2
<1>10. ASSUME NEW from
       PROVE  Settles(ReloadEffect, t, Len(t), from, FALSE)
  <2>1. CASE Slot \in 0..n-1
    <3>1. Slot + 2 \in 1..Len(t) /\ Slot + 2 > 1 /\ (Slot + 2) - 2 = Slot
      BY <1>1, <1>7, <2>1
    <3>2. ReloadEffect[t[Slot + 2]] = {FALSE}
      BY <1>6, <1>7, <3>1
    <3>3. \A i \in 1..Len(t) : i > Slot + 2 => i > 1 /\ i - 2 # Slot
      BY <1>2, <1>7
    <3>4. \A i \in 1..Len(t) : i > Slot + 2 => ReloadEffect[t[i]] = {}
      BY <1>6, <1>7, <3>3
    <3>5. QED
      BY <3>1, <3>2, <3>4 DEF Settles
  <2>2. CASE Slot \notin 0..n-1
    <3>1. \A i \in 1..Len(t) : i > 1 => i - 2 # Slot
      <4> SUFFICES ASSUME NEW i \in 1..Len(t), i > 1, i - 2 = Slot
                   PROVE  FALSE
        OBVIOUS
      <4>1. i = Slot + 2
        BY <1>2, <1>7
      <4>2. QED
        BY <1>1, <1>7, <2>2, <4>1
    <3>2. \A i \in 1..Len(t) : i > 1 => ReloadEffect[t[i]] = {}
      BY <1>6, <1>7, <3>1
    <3>3. QED
      BY <1>1, <1>5, <3>2 DEF Settles
  <2>3. QED
    BY <2>1, <2>2
<1>11. QED
  BY <1>8, <1>9, <1>10

\* What is sent to client c, behind what is on its way.
SentAll(c, t) ==
  /\ toWorm'[c] = toWorm[c] \o t /\ toWorm'[c] \in Seq(WormEvents)
  /\ \A i \in 1..Len(toWorm[c]) :
       i \in 1..Len(toWorm'[c]) /\ toWorm'[c][i] = toWorm[c][i]
  /\ \A i \in 1..Len(toWorm'[c]) :
       i \in 1..Len(toWorm[c]) \/ \E j \in 1..Len(t) : toWorm'[c][i] = t[j]

LEMMA AllSent ==
  ASSUME NEW c, NEW t \in Seq(WormEvents), toWorm[c] \in Seq(WormEvents),
         toWorm'[c] = toWorm[c] \o t
  PROVE  SentAll(c, t)
<1> DEFINE q == toWorm[c]
           r == toWorm'[c]
<1>0. q \in Seq(WormEvents) /\ r = q \o t
  OBVIOUS
<1> HIDE DEF q, r
<1>1. /\ Len(q) \in Nat /\ Len(t) \in Nat /\ Len(r) = Len(q) + Len(t)
      /\ r \in Seq(WormEvents)
      /\ \A i \in 1..Len(r) : r[i] = IF i <= Len(q) THEN q[i] ELSE t[i - Len(q)]
  BY <1>0, ConcatProperties, LenProperties
<1>2. \A i \in 1..Len(q) : i \in 1..Len(r) /\ r[i] = q[i]
  BY <1>1
<1>3. ASSUME NEW i \in 1..Len(r), i \notin 1..Len(q)
      PROVE  \E j \in 1..Len(t) : r[i] = t[j]
  <2>1. PICK j \in 1..Len(t) : j = i - Len(q)
    BY <1>1, <1>3
  <2>2. r[i] = t[j]
    BY <1>1, <1>3, <2>1
  <2>3. QED
    BY <2>2
<1>4. QED
  BY <1>0, <1>1, <1>2, <1>3 DEF SentAll, q, r

\* A selection makes the server's weapon anew, and says so to all.
LEMMA SetWeaponsIInv ==
  ASSUME IInv, NEW n \in 0..MaxWeapons, setWeapons(n)
  PROVE  IInv'
<1> DEFINE t == Selection(n)
<1>0. /\ weapon' = [weapon EXCEPT ![Server] = Fresh]
      /\ held' = [held EXCEPT ![Server] = 0..n-1] /\ outOfAmmoCheck' = FALSE
      /\ UNCHANGED <<isActive, currentWeapon, rope, present, toPlayer, trigger, thrown, late,
                     tangled, astray>>
  BY DEF setWeapons, history
<1>1. toWorm' = [m \in Machines |-> If(Listening(m), toWorm[m] \o If(m # Server, t))]
  BY DEF setWeapons, Send, Selection
<1>2. Selects(n, t)
  BY SelectionSelects
<1> HIDE DEF t
<1>3. /\ \A from : Settles(ActiveEffect, t, Len(t), from, from)
      /\ \A from : Settles(FocusEffect, t, Len(t), from, from)
      /\ \A from : Settles(ReloadEffect, t, Len(t), from, FALSE)
      /\ \A k \in Slots : \A from :
           Settles(HeldEffect(k), t, Len(t), from, IF k \in 0..n-1 THEN TRUE ELSE FALSE)
  BY <1>2, SelectionSettles
<1>4. /\ t \in Seq(WormEvents)
      /\ \A j \in 1..Len(t) : /\ t[j] \in WormEvents
                              /\ t[j].type \in {"ClearWeapons", "SetWeapon"}
  <2>1. t \in Seq(WormEvents) /\ Len(t) \in Nat /\ \A j \in 1..Len(t) : t[j] \in WormEvents
    BY <1>2, LenProperties DEF Selects
  <2>2. \A j \in 1..Len(t) : j = 1 \/ j > 1
    BY <2>1
  <2>3. QED
    BY <1>2, <2>1, <2>2 DEF Selects
<1>5. /\ \A m \in Machines : toWorm[m] \in Seq(WormEvents) /\ Len(toWorm[m]) \in Nat
      /\ \A i \in 1..Len(toWorm[Server]) : toWorm[Server][i] \in ServerEvents
      /\ \A c \in Clients : Told(c, toWorm[c])
      /\ present \subseteq Clients /\ Owner \in present
  BY LenProperties DEF IInv, Queues, Types
<1>6. toWorm'[Server] = toWorm[Server]
  <2>1. toWorm'[Server] = toWorm[Server] \o <<>>
    BY <1>1, TheMachines DEF Listening, If
  <2>2. QED
    BY <1>5, <2>1, TheMachines, ConcatEmptySeq
<1>7. \A c \in Clients \ present : toWorm'[c] = <<>>
  BY <1>1, TheMachines DEF Listening, If
<1>8. ASSUME NEW c \in present
      PROVE  SentAll(c, t)
  <2>1. c \in Machines /\ c # Server
    BY <1>5, TheMachines
  <2>2. toWorm'[c] = toWorm[c] \o t
    BY <1>1, <2>1 DEF Listening, If
  <2>3. QED
    BY <1>4, <1>5, <2>1, <2>2, AllSent
<1>9. ASSUME NEW c \in present, NEW effect, NEW from, NEW mid, NEW to,
             mid # to \/ Settles(effect, toWorm[c], Len(toWorm[c]), from, mid),
             Settles(effect, t, Len(t), mid, to)
      PROVE  Settles(effect, toWorm'[c], Len(toWorm'[c]), from, to)
  <2> DEFINE q == toWorm[c]
             r == toWorm'[c]
  <2>1. q \in Seq(WormEvents) /\ r = q \o t
    BY <1>5, <1>8, TheMachines DEF SentAll
  <2>2. mid # to \/ Settles(effect, q, Len(q), from, mid)
    BY <1>9
  <2> HIDE DEF q, r
  <2>3. Settles(effect, r, Len(r), from, to)
    BY <1>4, <1>9, <2>1, <2>2, SettlesOn
  <2>4. QED
    BY <2>3 DEF r
<1>10. Queues'
  <2>1. ASSUME NEW c \in present
        PROVE  toWorm'[c] \in Seq(WormEvents) /\ Told(c, toWorm'[c])
    <3>1. SentAll(c, t) /\ Told(c, toWorm[c]) /\ c \in Clients
      BY <1>5, <1>8
    <3>2. \A j \in 1..Len(t) : t[j] \in ClientEvents(c) /\ t[j].type # "SYNC"
      BY <1>4 DEF ClientEvents, OwnerEvents, ProxyEvents, Clearing
    <3>3. QED
      BY <3>1, <3>2 DEF SentAll, Told
  <2>2. \A c \in Clients : Told(c, <<>>) /\ <<>> \in Seq(WormEvents)
    BY DEF Told
  <2>3. \A c \in Clients : toWorm'[c] \in Seq(WormEvents) /\ Told(c, toWorm'[c])
    BY <1>7, <2>1, <2>2
  <2>4. toWorm' \in [Machines -> Seq(WormEvents)]
    <3>1. \A m \in Machines : toWorm'[m] \in Seq(WormEvents)
      BY <1>5, <1>6, <2>3, TheMachines
    <3>2. QED
      BY <1>1, <3>1
  <2>5. (\A c \in Clients : Told(c, toWorm[c]))'
    BY <2>3 DEF Told
  <2>6. QED
    BY <1>5, <1>6, <2>4, <2>5 DEF Queues
<1>11. /\ Fresh \in Copy /\ Fresh.ammo # -1 /\ Fresh.reloading = FALSE
       /\ Fresh.primaryShooting = FALSE
  BY WeaponAssumption DEF Fresh, Copy
<1>12. weapon \in [Machines -> Copy] /\ held \in [Machines -> SUBSET Slots]
  BY DEF IInv, Types
<1>13. /\ weapon'[Server] = Fresh /\ weapon' \in [Machines -> Copy]
       /\ \A c \in Machines \ {Server} : weapon'[c] = weapon[c] /\ held'[c] = held[c]
       /\ held'[Server] = 0..n-1 /\ held' \in [Machines -> SUBSET Slots]
  <2>1. 0..n-1 \in SUBSET Slots
    BY WeaponAssumption DEF Slots
  <2>2. QED
    BY <1>0, <1>11, <1>12, <2>1, TheMachines
<1>14. \A c \in present : c \in Machines \ {Server}
  BY <1>5, TheMachines
<1>15. ActiveAgrees'
  <2> SUFFICES ASSUME NEW c \in present
               PROVE  Settles(ActiveEffect, toWorm'[c], Len(toWorm'[c]), isActive[c],
                              isActive[Server])
    BY <1>0 DEF ActiveAgrees
  <2>1. Settles(ActiveEffect, toWorm[c], Len(toWorm[c]), isActive[c], isActive[Server])
    BY DEF IInv, ActiveAgrees
  <2>2. Settles(ActiveEffect, t, Len(t), isActive[Server], isActive[Server])
    BY <1>3
  <2>3. QED
    BY <1>9, <2>1, <2>2
<1>16. FocusAgrees'
  <2> SUFFICES ASSUME NEW p \in present \ {Owner}
               PROVE  Settles(FocusEffect, toWorm'[p], Len(toWorm'[p]), currentWeapon[p],
                              currentWeapon[Server])
    BY <1>0 DEF FocusAgrees
  <2>1. Settles(FocusEffect, toWorm[p], Len(toWorm[p]), currentWeapon[p],
                currentWeapon[Server])
    BY DEF IInv, FocusAgrees
  <2>2. Settles(FocusEffect, t, Len(t), currentWeapon[Server], currentWeapon[Server])
    BY <1>3
  <2>3. p \in present
    OBVIOUS
  <2>4. QED
    BY <1>9, <2>1, <2>2, <2>3
<1>17. ReloadAgrees'
  <2> SUFFICES ASSUME NEW c \in present
               PROVE  Settles(ReloadEffect, toWorm'[c], Len(toWorm'[c]),
                              weapon'[c].reloading, FALSE)
    BY <1>0, <1>11, <1>13 DEF ReloadAgrees
  <2>1. Settles(ReloadEffect, t, Len(t), TRUE, FALSE) /\ TRUE # FALSE
    BY <1>3
  <2>2. QED
    BY <1>9, <2>1
<1>18. HeldAgrees'
  <2> SUFFICES ASSUME NEW c \in present, NEW k \in Slots
               PROVE  Settles(HeldEffect(k), toWorm'[c], Len(toWorm'[c]), Holds(c, k)',
                              Holds(Server, k)')
    BY <1>0 DEF HeldAgrees
  <2> DEFINE effect == HeldEffect(k)
             from == Holds(c, k)
             mid == Holds(Server, k)
             to == IF k \in 0..n-1 THEN TRUE ELSE FALSE
  <2>1. Holds(c, k)' = from /\ Holds(Server, k)' = to
    BY <1>13, <1>14 DEF Holds
  <2>2. Settles(effect, toWorm[c], Len(toWorm[c]), from, mid)
    BY DEF IInv, HeldAgrees
  <2>3. Settles(effect, t, Len(t), mid, to)
    BY <1>3
  <2> HIDE DEF effect, from, mid, to
  <2>4. Settles(effect, toWorm'[c], Len(toWorm'[c]), from, to)
    BY <1>9, <2>2, <2>3
  <2>5. QED
    BY <2>1, <2>4 DEF effect
<1>b. ASSUME NEW c \in present, NEW i \in 1..Len(toWorm[c]), NEW effect, NEW from, NEW to,
             Settles(effect, toWorm[c], i - 1, from, to)
      PROVE  Settles(effect, toWorm'[c], i - 1, from, to)
  <2>1. Len(toWorm[c]) \in Nat /\ SentAll(c, t)
    BY <1>5, <1>8, <1>14
  <2>2. i - 1 \in Nat /\ \A j \in 1..i-1 : j \in 1..Len(toWorm[c])
    BY <2>1
  <2>3. \A j \in 1..i-1 : toWorm'[c][j] = toWorm[c][j]
    BY <2>1, <2>2 DEF SentAll
  <2>4. QED
    BY <1>b, <2>2, <2>3, SettlesBefore
<1>19. FindsHeld'
  <2> SUFFICES ASSUME NEW c \in Clients, NEW i \in 1..Len(toWorm'[c]), NEW k \in Slots,
                      NEW has \in BOOLEAN, Finds(toWorm'[c][i], k, has)
               PROVE  Settles(HeldEffect(k), toWorm'[c], i - 1, Holds(c, k)', has)
    BY DEF FindsHeld, Finds
  <2>1. c \in present
    BY <1>7
  <2>2. i \in 1..Len(toWorm[c]) /\ toWorm'[c][i] = toWorm[c][i]
    BY <1>4, <1>8, <2>1 DEF SentAll, Finds, Messages
  <2>3. Settles(HeldEffect(k), toWorm[c], i - 1, Holds(c, k), has)
    BY <2>2 DEF IInv, FindsHeld
  <2>4. Holds(c, k)' = Holds(c, k)
    BY <1>13, <1>14, <2>1 DEF Holds
  <2>5. Settles(HeldEffect(k), toWorm'[c], i - 1, Holds(c, k), has)
    BY <1>b, <2>1, <2>2, <2>3
  <2>6. QED
    BY <2>4, <2>5
<1>20. ASSUME NEW m \in Machines, NEW i \in 1..Len(toWorm'[m])
       PROVE  \/ i \in 1..Len(toWorm[m]) /\ toWorm'[m][i] = toWorm[m][i]
              \/ toWorm'[m][i].type \in {"ClearWeapons", "SetWeapon"}
  <2>1. CASE m = Server
    BY <1>6, <2>1
  <2>2. CASE m \in Clients \ present
    BY <1>7, <2>2
  <2>3. CASE m \in present
    BY <1>4, <1>8, <2>3 DEF SentAll
  <2>4. QED
    BY <2>1, <2>2, <2>3, TheMachines
<1>21. CorrectionFindsFull'
  <2>1. ASSUME NEW i \in 1..Len(toWorm'[Owner]), toWorm'[Owner][i].type = "AmmoCorrection"
        PROVE  Settles(ReloadEffect, toWorm'[Owner], i - 1, weapon'[Owner].reloading, FALSE)
    <3>1. i \in 1..Len(toWorm[Owner]) /\ toWorm[Owner][i].type = "AmmoCorrection"
      BY <1>20, <2>1, TheMachines
    <3>2. Settles(ReloadEffect, toWorm[Owner], i - 1, weapon[Owner].reloading, FALSE)
      BY <3>1 DEF IInv, CorrectionFindsFull
    <3>3. weapon'[Owner] = weapon[Owner]
      BY <1>13, TheMachines
    <3>4. QED
      BY <1>5, <1>b, <3>1, <3>2, <3>3
  <2>2. ASSUME ~SyncReload, NEW m \in Machines, NEW i \in 1..Len(toWorm'[m])
        PROVE  toWorm'[m][i].type \notin {"OutOfAmmoCheck", "AmmoCorrection"}
    BY <1>20, <2>2 DEF IInv, CorrectionFindsFull
  <2>3. QED
    BY <1>0, <2>1, <2>2 DEF CorrectionFindsFull
<1>22. EmptyOnReload'
  BY <1>11, <1>13 DEF IInv, EmptyOnReload
<1>23. ActionsEnd'
  BY <1>0, SamePlayer DEF IInv
<1>24. ShootingEnds'
  <2>1. \A m \in Machines : weapon'[m].primaryShooting =>
          /\ weapon[m].primaryShooting
          /\ focused(m) => focused(m)'
          /\ isActive'[m] => isActive[m]
    BY <1>0, <1>11, <1>13, SameFocus
  <2>2. QED
    BY <1>0, <2>1, ShootingKept DEF IInv
<1>25. RopeEnds'
  <2>1. \A m \in Machines : RopeTold(m)' => RopeTold(m)
    <3> SUFFICES ASSUME NEW m \in Machines, NEW i \in 1..Len(toWorm'[m]),
                        toWorm'[m][i].type = "SYNC", toWorm'[m][i].rope
                 PROVE  RopeTold(m)
      BY DEF RopeTold
    <3>1. QED
      BY <1>20 DEF RopeTold
  <2>2. QED
    BY <1>0, <2>1, RopeKept DEF IInv
<1>26. Types'
  BY <1>0, <1>11, <1>13, TheMachines DEF IInv, Types
<1>27. Joining'
  BY <1>0, <1>7 DEF IInv, Joining
<1>28. OwnerAhead'
  BY <1>0, <1>6 DEF IInv, OwnerAhead, Tells
<1>29. AnswersHeld'
  BY <1>0 DEF AnswersHeld
<1>30. QED
  BY <1>10, <1>15, <1>16, <1>17, <1>18, <1>19, <1>21, <1>22, <1>23, <1>24, <1>25, <1>26,
     <1>27, <1>28, <1>29 DEF IInv

\* The server takes an event, and passes a change of weapon on to the proxies.
LEMMA ReceiveAtServerIInv == ASSUME IInv, ReceiveAtServer PROVE IInv'
<1> DEFINE e == Head(toWorm[Server])
           q == Tail(toWorm[Server])
           B == IF e.type = "ChangeWeapon" THEN Proxies ELSE {}
           f == IF e.type = "ChangeWeapon" THEN ChangeWeapon(Server, e.slot) ELSE Event("OutOfAmmoCheck")
<1>1. /\ toWorm[Server] # <<>> /\ toWorm \in [Machines -> Seq(WormEvents)]
      /\ toWorm[Server] \in Seq(WormEvents)
      /\ \A i \in 1..Len(toWorm[Server]) : toWorm[Server][i] \in ServerEvents
  BY TheMachines DEF ReceiveAtServer, IInv, Queues
<1>2. /\ e = toWorm[Server][1] /\ 1 \in 1..Len(toWorm[Server])
      /\ q \in Seq(WormEvents) /\ Len(q) = Len(toWorm[Server]) - 1
      /\ \A i \in 1..Len(q) : i + 1 \in 1..Len(toWorm[Server]) /\ q[i] = toWorm[Server][i + 1]
      /\ Len(toWorm[Server]) \in 1..Len(toWorm[Server])
  BY <1>1, HeadTailProperties, LenProperties
<1>3. e \in WormEvents /\ e \in ServerEvents /\ e.type \in {"OutOfAmmoCheck", "ChangeWeapon"}
  BY <1>1, <1>2 DEF ServerEvents
<1>4. toWorm' = [n \in Machines |->
        If(Listening(n), (IF n = Server THEN q ELSE toWorm[n]) \o If(n \in B, <<f>>))]
  BY <1>1 DEF ReceiveAtServer, Send, If
<1>5. UNCHANGED <<isActive, held, rope, present, toPlayer, trigger, thrown, late, tangled>>
  BY DEF ReceiveAtServer
<1>6. /\ e.type = "ChangeWeapon" =>
           /\ Changed(Server, e.slot) /\ UNCHANGED outOfAmmoCheck
           /\ astray' = IF astray = "undone" THEN astray
                        ELSE IF e.slot \in held[Server] \cup {currentWeapon[Server]} THEN "no"
                        ELSE "refused"
      /\ e.type # "ChangeWeapon" => /\ outOfAmmoCheck' = (outOfAmmoCheck \/ Slot \in held[Server])
                                    /\ UNCHANGED <<weapon, currentWeapon, astray>>
  BY DEF ReceiveAtServer
<1>7. /\ (e.type = "ChangeWeapon" => B = Proxies) /\ (e.type # "ChangeWeapon" => B = {})
      /\ e.type = "ChangeWeapon" => f = ChangeWeapon(Server, e.slot)
      /\ e.type # "ChangeWeapon" => f = Event("OutOfAmmoCheck")
  OBVIOUS
<1>t. e = Head(toWorm[Server]) /\ q = Tail(toWorm[Server])
  OBVIOUS
<1> HIDE DEF e, q, B, f
<1>k. e.type = "ChangeWeapon" => e.slot \in Slots
  BY <1>3, EventFields
<1>8. /\ f \in WormEvents /\ f.type \in {"ChangeWeapon", "OutOfAmmoCheck"}
      /\ e.type = "ChangeWeapon" => f \in ProxyEvents
      /\ ActiveEffect[f] = {} /\ ReloadEffect[f] = {}
      /\ FocusEffect[f] = IF e.type = "ChangeWeapon" /\ e.slot \in held[Server]
                            THEN {e.slot} ELSE {}
      /\ StillHeld(f)
      /\ SlotEffect[e] = IF e.type = "ChangeWeapon" THEN {e.slot} ELSE {}
  <2>0. SlotEffect[e] = IF e.type = "ChangeWeapon" THEN {e.slot} ELSE {}
    BY <1>3, Effects
  <2>1. CASE e.type = "ChangeWeapon"
    <3>1. /\ f \in WormEvents /\ f.type = "ChangeWeapon" /\ f.slot = e.slot
          /\ f.taken = Holds(Server, e.slot)
      BY <1>7, <1>k, <2>1, EventKinds, TheMachines
    <3>2. ActiveEffect[f] = {} /\ ReloadEffect[f] = {} /\ \A k : HeldEffect(k)[f] = {}
      BY <3>1, Effects DEF Anew, Clearing
    <3>3. FocusEffect[f] = IF f.taken THEN {f.slot} ELSE {}
      BY <3>1, Effects
    <3>4. StillHeld(f)
      BY <3>1, <3>2 DEF StillHeld, Finds, Messages
    <3>5. FocusEffect[f] = IF e.slot \in held[Server] THEN {e.slot} ELSE {}
      BY <3>1, <3>3 DEF Holds
    <3>6. f \in ProxyEvents
      BY <3>1 DEF ProxyEvents
    <3>7. QED
      BY <2>0, <2>1, <3>1, <3>2, <3>4, <3>5, <3>6
  <2>2. CASE e.type # "ChangeWeapon"
    <3>1. f \in WormEvents /\ f.type = "OutOfAmmoCheck"
      BY <1>7, <2>2, EventKinds
    <3>2. ActiveEffect[f] = {} /\ ReloadEffect[f] = {} /\ \A k : HeldEffect(k)[f] = {}
      BY <3>1, Effects DEF Anew, Clearing
    <3>3. FocusEffect[f] = {}
      BY <3>1, Effects
    <3>4. StillHeld(f)
      BY <3>1, <3>2 DEF StillHeld, Finds, Messages
    <3>5. QED
      BY <2>0, <2>2, <3>1, <3>2, <3>3, <3>4
  <2>3. QED
    BY <2>1, <2>2
<1>9. /\ Queues' /\ toWorm'[Server] = q
      /\ \A c \in Clients \ present : toWorm'[c] = <<>>
      /\ \A c \in Clients \cap present : Sent(c, f, B)
  <2>1. B \in SUBSET Clients /\ f.type # "SYNC" /\ \A c \in B : f \in ClientEvents(c)
    BY <1>3, <1>7, <1>8, TheMachines DEF ClientEvents
  <2>2. \A i \in 1..Len(q) : q[i] \in ServerEvents
    BY <1>1, <1>2
  <2>3. QED
    BY <1>2, <1>4, <2>1, <2>2, ServerSends DEF IInv
<1>10. /\ weapon \in [Machines -> Copy] /\ currentWeapon \in [Machines -> Slots]
       /\ weapon[Server] \in Copy
  BY TheMachines DEF IInv, Types
<1>11. /\ weapon' \in [Machines -> Copy] /\ currentWeapon' \in [Machines -> Slots]
       /\ \A n \in Machines \ {Server} :
            weapon'[n] = weapon[n] /\ currentWeapon'[n] = currentWeapon[n]
       /\ \A n \in Machines : /\ weapon'[n].reloading = weapon[n].reloading
                              /\ weapon'[n].ammo = weapon[n].ammo
       /\ currentWeapon'[Server] = IF e.type = "ChangeWeapon" /\ e.slot \in held[Server]
                                     THEN e.slot ELSE currentWeapon[Server]
       /\ e.type = "ChangeWeapon" =>
            (weapon'[Server].primaryShooting =>
               weapon[Server].primaryShooting /\ ~focused(Server))
       /\ e.type # "ChangeWeapon" => weapon' = weapon
  <2> DEFINE w == [weapon[Server] EXCEPT !.primaryShooting = FALSE]
  <2>1. w \in Copy /\ w.reloading = weapon[Server].reloading /\ w.ammo = weapon[Server].ammo
        /\ w.primaryShooting = FALSE
    BY <1>10 DEF Copy
  <2>2. e.type = "ChangeWeapon" =>
          /\ weapon' = IF focused(Server) THEN [weapon EXCEPT ![Server] = w] ELSE weapon
          /\ currentWeapon' = IF e.slot \in held[Server]
                                THEN [currentWeapon EXCEPT ![Server] = e.slot]
                                ELSE currentWeapon
    BY <1>6, <1>10 DEF Changed
  <2> HIDE DEF w
  <2>3. CASE e.type = "ChangeWeapon"
    BY <1>10, <1>k, <2>1, <2>2, <2>3, TheMachines
  <2>4. CASE e.type # "ChangeWeapon"
    BY <1>6, <1>10, <2>4, TheMachines
  <2>5. QED
    BY <2>3, <2>4
<1>12. ClientsFollow(f, B)
  <2>1. /\ \A c \in Clients : /\ weapon'[c] = weapon[c] /\ isActive'[c] = isActive[c]
                              /\ currentWeapon'[c] = currentWeapon[c]
        /\ UNCHANGED <<present, late, held>>
    BY <1>5, <1>11, TheMachines
  <2>2. Follows(ActiveEffect, f, B, Clients, isActive[Server], isActive'[Server])
    BY <1>5, <1>8 DEF Follows
  <2>3. Follows(ReloadEffect, f, B, Clients, weapon[Server].reloading,
                weapon'[Server].reloading)
    BY <1>8, <1>11, TheMachines DEF Follows
  <2>4. Follows(FocusEffect, f, B, Proxies, currentWeapon[Server], currentWeapon'[Server])
    BY <1>7, <1>8, <1>11 DEF Follows
  <2>5. B \in SUBSET Clients /\ f.type # "AmmoCorrection"
    BY <1>7, <1>8, TheMachines
  <2>6. QED
    BY <1>8, <1>9, <2>1, <2>2, <2>3, <2>4, <2>5, ServerStep
<1>13. /\ \A m \in Machines : RopeTold(m)' => RopeTold(m)
       /\ ~SyncReload => \A m \in Machines : \A i \in 1..Len(toWorm'[m]) :
            toWorm'[m][i].type \notin {"OutOfAmmoCheck", "AmmoCorrection"}
  <2>1. \A i \in 1..Len(toWorm'[Server]) : \E j \in 1..Len(toWorm[Server]) :
          toWorm'[Server][i] = toWorm[Server][j]
    BY <1>2, <1>9
  <2>2. f.type \notin {"SYNC", "OutOfAmmoCheck", "AmmoCorrection"} \/ B = {}
    <3>1. CASE e.type = "ChangeWeapon"
      <4>1. f.type = "ChangeWeapon"
        BY <1>7, <1>k, <3>1, EventKinds, TheMachines
      <4>2. QED
        BY <4>1
    <3>2. QED
      BY <1>7, <3>1
  <2>3. QED
    BY <1>8, <1>9, <1>12, <2>1, <2>2, ServerSaid
<1>14. FocusAgrees'
  <2>1. \A p \in present \ {Owner} : currentWeapon'[p] = currentWeapon[p]
    BY <1>11, TheMachines DEF IInv, Types
  <2>2. QED
    BY <1>5, <1>12, <2>1 DEF FocusAgrees, ClientsFollow
<1>o. OwnerAhead'
  <2> DEFINE s == toWorm[Server]
             from == currentWeapon[Server]
             to == currentWeapon[Owner]
             mid == IF e.type = "ChangeWeapon" THEN e.slot ELSE from
  <2>1. /\ currentWeapon'[Owner] = to /\ toWorm'[Server] = q /\ Len(q) = Len(s) - 1
        /\ \A i \in 1..Len(q) : i + 1 \in 1..Len(s) /\ q[i] = s[i + 1]
        /\ currentWeapon'[Server] = IF e.type = "ChangeWeapon" /\ e.slot \in held[Server]
                                      THEN e.slot ELSE from
    BY <1>2, <1>9, <1>11, TheMachines
  <2>2. Tells(q) => Tells(s)
    BY <2>1 DEF Tells
  <2>3. e.type = "ChangeWeapon" => Tells(s)
    BY <1>2 DEF Tells
  <2>4. SlotEffect[e] = {mid} \/ (SlotEffect[e] = {} /\ mid = from)
    BY <1>8
  <2>5. Settles(SlotEffect, s, Len(s), from, to) => Settles(SlotEffect, q, Len(q), mid, to)
    <3>1. s \in Seq(WormEvents) /\ s # <<>> /\ Len(s) \in 1..Len(s) /\ e = Head(s) /\ q = Tail(s)
      BY <1>1, <1>2, <1>t
    <3>2. Len(q) = Len(s) - 1
      BY <2>1
    <3> HIDE DEF s, from, to, mid
    <3>3. QED
      BY <2>4, <3>1, <3>2, SettlesRest
  <2>6. \/ astray = "undone"
        \/ astray = "refused" /\ ~Tells(s)
        \/ Settles(SlotEffect, s, Len(s), from, to)
    BY DEF IInv, OwnerAhead
  <2>7. (e.type = "ChangeWeapon" => mid = e.slot) /\ (e.type # "ChangeWeapon" => mid = from)
    OBVIOUS
  <2>8. Tells(q) => \E i \in 1..Len(q) : SlotEffect[q[i]] # {}
    <3>1. \A i \in 1..Len(q) : q[i] \in WormEvents
      BY <1>2, LenProperties
    <3>2. \A i \in 1..Len(q) : q[i].type = "ChangeWeapon" => SlotEffect[q[i]] = {q[i].slot}
      BY <3>1, Effects
    <3>3. QED
      BY <3>2 DEF Tells
  <2> HIDE DEF s, from, to, mid
  <2>9. CASE astray = "undone"
    <3>1. astray' = "undone"
      BY <1>6, <2>9
    <3>2. QED
      BY <3>1 DEF OwnerAhead
  <2>10. CASE astray # "undone" /\ e.type # "ChangeWeapon"
    <3>1. astray' = astray
      BY <1>6, <2>10
    <3>2. CASE astray = "refused" /\ ~Tells(s)
      <4>1. ~Tells(toWorm[Server])'
        BY <2>1, <2>2, <3>2 DEF Tells
      <4>2. QED
        BY <3>1, <3>2, <4>1 DEF OwnerAhead
    <3>3. CASE Settles(SlotEffect, s, Len(s), from, to)
      <4>1. Settles(SlotEffect, q, Len(q), from, to) /\ currentWeapon'[Server] = from
        BY <2>1, <2>5, <2>7, <2>10, <3>3
      <4>2. QED
        BY <2>1, <4>1 DEF OwnerAhead
    <3>4. QED
      BY <2>6, <2>10, <3>2, <3>3
  <2>11. CASE astray # "undone" /\ e.type = "ChangeWeapon"
    <3>1. Settles(SlotEffect, q, Len(q), e.slot, to)
      BY <2>3, <2>5, <2>6, <2>7, <2>11
    <3>2. CASE e.slot \in held[Server] \cup {from}
      <4>1. currentWeapon'[Server] = e.slot
        BY <2>1, <2>11, <3>2
      <4>2. QED
        BY <2>1, <3>1, <4>1 DEF OwnerAhead
    <3>3. CASE e.slot \notin held[Server] \cup {from} /\ ~Tells(q)
      <4>1. astray' = "refused" /\ ~Tells(toWorm[Server])'
        BY <1>6, <2>1, <2>11, <3>3 DEF Tells, from
      <4>2. QED
        BY <4>1 DEF OwnerAhead
    <3>4. CASE e.slot \notin held[Server] \cup {from} /\ Tells(q)
      <4>1. Settles(SlotEffect, q, Len(q), from, to)
        BY <2>8, <3>1, <3>4 DEF Settles
      <4>2. currentWeapon'[Server] = from
        BY <2>1, <3>4
      <4>3. QED
        BY <2>1, <4>1, <4>2 DEF OwnerAhead
    <3>5. QED
      BY <3>2, <3>3, <3>4
  <2>12. QED
    BY <2>9, <2>10, <2>11
<1>15. CorrectionFindsFull'
  <2>1. weapon'[Owner] = weapon[Owner]
    BY <1>11, TheMachines
  <2>2. ~SyncReload => ~outOfAmmoCheck'
    <3> SUFFICES ASSUME ~SyncReload
                 PROVE  ~outOfAmmoCheck'
      OBVIOUS
    <3>1. ~outOfAmmoCheck /\ e.type # "OutOfAmmoCheck"
      BY <1>2, TheMachines DEF IInv, CorrectionFindsFull
    <3>2. QED
      BY <1>3, <1>6, <3>1
  <2>3. QED
    BY <1>12, <1>13, <2>1, <2>2 DEF CorrectionFindsFull, ClientsFollow
<1>16. EmptyOnReload'
  BY <1>11 DEF IInv, EmptyOnReload
<1>17. ActionsEnd'
  BY <1>5, SamePlayer DEF IInv
<1>18. ShootingEnds'
  <2>1. \A m \in Machines : weapon'[m].primaryShooting =>
          /\ weapon[m].primaryShooting
          /\ focused(m) => focused(m)'
          /\ isActive'[m] => isActive[m]
    <3>1. weapon[Server].primaryShooting => focused(Server)
      BY TheMachines DEF IInv, ShootingEnds
    <3>2. \A m \in Machines : m # Server \/ e.type # "ChangeWeapon" =>
            held'[m] = held[m] /\ currentWeapon'[m] = currentWeapon[m]
      BY <1>5, <1>11
    <3>3. \A m \in Machines : m # Server \/ e.type # "ChangeWeapon" =>
            (focused(m)' <=> focused(m))
      BY <3>2, SameFocus
    <3>4. QED
      BY <1>5, <1>11, <3>1, <3>3, TheMachines
  <2>2. QED
    BY <1>5, <2>1, ShootingKept DEF IInv
<1>19. RopeEnds'
  BY <1>5, <1>13, RopeKept DEF IInv
<1>20. Types'
  <2>1. outOfAmmoCheck' \in BOOLEAN /\ astray' \in {"no", "refused", "undone"}
    BY <1>6 DEF IInv, Types
  <2>2. QED
    BY <1>5, <1>11, <2>1, TheMachines DEF IInv, Types
<1>21. Joining'
  BY <1>5, <1>9 DEF IInv, Joining
<1>a. AnswersHeld'
  BY <1>5, <1>6 DEF IInv, AnswersHeld, Holds
<1>22. QED
  BY <1>9, <1>12, <1>14, <1>15, <1>16, <1>17, <1>18, <1>19, <1>20, <1>21, <1>o, <1>a
  DEF IInv, ClientsFollow

-----------------------------------------------------------------------------
(***************************************************************************)
(* The tick of a machine.                                                  *)
(***************************************************************************)
\* What outOfAmmo and reload make of a copy.
LEMMA OutAndReload ==
  ASSUME NEW v \in Copy
  PROVE  /\ outOfAmmo(v) \in Copy /\ outOfAmmo(v).ammo = 0
         /\ outOfAmmo(v).reloading = TRUE
         /\ outOfAmmo(v).primaryShooting = v.primaryShooting
         /\ reload(v) \in Copy /\ reload(v).ammo = MaxAmmo
         /\ reload(v).reloading = FALSE
         /\ reload(v).primaryShooting = v.primaryShooting
<1>1. 0 \in -1..MaxAmmo /\ MaxAmmo \in -1..MaxAmmo /\ ReloadTime \in 0..ReloadTime
  BY WeaponAssumption
<1> DEFINE t == IF v.reloading THEN v.reloadTime ELSE ReloadTime
<1>2. t \in 0..ReloadTime
  BY <1>1 DEF Copy
<1>3. outOfAmmo(v) = [v EXCEPT !.ammo = 0, !.reloading = TRUE, !.reloadTime = t]
  BY DEF outOfAmmo
<1> HIDE DEF t
<1>4. /\ outOfAmmo(v) \in Copy /\ outOfAmmo(v).ammo = 0
      /\ outOfAmmo(v).reloading = TRUE
      /\ outOfAmmo(v).primaryShooting = v.primaryShooting
  BY <1>1, <1>2, <1>3 DEF Copy
<1>5. /\ reload(v) \in Copy /\ reload(v).ammo = MaxAmmo
      /\ reload(v).reloading = FALSE
      /\ reload(v).primaryShooting = v.primaryShooting
  <2>1. reload(v) = [v EXCEPT !.reloading = FALSE, !.ammo = MaxAmmo, !.m_outOfAmmo = FALSE]
    BY DEF reload
  <2>2. QED
    BY <1>1, <2>1 DEF Copy
<1>6. QED
  BY <1>4, <1>5

\* What a tick makes of copy w, in three steps: one that reloads stays empty.
Ticked(m, w, w1, w2, w3) ==
  /\ w3 \in Copy /\ (w.ammo # -1 => w3.ammo # -1)
  /\ w3.reloading => w3.ammo <= 0
  /\ w3.primaryShooting = w.primaryShooting
  /\ w2.reloading = IF RunsDry(m, w1) /\ Decides(m) THEN TRUE ELSE w.reloading
  /\ w3.reloading = IF ReloadDone(m, w2) THEN FALSE ELSE w2.reloading
  /\ RunsDry(m, w1) => ~w.reloading
  /\ w2.reloading \in BOOLEAN

LEMMA TickedCopy ==
  ASSUME NEW m, NEW w \in Copy, NEW shot, shot => w.ammo > 0,
         w.reloading => w.ammo <= 0,
         NEW w1, w1 = IF shot THEN useAmmo(w, ShotUse) ELSE w,
         NEW w2, w2 = NotesDry(m, w1), NEW w3, w3 = TicksReload(m, w2)
  PROVE  Ticked(m, w, w1, w2, w3)
<1>1. MaxAmmo \in Nat \ {0} /\ ReloadTime \in Nat /\ ShotUse \in Nat \ {0}
  BY WeaponAssumption
<1>2. /\ w1 \in Copy /\ (w.ammo # -1 => w1.ammo # -1) /\ w1.ammo \in -1..MaxAmmo
      /\ w1.reloading = w.reloading
      /\ w1.primaryShooting = w.primaryShooting
      /\ w1.reloading => w1.ammo <= 0
  <2>1. CASE shot
    <3> DEFINE n == IF w.ammo < ShotUse THEN 0 ELSE w.ammo - ShotUse
    <3>1. w.ammo \in -1..MaxAmmo
      BY DEF Copy
    <3>2. n \in 0..MaxAmmo /\ (w.ammo <= 0 => n = 0)
      BY <1>1, <3>1
    <3>3. w1 = [w EXCEPT !.ammo = n]
      BY <2>1 DEF useAmmo
    <3> HIDE DEF n
    <3>4. n \in -1..MaxAmmo /\ n # -1
      BY <1>1, <3>2
    <3>5. w1 \in Copy /\ w1.ammo = n /\ w1.reloading = w.reloading
          /\ w1.primaryShooting = w.primaryShooting
      BY <3>3, <3>4 DEF Copy
    <3>6. QED
      BY <3>2, <3>4, <3>5
  <2>2. CASE ~shot
    BY <2>2 DEF Copy
  <2>3. QED
    BY <2>1, <2>2
<1>3. /\ w2 \in Copy /\ (w1.ammo # -1 => w2.ammo # -1)
      /\ w2.reloading = IF RunsDry(m, w1) /\ Decides(m) THEN TRUE ELSE w1.reloading
      /\ w2.primaryShooting = w1.primaryShooting
      /\ w2.reloading => w2.ammo <= 0
  <2>1. CASE ~RunsDry(m, w1)
    BY <1>2, <2>1 DEF NotesDry
  <2>2. CASE RunsDry(m, w1)
    <3> DEFINE v == [w1 EXCEPT !.m_outOfAmmo = TRUE]
    <3>1. /\ v \in Copy /\ v.ammo = w1.ammo /\ v.reloading = w1.reloading
          /\ v.primaryShooting = w1.primaryShooting
      BY <1>2 DEF Copy
    <3>2. w2 = IF Decides(m) THEN outOfAmmo(v) ELSE v
      BY <2>2 DEF NotesDry
    <3> HIDE DEF v
    <3>3. /\ outOfAmmo(v) \in Copy /\ outOfAmmo(v).ammo = 0 /\ outOfAmmo(v).reloading = TRUE
          /\ outOfAmmo(v).primaryShooting = v.primaryShooting
      BY <3>1, OutAndReload
    <3>4. CASE Decides(m)
      <4>1. w2 \in Copy /\ w2.ammo = 0 /\ w2.reloading = TRUE
            /\ w2.primaryShooting = w1.primaryShooting
        BY <3>1, <3>2, <3>3, <3>4
      <4>2. w2.ammo # -1 /\ w2.ammo <= 0
        BY <4>1
      <4>3. w2.reloading = IF RunsDry(m, w1) /\ Decides(m) THEN TRUE ELSE w1.reloading
        BY <2>2, <3>4, <4>1
      <4>4. QED
        BY <4>1, <4>2, <4>3
    <3>5. CASE ~Decides(m)
      <4>1. w2 = v
        BY <3>2, <3>5
      <4>2. QED
        BY <1>2, <3>1, <3>5, <4>1
    <3>6. QED
      BY <3>4, <3>5
  <2>3. QED
    BY <2>1, <2>2
<1>4. /\ w3 \in Copy /\ (w2.ammo # -1 => w3.ammo # -1)
      /\ w3.reloading = IF ReloadDone(m, w2) THEN FALSE ELSE w2.reloading
      /\ w3.primaryShooting = w2.primaryShooting
      /\ w3.reloading => w3.ammo <= 0
  <2>1. CASE ReloadDone(m, w2)
    <3>1. w3 = reload(w2)
      BY <2>1 DEF TicksReload
    <3>2. /\ reload(w2) \in Copy /\ reload(w2).ammo = MaxAmmo /\ reload(w2).reloading = FALSE
          /\ reload(w2).primaryShooting = w2.primaryShooting
      BY <1>3, OutAndReload
    <3>3. w3.ammo # -1 /\ w3.reloading = FALSE
      BY <1>1, <3>1, <3>2
    <3>4. w3.reloading = IF ReloadDone(m, w2) THEN FALSE ELSE w2.reloading
      BY <2>1, <3>3
    <3>5. QED
      BY <3>1, <3>2, <3>3, <3>4
  <2>2. CASE ~ReloadDone(m, w2) /\ focused(m) /\ w2.reloading /\ w2.reloadTime > 0
    <3>1. w3 = [w2 EXCEPT !.reloadTime = w2.reloadTime - 1]
      BY <2>2 DEF TicksReload
    <3>2. w2.reloadTime - 1 \in 0..ReloadTime
      BY <1>1, <1>3, <2>2 DEF Copy
    <3>3. /\ w3 \in Copy /\ w3.ammo = w2.ammo /\ w3.reloading = w2.reloading
          /\ w3.primaryShooting = w2.primaryShooting
      BY <1>3, <3>1, <3>2 DEF Copy
    <3>4. QED
      BY <1>3, <2>2, <3>3
  <2>3. CASE ~ReloadDone(m, w2) /\ ~(focused(m) /\ w2.reloading /\ w2.reloadTime > 0)
    <3>1. w3 = w2
      BY <2>3 DEF TicksReload
    <3>2. QED
      BY <1>3, <2>3, <3>1
  <2>4. QED
    BY <2>1, <2>2, <2>3
<1>5. RunsDry(m, w1) => ~w.reloading
  BY <1>2 DEF RunsDry
<1>6. w2.reloading \in BOOLEAN
  BY <1>3 DEF Copy
<1>7. QED
  BY <1>2, <1>3, <1>4, <1>5, <1>6 DEF Ticked

\* The owner tells the server, and nobody else.
LEMMA OwnerSends ==
  ASSUME Types, Queues, Joining, NEW e \in ServerEvents, NEW b \in BOOLEAN,
         toWorm' = [n \in Machines |->
           If(Listening(n), toWorm[n] \o If(n = Server /\ b, <<e>>))]
  PROVE  /\ Queues' /\ \A c \in Clients : toWorm'[c] = toWorm[c]
         /\ toWorm'[Server] = toWorm[Server] \o If(b, <<e>>)
         /\ SentTo(WormEvents, toWorm[Server], b, e, toWorm'[Server])
<1>1. /\ toWorm \in [Machines -> Seq(WormEvents)] /\ toWorm[Server] \in Seq(WormEvents)
      /\ \A i \in 1..Len(toWorm[Server]) : toWorm[Server][i] \in ServerEvents
  BY TheMachines DEF Queues
<1>2. toWorm'[Server] = toWorm[Server] \o If(b, <<e>>)
  BY TheMachines DEF Listening, If
<1>3. SentTo(WormEvents, toWorm[Server], b, e, toWorm'[Server])
  <2>1. b => e \in WormEvents
    BY DEF ServerEvents
  <2>2. QED
    BY <1>1, <1>2, <2>1, SentIf
<1>4. ASSUME NEW c \in Clients
      PROVE  toWorm'[c] = toWorm[c]
  <2>1. toWorm'[c] = If(Listening(c), toWorm[c] \o <<>>)
    BY TheMachines DEF If
  <2>2. toWorm[c] \in Seq(WormEvents)
    BY <1>1, TheMachines
  <2>3. toWorm[c] \o <<>> = toWorm[c]
    BY <2>2, ConcatEmptySeq
  <2>4. QED
    BY <2>1, <2>3, TheMachines DEF Listening, If, Joining
<1>5. Queues'
  <2>1. \A i \in 1..Len(toWorm'[Server]) : toWorm'[Server][i] \in ServerEvents
    BY <1>1, <1>3 DEF SentTo
  <2>2. toWorm'[Server] \in Seq(WormEvents)
    BY <1>3 DEF SentTo
  <2>3. \A n \in Machines : toWorm'[n] \in Seq(WormEvents)
    BY <1>1, <1>4, <2>2, TheMachines
  <2>4. toWorm' \in [Machines -> Seq(WormEvents)]
    BY <2>3
  <2>5. (\A c \in Clients : Told(c, toWorm[c]))'
    <3>1. \A c \in Clients : Told(c, toWorm'[c])
      BY <1>4 DEF Queues
    <3>2. QED
      BY <3>1 DEF Told
  <2>6. QED
    BY <2>1, <2>4, <2>5 DEF Queues
<1>6. QED
  BY <1>2, <1>3, <1>4, <1>5

\* Events find the slots as before where neither has changed.
LEMMA FindsSame ==
  ASSUME FindsHeld, UNCHANGED held, \A c \in Clients : toWorm'[c] = toWorm[c]
  PROVE  FindsHeld'
<1>1. \A m, k : Holds(m, k)' = Holds(m, k)
  BY DEF Holds
<1> SUFFICES ASSUME NEW p \in Clients, NEW i \in 1..Len(toWorm'[p]), NEW k \in Slots,
                    NEW has \in BOOLEAN, Finds(toWorm'[p][i], k, has)
             PROVE  Settles(HeldEffect(k), toWorm'[p], i - 1, Holds(p, k), has)
  BY <1>1 DEF FindsHeld, Finds
<1>2. toWorm'[p] = toWorm[p]
  OBVIOUS
<1>3. QED
  BY <1>2 DEF FindsHeld

\* A client changes its copy, and the owner may tell the server.
LEMMA ClientStep ==
  ASSUME IInv, NEW e \in ServerEvents, NEW b \in BOOLEAN,
         toWorm' = [n \in Machines |->
           If(Listening(n), toWorm[n] \o If(n = Server /\ b, <<e>>))],
         UNCHANGED <<outOfAmmoCheck, isActive, held, rope, present, toPlayer, trigger, thrown,
                     late, tangled>>,
         weapon' \in [Machines -> Copy], currentWeapon' \in [Machines -> Slots],
         astray' \in {"no", "refused", "undone"},
         weapon'[Server] = weapon[Server], weapon'[Owner].ammo # -1,
         \A n \in Machines \ {Owner} : currentWeapon'[n] = currentWeapon[n],
         \A n \in Machines : weapon'[n].reloading => weapon'[n].ammo <= 0,
         \A n \in Machines : weapon'[n].primaryShooting =>
           weapon[n].primaryShooting /\ (focused(n) => focused(n)'),
         SyncReload => \A n \in Machines : weapon'[n].reloading = weapon[n].reloading,
         b /\ ~SyncReload => e.type # "OutOfAmmoCheck",
         \/ b /\ SlotEffect[e] = {currentWeapon'[Owner]}
         \/ /\ b => e.type # "ChangeWeapon"
            /\ currentWeapon'[Owner] = currentWeapon[Owner] /\ astray' = astray
  PROVE  IInv'
<1>1. /\ Queues' /\ \A c \in Clients : toWorm'[c] = toWorm[c]
      /\ toWorm'[Server] = toWorm[Server] \o If(b, <<e>>)
      /\ SentTo(WormEvents, toWorm[Server], b, e, toWorm'[Server])
  BY OwnerSends DEF IInv
<1>2. \A c \in present : c \in Clients /\ c \in Machines
  BY TheMachines DEF IInv, Types
<1>3. ActiveAgrees'
  BY <1>1, <1>2 DEF IInv, ActiveAgrees
<1>4. FocusAgrees'
  <2>1. /\ currentWeapon'[Server] = currentWeapon[Server]
        /\ \A p \in present \ {Owner} : currentWeapon'[p] = currentWeapon[p]
    BY <1>2, TheMachines
  <2>2. QED
    BY <1>1, <1>2, <2>1 DEF IInv, FocusAgrees
<1>o. OwnerAhead'
  <2> DEFINE s == toWorm[Server]
             r == toWorm'[Server]
             from == currentWeapon[Server]
             to == currentWeapon'[Owner]
  <2>1. s \in Seq(WormEvents) /\ (b => e \in WormEvents) /\ SentTo(WormEvents, s, b, e, r)
    BY <1>1, TheMachines DEF IInv, Queues, ServerEvents
  <2>2. currentWeapon'[Server] = from
    BY TheMachines
  <2>3. ASSUME Settles(SlotEffect, r, Len(r), from, to)
        PROVE  OwnerAhead'
    BY <2>2, <2>3 DEF OwnerAhead
  <2>4. ASSUME astray' = "refused", ~Tells(r)
        PROVE  OwnerAhead'
    BY <2>4 DEF OwnerAhead, Tells
  <2>5. CASE b /\ SlotEffect[e] = {to}
    <3> HIDE DEF s, r, from, to
    <3>1. Settles(SlotEffect, r, Len(r), from, to)
      BY <2>1, <2>5, SettlesSentIf
    <3>2. QED
      BY <2>3, <3>1
  <2>6. CASE /\ b => e.type # "ChangeWeapon"
             /\ to = currentWeapon[Owner] /\ astray' = astray
    <3>1. CASE astray = "undone"
      BY <2>6, <3>1 DEF OwnerAhead
    <3>2. CASE astray = "refused" /\ ~Tells(s)
      <4>1. ~Tells(r)
        <5> HIDE DEF s, r
        <5> SUFFICES ASSUME NEW i \in 1..Len(r), r[i].type = "ChangeWeapon"
                     PROVE  FALSE
          BY DEF Tells
        <5>1. CASE i \in 1..Len(s)
          <6>1. r[i] = s[i]
            BY <2>1, <5>1 DEF SentTo
          <6>2. QED
            BY <3>2, <5>1, <6>1 DEF Tells
        <5>2. CASE b /\ r[i] = e
          BY <2>6, <5>2
        <5>3. QED
          BY <2>1, <5>1, <5>2 DEF SentTo
      <4>2. QED
        BY <2>4, <2>6, <3>2, <4>1
    <3>3. CASE Settles(SlotEffect, s, Len(s), from, to)
      <4>1. b => SlotEffect[e] = {}
        BY <2>1, <2>6, Effects
      <4> HIDE DEF s, r, from, to
      <4>2. Settles(SlotEffect, r, Len(r), from, to)
        BY <2>1, <3>3, <4>1, SettlesSentIf
      <4>3. QED
        BY <2>3, <4>2
    <3>4. QED
      BY <2>6, <3>1, <3>2, <3>3 DEF IInv, OwnerAhead
  <2>7. QED
    BY <2>5, <2>6
<1>h. HeldAgrees' /\ FindsHeld' /\ AnswersHeld'
  <2>1. \A m, k : Holds(m, k)' = Holds(m, k)
    BY DEF Holds
  <2>2. HeldAgrees'
    BY <1>1, <1>2, <2>1 DEF IInv, HeldAgrees
  <2>3. FindsHeld'
    BY <1>1, FindsSame DEF IInv
  <2>4. AnswersHeld'
    BY <2>1 DEF IInv, AnswersHeld
  <2>5. QED
    BY <2>2, <2>3, <2>4
<1>5. ReloadAgrees'
  <2> SUFFICES ASSUME SyncReload, NEW c \in present
               PROVE  \/ c \in late /\ ~IsCleared(c)' /\ weapon[Server].reloading
                      \/ Settles(ReloadEffect, toWorm[c], Len(toWorm[c]),
                                 weapon[c].reloading, weapon[Server].reloading)
    BY <1>1, <1>2 DEF ReloadAgrees
  <2>1. IsCleared(c)' <=> IsCleared(c)
    BY <1>1, <1>2 DEF IsCleared
  <2>2. QED
    BY <2>1 DEF IInv, ReloadAgrees
<1>6. CorrectionFindsFull'
  <2>1. ASSUME ~SyncReload, NEW m \in Machines, NEW i \in 1..Len(toWorm'[m])
        PROVE  toWorm'[m][i].type \notin {"OutOfAmmoCheck", "AmmoCorrection"}
    <3>1. \A n \in Machines : \A j \in 1..Len(toWorm[n]) :
            toWorm[n][j].type \notin {"OutOfAmmoCheck", "AmmoCorrection"}
      BY <2>1 DEF IInv, CorrectionFindsFull
    <3>2. CASE m = Server
      <4>1. CASE i \in 1..Len(toWorm[Server])
        BY <1>1, <3>1, <3>2, <4>1, TheMachines DEF SentTo
      <4>2. CASE b /\ toWorm'[Server][i] = e
        BY <2>1, <3>2, <4>2 DEF ServerEvents
      <4>3. QED
        BY <1>1, <3>2, <4>1, <4>2 DEF SentTo
    <3>3. CASE m \in Clients
      BY <1>1, <3>1, <3>3
    <3>4. QED
      BY <3>2, <3>3, TheMachines
  <2>2. ASSUME NEW i \in 1..Len(toWorm'[Owner]), toWorm'[Owner][i].type = "AmmoCorrection"
        PROVE  Settles(ReloadEffect, toWorm'[Owner], i - 1, weapon'[Owner].reloading, FALSE)
    <3>1. toWorm'[Owner] = toWorm[Owner]
      BY <1>1, TheMachines
    <3>2. SyncReload
      BY <2>1, <2>2, TheMachines
    <3>3. weapon'[Owner].reloading = weapon[Owner].reloading
      BY <3>2, TheMachines
    <3>4. QED
      BY <2>2, <3>1, <3>3 DEF IInv, CorrectionFindsFull
  <2>3. ~SyncReload => ~outOfAmmoCheck'
    BY DEF IInv, CorrectionFindsFull
  <2>4. QED
    BY <2>1, <2>2, <2>3 DEF CorrectionFindsFull
<1>7. EmptyOnReload'
  BY DEF EmptyOnReload
<1>8. ActionsEnd'
  BY SamePlayer DEF IInv
<1>9. ShootingEnds'
  BY ShootingKept DEF IInv
<1>10. RopeEnds'
  <2>1. \A m \in Machines : RopeTold(m)' => RopeTold(m)
    <3> SUFFICES ASSUME NEW m \in Machines, NEW i \in 1..Len(toWorm'[m]),
                        toWorm'[m][i].type = "SYNC", toWorm'[m][i].rope
                 PROVE  RopeTold(m)
      BY DEF RopeTold
    <3>1. m # Server
      BY <1>1 DEF Queues, ServerEvents
    <3>2. toWorm'[m] = toWorm[m]
      BY <1>1, <3>1, TheMachines
    <3>3. QED
      BY <3>2 DEF RopeTold
  <2>2. QED
    BY <2>1, RopeKept DEF IInv
<1>11. Types'
  BY DEF IInv, Types
<1>12. Joining'
  BY <1>1 DEF IInv, Joining
<1>13. QED
  BY <1>1, <1>3, <1>4, <1>5, <1>6, <1>7, <1>8, <1>9, <1>10, <1>11, <1>12, <1>o, <1>h DEF IInv

LEMMA ClientTickIInv ==
  ASSUME IInv, NEW c \in Clients, NEW shot \in {FALSE, Shoots(c, weapon[c])},
         Tick(c, FALSE, shot)
  PROVE  IInv'
<1> DEFINE w1 == IF shot THEN useAmmo(weapon[c], ShotUse) ELSE weapon[c]
           w2 == NotesDry(c, w1)
           w3 == TicksReload(c, w2)
           ask == SyncReload /\ RunsDry(c, w1)
           e == Event("OutOfAmmoCheck")
           b == c = Owner /\ ask
<1>1. c \in Machines /\ c # Server /\ Owner # Server /\ Server \in Machines /\ Owner \in Machines
  BY TheMachines
<1>2. /\ weapon' = [weapon EXCEPT ![c] = w3]
      /\ isActive' = [isActive EXCEPT ![c] = ~FALSE]
      /\ rope' = [rope EXCEPT ![c] = @ /\ ~FALSE]
      /\ isActive[c] /\ outOfAmmoCheck' = (outOfAmmoCheck /\ c # Server)
      /\ UNCHANGED <<held, currentWeapon, present, toPlayer, trigger, thrown, late, tangled,
                     astray>>
  BY DEF Tick, history, slots
<1>3. toWorm' = [n \in Machines |->
        If(Listening(n), toWorm[n] \o If(c = Owner /\ n = Server /\ ask, <<e>>))]
  BY <1>1 DEF Tick, Send
<1>4. toWorm' = [n \in Machines |->
        If(Listening(n), toWorm[n] \o If(n = Server /\ b, <<e>>))]
  BY <1>3 DEF If
<1>5. /\ weapon \in [Machines -> Copy] /\ weapon[c] \in Copy
      /\ isActive \in [Machines -> BOOLEAN] /\ rope \in [Machines -> BOOLEAN]
      /\ currentWeapon \in [Machines -> Slots] /\ outOfAmmoCheck \in BOOLEAN
      /\ weapon[Owner].ammo # -1 /\ astray \in {"no", "refused", "undone"}
  BY <1>1 DEF IInv, Types
<1>6. \A n \in Machines : weapon[n].reloading => weapon[n].ammo <= 0
  BY DEF IInv, EmptyOnReload
<1>7. Ticked(c, weapon[c], w1, w2, w3)
  <2>1. shot => weapon[c].ammo > 0
    BY DEF Shoots
  <2>2. weapon[c].reloading => weapon[c].ammo <= 0
    BY <1>1, <1>6
  <2> HIDE DEF w1, w2, w3
  <2>3. w1 = (IF shot THEN useAmmo(weapon[c], ShotUse) ELSE weapon[c])
        /\ w2 = NotesDry(c, w1) /\ w3 = TicksReload(c, w2)
    BY DEF w1, w2, w3
  <2>4. QED
    BY <1>5, <2>1, <2>2, <2>3, TickedCopy
<1>8. SyncReload => ~Decides(c) /\ ~ReloadDone(c, w2)
  BY <1>1 DEF Decides, ReloadDone
<1> HIDE DEF w1, w2, w3
<1>9. /\ b \in BOOLEAN /\ e \in ServerEvents /\ e.type = "OutOfAmmoCheck"
      /\ b => SyncReload
  <2>1. e \in WormEvents /\ e.type = "OutOfAmmoCheck"
    BY EventKinds
  <2> HIDE DEF e
  <2>2. e \in ServerEvents
    BY <2>1 DEF ServerEvents
  <2>3. b \in BOOLEAN /\ (b => SyncReload)
    OBVIOUS
  <2>4. QED
    BY <2>1, <2>2, <2>3
<1> HIDE DEF b, e, ask
<1>10. /\ weapon' \in [Machines -> Copy] /\ weapon'[c] = w3
       /\ \A n \in Machines \ {c} : weapon'[n] = weapon[n]
       /\ isActive' = isActive /\ rope' = rope /\ (outOfAmmoCheck' <=> outOfAmmoCheck)
  BY <1>1, <1>2, <1>5, <1>7 DEF Ticked
<1>11. outOfAmmoCheck' = outOfAmmoCheck
  BY <1>1, <1>2, <1>5
<1>12. weapon'[Server] = weapon[Server] /\ weapon'[Owner].ammo # -1
  BY <1>1, <1>5, <1>7, <1>10 DEF Ticked
<1>13. /\ \A n \in Machines : weapon'[n].reloading => weapon'[n].ammo <= 0
       /\ \A n \in Machines : weapon'[n].primaryShooting =>
            weapon[n].primaryShooting /\ (focused(n) => focused(n)')
  BY <1>2, <1>6, <1>7, <1>10, SameFocus DEF Ticked
<1>14. SyncReload => \A n \in Machines : weapon'[n].reloading = weapon[n].reloading
  BY <1>7, <1>8, <1>10 DEF Ticked
<1>15. UNCHANGED <<outOfAmmoCheck, isActive, held, rope, present, toPlayer, trigger, thrown,
                   late, tangled>>
  BY <1>2, <1>10, <1>11
<1>16. /\ currentWeapon' \in [Machines -> Slots] /\ astray' \in {"no", "refused", "undone"}
       /\ \A n \in Machines \ {Owner} : currentWeapon'[n] = currentWeapon[n]
  BY <1>2, <1>5
<1>17. /\ b => e.type # "ChangeWeapon"
       /\ currentWeapon'[Owner] = currentWeapon[Owner] /\ astray' = astray
  BY <1>2, <1>9
<1>18. b /\ ~SyncReload => e.type # "OutOfAmmoCheck"
  BY <1>9
<1>19. QED
  BY <1>4, <1>9, <1>10, <1>12, <1>13, <1>14, <1>15, <1>16, <1>17, <1>18, ClientStep

\* The owner changes its weapon: it shoots no more with the one it held.
LEMMA ChangeWeaponToIInv ==
  ASSUME IInv, NEW k \in Slots, changeWeaponTo(k)
  PROVE  IInv'
<1> DEFINE e == ChangeWeapon(Owner, k)
           w == [weapon[Owner] EXCEPT !.primaryShooting = FALSE]
<1>1. e \in ServerEvents /\ e.type = "ChangeWeapon" /\ SlotEffect[e] = {k}
  <2>1. e \in WormEvents /\ e.type = "ChangeWeapon" /\ e.slot = k
    BY EventKinds, TheMachines
  <2> HIDE DEF e
  <2>2. QED
    BY <2>1, Effects DEF ServerEvents
<1>2. toWorm' = [n \in Machines |->
        If(Listening(n), toWorm[n] \o If(n = Server /\ TRUE, <<e>>))]
  BY DEF changeWeaponTo, Send, If
<1>3. /\ UNCHANGED <<outOfAmmoCheck, isActive, held, rope, present, toPlayer, trigger, thrown,
                     late, tangled>>
      /\ k \in held[Owner] \cup {currentWeapon[Owner]} /\ Changed(Owner, k) /\ astray' = "no"
  BY DEF changeWeaponTo
<1> HIDE DEF e
<1>4. /\ weapon \in [Machines -> Copy] /\ weapon[Owner] \in Copy /\ weapon[Owner].ammo # -1
      /\ currentWeapon \in [Machines -> Slots] /\ Owner \in Machines /\ Server \in Machines
      /\ Server # Owner
  BY TheMachines DEF IInv, Types
<1>5. /\ w \in Copy /\ w.ammo = weapon[Owner].ammo /\ w.reloading = weapon[Owner].reloading
      /\ ~w.primaryShooting
  BY <1>4 DEF Copy
<1>6. weapon' = IF focused(Owner) THEN [weapon EXCEPT ![Owner] = w] ELSE weapon
  BY <1>3, <1>4 DEF Changed
<1> HIDE DEF w
<1>7. weapon[Owner].primaryShooting => focused(Owner)
  BY <1>4 DEF IInv, ShootingEnds
<1>8. /\ weapon' \in [Machines -> Copy]
      /\ \A n \in Machines \ {Owner} : weapon'[n] = weapon[n]
      /\ weapon'[Owner].ammo = weapon[Owner].ammo
      /\ weapon'[Owner].reloading = weapon[Owner].reloading
      /\ ~weapon'[Owner].primaryShooting
  BY <1>4, <1>5, <1>6, <1>7
<1>9. /\ currentWeapon' \in [Machines -> Slots] /\ currentWeapon'[Owner] = k
      /\ \A n \in Machines \ {Owner} : currentWeapon'[n] = currentWeapon[n]
  <2>1. currentWeapon' = IF k \in held[Owner] THEN [currentWeapon EXCEPT ![Owner] = k]
                         ELSE currentWeapon
    BY <1>3 DEF Changed
  <2>2. QED
    BY <1>3, <1>4, <2>1
<1>10. /\ weapon'[Server] = weapon[Server] /\ weapon'[Owner].ammo # -1
       /\ \A n \in Machines : weapon'[n].reloading = weapon[n].reloading
  BY <1>4, <1>8
<1>11. \A n \in Machines : weapon'[n].reloading => weapon'[n].ammo <= 0
  BY <1>8 DEF IInv, EmptyOnReload
<1>12. \A n \in Machines : weapon'[n].primaryShooting =>
         weapon[n].primaryShooting /\ (focused(n) => focused(n)')
  BY <1>3, <1>8, <1>9, SameFocus
<1>13. TRUE /\ SlotEffect[e] = {currentWeapon'[Owner]}
  BY <1>1, <1>9
<1>14. /\ e.type # "OutOfAmmoCheck" /\ TRUE \in BOOLEAN
       /\ astray' \in {"no", "refused", "undone"}
  BY <1>1, <1>3
<1>15. QED
  BY <1>1, <1>2, <1>3, <1>8, <1>9, <1>10, <1>11, <1>12, <1>13, <1>14, ClientStep

-----------------------------------------------------------------------------
(***************************************************************************)
(* A client joins, and hears of the worm.                                  *)
(***************************************************************************)
LEMMA JoinIInv == ASSUME IInv, NEW c \in Clients, Join(c) PROVE IInv'
<1> DEFINE e == SYNC
<1>1. /\ c \notin present /\ present' = present \cup {c}
      /\ toWorm' = [toWorm EXCEPT ![c] = <<e>>]
      /\ late' = IF weapon[Server].reloading THEN late \cup {c} ELSE late
      /\ UNCHANGED <<weapon, outOfAmmoCheck, isActive, held, currentWeapon, rope, toPlayer,
                     trigger, thrown, tangled, astray>>
  BY DEF Join, copies, slots
<1>2. /\ isActive \in [Machines -> BOOLEAN] /\ currentWeapon \in [Machines -> Slots]
      /\ held \in [Machines -> SUBSET Slots]
      /\ rope \in [Machines -> BOOLEAN] /\ Owner \in present /\ present \subseteq Clients
      /\ Server \in Machines
      /\ toWorm \in [Machines -> Seq(WormEvents)]
  BY TheMachines DEF IInv, Types, Queues
<1>3. c \in Proxies /\ c # Owner /\ c # Server /\ c \in Machines
  BY <1>1, <1>2, TheMachines
<1>4. /\ e \in WormEvents /\ e \in ProxyEvents /\ e.type = "SYNC"
      /\ e.active = isActive[Server] /\ e.rope = rope[Server]
      /\ ActiveEffect[e] = {isActive[Server]} /\ FocusEffect[e] = {currentWeapon[Server]}
      /\ ReloadEffect[e] = {FALSE}
      /\ \A k \in Slots : HeldEffect(k)[e] = {Holds(Server, k)}
  <2>1. /\ e \in WormEvents /\ e.type = "SYNC"
        /\ e.active = isActive[Server] /\ e.rope = rope[Server]
        /\ e.slot = currentWeapon[Server] /\ e.held = held[Server]
    BY <1>2 DEF SYNC, WormEvents
  <2> HIDE DEF e
  <2>2. ASSUME NEW k \in Slots
        PROVE  HeldEffect(k)[e] = {Holds(Server, k)}
    BY <2>1, Effects DEF Holds
  <2>3. QED
    BY <2>1, <2>2, Effects DEF ProxyEvents, Clearing, Anew
<1> HIDE DEF e
<1>5. /\ toWorm'[c] = <<e>> /\ \A n \in Machines \ {c} : toWorm'[n] = toWorm[n]
      /\ toWorm' \in [Machines -> Seq(WormEvents)]
  BY <1>1, <1>2, <1>3, <1>4
<1>6. /\ Len(toWorm'[c]) = 1 /\ toWorm'[c][1] = e /\ 1 \in 1..1
      /\ \A i \in 1..Len(toWorm'[c]) : i = 1
  BY <1>5
<1>7. \A effect, from, to : effect[e] = {to} =>
        Settles(effect, toWorm'[c], Len(toWorm'[c]), from, to)
  BY <1>6 DEF Settles
<1>8. \A p \in present : p \in Machines \ {c} /\ toWorm'[p] = toWorm[p]
  BY <1>1, <1>2, <1>5, TheMachines
<1>9. toWorm'[Server] = toWorm[Server] /\ toWorm'[Owner] = toWorm[Owner]
  BY <1>3, <1>5, TheMachines
<1>10. Types'
  BY <1>1, <1>3, TheMachines DEF IInv, Types
<1>11. Queues'
  <2>1. \A i \in 1..Len(toWorm'[c]) :
          toWorm'[c][i] \in ClientEvents(c) /\ (toWorm'[c][i].type = "SYNC" => i = 1)
    BY <1>3, <1>4, <1>6 DEF ClientEvents
  <2>2. \A n \in Clients \ {c} : Told(n, toWorm'[n])
    BY <1>5, TheMachines DEF IInv, Queues
  <2>3. (\A n \in Clients : Told(n, toWorm[n]))'
    BY <2>1, <2>2 DEF Told
  <2>4. QED
    BY <1>5, <1>9, <2>3 DEF IInv, Queues
<1>12. Joining'
  BY <1>1, <1>5, TheMachines DEF IInv, Joining
<1>13. ActiveAgrees'
  BY <1>1, <1>4, <1>7, <1>8 DEF IInv, ActiveAgrees
<1>14. FocusAgrees'
  BY <1>1, <1>4, <1>7, <1>8, <1>9 DEF IInv, FocusAgrees
<1>15. ReloadAgrees'
  <2> SUFFICES ASSUME SyncReload, NEW p \in present'
               PROVE  \/ p \in late' /\ ~IsCleared(p)' /\ weapon[Server].reloading
                      \/ Settles(ReloadEffect, toWorm'[p], Len(toWorm'[p]),
                                 weapon[p].reloading, weapon[Server].reloading)
    BY <1>1 DEF ReloadAgrees
  <2>1. CASE p = c /\ weapon[Server].reloading
    <3>1. ~IsCleared(c)'
      BY <1>4, <1>6 DEF IsCleared, Clearing
    <3>2. QED
      BY <1>1, <2>1, <3>1
  <2>2. CASE p = c /\ ~weapon[Server].reloading
    <3>1. weapon[Server].reloading = FALSE
      BY <1>2, <2>2 DEF IInv, Types, Copy
    <3>2. QED
      BY <1>4, <1>7, <2>2, <3>1
  <2>3. CASE p # c
    <3>1. p \in present /\ toWorm'[p] = toWorm[p] /\ (p \in late => p \in late')
      BY <1>1, <1>8, <2>3
    <3>2. IsCleared(p)' <=> IsCleared(p)
      BY <3>1 DEF IsCleared
    <3>3. QED
      BY <3>1, <3>2 DEF IInv, ReloadAgrees
  <2>4. QED
    BY <2>1, <2>2, <2>3
<1>16. CorrectionFindsFull'
  <2>1. ASSUME ~SyncReload, NEW m \in Machines, NEW i \in 1..Len(toWorm'[m])
        PROVE  toWorm'[m][i].type \notin {"OutOfAmmoCheck", "AmmoCorrection"}
    <3>1. CASE m = c
      BY <1>4, <1>6, <3>1
    <3>2. CASE m # c
      BY <1>5, <2>1, <3>2 DEF IInv, CorrectionFindsFull
    <3>3. QED
      BY <3>1, <3>2
  <2>2. QED
    BY <1>1, <1>9, <2>1 DEF IInv, CorrectionFindsFull
<1>17. EmptyOnReload'
  BY <1>1 DEF IInv, EmptyOnReload
<1>18. ActionsEnd'
  BY <1>1, SamePlayer DEF IInv
<1>19. ShootingEnds'
  BY <1>1, SameFocus, ShootingKept DEF IInv
<1>20. RopeEnds'
  <2> SUFFICES ASSUME NEW m \in Machines, rope[m] \/ RopeTold(m)'
               PROVE  m \in tangled \/ Ends(m, 0, "NINJAROPE")
    BY <1>1, SamePlayer DEF RopeEnds
  <2>1. CASE rope[m] \/ RopeTold(m)
    BY <2>1 DEF IInv, RopeEnds
  <2>2. CASE ~rope[m] /\ ~RopeTold(m)
    <3>1. m = c
      BY <1>5, <2>2 DEF RopeTold
    <3>2. rope[Server]
      BY <1>4, <1>6, <2>2, <3>1 DEF RopeTold
    <3>3. Ends(Server, 0, "NINJAROPE")
      BY <1>2, <3>2, TheMachines DEF IInv, Types, RopeEnds
    <3>4. QED
      BY <1>3, <3>1, <3>3, TheMachines DEF Ends
  <2>3. QED
    BY <2>1, <2>2
<1>21. OwnerAhead' /\ AnswersHeld'
  BY <1>1, <1>9 DEF IInv, OwnerAhead, AnswersHeld, Holds, Tells
<1>22. \A m, k : Holds(m, k)' = Holds(m, k)
  BY <1>1 DEF Holds
<1>23. HeldAgrees'
  <2> SUFFICES ASSUME NEW p \in present', NEW k \in Slots
               PROVE  Settles(HeldEffect(k), toWorm'[p], Len(toWorm'[p]), Holds(p, k),
                              Holds(Server, k))
    BY <1>22 DEF HeldAgrees
  <2>1. CASE p = c
    BY <1>4, <1>7, <2>1
  <2>2. CASE p # c
    <3>1. p \in present /\ toWorm'[p] = toWorm[p]
      BY <1>1, <1>8, <2>2
    <3>2. QED
      BY <3>1 DEF IInv, HeldAgrees
  <2>3. QED
    BY <2>1, <2>2
<1>24. FindsHeld'
  <2> SUFFICES ASSUME NEW p \in Clients, NEW i \in 1..Len(toWorm'[p]), NEW k \in Slots,
                      NEW has \in BOOLEAN, Finds(toWorm'[p][i], k, has)
               PROVE  Settles(HeldEffect(k), toWorm'[p], i - 1, Holds(p, k), has)
    BY <1>22 DEF FindsHeld, Finds
  <2>1. p # c
    BY <1>4, <1>6 DEF Finds, Messages
  <2>2. toWorm'[p] = toWorm[p]
    BY <1>5, <2>1, TheMachines
  <2>3. QED
    BY <2>2 DEF IInv, FindsHeld
<1>25. QED
  BY <1>10, <1>11, <1>12, <1>13, <1>14, <1>15, <1>16, <1>17, <1>18, <1>19, <1>20, <1>21,
     <1>23, <1>24 DEF IInv

-----------------------------------------------------------------------------
(***************************************************************************)
(* A client takes an event.                                                *)
(***************************************************************************)
\* What an event makes of copy w, in v.
Received(w, e, v) ==
  /\ v \in Copy /\ (v.reloading => v.ammo <= 0)
  /\ w.ammo # -1 /\ e.type # "SHOOT" => v.ammo # -1
  /\ \/ ReloadEffect[e] = {v.reloading}
     \/ ReloadEffect[e] = {} /\ v.reloading = w.reloading
  /\ v.primaryShooting =>
       w.primaryShooting /\ e.type \notin {"SYNC", "Respawn", "ClearWeapons"}

LEMMA ReceivedCopy ==
  ASSUME NEW c \in Clients, NEW w \in Copy, w = weapon[c], NEW e \in WormEvents,
         w.reloading => w.ammo <= 0,
         e.type = "AmmoCorrection" => ~w.reloading,
         e.type \in Messages => Slot \in held[c],
         e.type \in Clearing \cup {"Die", "AmmoCorrection", "SHOOT", "SYNC", "SetWeapon"}
  PROVE  Received(w, e, WeaponAfter(c, e))
<1> DEFINE v == WeaponAfter(c, e)
<1>1. MaxAmmo \in Nat \ {0} /\ ShotUse \in Nat \ {0}
  BY WeaponAssumption
<1>2. w.ammo \in -1..MaxAmmo /\ w.reloading \in BOOLEAN
  BY DEF Copy
<1>3. /\ Fresh \in Copy /\ Fresh.ammo # -1 /\ Fresh.reloading = FALSE
      /\ Fresh.primaryShooting = FALSE
  BY WeaponAssumption DEF Fresh, Copy
<1>4. ReloadEffect[e] = IF e.type = "OUTOFAMMO" THEN {TRUE}
                        ELSE IF e.type \in Clearing \/ Anew(e) THEN {FALSE} ELSE {}
  BY Effects
<1>0. ASSUME e.type \in Messages
      PROVE  v = recieveMessage(w, e)
  <2>1. Slot \in held[c]
    BY <1>0
  <2>2. v = recieveMessage(weapon[c], e)
    BY <1>0, <2>1 DEF WeaponAfter, Messages
  <2>3. QED
    BY <2>2
<1>5. CASE e.type = "OUTOFAMMO"
  <2>1. v = outOfAmmo(w)
    BY <1>0, <1>5 DEF recieveMessage, Messages
  <2> HIDE DEF v
  <2>2. v \in Copy /\ v.ammo = 0 /\ v.reloading = TRUE /\ v.primaryShooting = w.primaryShooting
    BY <2>1, OutAndReload
  <2>3. v.ammo <= 0 /\ v.ammo # -1
    BY <2>2
  <2>4. Received(w, e, v)
    BY <1>4, <1>5, <2>2, <2>3 DEF Received
  <2>5. QED
    BY <2>4 DEF v
<1>6. CASE e.type = "RELOADED"
  <2>1. v = reload(w)
    BY <1>0, <1>6 DEF recieveMessage, Messages
  <2> HIDE DEF v
  <2>2. /\ v \in Copy /\ v.ammo = MaxAmmo /\ v.reloading = FALSE
        /\ v.primaryShooting = w.primaryShooting
    BY <2>1, OutAndReload
  <2>3. v.ammo # -1
    BY <1>1, <2>2
  <2>4. Received(w, e, v)
    BY <1>4, <1>6, <2>2, <2>3 DEF Received, Clearing
  <2>5. QED
    BY <2>4 DEF v
<1>7. CASE e.type \in {"Respawn", "SYNC", "ClearWeapons"}
  <2>1. v = Fresh
    BY <1>7 DEF WeaponAfter, reset, Messages
  <2> HIDE DEF v
  <2>2. Received(w, e, v)
    BY <1>3, <1>4, <1>7, <2>1 DEF Received, Clearing, Anew
  <2>3. QED
    BY <2>2 DEF v
<1>12. CASE e.type = "SetWeapon" /\ e.slot = Slot
  <2>1. v = Fresh
    BY <1>12 DEF WeaponAfter, Messages
  <2> HIDE DEF v
  <2>2. Received(w, e, v)
    BY <1>3, <1>4, <1>12, <2>1 DEF Received, Anew
  <2>3. QED
    BY <2>2 DEF v
<1>8. CASE e.type = "SHOOT"
  <2> DEFINE n == IF w.ammo < ShotUse THEN 0 ELSE w.ammo - ShotUse
  <2>1. n \in 0..MaxAmmo /\ (w.ammo <= 0 => n = 0)
    BY <1>1, <1>2
  <2>2. useAmmo(w, ShotUse) = [w EXCEPT !.ammo = n]
    BY DEF useAmmo
  <2>3. v = [useAmmo(w, ShotUse) EXCEPT !.ammo = @ - 1]
    BY <1>0, <1>8 DEF recieveMessage, Messages
  <2> HIDE DEF n, v
  <2>4. v = [w EXCEPT !.ammo = n - 1]
    BY <2>2, <2>3 DEF Copy
  <2>5. n - 1 \in -1..MaxAmmo /\ (w.ammo <= 0 => n - 1 <= 0)
    BY <1>1, <2>1
  <2>6. /\ v \in Copy /\ v.ammo = n - 1 /\ v.reloading = w.reloading
        /\ v.primaryShooting = w.primaryShooting
    BY <2>4, <2>5 DEF Copy
  <2>7. v.reloading => v.ammo <= 0
    BY <2>5, <2>6
  <2>8. Received(w, e, v)
    BY <1>4, <1>8, <2>6, <2>7 DEF Received, Clearing, Anew
  <2>9. QED
    BY <2>8 DEF v
<1>9. CASE e.type = "AmmoCorrection"
  <2>1. v = [w EXCEPT !.ammo = e.ammo, !.m_outOfAmmo = FALSE]
    BY <1>0, <1>9 DEF recieveMessage, Messages
  <2>2. e.ammo \in 1..MaxAmmo
    BY <1>9 DEF WormEvents
  <2>3. e.ammo \in -1..MaxAmmo /\ e.ammo # -1
    BY <1>1, <2>2
  <2> HIDE DEF v
  <2>4. /\ v \in Copy /\ v.ammo = e.ammo /\ v.reloading = w.reloading
        /\ v.primaryShooting = w.primaryShooting
    BY <2>1, <2>3 DEF Copy
  <2>5. Received(w, e, v)
    BY <1>4, <1>9, <2>3, <2>4 DEF Received, Clearing, Anew
  <2>6. QED
    BY <2>5 DEF v
<1>10. CASE e.type = "Die" \/ (e.type = "SetWeapon" /\ e.slot # Slot)
  <2>1. v = w
    BY <1>10 DEF WeaponAfter, Messages
  <2> HIDE DEF v
  <2>2. Received(w, e, v)
    BY <1>4, <1>10, <2>1 DEF Received, Clearing, Anew
  <2>3. QED
    BY <2>2 DEF v
<1>11. QED
  BY <1>5, <1>6, <1>7, <1>8, <1>9, <1>10, <1>12 DEF Clearing

LEMMA ReceiveAtClientIInv == ASSUME IInv, NEW c \in Clients, ReceiveAtClient(c) PROVE IInv'
<1> DEFINE s == toWorm[c]
           e == Head(s)
           q == Tail(s)
<1>1. /\ s # <<>> /\ s \in Seq(WormEvents) /\ Told(c, s)
      /\ c \in Machines /\ c # Server /\ Server \in Machines /\ Owner \in Machines
      /\ toWorm \in [Machines -> Seq(WormEvents)]
  BY TheMachines DEF ReceiveAtClient, IInv, Queues
<1>2. /\ e = s[1] /\ 1 \in 1..Len(s) /\ Len(s) \in Nat /\ Len(s) \in 1..Len(s)
      /\ q \in Seq(WormEvents) /\ Len(q) = Len(s) - 1
      /\ \A i \in 1..Len(q) : /\ i + 1 \in 1..Len(s) /\ q[i] = s[i + 1]
                              /\ i + 1 # 1
  BY <1>1, HeadTailProperties, LenProperties
<1>3. /\ toWorm' = [toWorm EXCEPT ![c] = q]
      /\ e.type = "ChangeWeapon" => Changed(c, e.slot)
      /\ e.type # "ChangeWeapon" =>
           /\ weapon' = [weapon EXCEPT ![c] = WeaponAfter(c, e)]
           /\ currentWeapon' = IF e.type = "SYNC" THEN [currentWeapon EXCEPT ![c] = e.slot]
                                                  ELSE currentWeapon
      /\ held' = [held EXCEPT ![c] = HeldAfter(c, e)]
      /\ astray' = IF c = Owner /\ e.type = "SYNC" /\ e.slot # currentWeapon[c]
                     THEN "undone" ELSE astray
      /\ isActive' = CASE e.type = "Die"     -> [isActive EXCEPT ![c] = FALSE]
                       [] e.type = "Respawn" -> [isActive EXCEPT ![c] = TRUE]
                       [] e.type = "SYNC"    -> [isActive EXCEPT ![c] = e.active]
                       [] OTHER              -> isActive
      /\ rope' = CASE e.type = "Die"  -> [rope EXCEPT ![c] = FALSE]
                   [] e.type = "SYNC" -> [rope EXCEPT ![c] = e.rope]
                   [] OTHER           -> rope
      /\ tangled' = IF e.type = "Die" THEN tangled \ {c} ELSE tangled
      /\ late' = IF e.type \in Clearing THEN late \ {c} ELSE late
      /\ UNCHANGED <<outOfAmmoCheck, present, toPlayer, trigger, thrown>>
  BY <1>1 DEF ReceiveAtClient, IInv, Types, Clearing
<1>e. e = Head(s) /\ q = Tail(s) /\ s = toWorm[c]
  OBVIOUS
<1> HIDE DEF s, e, q
<1>4. /\ e \in WormEvents /\ e \in ClientEvents(c)
      /\ e.type \in Clearing \cup {"Die", "AmmoCorrection", "SHOOT", "ChangeWeapon",
                             "SetWeapon", "SYNC"}
      /\ c = Owner => e.type \notin {"SHOOT", "ChangeWeapon"}
      /\ c # Owner => e.type # "AmmoCorrection"
      /\ \A i \in 1..Len(q) : q[i] \in ClientEvents(c) /\ q[i].type # "SYNC"
  BY <1>1, <1>2 DEF Told, ClientEvents, OwnerEvents, ProxyEvents, Clearing
<1>5. /\ e.type \in {"ChangeWeapon", "SYNC", "SetWeapon"} => e.slot \in Slots
      /\ e.type = "ChangeWeapon" => e.taken \in BOOLEAN
      /\ e.type = "SYNC" => /\ e.active \in BOOLEAN /\ e.rope \in BOOLEAN
                            /\ e.held \in SUBSET Slots
  BY <1>4, EventFields
<1>6. /\ ActiveEffect[e] = IF e.type = "Die" THEN {FALSE}
                           ELSE IF e.type = "Respawn" THEN {TRUE}
                           ELSE IF e.type = "SYNC" THEN {e.active} ELSE {}
      /\ FocusEffect[e] = IF e.type = "ChangeWeapon" THEN IF e.taken THEN {e.slot} ELSE {}
                          ELSE IF e.type = "SYNC" THEN {e.slot} ELSE {}
  BY <1>4, Effects
<1>7. /\ weapon \in [Machines -> Copy] /\ weapon[c] \in Copy
      /\ isActive \in [Machines -> BOOLEAN] /\ rope \in [Machines -> BOOLEAN]
      /\ currentWeapon \in [Machines -> Slots] /\ held \in [Machines -> SUBSET Slots]
      /\ astray \in {"no", "refused", "undone"} /\ c \in present
      /\ Owner \in present /\ present \subseteq Clients
  BY <1>1, <1>e DEF IInv, Types, Joining
<1>8. /\ toWorm'[c] = q /\ \A n \in Machines \ {c} : toWorm'[n] = toWorm[n]
      /\ toWorm' \in [Machines -> Seq(WormEvents)]
  BY <1>1, <1>2, <1>3
<1>9. /\ isActive' \in [Machines -> BOOLEAN]
      /\ \A n \in Machines \ {c} : isActive'[n] = isActive[n]
      /\ ActiveEffect[e] = {isActive'[c]} \/ (ActiveEffect[e] = {} /\ isActive'[c] = isActive[c])
      /\ e.type \notin {"SYNC", "Respawn"} /\ isActive'[c] => isActive[c]
  <2>1. CASE e.type = "Die"
    <3>1. isActive' = [isActive EXCEPT ![c] = FALSE]
      BY <1>3, <2>1
    <3>2. QED
      BY <1>1, <1>6, <1>7, <2>1, <3>1
  <2>2. CASE e.type = "Respawn"
    <3>1. isActive' = [isActive EXCEPT ![c] = TRUE]
      BY <1>3, <2>2
    <3>2. QED
      BY <1>1, <1>6, <1>7, <2>2, <3>1
  <2>3. CASE e.type = "SYNC"
    <3>1. isActive' = [isActive EXCEPT ![c] = e.active]
      BY <1>3, <2>3
    <3>2. ActiveEffect[e] = {e.active} /\ e.active \in BOOLEAN
      BY <1>5, <1>6, <2>3
    <3>3. QED
      BY <1>1, <1>7, <2>3, <3>1, <3>2
  <2>4. CASE e.type \notin {"Die", "Respawn", "SYNC"}
    <3>1. isActive' = isActive
      BY <1>3, <2>4
    <3>2. ActiveEffect[e] = {}
      BY <1>6, <2>4
    <3>3. QED
      BY <1>7, <3>1, <3>2
  <2>5. QED
    BY <2>1, <2>2, <2>3, <2>4
\* The first event finds the slots as it says.
<1>f. ASSUME NEW k \in Slots, NEW has \in BOOLEAN, Finds(e, k, has)
      PROVE  Holds(c, k) = has
  <2>1. Settles(HeldEffect(k), toWorm[c], 1 - 1, Holds(c, k), has)
    BY <1>2, <1>e, <1>f DEF IInv, FindsHeld
  <2>2. QED
    BY <2>1 DEF Settles
<1>g. /\ e.type \in Messages => Slot \in held[c]
      /\ e.type = "ChangeWeapon" => (e.taken <=> e.slot \in held[c])
  <2>1. ASSUME e.type \in Messages
        PROVE  Slot \in held[c]
    <3>1. Slot \in Slots /\ Finds(e, Slot, TRUE)
      BY <2>1, WeaponAssumption DEF Slots, Finds
    <3>2. Holds(c, Slot) = TRUE
      BY <1>f, <3>1
    <3>3. QED
      BY <3>2 DEF Holds
  <2>2. ASSUME e.type = "ChangeWeapon"
        PROVE  e.taken <=> e.slot \in held[c]
    <3>1. e.slot \in Slots /\ e.taken \in BOOLEAN /\ Finds(e, e.slot, e.taken)
      BY <1>5, <2>2 DEF Finds
    <3>2. Holds(c, e.slot) = e.taken
      BY <1>f, <3>1
    <3>3. QED
      BY <3>1, <3>2 DEF Holds
  <2>3. QED
    BY <2>1, <2>2
<1>10. /\ currentWeapon' \in [Machines -> Slots]
       /\ \A n \in Machines \ {c} : currentWeapon'[n] = currentWeapon[n]
       /\ \/ FocusEffect[e] = {currentWeapon'[c]}
          \/ FocusEffect[e] = {} /\ currentWeapon'[c] = currentWeapon[c]
       /\ e.type \notin {"ChangeWeapon", "SYNC"} => currentWeapon' = currentWeapon
       /\ e.type = "SYNC" => currentWeapon'[c] = e.slot
  <2>1. CASE e.type = "ChangeWeapon"
    <3>1. currentWeapon' = IF e.slot \in held[c] THEN [currentWeapon EXCEPT ![c] = e.slot]
                           ELSE currentWeapon
      BY <1>3, <2>1 DEF Changed
    <3>2. /\ FocusEffect[e] = IF e.slot \in held[c] THEN {e.slot} ELSE {}
          /\ e.slot \in Slots
      BY <1>5, <1>6, <1>g, <2>1
    <3>3. QED
      BY <1>1, <1>7, <2>1, <3>1, <3>2
  <2>2. CASE e.type = "SYNC"
    <3>1. currentWeapon' = [currentWeapon EXCEPT ![c] = e.slot]
      BY <1>3, <2>2
    <3>2. FocusEffect[e] = {e.slot} /\ e.slot \in Slots
      BY <1>5, <1>6, <2>2
    <3>3. QED
      BY <1>1, <1>7, <2>2, <3>1, <3>2
  <2>3. CASE e.type \notin {"ChangeWeapon", "SYNC"}
    <3>1. currentWeapon' = currentWeapon
      BY <1>3, <2>3
    <3>2. FocusEffect[e] = {}
      BY <1>6, <2>3
    <3>3. QED
      BY <1>7, <2>3, <3>1, <3>2
  <2>4. QED
    BY <2>1, <2>2, <2>3
<1>a. /\ held' \in [Machines -> SUBSET Slots]
      /\ \A n \in Machines \ {c} : held'[n] = held[n]
      /\ e.type \notin {"ClearWeapons", "SYNC"} => held[c] \subseteq held'[c]
      /\ \A k \in Slots : \/ HeldEffect(k)[e] = {Holds(c, k)'}
                          \/ HeldEffect(k)[e] = {} /\ Holds(c, k)' = Holds(c, k)
  <2> DEFINE h == HeldAfter(c, e)
  <2>1. h = IF e.type = "SYNC" THEN e.held
            ELSE IF e.type = "ClearWeapons" THEN {}
            ELSE IF e.type = "SetWeapon" THEN held[c] \cup {e.slot} ELSE held[c]
    <3>1. CASE e.type = "SYNC"
      BY <3>1 DEF HeldAfter
    <3>2. CASE e.type = "ClearWeapons"
      BY <3>2 DEF HeldAfter
    <3>3. CASE e.type = "SetWeapon"
      BY <3>3 DEF HeldAfter
    <3>4. CASE e.type \notin {"SYNC", "ClearWeapons", "SetWeapon"}
      BY <3>4 DEF HeldAfter
    <3>5. QED
      BY <3>1, <3>2, <3>3, <3>4
  <2>2. held' = [held EXCEPT ![c] = h]
    BY <1>3
  <2> HIDE DEF h
  <2>3. h \in SUBSET Slots /\ held[c] \in SUBSET Slots
    BY <1>1, <1>5, <1>7, <2>1
  <2>4. /\ held' \in [Machines -> SUBSET Slots] /\ held'[c] = h
        /\ \A n \in Machines \ {c} : held'[n] = held[n]
    BY <1>1, <1>7, <2>2, <2>3
  <2>5. e.type \notin {"ClearWeapons", "SYNC"} => held[c] \subseteq held'[c]
    BY <2>1, <2>4
  <2>6. ASSUME NEW k \in Slots
        PROVE  \/ HeldEffect(k)[e] = {Holds(c, k)'}
               \/ HeldEffect(k)[e] = {} /\ Holds(c, k)' = Holds(c, k)
    <3>1. /\ Holds(c, k)' = IF k \in h THEN TRUE ELSE FALSE
          /\ Holds(c, k) = IF k \in held[c] THEN TRUE ELSE FALSE
      BY <2>4 DEF Holds
    <3>2. HeldEffect(k)[e] =
            IF e.type = "SetWeapon" THEN IF e.slot = k THEN {TRUE} ELSE {}
            ELSE IF e.type = "ClearWeapons" THEN {FALSE}
            ELSE IF e.type = "SYNC" THEN IF k \in e.held THEN {TRUE} ELSE {FALSE}
            ELSE {}
      BY <1>4, Effects
    <3>3. CASE e.type = "SYNC"
      BY <2>1, <3>1, <3>2, <3>3
    <3>4. CASE e.type = "ClearWeapons"
      BY <2>1, <3>1, <3>2, <3>4
    <3>5. CASE e.type = "SetWeapon" /\ e.slot = k
      <4>1. k \in h /\ HeldEffect(k)[e] = {TRUE}
        BY <2>1, <3>2, <3>5
      <4>2. Holds(c, k)' = TRUE
        BY <3>1, <4>1
      <4>3. QED
        BY <4>1, <4>2
    <3>6. CASE e.type \notin {"SYNC", "ClearWeapons"} /\ ~(e.type = "SetWeapon" /\ e.slot = k)
      <4>1. (k \in h <=> k \in held[c]) /\ HeldEffect(k)[e] = {}
        BY <2>1, <3>2, <3>6
      <4>2. Holds(c, k)' = Holds(c, k)
        BY <3>1, <4>1
      <4>3. QED
        BY <4>1, <4>2
    <3>7. QED
      BY <3>3, <3>4, <3>5, <3>6
  <2>7. QED
    BY <2>4, <2>5, <2>6
<1>b. \A n \in Machines \ {c} :
        /\ focused(n)' <=> focused(n)
        /\ \A k : Holds(n, k)' = Holds(n, k)
  BY <1>10, <1>a DEF focused, Holds
<1>c. e.type \notin {"ClearWeapons", "SYNC", "ChangeWeapon"} /\ focused(c) => focused(c)'
  BY <1>10, <1>a DEF focused
<1>11. /\ rope' \in [Machines -> BOOLEAN]
       /\ \A n \in Machines \ {c} : rope'[n] = rope[n]
       /\ rope'[c] => \/ e.type = "SYNC" /\ e.rope
                      \/ e.type \notin {"Die", "SYNC"} /\ rope[c]
  <2>1. CASE e.type = "Die"
    <3>1. rope' = [rope EXCEPT ![c] = FALSE]
      BY <1>3, <2>1
    <3>2. QED
      BY <1>1, <1>7, <3>1
  <2>2. CASE e.type = "SYNC"
    <3>1. rope' = [rope EXCEPT ![c] = e.rope]
      BY <1>3, <2>2
    <3>2. QED
      BY <1>1, <1>5, <1>7, <2>2, <3>1
  <2>3. CASE e.type \notin {"Die", "SYNC"}
    <3>1. rope' = rope
      BY <1>3, <2>3
    <3>2. QED
      BY <1>7, <2>3, <3>1
  <2>4. QED
    BY <2>1, <2>2, <2>3
<1>12. e.type = "AmmoCorrection" => ~weapon[c].reloading
  <2> SUFFICES ASSUME e.type = "AmmoCorrection"
               PROVE  ~weapon[c].reloading
    OBVIOUS
  <2>1. c = Owner
    BY <1>4
  <2>2. Settles(ReloadEffect, toWorm[Owner], 1 - 1, weapon[Owner].reloading, FALSE)
    BY <1>2, <1>e, <2>1 DEF IInv, CorrectionFindsFull
  <2>3. weapon[Owner].reloading = FALSE
    BY <2>2 DEF Settles
  <2>4. QED
    BY <2>1, <2>3
<1>13. /\ weapon' \in [Machines -> Copy]
       /\ \A n \in Machines \ {c} : weapon'[n] = weapon[n]
       /\ Received(weapon[c], e, weapon'[c])
       /\ e.type = "ChangeWeapon" => ~weapon'[c].primaryShooting
  <2>1. weapon[c].reloading => weapon[c].ammo <= 0
    BY <1>1 DEF IInv, EmptyOnReload
  <2>2. CASE e.type # "ChangeWeapon"
    <3> DEFINE v == WeaponAfter(c, e)
    <3>1. Received(weapon[c], e, v)
      BY <1>4, <1>7, <1>12, <1>g, <2>1, <2>2, ReceivedCopy
    <3>2. weapon' = [weapon EXCEPT ![c] = v]
      BY <1>3, <2>2
    <3> HIDE DEF v
    <3>3. v \in Copy
      BY <3>1 DEF Received
    <3>4. QED
      BY <1>1, <1>7, <2>2, <3>1, <3>2, <3>3
  <2>3. CASE e.type = "ChangeWeapon"
    <3> DEFINE v == [weapon[c] EXCEPT !.primaryShooting = FALSE]
    <3>1. /\ v \in Copy /\ v.ammo = weapon[c].ammo /\ v.reloading = weapon[c].reloading
          /\ ~v.primaryShooting
      BY <1>7 DEF Copy
    <3>2. weapon' = IF focused(c) THEN [weapon EXCEPT ![c] = v] ELSE weapon
      BY <1>3, <1>7, <2>3 DEF Changed
    <3> HIDE DEF v
    <3>3. ~focused(c) => ~weapon[c].primaryShooting
      BY <1>1 DEF IInv, ShootingEnds
    <3>4. /\ weapon' \in [Machines -> Copy] /\ ~weapon'[c].primaryShooting
          /\ \A n \in Machines \ {c} : weapon'[n] = weapon[n]
          /\ weapon'[c].ammo = weapon[c].ammo
          /\ weapon'[c].reloading = weapon[c].reloading
      BY <1>1, <1>7, <3>1, <3>2, <3>3
    <3>5. ReloadEffect[e] = {}
      BY <1>4, <2>3, Effects DEF Clearing, Anew
    <3>6. weapon'[c] \in Copy
      BY <1>1, <3>4
    <3>7. QED
      BY <2>1, <2>3, <3>4, <3>5, <3>6 DEF Received
  <2>4. QED
    BY <2>2, <2>3
<1>14. \A effect, from, mid, to, n :
         /\ n \in 1..Len(s) /\ Settles(effect, s, n, from, to)
         /\ effect[e] = {mid} \/ (effect[e] = {} /\ mid = from)
         => Settles(effect, q, n - 1, mid, to)
  BY <1>1, <1>e, SettlesRest
<1>15. \A p \in present : p \in Machines /\ p # Server /\ p \in Clients
  BY <1>7, TheMachines
<1>16. ActiveAgrees'
  <2> SUFFICES ASSUME NEW p \in present
               PROVE  Settles(ActiveEffect, toWorm'[p], Len(toWorm'[p]), isActive'[p],
                              isActive'[Server])
    BY <1>3 DEF ActiveAgrees
  <2>1. Settles(ActiveEffect, toWorm[p], Len(toWorm[p]), isActive[p], isActive[Server])
    BY DEF IInv, ActiveAgrees
  <2>2. CASE p = c
    <3>1. Settles(ActiveEffect, q, Len(s) - 1, isActive'[c], isActive[Server])
      BY <1>2, <1>9, <1>14, <1>e, <2>1, <2>2
    <3>2. QED
      BY <1>1, <1>2, <1>8, <1>9, <2>2, <3>1
  <2>3. CASE p # c
    BY <1>1, <1>8, <1>9, <1>15, <2>1, <2>3
  <2>4. QED
    BY <2>2, <2>3
<1>17. FocusAgrees'
  <2> SUFFICES ASSUME NEW p \in present \ {Owner}
               PROVE  Settles(FocusEffect, toWorm'[p], Len(toWorm'[p]), currentWeapon'[p],
                              currentWeapon'[Server])
    BY <1>3 DEF FocusAgrees
  <2>1. Settles(FocusEffect, toWorm[p], Len(toWorm[p]), currentWeapon[p],
                currentWeapon[Server])
    BY DEF IInv, FocusAgrees
  <2>2. CASE p = c
    <3>1. Settles(FocusEffect, q, Len(s) - 1, currentWeapon'[c], currentWeapon[Server])
      BY <1>2, <1>10, <1>14, <1>e, <2>1, <2>2
    <3>2. QED
      BY <1>1, <1>2, <1>8, <1>10, <2>2, <3>1
  <2>3. CASE p # c
    BY <1>1, <1>8, <1>10, <1>15, <2>1, <2>3
  <2>4. QED
    BY <2>2, <2>3
<1>o. OwnerAhead'
  <2>1. toWorm'[Server] = toWorm[Server] /\ currentWeapon'[Server] = currentWeapon[Server]
    BY <1>1, <1>8, <1>10
  <2>2. \/ astray' = "undone"
        \/ astray' = astray /\ currentWeapon'[Owner] = currentWeapon[Owner]
    <3>1. CASE c # Owner
      BY <1>1, <1>3, <1>10, <3>1
    <3>2. CASE c = Owner /\ e.type = "SYNC"
      BY <1>3, <1>10, <3>2
    <3>3. CASE c = Owner /\ e.type # "SYNC"
      BY <1>3, <1>4, <1>10, <3>3
    <3>4. QED
      BY <3>1, <3>2, <3>3
  <2>3. QED
    BY <2>1, <2>2 DEF IInv, OwnerAhead, Tells
<1>h. HeldAgrees'
  <2> SUFFICES ASSUME NEW p \in present, NEW k \in Slots
               PROVE  Settles(HeldEffect(k), toWorm'[p], Len(toWorm'[p]), Holds(p, k)',
                              Holds(Server, k)')
    BY <1>3 DEF HeldAgrees
  <2>1. Settles(HeldEffect(k), toWorm[p], Len(toWorm[p]), Holds(p, k), Holds(Server, k))
    BY DEF IInv, HeldAgrees
  <2>2. Holds(Server, k)' = Holds(Server, k)
    BY <1>1, <1>b
  <2>3. CASE p = c
    <3>1. Settles(HeldEffect(k), q, Len(s) - 1, Holds(c, k)', Holds(Server, k))
      BY <1>2, <1>14, <1>a, <1>e, <2>1, <2>3
    <3>2. QED
      BY <1>2, <1>8, <2>2, <2>3, <3>1
  <2>4. CASE p # c
    <3>1. toWorm'[p] = toWorm[p] /\ Holds(p, k)' = Holds(p, k)
      BY <1>8, <1>15, <1>b, <2>4
    <3>2. QED
      BY <2>1, <2>2, <3>1
  <2>5. QED
    BY <2>3, <2>4
<1>i. FindsHeld'
  <2> SUFFICES ASSUME NEW p \in Clients, NEW i \in 1..Len(toWorm'[p]), NEW k \in Slots,
                      NEW has \in BOOLEAN, Finds(toWorm'[p][i], k, has)
               PROVE  Settles(HeldEffect(k), toWorm'[p], i - 1, Holds(p, k)', has)
    BY DEF FindsHeld, Finds
  <2>1. CASE p = c
    <3>1. i \in 1..Len(q) /\ i + 1 \in 1..Len(s) /\ q[i] = s[i + 1] /\ i \in Nat
      BY <1>2, <1>8, <2>1
    <3>2. i \in 1..Len(s) /\ (i + 1) - 1 = i
      BY <1>2, <3>1
    <3>3. Finds(toWorm[c][i + 1], k, has) /\ i + 1 \in 1..Len(toWorm[c])
      BY <1>8, <1>e, <2>1, <3>1
    <3>4. Settles(HeldEffect(k), toWorm[c], (i + 1) - 1, Holds(c, k), has)
      BY <3>3 DEF IInv, FindsHeld
    <3>5. Settles(HeldEffect(k), s, i, Holds(c, k), has)
      BY <1>e, <3>2, <3>4
    <3>6. Settles(HeldEffect(k), q, i - 1, Holds(c, k)', has)
      BY <1>14, <1>a, <3>2, <3>5
    <3>7. QED
      BY <1>8, <2>1, <3>6
  <2>2. CASE p # c
    <3>1. toWorm'[p] = toWorm[p] /\ Holds(p, k)' = Holds(p, k)
      BY <1>8, <1>b, <2>2, TheMachines
    <3>2. Settles(HeldEffect(k), toWorm[p], i - 1, Holds(p, k), has)
      BY <3>1 DEF IInv, FindsHeld
    <3>3. QED
      BY <3>1, <3>2
  <2>3. QED
    BY <2>1, <2>2
<1>j. AnswersHeld'
  <2>1. Holds(Server, Slot)' = Holds(Server, Slot)
    BY <1>1, <1>b
  <2>2. QED
    BY <1>3, <2>1 DEF IInv, AnswersHeld
<1>18. weapon'[Server] = weapon[Server]
  BY <1>1, <1>13
<1>19. ReloadAgrees'
  <2> SUFFICES ASSUME SyncReload, NEW p \in present
               PROVE  \/ p \in late' /\ ~IsCleared(p)' /\ weapon[Server].reloading
                      \/ Settles(ReloadEffect, toWorm'[p], Len(toWorm'[p]),
                                 weapon'[p].reloading, weapon[Server].reloading)
    BY <1>3, <1>18 DEF ReloadAgrees
  <2>1. \/ p \in late /\ ~IsCleared(p) /\ weapon[Server].reloading
        \/ Settles(ReloadEffect, toWorm[p], Len(toWorm[p]), weapon[p].reloading,
                   weapon[Server].reloading)
    BY DEF IInv, ReloadAgrees
  <2>2. CASE p = c
    <3>1. CASE p \in late /\ ~IsCleared(p) /\ weapon[Server].reloading
      <4>1. \A i \in 1..Len(s) : s[i].type \notin Clearing
        BY <1>e, <2>2, <3>1 DEF IsCleared
      <4>2. ~IsCleared(c)' /\ e.type \notin Clearing
        BY <1>2, <1>8, <4>1 DEF IsCleared
      <4>3. QED
        BY <1>3, <2>2, <3>1, <4>2
    <3>2. CASE Settles(ReloadEffect, toWorm[p], Len(toWorm[p]), weapon[p].reloading,
                       weapon[Server].reloading)
      <4>1. Settles(ReloadEffect, s, Len(s), weapon[c].reloading, weapon[Server].reloading)
        BY <1>e, <2>2, <3>2
      <4>2. Settles(ReloadEffect, q, Len(s) - 1, weapon'[c].reloading,
                    weapon[Server].reloading)
        BY <1>2, <1>13, <1>14, <4>1 DEF Received
      <4>3. QED
        BY <1>2, <1>8, <2>2, <4>2
    <3>3. QED
      BY <2>1, <3>1, <3>2
  <2>3. CASE p # c
    <3>1. toWorm'[p] = toWorm[p] /\ weapon'[p] = weapon[p] /\ (p \in late => p \in late')
      BY <1>3, <1>8, <1>13, <1>15, <2>3
    <3>2. IsCleared(p)' <=> IsCleared(p)
      BY <3>1 DEF IsCleared
    <3>3. QED
      BY <2>1, <3>1, <3>2
  <2>4. QED
    BY <2>2, <2>3
<1>20. CorrectionFindsFull'
  <2>1. ASSUME ~SyncReload, NEW m \in Machines, NEW i \in 1..Len(toWorm'[m])
        PROVE  toWorm'[m][i].type \notin {"OutOfAmmoCheck", "AmmoCorrection"}
    <3>1. \A n \in Machines : \A j \in 1..Len(toWorm[n]) :
            toWorm[n][j].type \notin {"OutOfAmmoCheck", "AmmoCorrection"}
      BY <2>1 DEF IInv, CorrectionFindsFull
    <3>2. CASE m = c
      <4>1. i \in 1..Len(q) /\ toWorm'[m][i] = s[i + 1] /\ i + 1 \in 1..Len(s)
        BY <1>2, <1>8, <3>2
      <4>2. i + 1 \in 1..Len(toWorm[c]) /\ toWorm'[m][i] = toWorm[c][i + 1]
        BY <1>e, <4>1
      <4>3. QED
        BY <1>1, <3>1, <4>2
    <3>3. CASE m # c
      BY <1>8, <3>1, <3>3
    <3>4. QED
      BY <3>2, <3>3
  <2>2. ASSUME NEW i \in 1..Len(toWorm'[Owner]), toWorm'[Owner][i].type = "AmmoCorrection"
        PROVE  Settles(ReloadEffect, toWorm'[Owner], i - 1, weapon'[Owner].reloading, FALSE)
    <3>1. CASE c = Owner
      <4>1. i \in 1..Len(q) /\ i + 1 \in 1..Len(s) /\ q[i] = s[i + 1] /\ i \in Nat
        BY <1>2, <1>8, <3>1
      <4>2. i \in 1..Len(s) /\ (i + 1) - 1 = i
        BY <1>2, <4>1
      <4>3. toWorm[Owner][i + 1].type = "AmmoCorrection" /\ i + 1 \in 1..Len(toWorm[Owner])
        BY <1>8, <1>e, <2>2, <3>1, <4>1
      <4>4. Settles(ReloadEffect, toWorm[Owner], (i + 1) - 1, weapon[Owner].reloading, FALSE)
        BY <4>3 DEF IInv, CorrectionFindsFull
      <4>5. Settles(ReloadEffect, s, i, weapon[c].reloading, FALSE)
        BY <1>e, <3>1, <4>2, <4>4
      <4>6. Settles(ReloadEffect, q, i - 1, weapon'[c].reloading, FALSE)
        BY <1>13, <1>14, <4>2, <4>5 DEF Received
      <4>7. QED
        BY <1>8, <3>1, <4>6
    <3>2. CASE c # Owner
      BY <1>1, <1>8, <1>13, <2>2, <3>2 DEF IInv, CorrectionFindsFull
    <3>3. QED
      BY <3>1, <3>2
  <2>3. ~SyncReload => ~outOfAmmoCheck'
    BY <1>3 DEF IInv, CorrectionFindsFull
  <2>4. QED
    BY <2>1, <2>2, <2>3 DEF CorrectionFindsFull
<1>21. EmptyOnReload'
  BY <1>13 DEF IInv, EmptyOnReload, Received
<1>22. ActionsEnd'
  BY <1>3, SamePlayer DEF IInv
<1>23. ShootingEnds'
  <2>1. ASSUME NEW m \in Machines, weapon'[m].primaryShooting
        PROVE  /\ weapon[m].primaryShooting
               /\ focused(m) => focused(m)'
               /\ isActive'[m] => isActive[m]
    <3>1. CASE m = c
      <4>1. weapon[c].primaryShooting /\ e.type \notin {"SYNC", "Respawn", "ClearWeapons"}
        BY <1>13, <2>1, <3>1 DEF Received
      <4>2. e.type # "ChangeWeapon"
        BY <1>13, <2>1, <3>1
      <4>3. QED
        BY <1>9, <1>c, <3>1, <4>1, <4>2
    <3>2. CASE m # c
      BY <1>9, <1>13, <1>b, <2>1, <3>2
    <3>3. QED
      BY <3>1, <3>2
  <2>2. QED
    BY <1>3, <2>1, ShootingKept DEF IInv
<1>24. RopeEnds'
  <2>1. ~RopeTold(c)'
    BY <1>4, <1>8 DEF RopeTold
  <2>2. \A n \in Machines \ {c} : RopeTold(n)' => RopeTold(n)
    BY <1>8 DEF RopeTold
  <2>3. e.type = "SYNC" /\ e.rope => RopeTold(c)
    BY <1>2, <1>e DEF RopeTold
  <2>4. ASSUME NEW m \in Machines, rope'[m] \/ RopeTold(m)'
        PROVE  rope[m] \/ RopeTold(m)
    <3>1. CASE m = c
      BY <1>11, <2>1, <2>3, <2>4, <3>1
    <3>2. CASE m # c
      BY <1>11, <2>2, <2>4, <3>2
    <3>3. QED
      BY <3>1, <3>2
  <2>5. ASSUME NEW m \in Machines, rope'[m] \/ RopeTold(m)'
        PROVE  m \in tangled => m \in tangled'
    <3>1. CASE m = c
      BY <1>3, <1>11, <2>1, <2>5, <3>1
    <3>2. CASE m # c
      BY <1>3, <3>2
    <3>3. QED
      BY <3>1, <3>2
  <2>6. QED
    BY <1>3, <2>4, <2>5, RopeKept DEF IInv
<1>25. Types'
  <2>1. weapon'[Server].ammo # -1
    BY <1>18 DEF IInv, Types
  <2>2. weapon'[Owner].ammo # -1
    <3>1. weapon[Owner].ammo # -1
      BY DEF IInv, Types
    <3>2. c = Owner => e.type # "SHOOT"
      BY <1>4
    <3>3. QED
      BY <1>1, <1>13, <3>1, <3>2 DEF Received
  <2>3. late' \subseteq Proxies /\ tangled' \subseteq Proxies
    BY <1>3 DEF IInv, Types
  <2>4. QED
    BY <1>3, <1>9, <1>10, <1>11, <1>13, <1>a, <2>1, <2>2, <2>3 DEF IInv, Types
<1>26. Queues'
  <2>1. \A i \in 1..Len(toWorm'[c]) :
          toWorm'[c][i] \in ClientEvents(c) /\ (toWorm'[c][i].type = "SYNC" => i = 1)
    BY <1>4, <1>8
  <2>2. \A n \in Clients \ {c} : Told(n, toWorm'[n])
    BY <1>8, TheMachines DEF IInv, Queues
  <2>3. (\A n \in Clients : Told(n, toWorm[n]))'
    BY <2>1, <2>2 DEF Told
  <2>4. toWorm'[Server] = toWorm[Server]
    BY <1>1, <1>8
  <2>5. QED
    BY <1>8, <2>3, <2>4 DEF IInv, Queues
<1>27. Joining'
  <2>1. \A n \in Clients \ present : n # c /\ n \in Machines
    BY <1>7, TheMachines
  <2>2. QED
    BY <1>3, <1>8, <1>9, <1>11, <2>1 DEF IInv, Joining
<1>28. QED
  BY <1>16, <1>17, <1>19, <1>20, <1>21, <1>22, <1>23, <1>24, <1>25, <1>26, <1>27,
     <1>o, <1>h, <1>i, <1>j DEF IInv

-----------------------------------------------------------------------------
\* An event sent that leaves a part of a copy leaves what it settles on.
LEMMA SettlesStill ==
  ASSUME NEW E, NEW s \in Seq(E), NEW b \in BOOLEAN, NEW e, NEW r, SentTo(E, s, b, e, r),
         NEW effect, NEW from, NEW to, Settles(effect, s, Len(s), from, to),
         b => effect[e] = {}
  PROVE  Settles(effect, r, Len(r), from, to)
BY SettlesSentIf

LEMMA SettlesStillTwo ==
  ASSUME NEW E, NEW s \in Seq(E), NEW a \in BOOLEAN, NEW d, NEW q \in Seq(E),
         SentTo(E, s, a, d, q), NEW b \in BOOLEAN, NEW e, NEW r, SentTo(E, q, b, e, r),
         NEW effect, NEW from, NEW to, Settles(effect, s, Len(s), from, to),
         a => effect[d] = {}, b => effect[e] = {}
  PROVE  Settles(effect, r, Len(r), from, to)
<1>1. Settles(effect, q, Len(q), from, to)
  BY SettlesStill
<1>2. QED
  BY <1>1, SettlesStill

\* An event sent that sets it has the last word.
LEMMA SettlesAnew ==
  ASSUME NEW E, NEW s \in Seq(E), NEW b \in BOOLEAN, NEW e, NEW r, SentTo(E, s, b, e, r),
         NEW effect, NEW from, NEW to, b, effect[e] = {to}
  PROVE  Settles(effect, r, Len(r), from, to)
BY SettlesSentIf

(***************************************************************************)
(* The tick of the server, which may send up to five events to a client:   *)
(* e1 if b1, and so on, behind those in q.                                 *)
(***************************************************************************)
\* What a tick says to client c, and what r, what is on its way to it then,
\* settles on; only the last event may be a correction.
Says(c, q, r, died, shot, out, back, corrected, e) ==
  /\ r \in Seq(WormEvents) /\ Told(c, r)
  /\ \A i \in 1..Len(q) : i \in 1..Len(r) /\ r[i] = q[i]
  /\ \A i \in 1..Len(r) :
       \/ i \in 1..Len(q)
       \/ r[i].type = "Die"
       \/ shot /\ r[i].type = "SHOOT"
       \/ (out \/ back) /\ r[i].type \in {"OUTOFAMMO", "RELOADED"}
       \/ corrected /\ i = Len(r) /\ r[i] = e
  /\ \A from : Settles(ActiveEffect, q, Len(q), from, TRUE) =>
       Settles(ActiveEffect, r, Len(r), from, ~died)
  /\ \A from, to : Settles(FocusEffect, q, Len(q), from, to) =>
       Settles(FocusEffect, r, Len(r), from, to)
  /\ \A from, to, x :
       /\ out \/ back \/ Settles(ReloadEffect, q, Len(q), from, to)
       /\ x = IF back THEN FALSE ELSE IF out THEN TRUE ELSE to
       => /\ Settles(ReloadEffect, r, Len(r), from, x)
          /\ corrected => Settles(ReloadEffect, r, Len(r) - 1, from, x)

Associates(s, t, u) == s \o (t \o u) = (s \o t) \o u

LEMMA Concats ==
  ASSUME NEW S, NEW s \in Seq(S), NEW t \in Seq(S), NEW u \in Seq(S)
  PROVE  Associates(s, t, u) /\ t \o u \in Seq(S)
<1>1. (s \o t) \o u = s \o (t \o u)
  BY ConcatAssociative
<1>2. t \o u \in Seq(S)
  BY ConcatProperties
<1>3. QED
  BY <1>1, <1>2 DEF Associates

\* The events are appended one by one.
OneByOne(q, i1, i2, i3, i4, i5) ==
  q \o (i1 \o i2 \o i3 \o i4 \o i5) = ((((q \o i1) \o i2) \o i3) \o i4) \o i5

LEMMA Reassociate ==
  ASSUME NEW S, NEW q \in Seq(S), NEW i1 \in Seq(S), NEW i2 \in Seq(S),
         NEW i3 \in Seq(S), NEW i4 \in Seq(S), NEW i5 \in Seq(S)
  PROVE  OneByOne(q, i1, i2, i3, i4, i5)
<1> DEFINE q1 == q \o i1
           q2 == q1 \o i2
           q3 == q2 \o i3
           q4 == q3 \o i4
           x2 == i1 \o i2
           x3 == x2 \o i3
           x4 == x3 \o i4
<1>0. OneByOne(q, i1, i2, i3, i4, i5) <=> q \o (x4 \o i5) = q4 \o i5
  BY DEF OneByOne
<1>1. /\ x4 = x3 \o i4 /\ x3 = x2 \o i3 /\ x2 = i1 \o i2
      /\ q1 = q \o i1 /\ q2 = q1 \o i2 /\ q3 = q2 \o i3 /\ q4 = q3 \o i4
  OBVIOUS
<1> HIDE DEF x2, x3, x4, q1, q2, q3, q4
<1>2. Associates(q, i1, i2) /\ i1 \o i2 \in Seq(S)
  BY Concats
<1>3. x2 \in Seq(S)
  BY <1>1, <1>2
<1>4. Associates(q, x2, i3) /\ x2 \o i3 \in Seq(S)
  BY <1>3, Concats
<1>5. x3 \in Seq(S)
  BY <1>1, <1>4
<1>6. Associates(q, x3, i4) /\ x3 \o i4 \in Seq(S)
  BY <1>5, Concats
<1>7. x4 \in Seq(S)
  BY <1>1, <1>6
<1>8. Associates(q, x4, i5)
  BY <1>7, Concats
<1>9. q \o x2 = q2
  BY <1>1, <1>2 DEF Associates
<1>10. q \o x3 = q3
  BY <1>1, <1>4, <1>9 DEF Associates
<1>11. q \o x4 = q4
  BY <1>1, <1>6, <1>10 DEF Associates
<1>12. QED
  BY <1>0, <1>8, <1>11 DEF Associates

\* The five in turn.
Five(q, b1, b2, b3, b4, b5, e1, e2, e3, e4, e5) ==
  q \o (If(b1, <<e1>>) \o If(b2, <<e2>>) \o If(b3, <<e3>>) \o If(b4, <<e4>>)
          \o If(b5, <<e5>>))

SentFive(c, q, r, b1, b2, b3, b4, b5, e1, e2, e3, e4, e5) ==
  \E q1, q2, q3, q4 \in Seq(WormEvents) :
    /\ SentTo(WormEvents, q, b1, e1, q1) /\ SentTo(WormEvents, q1, b2, e2, q2)
    /\ SentTo(WormEvents, q2, b3, e3, q3) /\ SentTo(WormEvents, q3, b4, e4, q4)
    /\ SentTo(WormEvents, q4, b5, e5, r) /\ Told(c, r)

LEMMA FiveSent ==
  ASSUME NEW c \in Clients, NEW q \in Seq(WormEvents), Told(c, q),
         NEW b1 \in BOOLEAN, NEW b2 \in BOOLEAN, NEW b3 \in BOOLEAN, NEW b4 \in BOOLEAN,
         NEW b5 \in BOOLEAN, NEW e1, NEW e2, NEW e3, NEW e4, NEW e5,
         b1 => e1 \in ClientEvents(c) /\ e1.type # "SYNC",
         b2 => e2 \in ClientEvents(c) /\ e2.type # "SYNC",
         b3 => e3 \in ClientEvents(c) /\ e3.type # "SYNC",
         b4 => e4 \in ClientEvents(c) /\ e4.type # "SYNC",
         b5 => e5 \in ClientEvents(c) /\ e5.type # "SYNC",
         NEW r, r = Five(q, b1, b2, b3, b4, b5, e1, e2, e3, e4, e5)
  PROVE  SentFive(c, q, r, b1, b2, b3, b4, b5, e1, e2, e3, e4, e5)
<1> DEFINE q1 == q \o If(b1, <<e1>>)
           q2 == q1 \o If(b2, <<e2>>)
           q3 == q2 \o If(b3, <<e3>>)
           q4 == q3 \o If(b4, <<e4>>)
<1>1. \A b \in BOOLEAN : \A e : (b => e \in ClientEvents(c)) =>
        If(b, <<e>>) \in Seq(WormEvents)
  BY DEF If, ClientEvents, OwnerEvents, ProxyEvents
<1>2. /\ If(b1, <<e1>>) \in Seq(WormEvents) /\ If(b2, <<e2>>) \in Seq(WormEvents)
      /\ If(b3, <<e3>>) \in Seq(WormEvents) /\ If(b4, <<e4>>) \in Seq(WormEvents)
      /\ If(b5, <<e5>>) \in Seq(WormEvents)
  BY <1>1
<1>3. r = q4 \o If(b5, <<e5>>)
  <2> DEFINE i1 == If(b1, <<e1>>)
             i2 == If(b2, <<e2>>)
             i3 == If(b3, <<e3>>)
             i4 == If(b4, <<e4>>)
             i5 == If(b5, <<e5>>)
  <2>1. /\ i1 \in Seq(WormEvents) /\ i2 \in Seq(WormEvents) /\ i3 \in Seq(WormEvents)
        /\ i4 \in Seq(WormEvents) /\ i5 \in Seq(WormEvents)
    BY <1>2
  <2>2. q1 = q \o i1 /\ q2 = q1 \o i2 /\ q3 = q2 \o i3 /\ q4 = q3 \o i4
    OBVIOUS
  <2>3. r = q \o (i1 \o i2 \o i3 \o i4 \o i5)
    BY DEF Five
  <2> HIDE DEF q1, q2, q3, q4, i1, i2, i3, i4, i5
  <2>4. OneByOne(q, i1, i2, i3, i4, i5)
    BY <2>1, Reassociate
  <2>5. r = q4 \o i5
    BY <2>2, <2>3, <2>4 DEF OneByOne
  <2>6. QED
    BY <2>5 DEF i5
<1>5. Told(c, q1) /\ SentTo(WormEvents, q, b1, e1, q1)
  <2>1. q1 = q \o If(b1, <<e1>>)
    OBVIOUS
  <2> HIDE DEF q1
  <2>2. QED
    BY <2>1, ToldMore
<1>6. q1 \in Seq(WormEvents)
  BY <1>5 DEF SentTo
<1>7. Told(c, q2) /\ SentTo(WormEvents, q1, b2, e2, q2)
  <2>1. q2 = q1 \o If(b2, <<e2>>)
    OBVIOUS
  <2> HIDE DEF q1, q2
  <2>2. QED
    BY <1>5, <1>6, <2>1, ToldMore
<1>8. q2 \in Seq(WormEvents)
  BY <1>7 DEF SentTo
<1>9. Told(c, q3) /\ SentTo(WormEvents, q2, b3, e3, q3)
  <2>1. q3 = q2 \o If(b3, <<e3>>)
    OBVIOUS
  <2> HIDE DEF q2, q3
  <2>2. QED
    BY <1>7, <1>8, <2>1, ToldMore
<1>10. q3 \in Seq(WormEvents)
  BY <1>9 DEF SentTo
<1>11. Told(c, q4) /\ SentTo(WormEvents, q3, b4, e4, q4)
  <2>1. q4 = q3 \o If(b4, <<e4>>)
    OBVIOUS
  <2> HIDE DEF q3, q4
  <2>2. QED
    BY <1>9, <1>10, <2>1, ToldMore
<1>12. q4 \in Seq(WormEvents)
  BY <1>11 DEF SentTo
<1> HIDE DEF q1, q2, q3, q4
<1>13. Told(c, r) /\ SentTo(WormEvents, q4, b5, e5, r)
  BY <1>3, <1>11, <1>12, ToldMore
<1>14. QED
  BY <1>5, <1>6, <1>7, <1>8, <1>9, <1>10, <1>11, <1>12, <1>13 DEF SentFive

LEMMA TickSays ==
  ASSUME NEW c, NEW q \in Seq(WormEvents), NEW r,
         NEW b1 \in BOOLEAN, NEW b2 \in BOOLEAN, NEW b3 \in BOOLEAN, NEW b4 \in BOOLEAN,
         NEW b5 \in BOOLEAN,
         NEW e1 \in WormEvents, NEW e2 \in WormEvents, NEW e3 \in WormEvents,
         NEW e4 \in WormEvents, NEW e5, b5 => e5 \in WormEvents, NEW shot, b2 => shot,
         e1.type = "Die", e2.type = "SHOOT", e3.type = "OUTOFAMMO", e4.type = "RELOADED",
         b5 => e5.type = "AmmoCorrection",
         SentFive(c, q, r, b1, b2, b3, b4, b5, e1, e2, e3, e4, e5)
  PROVE  Says(c, q, r, b1, shot, b3, b4, b5, e5)
<1>1. PICK q1, q2, q3, q4 \in Seq(WormEvents) :
        /\ SentTo(WormEvents, q, b1, e1, q1) /\ SentTo(WormEvents, q1, b2, e2, q2)
        /\ SentTo(WormEvents, q2, b3, e3, q3) /\ SentTo(WormEvents, q3, b4, e4, q4)
        /\ SentTo(WormEvents, q4, b5, e5, r) /\ Told(c, r)
  BY DEF SentFive
<1>5. SentTo(WormEvents, q, b1, e1, q1)
  BY <1>1
<1>6. q1 \in Seq(WormEvents)
  OBVIOUS
<1>7. SentTo(WormEvents, q1, b2, e2, q2)
  BY <1>1
<1>8. q2 \in Seq(WormEvents)
  OBVIOUS
<1>9. SentTo(WormEvents, q2, b3, e3, q3)
  BY <1>1
<1>10. q3 \in Seq(WormEvents)
  OBVIOUS
<1>11. SentTo(WormEvents, q3, b4, e4, q4)
  BY <1>1
<1>12. q4 \in Seq(WormEvents)
  OBVIOUS
<1>14. Told(c, r) /\ SentTo(WormEvents, q4, b5, e5, r)
  BY <1>1
<1>15. r \in Seq(WormEvents)
  BY <1>14 DEF SentTo
<1>16. \A i \in 1..Len(q) : i \in 1..Len(r) /\ r[i] = q[i]
  <2>1. \A i \in 1..Len(q) : i \in 1..Len(q1) /\ q1[i] = q[i]
    BY <1>5 DEF SentTo
  <2>2. \A i \in 1..Len(q1) : i \in 1..Len(q2) /\ q2[i] = q1[i]
    BY <1>7 DEF SentTo
  <2>3. \A i \in 1..Len(q2) : i \in 1..Len(q3) /\ q3[i] = q2[i]
    BY <1>9 DEF SentTo
  <2>4. \A i \in 1..Len(q3) : i \in 1..Len(q4) /\ q4[i] = q3[i]
    BY <1>11 DEF SentTo
  <2>5. \A i \in 1..Len(q4) : i \in 1..Len(r) /\ r[i] = q4[i]
    BY <1>14 DEF SentTo
  <2>6. QED
    BY <2>1, <2>2, <2>3, <2>4, <2>5
<1>17. \A i \in 1..Len(r) :
         \/ i \in 1..Len(q)
         \/ r[i].type = "Die"
         \/ shot /\ r[i].type = "SHOOT"
         \/ (b3 \/ b4) /\ r[i].type \in {"OUTOFAMMO", "RELOADED"}
         \/ b5 /\ i = Len(r) /\ r[i] = e5
  <2> SUFFICES ASSUME NEW i \in 1..Len(r), i \notin 1..Len(q)
               PROVE  \/ r[i].type = "Die"
                      \/ shot /\ r[i].type = "SHOOT"
                      \/ (b3 \/ b4) /\ r[i].type \in {"OUTOFAMMO", "RELOADED"}
                      \/ b5 /\ i = Len(r) /\ r[i] = e5
    OBVIOUS
  <2>1. CASE i \notin 1..Len(q4)
    <3>1. b5 /\ i = Len(q4) + 1 /\ r[i] = e5 /\ Len(r) = Len(q4) + 1
      BY <1>14, <2>1 DEF SentTo
    <3>2. QED
      BY <3>1
  <2>2. CASE i \in 1..Len(q4) /\ i \notin 1..Len(q3)
    <3>1. b4 /\ q4[i] = e4
      BY <1>11, <2>2 DEF SentTo
    <3>2. r[i] = q4[i]
      BY <1>14, <2>2 DEF SentTo
    <3>3. QED
      BY <3>1, <3>2
  <2>3. CASE i \in 1..Len(q3) /\ i \notin 1..Len(q2)
    <3>1. b3 /\ q3[i] = e3
      BY <1>9, <2>3 DEF SentTo
    <3>2. i \in 1..Len(q4) /\ q4[i] = q3[i]
      BY <1>11, <2>3 DEF SentTo
    <3>3. r[i] = q4[i]
      BY <1>14, <3>2 DEF SentTo
    <3>4. QED
      BY <3>1, <3>2, <3>3
  <2>4. CASE i \in 1..Len(q2)
    <3>1. q2[i] = e1 \/ (b2 /\ q2[i] = e2)
      <4>1. CASE i \notin 1..Len(q1)
        BY <1>7, <2>4, <4>1 DEF SentTo
      <4>2. CASE i \in 1..Len(q1)
        <5>1. q1[i] = e1
          BY <1>5, <4>2 DEF SentTo
        <5>2. q2[i] = q1[i]
          BY <1>7, <4>2 DEF SentTo
        <5>3. QED
          BY <5>1, <5>2
      <4>3. QED
        BY <4>1, <4>2
    <3>2. i \in 1..Len(q3) /\ q3[i] = q2[i]
      BY <1>9, <2>4 DEF SentTo
    <3>3. i \in 1..Len(q4) /\ q4[i] = q3[i]
      BY <1>11, <3>2 DEF SentTo
    <3>4. r[i] = q4[i]
      BY <1>14, <3>3 DEF SentTo
    <3>5. QED
      BY <3>1, <3>2, <3>3, <3>4
  <2>5. QED
    BY <2>1, <2>2, <2>3, <2>4
<1>18. /\ ActiveEffect[e1] = {FALSE} /\ FocusEffect[e1] = {} /\ ReloadEffect[e1] = {}
       /\ ActiveEffect[e2] = {} /\ FocusEffect[e2] = {} /\ ReloadEffect[e2] = {}
       /\ ActiveEffect[e3] = {} /\ FocusEffect[e3] = {} /\ ReloadEffect[e3] = {TRUE}
       /\ ActiveEffect[e4] = {} /\ FocusEffect[e4] = {} /\ ReloadEffect[e4] = {FALSE}
  BY Effects DEF Clearing, Anew
<1>19. b5 => ActiveEffect[e5] = {} /\ FocusEffect[e5] = {} /\ ReloadEffect[e5] = {}
  BY Effects DEF Clearing, Anew
<1>20. ASSUME NEW effect, NEW from, NEW to, Settles(effect, q2, Len(q2), from, to),
              b3 => effect[e3] = {}, b4 => effect[e4] = {}, b5 => effect[e5] = {}
       PROVE  Settles(effect, r, Len(r), from, to)
  <2>2. Settles(effect, q4, Len(q4), from, to)
    BY <1>8, <1>9, <1>10, <1>11, <1>20, SettlesStillTwo
  <2>3. b5 => effect[e5] = {}
    BY <1>20
  <2>4. QED
    BY <1>12, <1>14, <2>2, <2>3, SettlesStill
<1>21. ASSUME NEW from, Settles(ActiveEffect, q, Len(q), from, TRUE)
       PROVE  Settles(ActiveEffect, r, Len(r), from, ~b1)
  <2>1. PICK a \in BOOLEAN : a = ~b1
    OBVIOUS
  <2>2. \/ b1 /\ ActiveEffect[e1] = {a}
        \/ (b1 => ActiveEffect[e1] = {}) /\ Settles(ActiveEffect, q, Len(q), from, a)
    BY <1>18, <1>21, <2>1
  <2>3. Settles(ActiveEffect, q1, Len(q1), from, a)
    BY <1>5, <2>2, SettlesSentIf
  <2>4. Settles(ActiveEffect, q2, Len(q2), from, a)
    BY <1>6, <1>7, <1>18, <2>3, SettlesStill
  <2>5. Settles(ActiveEffect, r, Len(r), from, a)
    BY <1>18, <1>19, <1>20, <2>4
  <2>6. QED
    BY <2>1, <2>5
<1>22. ASSUME NEW from, NEW to, Settles(FocusEffect, q, Len(q), from, to)
       PROVE  Settles(FocusEffect, r, Len(r), from, to)
  <2>1. Settles(FocusEffect, q1, Len(q1), from, to)
    <3>1. b1 => FocusEffect[e1] = {}
      BY <1>18
    <3>2. QED
      BY <1>5, <1>22, <3>1, SettlesStill
  <2>2. Settles(FocusEffect, q2, Len(q2), from, to)
    <3>1. b2 => FocusEffect[e2] = {}
      BY <1>18
    <3>2. QED
      BY <1>6, <1>7, <2>1, <3>1, SettlesStill
  <2>3. QED
    BY <1>18, <1>19, <1>20, <2>2
<1>23. ASSUME NEW from, NEW to, NEW x,
              b3 \/ b4 \/ Settles(ReloadEffect, q, Len(q), from, to),
              x = IF b4 THEN FALSE ELSE IF b3 THEN TRUE ELSE to
       PROVE  /\ Settles(ReloadEffect, r, Len(r), from, x)
              /\ b5 => Settles(ReloadEffect, r, Len(r) - 1, from, x)
  <2>1. b3 \/ b4 \/ Settles(ReloadEffect, q2, Len(q2), from, to)
    <3> SUFFICES ASSUME Settles(ReloadEffect, q, Len(q), from, to)
                 PROVE  Settles(ReloadEffect, q2, Len(q2), from, to)
      BY <1>23
    <3>0. b1 => ReloadEffect[e1] = {}
      BY <1>18
    <3>1. Settles(ReloadEffect, q1, Len(q1), from, to)
      BY <1>5, <3>0, SettlesStill
    <3>2. QED
      BY <1>6, <1>7, <1>18, <3>1, SettlesStill
  <2>2. Settles(ReloadEffect, q4, Len(q4), from, x)
    <3>1. CASE b4
      <4>1. b4 /\ ReloadEffect[e4] = {x}
        BY <1>18, <1>23, <3>1
      <4>2. QED
        BY <1>10, <1>11, <4>1, SettlesAnew
    <3>2. CASE ~b4
      <4>1. Settles(ReloadEffect, q3, Len(q3), from, x)
        <5>1. CASE b3
          <6>1. b3 /\ ReloadEffect[e3] = {x}
            BY <1>18, <1>23, <3>2, <5>1
          <6>2. QED
            BY <1>8, <1>9, <6>1, SettlesAnew
        <5>2. CASE ~b3
          <6>1. Settles(ReloadEffect, q2, Len(q2), from, x)
            BY <1>23, <2>1, <3>2, <5>2
          <6>2. QED
            BY <1>8, <1>9, <5>2, <6>1, SettlesStill
        <5>3. QED
          BY <5>1, <5>2
      <4>2. QED
        BY <1>10, <1>11, <3>2, <4>1, SettlesStill
    <3>3. QED
      BY <3>1, <3>2
  <2>3. Settles(ReloadEffect, r, Len(r), from, x)
    BY <1>12, <1>14, <1>19, <2>2, SettlesStill
  <2>4. ASSUME b5
        PROVE  Settles(ReloadEffect, r, Len(r) - 1, from, x)
    <3>1. Len(r) = Len(q4) + 1 /\ \A i \in 1..Len(q4) : r[i] = q4[i]
      BY <1>14, <2>4 DEF SentTo
    <3>2. Len(q4) \in Nat
      BY <1>12, LenProperties
    <3>3. Settles(ReloadEffect, r, Len(q4), from, x)
      BY <2>2, <3>1, <3>2, SettlesBefore
    <3>4. Len(r) - 1 = Len(q4)
      <4>1. \A n \in Nat : (n + 1) - 1 = n
        OBVIOUS
      <4>2. QED
        BY <3>1, <3>2, <4>1
    <3>5. QED
      BY <3>3, <3>4
  <2>5. QED
    BY <2>3, <2>4
<1>24. QED
  BY <1>14, <1>15, <1>16, <1>17, <1>21, <1>22, <1>23 DEF Says

LEMMA ServerTickIInv ==
  ASSUME IInv, NEW die \in BOOLEAN, NEW shot \in {FALSE, Shoots(Server, weapon[Server])},
         Tick(Server, die, shot)
  PROVE  IInv'
<1> DEFINE w  == weapon[Server]
           w1 == IF shot THEN useAmmo(weapon[Server], ShotUse) ELSE weapon[Server]
           w2 == NotesDry(Server, w1)
           w3 == TicksReload(Server, w2)
           ask  == SyncReload /\ RunsDry(Server, w1)
           done == SyncReload /\ ReloadDone(Server, w2)
           e1 == Event("Die")
           e2 == Event("SHOOT")
           e3 == Event("OUTOFAMMO")
           e4 == Event("RELOADED")
           e5 == AmmoCorrection(w3.ammo)
<1>1. /\ Server \in Machines /\ Owner \in Machines /\ Owner # Server /\ Server \notin Clients
      /\ Owner \in Clients /\ \A c \in Clients : c \in Machines /\ c # Server
      /\ \A m \in Machines : m = Server \/ m \in Clients
  BY TheMachines
<1>2. /\ weapon' = [weapon EXCEPT ![Server] = w3]
      /\ isActive' = [isActive EXCEPT ![Server] = ~die]
      /\ rope' = [rope EXCEPT ![Server] = @ /\ ~die]
      /\ isActive[Server] /\ outOfAmmoCheck' = (outOfAmmoCheck /\ Server # Server)
      /\ UNCHANGED <<held, currentWeapon, present, toPlayer, trigger, thrown, late, tangled,
                     astray>>
  BY DEF Tick, history, slots
<1>3. toWorm' = [n \in Machines |-> If(Listening(n), toWorm[n] \o
        (IF Server = Server /\ n \in Clients
           THEN If(die, <<e1>>) \o If(shot /\ SyncShot /\ n \in Proxies, <<e2>>)
                  \o If(ask, <<e3>>) \o If(done, <<e4>>)
                  \o If(outOfAmmoCheck /\ w3.ammo > 0 /\ n = Owner, <<e5>>)
           ELSE If(Server = Owner /\ n = Server /\ ask, <<Event("OutOfAmmoCheck")>>)))]
  BY DEF Tick, Send
<1>4. \A c \in Clients \cap present : toWorm'[c] = toWorm[c] \o
        (If(die, <<e1>>) \o If(shot /\ SyncShot /\ c \in Proxies, <<e2>>)
           \o If(ask, <<e3>>) \o If(done, <<e4>>)
           \o If(outOfAmmoCheck /\ w3.ammo > 0 /\ c = Owner, <<e5>>))
  <2> HIDE DEF w1, w2, w3, ask, done, e1, e2, e3, e4, e5
  <2> SUFFICES ASSUME NEW c \in Clients, c \in present
               PROVE  toWorm'[c] = toWorm[c] \o
                 (If(die, <<e1>>) \o If(shot /\ SyncShot /\ c \in Proxies, <<e2>>)
                    \o If(ask, <<e3>>) \o If(done, <<e4>>)
                    \o If(outOfAmmoCheck /\ w3.ammo > 0 /\ c = Owner, <<e5>>))
    OBVIOUS
  <2> DEFINE s(n) == If(die, <<e1>>) \o If(shot /\ SyncShot /\ n \in Proxies, <<e2>>)
                       \o If(ask, <<e3>>) \o If(done, <<e4>>)
                       \o If(outOfAmmoCheck /\ w3.ammo > 0 /\ n = Owner, <<e5>>)
             t(n) == If(Server = Owner /\ n = Server /\ ask, <<Event("OutOfAmmoCheck")>>)
  <2>1. toWorm' = [n \in Machines |-> If(Listening(n), toWorm[n] \o
          (IF Server = Server /\ n \in Clients THEN s(n) ELSE t(n)))]
    BY <1>3
  <2>2. s(c) = If(die, <<e1>>) \o If(shot /\ SyncShot /\ c \in Proxies, <<e2>>)
                 \o If(ask, <<e3>>) \o If(done, <<e4>>)
                 \o If(outOfAmmoCheck /\ w3.ammo > 0 /\ c = Owner, <<e5>>)
    OBVIOUS
  <2> HIDE DEF s, t
  <2>3. toWorm'[c] = toWorm[c] \o s(c)
    BY <1>1, <2>1 DEF Listening, If
  <2>4. QED
    BY <2>2, <2>3
<1>5. toWorm'[Server] = toWorm[Server] /\ \A c \in Clients \ present : toWorm'[c] = <<>>
  <2> HIDE DEF w1, w2, w3, ask, done, e1, e2, e3, e4, e5
  <2> DEFINE s(n) == If(die, <<e1>>) \o If(shot /\ SyncShot /\ n \in Proxies, <<e2>>)
                       \o If(ask, <<e3>>) \o If(done, <<e4>>)
                       \o If(outOfAmmoCheck /\ w3.ammo > 0 /\ n = Owner, <<e5>>)
  <2>1. toWorm' = [n \in Machines |-> If(Listening(n), toWorm[n] \o
          (IF Server = Server /\ n \in Clients THEN s(n)
           ELSE If(Server = Owner /\ n = Server /\ ask, <<Event("OutOfAmmoCheck")>>)))]
    BY <1>3
  <2> HIDE DEF s
  <2>2. toWorm'[Server] = toWorm[Server] \o <<>>
    BY <1>1, <2>1 DEF Listening, If
  <2>3. toWorm[Server] \in Seq(WormEvents)
    BY <1>1 DEF IInv, Queues
  <2>4. toWorm[Server] \o <<>> = toWorm[Server]
    BY <2>3, ConcatEmptySeq
  <2>5. \A c \in Clients \ present : toWorm'[c] = <<>>
    BY <1>1, <2>1 DEF Listening, If
  <2>6. QED
    BY <2>2, <2>4, <2>5
<1>6. /\ weapon \in [Machines -> Copy] /\ w \in Copy /\ weapon[Server].ammo # -1
      /\ weapon[Owner].ammo # -1
      /\ isActive \in [Machines -> BOOLEAN] /\ rope \in [Machines -> BOOLEAN]
      /\ outOfAmmoCheck \in BOOLEAN
      /\ present \subseteq Clients /\ Owner \in present /\ late \subseteq Proxies
      /\ \A c \in Clients : toWorm[c] \in Seq(WormEvents) /\ Told(c, toWorm[c])
  BY <1>1 DEF IInv, Types, Queues
<1>7. \A n \in Machines : weapon[n].reloading => weapon[n].ammo <= 0
  BY DEF IInv, EmptyOnReload
<1>8. Ticked(Server, w, w1, w2, w3)
  <2>1. shot => weapon[Server].ammo > 0
    BY DEF Shoots
  <2>2. weapon[Server].reloading => weapon[Server].ammo <= 0
    BY <1>1, <1>7
  <2> HIDE DEF w1, w2, w3
  <2>3. w1 = (IF shot THEN useAmmo(weapon[Server], ShotUse) ELSE weapon[Server])
        /\ w2 = NotesDry(Server, w1) /\ w3 = TicksReload(Server, w2)
    BY DEF w1, w2, w3
  <2>4. QED
    BY <1>6, <2>1, <2>2, <2>3, TickedCopy
<1>9. Decides(Server)
  BY DEF Decides
<1>e. /\ e1 \in WormEvents /\ e2 \in WormEvents /\ e3 \in WormEvents /\ e4 \in WormEvents
      /\ e1.type = "Die" /\ e2.type = "SHOOT" /\ e3.type = "OUTOFAMMO" /\ e4.type = "RELOADED"
  BY EventKinds
<1> HIDE DEF w1, w2, w3
<1>10. PICK out \in BOOLEAN : out <=> SyncReload /\ RunsDry(Server, w1)
  OBVIOUS
<1>11. PICK back \in BOOLEAN : back <=> SyncReload /\ ReloadDone(Server, w2)
  OBVIOUS
<1>12. /\ w3 \in Copy /\ w3.ammo # -1 /\ (w3.reloading => w3.ammo <= 0)
       /\ w3.primaryShooting = w.primaryShooting
       /\ w3.reloading \in BOOLEAN /\ w3.ammo \in -1..MaxAmmo
  BY <1>6, <1>8 DEF Ticked, Copy
<1>13. /\ SyncReload =>
            w3.reloading = IF back THEN FALSE ELSE IF out THEN TRUE ELSE w.reloading
       /\ out => ~w.reloading
  BY <1>8, <1>9, <1>10, <1>11 DEF Ticked
<1>14. w3.ammo > 0 => w3.ammo \in 1..MaxAmmo /\ w3.reloading = FALSE
  <2>1. MaxAmmo \in Nat
    BY WeaponAssumption
  <2>2. QED
    BY <1>12, <2>1
<1>15. w3.ammo > 0 => e5 \in WormEvents /\ e5.type = "AmmoCorrection"
  BY <1>14, EventKinds
<1> HIDE DEF w, e1, e2, e3, e4, e5
<1>16. ASSUME NEW c \in Clients \cap present, NEW b5 \in BOOLEAN,
              b5 <=> outOfAmmoCheck /\ w3.ammo > 0 /\ c = Owner
       PROVE  Says(c, toWorm[c], toWorm'[c], die, shot, out, back, b5, e5)
  <2>1. PICK b2 \in BOOLEAN : b2 <=> shot /\ SyncShot /\ c \in Proxies
    OBVIOUS
  <2>2. If(shot /\ SyncShot /\ c \in Proxies, <<e2>>) = If(b2, <<e2>>)
    BY <2>1 DEF If
  <2>3. If(ask, <<e3>>) = If(out, <<e3>>) /\ If(done, <<e4>>) = If(back, <<e4>>)
    BY <1>10, <1>11 DEF If
  <2>4. If(outOfAmmoCheck /\ w3.ammo > 0 /\ c = Owner, <<e5>>) = If(b5, <<e5>>)
    BY <1>16 DEF If
  <2>5. toWorm'[c] = toWorm[c] \o (If(die, <<e1>>) \o If(b2, <<e2>>) \o If(out, <<e3>>)
                                     \o If(back, <<e4>>) \o If(b5, <<e5>>))
    BY <1>4, <2>2, <2>3, <2>4
  <2>6. /\ e1 \in ClientEvents(c) /\ e3 \in ClientEvents(c) /\ e4 \in ClientEvents(c)
        /\ b2 => e2 \in ClientEvents(c)
        /\ b5 => e5 \in ClientEvents(c) /\ e5.type # "SYNC"
        /\ e1.type # "SYNC" /\ e2.type # "SYNC" /\ e3.type # "SYNC" /\ e4.type # "SYNC"
    BY <1>e, <1>15, <1>16, <2>1, TheMachines
       DEF ClientEvents, OwnerEvents, ProxyEvents, Clearing
  <2>7. c \in Clients /\ toWorm[c] \in Seq(WormEvents) /\ Told(c, toWorm[c])
    BY <1>6
  <2>8. /\ die => e1 \in ClientEvents(c) /\ e1.type # "SYNC"
        /\ b2 => e2 \in ClientEvents(c) /\ e2.type # "SYNC"
        /\ out => e3 \in ClientEvents(c) /\ e3.type # "SYNC"
        /\ back => e4 \in ClientEvents(c) /\ e4.type # "SYNC"
        /\ b5 => e5 \in ClientEvents(c) /\ e5.type # "SYNC"
    BY <2>6
  <2>9. SentFive(c, toWorm[c], toWorm'[c], die, b2, out, back, b5, e1, e2, e3, e4, e5)
    <3>1. toWorm'[c] = Five(toWorm[c], die, b2, out, back, b5, e1, e2, e3, e4, e5)
      BY <2>5 DEF Five
    <3>2. QED
      BY <2>7, <2>8, <3>1, FiveSent
  <2>10. /\ b5 => e5 \in WormEvents /\ e5.type = "AmmoCorrection"
         /\ b2 => shot
    BY <1>15, <1>16, <2>1
  <2>11. QED
    BY <1>e, <2>7, <2>9, <2>10, TickSays
<1>17. \A c \in present : c \in Clients \cap present /\ c \in Machines /\ c # Server
  BY <1>1, <1>6
<1>18. ASSUME NEW c \in present
       PROVE  \E b \in BOOLEAN :
                /\ b <=> outOfAmmoCheck /\ w3.ammo > 0 /\ c = Owner
                /\ Says(c, toWorm[c], toWorm'[c], die, shot, out, back, b, e5)
  <2>1. PICK b \in BOOLEAN : b <=> outOfAmmoCheck /\ w3.ammo > 0 /\ c = Owner
    OBVIOUS
  <2>2. Says(c, toWorm[c], toWorm'[c], die, shot, out, back, b, e5)
    BY <1>16, <1>17, <2>1
  <2>3. QED
    BY <2>1, <2>2
<1>19. /\ weapon' \in [Machines -> Copy] /\ weapon'[Server] = w3
       /\ \A n \in Machines \ {Server} : weapon'[n] = weapon[n]
       /\ isActive' \in [Machines -> BOOLEAN] /\ isActive'[Server] = ~die
       /\ \A n \in Machines \ {Server} : isActive'[n] = isActive[n]
       /\ rope' \in [Machines -> BOOLEAN]
       /\ \A n \in Machines : rope'[n] => rope[n]
       /\ \A n \in Machines \ {Server} : rope'[n] = rope[n]
       /\ outOfAmmoCheck' = FALSE /\ isActive[Server] = TRUE
  BY <1>1, <1>2, <1>6, <1>12
<1>20. ActiveAgrees'
  <2> SUFFICES ASSUME NEW c \in present
               PROVE  Settles(ActiveEffect, toWorm'[c], Len(toWorm'[c]), isActive'[c],
                              isActive'[Server])
    BY <1>2 DEF ActiveAgrees
  <2>1. Settles(ActiveEffect, toWorm[c], Len(toWorm[c]), isActive[c], TRUE)
    BY <1>19 DEF IInv, ActiveAgrees
  <2>2. Settles(ActiveEffect, toWorm'[c], Len(toWorm'[c]), isActive[c], ~die)
    BY <1>18, <2>1 DEF Says
  <2>3. QED
    BY <1>17, <1>19, <2>2
<1>21. FocusAgrees'
  <2> SUFFICES ASSUME NEW p \in present \ {Owner}
               PROVE  Settles(FocusEffect, toWorm'[p], Len(toWorm'[p]), currentWeapon[p],
                              currentWeapon[Server])
    BY <1>2 DEF FocusAgrees
  <2>1. Settles(FocusEffect, toWorm[p], Len(toWorm[p]), currentWeapon[p],
                currentWeapon[Server])
    BY DEF IInv, FocusAgrees
  <2>2. QED
    BY <1>18, <2>1 DEF Says
<1>o. OwnerAhead' /\ AnswersHeld'
  BY <1>2, <1>5, <1>19 DEF IInv, OwnerAhead, Tells, AnswersHeld
<1>22. ASSUME NEW c \in present, NEW b, Says(c, toWorm[c], toWorm'[c], die, shot, out, back, b, e5),
              SyncReload,
              Settles(ReloadEffect, toWorm[c], Len(toWorm[c]), weapon[c].reloading, w.reloading)
                \/ out \/ back
       PROVE  /\ Settles(ReloadEffect, toWorm'[c], Len(toWorm'[c]), weapon[c].reloading,
                         w3.reloading)
              /\ b => Settles(ReloadEffect, toWorm'[c], Len(toWorm'[c]) - 1,
                              weapon[c].reloading, w3.reloading)
  BY <1>13, <1>22 DEF Says
<1>23. ReloadAgrees'
  <2> SUFFICES ASSUME SyncReload, NEW c \in present
               PROVE  \/ c \in late /\ ~IsCleared(c)' /\ w3.reloading
                      \/ Settles(ReloadEffect, toWorm'[c], Len(toWorm'[c]),
                                 weapon[c].reloading, w3.reloading)
    BY <1>2, <1>17, <1>19 DEF ReloadAgrees
  <2>1. PICK b \in BOOLEAN : /\ b <=> outOfAmmoCheck /\ w3.ammo > 0 /\ c = Owner
                             /\ Says(c, toWorm[c], toWorm'[c], die, shot, out, back, b, e5)
    BY <1>18
  <2>2. \/ c \in late /\ ~IsCleared(c) /\ w.reloading
        \/ Settles(ReloadEffect, toWorm[c], Len(toWorm[c]), weapon[c].reloading, w.reloading)
    BY DEF IInv, ReloadAgrees, w
  <2>3. CASE out \/ back \/ Settles(ReloadEffect, toWorm[c], Len(toWorm[c]),
                                    weapon[c].reloading, w.reloading)
    BY <1>22, <2>1, <2>3
  <2>4. CASE ~out /\ ~back /\ c \in late /\ ~IsCleared(c) /\ w.reloading
    <3>1. w3.reloading
      BY <1>13, <2>4
    <3>2. c # Owner
      BY <1>6, <2>4, TheMachines
    <3>3. ASSUME NEW i \in 1..Len(toWorm'[c])
          PROVE  toWorm'[c][i].type \notin Clearing
      <4>1. CASE i \in 1..Len(toWorm[c])
        BY <2>1, <2>4, <4>1 DEF Says, IsCleared
      <4>2. CASE toWorm'[c][i].type \in {"Die", "SHOOT"}
        BY <4>2 DEF Clearing
      <4>3. QED
        BY <2>1, <2>4, <3>2, <4>1, <4>2 DEF Says
    <3>4. QED
      BY <2>4, <3>1, <3>3 DEF IsCleared
  <2>5. QED
    BY <2>2, <2>3, <2>4
<1>24. CorrectionFindsFull'
  <2>1. ~SyncReload => ~outOfAmmoCheck
    BY DEF IInv, CorrectionFindsFull
  <2>2. ASSUME ~SyncReload, NEW m \in Machines, NEW i \in 1..Len(toWorm'[m])
        PROVE  toWorm'[m][i].type \notin {"OutOfAmmoCheck", "AmmoCorrection"}
    <3>1. \A n \in Machines : \A j \in 1..Len(toWorm[n]) :
            toWorm[n][j].type \notin {"OutOfAmmoCheck", "AmmoCorrection"}
      BY <2>2 DEF IInv, CorrectionFindsFull
    <3>2. CASE m = Server
      BY <1>5, <3>1, <3>2
    <3>3. CASE m \in Clients \ present
      BY <1>5, <3>3
    <3>4. CASE m \in present
      <4>1. PICK b \in BOOLEAN : /\ b <=> outOfAmmoCheck /\ w3.ammo > 0 /\ m = Owner
                                 /\ Says(m, toWorm[m], toWorm'[m], die, shot, out, back, b, e5)
        BY <1>18, <3>4
      <4>2. ~b
        BY <2>1, <2>2, <4>1
      <4>3. i \in 1..Len(toWorm[m]) =>
              toWorm'[m][i] = toWorm[m][i] /\ toWorm[m][i].type \notin {"OutOfAmmoCheck", "AmmoCorrection"}
        BY <3>1, <4>1 DEF Says
      <4>4. i \notin 1..Len(toWorm[m]) =>
              toWorm'[m][i].type \in {"Die", "SHOOT", "OUTOFAMMO", "RELOADED"}
        BY <4>1, <4>2 DEF Says
      <4>5. QED
        BY <4>3, <4>4
    <3>5. QED
      BY <1>1, <3>2, <3>3, <3>4
  <2>3. ASSUME NEW i \in 1..Len(toWorm'[Owner]), toWorm'[Owner][i].type = "AmmoCorrection"
        PROVE  Settles(ReloadEffect, toWorm'[Owner], i - 1, weapon[Owner].reloading, FALSE)
    <3>1. PICK b \in BOOLEAN : /\ b <=> outOfAmmoCheck /\ w3.ammo > 0
                               /\ Says(Owner, toWorm[Owner], toWorm'[Owner], die, shot, out, back, b, e5)
      BY <1>6, <1>18
    <3>2. CASE i \in 1..Len(toWorm[Owner])
      <4>1. \A j \in 1..Len(toWorm[Owner]) : toWorm'[Owner][j] = toWorm[Owner][j]
        BY <3>1 DEF Says
      <4>2. Len(toWorm[Owner]) \in Nat
        BY <1>1, <1>6, LenProperties
      <4>3. i - 1 \in Nat /\ \A j \in 1..i-1 : j \in 1..Len(toWorm[Owner])
        BY <3>2, <4>2
      <4>4. Settles(ReloadEffect, toWorm[Owner], i - 1, weapon[Owner].reloading, FALSE)
        BY <2>3, <3>2, <4>1 DEF IInv, CorrectionFindsFull
      <4>5. \A j \in 1..i-1 : toWorm'[Owner][j] = toWorm[Owner][j]
        BY <4>1, <4>3
      <4>6. QED
        BY <4>3, <4>4, <4>5, SettlesBefore
    <3>3. CASE i \notin 1..Len(toWorm[Owner])
      <4>1. b /\ i = Len(toWorm'[Owner])
        BY <2>3, <3>1, <3>3 DEF Says
      <4>2. SyncReload /\ w3.reloading = FALSE
        BY <1>14, <2>1, <3>1, <4>1
      <4>3. Owner \notin late
        BY <1>6, TheMachines
      <4>4. Settles(ReloadEffect, toWorm[Owner], Len(toWorm[Owner]), weapon[Owner].reloading,
                    w.reloading)
        BY <1>6, <4>2, <4>3 DEF IInv, ReloadAgrees, w
      <4>5. Settles(ReloadEffect, toWorm'[Owner], Len(toWorm'[Owner]) - 1,
                    weapon[Owner].reloading, w3.reloading)
        BY <1>6, <1>22, <3>1, <4>1, <4>2, <4>4
      <4>6. QED
        BY <4>1, <4>2, <4>5
    <3>4. QED
      BY <3>2, <3>3
  <2>4. weapon'[Owner] = weapon[Owner] /\ outOfAmmoCheck' = FALSE
    BY <1>1, <1>19
  <2>5. QED
    BY <2>2, <2>3, <2>4 DEF CorrectionFindsFull
<1>25. EmptyOnReload'
  BY <1>7, <1>12, <1>19 DEF EmptyOnReload
<1>26. ActionsEnd'
  BY <1>2, SamePlayer DEF IInv
<1>27. ShootingEnds'
  <2>1. ASSUME NEW m \in Machines, weapon'[m].primaryShooting
        PROVE  /\ weapon[m].primaryShooting
               /\ focused(m) => focused(m)'
               /\ isActive'[m] => isActive[m]
    <3>1. CASE m = Server
      BY <1>2, <1>12, <1>19, <2>1, <3>1, SameFocus DEF w
    <3>2. CASE m # Server
      BY <1>2, <1>19, <2>1, <3>2, SameFocus
    <3>3. QED
      BY <3>1, <3>2
  <2>2. QED
    BY <1>2, <2>1, ShootingKept DEF IInv
<1>28. RopeEnds'
  <2>1. ASSUME NEW m \in Machines, RopeTold(m)'
        PROVE  RopeTold(m)
    <3>1. PICK i \in 1..Len(toWorm'[m]) : toWorm'[m][i].type = "SYNC" /\ toWorm'[m][i].rope
      BY <2>1 DEF RopeTold
    <3>2. CASE m = Server
      BY <1>5, <3>1, <3>2 DEF RopeTold
    <3>3. CASE m \in Clients \ present
      BY <1>5, <3>1, <3>3
    <3>4. CASE m \in present
      <4>1. PICK b \in BOOLEAN : /\ b <=> outOfAmmoCheck /\ w3.ammo > 0 /\ m = Owner
                                 /\ Says(m, toWorm[m], toWorm'[m], die, shot, out, back, b, e5)
        BY <1>18, <3>4
      <4>2. b => e5.type = "AmmoCorrection"
        BY <1>15, <4>1
      <4>3. i \in 1..Len(toWorm[m])
        BY <3>1, <4>1, <4>2 DEF Says
      <4>4. toWorm'[m][i] = toWorm[m][i]
        BY <4>1, <4>3 DEF Says
      <4>5. QED
        BY <3>1, <4>3, <4>4 DEF RopeTold
    <3>5. QED
      BY <1>1, <3>2, <3>3, <3>4
  <2>2. ASSUME NEW m \in Machines, rope'[m] \/ RopeTold(m)'
        PROVE  (rope[m] \/ RopeTold(m)) /\ (m \in tangled => m \in tangled')
    BY <1>2, <1>19, <2>1, <2>2
  <2>3. QED
    BY <1>2, <2>2, RopeKept DEF IInv
<1>29. Types'
  <2>1. weapon'[Server].ammo # -1 /\ weapon'[Owner].ammo # -1
    BY <1>1, <1>6, <1>12, <1>19
  <2>2. QED
    BY <1>2, <1>19, <2>1 DEF IInv, Types
<1>30. Queues'
  <2>1. ASSUME NEW c \in Clients
        PROVE  Told(c, toWorm'[c]) /\ toWorm'[c] \in Seq(WormEvents)
    <3>1. CASE c \in present
      BY <1>18, <3>1 DEF Says
    <3>2. CASE c \notin present
      <4>1. toWorm'[c] = <<>>
        BY <1>5, <3>2
      <4>2. QED
        BY <4>1 DEF Told
    <3>3. QED
      BY <3>1, <3>2
  <2>2. (\A c \in Clients : Told(c, toWorm[c]))'
    BY <2>1 DEF Told
  <2>3. toWorm[Server] \in Seq(WormEvents)
    BY <1>1 DEF IInv, Queues
  <2>4. \A n \in Machines : toWorm'[n] \in Seq(WormEvents)
    BY <1>1, <1>5, <2>1, <2>3
  <2>5. toWorm' \in [Machines -> Seq(WormEvents)]
    <3>1. toWorm' = [n \in Machines |-> toWorm'[n]]
      BY <1>3
    <3>2. QED
      BY <2>4, <3>1
  <2>6. QED
    BY <1>5, <2>2, <2>5 DEF IInv, Queues
<1>31. Joining'
  <2>1. \A c \in Clients \ present : c \in Machines \ {Server}
    BY <1>1
  <2>2. QED
    BY <1>2, <1>5, <1>19, <2>1 DEF IInv, Joining
\* The copy that shoots, runs dry or is full again is in hand.
<1>32. /\ shot \/ out \/ back => Slot \in held[Server]
       /\ outOfAmmoCheck => Slot \in held[Server]
  <2>1. shot => Slot \in held[Server]
    BY DEF Shoots, focused
  <2>2. out \/ back => Slot \in held[Server]
    BY <1>10, <1>11 DEF RunsDry, ReloadDone, focused
  <2>3. outOfAmmoCheck => Slot \in held[Server]
    BY DEF IInv, AnswersHeld, Holds
  <2>4. QED
    BY <2>1, <2>2, <2>3
<1>33. ASSUME NEW x \in WormEvents,
              x.type = "Die" \/ (x.type \in Messages /\ Slot \in held[Server])
       PROVE  StillHeld(x)
  <2>1. \A k \in Slots : HeldEffect(k)[x] = {}
    BY <1>33, Effects DEF Messages
  <2>2. ASSUME NEW k \in Slots, NEW has \in BOOLEAN, Finds(x, k, has)
        PROVE  has = Holds(Server, k)
    <3>1. k = Slot /\ has = TRUE /\ Slot \in held[Server]
      BY <1>33, <2>2 DEF Finds, Messages
    <3>2. QED
      BY <3>1 DEF Holds
  <2>3. QED
    BY <2>1, <2>2 DEF StillHeld
<1>34. HeldAgrees' /\ FindsHeld'
  <2>1. ASSUME NEW c \in Clients \cap present, NEW i \in 1..Len(toWorm'[c]),
               i \notin 1..Len(toWorm[c])
        PROVE  StillHeld(toWorm'[c][i])
    <3> DEFINE x == toWorm'[c][i]
    <3>1. PICK b \in BOOLEAN : /\ b <=> outOfAmmoCheck /\ w3.ammo > 0 /\ c = Owner
                               /\ Says(c, toWorm[c], toWorm'[c], die, shot, out, back, b, e5)
      BY <1>18
    <3>2. /\ toWorm'[c] \in Seq(WormEvents)
          /\ \/ x.type = "Die"
             \/ shot /\ x.type = "SHOOT"
             \/ (out \/ back) /\ x.type \in {"OUTOFAMMO", "RELOADED"}
             \/ b /\ x = e5
      BY <2>1, <3>1 DEF Says
    <3>3. x \in WormEvents
      BY <3>2
    <3>4. b => e5.type = "AmmoCorrection" /\ Slot \in held[Server]
      BY <1>15, <1>32, <3>1
    <3> HIDE DEF x
    <3>5. x.type = "Die" \/ (x.type \in Messages /\ Slot \in held[Server])
      BY <1>32, <3>2, <3>4 DEF Messages
    <3>6. StillHeld(x)
      BY <1>33, <3>3, <3>5
    <3>7. QED
      BY <3>6 DEF x
  <2>2. ASSUME NEW c \in Clients \cap present, NEW i \in 1..Len(toWorm[c])
        PROVE  i \in 1..Len(toWorm'[c]) /\ toWorm'[c][i] = toWorm[c][i]
    BY <1>18 DEF Says
  <2>3. \A c \in Clients \ present : toWorm'[c] = <<>>
    BY <1>5
  <2>4. UNCHANGED <<held, present>>
    BY <1>2
  <2>5. QED
    BY <1>30, <2>1, <2>2, <2>3, <2>4, HeldKept
<1>35. QED
  BY <1>20, <1>21, <1>23, <1>24, <1>25, <1>26, <1>27, <1>28, <1>29, <1>30, <1>31, <1>34,
     <1>o DEF IInv

-----------------------------------------------------------------------------
(***************************************************************************)
(* Every step keeps the invariant.                                         *)
(***************************************************************************)
LEMMA MachineIInv == ASSUME IInv, NEW m \in Machines, Machine(m) PROVE IInv'
<1>1. m = Server \/ m \in Clients
  BY TheMachines
<1>2. CASE Think(m)
  <2>1. PICK die \in {FALSE, m = Server}, shot \in {FALSE, Shoots(m, weapon[m])} :
          Tick(m, die, shot)
    BY <1>2 DEF Think
  <2>2. CASE m = Server
    <3>1. die \in BOOLEAN
      BY <2>2
    <3>2. Tick(Server, die, shot) /\ shot \in {FALSE, Shoots(Server, weapon[Server])}
      BY <2>1, <2>2
    <3>3. QED
      BY <3>1, <3>2, ServerTickIInv
  <2>3. CASE m \in Clients
    <3>1. die = FALSE
      BY <2>3, TheMachines
    <3>2. Tick(m, FALSE, shot)
      BY <2>1, <3>1
    <3>3. QED
      BY <2>3, <3>2, ClientTickIInv
  <2>4. QED
    BY <1>1, <2>2, <2>3
<1>3. CASE Receive(m)
  <2>1. CASE ReceiveAtClient(m)
    <3>1. m \in Clients
      BY <2>1 DEF ReceiveAtClient
    <3>2. QED
      BY <2>1, <3>1, ReceiveAtClientIInv
  <2>2. CASE ReceiveAtServer
    BY <2>2, ReceiveAtServerIInv
  <2>3. QED
    BY <1>3, <2>1, <2>2 DEF Receive
<1>4. CASE ReceivePlayer(m)
  BY <1>4, ReceivePlayerIInv
<1>5. QED
  BY <1>2, <1>3, <1>4 DEF Machine

LEMMA NextIInv == ASSUME IInv, [Next]_vars PROVE IInv'
<1>1. CASE \E m \in Machines : Machine(m)
  BY <1>1, MachineIInv
<1>2. CASE Player
  <2>1. CASE HoldFire
    BY <2>1, PlayerKeysIInv
  <2>2. ASSUME NEW b \in BOOLEAN, Fire(b) \/ Rope(b)
        PROVE  IInv'
    BY <2>2, PlayerKeysIInv
  <2>3. ASSUME NEW k \in Slots, changeWeaponTo(k)
        PROVE  IInv'
    BY <2>3, ChangeWeaponToIInv
  <2>4. QED
    BY <1>2, <2>1, <2>2, <2>3 DEF Player
<1>3. CASE World
  <2>1. CASE respawn
    BY <2>1, RespawnIInv
  <2>2. ASSUME NEW c \in Clients, Join(c)
        PROVE  IInv'
    BY <2>2, JoinIInv
  <2>3. ASSUME NEW n \in 0..MaxWeapons, setWeapons(n)
        PROVE  IInv'
    BY <2>3, SetWeaponsIInv
  <2>4. QED
    BY <1>3, <2>1, <2>2, <2>3 DEF World
<1>4. CASE UNCHANGED vars
  <2>1. UNCHANGED <<weapon, outOfAmmoCheck, isActive, held, currentWeapon, rope, present,
                    toWorm, toPlayer, trigger, thrown, late, tangled, astray>>
    BY <1>4 DEF vars, copies, slots, history
  <2>2. Types' /\ Queues' /\ Joining'
    BY <2>1 DEF IInv, Types, Queues, Joining, Told
  <2>3. /\ ActiveAgrees' /\ FocusAgrees' /\ ReloadAgrees' /\ CorrectionFindsFull'
        /\ EmptyOnReload' /\ OwnerAhead' /\ HeldAgrees' /\ FindsHeld' /\ AnswersHeld'
    BY <2>1, SameWorm DEF IInv
  <2>4. ActionsEnd'
    BY <2>1, SamePlayer DEF IInv
  <2>5. ShootingEnds'
    BY <2>1, SameFocus, ShootingKept DEF IInv
  <2>6. RopeEnds'
    BY <2>1, RopeKept DEF IInv, RopeTold
  <2>7. QED
    BY <2>2, <2>3, <2>4, <2>5, <2>6 DEF IInv
<1>5. QED
  BY <1>1, <1>2, <1>3, <1>4 DEF Next

\* The inductive invariant holds in every state the copies can reach.
THEOREM SpecIInv == Spec => []IInv
<1>1. Init => IInv
  BY InitIInv
<1>2. IInv /\ [Next]_vars => IInv'
  BY NextIInv
<1>3. QED
  BY <1>1, <1>2, PTL DEF Spec

\* No correction, shot or new life of the server's copy reaches another copy in
\* the middle of a reload: one that reloads has no ammo, and all are of their
\* types.
THEOREM SpecReloadingIsEmpty == Spec => []ReloadingIsEmpty
<1>1. ASSUME IInv
      PROVE  ReloadingIsEmpty
  <2>1. weapon[Server].ammo \in 0..MaxAmmo /\ weapon[Owner].ammo \in 0..MaxAmmo
    <3>1. MaxAmmo \in Nat
      BY WeaponAssumption
    <3>2. /\ weapon[Server].ammo \in -1..MaxAmmo /\ weapon[Owner].ammo \in -1..MaxAmmo
          /\ weapon[Server].ammo # -1 /\ weapon[Owner].ammo # -1
      BY <1>1, TheMachines DEF IInv, Types, Copy
    <3>3. QED
      BY <3>1, <3>2
  <2>2. TypeOK
    <3>1. \A m \in Machines :
            weapon[m] \in [ammo : -1..MaxAmmo, reloading : BOOLEAN,
                           reloadTime : 0..ReloadTime, m_outOfAmmo : BOOLEAN,
                           primaryShooting : BOOLEAN]
      BY <1>1 DEF IInv, Types, Copy
    <3>2. late \subseteq Clients
      BY <1>1, TheMachines DEF IInv, Types
    <3>3. QED
      BY <1>1, <2>1, <3>1, <3>2 DEF IInv, Types, Queues, TypeOK
  <2>3. QED
    BY <1>1, <2>2 DEF IInv, EmptyOnReload, ReloadingIsEmpty
<1>2. QED
  BY <1>1, SpecIInv, PTL

\* With nothing on its way to a client, its worm lives as the server's does, the same
\* slots hold weapons and its weapon is being reloaded as the server's, but for a
\* reload it joined too late to hear of; and it has the server's slot in hand, but
\* for an owner whose change the server has not heard of, or has refused, or that a
\* SYNC undid.
THEOREM SpecCopiesAgree == Spec => []CopiesAgree
<1>1. ASSUME IInv
      PROVE  CopiesAgree
  <2> SUFFICES ASSUME NEW c \in present, toWorm[c] = <<>>
               PROVE  /\ isActive[c] = isActive[Server] /\ held[c] = held[Server]
                      /\ SyncReload /\ c \notin late =>
                           weapon[c].reloading = weapon[Server].reloading
                      /\ \/ currentWeapon[c] = currentWeapon[Server]
                         \/ c = Owner /\ (OnItsWay(Server, {"ChangeWeapon"}) \/ astray # "no")
    BY DEF CopiesAgree
  <2>1. Len(toWorm[c]) = 0
    OBVIOUS
  <2>2. ASSUME NEW effect, NEW from, NEW to,
               Settles(effect, toWorm[c], Len(toWorm[c]), from, to)
        PROVE  to = from
    BY <2>1, <2>2 DEF Settles
  <2>3. isActive[c] = isActive[Server]
    BY <1>1, <2>2 DEF IInv, ActiveAgrees
  <2>4. SyncReload /\ c \notin late => weapon[c].reloading = weapon[Server].reloading
    BY <1>1, <2>2 DEF IInv, ReloadAgrees
  <2>h. held[c] = held[Server]
    <3>1. ASSUME NEW k \in Slots
          PROVE  k \in held[c] <=> k \in held[Server]
      <4>1. Holds(Server, k) = Holds(c, k)
        BY <1>1, <2>2 DEF IInv, HeldAgrees
      <4>2. QED
        BY <4>1 DEF Holds
    <3>2. held[c] \subseteq Slots /\ held[Server] \subseteq Slots
      <4>1. c \in Machines
        BY <1>1, TheMachines DEF IInv, Types
      <4>2. held \in [Machines -> SUBSET Slots]
        BY <1>1 DEF IInv, Types
      <4>3. QED
        BY <4>1, <4>2, TheMachines
    <3>3. QED
      BY <3>1, <3>2
  <2>5. CASE c # Owner
    <3>1. currentWeapon[c] = currentWeapon[Server]
      BY <1>1, <2>2, <2>5 DEF IInv, FocusAgrees
    <3>2. QED
      BY <2>3, <2>4, <2>h, <3>1
  <2>6. CASE c = Owner
    <3>1. \/ astray # "no"
          \/ Settles(SlotEffect, toWorm[Server], Len(toWorm[Server]), currentWeapon[Server],
                     currentWeapon[Owner])
      BY <1>1 DEF IInv, OwnerAhead
    <3>2. CASE currentWeapon[Owner] = currentWeapon[Server] \/ astray # "no"
      BY <2>3, <2>4, <2>h, <2>6, <3>2
    <3>3. CASE currentWeapon[Owner] # currentWeapon[Server] /\ ~(astray # "no")
      <4>1. PICK k \in 1..Len(toWorm[Server]) :
              SlotEffect[toWorm[Server][k]] = {currentWeapon[Owner]}
        BY <3>1, <3>3 DEF Settles
      <4>2. toWorm[Server][k] \in WormEvents
        BY <1>1 DEF IInv, Queues, ServerEvents
      <4>3. toWorm[Server][k].type = "ChangeWeapon"
        BY <4>1, <4>2, Effects
      <4>4. toWorm[Server] \in Seq(WormEvents)
        BY <1>1, TheMachines DEF IInv, Queues
      <4>5. OnItsWay(Server, {"ChangeWeapon"})
        BY <4>3, <4>4, LenProperties DEF OnItsWay
      <4>6. QED
        BY <2>3, <2>4, <2>h, <2>6, <4>5
    <3>4. QED
      BY <3>2, <3>3
  <2>7. QED
    BY <2>5, <2>6
<1>2. QED
  BY <1>1, SpecIInv, PTL

\* With FIRE let go, or the rope taken in, and nothing on its way, no living copy
\* shoots and none has the rope out, but for a client that took the rope in
\* before it was told that it was out.
THEOREM SpecReleaseReachesAll == Spec => []ReleaseReachesAll
<1>1. ASSUME IInv
      PROVE  ReleaseReachesAll
  <2> SUFFICES ASSUME \A m \in Machines : toWorm[m] = <<>> /\ toPlayer[m] = <<>>,
                      NEW m \in Machines
               PROVE  /\ ~trigger /\ isActive[m] => ~weapon[m].primaryShooting
                      /\ ~thrown /\ m \notin tangled => ~rope[m]
    BY DEF ReleaseReachesAll
  <2>1. \A n \in Machines : Len(toPlayer[n]) = 0
    OBVIOUS
  <2>2. \A a : ~Stops(m, 0, a) /\ ~Stops(Server, 0, a)
    <3>1. ASSUME NEW n \in Machines, NEW a, NEW j \in 1..Len(toPlayer[n])
          PROVE  FALSE
      BY <2>1
    <3>2. \A n \in Machines : \A a : ~Stops(n, 0, a)
      BY <3>1 DEF Stops
    <3>3. QED
      BY <3>2, TheMachines
  <2>3. \A a : Ends(m, 0, a) => Asked(a)
    BY <2>2 DEF Ends
  <2>4. ~trigger /\ isActive[m] => ~weapon[m].primaryShooting
    BY <1>1, <2>3 DEF IInv, ShootingEnds, Asked
  <2>5. ~thrown /\ m \notin tangled => ~rope[m]
    BY <1>1, <2>3 DEF IInv, RopeEnds, Asked
  <2>6. QED
    BY <2>4, <2>5
<1>2. QED
  BY <1>1, SpecIInv, PTL
=============================================================================
