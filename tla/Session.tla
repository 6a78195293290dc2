-------------------------------- MODULE Session --------------------------------
(***************************************************************************)
(* Who plays, as the server knows it and as one client shows it: the       *)
(* players with their names and scores, and the worm each of them has.     *)
(*                                                                         *)
(* The library copies a player and its worm as two nodes, whose events     *)
(* come in the order they were sent (wire); the replicated numbers by      *)
(* which player and worm refer to each other come on their own (items).    *)
(* The client files events with their nodes and looks at the worms' before *)
(* the players' in a turn.  Me is the client's own player; it asks for its *)
(* names over a channel of its own (up).                                   *)
(*                                                                         *)
(* A name is a sequence: a word and the numbers put behind it in brackets. *)
(***************************************************************************)
EXTENDS Naturals, Sequences, FiniteSets, Functions

CONSTANTS
  Player,      \* the players there will be: each is named by its nodes, used once
  Me,          \* the client's own player
  Word,        \* what players call themselves
  DefaultWord, \* "GusPlayer"
  None,        \* no player
  MaxChanges,  \* bound: deaths on the server and changes of a name
  MaxWire      \* bound: messages on the wire when the server adds to them

\* The numbers of nodes have finitely many bits, and there is a name to ask for.
ASSUME SessionAssumption ==
  /\ IsFiniteSet(Player) /\ Me \in Player /\ None \notin Player
  /\ Word # {}
  /\ MaxChanges \in Nat /\ MaxWire \in Nat

VARIABLES
  \* the server
  present,     \* Game::players, each with its worm
  used,        \* history: the players there were
  own,         \* of these, the bots and players of the server itself, whose worm was
               \* assigned before they had a node
  name,        \* BasePlayer::m_name
  stats,       \* BasePlayer::stats: the player the object was made for
  kills, deaths,  \* BasePlayer::Stats of these
  inits,       \* players whose node has its eZCom_EventInit to look at
  \* the library
  announced,   \* the nodes the client is told of
  wire, items, up,
  \* the client
  cPlayers, cWorms,  \* its players, and its worms by the player they belong to
  linked,      \* players that have their worm (BasePlayer::m_worm, BaseObject::m_owner)
  cName, cKills, cDeaths,
  qWorm, qPlayer,    \* events waiting in the nodes
  cMark,       \* BasePlayer::deleteMe
  turn,        \* where the main loop of the client is
  option, nameChanged,  \* PlayerOptions::name and m_nameChanged of the client
  \* history
  renames,     \* changes of a name
  early,       \* the option was changed after it was asked for and before the player came
  missed,      \* a death came to a worm that had no player
  unseen,      \* a death was counted of a worm the client was not told of, and no SYNC sent since
  apart        \* a death was filed while an older SYNC of the player waited, or a score
               \* was counted that another player present has as well

serverVars == <<present, used, own, name, stats, kills, deaths, inits>>
netVars == <<announced, wire, items, up>>
clientVars == <<cPlayers, cWorms, linked, cName, cKills, cDeaths, qWorm, qPlayer, cMark, turn>>
optionVars == <<option, nameChanged, renames, early>>
driftVars == <<missed, unseen, apart>>
vars == <<serverVars, netVars, clientVars, optionVars, driftVars>>

Changes == renames + FoldFunction(+, 0, deaths)

WormNode(p) == <<"worm", p>>
PlayerNode(p) == <<"player", p>>
Zeros == [p \in Player |-> 0]
Nameless == [p \in Player |-> << >>]

Init ==
  /\ present = {} /\ used = {} /\ own = {} /\ inits = {}
  /\ name = Nameless /\ cName = Nameless
  /\ stats = [p \in Player |-> p]
  /\ kills = Zeros /\ deaths = Zeros /\ cKills = Zeros /\ cDeaths = Zeros
  /\ announced = {} /\ wire = << >> /\ items = {}
  /\ option = <<CHOOSE w \in Word : TRUE>>
  /\ up = <<[kind |-> "request", name |-> option]>>
  /\ cPlayers = {} /\ cWorms = {} /\ linked = {} /\ cMark = {}
  /\ qWorm = [p \in Player |-> << >>] /\ qPlayer = [p \in Player |-> << >>]
  /\ turn = "network"
  /\ nameChanged = FALSE /\ renames = 0 /\ early = FALSE
  /\ missed = {} /\ unseen = {} /\ apart = {}

-----------------------------------------------------------------------------
(* Names *)

(* localChangeName: the name that results for a player called before, among these players. *)
localChangeName(before, wish, names, players) ==
  LET taken == {names[q] : q \in players}
      suffixed == {n \in 1 .. Cardinality(players) + 1 : Append(wish, n) \notin taken}
  IN IF before = wish \/ wish \notin taken THEN wish
     ELSE Append(wish, CHOOSE n \in suffixed : \A m \in suffixed : n <= m)

(* The constructor of BasePlayer gives the name in its options, before anything asks for one. *)
constructed(names, players) == localChangeName(<< >>, <<DefaultWord>>, names, players)

-----------------------------------------------------------------------------
(* The server *)

(* A turn of the client looks at what has come only, so what the server does  *)
(* meanwhile may as well be done before it.                                   *)
ServerActs == turn = "network" /\ Len(wire) <= MaxWire

Tell(p, kind, data) ==
  IF PlayerNode(p) \in announced
  THEN wire' = Append(wire, [node |-> PlayerNode(p), kind |-> kind, data |-> data])
  ELSE UNCHANGED wire

(* rep is the player whose score goes by the same unique id, or p itself when *)
(* the id is new.                                                             *)
join(p, wish, rep) ==
  LET with == [name EXCEPT ![p] = constructed(name, present)]
  IN /\ ServerActs /\ p \notin used
     /\ rep \in (used \ own) \cup {p}
     /\ present' = present \cup {p} /\ used' = used \cup {p}
     /\ name' = [with EXCEPT ![p] = localChangeName(with[p], wish, with, present \cup {p})]
     /\ stats' = [stats EXCEPT ![p] = stats[rep]]
     /\ UNCHANGED <<kills, deaths, inits>>

Request ==
  /\ up # << >> /\ Head(up).kind = "request"
  /\ \E rep \in used \cup {Me} : join(Me, Head(up).name, rep)
  /\ UNCHANGED own
  /\ up' = Tail(up)
  /\ UNCHANGED <<announced, wire, items, clientVars, optionVars, driftVars>>

OtherJoins(p) ==
  /\ p # Me
  /\ \/ \E w \in Word, rep \in used \cup {p} : join(p, <<w>>, rep) /\ UNCHANGED own
     \/ \E w \in Word : join(p, <<w>>, p) /\ own' = own \cup {p}
  /\ UNCHANGED <<netVars, clientVars, optionVars, driftVars>>

changeName_(p, wish) ==
  /\ ServerActs
  /\ name' = [name EXCEPT ![p] = localChangeName(name[p], wish, name, present)]
  /\ Tell(p, "name", name'[p])
  /\ UNCHANGED <<present, used, own, stats, kills, deaths, inits, announced, items>>

Petition ==
  /\ up # << >> /\ Head(up).kind = "petition"
  /\ changeName_(Me, Head(up).name)
  /\ up' = Tail(up)
  /\ UNCHANGED <<clientVars, optionVars, driftVars>>

OtherRenames(p) ==
  /\ p \in present \ {Me} /\ Changes < MaxChanges
  /\ renames' = renames + 1
  /\ \E w \in Word : changeName_(p, <<w>>)
  /\ UNCHANGED <<up, clientVars, option, nameChanged, early, driftVars>>

(* The players whose count a death changes: the one who dies, and who hurt it last, if another. *)
Killers(victim, killer) == {killer} \ {None, victim}
Add(count, which) == [x \in Player |-> IF x \in which THEN count[x] + 1 ELSE count[x]]

(* NetWorm::die sends the event, and BaseWorm::die counts. *)
die(p, killer) ==
  /\ ServerActs /\ p \in present /\ Changes < MaxChanges
  /\ killer \in present \cup {None}
  /\ deaths' = Add(deaths, {stats[p]})
  /\ kills' = Add(kills, {stats[k] : k \in Killers(p, killer)})
  /\ IF WormNode(p) \in announced
     THEN /\ wire' = Append(wire, [node |-> WormNode(p), kind |-> "die", data |-> killer])
          /\ UNCHANGED unseen
     ELSE /\ unseen' = unseen \cup {p} \cup Killers(p, killer)
          /\ UNCHANGED wire
  /\ apart' = apart \cup {q \in present : \E x \in {p} \cup Killers(p, killer) :
                                              q # x /\ stats[q] = stats[x]}
  /\ UNCHANGED <<present, used, own, name, stats, inits, announced, items, up,
                 clientVars, optionVars, missed>>

(* The player is deleted, and its worm with it: the client is told of the player only. *)
deleteThis(p) ==
  /\ ServerActs /\ p \in present \ {Me}
  /\ present' = present \ {p} /\ inits' = inits \ {p}
  /\ announced' = announced \ {PlayerNode(p), WormNode(p)}
  /\ items' = {i \in items : i.of # p}
  /\ Tell(p, "removed", None)
  /\ name' = [name EXCEPT ![p] = << >>]
  /\ missed' = missed \ {p} /\ unseen' = unseen \ {p} /\ apart' = apart \ {p}
  /\ UNCHANGED <<used, own, stats, kills, deaths, up, clientVars, optionVars>>

(* eZCom_EventInit: the client has the node, and is sent what the player is. *)
sendSyncMessage(p) ==
  /\ ServerActs /\ p \in inits
  /\ inits' = inits \ {p} /\ unseen' = unseen \ {p}
  /\ Tell(p, "sync", [name |-> name[p], kills |-> kills[stats[p]], deaths |-> deaths[stats[p]]])
  /\ UNCHANGED <<present, used, own, name, stats, kills, deaths, announced, items, up,
                 clientVars, optionVars, missed, apart>>

-----------------------------------------------------------------------------
(* The library: nodes in the order they were made, then their numbers. *)

(* The worm was made first.  It has the number of its player if the player had *)
(* a node when it was given the worm.                                          *)
Announce(p) ==
  /\ ServerActs
  /\ p \in present /\ PlayerNode(p) \notin announced
  /\ announced' = announced \cup {WormNode(p), PlayerNode(p)}
  /\ wire' = wire \o <<[node |-> WormNode(p), kind |-> "create", data |-> None],
                        [node |-> PlayerNode(p), kind |-> "create", data |-> None]>>
  /\ items' = items \cup [id : IF p \in own THEN {"WormID"} ELSE {"WormID", "PlayerID"}, of : {p}]
  /\ inits' = inits \cup {p}
  /\ UNCHANGED <<present, used, own, name, stats, kills, deaths, up, clientVars, optionVars, driftVars>>

-----------------------------------------------------------------------------
(* The client: what it receives *)

Waits(p, kind) == \E i \in DOMAIN qPlayer[p] : qPlayer[p][i].kind = kind

ReceiveCreate(m) ==
  /\ m.kind = "create"
  /\ LET p == m.node[2] IN
     IF m.node = WormNode(p)
     THEN /\ cWorms' = cWorms \cup {p}
          /\ UNCHANGED <<cPlayers, cName, nameChanged>>
     ELSE /\ cPlayers' = cPlayers \cup {p}
          /\ cName' = [cName EXCEPT ![p] = IF p = Me THEN localChangeName(<< >>, option, cName, cPlayers)
                                           ELSE constructed(cName, cPlayers)]
          /\ nameChanged' = (nameChanged /\ p # Me)   \* clearChangeFlags
          /\ UNCHANGED cWorms
  /\ UNCHANGED <<qWorm, qPlayer, apart>>

ReceiveEvent(m) ==
  /\ m.kind # "create"
  /\ LET p == m.node[2] IN
     IF m.node = WormNode(p)
     THEN /\ qWorm' = [qWorm EXCEPT ![p] = Append(@, m)]
          /\ apart' = apart \cup
               {x \in present \cap ({p} \cup Killers(p, m.data)) : Waits(x, "sync")}
          /\ UNCHANGED qPlayer
     ELSE /\ qPlayer' = [qPlayer EXCEPT ![p] = Append(@, m)]
          /\ UNCHANGED <<qWorm, apart>>
  /\ UNCHANGED <<cPlayers, cWorms, cName, nameChanged>>

Receive ==
  /\ turn = "network" /\ wire # << >>
  /\ wire' = Tail(wire)
  /\ ReceiveCreate(Head(wire)) \/ ReceiveEvent(Head(wire))
  /\ UNCHANGED <<serverVars, announced, items, up, linked, cKills, cDeaths, cMark, turn,
                 option, renames, early, missed, unseen>>

assignWorm(p) == linked \cup {p}

(* As if the number of its worm told a player nothing. *)
WormIDIgnored(p) == linked

(* inPreUpdateItem of either node looks for the other, which may not be there yet. *)
WormID(p) == IF p \in cWorms THEN assignWorm(p) ELSE linked
PlayerID(p) == IF p \in cPlayers THEN assignWorm(p) ELSE linked

ReceiveItem(i) ==
  /\ turn = "network" /\ i \in items
  /\ i.of \in IF i.id = "WormID" THEN cPlayers ELSE cWorms
  /\ items' = items \ {i}
  /\ linked' = IF i.id = "WormID" THEN WormID(i.of) ELSE PlayerID(i.of)
  /\ UNCHANGED <<serverVars, announced, wire, up, cPlayers, cWorms, cName, cKills, cDeaths,
                 qWorm, qPlayer, cMark, turn, optionVars, driftVars>>

(* A turn in which nothing waits changes nothing. *)
BeginTurn ==
  /\ turn = "network"
  /\ \/ nameChanged /\ Me \in cPlayers
     \/ \E p \in Player : qWorm[p] # << >> \/ qPlayer[p] # << >>
  /\ turn' = "worms"
  /\ UNCHANGED <<serverVars, netVars, cPlayers, cWorms, linked, cName, cKills, cDeaths,
                 qWorm, qPlayer, cMark, optionVars, driftVars>>

-----------------------------------------------------------------------------
(* The client: its worms, then its players, look at their events *)

(* Die: whoever the client knows by the number of the killer, and the worm's player, if it has one. *)
WormDies(p) ==
  /\ turn = "worms" /\ qWorm[p] # << >>
  /\ qWorm' = [qWorm EXCEPT ![p] = Tail(@)]
  /\ LET m_owner == {p} \cap linked
         m_lastHurt == {Head(qWorm[p]).data} \cap cPlayers
     IN /\ cDeaths' = Add(cDeaths, m_owner)
        /\ cKills' = Add(cKills, m_lastHurt \ m_owner)
        /\ missed' = IF m_owner = {} THEN missed \cup ({p} \cap present) ELSE missed
  /\ UNCHANGED <<serverVars, netVars, cPlayers, cWorms, linked, cName, qPlayer, cMark, turn,
                 optionVars, unseen, apart>>

EndWorms ==
  /\ turn = "worms" /\ \A p \in Player : qWorm[p] = << >>
  /\ turn' = "players"
  /\ UNCHANGED <<serverVars, netVars, cPlayers, cWorms, linked, cName, cKills, cDeaths,
                 qWorm, qPlayer, cMark, optionVars, driftVars>>

(* As if SYNC left the score alone. *)
SYNCWithoutScore(p, data) ==
  /\ cName' = [cName EXCEPT ![p] = data.name]
  /\ missed' = missed \ {p}
  /\ UNCHANGED <<cKills, cDeaths, cMark>>

SYNC(p, data) ==
  /\ cKills' = [cKills EXCEPT ![p] = data.kills]
  /\ cDeaths' = [cDeaths EXCEPT ![p] = data.deaths]
  /\ cName' = [cName EXCEPT ![p] = data.name]
  /\ missed' = missed \ {p}
  /\ UNCHANGED cMark

NAME_CHANGE(p, data) ==
  /\ cName' = [cName EXCEPT ![p] = data]
  /\ UNCHANGED <<cKills, cDeaths, cMark, missed>>

(* As if the player stayed. *)
EventRemovedIgnored(p) ==
  UNCHANGED <<cMark, cName, cKills, cDeaths, missed>>

EventRemoved(p) ==
  /\ cMark' = cMark \cup {p}
  /\ UNCHANGED <<cName, cKills, cDeaths, missed>>

PlayerThinks(p) ==
  /\ turn = "players" /\ qPlayer[p] # << >>
  /\ qPlayer' = [qPlayer EXCEPT ![p] = Tail(@)]
  /\ LET e == Head(qPlayer[p]) IN
     \/ e.kind = "sync" /\ SYNC(p, e.data)
     \/ e.kind = "name" /\ NAME_CHANGE(p, e.data)
     \/ e.kind = "removed" /\ EventRemoved(p)
  /\ UNCHANGED <<serverVars, netVars, cPlayers, cWorms, linked, qWorm, turn,
                 optionVars, unseen, apart>>

(* As if a client changed its name without asking the server. *)
nameChangeAtHome ==
  /\ turn = "players" /\ Me \in cPlayers /\ qPlayer[Me] = << >> /\ nameChanged
  /\ nameChanged' = FALSE
  /\ cName' = [cName EXCEPT ![Me] = option]
  /\ UNCHANGED <<serverVars, netVars, cPlayers, cWorms, linked, cKills, cDeaths,
                 qWorm, qPlayer, cMark, turn, option, renames, early, driftVars>>

nameChangePetition ==
  /\ turn = "players" /\ Me \in cPlayers /\ qPlayer[Me] = << >> /\ nameChanged
  /\ up' = Append(up, [kind |-> "petition", name |-> option])
  /\ nameChanged' = FALSE
  /\ UNCHANGED <<serverVars, announced, wire, items, clientVars, option, renames, early, driftVars>>

(* The players that are to go go, with their worms as far as they have one. *)
EndPlayers ==
  /\ turn = "players" /\ \A p \in Player : qPlayer[p] = << >>
  /\ ~(Me \in cPlayers /\ nameChanged)
  /\ turn' = "network"
  /\ cPlayers' = cPlayers \ cMark
  /\ cWorms' = cWorms \ (linked \cap cMark)
  /\ linked' = linked \ cMark
  /\ cMark' = {}
  /\ cName' = [p \in Player |-> IF p \in cMark THEN << >> ELSE cName[p]]
  /\ cKills' = [p \in Player |-> IF p \in cMark THEN 0 ELSE cKills[p]]
  /\ cDeaths' = [p \in Player |-> IF p \in cMark THEN 0 ELSE cDeaths[p]]
  /\ UNCHANGED <<serverVars, netVars, qWorm, qPlayer, optionVars, driftVars>>

(* The name in the options of the client, set in the console or a menu. *)
changeName(w) ==
  /\ option # <<w>> /\ Changes < MaxChanges
  /\ option' = <<w>> /\ nameChanged' = TRUE /\ renames' = renames + 1
  /\ early' = (Me \notin cPlayers)
  /\ UNCHANGED <<serverVars, netVars, clientVars, driftVars>>

-----------------------------------------------------------------------------

Progress ==
  \/ Request \/ Petition
  \/ Receive \/ BeginTurn \/ EndWorms \/ EndPlayers \/ nameChangePetition
  \/ \E i \in items : ReceiveItem(i)
  \/ \E p \in Player : \/ sendSyncMessage(p) \/ Announce(p)
                       \/ WormDies(p) \/ PlayerThinks(p)

Next ==
  \/ Progress
  \/ \E p \in Player : OtherJoins(p) \/ OtherRenames(p) \/ deleteThis(p)
  \/ \E p \in Player, k \in Player \cup {None} : die(p, k)
  \/ \E w \in Word : changeName(w)

(* Packets arrive, and both programs go on. *)
FairSpec == Init /\ [][Next]_vars /\ WF_vars(Progress)

-----------------------------------------------------------------------------

Names == UNION {[1 .. n -> Word \cup {DefaultWord} \cup 1 .. Cardinality(Player) + 1] : n \in 0 .. 2}

TypeOK ==
  /\ present \cup own \subseteq used /\ used \subseteq Player /\ inits \subseteq present
  /\ name \in [Player -> Names] /\ cName \in [Player -> Names]
  /\ stats \in [Player -> Player]
  /\ announced \subseteq {WormNode(p) : p \in present} \cup {PlayerNode(p) : p \in present}
  /\ items \subseteq [id : {"WormID", "PlayerID"}, of : present]
  /\ linked \subseteq cPlayers \cap cWorms /\ cMark \subseteq cPlayers
  /\ cPlayers \cup cWorms \subseteq used
  /\ turn \in {"network", "worms", "players"}
  /\ turn = "network" => cMark = {}
  /\ turn = "players" => \A p \in Player : qWorm[p] = << >>

(* Nothing is under way between server and client. *)
Quiet ==
  /\ wire = << >> /\ items = {} /\ up = << >> /\ inits = {} /\ turn = "network"
  /\ \A p \in present : PlayerNode(p) \in announced
  /\ \A p \in Player : qWorm[p] = << >> /\ qPlayer[p] = << >>

(* No two players of a server have one name, whatever they ask for and when; *)
(* and a client at rest shows the players of the server, by these names, each *)
(* with its worm, in whatever order the replicated numbers came.              *)
MirrorAgrees ==
  /\ TypeOK
  /\ \A p, q \in present : p # q => name[p] # name[q]
  /\ Quiet => /\ cPlayers = present /\ linked = present
              /\ \A p \in present : cName[p] = name[p]

(* A client at rest has the scores of the server, except where a death came   *)
(* in the same turn as an older SYNC of the player, to a worm not linked yet, *)
(* or to one of two players who share a score.                                *)
ScoresAgree ==
  Quiet => \A p \in present \ (missed \cup unseen \cup apart) :
             cKills[p] = kills[stats[p]] /\ cDeaths[p] = deaths[stats[p]]

(* A name asked for after the player has come is what the server calls it, up to a number. *)
Carries(p, wish) == Len(name[p]) >= Len(wish) /\ SubSeq(name[p], 1, Len(wish)) = wish
NameIsCarried == Quiet /\ ~nameChanged /\ ~early => Carries(Me, option)

(* The client comes to show who plays, each with its worm, again and again. *)
PlayersAreShown == []<>(Me \in present /\ linked = present)
=============================================================================
