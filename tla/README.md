# Gusanos: a verification project

Gusanos (`src/Goop`) is a two-dimensional worms game: one program that is at the same
time game, server and client. It is a single thread. Its main loop
(`Goop/gusanos.cpp:111-348`) runs a hundred ticks a second, and in each of them every
component "thinks" once. What makes it hard is therefore not threads but

* the *other machines*: each holds a copy of the worms, players and weapons, and the
  copies are kept in step by events over the Zoidcom library;
* *work spread over ticks*: disconnecting, HTTP requests, downloads and reloads take
  many ticks, and anything may happen between two of them;
* *callbacks*: the library, the console and Lua scripts call into the components in the
  middle of what those are doing.

This directory holds TLA+ models of the parts where that matters most, the TLC runs that
check them, and TLAPS proofs for the core. `PROJECT.json` lists components, runs,
mutants, hazards and theorems, and says for every definition which lines of the source
it stands for.

## 1. Inventory

| Component | State | Operations | Correct when | Modelled |
|---|---|---|---|---|
| network lifecycle (`network.cpp`, `server.cpp`, `client.cpp`) | `state`, `m_control`, role flags, `connCount`, `clientRetry`, timers, message queue, HTTP requests | `host`, `connect`, `disconnect`, `reconnect`, `update`, library callbacks | a session is given up completely before the next begins; flags, counters and nodes agree; queued work is served; quit ends | `Network`, `NetLifecycle` |
| updater (`updater.cpp`) | per connection a queue of files and a busy flag; per client `ready` and its requests | `requestLevel`, `think`, `removeNode` | one file at a time; "done" only after the files; nobody waits for ever | `Updater` |
| HTTP client (`http/`) | state of a request, half a header line, the timer | `think` | data is the body; success is meant; a request ends | `HttpRequest` |
| weapons (`weapon.cpp`) and ninja rope (`ninjarope.cpp`) with worms and players (`base_worm`, `net_worm`, `base_player`, `player`) | ammo, reload, trigger of each copy, the slots and the one in hand, and whether its rope is out | `think`, `recieveMessage`, `actionStart/Stop`, `changeWeaponTo`, `respawn`, `shoot`, `remove` | the copies agree when no event is under way; nobody shoots, hangs on a rope or waits for ever | `Weapon` |
| game (`game.cpp`) | level, mod, lists of players and objects, options, ChangeLevel queue | `think`, `changeLevel`, commands | a level is changed only off the network; scores and players follow the connections | queue in `Network`, its node's events in `LevelEffects`, `reset` and the lists in `ObjectGrid` and `Owners`, the making of players in `Session` |
| session of players (`server.cpp`, `base_player.cpp`, `net_worm.cpp`) | saved scores, links between players and worms, names | `PLAYER_REQUEST`, node requests, deaths, removal | each player has one worm, one name and one score on every machine; scores survive a reconnect | `Session` |
| life of players, worms and other objects (`gusanos.cpp`, `base_player.cpp`, `base_object.h`, `game.cpp`) | players, their marks and worms; owners and those who last hurt | `deleteThis`, `removeRefsToPlayer`, `reset`, `damage`, `newParticle` | no worm is deleted under its player, though a client makes and links the two apart; no object names a deleted player | `Owners`, `OwnersProofs` |
| level and level effects (`level.cpp`, `game.cpp`) | pixels, list of effects applied | `applyLevelEffect`, replay to a joining client | every client ends with the same level | `LevelEffects` |
| object grid (`object_grid.h`, `objects_list.*`) | intrusive lists per cell and layer | insert, relocate, erase during iteration | each object is in one cell; iteration sees each once | `ObjectGrid`, `ObjectSet` |
| encoding (`encoding.*`, replicators) | none | bounded integers, elias codes, positions | decode after encode is the identity on the range, or the nearest code; reader and writer stay in step | `Encoding`, `Stream` |
| console (`Console/`, `gconsole.*`) | variables, aliases, bindings, queue of lines | `parse`, `think`, bindings | a line runs once, in order; a released key runs the release | not modelled |
| GUI (`GUI/`) | tree of windows, focus, capture | events, destruction | focus and capture name windows that exist | not modelled |
| Lua bindings (`glua`, `lua/`, `lua51/luaapi`) | references | make, use, delete | no reference to a deleted object | not modelled |
| particles, timers, detect events | counters and physics | `think` | | their life in the grid, in `ObjectGrid` and `Owners`; physics left out |
| rendering, menus, sound, resources, script parser, utilities | | | | not modelled (no protocol) |
| Lua, loadpng; `liero2gus`, `lighter`, `parsergen`; `zoid/`, `src/src/` | | | | vendored code, tools, older versions of the game: not modelled |

### How they interact

```
main loop --> Game::think --> Network::disconnect / host      (ChangeLevel queue)
          --> players, objects (worms --> weapons) think
          --> Updater::think --> Network::reconnect           (download complete)
          --> Network::update --> ZCom callbacks of Server / Client --> game, updater, network
                              --> processHttpRequests --> HTTP::Request::think --> onServerAdded ...
                              --> state machine (Connect queue, teardown), reconnect timer
          --> Console::think --> connect, map, disconnect, quit, ...
```

Events between machines go through network nodes: one of the game, one of the updater,
one per worm and one per player. Order is kept within a node, not between nodes: that is
behind most of what `Weapon` and `Session` say. Whatever queues work for later
(`message_queue.h`) takes a snapshot of the queue, and a handler may put its message
back (`mq_delay`).

## 2. Modules

| Module | What it is |
|---|---|
| `NetLifecycle` | the promise of the network as its callers see it: down, off, hosting, joining, joined, closing |
| `Network` | the network subsystem, one action per call a tick makes |
| `NetworkProofs` | theorems about `Network`, with proofs |
| `Updater` | downloads: a server, clients, the library between them |
| `UpdaterProofs` | theorems about `Updater`, with proofs |
| `HttpRequest` | one request over one socket |
| `HttpRequestProofs` | theorems about `HttpRequest`, with proofs |
| `Weapon` | the copies of one weapon, and of the rope, on the server, the owner and the proxies |
| `WeaponProofs` | theorems about `Weapon`, with proofs |
| `Session` | players, names and scores: the server's, and one client's copies |
| `SessionProofs` | theorems about `Session`, with proofs |
| `ObjectSet` | the promise of the grid as the main loop sees it: a set of objects with passes |
| `ObjectGrid` | the grid itself: intrusive lists, guards, iterators |
| `ObjectGridProofs` | theorems about `ObjectGrid`, with proofs |
| `Owners` | players, worms and other objects over the turns of the main loop, on an `ObjectSet` |
| `OwnersProofs` | theorems about `Owners`, with proofs |
| `LevelEffects` | the copies of the level, and the effects that take dirt away from them |
| `LevelEffectsProofs` | theorems about `LevelEffects`, with proofs |
| `Encoding` | the encoders and decoders, on sequences of bits |
| `Stream` | a message made of encoded fields, and its reader |
| `MC*` | what TLC needs in addition: sets of values, symmetry |

Operators with a comment "Mutant:" are wrong versions of the definition that follows
them; no specification uses them ("As if ..." in `Session`). Each property is checked to
fail when the right definition is exchanged for such a version. Where `TypeOK` is not
checked by itself it is the first conjunct of an invariant: of `ReloadingIsEmpty`,
`DataIsFromBody`, `DoneMeansDelivered`, `CodesArrive`, `CountIsLength`, `WormsAreWhole`
and `MirrorAgrees`.

How the modules fit together: `Network` implements `NetLifecycle`. `ObjectGrid`
implements `ObjectSet`, and `Owners` uses an `ObjectSet` and nothing more of the grid, so
that what holds of `Owners` holds over the grid. All three are proved.
`LevelEffects` takes from `Encoding` what becomes of a position on its way. `Weapon`,
`Session`, `Updater` and `LevelEffects` are each a part of what happens in the state
that `NetLifecycle` calls hosting or joined; they share with it that connections come
and go at any time.

### Network

A tick is a cycle through phases (`phase`): game, updater, input, http, closing,
connect, timer, console, loop. This is the order of the calls in `main` and in
`Network::update`; every action is one call made in its phase. `todo` is what the
current pass over a queue has yet to see: `mq_process_messages` and the loop of
`processHttpRequests` look at what was there when they began. Peers, master server,
resolver, user and clock are nondeterministic: a connection may be accepted, refused,
refused with Retry, lost, closed with any reason; a request may end in any tick, well or
badly; the resolver may find nothing.

The library's own state is `dialing`, `open` and `zoidRequest`. Two history variables
(`lateAdd`, `revived`) name the two known exceptions described below, and nothing reads
them but the properties.

`KeepsLifecycle` states that `Network` implements `NetLifecycle` under the mapping
`Link` of `state`, `m_control` and `m_client`, and `open` for `peers`.

What the model shows about the code, beside its promises:

* **A registration can outlive its session.** `disconnect()` asks for removal only if
  `serverAdded` is already set (`network.cpp:577`). An "add" still in flight at that
  moment, or sent by the same tick's `case StateIdle` after a queued Connect has
  disconnected the host (`network.cpp:422-480`), is answered later, and the program then
  believes to be listed while it is off the network. `RegistrationEnds` says that this
  is the only way (`lateAdd`).
* **quit can be undone**: a connect queued in the same tick takes the network up again
  between the two loops of `main` (`revived` in `QuitEnds`).
* **A request may be null** (`http.cpp:247-271`), and the handlers in `network.cpp`
  dereference it: the model has the action `HttpNull` and goes to `crashed`.
* Calling `disconnect()` twice sends "remove" twice; this is harmless.

### Updater

The table `connections` of the server (`fileQueue`, `sendingFile`) is indexed by the
identifiers of connections and never cleared. A client is `joining` from
`ZCom_cbConnectResult` to `ZCom_cbZoidResult`, then `updating` (it has the node), then
`done` (`network.reconnect(50)` was called), or `playing`, or `stranded` with an error.
`network.autoDownloads` is a console variable and may have either value whenever it is
read. Assumed of the library: events of the node arrive in order; a file arrives beside
them; the sender hears of the end of a transfer after the receiver has the file; the end
of a refused transfer is another event, which the code ignores ("Got some other event");
identifiers that are free are given again, certainly when the server opens its next
session with a new control.

`spoiled` is a history variable for what the updater does not recover from. The
properties speak of connections that are not spoiled, so its three causes are what a
maintainer should know:

* the connection began with something left under its identifier: files of the client
  before, or `sendingFile` still set because that client left, or was sent a file after
  it had left;
* the client refused a file (`autoDownloads` switched off, or a file system error):
  `sendingFile` stays set;
* the server had `autoDownloads` off when it met the node or the request: the client
  gets Sorry, or nothing, and waits (`noTransfers` is never read).

`cut` names the clients that had a download broken off or mixed with another's. Such a
client may hold `config.cfg` and nothing else, and on its next connection `hasLevel` is
true. (The consistency check may then still turn it away; it is not part of this
module.)

### HttpRequest

A response is a sequence of pieces of text, among them "200 OK", the name and value of a
`Content-Length`, CR and LF; the socket delivers it in chunks of every possible size,
may fail, block or end at any call. A head is what HTTP says it is (`HeadOfLines`):
lines that are not empty, each ended by CR and LF, which are nowhere else, a length that
is a number; a body may be anything. `Loop(chunk)[n]` is the state of the loop of
`parseHeaders` after n characters, each taken by `ParseChar`, with the pointers `b` and
`oldb` as positions. The code handles every cut but one: between a CR and its LF. `splitAtCR` is the history variable for it. After such a
cut the line before the CR is put back into `header` (because `oldb` is moved by LF
only), so that

* the CR of the empty line makes a good response fail (`http.cpp:148`), which the run
  `http_wellformed` shows;
* a repeated `Content-Length` line is cast with its CR, and `lexical_cast` throws; only
  `main` catches it;
* a repeated line runs on into the next one, so that the end of the header may be missed
  and the body lost, with success.

### Weapon

`weapon[m]` is the record of machine `m`'s copy, `rope[m]` its `NinjaRope::active`.
`Tick` is `BaseWorm::think` with `Weapon::think`; `Fire`, `HoldFire`, `Rope` and
`changeWeaponTo` are the owner's keys; `respawn`, `setWeapons` and `Join` the server's
doings; `ReceiveAtClient`, `ReceiveAtServer` and `ReceivePlayer` take one event. There
are two channels to each machine because the keys travel by the player's node and
everything else by the worm's. Scripts are reduced to the number of rounds a shot uses
(`ShotUse`). `late` is a history variable: a client that joins during a reload is sent
fresh weapons by `sendSyncMessage`, whatever the server's copy is doing.

The worm has `MaxWeapons` slots, of which `Slot` has the weapon that is followed. `held`
are the slots that are not empty, `currentWeapon` is the one in hand, which may be empty.
A player chooses its weapons by a selection (`SELECT_WEAPONS`, or a script on the
server), and `setWeapons` takes it: it clears all slots and fills the first ones, so that
a shorter selection leaves slots empty; nothing else calls `setWeapon` or `clearWeapons`.
`Changed` is `BaseWorm::changeWeaponTo`: the weapon in hand stops, and the new slot is
taken only if it has a weapon there, on that machine (`base_worm.cpp:968`). The
owner looks at its own slots, so the server may refuse what the owner has done, and with
nothing under way the two then differ until the owner changes again. `astray` is the
history of this: "refused" after such a refusal, and "undone" when a SYNC, sent when the
owner joined, comes after the owner's change and takes it back on its machine.
`CopiesAgree` says that there is no other way, and that the slots always agree. The
server passes on a change before it takes it (`net_worm.cpp:395`), also one it refuses;
the proxies refuse it too, because they have heard of every slot that the server had
emptied by then. `OwnerRecovers` makes an exception for "undone" only: the server's copy may
then have been emptied before the server put it away, and it neither answers nor reloads
until it is in hand again.

`tangled` is another: a client that joins is told by SYNC, on the worm's node, that the
rope is out, while its taking in goes by the player's node. If the second comes first
the client's rope stays out until it is next taken in or the worm dies
(`net_worm.cpp:209`). `ReleaseReachesAll` says that this is the only way for a rope that
was taken in to stay out. It says nothing of a rope that the owner last shot: if the
worm dies on the server and lives again before the shot arrives there, the server's rope
is out and the owner's, taken in by `Die`, is not. At CHANGE the owner's copy alone
stops shooting; the others go on until FIRE is let go (`HoldFire`; `player.cpp:199`).

The run `weapon_ammo` shows that ammo leaves the range that `use_ammo` keeps
(`ChangeLog:6`): the SHOOT event runs the script, which drains the ammo, and then takes
one more round.

### Session

The server keeps `name` and a score per player; the score hangs on the player's unique
id, so that two players may share one (`stats`). The library sends a client two nodes
for each player, its worm's and its own, with their events in the order they were sent
(`wire`), and on their own the two numbers by which player and worm find each other
(`items`: `WormID` and `PlayerID`; the second is there only if the player had a node
when it was given the worm, which the server's own players had not, `own`). Every turn
the client takes what has come and files the events with their nodes; then worms look at
theirs, then players. A name is a word and the numbers that `localChangeName` puts
behind it.

`Me` is the client's own player. It asks for names, over `up`, and copies that are made
before SYNC invent a name of their own (`constructed`). A client at rest shows the
server's players, each linked to its worm, by their names (`MirrorAgrees`), although
numbers, names and events come in any order.

Scores need exceptions, each a history variable, and each a defect a maintainer should
know (`ScoresAgree` says that there are no others):

* `missed`: a death comes to a worm that has not been linked to its player: it is not
  counted, although the SYNC may have been sent before it (`net_worm.cpp:162`);
* `unseen`: a death is counted on the server of a worm that the client has not been told
  of, and the player or its killer is sent no SYNC afterwards;
* `apart`: worms look at their events before players, so a death sent *after* a SYNC in
  the same turn is counted first and lost when the SYNC sets the score
  (`base_player.cpp:594`); or the score is shared by two players, of whom a client
  counts each for itself (`server.cpp:80`).

A name chosen between the request for a player and its arrival is lost for the server,
since `clearChangeFlags()` drops it (`base_player.cpp:49`): `early`, and `NameIsCarried`
is about the others. Removing `Me` is not modelled here. A worm that stays behind on a
client, when its player goes before the link, is a matter of `Owners`.

### ObjectGrid and ObjectSet

`ObjectGrid` has the pointers of `object_grid.h`: the S list of each layer, which passes
follow, the D list through the guards of the squares, which `beginArea` follows, and the
two waiting lists. `erase`, `relocateIfNecessary`, `insertImmediately`, `flush` and the
iterators are translated link by link; the passes of `gusanos.cpp:118-162` drive them.
Between any two visits objects may be made, marked and moved. `resize` is the grid of
the next level. What is waiting then is lost: nothing refers to it, and nothing deletes
it (`lost`).

`ObjectSet` is what the main loop needs to know of all this, and `IsObjectSet` that
`ObjectGrid` implements it: `listed` is what the S lists reach, `todo` what the iterator
has yet to reach. That a pass visits each object once is in `ObjectSet` by its form, and
in `ObjectGrid` a matter of pointers. `AreaFindsAll` evaluates the area iterator, as a
function, in every state. The area is given in squares: which square a pixel is in
(`beginArea`, `beginColLayer`) is arithmetic that is not modelled.

### Owners

A turn is: erase pass, think pass, flush, the players think, marked players are deleted,
the network. `deleteThis` marks the player's worm and takes the player's name from the
objects the grid *lists*. Objects a player made in the same turn wait to be flushed
(`MakeByPlayer`; the players think after the flush), so they keep the name, and with it
a pointer to a deleted player: the run `owners_waiting` shows it. `stray` is the history
variable that follows what comes of such objects, since what they make inherits the
owner and what they hurt remembers it (`m_lastHurt`); `OnlyStraysDangle` says that
nothing else dangles. A player's name is not used twice, so that a pointer to a deleted
player can be told apart. Lua is not modelled: a script may mark a player at any time,
which `markPlayer` does in the stages in which packets and the players act.

Off the network and on a server `addPlayer` makes a player with its worm and links them.
On a client (`client`) each comes by itself: `requestWorm` makes a worm without a player
and `requestPlayer` a player without a worm, for the nodes of the server
(`client.cpp:266`); `assignWorm` links them when the number of a node arrives that names
the other (`base_player.cpp:619`, `net_worm.cpp:455`). A player that is removed before
leaves its worm behind, unmarked, until the level goes. `remote` are the players and
worms that were made so: their worms are hurt and brought to life by what the server says
(`die`, `respawn`), their players are marked when their node goes. They outlast the
session (`leave`) if it ends by a time-out and the level stays. `linked` is the history of
the worms that were given to a player: the server gives a worm to one player, for good, and
the numbers of its nodes are not used again within a session, so a client's worm is given
to no second one. With it `WormsAreWhole` can say which worms may be without a player: one
that is marked, and one of a client's that was never linked.

### LevelEffects

`gone[m]` is the dirt that has been taken from machine `m`'s copy. `applyLevelEffect` is
the call an object's script makes; on a client of a session it does nothing. The server
sends an event to the clients that are linked and keeps the effect in
`appliedLevelEffects` only if it took anything away. `EventInit` is the server's tick
that sends the list to the clients linked since the last one, so that effects may come
before a client's node, or between its node and that tick. `ChangeLevel` loads a level
fresh, on and off the network; `ConnectResult` does so on the client. A level is one row
of pixels: the code treats the two axes alike and apart. What becomes of an effect's
position on its way is the constant `ArrivesAt`; the runs take it from `Encoding`. An
effect outside the level has a code of another position, but its mask may reach into the
level, and then the copies do differ (`game.cpp:668`). `Exact` is the condition that
this has not happened, and `CopiesAgree`, `NeverAhead` and `HolesArrive` depend on it.

### Encoding and Stream

`Encoding` gives each encoder as a map from a stream to a longer one and each decoder as
a map from a stream to a value and the rest. Coordinates are fixed-point numbers with
`fine` steps to a code, so that rounding shows. `Stream` writes any fields in any order
and reads them in the same order. What it shows beside its promises:

* A speed to the left is rounded towards zero, by up to one and a half codes
  (`ValuesAreNear`), and again on each machine that passes it on.
* A coordinate within half a code of the far edge of an area whose width is a power of
  two arrives at the other edge (`encoding.h:126,144`): its code has one bit more than
  are sent. `ValuesAreNear` speaks of the positions before it.
* The code of a speed of 1 - 2^(w-1) or less would be 0, which the encoder refuses with
  an exception (`IsEncodable`). At 1024 codes to a pixel no object is as fast as that.

## 3. Runs

| Run | Shows | States |
|---|---|---|
| `network` | types, `DisconnectedIsClean`, `ConnCountIsExact`, `RetryWhileClosing`, `RolesAgree`, `RegistrationEnds`, refinement of `NetLifecycle`; `DisconnectingEnds`, `QueuesAreServed`, `QuitEnds` | 241 408 |
| `updater` | `OneFileAtATime`, `DoneMeansDelivered`, `PlayingIsWhole`; `DownloadEnds` | 763 440 |
| `http` | `SuccessIsMeant`, `DataIsFromBody`, `WholeResponseIsDelivered`; `RequestEnds` | 11 154 |
| `http_wellformed` | violated: `WellFormedIsAccepted` | |
| `weapon` | `ReloadingIsEmpty`, `CopiesAgree`, `ReleaseReachesAll`; `OwnerRecovers` | 529 343 |
| `weapon_ammo` | violated: `UseAmmoStopsAtZero` | |
| `session` | `MirrorAgrees`, `ScoresAgree`, `NameIsCarried`; `PlayersAreShown` | 1 026 876 |
| `objects` | `AreaFindsAll`, `CountIsLength`, refinement of `ObjectSet` | 345 862 |
| `owners` | `OnlyStraysDangle`, `WormsAreWhole`; `MarkedGo` | 261 684 |
| `owners_waiting` | violated: `RefsAreLive` | |
| `level` | types, `ListMakesLevel`, `NeverAhead`, `CopiesAgree`; `HolesArrive` | 81 351 |
| `stream_fields` | `CodesArrive`, `ReadToTheEnd`, `ValuesAreNear` | 554 653 |

The three violated properties are statements of the repository that the code does not
keep; `PROJECT.json` quotes them under `findings`:

* `WellFormedIsAccepted`: the guard "if the HTTP header is malformed" (`http.cpp:148`);
* `UseAmmoStopsAtZero`: "use_ammo must be used to drain ammo" (`ChangeLog:6`);
* `RefsAreLive`: `removeRefsToPlayer` "removes all the connections"
  (`base_object.h:49`).

### Bounds, and why they are enough

* `Network`: two connections (one that goes while another comes), delays of 1 and 2
  ticks in the order of the real ones (a reconnect in 50 ticks, a change of level in
  150, a session's end in 1000), three commands of the user (enough for quit, connect
  and map in any order while a session closes), two HTTP requests in flight (an "add"
  and the "remove" or "update" behind it), one download, one queued Connect on top of
  the user's. The bounds hold back only new work: a guard on `MaxRequests` stops nothing
  that could end. The theorems hold for all values.
* `Updater`: one identifier and two clients that hand it to each other, two levels
  between which the server changes, two files of which one is `config.cfg`, one request
  (so that no client reconnects with a RequestLevel left from another session,
  `updater.cpp:356`; `SpecDoneMeansDelivered` covers any number),
  and `MaxLeft` entries left over at most (a whole level has two). One identifier
  suffices because the entries of the table do not touch; two identifiers with one level
  were checked too.
* `HttpRequest`: headers of one to three lines with the status, a length in the middle
  or at the end, or neither; bodies that look like lines, like an empty line and like a
  status; the request goes out in at most two pieces; the time-out is one second. Every cut into
  chunks is covered since a chunk may have any length.
* `Weapon`: two slots, and the weapon in the second, so that a selection of one weapon
  takes it away and one of none empties both; two rounds, which one shot uses up (so that
  a SHOOT takes a proxy's below zero), a reload of one tick, one proxy that may join late,
  one event under way on each channel when one more is sent (a tick and a selection may
  add several). `sync_shot` and `sync_reload` are both set, the case with the most events.
  The theorems hold for any number of slots, proxies, rounds and events.
* `Session`: `Me` and one other player, so that a name may be taken, a death has a
  killer and a player's score may be another's; two words; one death or change of a name
  beside the joins, and two messages on the wire when the server adds to it. The server
  acts while the client is at "network": the rest of a client's turn looks only at what
  has come. Players may leave while they are being announced, named or killed.
* `ObjectGrid`: three objects (an erased one has a neighbour on each side), two layers
  (an iterator that runs off one goes on in the next), two squares in a row; particles
  in layer 1, with and without a square, and worms in layer 2. Objects are
  interchangeable. With one row, the area iterator's step to the next row is not taken:
  `SpecAreaFindsAll` alone covers it.
* `Owners`: two players, two worms and one more object: enough for a worm that stays
  without a player beside one that has one, and for an object that outlives the player
  it names and hurts the worm of the other; a session may begin at any change of level and
  end at any time. One square: where a worm is does not matter here.
* `LevelEffects`: two clients; two pixels of dirt, so that lists have up to two entries;
  an effect of one pixel and one of two; a position inside the level and one beyond the
  border, which has no code of its own. No bound holds back an action: a level runs out
  of dirt. The safety invariants were also checked with every position from -2 to 1 (260
  555 states up to the symmetry of the clients), and with one client, three pixels of
  dirt and five positions. The theorems hold for any number of clients and any level.
* `Stream_fields`: messages of two fields, of every kind in every order; counts of 1, 2,
  5 and 8 (no bits, a power of two and its neighbours); ints of six bits, so that the
  speeds reach the limits of an int; sixteen codes for positions, four steps to a code,
  and positions on both sides of the area. A code depends on its own value only, and the
  second field tells whether the first was left where it ends.

HttpRequest and Stream end, and a session in which all has been said is at rest, so
their runs do not check for deadlock; all others do. `Network` has an action (`Ended`)
for the program that has left `main`.

### Fairness

* `Network`: weak fairness of `Program`, the main loop, which never blocks. Strong
  fairness of the end of the oldest HTTP request, because a request ends by its time-out
  at the latest (`RequestEnds` of `HttpRequest`), although the loop comes by at
  intervals; and of `Leave`, the exit of the loops when `quit` is seen. Nothing is
  assumed of peers or of the user.
* `Updater`: weak fairness of `think` on every machine and of the library's deliveries.
  Nobody has to connect, stay, leave, host or stop.
* `HttpRequest`: weak fairness of the clock and of the call that finds it would block.
  Nothing is asked of the server, which may be silent for ever.
* `Weapon`: the server ticks and takes its events, and what is sent to a worm arrives.
  Nothing is asked of clients' ticks, of keys or of the player's events, and nothing
  forces a shot or a death, since the fair tick is the one without either. Fairness is
  strong for the server because the bound on events under way may stop it again and
  again; the code has no such bound.
* `Session`: weak fairness of `Progress`: packets arrive and both programs go on. Nobody
  has to join, die, leave or change a name.
* `Owners`: weak fairness of `Loop`, the main loop. `ObjectGrid` has no liveness of its
  own: the passes end because `todo` shrinks, which `MarkedGo` of `Owners` uses.
* `LevelEffects`: weak fairness of the server's tick and of each client's. Nobody has to
  apply an effect, join or stay.

## 4. Proofs

`NetworkProofs` proves, for every set of connections, all delays and all bounds
(`NetworkAssumption`: they are natural numbers, and `MaxRequests` is positive):

* `SpecTypeOK`, `SpecDisconnectedIsClean`, `SpecConnCountIsExact`,
  `SpecRetryWhileClosing`, `SpecRolesAgree`, `SpecRegistrationEnds`: the invariants of
  `network`;
* `SpecKeepsLifecycle`: `Network` implements `NetLifecycle`.

All rest on `SpecIInv`. The properties are not inductive by themselves. `IInv` adds:

* `PassesAreBounded`: a pass over a queue stays inside it, and the phase `closing` is
  reached only while disconnecting. Without it removing the current message might leave
  the sequence.
* `ControlMatchesState`: a control exists exactly outside Disconnected; only a client
  dials; it has no connection before the answer. This is what makes a callback's effect
  on the flags agree with the role.
* `RegistrationIsTracked`: where a belief to be registered can still come from. The end
  of a session waits for all requests, so that none is in flight in Disconnected; while
  disconnecting, `serverAdded` means that a "remove" is in flight or `lateAdd`.
* `IsFiniteSet(open)`, for the cardinality in `ConnCountIsExact`.

`InitIInv` and `NextIInv` are the two obligations; `NextIInv` has one step per action,
and actions that take more have a lemma `...Keeps`. `DisconnectKeeps` and `JoinedKeeps`
are shared by the actions that call `disconnect()` or accept a connection. The
refinement has one step per action in `NextLifecycle`.

`LevelEffectsProofs` proves, for all levels, effects, codes of positions and any number
of clients (`LevelAssumption` gives no more than types, and that the server is no
client):

* `SpecTypeOK`, `SpecListMakesLevel`, `SpecNeverAhead`, `SpecCopiesAgree`: the
  invariants of `level`.

`CopiesAgree` speaks of clients that wait for nothing. The inductive invariant adds what
holds of the others: `NothingIsLost`, that the events under way to a client that has
been sent the list take away everything it lacks; that a client's level is fresh and
nothing is under way to it until its node is linked (`LoadedIsFresh`), which starts the
induction for a client; and that no session goes on without a host (`OffWithoutHost`),
so that the server may change its level. Whoever is still to be sent the list needs
`ListMakesLevel`. The lemmas `TakenByAppend`, `TakenByConcat` and `TakenByTail` say what
a sequence of effects takes away when it grows, is joined to another, and is read.

`OwnersProofs` proves, for any number of players, objects and squares
(`OwnersAssumption`: NULL is no player or object, no player is an object, worms are
objects, and no square is the absence of one):

* `SpecWormsAreWhole`: the worm a player refers to is in the grid, unmarked, its own and
  no other player's, so that the erase pass never deletes a worm under its player. Only a
  player of a client has none, and a worm without a player is marked, or a client's that
  was never linked;
* `SpecOnlyStraysDangle`: what keeps the name of a deleted player is a stray;
* `SpecObjectSet`: `Owners` implements `ObjectSet`: each of its steps is one the grid
  promises, or changes nothing of the grid.

Both invariants lack something to be inductive. `NamesAreKnown`: nothing names a player
that has yet to come, so a new one finds no object of its own. `OthersAreUnhurt`: only
what is in the grid has been hurt, so that what waits dangles by its owner alone, and
`stray` need not look at more. `WaitingIsNoWorm`: what is flushed is no worm, so a flush
brings no worm without a player. `ClearedWithoutPlayers`: when `Game::reset` clears the
grid the players have gone, so that no worm goes under its player there either.
`ThinkInTime`: no player is to think outside its stage, so that none acts after it was
deleted. `GivenOnce`: a worm is marked only with the player it was given to, so a worm
that is linked for the first time is not on its way out. `NextIInv` has one lemma for each
kind of step; `MadeIsKnown` is what all that make an object share.

`UpdaterProofs` proves, for any identifiers, clients, levels and requests and any finite
set of files with `config.cfg` in it (`UpdaterAssumption`):

* `SpecDoneMeansDelivered`, `SpecPlayingIsWhole`: the invariants of `updater`;
* `SpecOneFileAtATime`: its action property.

The invariant follows a file from the queue through the transfer to the disk, and the
word that a request is done from the queue to the client. `DoneIsBehind`: a request's own
entry stands behind each file of its level that is not delivered or in transfer, so that
whatever order files and events arrive in, the word comes last. `AllOrNone`: as soon as
one file of a level is on a disk, or is to come there, each of its files is or will be;
that is why one look at `config.cfg` may tell whether the level is there. `UnderWay` and
`QueueIsServed` say for whom files wait and travel, and `Connections` that nobody shares
an identifier, without which the files of one client would be another's. That a listing
of a directory names every file once is `ListingNamesAll`.

`WeaponProofs` proves, for any number of proxies, rounds and ticks of a reload, and
whichever of `sync_shot` and `sync_reload` is set (`WeaponAssumption`):

* `SpecReloadingIsEmpty`, `SpecCopiesAgree`, `SpecReleaseReachesAll`: the invariants of
  `weapon`.

The properties speak of what is so when nothing is on its way; the invariant says the
same of the future. Each event sets a part of a copy or leaves it (`ActiveEffect`,
`FocusEffect`, `HeldEffect`, `ReloadEffect`), and the events on their way `Settles` on what
the last of them says: `ActiveAgrees`, `HeldAgrees` and `ReloadAgrees` say that this is what
the server has, for each slot by itself, and `FocusAgrees` says it of the weapon a proxy has
in hand. `OwnerAhead` is the other direction: what the owner tells the server settles on the
owner's slot, unless the server refused its last word or a SYNC undid it. That a machine
decides as the server did when it takes an event is `FindsHeld`: by then the slot it speaks
of will be filled or empty there as it was on the server when it was sent. The event carries
for this, as history, what its sender did (`taken`). `AnswersHeld` says that a server that
owes the owner an answer still has the weapon. `CorrectionFindsFull` is why no correction
of the ammo meets a copy that reloads: the reload ends in front of it. `ActionsEnd`, `ShootingEnds` and
`RopeEnds` say of everything that has begun, or will, that the key is still down or the
release is on its way behind it, at that machine or at the server, which passes it on.
`Queues` says which machine is sent what.

`SessionProofs` proves, for any finite set of players and any words (`SessionAssumption`;
the numbers of nodes have finitely many bits, so there are finitely many players):

* `SpecMirrorAgrees`, `SpecNameIsCarried`, `SpecScoresAgree`: the invariants of `session`.

The invariant follows each player's events, on the wire and in the node. `CreateFirst`:
the first one makes the player, behind its worm's. `RemovedLast`: none comes behind the
one that removes it. `Shown`: a player of the server that has been announced is there or
will be, and will stay; one that has gone will go. `Links`: a player never comes without
its worm, so the number of its worm always links it. `Named`: the last event that names a
player says what the server calls it, once it has been sent its SYNC (`Says`).
`WishComes`: what the client wants to be called is what its last petition asks for, or
will be. That `localChangeName` finds a free number at all is a pigeonhole argument
(`AFreeNumber`), and that there is a least one, which the code takes, is well-foundedness
of the natural numbers (`LeastElement`).

The scores have an invariant of their own, `SInv`, on top of that. A score the client
shows is behind by the deaths that wait in the nodes of worms and those on the wire, but
a SYNC, which says a score outright, makes what came before it irrelevant. `Leads` says
what will come of it: the last SYNC on the wire and the deaths behind it make the score
the server has (`Makes`); without one, the last SYNC in the player's node and all deaths
on the wire do; without that, what is shown and everything that waits. A death that
waits in the node of a worm with such a SYNC waiting for its player would be counted
first and then lost: these are the players in `apart`, and the proof shows that there is
no other way, as all deaths that wait are looked at before any SYNC (`ClientTypes`, the
turn). A player whose SYNC has gone by is there to count for (`Scored`), because its node
was made first. How many deaths there are is the cardinality of the sets `After` and
`Waiting` of the places where they stand, which taking the first message shifts by one
(`AfterTail`, `WaitingTail`: by a bijection).

`HttpRequestProofs` proves, for any heads made of lines (`HeadsAreLines`; the heads and
the bodies are sequences of pieces of text, `HttpAssumption`), any bodies, any number of
lines and any way of cutting them into chunks:

* `SpecSuccessIsMeant`, `SpecDataIsFromBody`, `SpecWholeResponseIsDelivered`: the
  invariants of `http`.

They say what the parser's own state means in places of the response, which it does not
know. `StatusRead`: what is in `header` has been read, and what has been read says
whether `success` is meant. `HeaderBegins`: with an empty `header` the next chunk begins
a line, so that a CR in front of it ends an empty one; with that, the empty line is never
found in the head, and the data begins behind it (`DataAfter`). Both hold for every cut.
`LineKept` holds as long as no cut was between CR and LF: `header` is the line that has
begun, and `success` is what the lines before it say. That a chunk takes the invariant
to the next is an induction over its characters: `Parsed` and `Precise` are what holds
after k of them, `ParsedNext` and `PreciseNext` the steps, each with one case per branch
of `ParseChar`. The induction itself is over a number, by the least one for which it
fails (`UpTo`), and `LoopExists` shows that the recursive function is what its equations
say. `TypeOK` is a part of `DataIsFromBody`. That a request ends (`RequestEnds`) is left
to TLC.

`ObjectGridProofs` proves, for any finite set of objects, any number of layers and any
size of the grid (`GridAssumption`; the objects in memory are finitely many):

* `SpecCountIsLength`, `SpecAreaFindsAll`: the invariants of `objects`;
* `SpecIsObjectSet`: `ObjectGrid` implements `ObjectSet`;
* `SpecTypeOK`: no link leads anywhere but to an object, a guard or NULL.

What a list holds is what a walk along its pointers finds, and such a walk says nothing
of a link in its middle. The inductive invariant, `GridInv`, is about single links
instead. There are a set of objects, the list each is on (`own`) and how many are left
from it on (`rank`), such that the head of a list has the list's length as its rank, the
link of an object leads to the one of the next lower rank, and the last link to the end
(`Threaded`); no two objects of a list have the same rank. `Chained` says this of the S
lists and of the two kinds of waiting lists at once, which share `nextS`; `Meshed` of
the D lists, where the end is the guard of the next square and `prevD` leads back.
`Squares` says which objects are in a square, and `IterFits` that the iterator stands on
a listed object and behind the one that links it, also after an erasure in front of it.
A step pushes an object (`Pushed`), takes one out (`Dropped`) or moves one (`Moved`),
and there is one lemma for what each does to heads, links, ranks and lengths, which all
lists share.

That the sets of `ObjectSet` are what walks along the pointers find is an induction over
ranks (`NatSetInduction`, which rests on the least counterexample, `SmallestNat`), and so
is `AreaFindsAll`. There the invariant is of the walk: what it has seen is each object of
the area that is not ahead of it, once. Ahead is what is in a later layer, in a later
square of this one, or among the last n of this square (`Ahead`); later squares are those
of larger numbers, because the walk goes through the rows in order. Layers with a count of
0 are skipped, which loses nothing, because the counts are right (`Skipped`). `Steps` shows
that the bound on the number of steps in `areaVisits` is never met, and `WalkExists` that
this recursive function is what its equations say.

Only model-checked: everything about `Encoding` and `Stream`, and all liveness. What a
decoder returns for every input is an induction over numbers and bits, and `Encoding` is
RECURSIVE there, which takes the SMT backend from every module that reaches it. Liveness
under fairness is outside the prover's reach.

## 5. What is not modelled, and why

* Physics (of worms, particles and the rope), rendering, sound and file formats: values
  without a protocol.
* The text of names, addresses, reasons and scripts: the models keep only what decides a
  branch.
* The bodies of Lua callbacks. `setLuaState` calls Lua before it sets the state
  (`network.cpp:491,565`), so a script could re-enter the state machine; an extension of
  `Network` is planned. In `Owners` what scripts do to players and objects is done where
  packets and players act.
* The console, its bindings and queue of lines (a release that comes while the console
  is open is lost, `gconsole.cpp:562`), input devices, the GUI toolkit and the
  references of Lua: single-threaded parts without other machines; planned, after what
  is shared.
* Bots: what they choose; a bot keeps its target between two looks for one
  (`player_ai.cpp:264`), and the worm may be erased meanwhile.
* Colours and teams of players, which go the way of names without being made distinct.
* The state of the position replicator (`posspd_replicator.cpp:103`): the library
  decides which updates it refuses.
* The library: a connection is open or not; half-open ones are seen as closed by both
  ends at once.
* A second server. So the exception that `queueLevel` throws for a level it does not
  have (`updater.cpp:132`) does not occur.

## 6. Plan

In this order, the most important first:

1. *(done)* `NetLifecycle`, `Network`, their runs and `NetworkProofs`.
2. *(done)* `HttpRequest`, `Weapon`, `Updater`, `Encoding`, `Stream`, `LevelEffects` and
   their runs, and `LevelEffectsProofs`.
3. *(done)* `ObjectGrid` and `ObjectSet`, `Owners` and `OwnersProofs`, `Session`, and
   the ninja rope in `Weapon`; the proofs about `Updater`, `Weapon`, `Session`,
   `HttpRequest` and `ObjectGrid`.
4. `Console` (aliases, bindings, queue of lines), `Wnd` (focus and capture under
   destruction), `LuaRefs`, timer events, the replicator's state.
5. `Network` with Lua callbacks that re-enter; a second server for `Updater`.

Theorems to come: `CodesArrive` and `ReadToTheEnd` of `Stream`, once `Encoding` is written
with recursive functions. No module that is proved about declares a RECURSIVE operator.
