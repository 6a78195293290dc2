------------------------------- MODULE Network -------------------------------
(***************************************************************************)
(* The network subsystem of the game: Goop/network.cpp with the callbacks  *)
(* of Goop/server.cpp and Goop/client.cpp that change its state, the       *)
(* ChangeLevel queue of Goop/game.cpp, the reconnect request of            *)
(* Goop/updater.cpp, and the part of the main loop in Goop/gusanos.cpp     *)
(* that calls them.                                                        *)
(*                                                                         *)
(* The program is one thread.  A tick of its main loop visits the phases   *)
(* below in this order, and every action is one call made in its phase:    *)
(*                                                                         *)
(*   game     Game::think: the queued ChangeLevel messages                 *)
(*   updater  Updater::think: "your download is complete"                  *)
(*   input    ZCom_processInput: callbacks of Server or Client             *)
(*   http     processHttpRequests                                          *)
(*   closing  case StateDisconnecting of the switch in Network::update     *)
(*   connect  its other cases: the queued Connect messages                 *)
(*   timer    the reconnect timer                                          *)
(*   console  Console::think: commands of the user                         *)
(*   loop     the tests of the two nested while loops of main              *)
(*                                                                         *)
(* What is nondeterministic is outside the program: the peers, the master  *)
(* server, the resolver, the user, and how far the clock is ahead.         *)
(***************************************************************************)
EXTENDS Naturals, Sequences, FiniteSets, SequencesExt

CONSTANTS
  Conn,              \* the connections peers can open
  StateTimeOut,      \* ticks a disconnection waits for its peers (1000)
  UpdatePeriod,      \* ticks between two registrations (6000*3)
  RetryDelay,        \* reconnect(50): refused with Retry, or downloaded
  MapChangeDelay,    \* reconnect(150): the server changes its map
  MaxRequests,       \* bound: HTTP requests in flight when one must finish
  MaxDownloads,      \* bound: level requests not yet answered
  MaxConnects,       \* bound: Connects queued when a server has us reconnect
  Commands           \* bound: commands the user gives in a behaviour

ASSUME NetworkAssumption ==
  /\ StateTimeOut \in Nat
  /\ UpdatePeriod \in Nat
  /\ RetryDelay \in Nat /\ MapChangeDelay \in Nat
  /\ MaxRequests \in Nat \ {0} /\ MaxDownloads \in Nat
  /\ MaxConnects \in Nat /\ Commands \in Nat

VARIABLES
  phase,             \* where the main loop is; "exited" and "crashed" end it
  todo,              \* what the current pass over a queue has yet to see
  state,             \* Idle, Disconnecting, Disconnected
  stateTimeOut,
  control,           \* m_control: none, server or client
  dialing,           \* ZCom_Connect was called, its result not yet delivered
  open,              \* the connections the library has open
  m_host, m_client,
  m_serverID,        \* is m_serverID a valid id
  connCount,
  clientRetry,
  nConnect,          \* Connect messages queued in network.cpp
  nLevel,            \* ChangeLevel messages queued in game.cpp
  hostOption,        \* game.options.host
  gameNode,          \* the game's network node: none, authority or proxy
  updaterNode,       \* the updater's
  zoidRequest,       \* zoid level the client asked for: 0 none, 1, 2
  downloads,         \* updater.requestLevel calls not yet answered
  requests,          \* HTTP requests in flight
  serverAdded,       \* we believe the master server lists us
  updateTimer,
  reconnectTimer,
  quit,
  budget,            \* commands the user still gives
  lateAdd,           \* history: of the session being closed or just closed,
                     \* an "add" was in flight at, or sent after, disconnect()
  revived            \* history: the network was taken up again after quit

session  == <<control, dialing, open, m_host, m_client, m_serverID, connCount,
              gameNode, updaterNode, zoidRequest>>
status   == <<state, stateTimeOut, clientRetry, lateAdd, revived>>
queues   == <<nConnect, nLevel, todo>>
master   == <<requests, serverAdded, updateTimer>>
rest     == <<hostOption, downloads, reconnectTimer, quit, budget>>
vars     == <<phase, session, status, queues, master, rest>>

Halted == phase \in {"exited", "crashed"}

-----------------------------------------------------------------------------
(***************************************************************************)
(* HTTP requests.  Host::query returns a null pointer when the master      *)
(* server's name does not resolve or the socket cannot connect, and the    *)
(* callers in network.cpp queue it all the same; fetch_server_list does    *)
(* not.                                                                    *)
(***************************************************************************)
RequestKinds == {"add", "update", "remove", "list"}
Request == [kind : RequestKinds, null : BOOLEAN]

\* A request queued by network.cpp, whatever Host::post returned.
Posted(kind) == {[kind |-> kind, null |-> n] : n \in BOOLEAN}

HasKind(s, kind) == \E i \in DOMAIN s : s[i].kind = kind

InFlight(kind) == HasKind(requests, kind)

\* Mutant: every call turns new clients away, not the one that disconnects.
DisconnectRetries ==
  /\ clientRetry' = TRUE
  /\ IF state = "Idle" /\ control # "none"
       THEN /\ state' = "Disconnecting"
            /\ stateTimeOut' = StateTimeOut
            /\ lateAdd' = InFlight("add")
            /\ UNCHANGED revived
       ELSE UNCHANGED <<state, stateTimeOut, lateAdd, revived>>
  /\ IF serverAdded
       THEN \E r \in Posted("remove") : requests' = Append(requests, r)
       ELSE UNCHANGED requests
  /\ UNCHANGED <<serverAdded, updateTimer>>

\* disconnect(): from Idle start the closing sequence; and whatever the
\* state, ask the master server to forget us if it is believed to list us.
Disconnect ==
  /\ IF state = "Idle" /\ control # "none"
       THEN /\ state' = "Disconnecting"
            /\ stateTimeOut' = StateTimeOut
            /\ clientRetry' = TRUE
            /\ lateAdd' = InFlight("add")
            /\ UNCHANGED revived
       ELSE UNCHANGED status
  /\ IF serverAdded
       THEN \E r \in Posted("remove") : requests' = Append(requests, r)
       ELSE UNCHANGED requests
  /\ UNCHANGED <<serverAdded, updateTimer>>

\* host(): a Server, both authority nodes and the registration.  The list
\* may be switched off (NET_REGISTER 0).
Host ==
  /\ control' = "server"
  /\ m_host' = TRUE
  /\ gameNode' = "authority"
  /\ updaterNode' = "authority"
  /\ \/ \E r \in Posted("add") : requests' = Append(requests, r)
     \/ UNCHANGED requests
  /\ state' = "Idle"
  /\ revived' = (revived \/ quit)
  /\ UNCHANGED <<dialing, open, m_client, m_serverID, connCount, zoidRequest,
                 stateTimeOut, clientRetry, lateAdd, serverAdded, updateTimer>>

\* reconnect(delay), always on behalf of a server.
Reconnect(delay) == nConnect < MaxConnects /\ reconnectTimer' = delay

-----------------------------------------------------------------------------
(***************************************************************************)
(* Game::think: each queued ChangeLevel is looked at once per tick.        *)
(***************************************************************************)
Phase(p, q) == phase = p /\ phase' = q

\* Mutant: wait for Disconnected, but leave disconnecting to others.
GameDelayPassive ==
  /\ Phase("game", "game")
  /\ todo > 0
  /\ state # "Disconnected"
  /\ todo' = todo - 1
  /\ UNCHANGED <<session, status, nConnect, nLevel, master, rest>>

\* The network is up: bring it down, and keep the message for a later tick.
GameDelay ==
  /\ Phase("game", "game")
  /\ todo > 0
  /\ state # "Disconnected"
  /\ IF state # "Disconnecting"
       THEN Disconnect
       ELSE UNCHANGED <<status, master>>
  /\ todo' = todo - 1
  /\ UNCHANGED <<session, nConnect, nLevel, rest>>

\* The network is down: the level is not found, does not load, or is played
\* locally.
GameLocal ==
  /\ Phase("game", "game")
  /\ todo > 0
  /\ state = "Disconnected"
  /\ todo' = todo - 1
  /\ nLevel' = nLevel - 1
  /\ UNCHANGED <<session, status, master, nConnect, rest>>

\* The network is down and the level is to be hosted.
GameHost ==
  /\ Phase("game", "game")
  /\ todo > 0
  /\ state = "Disconnected"
  /\ hostOption
  /\ ~m_client
  /\ Host
  /\ todo' = todo - 1
  /\ nLevel' = nLevel - 1
  /\ UNCHANGED <<nConnect, rest>>

GameEnd ==
  /\ Phase("game", "updater")
  /\ todo = 0
  /\ UNCHANGED <<session, status, queues, master, rest>>

\* Updater::think: the server has sent the level we asked for.
UpdaterDone ==
  /\ Phase("updater", "input")
  /\ updaterNode = "proxy"
  /\ downloads > 0
  /\ downloads' = downloads - 1
  /\ Reconnect(RetryDelay)
  /\ UNCHANGED <<session, status, queues, master, hostOption, quit, budget>>

UpdaterEnd ==
  /\ Phase("updater", "input")
  /\ UNCHANGED <<session, status, queues, master, rest>>

-----------------------------------------------------------------------------
(***************************************************************************)
(* Callbacks of the library, made while a control exists.                  *)
(***************************************************************************)
Callback(c) == Phase("input", "input") /\ control = c

\* A connection the library opens, or closes, is counted.
AddConn ==
  /\ \E c \in Conn \ open : open' = open \cup {c}
  /\ connCount' = connCount + 1

\* Mutant: some way of closing a connection is not counted.
DropConnUncounted ==
  /\ \E c \in open : open' = open \ {c}
  /\ UNCHANGED connCount

DropConn ==
  /\ \E c \in open : open' = open \ {c}
  /\ connCount' = connCount - 1

\* A peer that was accepted is connected.  The request was refused with
\* Retry if we were closing when it came, but it may have come before.
ServerSpawned ==
  /\ Callback("server")
  /\ AddConn
  /\ UNCHANGED <<control, dialing, m_host, m_client, m_serverID, gameNode,
                 updaterNode, zoidRequest, status, queues, master, rest>>

ServerClosed ==
  /\ Callback("server")
  /\ DropConn
  /\ UNCHANGED <<control, dialing, m_host, m_client, m_serverID, gameNode,
                 updaterNode, zoidRequest, status, queues, master, rest>>

\* The server refuses us: for good, or because it is itself closing (Retry).
ClientRefused ==
  /\ Callback("client")
  /\ dialing
  /\ dialing' = FALSE
  /\ UNCHANGED reconnectTimer \/ Reconnect(RetryDelay)
  /\ UNCHANGED <<control, open, m_host, m_client, m_serverID, connCount,
                 gameNode, updaterNode, zoidRequest, status, queues, master,
                 hostOption, downloads, quit, budget>>

\* What every accepted connection starts with.
Joined ==
  /\ Callback("client")
  /\ dialing
  /\ dialing' = FALSE
  /\ m_client' = TRUE
  /\ m_serverID' = TRUE
  /\ AddConn
  /\ UNCHANGED <<control, m_host, gameNode, updaterNode>>

\* We have the mod and the level, or lack the mod and stay as we are.
ClientAccepted ==
  /\ Joined
  /\ zoidRequest' \in {1, zoidRequest}
  /\ UNCHANGED <<status, queues, master, rest>>

\* We lack the level and ask for the file transfer mode.
ClientDownloads ==
  /\ Joined
  /\ downloads < MaxDownloads
  /\ zoidRequest' = 2
  /\ downloads' = downloads + 1
  /\ UNCHANGED <<status, queues, master, hostOption, reconnectTimer, quit,
                 budget>>

\* The mod or the level does not load: disconnect from inside the callback.
ClientFailed ==
  /\ Joined
  /\ Disconnect
  /\ UNCHANGED <<zoidRequest, queues, rest>>

\* The connection to the server closes; if it changes its map, come back.
ClientClosed ==
  /\ Callback("client")
  /\ DropConn
  /\ UNCHANGED reconnectTimer \/ Reconnect(MapChangeDelay)
  /\ UNCHANGED <<control, dialing, m_host, m_client, m_serverID, gameNode,
                 updaterNode, zoidRequest, status, queues, master,
                 hostOption, downloads, quit, budget>>

\* The zoid level asked for is entered: 1 plays, 2 transfers files.
ClientZoidResult ==
  /\ Callback("client")
  /\ zoidRequest # 0
  /\ open # {}
  /\ gameNode' = IF zoidRequest = 1 THEN "proxy" ELSE "none"
  /\ updaterNode' = IF zoidRequest = 2 THEN "proxy" ELSE "none"
  /\ zoidRequest' = 0
  /\ UNCHANGED <<control, dialing, open, m_host, m_client, m_serverID,
                 connCount, status, queues, master, rest>>

InputEnd ==
  /\ Phase("input", "http")
  /\ todo' = Len(requests)
  /\ UNCHANGED <<session, status, nConnect, nLevel, master, rest>>

-----------------------------------------------------------------------------
(***************************************************************************)
(* processHttpRequests: every request in the list thinks once, in order;   *)
(* one that is done calls its handler and is erased.                       *)
(***************************************************************************)
Current == Len(requests) - todo + 1

HttpKeep ==
  /\ Phase("http", "http")
  /\ todo > 0
  /\ ~requests[Current].null
  /\ Len(requests) < MaxRequests
  /\ todo' = todo - 1
  /\ UNCHANGED <<session, status, nConnect, nLevel, master, rest>>

\* onServerAdded, onServerRemoved, onServerUpdate, serverListCallb.
HttpDone ==
  /\ Phase("http", "http")
  /\ todo > 0
  /\ ~requests[Current].null
  /\ \E success \in BOOLEAN :
       serverAdded' = CASE requests[Current].kind = "add"    -> success
                        [] requests[Current].kind = "remove" -> FALSE
                        [] requests[Current].kind = "update" ->
                             serverAdded /\ success
                        [] requests[Current].kind = "list"   -> serverAdded
  /\ requests' = RemoveAt(requests, Current)
  /\ todo' = todo - 1
  /\ UNCHANGED <<session, status, nConnect, nLevel, updateTimer, rest>>

\* A null request counts as done, and its handler dereferences it.
HttpNull ==
  /\ Phase("http", "crashed")
  /\ todo > 0
  /\ requests[Current].null
  /\ UNCHANGED <<session, status, queues, master, rest>>

\* Mutant: StateIdle shares the case of StateDisconnecting.
HttpEndIdleCloses ==
  /\ todo = 0
  /\ IF state # "Disconnected"
       THEN Phase("http", "closing") /\ UNCHANGED todo
       ELSE Phase("http", "connect") /\ todo' = nConnect
  /\ UNCHANGED <<session, status, nConnect, nLevel, master, rest>>

\* After the list, Network::update switches on the state.
HttpEnd ==
  /\ todo = 0
  /\ IF state = "Disconnecting"
       THEN Phase("http", "closing") /\ UNCHANGED todo
       ELSE Phase("http", "connect") /\ todo' = nConnect
  /\ UNCHANGED <<session, status, nConnect, nLevel, master, rest>>

-----------------------------------------------------------------------------
(***************************************************************************)
(* The switch(state) of Network::update.                                   *)
(***************************************************************************)
\* Mutant: nothing but the departure of all peers ends the wait.
PeersGoneForSure == connCount = 0

\* Everybody has left, or we have waited long enough.
PeersGone == connCount = 0 \/ stateTimeOut = 0

\* Mutant: the answers of the master server are not waited for.
MasterDoneAnyway == TRUE

\* The master server has answered every request.
MasterDone == requests = <<>>

\* Mutant: the updater's node outlives the session.
DropSessionButUpdater ==
  /\ control' = "none" /\ dialing' = FALSE /\ open' = {} /\ zoidRequest' = 0
  /\ connCount' = 0
  /\ m_client' = FALSE /\ m_host' = FALSE /\ m_serverID' = FALSE
  /\ gameNode' = "none" /\ UNCHANGED updaterNode

\* Shutdown(), delete m_control, the flags and both nodes.
DropSession ==
  /\ control' = "none" /\ dialing' = FALSE /\ open' = {} /\ zoidRequest' = 0
  /\ connCount' = 0
  /\ m_client' = FALSE /\ m_host' = FALSE /\ m_serverID' = FALSE
  /\ gameNode' = "none" /\ updaterNode' = "none"

FinishDisconnecting ==
  /\ Phase("closing", "timer")
  /\ MasterDone /\ PeersGone
  /\ state' = "Disconnected"
  /\ clientRetry' = IF control # "none" THEN FALSE ELSE clientRetry
  /\ DropSession
  /\ UNCHANGED <<stateTimeOut, lateAdd, revived, queues, master, rest>>

\* --stateTimeOut; below 0 it is compared with 0 only.
StillDisconnecting ==
  /\ Phase("closing", "timer")
  /\ ~(MasterDone /\ PeersGone)
  /\ stateTimeOut' = IF stateTimeOut = 0 THEN 0 ELSE stateTimeOut - 1
  /\ UNCHANGED <<session, state, clientRetry, lateAdd, revived, queues, master,
                 rest>>

\* A Connect that finds the network up brings it down and stays queued.
ConnectDelay ==
  /\ Phase("connect", "connect")
  /\ todo > 0
  /\ state # "Disconnected"
  /\ Disconnect
  /\ todo' = todo - 1
  /\ UNCHANGED <<session, nConnect, nLevel, rest>>

\* Mutant: dial whatever the network is doing.
ConnectStartAtOnce ==
  /\ Phase("connect", "connect")
  /\ todo > 0
  /\ control' = "client"
  /\ dialing' = TRUE
  /\ state' = "Idle"
  /\ revived' = (revived \/ quit)
  /\ todo' = todo - 1
  /\ nConnect' = nConnect - 1
  /\ UNCHANGED <<open, m_host, m_client, m_serverID, connCount, gameNode,
                 updaterNode, zoidRequest, stateTimeOut, clientRetry, lateAdd,
                 nLevel, master, rest>>

\* The network is down: a Client dials.
ConnectStart ==
  /\ Phase("connect", "connect")
  /\ todo > 0
  /\ state = "Disconnected"
  /\ control' = "client"
  /\ dialing' = TRUE
  /\ state' = "Idle"
  /\ revived' = (revived \/ quit)
  /\ todo' = todo - 1
  /\ nConnect' = nConnect - 1
  /\ UNCHANGED <<open, m_host, m_client, m_serverID, connCount, gameNode,
                 updaterNode, zoidRequest, stateTimeOut, clientRetry, lateAdd,
                 nLevel, master, rest>>

\* After the queue, a host registers or refreshes its registration, once
\* every UpdatePeriod ticks (unless NET_REGISTER is 0): even a host that a
\* Connect has just told to disconnect.
Register(kind) ==
  /\ updateTimer' = 0
  /\ \E r \in Posted(kind) : requests' = Append(requests, r)
  /\ lateAdd' = (lateAdd \/ (kind = "add" /\ state = "Disconnecting"))

ConnectEnd ==
  /\ Phase("connect", "timer")
  /\ todo = 0
  /\ \/ UNCHANGED <<updateTimer, requests, lateAdd>>
     \/ /\ m_host
        /\ IF updateTimer + 1 > UpdatePeriod
             THEN Register(IF serverAdded THEN "update" ELSE "add")
             ELSE /\ updateTimer' = updateTimer + 1
                  /\ UNCHANGED <<requests, lateAdd>>
  /\ UNCHANGED <<session, state, stateTimeOut, clientRetry, revived, queues,
                 serverAdded, rest>>

\* Mutant: the timer counts on after it has fired.
TimerRunsOn ==
  /\ Phase("timer", "console")
  /\ reconnectTimer' = reconnectTimer - 1
  /\ nConnect' = IF reconnectTimer = 1 THEN nConnect + 1 ELSE nConnect
  /\ UNCHANGED <<session, status, nLevel, todo, master, hostOption, downloads,
                 quit, budget>>

\* The reconnect timer runs in every state and queues a Connect.
Timer ==
  /\ Phase("timer", "console")
  /\ reconnectTimer' = IF reconnectTimer = 0 THEN 0 ELSE reconnectTimer - 1
  /\ nConnect' = IF reconnectTimer = 1 THEN nConnect + 1 ELSE nConnect
  /\ UNCHANGED <<session, status, nLevel, todo, master, hostOption, downloads,
                 quit, budget>>

-----------------------------------------------------------------------------
(***************************************************************************)
(* Commands: from the console, or from a peer's RCon message, which is     *)
(* executed inside the server's callback.                                  *)
(***************************************************************************)
Command ==
  /\ \/ Phase("console", "console")
     \/ Phase("input", "input") /\ control = "server" /\ open # {}
  /\ budget > 0
  /\ budget' = budget - 1

CmdConnect ==
  /\ Command
  /\ nConnect' = nConnect + 1
  /\ UNCHANGED <<session, status, nLevel, todo, master, hostOption, downloads,
                 reconnectTimer, quit>>

\* "map", and the script functions host(map) and map(map).
CmdMap ==
  /\ Command
  /\ hostOption' \in BOOLEAN
  /\ nLevel' = nLevel + 1
  /\ UNCHANGED <<session, status, nConnect, todo, master, downloads,
                 reconnectTimer, quit>>

CmdDisconnect ==
  /\ Command
  /\ Disconnect
  /\ UNCHANGED <<session, queues, hostOption, downloads, reconnectTimer, quit>>

\* Mutant: quit relies on main to disconnect.
CmdQuitOnly ==
  /\ Command
  /\ quit' = TRUE
  /\ UNCHANGED <<session, status, queues, master, hostOption, downloads,
                 reconnectTimer>>

CmdQuit ==
  /\ Command
  /\ quit' = TRUE
  /\ Disconnect
  /\ UNCHANGED <<session, queues, hostOption, downloads, reconnectTimer>>

CmdFetchServerList ==
  /\ Command
  /\ requests' = Append(requests, [kind |-> "list", null |-> FALSE])
  /\ UNCHANGED <<session, status, queues, serverAdded, updateTimer,
                 hostOption, downloads, reconnectTimer, quit>>

ConsoleEnd ==
  /\ Phase("console", "loop")
  /\ UNCHANGED <<session, status, queues, master, rest>>

\* The inner loop goes on while the clock is ahead, without looking at quit.
NextTick ==
  /\ Phase("loop", "game")
  /\ todo' = nLevel
  /\ UNCHANGED <<session, status, nConnect, nLevel, master, rest>>

Leave ==
  /\ Phase("loop", "exited")
  /\ quit
  /\ state = "Disconnected"
  /\ UNCHANGED <<session, status, queues, master, rest>>

-----------------------------------------------------------------------------
Init ==
  /\ phase = "loop" /\ todo = 0
  /\ state = "Disconnected" /\ stateTimeOut = 0
  /\ control = "none" /\ dialing = FALSE /\ open = {}
  /\ m_host = FALSE /\ m_client = FALSE /\ m_serverID = FALSE
  /\ connCount = 0 /\ clientRetry = FALSE
  /\ nConnect = 0 /\ nLevel = 0 /\ hostOption = FALSE
  /\ gameNode = "none" /\ updaterNode = "none"
  /\ zoidRequest = 0 /\ downloads = 0
  /\ requests = <<>> /\ serverAdded = FALSE
  /\ updateTimer = 0 /\ reconnectTimer = 0
  /\ quit = FALSE /\ budget = Commands
  /\ lateAdd = FALSE /\ revived = FALSE

GamePhase    == GameDelay \/ GameLocal \/ GameHost \/ GameEnd
UpdaterPhase == UpdaterDone \/ UpdaterEnd
Callbacks    == \/ ServerSpawned \/ ServerClosed
                \/ ClientRefused \/ ClientAccepted \/ ClientDownloads
                \/ ClientFailed \/ ClientClosed \/ ClientZoidResult
HttpPhase    == HttpKeep \/ HttpDone \/ HttpNull \/ HttpEnd
SwitchPhase  == \/ FinishDisconnecting \/ StillDisconnecting
                \/ ConnectDelay \/ ConnectStart \/ ConnectEnd
User         == \/ CmdConnect \/ CmdMap \/ CmdDisconnect \/ CmdQuit
                \/ CmdFetchServerList

\* The steps the program takes by itself, whatever its environment does.
Program == \/ GamePhase \/ UpdaterEnd \/ InputEnd \/ HttpPhase \/ SwitchPhase
           \/ Timer \/ ConsoleEnd \/ NextTick

\* The program has ended.
Ended == Halted /\ UNCHANGED vars

Next == Program \/ UpdaterDone \/ Callbacks \/ User \/ Leave \/ Ended

Spec == Init /\ [][Next]_vars

(***************************************************************************)
(* Fairness.  The loop runs.  The oldest HTTP request does not stay for    *)
(* ever: each stage of a request has a time-out of ten seconds             *)
(* (TCP::Socket::checkTimeout) and the master server's answer is finite.   *)
(* The inner loop catches up with the clock again and again, so that main  *)
(* gets to look at quit.  Nothing is assumed of the peers.                 *)
(***************************************************************************)
FairSpec ==
  /\ Spec
  /\ WF_vars(Program)
  /\ SF_vars(HttpDone /\ Current = 1)
  /\ SF_vars(Leave)
-----------------------------------------------------------------------------
(***************************************************************************)
(* Properties.                                                             *)
(***************************************************************************)
Phases == {"game", "updater", "input", "http", "closing", "connect", "timer",
           "console", "loop", "exited", "crashed"}

\* Every variable has its type.
TypeOK ==
  /\ phase \in Phases /\ todo \in Nat
  /\ state \in {"Idle", "Disconnecting", "Disconnected"}
  /\ stateTimeOut \in Nat
  /\ control \in {"none", "server", "client"}
  /\ dialing \in BOOLEAN
  /\ open \in SUBSET Conn
  /\ m_host \in BOOLEAN /\ m_client \in BOOLEAN /\ m_serverID \in BOOLEAN
  /\ connCount \in Nat
  /\ clientRetry \in BOOLEAN
  /\ nConnect \in Nat /\ nLevel \in Nat
  /\ hostOption \in BOOLEAN
  /\ gameNode \in {"none", "authority", "proxy"}
  /\ updaterNode \in {"none", "authority", "proxy"}
  /\ zoidRequest \in 0..2
  /\ downloads \in Nat
  /\ requests \in Seq(Request)
  /\ serverAdded \in BOOLEAN
  /\ updateTimer \in Nat /\ reconnectTimer \in Nat
  /\ quit \in BOOLEAN /\ budget \in Nat
  /\ lateAdd \in BOOLEAN /\ revived \in BOOLEAN

\* When the state says Disconnected nothing of a session is left: what
\* host(), ChangeLevel and Connect rely on, and what the assertions in
\* Network::host and Updater::assignNetworkRole test.  The state reaches
\* Disconnected several calls after the session was given up, and callbacks
\* go on creating nodes and connections in between.
DisconnectedIsClean ==
  state = "Disconnected" =>
    /\ control = "none" /\ open = {} /\ connCount = 0
    /\ ~m_host /\ ~m_client /\ ~m_serverID
    /\ gameNode = "none" /\ updaterNode = "none"

\* connCount, kept by callbacks of three kinds, is the number of connections
\* that are open: a disconnection neither waits for a connection that is
\* gone nor forgets one.
ConnCountIsExact == connCount = Cardinality(open)

\* The server turns clients away with Retry exactly while it is closing: it
\* neither accepts a client it is about to drop nor, in the next session,
\* refuses clients for ever.
RetryWhileClosing == clientRetry <=> state = "Disconnecting"

\* The roles exclude each other, agree with the control that exists, and
\* network nodes have the role of their session.
RolesAgree ==
  /\ m_host <=> control = "server"
  /\ m_client => control = "client" /\ m_serverID
  /\ gameNode = "authority" \/ updaterNode = "authority" => m_host
  /\ gameNode = "proxy" \/ updaterNode = "proxy" => m_client
  /\ state = "Idle" => control # "none"

\* Off the network the program does not believe to be registered with the
\* master server, unless a registration was still in flight when it
\* disconnected, or was sent by the tick in which a Connect disconnected it:
\* those answers come after the last chance to ask for removal.
RegistrationEnds ==
  state = "Disconnected" /\ serverAdded => lateAdd

(***************************************************************************)
(* What makes the invariants above inductive.                              *)
(***************************************************************************)
\* A pass over a queue stays inside it, and only a disconnecting network
\* reaches the case that ends the session.
PassesAreBounded ==
  /\ phase = "game" => todo <= nLevel
  /\ phase = "http" => todo <= Len(requests)
  /\ phase = "connect" => todo <= nConnect
  /\ phase = "closing" => state = "Disconnecting"

\* A control exists in exactly the states that are not Disconnected, only a
\* client dials or asks for a zoid level, and it has a connection only after
\* the answer to its dialling.
ControlMatchesState ==
  /\ control = "none" <=> state = "Disconnected"
  /\ dialing => control = "client" /\ ~m_client
  /\ control = "client" /\ open # {} => m_client
  /\ zoidRequest # 0 => m_client

\* Where a belief to be registered can still come from, or be dropped.
RegistrationIsTracked ==
  /\ state = "Disconnected" => ~InFlight("add")
  /\ state = "Disconnecting" /\ InFlight("add") => lateAdd
  /\ state = "Disconnecting" /\ serverAdded => lateAdd \/ InFlight("remove")

IInv ==
  /\ TypeOK
  /\ DisconnectedIsClean
  /\ ConnCountIsExact /\ IsFiniteSet(open)
  /\ RetryWhileClosing
  /\ RolesAgree
  /\ RegistrationEnds
  /\ PassesAreBounded
  /\ ControlMatchesState
  /\ RegistrationIsTracked

\* The two queues that both wait for Disconnected and then take the network
\* up do not starve each other, and a reconnect that was promised happens.
QueuesAreServed ==
  /\ (nConnect > 0) ~> (nConnect = 0 \/ Halted)
  /\ (nLevel > 0) ~> (nLevel = 0 \/ Halted)
  /\ (reconnectTimer > 0) ~> (nConnect > 0 \/ Halted)

\* After quit the program ends, unless a queued Connect, ChangeLevel or
\* reconnect takes the network up again before main looks at quit.
QuitEnds == quit ~> (Halted \/ revived)

(***************************************************************************)
(* The promise of NetLifecycle.                                            *)
(***************************************************************************)
Link ==
  IF Halted THEN "down"
  ELSE IF state = "Disconnected" THEN "off"
  ELSE IF state = "Disconnecting" THEN "closing"
  ELSE IF control = "server" THEN "hosting"
  ELSE IF m_client THEN "joined"
  ELSE "joining"

Lifecycle == INSTANCE NetLifecycle WITH link <- Link, peers <- open

\* Every step of the network is a step NetLifecycle allows, or none: no
\* role is taken up before the last one has been given up completely.
KeepsLifecycle == Lifecycle!LSpec

\* Disconnecting ends, in Disconnected or with the program: neither a peer
\* that never leaves, nor one that joins meanwhile, nor a request to the
\* master server holds it up.
DisconnectingEnds == Lifecycle!ClosingEnds
=============================================================================
