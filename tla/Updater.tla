------------------------------- MODULE Updater -------------------------------
(***************************************************************************)
(* How a client fetches a level it does not have: Goop/updater.cpp on the  *)
(* server and on each client, with what Goop/client.cpp does when it has   *)
(* connected.                                                              *)
(*                                                                         *)
(* The library sends the events of the updater's node in order and without *)
(* loss, and a file beside them.  Its identifiers of connections start     *)
(* over with each session of the server, and one that is free may be given *)
(* again.  The table `connections' of updater.cpp outlives both.           *)
(*                                                                         *)
(* network.autoDownloads is a console variable: it may have either value   *)
(* whenever it is read.                                                    *)
(***************************************************************************)
EXTENDS Naturals, Sequences, FiniteSets, SequencesExt

CONSTANTS
  Clients,           \* the programs that connect to the server
  ConnIDs,           \* the identifiers the server's library gives out
  Levels,            \* the levels the server may run; it has them all
  Files,             \* the names of the files of a level
  Config,            \* config.cfg, which makes a directory a level
  MaxRequests,       \* bound: requests waiting in a client
  MaxLeft,           \* bound: entries left under an identifier given again
  NoConn, NoFile, NoMap

ASSUME UpdaterAssumption ==
  /\ Config \in Files /\ IsFiniteSet(Files)
  /\ MaxRequests \in Nat \ {0} /\ MaxLeft \in Nat
  /\ NoConn \notin ConnIDs /\ NoFile \notin Levels \X Files /\ NoMap \notin Levels

VARIABLES
  map,               \* the server's level; NoMap: it does not host
  fileQueue,         \* ConnData::fileQueue, of each identifier
  sendingFile,       \* ConnData::sendingFile
  up, down,          \* events on their way to the server, to the client
  transfer,          \* the file on its way to the client
  conn,              \* the identifier each client has, or NoConn
  phase,             \* what the client is doing
  ready,             \* has it heard Hello on this node
  requests,          \* its RequestLevel messages
  disk,              \* the files it has, whole or in part
  spoiled,           \* history: something befell the connection that the
                     \* updater does not recover from
  delivered,         \* history: the files that arrived on the connection
  cut                \* history: the clients a download to whom was broken off,
                     \* or who got an identifier with something left under it

server  == <<fileQueue, sendingFile>>
wire    == <<up, down, transfer>>
client  == <<conn, phase, ready, requests, disk>>
history == <<spoiled, delivered, cut>>
vars    == <<map, server, wire, client, history>>

-----------------------------------------------------------------------------
Hosting   == map # NoMap
Holder(c) == {p \in Clients : conn[p] = c}
Open(c)   == Holder(c) # {}

\* The updater's node is at zoid level 2: the library takes it to the clients
\* there and to no others.
Reached(c) == \E p \in Holder(c) : phase[p] \in {"updating", "done"}

File(l, f)     == [file |-> <<l, f>>]
Done(l)        == [done |-> l]
IsFile(entry)  == "file" \in DOMAIN entry
Nothing        == [file |-> NoFile, stage |-> "none"]

\* Mutant: the name of the level does not matter.
HasLevelOfAnyName(p, l) == \E k \in Levels : disk[p][<<k, Config>>] # "absent"

\* hasLevel of client.cpp: GusanosLevelLoader::canLoad looks for config.cfg.
HasLevel(p, l) == disk[p][<<l, Config>>] # "absent"

\* Every way to list the files of a directory, as queuePath meets them.
Listings(l) == {[i \in 1..Len(s) |-> File(l, s[i])] : s \in SetToSeqs(Files)}

\* Is something still to come to the client at c?
Outstanding(c) == transfer[c] # Nothing \/ fileQueue[c] # <<>>

-----------------------------------------------------------------------------
(***************************************************************************)
(* Connections.                                                            *)
(***************************************************************************)
\* ZCom_cbConnectResult, accepted.  The client plays if it has the level,
\* or asks for it, or stays where it is.
Connect(p, c) ==
  /\ Hosting /\ conn[p] = NoConn /\ ~Open(c)
  /\ Len(requests[p]) < MaxRequests /\ Len(fileQueue[c]) <= MaxLeft
  /\ conn' = [conn EXCEPT ![p] = c]
  /\ \E autoDownloads \in BOOLEAN :
       LET asks == ~HasLevel(p, map) /\ autoDownloads IN
       /\ phase' = [phase EXCEPT ![p] =
            IF HasLevel(p, map) THEN "playing"
            ELSE IF autoDownloads THEN "joining" ELSE "stranded"]
       /\ requests' = [requests EXCEPT ![p] =
            IF asks THEN Append(@, map) ELSE @]
  /\ LET left == sendingFile[c] \/ fileQueue[c] # <<>> IN
     /\ spoiled' = [spoiled EXCEPT ![c] = left]
     /\ cut' = IF left THEN cut \cup {p} ELSE cut
  /\ delivered' = [delivered EXCEPT ![c] = {}]
  /\ UNCHANGED <<map, server, wire, ready, disk>>

\* What the end of the connections C leaves.  The server keeps their entries
\* and the client its requests (Updater::removeNode).
DropAll(C) ==
  LET P == {p \in Clients : conn[p] \in C} IN
  /\ up'   = [c \in ConnIDs |-> IF c \in C THEN <<>> ELSE up[c]]
  /\ down' = [c \in ConnIDs |-> IF c \in C THEN <<>> ELSE down[c]]
  /\ transfer' = [c \in ConnIDs |-> IF c \in C THEN Nothing ELSE transfer[c]]
  /\ conn'  = [p \in Clients |-> IF p \in P THEN NoConn ELSE conn[p]]
  /\ phase' = [p \in Clients |-> IF p \in P THEN "out" ELSE phase[p]]
  /\ ready' = [p \in Clients |-> ready[p] /\ p \notin P]
  /\ cut' = cut \cup {p \in P : Outstanding(conn[p])}
  /\ UNCHANGED <<server, requests, disk, spoiled, delivered>>

\* The user leaves, the connection times out, or the reconnect that
\* MsgRequestDone asks for leaves first.
Close(p) == conn[p] # NoConn /\ DropAll({conn[p]}) /\ UNCHANGED map

\* The server's session ends: Network::disconnect to another map or to none.
Stop == Hosting /\ map' = NoMap /\ DropAll({c \in ConnIDs : Open(c)})

Host(l) ==
  /\ ~Hosting /\ map' = l
  /\ UNCHANGED <<server, wire, client, history>>

\* ZCom_cbZoidResult, level 2: a new node, of which the server hears.
ZoidResult(p) ==
  /\ phase[p] = "joining"
  /\ phase' = [phase EXCEPT ![p] = "updating"]
  /\ ready' = [ready EXCEPT ![p] = FALSE]
  /\ up' = [up EXCEPT ![conn[p]] = Append(@, [type |-> "Init"])]
  /\ UNCHANGED <<map, server, down, transfer, conn, requests, disk, history>>

-----------------------------------------------------------------------------
(***************************************************************************)
(* Updater::think on the server.                                           *)
(***************************************************************************)
\* Mutant: the next file does not wait for the one before.
MaySendAhead(c) == fileQueue[c] # <<>>

\* sendOne, for every entry.  Where there is no client that has the node,
\* sendFile returns no transfer, but sendingFile is set all the same.
MaySend(c) == fileQueue[c] # <<>> /\ ~sendingFile[c]

SendOnes ==
  /\ Hosting /\ \E c \in ConnIDs : MaySend(c)
  /\ LET first == [c \in ConnIDs |->
                     IF MaySend(c) THEN Head(fileQueue[c]) ELSE Done(NoMap)]
     IN
     /\ fileQueue' = [c \in ConnIDs |->
          IF MaySend(c) THEN Tail(fileQueue[c]) ELSE fileQueue[c]]
     /\ sendingFile' = [c \in ConnIDs |-> sendingFile[c] \/ IsFile(first[c])]
     /\ transfer' = [c \in ConnIDs |->
          IF Reached(c) /\ IsFile(first[c])
            THEN [file |-> first[c].file, stage |-> "offered"]
            ELSE transfer[c]]
     /\ down' = [c \in ConnIDs |->
          IF Reached(c) /\ MaySend(c) /\ ~IsFile(first[c])
            THEN Append(down[c], [type |-> "RequestDone", level |-> first[c].done])
            ELSE down[c]]
  /\ UNCHANGED <<map, up, client, history>>

Taken(channel, c) == [channel EXCEPT ![c] = Tail(@)]

\* Mutant: the node does not ask for eEvent_Init.
EventInitUnasked(c) ==
  /\ up[c] # <<>> /\ Head(up[c]).type = "Init"
  /\ up' = Taken(up, c)
  /\ UNCHANGED <<map, server, down, transfer, client, history>>

\* eZCom_EventInit: Hello, or Sorry, which the client has no answer to.
EventInit(c) ==
  /\ up[c] # <<>> /\ Head(up[c]).type = "Init"
  /\ up' = Taken(up, c)
  /\ \E autoDownloads \in BOOLEAN :
       /\ down' = [down EXCEPT ![c] = Append(@,
            [type |-> IF autoDownloads THEN "Hello" ELSE "Sorry"])]
       /\ spoiled' = [spoiled EXCEPT ![c] = @ \/ ~autoDownloads]
  /\ UNCHANGED <<map, server, transfer, client, delivered, cut>>

\* Mutant: the entry of the request comes before its files.
queueLevelDoneFirst(c, l) ==
  \E listing \in Listings(l) :
    fileQueue' = [fileQueue EXCEPT ![c] = (@ \o <<Done(l)>>) \o listing]

\* queueLevel, the entry of the request behind its files.
queueLevel(c, l) ==
  \E listing \in Listings(l) :
    fileQueue' = [fileQueue EXCEPT ![c] = (@ \o listing) \o <<Done(l)>>]

MsgRequestLevel(c) ==
  /\ up[c] # <<>> /\ Head(up[c]).type = "RequestLevel"
  /\ up' = Taken(up, c)
  /\ \/ queueLevel(c, Head(up[c]).level) /\ UNCHANGED spoiled
     \/ spoiled' = [spoiled EXCEPT ![c] = TRUE] /\ UNCHANGED fileQueue
  /\ UNCHANGED <<map, sendingFile, down, transfer, client, delivered, cut>>

FileComplete(c) ==
  /\ transfer[c].stage = "arrived"
  /\ transfer' = [transfer EXCEPT ![c] = Nothing]
  /\ sendingFile' = [sendingFile EXCEPT ![c] = FALSE]
  /\ UNCHANGED <<map, fileQueue, up, down, client, history>>

-----------------------------------------------------------------------------
(***************************************************************************)
(* Updater::think on a client.                                             *)
(***************************************************************************)
RequestLevels(p) ==
  /\ phase[p] \in {"updating", "done"} /\ ready[p] /\ requests[p] # <<>>
  /\ LET sent == [i \in DOMAIN requests[p] |->
                    [type |-> "RequestLevel", level |-> requests[p][i]]]
     IN  up' = [up EXCEPT ![conn[p]] = @ \o sent]
  /\ requests' = [requests EXCEPT ![p] = <<>>]
  /\ UNCHANGED <<map, server, down, transfer, conn, phase, ready, disk, history>>

\* A client's user events.  network.reconnect(50) of the last is phase "done".
MsgAtClient(p) ==
  /\ conn[p] # NoConn /\ down[conn[p]] # <<>>
  /\ down' = Taken(down, conn[p])
  /\ LET type == Head(down[conn[p]]).type IN
     /\ ready' = [ready EXCEPT ![p] =
          type = "Hello" \/ (@ /\ type # "Sorry")]
     /\ phase' = [phase EXCEPT ![p] = IF type = "RequestDone" THEN "done" ELSE @]
  /\ UNCHANGED <<map, server, up, transfer, conn, requests, disk, history>>

\* eZCom_EventFile_Incoming.  The client refuses when it has downloads off or
\* cannot write; the server's transfer ends with an event it does not handle.
FileIncoming(p) ==
  /\ conn[p] # NoConn /\ transfer[conn[p]].stage = "offered"
  /\ LET c == conn[p] IN
     \/ /\ transfer' = [transfer EXCEPT ![c].stage = "accepted"]
        /\ disk' = [disk EXCEPT ![p][transfer[c].file] = "part"]
        /\ UNCHANGED <<spoiled, cut>>
     \/ /\ transfer' = [transfer EXCEPT ![c] = Nothing]
        /\ spoiled' = [spoiled EXCEPT ![c] = TRUE]
        /\ cut' = cut \cup {p}
        /\ UNCHANGED disk
  /\ UNCHANGED <<map, server, up, down, conn, phase, ready, requests, delivered>>

\* The library has written the file; the server is about to hear of it.
FileArrives(p) ==
  /\ conn[p] # NoConn /\ transfer[conn[p]].stage = "accepted"
  /\ LET c == conn[p] IN
     /\ transfer' = [transfer EXCEPT ![c].stage = "arrived"]
     /\ disk' = [disk EXCEPT ![p][transfer[c].file] = "whole"]
     /\ delivered' = [delivered EXCEPT ![c] = @ \cup {transfer[c].file}]
  /\ UNCHANGED <<map, server, up, down, conn, phase, ready, requests, spoiled, cut>>

-----------------------------------------------------------------------------
Init ==
  /\ map = NoMap
  /\ fileQueue = [c \in ConnIDs |-> <<>>]
  /\ sendingFile = [c \in ConnIDs |-> FALSE]
  /\ up = [c \in ConnIDs |-> <<>>] /\ down = [c \in ConnIDs |-> <<>>]
  /\ transfer = [c \in ConnIDs |-> Nothing]
  /\ conn = [p \in Clients |-> NoConn] /\ phase = [p \in Clients |-> "out"]
  /\ ready = [p \in Clients |-> FALSE]
  /\ requests = [p \in Clients |-> <<>>]
  /\ disk = [p \in Clients |-> [lf \in Levels \X Files |-> "absent"]]
  /\ spoiled = [c \in ConnIDs |-> FALSE] /\ delivered = [c \in ConnIDs |-> {}]
  /\ cut = {}

Server(c) == EventInit(c) \/ MsgRequestLevel(c) \/ FileComplete(c)

Client(p) ==
  \/ ZoidResult(p) \/ RequestLevels(p) \/ MsgAtClient(p)
  \/ FileIncoming(p) \/ FileArrives(p)

Next ==
  \/ Stop \/ SendOnes
  \/ \E l \in Levels : Host(l)
  \/ \E c \in ConnIDs : Server(c)
  \/ \E p \in Clients : Client(p) \/ Close(p) \/ \E c \in ConnIDs : Connect(p, c)

Spec == Init /\ [][Next]_vars

\* Every machine thinks in every tick and the library goes on delivering.
\* Nobody has to connect, to leave, to host or to stop.
FairSpec ==
  /\ Spec /\ WF_vars(SendOnes)
  /\ \A c \in ConnIDs : WF_vars(Server(c))
  /\ \A p \in Clients : WF_vars(Client(p))

-----------------------------------------------------------------------------
(***************************************************************************)
(* Properties                                                              *)
(***************************************************************************)
Entry == [file : Levels \X Files] \cup [done : Levels]

TypeOK ==
  /\ map \in Levels \cup {NoMap}
  /\ \A c \in ConnIDs :
       /\ fileQueue[c] \in Seq(Entry) /\ sendingFile[c] \in BOOLEAN
       /\ ToSet(up[c]) \subseteq
            [type : {"Init"}] \cup [type : {"RequestLevel"}, level : Levels]
       /\ ToSet(down[c]) \subseteq
            [type : {"Hello", "Sorry"}] \cup [type : {"RequestDone"}, level : Levels]
       /\ \/ transfer[c] = Nothing
          \/ transfer[c] \in [file : Levels \X Files,
                              stage : {"offered", "accepted", "arrived"}]
       /\ spoiled[c] \in BOOLEAN /\ delivered[c] \subseteq Levels \X Files
       /\ Cardinality(Holder(c)) <= 1
  /\ \A p \in Clients :
       /\ conn[p] \in ConnIDs \cup {NoConn} /\ ready[p] \in BOOLEAN
       /\ phase[p] \in
            {"out", "playing", "joining", "updating", "stranded", "done"}
       /\ requests[p] \in Seq(Levels)
       /\ disk[p] \in [Levels \X Files -> {"absent", "part", "whole"}]
  /\ cut \subseteq Clients

\* The server sends one file at a time to a client: a transfer begins only
\* where none was.
OneFileAtATime ==
  [][\A c \in ConnIDs :
       transfer'[c].stage = "offered" /\ transfer[c].stage # "offered"
         => transfer[c] = Nothing]_vars

\* MsgRequestDone reaches a client only after every file of the level, though
\* events and files travel apart.
DoneMeansDelivered ==
  /\ TypeOK
  /\ \A c \in ConnIDs : \A i \in DOMAIN down[c] :
       down[c][i].type = "RequestDone" /\ ~spoiled[c]
         => \A f \in Files : <<down[c][i].level, f>> \in delivered[c]

\* A client that takes a level for present has all of it, unless a download
\* to it was broken off or mixed with another's: config.cfg alone makes a
\* level.
PlayingIsWhole ==
  \A p \in Clients :
    phase[p] = "playing" /\ p \notin cut
      => \A f \in Files : disk[p][<<map, f>>] = "whole"

\* A client that waits for a level is told that it has it, unless the
\* connection ends or is spoiled.
DownloadEnds ==
  \A p \in Clients :
    phase[p] \in {"joining", "updating"} ~>
      (phase[p] \in {"done", "out"} \/ spoiled[conn[p]])
=============================================================================
