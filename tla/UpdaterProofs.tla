---------------------------- MODULE UpdaterProofs ----------------------------
(***************************************************************************)
(* Proofs about Updater, for every value of its constants: what its run    *)
(* checks of the files and of the events, which travel apart.              *)
(*                                                                         *)
(* The argument rests on what is still to come on a connection: the file   *)
(* in transfer and the entries of fileQueue.  A request's own entry stands *)
(* behind its files there, and a file leaves the queue only to be in       *)
(* transfer, and transfer only by having arrived.                          *)
(***************************************************************************)
EXTENDS Updater, SequenceTheorems, FiniteSetTheorems, TLAPS

UpEvent   == [type : {"Init"}] \cup [type : {"RequestLevel"}, level : Levels]
DownEvent ==
  [type : {"Hello", "Sorry"}] \cup [type : {"RequestDone"}, level : Levels]
InTransfer ==
  [file : Levels \X Files, stage : {"offered", "accepted", "arrived"}]
Phases == {"out", "playing", "joining", "updating", "stranded", "done"}

\* The types, with what TypeOK leaves to the shape of a function.
Types ==
  /\ map \in Levels \cup {NoMap}
  /\ fileQueue \in [ConnIDs -> Seq(Entry)] /\ sendingFile \in [ConnIDs -> BOOLEAN]
  /\ up \in [ConnIDs -> Seq(UpEvent)] /\ down \in [ConnIDs -> Seq(DownEvent)]
  /\ transfer \in [ConnIDs -> InTransfer \cup {Nothing}]
  /\ conn \in [Clients -> ConnIDs \cup {NoConn}]
  /\ phase \in [Clients -> Phases] /\ ready \in [Clients -> BOOLEAN]
  /\ requests \in [Clients -> Seq(Levels)]
  /\ disk \in [Clients -> [Levels \X Files -> {"absent", "part", "whole"}]]
  /\ spoiled \in [ConnIDs -> BOOLEAN]
  /\ delivered \in [ConnIDs -> SUBSET (Levels \X Files)]
  /\ cut \subseteq Clients

\* Who is connected, to whom: nobody shares an identifier, a client is out
\* exactly when it has none, and the server hosts while it has clients.
Connections ==
  /\ \A p, q \in Clients : conn[p] = conn[q] /\ conn[p] # NoConn => p = q
  /\ \A p \in Clients : phase[p] = "out" <=> conn[p] = NoConn
  /\ \A p \in Clients : conn[p] # NoConn => map # NoMap

\* What is under way on a connection: nothing without a client, events of the
\* node and a file only where the client has the node, one file at a time, and
\* a file that has arrived is the client's.
UnderWay ==
  \A c \in ConnIDs :
    /\ ~Open(c) => down[c] = <<>>
    /\ up[c] # <<>> => Reached(c)
    /\ transfer[c] # Nothing => Reached(c) /\ sendingFile[c]
    /\ transfer[c].stage = "arrived" =>
         /\ transfer[c].file \in delivered[c]
         /\ \A p \in Holder(c) : disk[p][transfer[c].file] = "whole"

\* Files wait for a client that has the node, unless they are left from the
\* connection before.
QueueIsServed ==
  \A c \in ConnIDs : \A p \in Holder(c) :
    fileQueue[c] # <<>> /\ (~spoiled[c] \/ p \notin cut) => Reached(c)

\* The file lf stands in the queue q before its place i.
Before(q, i, lf) == \E j \in 1..Len(q) : j < i /\ q[j] = [file |-> lf]

\* A request's own entry, in the queue or sent, stands behind its files.
BehindAt(c) ==
  /\ \A i \in 1..Len(down[c]) : down[c][i].type = "RequestDone" =>
       \A f \in Files : <<down[c][i].level, f>> \in delivered[c]
  /\ \A i \in 1..Len(fileQueue[c]) : ~IsFile(fileQueue[c][i]) =>
       \A f \in Files :
         LET lf == <<fileQueue[c][i].done, f>> IN
         \/ lf \in delivered[c] \/ transfer[c].file = lf
         \/ Before(fileQueue[c], i, lf)

DoneIsBehind == \A c \in ConnIDs : ~spoiled[c] /\ Open(c) => BehindAt(c)

\* The file lf is still to come to the client p.
Pending(p, lf) ==
  /\ conn[p] # NoConn
  /\ \/ transfer[conn[p]].file = lf
     \/ \E j \in 1..Len(fileQueue[conn[p]]) : fileQueue[conn[p]][j] = [file |-> lf]

\* Where one file of a level has come or is to come, every file has or is.
AllOrNone ==
  \A p \in Clients \ cut, l \in Levels :
    (\E f \in Files : disk[p][<<l, f>>] # "absent" \/ Pending(p, <<l, f>>))
      => \A f \in Files : disk[p][<<l, f>>] = "whole" \/ Pending(p, <<l, f>>)

IInv ==
  /\ Types /\ Connections /\ UnderWay /\ QueueIsServed /\ DoneIsBehind
  /\ AllOrNone /\ PlayingIsWhole

-----------------------------------------------------------------------------
(***************************************************************************)
(* The queue and the listings of a directory.                              *)
(***************************************************************************)
\* An entry is a file's or a request's, and which one its field tells.
LEMMA EntryKinds ==
  ASSUME NEW e \in Entry
  PROVE  /\ IsFile(e) => e.file \in Levels \X Files /\ e = [file |-> e.file]
         /\ ~IsFile(e) => e.done \in Levels /\ e = [done |-> e.done]
BY DEF Entry, IsFile

\* The entries the server makes.
LEMMA EntriesMade ==
  ASSUME NEW l \in Levels
  PROVE  /\ Done(l) \in Entry /\ ~IsFile(Done(l)) /\ Done(l).done = l
         /\ \A f \in Files :
              /\ File(l, f) \in Entry /\ IsFile(File(l, f))
              /\ File(l, f) = [file |-> <<l, f>>]
BY DEF Entry, IsFile, Done, File

\* A listing of a level names each of its files.
LEMMA ListingNamesAll ==
  ASSUME NEW l \in Levels, NEW listing \in Listings(l)
  PROVE  /\ listing \in Seq(Entry)
         /\ \A i \in 1..Len(listing) :
              \E f \in Files : listing[i] = File(l, f)
         /\ \A f \in Files :
              \E i \in 1..Len(listing) : listing[i] = File(l, f)
<1>1. PICK s \in SetToSeqs(Files) :
        listing = [i \in 1..Len(s) |-> File(l, s[i])]
  BY DEF Listings
<1> DEFINE D == 1..Cardinality(Files)
<1>2. IsFiniteSet(Files) /\ Cardinality(Files) \in Nat
  BY UpdaterAssumption, FS_CardinalityType
<1>3. s \in [D -> Files] /\ \A i, j \in D : i # j => s[i] # s[j]
  BY <1>1 DEF SetToSeqs
<1>4. IsFiniteSet(D) /\ Cardinality(D) = Cardinality(Files)
  BY <1>2, FS_Interval
<1>5. s \in Injection(D, Files)
  BY <1>3 DEF Injection, IsInjective
<1>6. s \in Surjection(D, Files)
  BY <1>2, <1>4, <1>5, FS_Injection
<1>7. \A f \in Files : \E i \in D : s[i] = f
  BY <1>6 DEF Surjection
<1>8. Len(s) = Cardinality(Files)
  BY <1>2, <1>3
<1>9. /\ listing \in [D -> Entry] /\ Len(listing) = Cardinality(Files)
      /\ \A i \in D : listing[i] = File(l, s[i])
  BY <1>1, <1>2, <1>3, <1>8, EntriesMade
<1>10. listing \in Seq(Entry)
  BY <1>2, <1>9, SeqDef
<1>11. QED
  BY <1>3, <1>7, <1>9, <1>10

\* What queueLevel makes of a queue: every place keeps its entry, the new
\* ones are of the level, and its own entry is the last.
LEMMA Queued ==
  ASSUME NEW q \in Seq(Entry), NEW l \in Levels, NEW listing \in Listings(l)
  PROVE  LET r == (q \o listing) \o <<Done(l)>> IN
         /\ r \in Seq(Entry) /\ Len(r) > Len(q)
         /\ \A i \in 1..Len(q) : r[i] = q[i]
         /\ \A i \in 1..Len(r) : i > Len(q) =>
              \/ i < Len(r) /\ \E f \in Files : r[i] = File(l, f)
              \/ i = Len(r) /\ r[i] = Done(l)
         /\ \A f \in Files :
              \E i \in 1..Len(r) : i > Len(q) /\ i < Len(r) /\ r[i] = File(l, f)
<1> DEFINE a == q \o listing
           r == a \o <<Done(l)>>
<1>1. /\ listing \in Seq(Entry)
      /\ \A i \in 1..Len(listing) : \E f \in Files : listing[i] = File(l, f)
      /\ \A f \in Files : \E i \in 1..Len(listing) : listing[i] = File(l, f)
  BY ListingNamesAll
<1>2. Len(q) \in Nat /\ Len(listing) \in Nat
  BY <1>1, LenProperties
<1>3. /\ a \in Seq(Entry) /\ Len(a) = Len(q) + Len(listing)
      /\ \A i \in 1..Len(a) : a[i] = IF i <= Len(q) THEN q[i] ELSE listing[i - Len(q)]
  BY <1>1, ConcatProperties
<1>4. <<Done(l)>> \in Seq(Entry) /\ Len(<<Done(l)>>) = 1 /\ <<Done(l)>>[1] = Done(l)
  BY EntriesMade
<1> HIDE DEF a
<1>5. /\ r \in Seq(Entry) /\ Len(r) = Len(a) + 1
      /\ \A i \in 1..Len(a) + 1 :
           r[i] = IF i <= Len(a) THEN a[i] ELSE <<Done(l)>>[i - Len(a)]
  BY <1>3, <1>4, ConcatProperties
<1> HIDE DEF r
<1>6. \A i \in 1..Len(q) : r[i] = q[i]
  BY <1>2, <1>3, <1>5
<1>7. \A i \in 1..Len(listing) : r[Len(q) + i] = listing[i]
  <2> SUFFICES ASSUME NEW i \in 1..Len(listing) PROVE r[Len(q) + i] = listing[i]
    OBVIOUS
  <2>1. Len(q) + i \in 1..Len(a) /\ ~(Len(q) + i <= Len(q)) /\ (Len(q) + i) - Len(q) = i
    BY <1>2, <1>3
  <2>2. a[Len(q) + i] = listing[i]
    BY <1>3, <2>1
  <2>3. r[Len(q) + i] = a[Len(q) + i]
    BY <1>2, <1>3, <1>5, <2>1
  <2>4. QED
    BY <2>2, <2>3
<1>8. r[Len(r)] = Done(l)
  BY <1>2, <1>3, <1>4, <1>5
<1>9. ASSUME NEW i \in 1..Len(r), i > Len(q)
      PROVE  \/ i < Len(r) /\ \E f \in Files : r[i] = File(l, f)
             \/ i = Len(r) /\ r[i] = Done(l)
  <2>1. CASE i = Len(r)
    BY <1>8, <2>1
  <2>2. CASE i # Len(r)
    <3>1. i - Len(q) \in 1..Len(listing) /\ Len(q) + (i - Len(q)) = i /\ i < Len(r)
      BY <1>2, <1>3, <1>5, <1>9, <2>2
    <3>2. r[i] = listing[i - Len(q)]
      BY <1>7, <3>1
    <3>3. QED
      BY <1>1, <3>1, <3>2
  <2>3. QED
    BY <2>1, <2>2
<1>10. ASSUME NEW f \in Files
       PROVE  \E i \in 1..Len(r) : i > Len(q) /\ i < Len(r) /\ r[i] = File(l, f)
  <2>1. PICK j \in 1..Len(listing) : listing[j] = File(l, f)
    BY <1>1
  <2>2. Len(q) + j \in 1..Len(r) /\ Len(q) + j > Len(q) /\ Len(q) + j < Len(r)
    BY <1>2, <1>3, <1>5
  <2>3. QED
    BY <1>7, <2>1, <2>2
<1>11. Len(r) > Len(q)
  BY <1>2, <1>3, <1>5
<1>12. QED
  BY <1>5, <1>6, <1>9, <1>10, <1>11 DEF r, a

\* What taking the first entry does to a queue.
LEMMA Popped ==
  ASSUME NEW q \in Seq(Entry), q # <<>>
  PROVE  /\ Head(q) = q[1] /\ q[1] \in Entry /\ Tail(q) \in Seq(Entry)
         /\ \A i \in 1..Len(Tail(q)) : i + 1 \in 1..Len(q) /\ Tail(q)[i] = q[i + 1]
         /\ \A i \in 1..Len(q) : i # 1 =>
              i - 1 \in 1..Len(Tail(q)) /\ q[i] = Tail(q)[i - 1]
         /\ 1 \in 1..Len(q)
<1>1. Len(q) \in Nat \ {0}
  BY EmptySeq
<1>2. /\ Tail(q) \in Seq(Entry) /\ Len(Tail(q)) = Len(q) - 1
      /\ \A i \in 1..Len(Tail(q)) : Tail(q)[i] = q[i + 1]
      /\ Head(q) \in Entry
  BY HeadTailProperties
<1>3. Head(q) = q[1]
  OBVIOUS
<1>4. \A i \in 1..Len(q) : i # 1 => i - 1 \in 1..Len(Tail(q)) /\ (i - 1) + 1 = i
  BY <1>1, <1>2
<1>5. QED
  BY <1>1, <1>2, <1>3, <1>4

-----------------------------------------------------------------------------
(***************************************************************************)
(* The identifiers and their holders.                                      *)
(***************************************************************************)
\* The one client at an identifier, and what it says of the connection.
LEMMA TheHolder ==
  ASSUME Types, Connections, NEW p \in Clients, conn[p] # NoConn
  PROVE  /\ conn[p] \in ConnIDs /\ Holder(conn[p]) = {p} /\ Open(conn[p])
         /\ Reached(conn[p]) <=> phase[p] \in {"updating", "done"}
BY DEF Types, Connections, Holder, Open, Reached

\* The clients keep their identifiers and their phases.
LEMMA SameConnections ==
  ASSUME UNCHANGED <<map, conn, phase>>
  PROVE  /\ \A c : Holder(c)' = Holder(c) /\ Open(c)' = Open(c) /\ Reached(c)' = Reached(c)
         /\ Connections => Connections'
BY DEF Holder, Open, Reached, Connections

\* What is still to come and what is there do not change.
LEMMA SameFiles ==
  ASSUME UNCHANGED <<conn, transfer, fileQueue, disk, cut>>
  PROVE  AllOrNone => AllOrNone'
BY DEF AllOrNone, Pending

\* Nor does what stands behind what at c.
LEMMA SameQueue ==
  ASSUME NEW c, UNCHANGED <<down[c], delivered[c], transfer[c], fileQueue[c]>>
  PROVE  BehindAt(c) => BehindAt(c)'
BY DEF BehindAt, Before

\* Nothing is no transfer, and the stages tell one from it.
LEMMA NothingIsNone ==
  /\ Nothing \notin InTransfer
  /\ \A lf \in Levels \X Files : Nothing.file # lf
  /\ Nothing.stage = "none"
BY UpdaterAssumption DEF Nothing, InTransfer

-----------------------------------------------------------------------------
\* The initial states.
LEMMA InitIInv == Init => IInv
<1> SUFFICES ASSUME Init PROVE IInv
  OBVIOUS
<1> USE DEF Init
<1>1. Types
  BY DEF Types, Phases
<1>2. Connections
  BY UpdaterAssumption DEF Connections
<1>3. UnderWay
  BY NothingIsNone DEF UnderWay
<1>4. QueueIsServed
  BY DEF QueueIsServed
<1>5. DoneIsBehind
  BY DEF DoneIsBehind, BehindAt, Before, Open, Holder
<1>6. AllOrNone
  BY DEF AllOrNone, Pending
<1>7. PlayingIsWhole
  BY DEF PlayingIsWhole
<1>8. QED
  BY <1>1, <1>2, <1>3, <1>4, <1>5, <1>6, <1>7 DEF IInv

-----------------------------------------------------------------------------
(***************************************************************************)
(* Connections that begin and end.                                         *)
(***************************************************************************)
LEMMA HostIInv ==
  ASSUME IInv, NEW l \in Levels, Host(l)
  PROVE  IInv'
<1> USE DEF IInv, Host, Hosting, server, wire, client, history
<1>1. \A p \in Clients : conn[p] = NoConn /\ phase[p] = "out"
  BY DEF Connections
<1>2. Types'
  BY DEF Types
<1>3. Connections'
  BY <1>1 DEF Connections
<1>4. UnderWay'
  BY DEF UnderWay, Open, Holder, Reached
<1>5. QueueIsServed'
  BY DEF QueueIsServed, Reached, Holder
<1>6. DoneIsBehind'
  BY DEF DoneIsBehind, BehindAt, Before, Open, Holder
<1>7. AllOrNone'
  BY DEF AllOrNone, Pending
<1>8. PlayingIsWhole'
  BY <1>1 DEF PlayingIsWhole
<1>9. QED
  BY <1>2, <1>3, <1>4, <1>5, <1>6, <1>7, <1>8

\* Every connection of C ends at once: what was whole stays whole, and whoever
\* waited for something is cut off.
LEMMA DropAllIInv ==
  ASSUME IInv, NEW C \in SUBSET ConnIDs, DropAll(C), map' \in Levels \cup {NoMap},
         map' = map \/ \A p \in Clients : conn[p] \in C \cup {NoConn}
  PROVE  IInv'
<1> DEFINE P == {p \in Clients : conn[p] \in C}
<1> USE DEF IInv, server, client, history
<1>1. /\ up' = [c \in ConnIDs |-> IF c \in C THEN <<>> ELSE up[c]]
      /\ down' = [c \in ConnIDs |-> IF c \in C THEN <<>> ELSE down[c]]
      /\ transfer' = [c \in ConnIDs |-> IF c \in C THEN Nothing ELSE transfer[c]]
      /\ conn' = [p \in Clients |-> IF p \in P THEN NoConn ELSE conn[p]]
      /\ phase' = [p \in Clients |-> IF p \in P THEN "out" ELSE phase[p]]
      /\ ready' = [p \in Clients |-> ready[p] /\ p \notin P]
      /\ cut' = cut \cup {p \in P : Outstanding(conn[p])}
      /\ UNCHANGED <<fileQueue, sendingFile, requests, disk, spoiled, delivered>>
  BY DEF DropAll
<1>2. NoConn \notin ConnIDs
  BY UpdaterAssumption
<1>3. ASSUME NEW c \in ConnIDs
      PROVE  /\ c \in C => Holder(c)' = {}
             /\ c \notin C => Holder(c)' = Holder(c) /\ (Reached(c)' <=> Reached(c))
  <2>1. \A p \in Clients : conn'[p] = c <=> (conn[p] = c /\ c \notin C)
    BY <1>1, <1>2, <1>3
  <2>2. \A p \in Clients : conn[p] = c /\ c \notin C => phase'[p] = phase[p]
    BY <1>1
  <2>3. QED
    BY <2>1, <2>2 DEF Holder, Reached
<1>4. Types'
  BY <1>1, EmptySeq DEF Types, Phases, InTransfer
<1>5. Connections'
  BY <1>1, <1>2 DEF Connections
<1>6. UnderWay'
  <2> SUFFICES ASSUME NEW c \in ConnIDs
               PROVE /\ ~Open(c)' => down'[c] = <<>>
                     /\ up'[c] # <<>> => Reached(c)'
                     /\ transfer'[c] # Nothing => Reached(c)' /\ sendingFile'[c]
                     /\ transfer'[c].stage = "arrived" =>
                          /\ transfer'[c].file \in delivered'[c]
                          /\ \A p \in Holder(c)' : disk'[p][transfer'[c].file] = "whole"
    BY DEF UnderWay
  <2>1. CASE c \in C
    <3>1. up'[c] = <<>> /\ down'[c] = <<>> /\ transfer'[c] = Nothing
      BY <1>1, <2>1
    <3>2. QED
      BY <3>1, NothingIsNone
  <2>2. CASE c \notin C
    <3>1. /\ up'[c] = up[c] /\ down'[c] = down[c] /\ transfer'[c] = transfer[c]
          /\ Open(c)' <=> Open(c)
      BY <1>1, <1>3, <2>2 DEF Open
    <3>2. QED
      BY <1>1, <1>3, <2>2, <3>1 DEF UnderWay
  <2>3. QED
    BY <2>1, <2>2
<1>7. QueueIsServed'
  <2> SUFFICES ASSUME NEW c \in ConnIDs, NEW p \in Holder(c)', fileQueue'[c] # <<>>,
                      ~spoiled'[c] \/ p \notin cut'
               PROVE  Reached(c)'
    BY DEF QueueIsServed
  <2>1. c \notin C /\ p \in Holder(c)
    BY <1>3
  <2>2. Reached(c)
    BY <1>1, <2>1 DEF QueueIsServed
  <2>3. QED
    BY <1>3, <2>1, <2>2
<1>8. DoneIsBehind'
  <2> SUFFICES ASSUME NEW c \in ConnIDs, ~spoiled'[c], Open(c)'
               PROVE  BehindAt(c)'
    BY DEF DoneIsBehind
  <2>1. c \notin C
    BY <1>3 DEF Open
  <2>2. /\ ~spoiled[c] /\ Open(c)
        /\ UNCHANGED <<down[c], delivered[c], transfer[c], fileQueue[c]>>
    BY <1>1, <1>3, <2>1 DEF Open
  <2>3. QED
    BY <2>2, SameQueue DEF DoneIsBehind
<1>9. ASSUME NEW p \in Clients, p \notin cut', NEW lf
      PROVE  Pending(p, lf)' <=> Pending(p, lf) /\ p \notin P
  <2>1. CASE p \in P
    BY <1>1, <2>1 DEF Pending
  <2>2. CASE p \notin P
    <3>1. conn'[p] = conn[p] /\ (conn[p] # NoConn => transfer'[conn[p]] = transfer[conn[p]])
      BY <1>1, <2>2 DEF Types
    <3>2. QED
      BY <1>1, <2>2, <3>1 DEF Pending
  <2>3. QED
    BY <2>1, <2>2
<1>10. ASSUME NEW p \in P, p \notin cut'
       PROVE  \A lf \in Levels \X Files : ~Pending(p, lf)
  <2>1. transfer[conn[p]] = Nothing /\ fileQueue[conn[p]] = <<>>
    BY <1>1, <1>10 DEF Outstanding
  <2>2. QED
    BY <2>1, NothingIsNone DEF Pending
<1>11. AllOrNone'
  <2> SUFFICES ASSUME NEW p \in Clients, p \notin cut', NEW l \in Levels,
                      \E f \in Files : disk'[p][<<l, f>>] # "absent" \/ Pending(p, <<l, f>>)',
                      NEW f \in Files
               PROVE  disk'[p][<<l, f>>] = "whole" \/ Pending(p, <<l, f>>)'
    BY DEF AllOrNone
  <2>1. p \notin cut /\ disk' = disk
    BY <1>1
  <2>2. disk[p][<<l, f>>] = "whole" \/ Pending(p, <<l, f>>)
    BY <1>9, <2>1 DEF AllOrNone
  <2>3. QED
    BY <1>9, <1>10, <2>1, <2>2
<1>12. PlayingIsWhole'
  <2> SUFFICES ASSUME NEW p \in Clients, phase'[p] = "playing", p \notin cut'
               PROVE  phase[p] = "playing" /\ p \notin cut /\ disk' = disk /\ map' = map
    BY DEF PlayingIsWhole
  <2>1. p \notin P /\ phase[p] = "playing" /\ p \notin cut /\ disk' = disk
    BY <1>1
  <2>2. conn[p] # NoConn
    BY <2>1 DEF Connections
  <2>3. QED
    BY <2>1, <2>2
<1>13. QED
  BY <1>4, <1>5, <1>6, <1>7, <1>8, <1>11, <1>12

LEMMA CloseIInv ==
  ASSUME IInv, NEW p \in Clients, Close(p)
  PROVE  IInv'
<1>1. {conn[p]} \in SUBSET ConnIDs /\ map' = map /\ DropAll({conn[p]})
  BY TheHolder DEF IInv, Close
<1>2. map' \in Levels \cup {NoMap}
  BY <1>1 DEF IInv, Types
<1>3. QED
  BY <1>1, <1>2, DropAllIInv

LEMMA StopIInv ==
  ASSUME IInv, Stop
  PROVE  IInv'
<1> DEFINE C == {c \in ConnIDs : Open(c)}
<1>1. C \in SUBSET ConnIDs /\ map' \in Levels \cup {NoMap} /\ DropAll(C)
  BY DEF Stop
<1>2. \A p \in Clients : conn[p] \in C \cup {NoConn}
  BY TheHolder DEF IInv
<1> HIDE DEF C
<1>3. QED
  BY <1>1, <1>2, DropAllIInv

LEMMA ConnectIInv ==
  ASSUME IInv, NEW p \in Clients, NEW c \in ConnIDs, Connect(p, c)
  PROVE  IInv'
<1> USE DEF IInv, server, wire, Hosting
<1> DEFINE left == sendingFile[c] \/ fileQueue[c] # <<>>
<1>1. /\ map # NoMap /\ conn[p] = NoConn /\ ~Open(c)
      /\ conn' = [conn EXCEPT ![p] = c]
      /\ spoiled' = [spoiled EXCEPT ![c] = left]
      /\ cut' = IF left THEN cut \cup {p} ELSE cut
      /\ delivered' = [delivered EXCEPT ![c] = {}]
      /\ UNCHANGED <<map, fileQueue, sendingFile, up, down, transfer, ready, disk>>
  BY DEF Connect
<1>2. PICK autoDownloads \in BOOLEAN :
        /\ phase' = [phase EXCEPT ![p] =
             IF HasLevel(p, map) THEN "playing"
             ELSE IF autoDownloads THEN "joining" ELSE "stranded"]
        /\ requests' = [requests EXCEPT ![p] =
             IF ~HasLevel(p, map) /\ autoDownloads THEN Append(@, map) ELSE @]
  BY DEF Connect
<1>3. NoConn \notin ConnIDs /\ map \in Levels
  BY <1>1, UpdaterAssumption DEF Types
<1>4. /\ phase'[p] \in {"playing", "joining", "stranded"}
      /\ phase'[p] = "playing" => HasLevel(p, map)
      /\ \A q \in Clients : q # p => phase'[q] = phase[q] /\ conn'[q] = conn[q]
      /\ conn'[p] = c
  BY <1>1, <1>2 DEF Types
<1>5. Holder(c)' = {p} /\ \A d \in ConnIDs : d # c => Holder(d)' = Holder(d)
  <2>1. \A q \in Clients : conn[q] # c
    BY <1>1 DEF Open, Holder
  <2>2. QED
    BY <1>1, <1>3, <1>4, <2>1 DEF Holder
<1>6. \A d \in ConnIDs : Reached(d)' <=> Reached(d)
  <2>1. ~Reached(c) /\ ~Reached(c)'
    BY <1>1, <1>4, <1>5 DEF Open, Reached
  <2>2. ASSUME NEW d \in ConnIDs, d # c
        PROVE  Reached(d)' <=> Reached(d)
    <3>1. Holder(d)' = Holder(d) /\ p \notin Holder(d)
      BY <1>1, <1>3, <1>5, <2>2 DEF Holder
    <3>2. \A q \in Holder(d) : phase'[q] = phase[q]
      BY <1>4, <3>1 DEF Holder
    <3>3. QED
      BY <3>1, <3>2 DEF Reached
  <2>3. QED
    BY <2>1, <2>2
<1>7. Types'
  <2>1. \A s \in Seq(Levels) : Append(s, map) \in Seq(Levels)
    BY <1>3, AppendProperties
  <2>2. requests' \in [Clients -> Seq(Levels)]
    BY <1>2, <2>1 DEF Types
  <2>3. phase' \in [Clients -> Phases]
    BY <1>2 DEF Types, Phases
  <2>4. left \in BOOLEAN
    BY DEF Types
  <2> HIDE DEF left
  <2>5. /\ conn' \in [Clients -> ConnIDs \cup {NoConn}] /\ spoiled' \in [ConnIDs -> BOOLEAN]
        /\ delivered' \in [ConnIDs -> SUBSET (Levels \X Files)] /\ cut' \subseteq Clients
    BY <1>1, <2>4 DEF Types
  <2>6. QED
    BY <1>1, <2>2, <2>3, <2>5 DEF Types
<1>8. Connections'
  <2>1. \A q \in Clients : conn[q] # c
    BY <1>1 DEF Open, Holder
  <2>2. QED
    BY <1>1, <1>3, <1>4, <2>1 DEF Connections
<1>9. /\ up[c] = <<>> /\ down[c] = <<>> /\ transfer[c] = Nothing
  BY <1>1 DEF UnderWay, Reached, Open
<1>10. UnderWay'
  <2> SUFFICES ASSUME NEW d \in ConnIDs
               PROVE /\ ~Open(d)' => down'[d] = <<>>
                     /\ up'[d] # <<>> => Reached(d)'
                     /\ transfer'[d] # Nothing => Reached(d)' /\ sendingFile'[d]
                     /\ transfer'[d].stage = "arrived" =>
                          /\ transfer'[d].file \in delivered'[d]
                          /\ \A q \in Holder(d)' : disk'[q][transfer'[d].file] = "whole"
    BY DEF UnderWay
  <2>1. CASE d = c
    BY <1>1, <1>9, <2>1, NothingIsNone
  <2>2. CASE d # c
    <3>1. delivered'[d] = delivered[d]
      BY <1>1, <2>2 DEF Types
    <3>2. QED
      BY <1>1, <1>5, <1>6, <2>2, <3>1 DEF UnderWay, Open
  <2>3. QED
    BY <2>1, <2>2
<1>11. QueueIsServed'
  <2> SUFFICES ASSUME NEW d \in ConnIDs, NEW q \in Holder(d)', fileQueue'[d] # <<>>,
                      ~spoiled'[d] \/ q \notin cut'
               PROVE  Reached(d)'
    BY DEF QueueIsServed
  <2>1. CASE d = c
    <3>1. left /\ q = p
      BY <1>1, <1>5, <2>1
    <3>2. spoiled'[c] /\ p \in cut'
      BY <1>1, <3>1 DEF Types
    <3>3. QED
      BY <2>1, <3>1, <3>2
  <2>2. CASE d # c
    <3>1. spoiled'[d] = spoiled[d] /\ (q \notin cut' => q \notin cut) /\ q \in Holder(d)
      BY <1>1, <1>5, <2>2 DEF Types
    <3>2. QED
      BY <1>1, <1>6, <3>1 DEF QueueIsServed
  <2>3. QED
    BY <2>1, <2>2
<1>12. DoneIsBehind'
  <2> SUFFICES ASSUME NEW d \in ConnIDs, ~spoiled'[d], Open(d)'
               PROVE  BehindAt(d)'
    BY DEF DoneIsBehind
  <2>1. CASE d = c
    <3>1. down'[d] = <<>> /\ fileQueue'[d] = <<>>
      BY <1>1, <1>9, <2>1 DEF Types
    <3>2. QED
      BY <3>1 DEF BehindAt
  <2>2. CASE d # c
    <3>1. /\ ~spoiled[d] /\ Open(d)
          /\ UNCHANGED <<down[d], delivered[d], transfer[d], fileQueue[d]>>
      BY <1>1, <1>5, <2>2 DEF Types, Open
    <3>2. QED
      BY <3>1, SameQueue DEF DoneIsBehind
  <2>3. QED
    BY <2>1, <2>2
<1>13. ASSUME NEW q \in Clients, q \notin cut', NEW lf \in Levels \X Files
       PROVE  Pending(q, lf)' <=> Pending(q, lf)
  <2>1. CASE q = p
    <3>1. transfer'[c] = Nothing /\ fileQueue'[c] = <<>>
      BY <1>1, <1>9, <1>13, <2>1
    <3>2. ~Pending(p, lf)'
      BY <1>4, <3>1, NothingIsNone DEF Pending
    <3>3. QED
      BY <1>1, <2>1, <3>2 DEF Pending
  <2>2. CASE q # p
    BY <1>1, <1>4, <2>2 DEF Pending
  <2>3. QED
    BY <2>1, <2>2
<1>14. cut \subseteq cut'
  BY <1>1
<1>15. AllOrNone'
  <2> SUFFICES ASSUME NEW q \in Clients, q \notin cut', NEW l \in Levels,
                      \E f \in Files : disk'[q][<<l, f>>] # "absent" \/ Pending(q, <<l, f>>)',
                      NEW f \in Files
               PROVE  disk'[q][<<l, f>>] = "whole" \/ Pending(q, <<l, f>>)'
    BY DEF AllOrNone
  <2>1. \A g \in Files : Pending(q, <<l, g>>)' <=> Pending(q, <<l, g>>)
    BY <1>13
  <2>2. disk' = disk /\ q \notin cut
    BY <1>1, <1>14
  <2>3. QED
    BY <2>1, <2>2 DEF AllOrNone
<1>16. PlayingIsWhole'
  <2> SUFFICES ASSUME NEW q \in Clients, phase'[q] = "playing", q \notin cut', NEW f \in Files
               PROVE  disk'[q][<<map', f>>] = "whole"
    BY DEF PlayingIsWhole
  <2>1. disk' = disk /\ map' = map /\ q \notin cut
    BY <1>1, <1>14
  <2>2. CASE q = p
    <3>1. disk[p][<<map, Config>>] # "absent" /\ Config \in Files
      BY <1>4, <2>2, UpdaterAssumption DEF HasLevel
    <3>2. ~Pending(p, <<map, f>>)
      BY <1>1 DEF Pending
    <3>3. QED
      BY <1>3, <2>1, <2>2, <3>1, <3>2 DEF AllOrNone
  <2>3. CASE q # p
    BY <1>4, <2>1, <2>3 DEF PlayingIsWhole
  <2>4. QED
    BY <2>2, <2>3
<1>17. QED
  BY <1>7, <1>8, <1>10, <1>11, <1>12, <1>15, <1>16

LEMMA ZoidResultIInv ==
  ASSUME IInv, NEW p \in Clients, ZoidResult(p)
  PROVE  IInv'
<1> USE DEF IInv, server, history
<1> DEFINE c == conn[p]
<1>1. /\ phase[p] = "joining" /\ phase' = [phase EXCEPT ![p] = "updating"]
      /\ ready' = [ready EXCEPT ![p] = FALSE]
      /\ up' = [up EXCEPT ![c] = Append(@, [type |-> "Init"])]
      /\ UNCHANGED <<map, fileQueue, sendingFile, down, transfer, conn, requests, disk,
                     spoiled, delivered, cut>>
  BY DEF ZoidResult
<1>2. c \in ConnIDs /\ c # NoConn
  BY <1>1, TheHolder DEF Connections
<1>3. phase'[p] = "updating" /\ \A q \in Clients : q # p => phase'[q] = phase[q]
  BY <1>1 DEF Types
<1>4. /\ \A d \in ConnIDs : Holder(d)' = Holder(d)
      /\ \A d \in ConnIDs : Reached(d) => Reached(d)'
      /\ Reached(c)' /\ p \in Holder(c)
  BY <1>1, <1>2, <1>3 DEF Holder, Reached
<1>5. Types'
  <2>1. \A s \in Seq(UpEvent) : Append(s, [type |-> "Init"]) \in Seq(UpEvent)
    BY AppendProperties DEF UpEvent
  <2>2. up' \in [ConnIDs -> Seq(UpEvent)]
    BY <1>1, <2>1 DEF Types
  <2>3. QED
    BY <1>1, <2>2 DEF Types, Phases
<1>6. Connections'
  BY <1>1, <1>2, <1>3 DEF Connections
<1>7. UnderWay'
  <2>1. \A d \in ConnIDs : d # c => up'[d] = up[d]
    BY <1>1 DEF Types
  <2>2. QED
    BY <1>1, <1>4, <2>1 DEF UnderWay, Open
<1>8. QueueIsServed'
  BY <1>1, <1>4 DEF QueueIsServed
<1>9. DoneIsBehind'
  BY <1>1, <1>4, SameQueue DEF DoneIsBehind, Open
<1>10. AllOrNone'
  BY <1>1, SameFiles
<1>11. PlayingIsWhole'
  BY <1>1, <1>3 DEF PlayingIsWhole
<1>12. QED
  BY <1>5, <1>6, <1>7, <1>8, <1>9, <1>10, <1>11

-----------------------------------------------------------------------------
(***************************************************************************)
(* The server's steps.                                                     *)
(***************************************************************************)
\* Where a client holds an identifier, what is pending for it is what stands
\* on that identifier's transfer and queue.
LEMMA PendingAt ==
  ASSUME NEW c \in ConnIDs, NEW p \in Holder(c), NEW lf
  PROVE  Pending(p, lf) <=>
           \/ transfer[c].file = lf
           \/ \E j \in 1..Len(fileQueue[c]) : fileQueue[c][j] = [file |-> lf]
BY UpdaterAssumption DEF Pending, Holder

LEMMA SendOnesIInv ==
  ASSUME IInv, SendOnes
  PROVE  IInv'
<1> USE DEF IInv, client, history
<1> DEFINE first == [c \in ConnIDs |->
                       IF MaySend(c) THEN Head(fileQueue[c]) ELSE Done(NoMap)]
<1>1. /\ fileQueue' = [c \in ConnIDs |->
           IF MaySend(c) THEN Tail(fileQueue[c]) ELSE fileQueue[c]]
      /\ sendingFile' = [c \in ConnIDs |-> sendingFile[c] \/ IsFile(first[c])]
      /\ transfer' = [c \in ConnIDs |->
           IF Reached(c) /\ IsFile(first[c])
             THEN [file |-> first[c].file, stage |-> "offered"] ELSE transfer[c]]
      /\ down' = [c \in ConnIDs |->
           IF Reached(c) /\ MaySend(c) /\ ~IsFile(first[c])
             THEN Append(down[c], [type |-> "RequestDone", level |-> first[c].done])
             ELSE down[c]]
      /\ UNCHANGED <<map, up, conn, phase, ready, requests, disk, spoiled, delivered, cut>>
  BY DEF SendOnes
<1>2. /\ \A c : Holder(c)' = Holder(c) /\ (Open(c)' <=> Open(c)) /\ (Reached(c)' <=> Reached(c))
      /\ Connections'
  BY <1>1, SameConnections
<1>3. ASSUME NEW c \in ConnIDs, ~MaySend(c)
      PROVE  UNCHANGED <<fileQueue[c], sendingFile[c], transfer[c], down[c], delivered[c]>>
  <2>1. ~IsFile(first[c])
    BY <1>3 DEF IsFile, Done
  <2>2. QED
    BY <1>1, <1>3, <2>1 DEF Types
<1>4. ASSUME NEW c \in ConnIDs, MaySend(c)
      PROVE  /\ fileQueue[c] \in Seq(Entry) /\ fileQueue[c] # <<>> /\ ~sendingFile[c]
             /\ transfer[c] = Nothing /\ fileQueue'[c] = Tail(fileQueue[c])
             /\ sendingFile'[c] = IsFile(fileQueue[c][1])
             /\ transfer'[c] = IF Reached(c) /\ IsFile(fileQueue[c][1])
                  THEN [file |-> fileQueue[c][1].file, stage |-> "offered"] ELSE Nothing
             /\ down'[c] = IF Reached(c) /\ ~IsFile(fileQueue[c][1])
                  THEN Append(down[c],
                              [type |-> "RequestDone", level |-> fileQueue[c][1].done])
                  ELSE down[c]
  <2>1. fileQueue[c] \in Seq(Entry) /\ fileQueue[c] # <<>> /\ ~sendingFile[c]
    BY <1>4 DEF MaySend, Types
  <2>2. transfer[c] = Nothing
    BY <2>1 DEF UnderWay
  <2>3. first[c] = fileQueue[c][1]
    BY <1>4, <2>1, Popped
  <2> HIDE DEF first
  <2>4. sendingFile'[c] = IsFile(fileQueue[c][1])
    BY <1>1, <2>1, <2>3 DEF IsFile
  <2>5. fileQueue'[c] = Tail(fileQueue[c])
    BY <1>1, <1>4
  <2>6. transfer'[c] = IF Reached(c) /\ IsFile(fileQueue[c][1])
          THEN [file |-> fileQueue[c][1].file, stage |-> "offered"] ELSE Nothing
    BY <1>1, <2>2, <2>3
  <2>7. down'[c] = IF Reached(c) /\ ~IsFile(fileQueue[c][1])
          THEN Append(down[c], [type |-> "RequestDone", level |-> fileQueue[c][1].done])
          ELSE down[c]
    BY <1>1, <1>4, <2>3
  <2>8. QED
    BY <2>1, <2>2, <2>4, <2>5, <2>6, <2>7
<1> HIDE DEF first
<1>5. Types'
  <2> SUFFICES ASSUME NEW c \in ConnIDs
               PROVE  /\ fileQueue'[c] \in Seq(Entry) /\ sendingFile'[c] \in BOOLEAN
                      /\ transfer'[c] \in InTransfer \cup {Nothing}
                      /\ down'[c] \in Seq(DownEvent)
    BY <1>1 DEF Types
  <2>1. CASE ~MaySend(c)
    BY <1>3, <2>1 DEF Types
  <2>2. CASE MaySend(c)
    <3> DEFINE e == fileQueue[c][1]
    <3>1. e \in Entry /\ Tail(fileQueue[c]) \in Seq(Entry)
      BY <1>4, <2>2, Popped
    <3>2. down[c] \in Seq(DownEvent)
      BY DEF Types
    <3>3. IsFile(e) => [file |-> e.file, stage |-> "offered"] \in InTransfer
      BY <3>1, EntryKinds DEF InTransfer
    <3>4. ~IsFile(e) =>
            Append(down[c], [type |-> "RequestDone", level |-> e.done]) \in Seq(DownEvent)
      BY <3>1, <3>2, EntryKinds, AppendProperties DEF DownEvent
    <3>5. IsFile(e) \in BOOLEAN
      BY DEF IsFile
    <3> HIDE DEF e
    <3>6. QED
      BY <1>4, <2>2, <3>1, <3>2, <3>3, <3>4, <3>5 DEF e
  <2>3. QED
    BY <2>1, <2>2
<1>6. UnderWay'
  <2> SUFFICES ASSUME NEW c \in ConnIDs
               PROVE /\ ~Open(c)' => down'[c] = <<>>
                     /\ up'[c] # <<>> => Reached(c)'
                     /\ transfer'[c] # Nothing => Reached(c)' /\ sendingFile'[c]
                     /\ transfer'[c].stage = "arrived" =>
                          /\ transfer'[c].file \in delivered'[c]
                          /\ \A q \in Holder(c)' : disk'[q][transfer'[c].file] = "whole"
    BY DEF UnderWay
  <2>1. CASE ~MaySend(c)
    BY <1>1, <1>2, <1>3, <2>1 DEF UnderWay
  <2>2. CASE MaySend(c)
    <3>1. ~Open(c) => ~Reached(c)
      BY DEF Open, Reached
    <3>2. transfer'[c].stage # "arrived"
      <4>1. CASE Reached(c) /\ IsFile(fileQueue[c][1])
        <5>1. transfer'[c] = [file |-> fileQueue[c][1].file, stage |-> "offered"]
          BY <1>4, <2>2, <4>1
        <5>2. QED
          BY <5>1
      <4>2. CASE ~(Reached(c) /\ IsFile(fileQueue[c][1]))
        <5>1. transfer'[c] = Nothing
          BY <1>4, <2>2, <4>2
        <5>2. QED
          BY <5>1, NothingIsNone
      <4>3. QED
        BY <4>1, <4>2
    <3>3. ~Open(c) => down'[c] = <<>>
      BY <1>4, <2>2, <3>1 DEF UnderWay
    <3>4. transfer'[c] # Nothing => Reached(c) /\ sendingFile'[c]
      BY <1>4, <2>2
    <3>5. QED
      BY <1>1, <1>2, <3>2, <3>3, <3>4 DEF UnderWay
  <2>3. QED
    BY <2>1, <2>2
<1>7. QueueIsServed'
  <2> SUFFICES ASSUME NEW c \in ConnIDs, NEW q \in Holder(c), fileQueue'[c] # <<>>,
                      ~spoiled[c] \/ q \notin cut
               PROVE  fileQueue[c] # <<>>
    BY <1>1, <1>2 DEF QueueIsServed
  <2>1. QED
    BY <1>3, <1>4
<1>8. ASSUME NEW c \in ConnIDs, ~spoiled[c], Open(c)
      PROVE  BehindAt(c)'
  <2>0. BehindAt(c)
    BY <1>8 DEF DoneIsBehind
  <2>1. CASE ~MaySend(c)
    BY <1>3, <2>0, <2>1, SameQueue
  <2>2. CASE MaySend(c)
    <3> DEFINE q == fileQueue[c]  e == q[1]  t == Tail(q)
    <3>1. /\ q \in Seq(Entry) /\ q # <<>> /\ e \in Entry /\ t \in Seq(Entry)
          /\ \A i \in 1..Len(t) : i + 1 \in 1..Len(q) /\ t[i] = q[i + 1]
          /\ \A i \in 1..Len(q) : i # 1 => i - 1 \in 1..Len(t) /\ q[i] = t[i - 1]
          /\ 1 \in 1..Len(q)
      BY <1>4, <2>2, Popped
    <3>2. Reached(c)
      BY <1>8, <3>1 DEF QueueIsServed, Open
    <3>3. down[c] \in Seq(DownEvent)
      BY DEF Types
    <3>4. ~IsFile(e) => \A f \in Files : <<e.done, f>> \in delivered[c]
      <4> SUFFICES ASSUME ~IsFile(e), NEW f \in Files PROVE <<e.done, f>> \in delivered[c]
        OBVIOUS
      <4>1. ~Before(q, 1, <<e.done, f>>)
        BY <3>1 DEF Before
      <4>2. Nothing.file # <<e.done, f>>
        BY <3>1, EntryKinds, NothingIsNone
      <4>3. QED
        BY <1>4, <2>0, <2>2, <3>1, <4>1, <4>2 DEF BehindAt
    <3>5. \A i \in 1..Len(down'[c]) : down'[c][i].type = "RequestDone" =>
            \A f \in Files : <<down'[c][i].level, f>> \in delivered[c]
      <4>1. CASE IsFile(e)
        BY <1>4, <2>0, <2>2, <4>1 DEF BehindAt
      <4>2. CASE ~IsFile(e)
        <5> DEFINE m == [type |-> "RequestDone", level |-> e.done]
        <5>1. m \in DownEvent /\ m.level = e.done
          BY <3>1, <4>2, EntryKinds DEF DownEvent
        <5>2. down'[c] = Append(down[c], m)
          BY <1>4, <2>2, <3>2, <4>2
        <5> HIDE DEF m
        <5>3. \A i \in 1..Len(down'[c]) : \/ i \in 1..Len(down[c]) /\ down'[c][i] = down[c][i]
                                          \/ down'[c][i] = m
          BY <3>3, <5>1, <5>2, AppendProperties
        <5>4. QED
          BY <2>0, <3>4, <4>2, <5>1, <5>3 DEF BehindAt
      <4>3. QED
        BY <4>1, <4>2
    <3>6. ASSUME NEW i \in 1..Len(t), ~IsFile(t[i]), NEW f \in Files
          PROVE  LET lf == <<t[i].done, f>> IN
                 lf \in delivered[c] \/ transfer'[c].file = lf \/ Before(t, i, lf)
      <4> DEFINE lf == <<t[i].done, f>>
      <4>1. i + 1 \in 1..Len(q) /\ t[i] = q[i + 1] /\ t[i] \in Entry
        BY <3>1, ElementOfSeq
      <4>2. Nothing.file # lf
        BY <3>6, <4>1, EntryKinds, NothingIsNone
      <4>3. lf \in delivered[c] \/ Before(q, i + 1, lf)
        BY <1>4, <2>0, <2>2, <3>6, <4>1, <4>2 DEF BehindAt
      <4> HIDE DEF lf
      <4>4. ASSUME Before(q, i + 1, lf)
            PROVE  transfer'[c].file = lf \/ Before(t, i, lf)
        <5>1. PICK j \in 1..Len(q) : j < i + 1 /\ q[j] = [file |-> lf]
          BY <4>4 DEF Before
        <5>2. CASE j = 1
          <6>1. e = [file |-> lf]
            BY <5>1, <5>2
          <6>2. IsFile(e) /\ e.file = lf
            BY <6>1 DEF IsFile
          <6>3. transfer'[c] = [file |-> e.file, stage |-> "offered"]
            BY <1>4, <2>2, <3>2, <6>2
          <6>4. QED
            BY <6>2, <6>3
        <5>3. CASE j # 1
          <6>1. j - 1 \in 1..Len(t) /\ t[j - 1] = [file |-> lf] /\ j - 1 < i
            BY <3>1, <5>1, <5>3
          <6>2. QED
            BY <6>1 DEF Before
        <5>4. QED
          BY <5>2, <5>3
      <4>5. QED
        BY <4>3, <4>4 DEF lf
    <3>7. fileQueue'[c] = t /\ delivered'[c] = delivered[c]
      BY <1>1, <1>4, <2>2
    <3> HIDE DEF q, e, t
    <3>8. QED
      BY <3>5, <3>6, <3>7 DEF BehindAt
  <2>3. QED
    BY <2>1, <2>2
<1>9. DoneIsBehind'
  BY <1>1, <1>2, <1>8 DEF DoneIsBehind
<1>10. ASSUME NEW p \in Clients \ cut, NEW lf \in Levels \X Files
       PROVE  Pending(p, lf)' <=> Pending(p, lf)
  <2>1. CASE conn[p] = NoConn
    BY <1>1, <2>1 DEF Pending
  <2>2. CASE conn[p] # NoConn
    <3>1. PICK c \in ConnIDs : c = conn[p]
      BY <2>2, TheHolder
    <3>2. p \in Holder(c) /\ p \in Holder(c)'
      BY <1>2, <3>1 DEF Holder
    <3>3. /\ Pending(p, lf) <=>
               \/ transfer[c].file = lf
               \/ \E j \in 1..Len(fileQueue[c]) : fileQueue[c][j] = [file |-> lf]
          /\ Pending(p, lf)' <=>
               \/ transfer'[c].file = lf
               \/ \E j \in 1..Len(fileQueue'[c]) : fileQueue'[c][j] = [file |-> lf]
      <4>1. conn'[p] = c /\ c # NoConn
        BY <1>1, <2>2, <3>1
      <4>2. QED
        BY <3>1, <4>1 DEF Pending
    <3>4. CASE ~MaySend(c)
      BY <1>3, <3>3, <3>4
    <3>5. CASE MaySend(c)
      <4> DEFINE q == fileQueue[c]  e == q[1]  t == Tail(q)
      <4>1. /\ q # <<>> /\ e \in Entry
            /\ \A i \in 1..Len(t) : i + 1 \in 1..Len(q) /\ t[i] = q[i + 1]
            /\ \A i \in 1..Len(q) : i # 1 => i - 1 \in 1..Len(t) /\ q[i] = t[i - 1]
            /\ 1 \in 1..Len(q)
        BY <1>4, <3>5, Popped
      <4>2. Reached(c)
        BY <3>2, <4>1 DEF QueueIsServed
      <4>3. (\E j \in 1..Len(q) : q[j] = [file |-> lf]) <=>
              e = [file |-> lf] \/ \E j \in 1..Len(t) : t[j] = [file |-> lf]
        BY <4>1
      <4>4. e = [file |-> lf] <=> transfer'[c].file = lf
        <5>1. CASE IsFile(e)
          <6>1. transfer'[c] = [file |-> e.file, stage |-> "offered"]
            BY <1>4, <3>5, <4>2, <5>1
          <6>2. transfer'[c].file = e.file
            BY <6>1
          <6>3. e = [file |-> e.file]
            BY <4>1, <5>1, EntryKinds
          <6>4. e = [file |-> lf] => e.file = lf
            OBVIOUS
          <6>5. QED
            BY <6>2, <6>3, <6>4
        <5>2. CASE ~IsFile(e)
          <6>1. transfer'[c].file # lf
            BY <1>4, <3>5, <5>2, NothingIsNone
          <6>2. QED
            BY <5>2, <6>1 DEF IsFile
        <5>3. QED
          BY <5>1, <5>2
      <4>5. transfer[c].file # lf /\ fileQueue'[c] = t
        BY <1>4, <3>5, NothingIsNone
      <4> HIDE DEF e, t
      <4>6. QED
        BY <3>3, <4>3, <4>4, <4>5
    <3>6. QED
      BY <3>4, <3>5
  <2>3. QED
    BY <2>1, <2>2
<1>11. AllOrNone'
  BY <1>1, <1>10 DEF AllOrNone
<1>12. PlayingIsWhole'
  BY <1>1 DEF PlayingIsWhole
<1>13. QED
  BY <1>2, <1>5, <1>6, <1>7, <1>9, <1>11, <1>12

\* One event of the events on their way is taken.
LEMMA UpTaken ==
  ASSUME Types, UnderWay, NEW c \in ConnIDs, up[c] # <<>>, up' = Taken(up, c)
  PROVE  /\ up' \in [ConnIDs -> Seq(UpEvent)] /\ Head(up[c]) \in UpEvent
         /\ Reached(c) /\ \A d \in ConnIDs : up'[d] # <<>> => Reached(d)
<1>1. up[c] \in Seq(UpEvent)
  BY DEF Types
<1>2. Tail(up[c]) \in Seq(UpEvent) /\ Head(up[c]) \in UpEvent
  BY <1>1, HeadTailProperties
<1>3. \A d \in ConnIDs : d # c => up'[d] = up[d]
  BY DEF Taken, Types
<1>4. QED
  BY <1>2, <1>3 DEF Taken, Types, UnderWay

LEMMA EventInitIInv ==
  ASSUME IInv, NEW c \in ConnIDs, EventInit(c)
  PROVE  IInv'
<1> USE DEF IInv, server, client
<1>1. PICK autoDownloads \in BOOLEAN :
        /\ down' = [down EXCEPT ![c] = Append(@,
             [type |-> IF autoDownloads THEN "Hello" ELSE "Sorry"])]
        /\ spoiled' = [spoiled EXCEPT ![c] = @ \/ ~autoDownloads]
  BY DEF EventInit
<1>2. /\ up[c] # <<>> /\ up' = Taken(up, c)
      /\ UNCHANGED <<map, fileQueue, sendingFile, transfer, conn, phase, ready,
                     requests, disk, delivered, cut>>
  BY DEF EventInit
<1>3. /\ \A d : Holder(d)' = Holder(d) /\ (Open(d)' <=> Open(d)) /\ (Reached(d)' <=> Reached(d))
      /\ Connections'
  BY <1>2, SameConnections
<1>4. /\ up' \in [ConnIDs -> Seq(UpEvent)]
      /\ Reached(c) /\ \A d \in ConnIDs : up'[d] # <<>> => Reached(d)
  BY <1>2, UpTaken
<1> DEFINE m == [type |-> IF autoDownloads THEN "Hello" ELSE "Sorry"]
<1>5. down[c] \in Seq(DownEvent) /\ m \in DownEvent /\ m.type # "RequestDone"
  BY DEF Types, DownEvent
<1>6. down'[c] = Append(down[c], m) /\ \A d \in ConnIDs : d # c => down'[d] = down[d]
  BY <1>1 DEF Types
<1> HIDE DEF m
<1>7. /\ down'[c] \in Seq(DownEvent)
      /\ \A i \in 1..Len(down'[c]) : \/ i \in 1..Len(down[c]) /\ down'[c][i] = down[c][i]
                                     \/ down'[c][i] = m
  BY <1>5, <1>6, AppendProperties
<1>8. \A d \in ConnIDs : ~spoiled'[d] => ~spoiled[d]
  BY <1>1 DEF Types
<1>9. Types'
  <2>1. down' \in [ConnIDs -> Seq(DownEvent)]
    BY <1>1, <1>6, <1>7 DEF Types
  <2>2. spoiled' \in [ConnIDs -> BOOLEAN]
    BY <1>1 DEF Types
  <2>3. QED
    BY <1>2, <1>4, <2>1, <2>2 DEF Types
<1>10. UnderWay'
  <2>1. Open(c)
    BY <1>4 DEF Open, Reached
  <2>2. \A d \in ConnIDs : ~Open(d) => down'[d] = <<>>
    BY <1>6, <2>1 DEF UnderWay
  <2>3. QED
    BY <1>2, <1>3, <1>4, <2>2 DEF UnderWay
<1>11. QueueIsServed'
  BY <1>2, <1>3, <1>8 DEF QueueIsServed
<1>12. DoneIsBehind'
  <2> SUFFICES ASSUME NEW d \in ConnIDs, ~spoiled[d], Open(d) PROVE BehindAt(d)'
    BY <1>3, <1>8 DEF DoneIsBehind
  <2>1. BehindAt(d)
    BY DEF DoneIsBehind
  <2>2. CASE d = c
    BY <1>2, <1>5, <1>7, <2>1, <2>2 DEF BehindAt, Before
  <2>3. CASE d # c
    BY <1>2, <1>6, <2>1, <2>3, SameQueue
  <2>4. QED
    BY <2>2, <2>3
<1>13. AllOrNone'
  BY <1>2, SameFiles
<1>14. PlayingIsWhole'
  BY <1>2 DEF PlayingIsWhole
<1>15. QED
  BY <1>3, <1>9, <1>10, <1>11, <1>12, <1>13, <1>14

\* The level a request names is taken down with its files before it, or the
\* connection is spoiled.
LEMMA MsgRequestLevelIInv ==
  ASSUME IInv, NEW c \in ConnIDs, MsgRequestLevel(c)
  PROVE  IInv'
<1> USE DEF IInv, client
<1> DEFINE l == Head(up[c]).level
<1>1. /\ up[c] # <<>> /\ up' = Taken(up, c) /\ Head(up[c]).type = "RequestLevel"
      /\ UNCHANGED <<map, sendingFile, down, transfer, conn, phase, ready,
                     requests, disk, delivered, cut>>
      /\ \/ queueLevel(c, l) /\ UNCHANGED spoiled
         \/ spoiled' = [spoiled EXCEPT ![c] = TRUE] /\ UNCHANGED fileQueue
  BY DEF MsgRequestLevel
<1>2. /\ \A d : Holder(d)' = Holder(d) /\ (Open(d)' <=> Open(d)) /\ (Reached(d)' <=> Reached(d))
      /\ Connections'
  BY <1>1, SameConnections
<1>3. /\ up' \in [ConnIDs -> Seq(UpEvent)] /\ Head(up[c]) \in UpEvent
      /\ Reached(c) /\ \A d \in ConnIDs : up'[d] # <<>> => Reached(d)
  BY <1>1, UpTaken
<1>4. l \in Levels
  BY <1>1, <1>3 DEF UpEvent
<1>5. \A d \in ConnIDs : ~spoiled'[d] => ~spoiled[d]
  BY <1>1 DEF Types
<1>6. UnderWay'
  BY <1>1, <1>2, <1>3 DEF UnderWay
<1>7. PlayingIsWhole'
  BY <1>1 DEF PlayingIsWhole
<1> HIDE DEF l
<1>8. CASE fileQueue' = fileQueue
  <2>1. Types'
    BY <1>1, <1>3, <1>8 DEF Types
  <2>2. QueueIsServed'
    BY <1>1, <1>2, <1>5, <1>8 DEF QueueIsServed
  <2>3. DoneIsBehind'
    <3> SUFFICES ASSUME NEW d \in ConnIDs, ~spoiled'[d], Open(d)
                 PROVE  BehindAt(d)'
      BY <1>2 DEF DoneIsBehind
    <3>1. ~spoiled[d] /\ BehindAt(d)
      BY <1>5 DEF DoneIsBehind
    <3>2. QED
      BY <1>1, <1>8, <3>1, SameQueue
  <2>4. AllOrNone'
    BY <1>1, <1>8, SameFiles
  <2>5. QED
    BY <1>2, <1>6, <1>7, <2>1, <2>2, <2>3, <2>4
<1>9. CASE queueLevel(c, l) /\ UNCHANGED spoiled
  <2> DEFINE q == fileQueue[c]
  <2>1. PICK listing \in Listings(l) :
          fileQueue' = [fileQueue EXCEPT ![c] = (@ \o listing) \o <<Done(l)>>]
    BY <1>9 DEF queueLevel
  <2> DEFINE r == (q \o listing) \o <<Done(l)>>
  <2>2. /\ q \in Seq(Entry)
        /\ fileQueue'[c] = r /\ \A d \in ConnIDs : d # c => fileQueue'[d] = fileQueue[d]
    BY <2>1 DEF Types
  <2>3. /\ r \in Seq(Entry) /\ Len(r) > Len(q)
        /\ \A i \in 1..Len(q) : r[i] = q[i]
        /\ \A i \in 1..Len(r) : i > Len(q) =>
             \/ i < Len(r) /\ \E f \in Files : r[i] = File(l, f)
             \/ i = Len(r) /\ r[i] = Done(l)
        /\ \A f \in Files :
             \E i \in 1..Len(r) : i > Len(q) /\ i < Len(r) /\ r[i] = File(l, f)
    BY <1>4, <2>2, Queued
  <2> HIDE DEF r
  <2>n. Len(q) \in Nat /\ Len(r) \in Nat
    BY <2>2, <2>3, LenProperties
  <2>4. Types'
    <3>1. fileQueue' \in [ConnIDs -> Seq(Entry)]
      BY <2>1, <2>2, <2>3 DEF Types
    <3>2. QED
      BY <1>1, <1>3, <1>9, <3>1 DEF Types
  <2>5. QueueIsServed'
    BY <1>1, <1>2, <1>3, <1>9, <2>2 DEF QueueIsServed
  <2>6. DoneIsBehind'
    <3> SUFFICES ASSUME NEW d \in ConnIDs, ~spoiled[d], Open(d) PROVE BehindAt(d)'
      BY <1>2, <1>5 DEF DoneIsBehind
    <3>1. BehindAt(d)
      BY DEF DoneIsBehind
    <3>2. CASE d # c
      BY <1>1, <2>2, <3>1, <3>2, SameQueue
    <3>3. CASE d = c
      <4> SUFFICES ASSUME NEW i \in 1..Len(r), ~IsFile(r[i]), NEW f \in Files
                   PROVE  LET lf == <<r[i].done, f>> IN
                          lf \in delivered[c] \/ transfer[c].file = lf \/ Before(r, i, lf)
        BY <1>1, <2>2, <3>1, <3>3 DEF BehindAt
      <4>1. CASE i > Len(q)
        <5>1. i = Len(r) /\ r[i].done = l
          BY <1>4, <2>3, <4>1, EntriesMade
        <5>2. Before(r, i, <<l, f>>)
          BY <1>4, <2>3, <5>1, EntriesMade DEF Before
        <5>3. QED
          BY <5>1, <5>2
      <4>2. CASE ~(i > Len(q))
        <5>1. i \in 1..Len(q) /\ r[i] = q[i]
          BY <2>n, <2>3, <4>2
        <5>2. \A lf : Before(q, i, lf) => Before(r, i, lf)
          <6>1. \A j \in 1..Len(q) : j \in 1..Len(r) /\ r[j] = q[j]
            BY <2>n, <2>3
          <6>2. QED
            BY <6>1 DEF Before
        <5>3. QED
          BY <3>1, <3>3, <5>1, <5>2 DEF BehindAt
      <4>3. QED
        BY <4>1, <4>2
    <3>4. QED
      BY <3>2, <3>3
  <2>7. ASSUME NEW p \in Clients, NEW lf \in Levels \X Files
        PROVE  Pending(p, lf)' <=> \/ Pending(p, lf)
                                   \/ conn[p] = c /\ \E f \in Files : lf = <<l, f>>
    <3>1. CASE conn[p] # c
      BY <1>1, <2>2, <3>1 DEF Pending, Types
    <3>2. CASE conn[p] = c
      <4>1. c # NoConn
        BY UpdaterAssumption
      <4>2. (\E j \in 1..Len(r) : r[j] = [file |-> lf]) <=>
              \/ \E j \in 1..Len(q) : q[j] = [file |-> lf]
              \/ \E f \in Files : lf = <<l, f>>
        <5>1. ASSUME NEW j \in 1..Len(r), r[j] = [file |-> lf], j > Len(q)
              PROVE  \E f \in Files : lf = <<l, f>>
          <6>1. IsFile(r[j]) /\ r[j] # Done(l)
            BY <1>4, <5>1, EntriesMade DEF IsFile
          <6>2. PICK f \in Files : r[j] = File(l, f)
            BY <2>3, <5>1, <6>1
          <6>3. QED
            BY <5>1, <6>2 DEF File
        <5>2. \A j \in 1..Len(q) : j \in 1..Len(r)
          BY <2>n, <2>3
        <5>3. \A f \in Files : \E j \in 1..Len(r) : r[j] = [file |-> <<l, f>>]
          BY <2>3 DEF File
        <5>4. \A j \in 1..Len(r) : j > Len(q) \/ j \in 1..Len(q)
          BY <2>n
        <5>5. QED
          BY <2>3, <5>1, <5>2, <5>3, <5>4
      <4>3. QED
        BY <1>1, <2>2, <3>2, <4>1, <4>2 DEF Pending
    <3>3. QED
      BY <3>1, <3>2
  <2>8. AllOrNone'
    <3> SUFFICES ASSUME NEW p \in Clients \ cut, NEW k \in Levels, NEW g \in Files,
                        disk[p][<<k, g>>] # "absent" \/ Pending(p, <<k, g>>)',
                        NEW f \in Files
                 PROVE  disk[p][<<k, f>>] = "whole" \/ Pending(p, <<k, f>>)'
      BY <1>1 DEF AllOrNone
    <3>1. CASE k = l /\ conn[p] = c
      BY <2>7, <3>1
    <3>2. CASE ~(k = l /\ conn[p] = c)
      <4>1. disk[p][<<k, g>>] # "absent" \/ Pending(p, <<k, g>>)
        BY <2>7, <3>2
      <4>2. disk[p][<<k, f>>] = "whole" \/ Pending(p, <<k, f>>)
        BY <4>1 DEF AllOrNone
      <4>3. QED
        BY <2>7, <4>2
    <3>3. QED
      BY <3>1, <3>2
  <2>9. QED
    BY <1>2, <1>6, <1>7, <2>4, <2>5, <2>6, <2>8
<1>10. QED
  BY <1>1, <1>8, <1>9

LEMMA FileCompleteIInv ==
  ASSUME IInv, NEW c \in ConnIDs, FileComplete(c)
  PROVE  IInv'
<1> USE DEF IInv, client, history
<1>1. /\ transfer[c].stage = "arrived" /\ transfer' = [transfer EXCEPT ![c] = Nothing]
      /\ sendingFile' = [sendingFile EXCEPT ![c] = FALSE]
      /\ UNCHANGED <<map, fileQueue, up, down, conn, phase, ready, requests, disk,
                     spoiled, delivered, cut>>
  BY DEF FileComplete
<1>2. /\ \A d : Holder(d)' = Holder(d) /\ (Open(d)' <=> Open(d)) /\ (Reached(d)' <=> Reached(d))
      /\ Connections'
  BY <1>1, SameConnections
<1>3. /\ transfer'[c] = Nothing
      /\ \A d \in ConnIDs : d # c =>
           transfer'[d] = transfer[d] /\ sendingFile'[d] = sendingFile[d]
  BY <1>1 DEF Types
<1>4. /\ transfer[c].file \in delivered[c]
      /\ \A p \in Holder(c) : disk[p][transfer[c].file] = "whole"
  BY <1>1 DEF UnderWay
<1>5. Types'
  BY <1>1 DEF Types
<1>6. UnderWay'
  <2> SUFFICES ASSUME NEW d \in ConnIDs
               PROVE /\ ~Open(d)' => down'[d] = <<>>
                     /\ up'[d] # <<>> => Reached(d)'
                     /\ transfer'[d] # Nothing => Reached(d)' /\ sendingFile'[d]
                     /\ transfer'[d].stage = "arrived" =>
                          /\ transfer'[d].file \in delivered'[d]
                          /\ \A q \in Holder(d)' : disk'[q][transfer'[d].file] = "whole"
    BY DEF UnderWay
  <2>1. CASE d = c
    BY <1>1, <1>2, <1>3, <2>1, NothingIsNone DEF UnderWay
  <2>2. CASE d # c
    BY <1>1, <1>2, <1>3, <2>2 DEF UnderWay
  <2>3. QED
    BY <2>1, <2>2
<1>7. QueueIsServed'
  BY <1>1, <1>2 DEF QueueIsServed
<1>8. DoneIsBehind'
  <2> SUFFICES ASSUME NEW d \in ConnIDs, ~spoiled[d], Open(d) PROVE BehindAt(d)'
    BY <1>1, <1>2 DEF DoneIsBehind
  <2>1. BehindAt(d)
    BY DEF DoneIsBehind
  <2>2. CASE d = c
    BY <1>1, <1>4, <2>1, <2>2 DEF BehindAt, Before
  <2>3. CASE d # c
    BY <1>1, <1>3, <2>1, <2>3, SameQueue
  <2>4. QED
    BY <2>2, <2>3
<1>9. ASSUME NEW p \in Clients, NEW lf \in Levels \X Files
      PROVE  /\ Pending(p, lf)' => Pending(p, lf)
             /\ Pending(p, lf) => Pending(p, lf)' \/ disk[p][lf] = "whole"
  <2>1. CASE conn[p] = c
    <3>1. p \in Holder(c) /\ c # NoConn
      BY <2>1, UpdaterAssumption DEF Holder
    <3>2. QED
      BY <1>1, <1>3, <1>4, <2>1, <3>1, NothingIsNone DEF Pending
  <2>2. CASE conn[p] # c
    BY <1>1, <1>3, <2>2 DEF Pending, Types
  <2>3. QED
    BY <2>1, <2>2
<1>10. AllOrNone'
  <2> SUFFICES ASSUME NEW p \in Clients \ cut, NEW l \in Levels, NEW g \in Files,
                      disk[p][<<l, g>>] # "absent" \/ Pending(p, <<l, g>>)',
                      NEW f \in Files
               PROVE  disk[p][<<l, f>>] = "whole" \/ Pending(p, <<l, f>>)'
    BY <1>1 DEF AllOrNone
  <2>1. disk[p][<<l, g>>] # "absent" \/ Pending(p, <<l, g>>)
    BY <1>9
  <2>2. disk[p][<<l, f>>] = "whole" \/ Pending(p, <<l, f>>)
    BY <2>1 DEF AllOrNone
  <2>3. QED
    BY <1>9, <2>2
<1>11. PlayingIsWhole'
  BY <1>1 DEF PlayingIsWhole
<1>12. QED
  BY <1>2, <1>5, <1>6, <1>7, <1>8, <1>10, <1>11

-----------------------------------------------------------------------------
(***************************************************************************)
(* The client's steps.                                                     *)
(***************************************************************************)
LEMMA RequestLevelsIInv ==
  ASSUME IInv, NEW p \in Clients, RequestLevels(p)
  PROVE  IInv'
<1> USE DEF IInv, server, history
<1> DEFINE c == conn[p]
           sent == [i \in DOMAIN requests[p] |->
                      [type |-> "RequestLevel", level |-> requests[p][i]]]
<1>1. /\ phase[p] \in {"updating", "done"} /\ up' = [up EXCEPT ![c] = @ \o sent]
      /\ requests' = [requests EXCEPT ![p] = <<>>]
      /\ UNCHANGED <<map, fileQueue, sendingFile, down, transfer, conn, phase, ready,
                     disk, spoiled, delivered, cut>>
  BY DEF RequestLevels
<1>2. /\ \A d : Holder(d)' = Holder(d) /\ (Open(d)' <=> Open(d)) /\ (Reached(d)' <=> Reached(d))
      /\ Connections'
  BY <1>1, SameConnections
<1>3. c \in ConnIDs /\ Reached(c)
  BY <1>1, TheHolder DEF Connections
<1>4. Types'
  <2>1. requests[p] \in Seq(Levels)
    BY DEF Types
  <2>2. /\ DOMAIN requests[p] = 1..Len(requests[p]) /\ Len(requests[p]) \in Nat
        /\ \A i \in DOMAIN requests[p] : requests[p][i] \in Levels
    BY <2>1, LenProperties, ElementOfSeq
  <2>3. sent \in [1..Len(requests[p]) -> UpEvent]
    BY <2>2 DEF UpEvent
  <2>4. sent \in Seq(UpEvent)
    BY <2>2, <2>3, SeqDef
  <2> HIDE DEF sent
  <2>5. \A s \in Seq(UpEvent) : s \o sent \in Seq(UpEvent)
    BY <2>4, ConcatProperties
  <2>6. up' \in [ConnIDs -> Seq(UpEvent)]
    BY <1>1, <2>5 DEF Types
  <2>7. requests' \in [Clients -> Seq(Levels)]
    BY <1>1, EmptySeq DEF Types
  <2>8. QED
    BY <1>1, <2>6, <2>7 DEF Types
<1> HIDE DEF sent
<1>5. UnderWay'
  <2>1. \A d \in ConnIDs : d # c => up'[d] = up[d]
    BY <1>1 DEF Types
  <2>2. QED
    BY <1>1, <1>2, <1>3, <2>1 DEF UnderWay
<1>6. QueueIsServed'
  BY <1>1, <1>2 DEF QueueIsServed
<1>7. DoneIsBehind'
  BY <1>1, <1>2, SameQueue DEF DoneIsBehind
<1>8. AllOrNone'
  BY <1>1, SameFiles
<1>9. PlayingIsWhole'
  BY <1>1 DEF PlayingIsWhole
<1>10. QED
  BY <1>2, <1>4, <1>5, <1>6, <1>7, <1>8, <1>9

LEMMA MsgAtClientIInv ==
  ASSUME IInv, NEW p \in Clients, MsgAtClient(p)
  PROVE  IInv'
<1> USE DEF IInv, server, history
<1> DEFINE c == conn[p]
           type == Head(down[c]).type
<1>1. /\ c # NoConn /\ down[c] # <<>> /\ down' = Taken(down, c)
      /\ ready' = [ready EXCEPT ![p] = type = "Hello" \/ (@ /\ type # "Sorry")]
      /\ phase' = [phase EXCEPT ![p] = IF type = "RequestDone" THEN "done" ELSE @]
      /\ UNCHANGED <<map, fileQueue, sendingFile, up, transfer, conn, requests, disk,
                     spoiled, delivered, cut>>
  BY DEF MsgAtClient
<1>2. c \in ConnIDs /\ Holder(c) = {p}
  BY <1>1, TheHolder
<1>3. down[c] \in Seq(DownEvent)
  BY <1>2 DEF Types
<1>4. /\ Tail(down[c]) \in Seq(DownEvent) /\ Len(Tail(down[c])) = Len(down[c]) - 1
      /\ \A i \in 1..Len(Tail(down[c])) : Tail(down[c])[i] = down[c][i + 1]
      /\ Len(down[c]) \in Nat
  BY <1>1, <1>3, HeadTailProperties, LenProperties
<1>5. /\ down'[c] = Tail(down[c]) /\ \A d \in ConnIDs : d # c => down'[d] = down[d]
  BY <1>1, <1>2 DEF Taken, Types
<1> HIDE DEF type
<1>6. /\ phase'[p] \in {phase[p], "done"} /\ \A q \in Clients : q # p => phase'[q] = phase[q]
      /\ phase' \in [Clients -> Phases] /\ phase[p] # "out"
  <2>1. phase[p] # "out"
    BY <1>1 DEF Connections
  <2>2. phase' \in [Clients -> Phases]
    BY <1>1 DEF Types, Phases
  <2>3. QED
    BY <1>1, <2>1, <2>2 DEF Types
<1>7. /\ \A d \in ConnIDs : Holder(d)' = Holder(d) /\ (Open(d)' <=> Open(d))
      /\ \A d \in ConnIDs : Reached(d) => Reached(d)'
  BY <1>1, <1>6 DEF Holder, Open, Reached
<1>8. Types'
  <2>1. down' \in [ConnIDs -> Seq(DownEvent)]
    BY <1>1, <1>2, <1>4 DEF Taken, Types
  <2>2. ready' \in [Clients -> BOOLEAN]
    BY <1>1 DEF Types
  <2>3. QED
    BY <1>1, <1>6, <2>1, <2>2 DEF Types
<1>9. Connections'
  BY <1>1, <1>6 DEF Connections
<1>10. UnderWay'
  <2>1. \A d \in ConnIDs : ~Open(d) => down'[d] = <<>>
    <3>1. Open(c)
      BY <1>2 DEF Open
    <3>2. QED
      BY <1>5, <3>1 DEF UnderWay
  <2>2. QED
    BY <1>1, <1>7, <2>1 DEF UnderWay
<1>11. QueueIsServed'
  BY <1>1, <1>7 DEF QueueIsServed
<1>12. DoneIsBehind'
  <2> SUFFICES ASSUME NEW d \in ConnIDs, ~spoiled[d], Open(d) PROVE BehindAt(d)'
    BY <1>1, <1>7 DEF DoneIsBehind
  <2>1. BehindAt(d)
    BY DEF DoneIsBehind
  <2>2. CASE d = c
    <3>1. \A i \in 1..Len(down'[c]) :
            i + 1 \in 1..Len(down[c]) /\ down'[c][i] = down[c][i + 1]
      BY <1>4, <1>5
    <3>2. \A i \in 1..Len(down'[c]) : down'[c][i].type = "RequestDone" =>
            \A f \in Files : <<down'[c][i].level, f>> \in delivered[c]
      BY <2>1, <2>2, <3>1 DEF BehindAt
    <3>3. UNCHANGED <<fileQueue, transfer, delivered>>
      BY <1>1
    <3> HIDE DEF c
    <3>4. QED
      BY <2>1, <2>2, <3>2, <3>3 DEF BehindAt, Before
  <2>3. CASE d # c
    BY <1>1, <1>5, <2>1, <2>3, SameQueue
  <2>4. QED
    BY <2>2, <2>3
<1>13. AllOrNone'
  BY <1>1, SameFiles
<1>14. PlayingIsWhole'
  BY <1>1, <1>6 DEF PlayingIsWhole
<1>15. QED
  BY <1>8, <1>9, <1>10, <1>11, <1>12, <1>13, <1>14

\* The client takes the file, or refuses it and is cut off.
LEMMA FileIncomingIInv ==
  ASSUME IInv, NEW p \in Clients, FileIncoming(p)
  PROVE  IInv'
<1> USE DEF IInv, server
<1>1. PICK c \in ConnIDs : c = conn[p]
  BY TheHolder DEF FileIncoming
<1> DEFINE lf == transfer[c].file
<1>2. /\ c # NoConn /\ transfer[c].stage = "offered"
      /\ UNCHANGED <<map, fileQueue, sendingFile, up, down, conn, phase, ready, requests,
                     delivered>>
      /\ \/ /\ transfer' = [transfer EXCEPT ![c].stage = "accepted"]
            /\ disk' = [disk EXCEPT ![p][lf] = "part"]
            /\ UNCHANGED <<spoiled, cut>>
         \/ /\ transfer' = [transfer EXCEPT ![c] = Nothing]
            /\ spoiled' = [spoiled EXCEPT ![c] = TRUE]
            /\ cut' = cut \cup {p}
            /\ UNCHANGED disk
  BY <1>1 DEF FileIncoming
<1>3. /\ \A d : Holder(d)' = Holder(d) /\ (Open(d)' <=> Open(d)) /\ (Reached(d)' <=> Reached(d))
      /\ Connections'
  BY <1>2, SameConnections
<1>4. /\ Holder(c) = {p} /\ transfer[c] \in InTransfer /\ transfer[c] # Nothing
      /\ lf \in Levels \X Files
  <2>1. transfer[c] # Nothing
    BY <1>2, NothingIsNone
  <2>2. QED
    BY <1>1, <1>2, <2>1, TheHolder DEF Types, InTransfer
<1>5. Reached(c) /\ sendingFile[c] /\ phase[p] \in {"updating", "done"}
  BY <1>1, <1>2, <1>4, TheHolder DEF UnderWay
<1>6. /\ \A d \in ConnIDs : d # c => transfer'[d] = transfer[d] /\ spoiled'[d] = spoiled[d]
      /\ \A q \in Clients : q # p => disk'[q] = disk[q] /\ (q \notin cut' => q \notin cut)
      /\ \A d \in ConnIDs : ~spoiled'[d] => ~spoiled[d]
      /\ cut \subseteq cut'
  BY <1>2 DEF Types
<1>7. \/ transfer'[c] = Nothing /\ spoiled'[c] /\ p \in cut' /\ disk' = disk
      \/ /\ transfer'[c] = [file |-> lf, stage |-> "accepted"]
         /\ disk'[p] = [disk[p] EXCEPT ![lf] = "part"]
         /\ disk' \in [Clients -> [Levels \X Files -> {"absent", "part", "whole"}]]
  <2>1. transfer[c] \in InTransfer =>
          [transfer[c] EXCEPT !.stage = "accepted"] = [file |-> lf, stage |-> "accepted"]
    BY DEF InTransfer
  <2>2. CASE /\ transfer' = [transfer EXCEPT ![c].stage = "accepted"]
             /\ disk' = [disk EXCEPT ![p][lf] = "part"]
    <3>1. transfer'[c] = [transfer[c] EXCEPT !.stage = "accepted"]
      BY <2>2 DEF Types
    <3>2. disk'[p] = [disk[p] EXCEPT ![lf] = "part"]
      BY <2>2 DEF Types
    <3>3. disk' \in [Clients -> [Levels \X Files -> {"absent", "part", "whole"}]]
      BY <1>4, <2>2 DEF Types
    <3>4. QED
      BY <1>4, <2>1, <3>1, <3>2, <3>3
  <2>3. CASE /\ transfer' = [transfer EXCEPT ![c] = Nothing]
             /\ spoiled' = [spoiled EXCEPT ![c] = TRUE]
             /\ cut' = cut \cup {p} /\ disk' = disk
    BY <2>3 DEF Types
  <2>4. QED
    BY <1>2, <2>2, <2>3
<1>8. Types'
  <2>1. transfer' \in [ConnIDs -> InTransfer \cup {Nothing}]
    <3>1. transfer'[c] \in InTransfer \cup {Nothing}
      BY <1>4, <1>7 DEF InTransfer
    <3>2. QED
      BY <1>2, <1>6, <3>1 DEF Types
  <2>2. disk' \in [Clients -> [Levels \X Files -> {"absent", "part", "whole"}]]
    BY <1>7 DEF Types
  <2>3. spoiled' \in [ConnIDs -> BOOLEAN] /\ cut' \subseteq Clients
    BY <1>2 DEF Types
  <2>4. QED
    BY <1>2, <2>1, <2>2, <2>3 DEF Types
<1>9. UnderWay'
  <2> SUFFICES ASSUME NEW d \in ConnIDs
               PROVE /\ ~Open(d)' => down'[d] = <<>>
                     /\ up'[d] # <<>> => Reached(d)'
                     /\ transfer'[d] # Nothing => Reached(d)' /\ sendingFile'[d]
                     /\ transfer'[d].stage = "arrived" =>
                          /\ transfer'[d].file \in delivered'[d]
                          /\ \A q \in Holder(d)' : disk'[q][transfer'[d].file] = "whole"
    BY DEF UnderWay
  <2>1. CASE d = c
    <3>1. transfer'[c].stage # "arrived"
      BY <1>7, NothingIsNone
    <3>2. QED
      BY <1>2, <1>3, <1>5, <2>1, <3>1 DEF UnderWay
  <2>2. CASE d # c
    <3>1. p \notin Holder(d)
      BY <1>1, <2>2 DEF Holder
    <3>2. \A q \in Holder(d) : disk'[q] = disk[q]
      BY <1>6, <3>1 DEF Holder
    <3>3. QED
      BY <1>2, <1>3, <1>6, <2>2, <3>2 DEF UnderWay
  <2>3. QED
    BY <2>1, <2>2
<1>10. QueueIsServed'
  BY <1>2, <1>3, <1>6 DEF QueueIsServed
<1>11. DoneIsBehind'
  <2> SUFFICES ASSUME NEW d \in ConnIDs, ~spoiled'[d], Open(d) PROVE BehindAt(d)'
    BY <1>3 DEF DoneIsBehind
  <2>1. BehindAt(d)
    BY <1>6 DEF DoneIsBehind
  <2>2. CASE d = c
    <3>1. transfer'[c].file = lf
      BY <1>7, <2>2
    <3>2. QED
      BY <1>2, <2>1, <2>2, <3>1 DEF BehindAt, Before
  <2>3. CASE d # c
    BY <1>2, <1>6, <2>1, <2>3, SameQueue
  <2>4. QED
    BY <2>2, <2>3
<1>12. ASSUME NEW q \in Clients, q \notin cut', NEW g
       PROVE  Pending(q, g)' <=> Pending(q, g)
  <2>1. CASE q = p
    <3>1. transfer'[c].file = lf
      BY <1>7, <1>12, <2>1
    <3>2. QED
      BY <1>1, <1>2, <2>1, <3>1 DEF Pending
  <2>2. CASE q # p
    <3>1. conn[q] # c
      BY <1>1, <1>2, <2>2 DEF Connections
    <3>2. QED
      BY <1>2, <1>6, <3>1 DEF Pending, Types
  <2>3. QED
    BY <2>1, <2>2
<1>13. AllOrNone'
  <2> SUFFICES ASSUME NEW q \in Clients, q \notin cut', NEW l \in Levels, NEW g \in Files,
                      disk'[q][<<l, g>>] # "absent" \/ Pending(q, <<l, g>>),
                      NEW f \in Files
               PROVE  disk'[q][<<l, f>>] = "whole" \/ Pending(q, <<l, f>>)
    BY <1>12 DEF AllOrNone
  <2>0. q \notin cut
    BY <1>6
  <2>1. CASE q = p
    <3>1. disk'[p] = [disk[p] EXCEPT ![lf] = "part"] /\ disk[p] \in [Levels \X Files -> {"absent", "part", "whole"}]
      BY <1>7, <2>1 DEF Types
    <3>2. Pending(p, lf)
      BY <1>1, <1>2 DEF Pending
    <3>3. disk[p][<<l, g>>] # "absent" \/ Pending(p, <<l, g>>)
      BY <2>1, <3>1, <3>2
    <3>4. disk[p][<<l, f>>] = "whole" \/ Pending(p, <<l, f>>)
      BY <2>0, <2>1, <3>3 DEF AllOrNone
    <3>5. QED
      BY <2>1, <3>1, <3>2, <3>4
  <2>2. CASE q # p
    BY <1>6, <2>0, <2>2 DEF AllOrNone
  <2>3. QED
    BY <2>1, <2>2
<1>14. PlayingIsWhole'
  BY <1>2, <1>5, <1>6 DEF PlayingIsWhole
<1>15. QED
  BY <1>3, <1>8, <1>9, <1>10, <1>11, <1>13, <1>14

LEMMA FileArrivesIInv ==
  ASSUME IInv, NEW p \in Clients, FileArrives(p)
  PROVE  IInv'
<1> USE DEF IInv, server
<1>1. PICK c \in ConnIDs : c = conn[p]
  BY TheHolder DEF FileArrives
<1> DEFINE lf == transfer[c].file
<1>2. /\ c # NoConn /\ transfer[c].stage = "accepted"
      /\ transfer' = [transfer EXCEPT ![c].stage = "arrived"]
      /\ disk' = [disk EXCEPT ![p][lf] = "whole"]
      /\ delivered' = [delivered EXCEPT ![c] = @ \cup {lf}]
      /\ UNCHANGED <<map, fileQueue, sendingFile, up, down, conn, phase, ready, requests,
                     spoiled, cut>>
  BY <1>1 DEF FileArrives
<1>3. /\ \A d : Holder(d)' = Holder(d) /\ (Open(d)' <=> Open(d)) /\ (Reached(d)' <=> Reached(d))
      /\ Connections'
  BY <1>2, SameConnections
<1>4. /\ Holder(c) = {p} /\ transfer[c] \in InTransfer /\ transfer[c] # Nothing
      /\ lf \in Levels \X Files
  <2>1. transfer[c] # Nothing
    BY <1>2, NothingIsNone
  <2>2. QED
    BY <1>1, <1>2, <2>1, TheHolder DEF Types, InTransfer
<1>5. Reached(c) /\ sendingFile[c] /\ phase[p] \in {"updating", "done"}
  BY <1>1, <1>2, <1>4, TheHolder DEF UnderWay
<1>6. /\ \A d \in ConnIDs : d # c => transfer'[d] = transfer[d] /\ delivered'[d] = delivered[d]
      /\ \A q \in Clients : q # p => disk'[q] = disk[q]
      /\ delivered'[c] = delivered[c] \cup {lf}
      /\ disk'[p] = [disk[p] EXCEPT ![lf] = "whole"]
      /\ disk[p] \in [Levels \X Files -> {"absent", "part", "whole"}]
  BY <1>2 DEF Types
<1>7. transfer'[c] = [file |-> lf, stage |-> "arrived"]
  <2>1. transfer[c] \in InTransfer =>
          [transfer[c] EXCEPT !.stage = "arrived"] = [file |-> lf, stage |-> "arrived"]
    BY DEF InTransfer
  <2>2. QED
    BY <1>2, <1>4, <2>1 DEF Types
<1>8. Types'
  <2>1. transfer' \in [ConnIDs -> InTransfer \cup {Nothing}]
    <3>1. transfer'[c] \in InTransfer
      BY <1>4, <1>7 DEF InTransfer
    <3>2. QED
      BY <1>2, <1>6, <3>1 DEF Types
  <2>2. delivered' \in [ConnIDs -> SUBSET (Levels \X Files)]
    BY <1>2, <1>4 DEF Types
  <2>3. disk' \in [Clients -> [Levels \X Files -> {"absent", "part", "whole"}]]
    BY <1>2, <1>4 DEF Types
  <2>4. QED
    BY <1>2, <2>1, <2>2, <2>3 DEF Types
<1>9. UnderWay'
  <2> SUFFICES ASSUME NEW d \in ConnIDs
               PROVE /\ ~Open(d)' => down'[d] = <<>>
                     /\ up'[d] # <<>> => Reached(d)'
                     /\ transfer'[d] # Nothing => Reached(d)' /\ sendingFile'[d]
                     /\ transfer'[d].stage = "arrived" =>
                          /\ transfer'[d].file \in delivered'[d]
                          /\ \A q \in Holder(d)' : disk'[q][transfer'[d].file] = "whole"
    BY DEF UnderWay
  <2>1. CASE d = c
    <3>1. transfer'[c].file = lf /\ disk'[p][lf] = "whole" /\ lf \in delivered'[c]
      BY <1>4, <1>6, <1>7
    <3>2. QED
      BY <1>2, <1>3, <1>4, <1>5, <2>1, <3>1 DEF UnderWay
  <2>2. CASE d # c
    <3>1. p \notin Holder(d)
      BY <1>1, <2>2 DEF Holder
    <3>2. \A q \in Holder(d) : disk'[q] = disk[q]
      BY <1>6, <3>1 DEF Holder
    <3>3. QED
      BY <1>2, <1>3, <1>6, <2>2, <3>2 DEF UnderWay
  <2>3. QED
    BY <2>1, <2>2
<1>10. QueueIsServed'
  BY <1>2, <1>3 DEF QueueIsServed
<1>11. DoneIsBehind'
  <2> SUFFICES ASSUME NEW d \in ConnIDs, ~spoiled[d], Open(d) PROVE BehindAt(d)'
    BY <1>2, <1>3 DEF DoneIsBehind
  <2>1. BehindAt(d)
    BY DEF DoneIsBehind
  <2>2. CASE d = c
    <3>1. transfer'[c].file = lf /\ delivered[c] \subseteq delivered'[c]
      BY <1>6, <1>7
    <3>2. QED
      BY <1>2, <2>1, <2>2, <3>1 DEF BehindAt, Before
  <2>3. CASE d # c
    BY <1>2, <1>6, <2>1, <2>3, SameQueue
  <2>4. QED
    BY <2>2, <2>3
<1>12. ASSUME NEW q \in Clients, NEW g
       PROVE  Pending(q, g)' <=> Pending(q, g)
  <2>1. CASE q = p
    <3>1. transfer'[c].file = lf
      BY <1>7
    <3>2. QED
      BY <1>1, <1>2, <2>1, <3>1 DEF Pending
  <2>2. CASE q # p
    <3>1. conn[q] # c
      BY <1>1, <1>2, <2>2 DEF Connections
    <3>2. QED
      BY <1>2, <1>6, <3>1 DEF Pending, Types
  <2>3. QED
    BY <2>1, <2>2
<1>13. AllOrNone'
  <2> SUFFICES ASSUME NEW q \in Clients \ cut, NEW l \in Levels, NEW g \in Files,
                      disk'[q][<<l, g>>] # "absent" \/ Pending(q, <<l, g>>),
                      NEW f \in Files
               PROVE  disk'[q][<<l, f>>] = "whole" \/ Pending(q, <<l, f>>)
    BY <1>2, <1>12 DEF AllOrNone
  <2>1. CASE q = p
    <3>1. Pending(p, lf)
      BY <1>1, <1>2 DEF Pending
    <3>2. disk[p][<<l, g>>] # "absent" \/ Pending(p, <<l, g>>)
      BY <1>6, <2>1, <3>1
    <3>3. disk[p][<<l, f>>] = "whole" \/ Pending(p, <<l, f>>)
      BY <2>1, <3>2 DEF AllOrNone
    <3>4. QED
      BY <1>6, <2>1, <3>3
  <2>2. CASE q # p
    BY <1>6, <2>2 DEF AllOrNone
  <2>3. QED
    BY <2>1, <2>2
<1>14. PlayingIsWhole'
  BY <1>2, <1>5, <1>6 DEF PlayingIsWhole
<1>15. QED
  BY <1>3, <1>8, <1>9, <1>10, <1>11, <1>13, <1>14

-----------------------------------------------------------------------------
(***************************************************************************)
(* The theorems.                                                           *)
(***************************************************************************)
LEMMA NextIInv == IInv /\ [Next]_vars => IInv'
<1> SUFFICES ASSUME IInv, [Next]_vars PROVE IInv'
  OBVIOUS
<1>1. CASE Stop
  BY <1>1, StopIInv
<1>2. CASE SendOnes
  BY <1>2, SendOnesIInv
<1>3. CASE \E l \in Levels : Host(l)
  BY <1>3, HostIInv
<1>4. CASE \E c \in ConnIDs : Server(c)
  BY <1>4, EventInitIInv, MsgRequestLevelIInv, FileCompleteIInv DEF Server
<1>5. CASE \E p \in Clients : Client(p)
  BY <1>5, ZoidResultIInv, RequestLevelsIInv, MsgAtClientIInv, FileIncomingIInv,
     FileArrivesIInv DEF Client
<1>6. CASE \E p \in Clients : Close(p) \/ \E c \in ConnIDs : Connect(p, c)
  BY <1>6, CloseIInv, ConnectIInv
<1>7. CASE UNCHANGED vars
  <2>1. UNCHANGED <<map, fileQueue, sendingFile, up, down, transfer, conn, phase, ready,
                    requests, disk, spoiled, delivered, cut>>
    BY <1>7 DEF vars, server, wire, client, history
  <2>2. Types' /\ Connections'
    BY <2>1 DEF IInv, Types, Connections
  <2>3. UnderWay' /\ QueueIsServed'
    BY <2>1 DEF IInv, UnderWay, QueueIsServed, Open, Reached, Holder
  <2>4. DoneIsBehind'
    BY <2>1, SameQueue DEF IInv, DoneIsBehind, Open, Holder
  <2>5. AllOrNone' /\ PlayingIsWhole'
    BY <2>1, SameFiles DEF IInv, PlayingIsWhole
  <2>6. QED
    BY <2>2, <2>3, <2>4, <2>5 DEF IInv
<1>8. QED
  BY <1>1, <1>2, <1>3, <1>4, <1>5, <1>6, <1>7 DEF Next

\* The inductive invariant holds in every reachable state of the updater.
THEOREM SpecIInv == Spec => []IInv
BY InitIInv, NextIInv, PTL DEF Spec

\* The type invariant follows, with one holder at most of an identifier.
LEMMA IInvTypeOK == IInv => TypeOK
<1> SUFFICES ASSUME IInv PROVE TypeOK
  OBVIOUS
<1>1. ASSUME NEW c \in ConnIDs
      PROVE  Cardinality(Holder(c)) <= 1
  <2>1. CASE Holder(c) = {}
    BY <2>1, FS_EmptySet
  <2>2. CASE Holder(c) # {}
    <3>1. PICK p \in Clients : conn[p] = c
      BY <2>2 DEF Holder
    <3>2. Holder(c) = {p}
      BY <3>1, UpdaterAssumption, TheHolder DEF IInv
    <3>3. QED
      BY <3>2, FS_Singleton
  <2>3. QED
    BY <2>1, <2>2
<1>2. ASSUME NEW c \in ConnIDs
      PROVE  ToSet(up[c]) \subseteq UpEvent /\ ToSet(down[c]) \subseteq DownEvent
  <2>1. up[c] \in Seq(UpEvent) /\ down[c] \in Seq(DownEvent)
    BY DEF IInv, Types
  <2>2. QED
    BY <2>1, LenProperties, ElementOfSeq DEF ToSet
<1>3. QED
  BY <1>1, <1>2 DEF IInv, Types, TypeOK, UpEvent, DownEvent, InTransfer, Phases

\* MsgRequestDone finds every file of its level delivered, on any number of
\* connections, in whatever order the directories list their files.
THEOREM SpecDoneMeansDelivered == Spec => []DoneMeansDelivered
<1>1. IInv => DoneMeansDelivered
  <2> SUFFICES ASSUME IInv, NEW c \in ConnIDs, NEW i \in DOMAIN down[c],
                      down[c][i].type = "RequestDone", ~spoiled[c], NEW f \in Files
               PROVE  <<down[c][i].level, f>> \in delivered[c]
    BY IInvTypeOK DEF DoneMeansDelivered
  <2>1. down[c] \in Seq(DownEvent)
    BY DEF IInv, Types
  <2>2. i \in 1..Len(down[c]) /\ down[c] # <<>>
    BY <2>1, LenProperties
  <2>3. Open(c)
    BY <2>2 DEF IInv, UnderWay
  <2>4. QED
    BY <2>2, <2>3 DEF IInv, DoneIsBehind, BehindAt
<1>2. QED
  BY <1>1, SpecIInv, PTL

\* A client that plays has every file of the level whole, unless a download to
\* it was broken off or mixed with another's.
THEOREM SpecPlayingIsWhole == Spec => []PlayingIsWhole
<1>1. IInv => PlayingIsWhole
  BY DEF IInv
<1>2. QED
  BY <1>1, SpecIInv, PTL

\* A step that begins a transfer finds none: sendingFile is set as long as a
\* file is under way.
THEOREM SpecOneFileAtATime == Spec => OneFileAtATime
<1> DEFINE A == \A c \in ConnIDs :
                  transfer'[c].stage = "offered" /\ transfer[c].stage # "offered"
                    => transfer[c] = Nothing
<1>1. IInv /\ [Next]_vars => A
  <2> SUFFICES ASSUME IInv, [Next]_vars, NEW c \in ConnIDs,
                      transfer'[c].stage = "offered", transfer[c].stage # "offered"
               PROVE  transfer[c] = Nothing
    OBVIOUS
  <2>1. CASE SendOnes
    <3>1. CASE MaySend(c)
      BY <3>1 DEF IInv, UnderWay, MaySend
    <3>2. CASE ~MaySend(c)
      <4>1. ~IsFile(Done(NoMap))
        BY DEF IsFile, Done
      <4>2. transfer'[c] = transfer[c]
        BY <2>1, <3>2, <4>1 DEF SendOnes
      <4>3. QED
        BY <4>2
    <3>3. QED
      BY <3>1, <3>2
  <2>2. CASE UNCHANGED transfer
    BY <2>2
  <2>3. ASSUME NEW C \in SUBSET ConnIDs, DropAll(C)
        PROVE  FALSE
    <3>1. transfer'[c] \in {Nothing, transfer[c]}
      BY <2>3 DEF DropAll
    <3>2. QED
      BY <3>1, NothingIsNone
  <2>4. ASSUME NEW p \in Clients, FileIncoming(p) \/ FileArrives(p)
        PROVE  FALSE
    <3>1. \/ transfer' = [transfer EXCEPT ![conn[p]].stage = "accepted"]
          \/ transfer' = [transfer EXCEPT ![conn[p]].stage = "arrived"]
          \/ transfer' = [transfer EXCEPT ![conn[p]] = Nothing]
      BY <2>4 DEF FileIncoming, FileArrives
    <3>2. transfer \in [ConnIDs -> InTransfer \cup {Nothing}] /\ Nothing.stage = "none"
      BY NothingIsNone DEF IInv, Types
    <3>3. ASSUME NEW s \in {"accepted", "arrived"},
                 transfer' = [transfer EXCEPT ![conn[p]].stage = s]
          PROVE  FALSE
      <4>1. transfer'[c] \in {transfer[c], [transfer[c] EXCEPT !.stage = s]}
        BY <3>2, <3>3
      <4>2. transfer[c] \in InTransfer => [transfer[c] EXCEPT !.stage = s].stage = s
        BY DEF InTransfer
      <4>3. [Nothing EXCEPT !.stage = s].stage = s
        BY DEF Nothing
      <4>4. QED
        BY <3>2, <4>1, <4>2, <4>3
    <3>4. QED
      BY <3>1, <3>2, <3>3
  <2>5. ASSUME NEW d \in ConnIDs, FileComplete(d)
        PROVE  FALSE
    <3>1. transfer'[c] \in {Nothing, transfer[c]}
      BY <2>5 DEF FileComplete, IInv, Types
    <3>2. QED
      BY <3>1, NothingIsNone
  <2>6. CASE Next
    <3>1. Stop \/ (\E p \in Clients : Close(p)) => FALSE
      <4>1. {d \in ConnIDs : Open(d)} \in SUBSET ConnIDs
        OBVIOUS
      <4>2. \A p \in Clients : conn[p] # NoConn => {conn[p]} \in SUBSET ConnIDs
        BY TheHolder DEF IInv
      <4>3. QED
        BY <2>3, <4>1, <4>2 DEF Stop, Close
    <3>2. (\E l \in Levels : Host(l)) => UNCHANGED transfer
      BY DEF Host, wire
    <3>3. \A p \in Clients, d \in ConnIDs : Connect(p, d) => UNCHANGED transfer
      BY DEF Connect, wire
    <3>4. \A d \in ConnIDs : EventInit(d) \/ MsgRequestLevel(d) => UNCHANGED transfer
      BY DEF EventInit, MsgRequestLevel
    <3>5. \A p \in Clients : ZoidResult(p) \/ RequestLevels(p) \/ MsgAtClient(p)
            => UNCHANGED transfer
      BY DEF ZoidResult, RequestLevels, MsgAtClient
    <3>6. QED
      BY <2>1, <2>2, <2>4, <2>5, <2>6, <3>1, <3>2, <3>3, <3>4, <3>5
      DEF Next, Server, Client
  <2>7. CASE UNCHANGED vars
    BY <2>2, <2>7 DEF vars, wire
  <2>8. QED
    BY <2>6, <2>7
<1>2. QED
  BY <1>1, SpecIInv, PTL DEF Spec, OneFileAtATime
=============================================================================
