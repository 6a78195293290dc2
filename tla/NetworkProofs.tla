---------------------------- MODULE NetworkProofs ---------------------------
(***************************************************************************)
(* Proofs about Network, for every value of its constants: the invariants  *)
(* its runs check, from the inductive invariant IInv, and that each of its *)
(* steps is one NetLifecycle allows.                                       *)
(***************************************************************************)
EXTENDS Network, FiniteSetTheorems, SequenceTheorems, TLAPS

\* The groups of variables and the abbreviations actions are written with.
USE DEF Phase, session, status, queues, master, rest

-----------------------------------------------------------------------------
(***************************************************************************)
(* The list of HTTP requests.                                              *)
(***************************************************************************)
\* What is posted is a request of the kind asked for.
LEMMA PostedType ==
  ASSUME NEW kind \in RequestKinds, NEW r \in Posted(kind)
  PROVE  r \in Request /\ r.kind = kind
BY DEF Posted, Request

\* Appending a request adds its kind to those in flight and no other.
LEMMA AppendRequest ==
  ASSUME NEW s \in Seq(Request), NEW r \in Request
  PROVE  /\ Append(s, r) \in Seq(Request)
         /\ Len(Append(s, r)) = Len(s) + 1
         /\ \A k : HasKind(Append(s, r), k) <=> HasKind(s, k) \/ r.kind = k
<1>1. /\ Append(s, r) \in Seq(Request)
      /\ Len(Append(s, r)) = Len(s) + 1
      /\ Append(s, r)[Len(s) + 1] = r
      /\ \A i \in 1..Len(s) : Append(s, r)[i] = s[i]
  BY AppendProperties
<1>2. /\ DOMAIN Append(s, r) = 1..(Len(s) + 1)
      /\ DOMAIN s = 1..Len(s)
      /\ Len(s) \in Nat
  BY <1>1, LenProperties
<1>3. QED
  BY <1>1, <1>2 DEF HasKind

\* Removing the request at position i removes no other, and adds none.
LEMMA RemoveRequest ==
  ASSUME NEW s \in Seq(Request), NEW i \in 1..Len(s)
  PROVE  /\ RemoveAt(s, i) \in Seq(Request)
         /\ Len(RemoveAt(s, i)) = Len(s) - 1
         /\ \A k : HasKind(RemoveAt(s, i), k) => HasKind(s, k)
         /\ \A k : HasKind(s, k) /\ s[i].kind # k => HasKind(RemoveAt(s, i), k)
<1> DEFINE a == SubSeq(s, 1, i-1)
           b == SubSeq(s, i+1, Len(s))
           t == RemoveAt(s, i)
<1>n. Len(s) \in Nat /\ i \in Nat /\ 1 <= i /\ i <= Len(s)
  BY LenProperties
<1>0. Len(s) \in Nat /\ DOMAIN s = 1..Len(s) /\ \A j \in 1..Len(s) : s[j] \in Request
  BY LenProperties, ElementOfSeq
<1>1. /\ a \in Seq(Request) /\ Len(a) = i - 1
      /\ \A j \in 1..(i-1) : a[j] = s[j]
  <2>1. \A j \in 1..(i-1) : s[j] \in Request
    BY <1>0
  <2>2. /\ a \in Seq(Request)
        /\ Len(a) = IF 1 <= i-1 THEN (i-1) - 1 + 1 ELSE 0
        /\ \A j \in 1..((i-1) - 1 + 1) : a[j] = s[1 + j - 1]
    BY <2>1, SubSeqProperties
  <2>3. QED
    BY <2>2
<1>2. /\ b \in Seq(Request) /\ Len(b) = Len(s) - i
      /\ \A j \in 1..(Len(s) - i) : b[j] = s[i + j]
  <2>1. \A j \in (i+1)..Len(s) : s[j] \in Request
    BY <1>0
  <2>2. /\ b \in Seq(Request)
        /\ Len(b) = IF i+1 <= Len(s) THEN Len(s) - (i+1) + 1 ELSE 0
        /\ \A j \in 1..(Len(s) - (i+1) + 1) : b[j] = s[(i+1) + j - 1]
    BY <1>0, <2>1, SubSeqProperties
  <2> HIDE DEF b
  <2>3. Len(b) = Len(s) - i
    <3>1. CASE i = Len(s)
      BY <1>0, <2>2, <3>1
    <3>2. CASE i # Len(s)
      <4>1. i + 1 <= Len(s) /\ Len(s) - (i+1) + 1 = Len(s) - i
        BY <1>n, <3>2
      <4>2. QED
        BY <2>2, <4>1
    <3>3. QED
      BY <3>1, <3>2
  <2>4. ASSUME NEW j \in 1..(Len(s) - i)
        PROVE  b[j] = s[i + j]
    <3>1. (i+1) + j - 1 = i + j /\ j \in 1..(Len(s) - (i+1) + 1)
      BY <1>0
    <3>2. QED
      BY <2>2, <3>1
  <2>5. QED
    BY <2>2, <2>3, <2>4
<1>3. /\ t \in Seq(Request)
      /\ Len(t) = Len(s) - 1
      /\ \A j \in 1..(Len(s) - 1) : t[j] = IF j < i THEN s[j] ELSE s[j+1]
  <2>1. /\ t \in Seq(Request)
        /\ Len(t) = Len(a) + Len(b)
        /\ \A j \in 1..(Len(a) + Len(b)) :
             t[j] = IF j <= Len(a) THEN a[j] ELSE b[j - Len(a)]
    BY <1>1, <1>2, ConcatProperties DEF RemoveAt
  <2> HIDE DEF a, b, t
  <2>2. Len(a) + Len(b) = Len(s) - 1
    BY <1>0, <1>1, <1>2
  <2>3. ASSUME NEW j \in 1..(Len(s) - 1)
        PROVE  t[j] = IF j < i THEN s[j] ELSE s[j+1]
    <3>1. CASE j < i
      BY <1>0, <1>1, <2>1, <2>2, <3>1
    <3>2. CASE ~(j < i)
      <4>1. j - Len(a) \in 1..(Len(s) - i) /\ i + (j - Len(a)) = j + 1
        BY <1>0, <1>1, <3>2
      <4>2. t[j] = b[j - Len(a)]
        BY <1>0, <1>1, <2>1, <2>2, <3>2
      <4>3. QED
        BY <1>2, <3>2, <4>1, <4>2
    <3>3. QED
      BY <3>1, <3>2
  <2>4. QED
    BY <2>1, <2>2, <2>3
<1> HIDE DEF a, b, t
<1>4. DOMAIN t = 1..(Len(s) - 1)
  BY <1>0, <1>3, LenProperties
<1>5. ASSUME NEW k, HasKind(t, k)
      PROVE  HasKind(s, k)
  <2>1. PICK j \in 1..(Len(s) - 1) : t[j].kind = k
    BY <1>4, <1>5 DEF HasKind
  <2>2. j \in DOMAIN s /\ j + 1 \in DOMAIN s
    BY <1>0
  <2>3. QED
    BY <1>3, <2>1, <2>2 DEF HasKind
<1>6. ASSUME NEW k, HasKind(s, k), s[i].kind # k
      PROVE  HasKind(t, k)
  <2>1. PICK j \in 1..Len(s) : s[j].kind = k /\ j # i
    BY <1>0, <1>6 DEF HasKind
  <2>2. CASE j < i
    BY <1>0, <1>3, <1>4, <2>1, <2>2 DEF HasKind
  <2>3. CASE j > i
    <3>1. j - 1 \in DOMAIN t /\ t[j-1] = s[j]
      BY <1>0, <1>3, <1>4, <2>3
    <3>2. QED
      BY <2>1, <3>1 DEF HasKind
  <2>4. QED
    BY <1>0, <2>1, <2>2, <2>3
<1>7. QED
  BY <1>3, <1>5, <1>6 DEF t
-----------------------------------------------------------------------------
(***************************************************************************)
(* What the calls shared by several actions do to the invariant's parts.   *)
(***************************************************************************)
\* disconnect() asks for removal if we believe to be listed, and for nothing
\* else.
LEMMA DisconnectRequests ==
  ASSUME IInv, Disconnect
  PROVE  /\ requests' \in Seq(Request)
         /\ Len(requests') >= Len(requests)
         /\ HasKind(requests', "add") <=> HasKind(requests, "add")
         /\ HasKind(requests, "remove") => HasKind(requests', "remove")
         /\ serverAdded => HasKind(requests', "remove")
<1>1. requests \in Seq(Request) /\ Len(requests) \in Nat
  BY LenProperties DEF IInv, TypeOK
<1>2. CASE serverAdded
  <2>1. PICK r \in Posted("remove") : requests' = Append(requests, r)
    BY <1>2 DEF Disconnect
  <2>2. r \in Request /\ r.kind = "remove"
    BY PostedType DEF RequestKinds
  <2>3. QED
    BY <1>1, <2>1, <2>2, AppendRequest
<1>3. CASE ~serverAdded
  BY <1>1, <1>3 DEF Disconnect
<1>4. QED
  BY <1>2, <1>3

\* A connection that is counted keeps the count exact.
LEMMA AddConnCounts ==
  ASSUME IInv, AddConn
  PROVE  /\ open' \in SUBSET Conn /\ open' # {}
         /\ connCount' \in Nat
         /\ connCount' = Cardinality(open') /\ IsFiniteSet(open')
<1>1. PICK c \in Conn \ open : open' = open \cup {c}
  BY DEF AddConn
<1>2. IsFiniteSet(open) /\ connCount = Cardinality(open)
  BY DEF IInv, ConnCountIsExact
<1>3. IsFiniteSet(open') /\ Cardinality(open') = Cardinality(open) + 1
  BY <1>1, <1>2, FS_AddElement
<1>4. QED
  BY <1>1, <1>2, <1>3 DEF AddConn, IInv, TypeOK

LEMMA DropConnCounts ==
  ASSUME IInv, DropConn
  PROVE  /\ open' \in SUBSET Conn /\ open # {}
         /\ connCount' \in Nat
         /\ connCount' = Cardinality(open') /\ IsFiniteSet(open')
<1>1. PICK c \in open : open' = open \ {c}
  BY DEF DropConn
<1>2. IsFiniteSet(open) /\ connCount = Cardinality(open)
  BY DEF IInv, ConnCountIsExact
<1>3. IsFiniteSet(open') /\ Cardinality(open') = Cardinality(open) - 1
  BY <1>1, <1>2, FS_RemoveElement
<1>4. Cardinality(open') \in Nat
  BY <1>3, FS_CardinalityType
<1>5. QED
  BY <1>1, <1>2, <1>3, <1>4 DEF DropConn, IInv, TypeOK

\* disconnect() on its own preserves what is said of the session.
StatusType ==
  /\ state \in {"Idle", "Disconnecting", "Disconnected"}
  /\ stateTimeOut \in Nat
  /\ clientRetry \in BOOLEAN /\ lateAdd \in BOOLEAN /\ revived \in BOOLEAN

SessionParts ==
  /\ DisconnectedIsClean
  /\ ConnCountIsExact /\ IsFiniteSet(open)
  /\ RetryWhileClosing
  /\ RolesAgree
  /\ RegistrationEnds
  /\ ControlMatchesState
  /\ RegistrationIsTracked

LEMMA DisconnectKeeps ==
  ASSUME IInv, Disconnect, UNCHANGED session
  PROVE  StatusType' /\ SessionParts'
<1>1. /\ HasKind(requests', "add") <=> HasKind(requests, "add")
      /\ HasKind(requests, "remove") => HasKind(requests', "remove")
      /\ serverAdded => HasKind(requests', "remove")
  BY DisconnectRequests
<1>2. InFlight("add") \in BOOLEAN
  BY DEF InFlight, HasKind
<1>3. StatusType'
  BY <1>2, NetworkAssumption DEF Disconnect, IInv, TypeOK, StatusType
<1>4. /\ DisconnectedIsClean' /\ RetryWhileClosing' /\ RolesAgree'
      /\ ControlMatchesState' /\ ConnCountIsExact' /\ IsFiniteSet(open)'
  BY DEF Disconnect, IInv, TypeOK, DisconnectedIsClean, RetryWhileClosing,
         RolesAgree, ControlMatchesState, ConnCountIsExact
<1>5. RegistrationEnds' /\ RegistrationIsTracked'
  BY <1>1 DEF Disconnect, InFlight, IInv, TypeOK, RegistrationEnds,
              RegistrationIsTracked, ControlMatchesState
<1>6. QED
  BY <1>3, <1>4, <1>5 DEF SessionParts

-----------------------------------------------------------------------------
(***************************************************************************)
(* Each action that does more than move the loop on preserves IInv.        *)
(***************************************************************************)
LEMMA GameDelayKeeps == IInv /\ GameDelay => IInv'
<1> SUFFICES ASSUME IInv, GameDelay PROVE IInv'
  OBVIOUS
<1>1. CASE state = "Disconnecting"
  BY <1>1 DEF GameDelay, InFlight, IInv, TypeOK, DisconnectedIsClean,
    ConnCountIsExact, RetryWhileClosing, RolesAgree, RegistrationEnds,
    PassesAreBounded, ControlMatchesState, RegistrationIsTracked
<1>2. CASE state # "Disconnecting"
  <2>1. Disconnect /\ UNCHANGED session
    BY <1>2 DEF GameDelay
  <2>2. StatusType' /\ SessionParts'
    BY <2>1, DisconnectKeeps
  <2>3. requests' \in Seq(Request)
    BY <2>1, DisconnectRequests
  <2>4. TypeOK' /\ PassesAreBounded'
    BY <2>1, <2>2, <2>3
    DEF GameDelay, Disconnect, StatusType, IInv, TypeOK, PassesAreBounded
  <2>5. QED
    BY <2>2, <2>4 DEF IInv, SessionParts
<1>3. QED
  BY <1>1, <1>2

LEMMA ConnectDelayKeeps == IInv /\ ConnectDelay => IInv'
<1> SUFFICES ASSUME IInv, ConnectDelay PROVE IInv'
  OBVIOUS
<1>1. Disconnect /\ UNCHANGED session
  BY DEF ConnectDelay
<1>2. StatusType' /\ SessionParts' /\ requests' \in Seq(Request)
  BY <1>1, DisconnectKeeps, DisconnectRequests
<1>3. TypeOK' /\ PassesAreBounded'
  BY <1>1, <1>2
  DEF ConnectDelay, Disconnect, StatusType, IInv, TypeOK, PassesAreBounded
<1>4. QED
  BY <1>2, <1>3 DEF IInv, SessionParts

LEMMA CmdDisconnectKeeps == IInv /\ CmdDisconnect => IInv'
<1> SUFFICES ASSUME IInv, CmdDisconnect PROVE IInv'
  OBVIOUS
<1>1. Disconnect /\ UNCHANGED session
  BY DEF CmdDisconnect
<1>2. StatusType' /\ SessionParts' /\ requests' \in Seq(Request)
  BY <1>1, DisconnectKeeps, DisconnectRequests
<1>3. TypeOK' /\ PassesAreBounded'
  BY <1>1, <1>2
  DEF CmdDisconnect, Command, Disconnect, StatusType, IInv, TypeOK, PassesAreBounded
<1>4. QED
  BY <1>2, <1>3 DEF IInv, SessionParts

LEMMA CmdQuitKeeps == IInv /\ CmdQuit => IInv'
<1> SUFFICES ASSUME IInv, CmdQuit PROVE IInv'
  OBVIOUS
<1>1. Disconnect /\ UNCHANGED session
  BY DEF CmdQuit
<1>2. StatusType' /\ SessionParts' /\ requests' \in Seq(Request)
  BY <1>1, DisconnectKeeps, DisconnectRequests
<1>3. TypeOK' /\ PassesAreBounded'
  BY <1>1, <1>2
  DEF CmdQuit, Command, Disconnect, StatusType, IInv, TypeOK, PassesAreBounded
<1>4. QED
  BY <1>2, <1>3 DEF IInv, SessionParts

LEMMA GameHostKeeps == IInv /\ GameHost => IInv'
<1> SUFFICES ASSUME IInv, GameHost PROVE IInv'
  OBVIOUS
<1>1. requests' \in Seq(Request)
  <2>1. CASE UNCHANGED requests
    BY <2>1 DEF IInv, TypeOK
  <2>2. CASE \E r \in Posted("add") : requests' = Append(requests, r)
    BY <2>2, PostedType, AppendRequest DEF RequestKinds, IInv, TypeOK
  <2>3. QED
    BY <2>1, <2>2 DEF GameHost, Host
<1>2. TypeOK' /\ PassesAreBounded'
  BY <1>1 DEF GameHost, Host, IInv, TypeOK, PassesAreBounded
<1>3. SessionParts'
  BY DEF GameHost, Host, IInv, TypeOK, SessionParts, DisconnectedIsClean,
    ConnCountIsExact, RetryWhileClosing, RolesAgree, RegistrationEnds,
    ControlMatchesState, RegistrationIsTracked
<1>4. QED
  BY <1>2, <1>3 DEF IInv, SessionParts

LEMMA ClientRefusedKeeps == IInv /\ ClientRefused => IInv'
<1> SUFFICES ASSUME IInv, ClientRefused PROVE IInv'
  OBVIOUS
<1>1. reconnectTimer' \in Nat
  BY NetworkAssumption DEF ClientRefused, Reconnect, IInv, TypeOK
<1>2. TypeOK' /\ PassesAreBounded'
  <2>1. /\ phase = "input" /\ phase' = "input" /\ dialing' \in BOOLEAN
        /\ UNCHANGED <<control, open, m_host, m_client, m_serverID, connCount,
                       gameNode, updaterNode, zoidRequest, status, queues,
                       master, hostOption, downloads, quit, budget>>
    BY DEF ClientRefused, Callback
  <2>2. QED
    BY <1>1, <2>1 DEF IInv, TypeOK, PassesAreBounded
<1>3. SessionParts'
  BY DEF ClientRefused, Callback, InFlight, IInv, SessionParts,
    DisconnectedIsClean, ConnCountIsExact, RetryWhileClosing, RolesAgree,
    RegistrationEnds, ControlMatchesState, RegistrationIsTracked
<1>4. QED
  BY <1>2, <1>3 DEF IInv, SessionParts

\* Being accepted makes a client of us, whatever follows from it.
LEMMA JoinedKeeps ==
  ASSUME IInv, Joined, zoidRequest' \in 0..2
  PROVE  /\ open' \in SUBSET Conn /\ connCount' \in Nat
         /\ ConnCountIsExact' /\ IsFiniteSet(open)' 
         /\ control = "client" /\ control' = "client" /\ ~m_host'
         /\ m_client' /\ m_serverID' /\ ~dialing'
         /\ state # "Disconnected"
         /\ UNCHANGED <<m_host, gameNode, updaterNode>>
         /\ gameNode # "authority" /\ updaterNode # "authority"
<1>1. AddConn
  BY DEF Joined
<1>2. /\ open' \in SUBSET Conn /\ connCount' \in Nat
      /\ ConnCountIsExact' /\ IsFiniteSet(open)'
  BY <1>1, AddConnCounts DEF ConnCountIsExact
<1>3. QED
  BY <1>2 DEF Joined, Callback, IInv, RolesAgree, ControlMatchesState, TypeOK

LEMMA ClientAcceptedKeeps == IInv /\ ClientAccepted => IInv'
<1> SUFFICES ASSUME IInv, ClientAccepted PROVE IInv'
  OBVIOUS
<1>1. Joined /\ zoidRequest' \in 0..2
  BY DEF ClientAccepted, IInv, TypeOK
<1>2. TypeOK' /\ PassesAreBounded'
  BY <1>1, JoinedKeeps
  DEF ClientAccepted, Joined, Callback, IInv, TypeOK, PassesAreBounded
<1>3. SessionParts'
  BY <1>1, JoinedKeeps
  DEF ClientAccepted, InFlight, IInv, TypeOK, SessionParts,
    DisconnectedIsClean, RetryWhileClosing, RolesAgree,
    RegistrationEnds, ControlMatchesState, RegistrationIsTracked
<1>4. QED
  BY <1>2, <1>3 DEF IInv, SessionParts

LEMMA ClientDownloadsKeeps == IInv /\ ClientDownloads => IInv'
<1> SUFFICES ASSUME IInv, ClientDownloads PROVE IInv'
  OBVIOUS
<1>1. Joined /\ zoidRequest' \in 0..2
  BY DEF ClientDownloads
<1>2. TypeOK' /\ PassesAreBounded'
  <2>1. /\ phase = "input" /\ phase' = "input" /\ dialing' \in BOOLEAN
        /\ m_client' \in BOOLEAN /\ m_serverID' \in BOOLEAN
        /\ UNCHANGED <<control, m_host, gameNode, updaterNode>>
        /\ downloads' = downloads + 1
        /\ UNCHANGED <<status, queues, master, hostOption, reconnectTimer,
                       quit, budget>>
    BY DEF ClientDownloads, Joined, Callback
  <2>2. downloads' \in Nat
    BY <2>1 DEF IInv, TypeOK
  <2>4. open' \in SUBSET Conn /\ connCount' \in Nat /\ zoidRequest' \in 0..2
    BY <1>1, JoinedKeeps
  <2>5. QED
    BY <2>1, <2>2, <2>4 DEF IInv, TypeOK, PassesAreBounded
<1>3. SessionParts'
  BY <1>1, JoinedKeeps
  DEF ClientDownloads, InFlight, IInv, TypeOK, SessionParts,
    DisconnectedIsClean, RetryWhileClosing, RolesAgree,
    RegistrationEnds, ControlMatchesState, RegistrationIsTracked
<1>4. QED
  BY <1>2, <1>3 DEF IInv, SessionParts

LEMMA ClientFailedKeeps == IInv /\ ClientFailed => IInv'
<1> SUFFICES ASSUME IInv, ClientFailed PROVE IInv'
  OBVIOUS
<1>1. Joined /\ Disconnect /\ zoidRequest' \in 0..2
  BY DEF ClientFailed, IInv, TypeOK
<1>2. /\ requests' \in Seq(Request)
      /\ HasKind(requests', "add") <=> HasKind(requests, "add")
      /\ HasKind(requests, "remove") => HasKind(requests', "remove")
      /\ serverAdded => HasKind(requests', "remove")
  BY <1>1, DisconnectRequests
<1>3. StatusType'
  <2>1. InFlight("add") \in BOOLEAN
    BY DEF InFlight, HasKind
  <2>2. QED
    BY <1>1, <2>1, NetworkAssumption DEF Disconnect, IInv, TypeOK, StatusType
<1>4. TypeOK' /\ PassesAreBounded'
  BY <1>1, <1>2, <1>3, JoinedKeeps
  DEF ClientFailed, Joined, Callback, Disconnect, StatusType, IInv, TypeOK,
      PassesAreBounded
<1>5. /\ DisconnectedIsClean' /\ RetryWhileClosing' /\ RolesAgree'
      /\ ControlMatchesState'
  BY <1>1, JoinedKeeps
  DEF ClientFailed, Disconnect, IInv, TypeOK,
    DisconnectedIsClean, RetryWhileClosing, RolesAgree, ControlMatchesState
<1>6. RegistrationEnds' /\ RegistrationIsTracked'
  BY <1>1, <1>2, JoinedKeeps
  DEF Disconnect, InFlight, IInv, RegistrationEnds, RegistrationIsTracked
<1>7. QED
  BY <1>1, <1>4, <1>5, <1>6, JoinedKeeps DEF IInv

\* A request leaves the list; only an "add" can make us believe to be listed.
LEMMA HttpDoneKeeps == IInv /\ HttpDone => IInv'
<1> SUFFICES ASSUME IInv, HttpDone PROVE IInv'
  OBVIOUS
<1>1. /\ requests \in Seq(Request) /\ todo \in Nat /\ todo > 0
      /\ todo <= Len(requests) /\ Len(requests) \in Nat
  BY LenProperties DEF HttpDone, IInv, TypeOK, PassesAreBounded
<1>2. Current \in 1..Len(requests)
  BY <1>1 DEF Current
<1>3. requests[Current] \in Request
  BY <1>1, <1>2, ElementOfSeq
<1> DEFINE kind == requests[Current].kind
<1>4. kind \in {"add", "remove", "update", "list"}
  BY <1>3 DEF Request, RequestKinds
<1>5. /\ requests' \in Seq(Request)
      /\ Len(requests') = Len(requests) - 1
      /\ HasKind(requests', "add") => HasKind(requests, "add")
      /\ HasKind(requests, "remove") /\ kind # "remove"
           => HasKind(requests', "remove")
  BY <1>1, <1>2, RemoveRequest DEF HttpDone
<1>6. kind = "add" => HasKind(requests, "add")
  <2>1. Current \in DOMAIN requests
    BY <1>1, <1>2, LenProperties
  <2>2. QED
    BY <2>1 DEF HasKind
<1>7. /\ serverAdded' \in BOOLEAN
      /\ serverAdded' => (serverAdded \/ kind = "add")
      /\ kind = "remove" => ~serverAdded'
  <2> PICK success \in BOOLEAN :
        serverAdded' = CASE kind = "add"    -> success
                         [] kind = "remove" -> FALSE
                         [] kind = "update" -> serverAdded /\ success
                         [] kind = "list"   -> serverAdded
    BY DEF HttpDone
  <2>1. serverAdded \in BOOLEAN
    BY DEF IInv, TypeOK
  <2> HIDE DEF kind
  <2>2. QED
    BY <1>4, <2>1
<1> HIDE DEF kind
<1>8. TypeOK' /\ PassesAreBounded'
  <2>1. /\ phase = "http" /\ phase' = "http" /\ todo' = todo - 1
        /\ UNCHANGED <<session, status, nConnect, nLevel, updateTimer, rest>>
    BY DEF HttpDone
  <2>2. QED
    BY <1>1, <1>5, <1>7, <2>1 DEF IInv, TypeOK, PassesAreBounded
<1>9. /\ DisconnectedIsClean' /\ RetryWhileClosing' /\ RolesAgree'
      /\ ControlMatchesState' /\ ConnCountIsExact' /\ IsFiniteSet(open)'
  BY DEF HttpDone, IInv, TypeOK, DisconnectedIsClean, RetryWhileClosing,
         RolesAgree, ControlMatchesState, ConnCountIsExact
<1>10. RegistrationEnds' /\ RegistrationIsTracked'
  BY <1>5, <1>6, <1>7
  DEF HttpDone, InFlight, IInv, RegistrationEnds, RegistrationIsTracked
<1>11. QED
  BY <1>8, <1>9, <1>10 DEF IInv

LEMMA FinishDisconnectingKeeps == IInv /\ FinishDisconnecting => IInv'
<1> SUFFICES ASSUME IInv, FinishDisconnecting PROVE IInv'
  OBVIOUS
<1>1. state = "Disconnecting" /\ control # "none"
  BY DEF FinishDisconnecting, IInv, PassesAreBounded, ControlMatchesState
<1>2. ~HasKind(requests, "add") /\ ~HasKind(requests, "remove")
  BY DEF FinishDisconnecting, MasterDone, HasKind
<1>3. TypeOK' /\ PassesAreBounded'
  <2>1. clientRetry' = FALSE /\ {} \in SUBSET Conn
    BY <1>1 DEF FinishDisconnecting
  <2>2. phase' = "timer" /\ phase' \in Phases /\ state' = "Disconnected"
    BY DEF FinishDisconnecting, Phases
  <2>3. UNCHANGED <<stateTimeOut, lateAdd, revived, queues, master, rest>>
    BY DEF FinishDisconnecting
  <2>4. /\ control' = "none" /\ open' = {} /\ connCount' = 0
        /\ zoidRequest' = 0 /\ gameNode' = "none" /\ updaterNode' = "none"
        /\ dialing' \in BOOLEAN /\ m_client' \in BOOLEAN
        /\ m_host' \in BOOLEAN /\ m_serverID' \in BOOLEAN
        /\ clientRetry' \in BOOLEAN
    BY <2>1 DEF FinishDisconnecting, DropSession
  <2>5. QED
    BY <2>1, <2>2, <2>3, <2>4 DEF IInv, TypeOK, PassesAreBounded
<1>4. /\ DisconnectedIsClean' /\ RetryWhileClosing' /\ RolesAgree'
      /\ ControlMatchesState'
  BY <1>1 DEF FinishDisconnecting, DropSession, DisconnectedIsClean,
              RetryWhileClosing, RolesAgree, ControlMatchesState
<1>5. ConnCountIsExact' /\ IsFiniteSet(open)'
  BY FS_EmptySet DEF FinishDisconnecting, DropSession, ConnCountIsExact
<1>6. RegistrationEnds' /\ RegistrationIsTracked'
  BY <1>1, <1>2 DEF FinishDisconnecting, InFlight, IInv, RegistrationEnds,
                    RegistrationIsTracked
<1>7. QED
  BY <1>3, <1>4, <1>5, <1>6 DEF IInv

\* A host registers or refreshes, also when it has just been told to close.
LEMMA ConnectEndKeeps == IInv /\ ConnectEnd => IInv'
<1> SUFFICES ASSUME IInv, ConnectEnd PROVE IInv'
  OBVIOUS
<1>1. CASE UNCHANGED requests /\ UNCHANGED lateAdd /\ updateTimer' \in Nat
  BY <1>1 DEF ConnectEnd, InFlight, IInv, TypeOK, Phases,
    DisconnectedIsClean, ConnCountIsExact, RetryWhileClosing, RolesAgree,
    RegistrationEnds, PassesAreBounded, ControlMatchesState,
    RegistrationIsTracked
<1>2. CASE m_host /\ \E kind \in {"update", "add"} : Register(kind)
  <2>1. PICK kind \in {"update", "add"} : Register(kind)
    BY <1>2
  <2>2. PICK r \in Posted(kind) : requests' = Append(requests, r)
    BY <2>1 DEF Register
  <2>3. r \in Request /\ r.kind = kind
    BY PostedType DEF RequestKinds
  <2>4. /\ requests' \in Seq(Request)
        /\ HasKind(requests', "add") <=> HasKind(requests, "add") \/ kind = "add"
        /\ HasKind(requests, "remove") => HasKind(requests', "remove")
    BY <2>2, <2>3, AppendRequest DEF IInv, TypeOK
  <2>5. updateTimer' = 0 /\ lateAdd' = (lateAdd \/ (kind = "add" /\ state = "Disconnecting"))
    BY <2>1 DEF Register
  <2>6. state # "Disconnected"
    BY <1>2 DEF IInv, DisconnectedIsClean
  <2>7. TypeOK' /\ PassesAreBounded'
    BY <2>4, <2>5 DEF ConnectEnd, IInv, TypeOK, Phases, PassesAreBounded
  <2>8. /\ DisconnectedIsClean' /\ RetryWhileClosing' /\ RolesAgree'
        /\ ControlMatchesState' /\ ConnCountIsExact' /\ IsFiniteSet(open)'
    BY DEF ConnectEnd, IInv, TypeOK, DisconnectedIsClean, RetryWhileClosing,
           RolesAgree, ControlMatchesState, ConnCountIsExact
  <2>9. RegistrationEnds' /\ RegistrationIsTracked'
    BY <2>4, <2>5, <2>6 DEF ConnectEnd, InFlight, IInv, RegistrationEnds,
                            RegistrationIsTracked
  <2>10. QED
    BY <2>7, <2>8, <2>9 DEF IInv
<1>3. QED
  <2>1. updateTimer \in Nat
    BY DEF IInv, TypeOK
  <2>2. QED
    BY <1>1, <1>2, <2>1 DEF ConnectEnd


LEMMA CmdFetchServerListKeeps == IInv /\ CmdFetchServerList => IInv'
<1> SUFFICES ASSUME IInv, CmdFetchServerList PROVE IInv'
  OBVIOUS
<1> DEFINE r == [kind |-> "list", null |-> FALSE]
<1>1. r \in Request /\ r.kind = "list"
  <2>1. FALSE \in BOOLEAN /\ "list" \in RequestKinds
    BY DEF RequestKinds
  <2>2. QED
    BY <2>1 DEF Request
<1>2. requests' = Append(requests, r) /\ requests \in Seq(Request)
  BY DEF CmdFetchServerList, IInv, TypeOK
<1> HIDE DEF r
<1>3. /\ requests' \in Seq(Request)
      /\ HasKind(requests', "add") <=> HasKind(requests, "add")
      /\ HasKind(requests', "remove") <=> HasKind(requests, "remove")
  BY <1>1, <1>2, AppendRequest
<1>4. /\ phase' = phase /\ phase \in {"console", "input"}
      /\ budget' \in Nat
      /\ UNCHANGED <<session, status, queues, serverAdded, updateTimer,
                     hostOption, downloads, reconnectTimer, quit>>
  BY DEF CmdFetchServerList, Command, IInv, TypeOK
<1>5. TypeOK' /\ PassesAreBounded'
  BY <1>3, <1>4 DEF IInv, TypeOK, PassesAreBounded
<1>6. SessionParts'
  BY <1>3, <1>4
  DEF InFlight, IInv, SessionParts, DisconnectedIsClean, ConnCountIsExact,
    RetryWhileClosing, RolesAgree, RegistrationEnds, ControlMatchesState,
    RegistrationIsTracked
<1>7. QED
  BY <1>5, <1>6 DEF IInv, SessionParts

-----------------------------------------------------------------------------
\* IInv holds initially and every step preserves it.
LEMMA InitIInv == Init => IInv
<1> SUFFICES ASSUME Init PROVE IInv
  OBVIOUS
<1>1. TypeOK
  <2>1. /\ FALSE \in BOOLEAN /\ 0 \in Nat /\ 0 \in 0..2 /\ Commands \in Nat
        /\ <<>> \in Seq(Request) /\ {} \in SUBSET Conn
    BY NetworkAssumption, EmptySeq
  <2>2. /\ dialing \in BOOLEAN /\ m_host \in BOOLEAN /\ m_client \in BOOLEAN
        /\ m_serverID \in BOOLEAN /\ clientRetry \in BOOLEAN
        /\ hostOption \in BOOLEAN /\ serverAdded \in BOOLEAN
        /\ quit \in BOOLEAN /\ lateAdd \in BOOLEAN /\ revived \in BOOLEAN
    BY <2>1 DEF Init
  <2>3. /\ todo \in Nat /\ stateTimeOut \in Nat /\ connCount \in Nat
        /\ nConnect \in Nat /\ nLevel \in Nat /\ zoidRequest \in 0..2
        /\ downloads \in Nat /\ updateTimer \in Nat /\ reconnectTimer \in Nat
        /\ budget \in Nat /\ requests \in Seq(Request) /\ open \in SUBSET Conn
    BY <2>1 DEF Init
  <2>4. /\ phase \in Phases
        /\ state \in {"Idle", "Disconnecting", "Disconnected"}
        /\ control \in {"none", "server", "client"}
        /\ gameNode \in {"none", "authority", "proxy"}
        /\ updaterNode \in {"none", "authority", "proxy"}
    BY DEF Init, Phases
  <2>5. QED
    BY <2>2, <2>3, <2>4 DEF TypeOK
<1>2. ConnCountIsExact /\ IsFiniteSet(open)
  BY FS_EmptySet DEF Init, ConnCountIsExact
<1>3. ~InFlight("add")
  BY DEF Init, InFlight, HasKind
<1>4. QED
  BY <1>1, <1>2, <1>3 DEF Init, IInv, DisconnectedIsClean,
    RetryWhileClosing, RolesAgree, RegistrationEnds, PassesAreBounded,
    ControlMatchesState, RegistrationIsTracked

\* The other actions change a few variables each.
LEMMA NextIInv == IInv /\ [Next]_vars => IInv'
<1> SUFFICES ASSUME IInv, [Next]_vars PROVE IInv'
  OBVIOUS
<1> USE DEF IInv, TypeOK, Phases, InFlight, DisconnectedIsClean, ConnCountIsExact,
            RetryWhileClosing, RolesAgree, RegistrationEnds, PassesAreBounded,
            ControlMatchesState, RegistrationIsTracked
<1>1. CASE GameLocal
  BY <1>1 DEF GameLocal
<1>2. CASE GameEnd
  BY <1>2 DEF GameEnd
<1>3. CASE UpdaterDone
  BY <1>3, NetworkAssumption DEF UpdaterDone, Reconnect
<1>4. CASE UpdaterEnd
  BY <1>4 DEF UpdaterEnd
<1>5. CASE ServerSpawned
  BY <1>5, AddConnCounts DEF ServerSpawned, Callback, AddConn
<1>6. CASE ServerClosed
  BY <1>6, DropConnCounts DEF ServerClosed, Callback, DropConn
<1>7. CASE ClientClosed
  BY <1>7, DropConnCounts, NetworkAssumption DEF ClientClosed, Callback,
     DropConn, Reconnect
<1>8. CASE ClientZoidResult
  BY <1>8 DEF ClientZoidResult, Callback
<1>9. CASE InputEnd
  BY <1>9 DEF InputEnd
<1>10. CASE HttpKeep
  BY <1>10 DEF HttpKeep
<1>11. CASE HttpNull
  BY <1>11 DEF HttpNull
<1>12. CASE HttpEnd
  BY <1>12 DEF HttpEnd
<1>13. CASE StillDisconnecting
  BY <1>13 DEF StillDisconnecting
<1>14. CASE ConnectStart
  BY <1>14 DEF ConnectStart
<1>15. CASE Timer
  BY <1>15 DEF Timer
<1>16. CASE CmdConnect
  BY <1>16 DEF CmdConnect, Command
<1>17. CASE CmdMap
  BY <1>17 DEF CmdMap, Command
<1>18. CASE ConsoleEnd
  BY <1>18 DEF ConsoleEnd
<1>19. CASE NextTick
  BY <1>19 DEF NextTick
<1>20. CASE Leave
  BY <1>20 DEF Leave
<1>21. CASE UNCHANGED vars
  BY <1>21 DEF vars
<1>22. QED
  BY <1>1, <1>2, <1>3, <1>4, <1>5, <1>6, <1>7, <1>8, <1>9, <1>10, <1>11,
     <1>12, <1>13, <1>14, <1>15, <1>16, <1>17, <1>18, <1>19, <1>20, <1>21,
     GameDelayKeeps, GameHostKeeps, ClientRefusedKeeps, ClientAcceptedKeeps,
     ClientDownloadsKeeps, ClientFailedKeeps, HttpDoneKeeps,
     FinishDisconnectingKeeps, ConnectDelayKeeps, ConnectEndKeeps,
     CmdDisconnectKeeps, CmdQuitKeeps, CmdFetchServerListKeeps
  DEF Next, Program, GamePhase, Callbacks, HttpPhase, SwitchPhase, User, Ended

-----------------------------------------------------------------------------
(***************************************************************************)
(* The invariants of every behaviour.                                      *)
(***************************************************************************)
\* The conjunction of the invariants and what makes them inductive.
THEOREM SpecIInv == Spec => []IInv
<1>1. Init => IInv
  BY InitIInv
<1>2. IInv /\ [Next]_vars => IInv'
  BY NextIInv
<1>3. QED
  BY <1>1, <1>2, PTL DEF Spec

\* Every variable keeps its type, for any number of connections, any delays
\* and any number of commands.
THEOREM SpecTypeOK == Spec => []TypeOK
<1>1. IInv => TypeOK
  BY DEF IInv
<1>2. QED
  BY <1>1, SpecIInv, PTL

\* Whenever network.cpp says Disconnected, no control, connection, flag or
\* node of a session is left.
THEOREM SpecDisconnectedIsClean == Spec => []DisconnectedIsClean
<1>1. IInv => DisconnectedIsClean
  BY DEF IInv
<1>2. QED
  BY <1>1, SpecIInv, PTL

\* connCount is the number of open connections, in every state.
THEOREM SpecConnCountIsExact == Spec => []ConnCountIsExact
<1>1. IInv => ConnCountIsExact
  BY DEF IInv
<1>2. QED
  BY <1>1, SpecIInv, PTL

\* The server turns new clients away exactly while it is closing.
THEOREM SpecRetryWhileClosing == Spec => []RetryWhileClosing
<1>1. IInv => RetryWhileClosing
  BY DEF IInv
<1>2. QED
  BY <1>1, SpecIInv, PTL

\* Roles exclude each other and agree with the control and the nodes.
THEOREM SpecRolesAgree == Spec => []RolesAgree
<1>1. IInv => RolesAgree
  BY DEF IInv
<1>2. QED
  BY <1>1, SpecIInv, PTL

\* Only a registration that was in flight at, or sent after, disconnect() can
\* leave the program disconnected and believing to be listed.
THEOREM SpecRegistrationEnds == Spec => []RegistrationEnds
<1>1. IInv => RegistrationEnds
  BY DEF IInv
<1>2. QED
  BY <1>1, SpecIInv, PTL

-----------------------------------------------------------------------------
(***************************************************************************)
(* Network implements NetLifecycle.                                        *)
(***************************************************************************)
LEMMA InitLifecycle == Init => Lifecycle!LInit
BY DEF Init, Lifecycle!LInit, Link, Halted

\* Giving up a role, or asking again while already off or closing.
LEMMA DisconnectLifecycle ==
  ASSUME IInv, Disconnect, UNCHANGED session, ~Halted, ~Halted'
  PROVE  Lifecycle!GiveUp \/ UNCHANGED Lifecycle!lvars
<1> USE DEF IInv, TypeOK, ControlMatchesState, Disconnect, Link, Halted,
            Lifecycle!GiveUp, Lifecycle!lvars
<1>1. CASE state = "Idle"
  BY <1>1
<1>2. CASE state # "Idle"
  BY <1>2
<1>3. QED
  BY <1>1, <1>2

LEMMA NextLifecycle == IInv /\ [Next]_vars => [Lifecycle!LNext]_(Lifecycle!lvars)
<1> SUFFICES ASSUME IInv, [Next]_vars
             PROVE  Lifecycle!LNext \/ UNCHANGED Lifecycle!lvars
  OBVIOUS
<1>1. CASE GameDelay \/ ConnectDelay \/ CmdDisconnect \/ CmdQuit
  <2>1. UNCHANGED session /\ ~Halted /\ ~Halted'
    BY <1>1 DEF GameDelay, ConnectDelay, CmdDisconnect, CmdQuit, Command, Halted
  <2>2. CASE Disconnect
    BY <2>1, <2>2, DisconnectLifecycle DEF Lifecycle!LNext
  <2>3. CASE UNCHANGED status
    BY <2>1, <2>3 DEF Link, Lifecycle!lvars
  <2>4. QED
    BY <1>1, <2>2, <2>3 DEF GameDelay, ConnectDelay, CmdDisconnect, CmdQuit
<1>2. CASE GameHost
  BY <1>2 DEF GameHost, Host, Link, Halted, Lifecycle!LNext, Lifecycle!TakeUp
<1>3. CASE ConnectStart
  BY <1>3 DEF ConnectStart, Link, Halted, Lifecycle!LNext, Lifecycle!TakeUp,
              IInv, DisconnectedIsClean
<1>4. CASE ServerSpawned
  BY <1>4 DEF ServerSpawned, Callback, AddConn, Link, Halted, IInv, TypeOK,
              ControlMatchesState, Lifecycle!LNext, Lifecycle!Come
<1>5. CASE ServerClosed
  BY <1>5 DEF ServerClosed, Callback, DropConn, Link, Halted, IInv, TypeOK,
              ControlMatchesState, Lifecycle!LNext, Lifecycle!Go
<1>6. CASE ClientAccepted \/ ClientDownloads
  BY <1>6 DEF ClientAccepted, ClientDownloads, Joined, Callback, AddConn, Link,
              Halted, IInv, TypeOK, ControlMatchesState, DisconnectedIsClean,
              Lifecycle!LNext, Lifecycle!Answered, Lifecycle!Come
<1>7. CASE ClientFailed
  BY <1>7 DEF ClientFailed, Disconnect, Joined, Callback, AddConn, Link,
              Halted, IInv, TypeOK, ControlMatchesState, DisconnectedIsClean,
              Lifecycle!LNext, Lifecycle!Answered, Lifecycle!Come
<1>8. CASE ClientClosed
  BY <1>8 DEF ClientClosed, Callback, DropConn, Link, Halted, IInv, TypeOK,
              ControlMatchesState, Lifecycle!LNext, Lifecycle!Go
<1>9. CASE FinishDisconnecting
  BY <1>9 DEF FinishDisconnecting, DropSession, Link, Halted, IInv,
              PassesAreBounded, Lifecycle!LNext, Lifecycle!Close
<1>10. CASE HttpNull \/ Leave
  BY <1>10 DEF HttpNull, Leave, Link, Halted, Lifecycle!LNext, Lifecycle!Halt
<1>11. CASE \/ GameLocal \/ GameEnd \/ UpdaterPhase \/ ClientRefused
             \/ ClientZoidResult \/ InputEnd \/ HttpKeep \/ HttpDone \/ HttpEnd
             \/ StillDisconnecting \/ ConnectEnd \/ Timer \/ CmdConnect \/ CmdMap
             \/ CmdFetchServerList \/ ConsoleEnd \/ NextTick \/ UNCHANGED vars
  <2>1. UNCHANGED <<state, control, m_client, open>>
    BY <1>11
    DEF GameLocal, GameEnd, UpdaterPhase, UpdaterDone, UpdaterEnd,
        ClientRefused, ClientZoidResult, InputEnd, HttpKeep, HttpDone, HttpEnd,
        StillDisconnecting, ConnectEnd, Timer, CmdConnect, CmdMap,
        CmdFetchServerList, ConsoleEnd, NextTick, vars
  <2>2. Halted' = Halted
    <3>1. CASE UNCHANGED phase
      BY <3>1 DEF Halted
    <3>2. CASE ~Halted /\ ~Halted'
      BY <3>2 DEF Halted
    <3>3. QED
      BY <1>11, <3>1, <3>2
      DEF GameLocal, GameEnd, UpdaterPhase, UpdaterDone, UpdaterEnd,
          ClientRefused, ClientZoidResult, InputEnd, HttpKeep, HttpDone,
          HttpEnd, StillDisconnecting, ConnectEnd, Timer, CmdConnect, CmdMap,
          CmdFetchServerList, ConsoleEnd, NextTick, vars, Callback, Command,
          Halted
  <2>3. QED
    BY <2>1, <2>2 DEF Link, Lifecycle!lvars
<1>12. QED
  BY <1>1, <1>2, <1>3, <1>4, <1>5, <1>6, <1>7, <1>8, <1>9, <1>10, <1>11
  DEF Next, Program, GamePhase, UpdaterPhase, Callbacks, HttpPhase,
      SwitchPhase, User, Ended

\* Every behaviour of Network is one NetLifecycle allows.
THEOREM SpecKeepsLifecycle == Spec => KeepsLifecycle
<1>1. Init => Lifecycle!LInit
  BY InitLifecycle
<1>2. IInv /\ [Next]_vars => [Lifecycle!LNext]_(Lifecycle!lvars)
  BY NextLifecycle
<1>3. QED
  BY <1>1, <1>2, SpecIInv, PTL DEF Spec, KeepsLifecycle, Lifecycle!LSpec

=============================================================================
