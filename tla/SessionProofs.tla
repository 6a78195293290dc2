----------------------------- MODULE SessionProofs -----------------------------
(***************************************************************************)
(* Proofs about Session, for every value of its constants: that no two     *)
(* players of a server have one name, that a client at rest shows the      *)
(* players of the server, that a name asked for is what results, and that  *)
(* the scores come to agree.                                               *)
(*                                                                         *)
(* The argument follows the events of each player's node, those on the     *)
(* wire and those that wait in the node: the first one makes it, the last  *)
(* one that names it gives the name the server has, and none comes behind  *)
(* the one that removes it.                                                *)
(***************************************************************************)
EXTENDS Session, SequenceTheorems, FiniteSetTheorems, FunctionTheorems,
        WellFoundedInduction, TLAPS

-----------------------------------------------------------------------------
(***************************************************************************)
(* The invariant.                                                          *)
(***************************************************************************)
Wishes == {<<w>> : w \in Word}

WormMessages == [node : {WormNode(p) : p \in Player}, kind : {"create", "die"},
                 data : Player \cup {None}]
PlayerMessages ==
  [node : {PlayerNode(p) : p \in Player}, kind : {"create", "removed"}, data : {None}]
    \cup [node : {PlayerNode(p) : p \in Player}, kind : {"name"}, data : Names]
    \cup [node : {PlayerNode(p) : p \in Player}, kind : {"sync"},
          data : [name : Names, kills : Nat, deaths : Nat]]
Messages == WormMessages \cup PlayerMessages

ServerTypes ==
  /\ present \cup own \subseteq used /\ used \subseteq Player /\ inits \subseteq present
  /\ Me \in used => Me \in present
  /\ name \in [Player -> Names] /\ stats \in [Player -> Player]
  /\ kills \in [Player -> Nat] /\ deaths \in [Player -> Nat]

NetTypes ==
  /\ announced \subseteq {WormNode(p) : p \in present} \cup {PlayerNode(p) : p \in present}
  /\ items \subseteq [id : {"WormID", "PlayerID"}, of : present]
  /\ wire \in Seq(Messages)
  /\ \A i \in 1..Len(wire) : wire[i].node[2] \in used

ClientTypes ==
  /\ linked \subseteq cPlayers \cap cWorms /\ cMark \subseteq cPlayers
  /\ cPlayers \cup cWorms \subseteq used
  /\ cName \in [Player -> Names]
  /\ cKills \in [Player -> Nat] /\ cDeaths \in [Player -> Nat]
  /\ qWorm \in [Player -> Seq(WormMessages)]
  /\ qPlayer \in [Player -> Seq(PlayerMessages)]
  /\ turn \in {"network", "worms", "players"}
  /\ turn = "network" => cMark = {}
  /\ turn = "players" => \A p \in Player : qWorm[p] = << >>

OptionTypes ==
  /\ option \in Wishes /\ nameChanged \in BOOLEAN /\ early \in BOOLEAN
  /\ up \in Seq([kind : {"request", "petition"}, name : Wishes])

Types == ServerTypes /\ NetTypes /\ ClientTypes /\ OptionTypes

\* What waits in a node is an event of that node.
Filed ==
  \A p \in Player : \A i \in 1..Len(qPlayer[p]) :
    qPlayer[p][i].node = PlayerNode(p) /\ qPlayer[p][i].kind # "create"

NamesDiffer == \A p, q \in present : p # q => name[p] # name[q]

\* The client asks for the name in its options, or has.
WishComes ==
  /\ nameChanged /\ Me \notin cPlayers => early
  /\ \/ early \/ nameChanged
     \/ up # << >> /\ up[Len(up)].name = option
     \/ up = << >> /\ Carries(Me, option)

\* The i-th message on the wire is one of p's node, makes it, removes it.
Of(p, i)      == wire[i].node = PlayerNode(p)
Creates(p, i) == Of(p, i) /\ wire[i].kind = "create"
Removes(p, i) == Of(p, i) /\ wire[i].kind = "removed"

Known(p)  == PlayerNode(p) \in announced
Coming(p) == \E i \in 1..Len(wire) : Creates(p, i)
Told(p)   == \E i \in 1..Len(qPlayer[p]) : qPlayer[p][i].kind = "removed"
Leaving(p) == p \in cMark \/ Told(p) \/ \E i \in 1..Len(wire) : Removes(p, i)

\* The worm of p is there, or comes before the i-th message.
WormBefore(p, i) ==
  p \in cWorms \/ \E j \in 1..Len(wire) :
                    j < i /\ wire[j].node = WormNode(p) /\ wire[j].kind = "create"

\* The first message of a node makes it, behind its worm's.
CreateFirst(p) ==
  /\ qPlayer[p] # << >> => p \in cPlayers
  /\ \A i \in 1..Len(wire) : Of(p, i) =>
       IF Creates(p, i)
       THEN /\ p \notin cPlayers /\ WormBefore(p, i)
            /\ \A j \in 1..Len(wire) : j < i => ~Of(p, j)
       ELSE p \in cPlayers \/ \E j \in 1..Len(wire) : j < i /\ Creates(p, j)

\* The last one removes it.
RemovedLast(p) ==
  /\ Told(p) \/ p \in cMark => \A i \in 1..Len(wire) : ~Of(p, i)
  /\ \A i \in 1..Len(wire) : Removes(p, i) =>
       \A j \in 1..Len(wire) : j > i => ~Of(p, j)

\* The client has the player, or will, and will let it go.
Shown(p) ==
  IF p \notin present THEN p \in cPlayers \/ Coming(p) => Leaving(p)
  ELSE IF Known(p) THEN (p \in cPlayers \/ Coming(p)) /\ ~Leaving(p)
  ELSE p \notin cPlayers /\ \A i \in 1..Len(wire) : ~Of(p, i)

WormID_(p) == [id |-> "WormID", of |-> p]
Links(p) ==
  /\ p \in cPlayers => p \in cWorms
  /\ p \in present /\ Known(p) => WormID_(p) \in items \/ p \in linked

\* The last of the events in s to name p says x.
Gives(m, p)   == m.node = PlayerNode(p) /\ m.kind \in {"name", "sync"}
NameIn(m)     == IF m.kind = "sync" THEN m.data.name ELSE m.data
Silent(s, p)  == \A i \in 1..Len(s) : ~Gives(s[i], p)
LastSays(s, p, x) ==
  \E i \in 1..Len(s) : /\ Gives(s[i], p) /\ NameIn(s[i]) = x
                       /\ \A j \in 1..Len(s) : j > i => ~Gives(s[j], p)

Says(p, x) ==
  \/ LastSays(wire, p, x)
  \/ /\ Silent(wire, p)
     /\ \/ LastSays(qPlayer[p], p, x)
        \/ Silent(qPlayer[p], p) /\ p \in cPlayers /\ cName[p] = x

Named(p) ==
  /\ p \in inits => Known(p)
  /\ p \in present /\ Known(p) /\ p \notin inits => Says(p, name[p])

Mirrors(p) == CreateFirst(p) /\ RemovedLast(p) /\ Shown(p) /\ Links(p) /\ Named(p)

IInv ==
  /\ Types /\ Filed /\ NamesDiffer /\ WishComes /\ \A p \in Player : Mirrors(p)


-----------------------------------------------------------------------------
(***************************************************************************)
(* Names.                                                                  *)
(***************************************************************************)

\* A set of natural numbers that is not empty has a least element.
LEMMA LeastElement ==
  ASSUME NEW T, T \subseteq Nat, T # {}
  PROVE  \E n \in T : \A m \in T : n <= m
<1> DEFINE R == StrictSubsetOrdering(Nat)
           U == {1..n : n \in T}
<1>1. \E x \in U : \A y \in U : ~(<<y, x>> \in R)
  <2>1. IsWellFoundedOn(R, FiniteSubsetsOf(Nat))
    BY FS_StrictSubsetOrderingWellFounded
  <2>2. U \subseteq FiniteSubsetsOf(Nat)
    <3>1. ASSUME NEW n \in T PROVE 1..n \subseteq Nat /\ IsFiniteSet(1..n)
      BY FS_Interval
    <3> QED BY <3>1 DEF FiniteSubsetsOf
  <2>3. U # {} OBVIOUS
  <2> HIDE DEF R, U
  <2>4. QED
    BY <2>1, <2>2, <2>3, WFMin
<1>2. PICK n \in T : \A m \in T : ~(<<1..m, 1..n>> \in R)
  BY <1>1
<1>3. ASSUME NEW m \in T
      PROVE n <= m
  <2>1. n \in Nat /\ m \in Nat OBVIOUS
  <2>2. ASSUME m < n PROVE FALSE
    <3>1. 1..m \subseteq 1..n /\ 1..m # 1..n
      <4>1. n \in 1..n /\ n \notin 1..m BY <2>1, <2>2
      <4> QED BY <4>1, <2>1, <2>2
    <3>2. <<1..m, 1..n>> \in R
      BY <3>1, <2>1 DEF StrictSubsetOrdering
    <3> QED BY <3>2, <1>2
  <2> QED BY <2>1, <2>2
<1> QED BY <1>3

AnyWord == Word \cup {DefaultWord}
Numbers == 1 .. Cardinality(Player) + 1
ShortNames == {<< >>} \cup {<<w>> : w \in AnyWord} \cup {<<w, n>> : w \in AnyWord, n \in Numbers}

\* What names are, spelled out.
LEMMA ShortNamesAreNames == ShortNames \subseteq Names
<1> DEFINE Letters == Word \cup {DefaultWord} \cup Numbers
<1>1. << >> \in [1..0 -> Letters]
  OBVIOUS
<1>2. ASSUME NEW w \in AnyWord PROVE <<w>> \in [1..1 -> Letters]
  BY DEF AnyWord
<1>3. ASSUME NEW w \in AnyWord, NEW n \in Numbers PROVE <<w, n>> \in [1..2 -> Letters]
  BY DEF AnyWord
<1>4. /\ [1..0 -> Letters] \subseteq Names
      /\ [1..1 -> Letters] \subseteq Names
      /\ [1..2 -> Letters] \subseteq Names
  BY DEF Names, Numbers
<1> HIDE DEF Letters
<1>5. ASSUME NEW x \in ShortNames PROVE x \in Names
  <2>1. CASE x = << >>
    BY <2>1, <1>1, <1>4
  <2>2. CASE x \in {<<w>> : w \in AnyWord}
    BY <2>2, <1>2, <1>4
  <2>3. CASE x \in {<<w, n>> : w \in AnyWord, n \in Numbers}
    <3>1. PICK w \in AnyWord, n \in Numbers : x = <<w, n>>
      BY <2>3
    <3> QED BY <3>1, <1>3, <1>4
  <2> QED BY <2>1, <2>2, <2>3 DEF ShortNames
<1> QED BY <1>5

\* Among as many names as there are players, one more number than that is enough.
LEMMA AFreeNumber ==
  ASSUME NEW players \in SUBSET Player, NEW names, NEW w
  PROVE  /\ Cardinality(players) \in Nat /\ Cardinality(players) <= Cardinality(Player)
         /\ Cardinality(Player) \in Nat
         /\ \E n \in 1 .. Cardinality(players) + 1 :
              Append(<<w>>, n) \notin {names[q] : q \in players}
<1> DEFINE C == Cardinality(players)
<1>1. /\ IsFiniteSet(players) /\ C \in Nat /\ C <= Cardinality(Player)
      /\ Cardinality(Player) \in Nat
  BY SessionAssumption, FS_Subset, FS_CardinalityType
<1>2. SUFFICES ASSUME \A n \in 1 .. C + 1 : Append(<<w>>, n) \in {names[q] : q \in players}
      PROVE FALSE
  BY <1>1
<1> DEFINE f == [n \in 1 .. C + 1 |-> CHOOSE q \in players : names[q] = <<w, n>>]
<1>3. \A n \in 1 .. C + 1 : f[n] \in players /\ names[f[n]] = <<w, n>>
  BY <1>2
<1>4. IsFiniteSet(1 .. C + 1) /\ Cardinality(1 .. C + 1) = C + 1
  <2> HIDE DEF C
  <2>1. 1 \in Int /\ C + 1 \in Int /\ ~(1 > C + 1) /\ (C + 1) - 1 + 1 = C + 1
    BY <1>1
  <2> QED BY <2>1, FS_Interval
<1>5. f \in [1 .. C + 1 -> players]
  BY <1>3
<1>6. \E x, y \in 1 .. C + 1 : x # y /\ f[x] = f[y]
  <2> HIDE DEF f
  <2>1. Cardinality(1 .. C + 1) > Cardinality(players)
    BY <1>1, <1>4
  <2> QED BY <1>1, <1>4, <1>5, <2>1, FS_PigeonHole
<1>7. PICK x, y \in 1 .. C + 1 : x # y /\ f[x] = f[y]
  BY <1>6
<1>8. <<w, x>> = <<w, y>>
  <2> HIDE DEF f
  <2> QED BY <1>3, <1>7
<1> QED BY <1>7, <1>8

\* s is wish, perhaps with something behind it.
Begins(s, wish) == Len(s) >= Len(wish) /\ SubSeq(s, 1, Len(wish)) = wish

LEMMA WithNumber ==
  ASSUME NEW w, NEW n
  PROVE  /\ Append(<<w>>, n) = <<w, n>>
         /\ Begins(<<w, n>>, <<w>>) /\ Begins(<<w>>, <<w>>)
<1> DEFINE S == {w, n}
<1>1. <<w>> \in Seq(S) /\ <<w, n>> \in Seq(S) /\ n \in S /\ w \in S
  OBVIOUS
<1> HIDE DEF S
<1>2. Len(<<w>>) = 1 /\ Len(<<w, n>>) = 2 /\ <<w, n>>[1] = w /\ <<w, n>>[2] = n /\ <<w>>[1] = w
  OBVIOUS
<1>3. ASSUME NEW s \in Seq(S), NEW t \in Seq(S), Len(s) = Len(t),
             \A i \in 1 .. Len(s) : s[i] = t[i]
      PROVE  s = t
  BY <1>3
<1>4. Append(<<w>>, n) = <<w, n>>
  <2> DEFINE t == Append(<<w>>, n)
  <2>1. t \in Seq(S) /\ Len(t) = 2 /\ t[1] = w /\ t[2] = n
    BY <1>1, <1>2, AppendProperties
  <2> HIDE DEF t
  <2>2. t = <<w, n>>
    BY <1>1, <1>2, <1>3, <2>1
  <2> QED BY <2>2 DEF t
<1>5. ASSUME NEW s \in Seq(S), Len(s) >= 1, s[1] = w
      PROVE  SubSeq(s, 1, 1) = <<w>>
  <2> DEFINE t == SubSeq(s, 1, 1)
  <2>1. t \in Seq(S) /\ Len(t) = 1 /\ t[1] = w
    <3>1. \A i \in 1 .. 1 : s[i] \in S
      BY <1>5
    <3>2. /\ t \in Seq(S) /\ Len(t) = IF 1 <= 1 THEN 1 - 1 + 1 ELSE 0
          /\ \A i \in 1 .. 1 - 1 + 1 : t[i] = s[1 + i - 1]
      BY <3>1, SubSeqProperties
    <3> HIDE DEF t
    <3> QED BY <3>2, <1>5
  <2> HIDE DEF t
  <2>2. t = <<w>>
    BY <1>1, <1>2, <1>3, <2>1
  <2> QED BY <2>2 DEF t
<1>6. SubSeq(<<w>>, 1, 1) = <<w>> /\ SubSeq(<<w, n>>, 1, 1) = <<w>>
  <2>1. \A s \in Seq(S) : Len(s) >= 1 /\ s[1] = w => SubSeq(s, 1, 1) = <<w>>
    BY <1>5
  <2> DEFINE s == <<w, n>>
             t == <<w>>
  <2>2. s \in Seq(S) /\ t \in Seq(S) /\ Len(s) >= 1 /\ Len(t) >= 1 /\ s[1] = w /\ t[1] = w
    BY <1>1, <1>2
  <2>3. SubSeq(s, 1, 1) = <<w>> /\ SubSeq(t, 1, 1) = <<w>>
    <3> HIDE DEF s, t
    <3> QED BY <2>1, <2>2
  <2> QED BY <2>3
<1> QED BY <1>2, <1>4, <1>6 DEF Begins

\* The name that localChangeName finds is a name, begins with what was wished
\* for, and is no player's, but for who is called so already.
LEMMA LocalChangeName ==
  ASSUME NEW players \in SUBSET Player, NEW names, NEW w \in AnyWord, NEW before
  PROVE  LET r == localChangeName(before, <<w>>, names, players)
         IN /\ r \in Names
            /\ Begins(r, <<w>>)
            /\ \/ r = before /\ before = <<w>>
               \/ \A q \in players : r # names[q]
<1> DEFINE r == localChangeName(before, <<w>>, names, players)
           taken == {names[q] : q \in players}
           suffixed == {n \in 1 .. Cardinality(players) + 1 : Append(<<w>>, n) \notin taken}
<1>1. CASE before = <<w>> \/ <<w>> \notin taken
  <2>1. r = <<w>>
    BY <1>1 DEF localChangeName
  <2>2. r \in Names
    BY <2>1, ShortNamesAreNames DEF ShortNames
  <2>3. Begins(r, <<w>>)
    BY <2>1, WithNumber
  <2>4. \/ r = before /\ before = <<w>>
        \/ \A q \in players : r # names[q]
    <3> HIDE DEF r
    <3> QED BY <1>1, <2>1
  <2> QED BY <2>2, <2>3, <2>4
<1>2. CASE ~(before = <<w>> \/ <<w>> \notin taken)
  <2> DEFINE n == CHOOSE n \in suffixed : \A m \in suffixed : n <= m
  <2>1. r = Append(<<w>>, n)
    BY <1>2 DEF localChangeName
  <2>2. suffixed \subseteq Nat /\ suffixed # {}
    <3>1. suffixed \subseteq Nat
      BY AFreeNumber
    <3>2. \E k \in 1 .. Cardinality(players) + 1 : Append(<<w>>, k) \notin taken
      BY AFreeNumber
    <3> QED BY <3>1, <3>2
  <2>3. \E k \in suffixed : \A m \in suffixed : k <= m
    <3> HIDE DEF suffixed
    <3> QED BY <2>2, LeastElement
  <2>4. n \in suffixed
    <3> HIDE DEF suffixed
    <3> QED BY <2>3
  <2>5. n \in Numbers
    BY <2>4, AFreeNumber DEF Numbers
  <2>6. r = <<w, n>>
    <3> HIDE DEF n, r
    <3> QED BY <2>1, WithNumber
  <2>7. r \in Names
    <3> HIDE DEF n, r
    <3> QED BY <2>5, <2>6, ShortNamesAreNames DEF ShortNames
  <2>8. Begins(r, <<w>>)
    <3> HIDE DEF n, r
    <3> QED BY <2>6, WithNumber
  <2>9. r \notin taken
    <3> HIDE DEF n, r, taken
    <3> QED BY <2>1, <2>4
  <2> QED BY <2>7, <2>8, <2>9
<1> QED BY <1>1, <1>2

-----------------------------------------------------------------------------
(***************************************************************************)
(* What does not concern a player leaves it as it was: of what the server  *)
(* and the client have of it, and of the messages, nothing changes but     *)
(* that others come behind them or are taken from before them.             *)
(***************************************************************************)
StillAtServer(p) ==
  /\ p \in present' <=> p \in present
  /\ Known(p)' <=> Known(p)
  /\ p \in inits' <=> p \in inits
  /\ Known(p) => name'[p] = name[p]

StillShown(p) ==
  /\ p \in cPlayers' <=> p \in cPlayers
  /\ p \in cWorms => p \in cWorms'
  /\ p \in cMark' <=> p \in cMark
  /\ cName'[p] = cName[p]
  /\ qPlayer'[p] = qPlayer[p]

StillLinked(p) ==
  WormID_(p) \in items \/ p \in linked => WormID_(p) \in items' \/ p \in linked'

StillAtClient(p) == StillShown(p) /\ StillLinked(p)

Longer ==
  /\ Len(wire) \in Nat /\ Len(wire') \in Nat /\ Len(wire') >= Len(wire)
  /\ \A i \in 1..Len(wire) : wire'[i] = wire[i]
NoneOf(p) == \A i \in 1..Len(wire') : i > Len(wire) => wire'[i].node # PlayerNode(p)

Shorter ==
  /\ Len(wire) \in Nat /\ Len(wire') \in Nat /\ Len(wire) = Len(wire') + 1
  /\ \A i \in 1..Len(wire') : wire'[i] = wire[i + 1]
NotOf(p) ==
  /\ ~Of(p, 1)
  /\ wire[1].node = WormNode(p) /\ wire[1].kind = "create" => p \in cWorms'

LEMMA LongerStays ==
  ASSUME NEW p \in Player, Mirrors(p), StillAtServer(p), StillAtClient(p), Longer, NoneOf(p)
  PROVE  Mirrors(p)'
<1> USE DEF StillAtServer, StillAtClient, StillShown, StillLinked, Longer, NoneOf
<1>1. \A i \in 1..Len(wire') : Of(p, i)' => i \in 1..Len(wire) /\ Of(p, i) /\ wire'[i] = wire[i]
  BY DEF Of
<1>2. \A i \in 1..Len(wire) : i \in 1..Len(wire') /\ wire'[i] = wire[i]
  OBVIOUS
<1>3. \A i \in 1..Len(wire) : WormBefore(p, i) => WormBefore(p, i)'
  BY <1>2 DEF WormBefore
<1>4. CreateFirst(p)'
  <2>1. CreateFirst(p)
    BY DEF Mirrors
  <2>2. ASSUME NEW i \in 1..Len(wire'), Of(p, i)'
        PROVE  IF Creates(p, i)'
               THEN /\ p \notin cPlayers' /\ WormBefore(p, i)'
                    /\ \A j \in 1..Len(wire') : j < i => ~Of(p, j)'
               ELSE p \in cPlayers' \/ \E j \in 1..Len(wire') : j < i /\ Creates(p, j)'
    <3>1. i \in 1..Len(wire) /\ Of(p, i) /\ wire'[i] = wire[i]
      BY <1>1, <2>2
    <3>2. CASE Creates(p, i)'
      <4>1. Creates(p, i)
        BY <3>1, <3>2 DEF Creates, Of
      <4>2. p \notin cPlayers /\ WormBefore(p, i) /\ \A j \in 1..Len(wire) : j < i => ~Of(p, j)
        BY <2>1, <3>1, <4>1 DEF CreateFirst
      <4>3. WormBefore(p, i)'
        BY <1>3, <3>1, <4>2
      <4>4. \A j \in 1..Len(wire') : j < i => ~Of(p, j)'
        BY <1>1, <4>2
      <4> QED BY <3>2, <4>2, <4>3, <4>4
    <3>3. CASE ~Creates(p, i)'
      <4>1. ~Creates(p, i)
        BY <3>1, <3>3 DEF Creates, Of
      <4>2. p \in cPlayers \/ \E j \in 1..Len(wire) : j < i /\ Creates(p, j)
        BY <2>1, <3>1, <4>1 DEF CreateFirst
      <4> QED BY <1>2, <3>3, <4>2 DEF Creates, Of
    <3> QED BY <3>2, <3>3
  <2>3. qPlayer'[p] # << >> => p \in cPlayers'
    BY <2>1 DEF CreateFirst
  <2> QED BY <2>2, <2>3 DEF CreateFirst
<1>5. RemovedLast(p)'
  <2>1. RemovedLast(p) /\ (Told(p)' <=> Told(p))
    BY DEF Mirrors, Told
  <2>2. ASSUME Told(p)' \/ p \in cMark', NEW i \in 1..Len(wire') PROVE ~Of(p, i)'
    BY <1>1, <2>1, <2>2 DEF RemovedLast
  <2>3. ASSUME NEW i \in 1..Len(wire'), Removes(p, i)', NEW j \in 1..Len(wire'), j > i
        PROVE  ~Of(p, j)'
    <3>1. i \in 1..Len(wire) /\ Removes(p, i)
      BY <1>1, <2>3 DEF Removes, Of
    <3> QED BY <1>1, <2>1, <2>3, <3>1 DEF RemovedLast
  <2> QED BY <2>2, <2>3 DEF RemovedLast
<1>6. Shown(p)'
  <2>1. Told(p)' <=> Told(p)
    BY DEF Told
  <2>2. Coming(p)' <=> Coming(p)
    BY <1>1, <1>2 DEF Coming, Creates, Of
  <2>3. (\E i \in 1..Len(wire) : Removes(p, i))' <=> \E i \in 1..Len(wire) : Removes(p, i)
    BY <1>1, <1>2 DEF Removes, Of
  <2>4. Leaving(p)' <=> Leaving(p)
    BY <2>1, <2>3 DEF Leaving
  <2>5. (\A i \in 1..Len(wire) : ~Of(p, i)) => \A i \in 1..Len(wire') : ~Of(p, i)'
    BY <1>1
  <2> QED BY <2>2, <2>4, <2>5 DEF Mirrors, Shown
<1>7. Links(p)'
  BY DEF Mirrors, Links, WormID_
<1>8. Named(p)'
  <2>1. \A i \in 1..Len(wire') : Gives(wire'[i], p) => i \in 1..Len(wire) /\ wire'[i] = wire[i]
    BY <1>1 DEF Gives, Of
  <2>2. Silent(wire, p) => Silent(wire', p)
    BY <2>1 DEF Silent
  <2>3. ASSUME NEW x, LastSays(wire, p, x) PROVE LastSays(wire', p, x)
    BY <1>2, <2>1, <2>3 DEF LastSays
  <2>4. ASSUME NEW x, Says(p, x) PROVE Says(p, x)'
    BY <2>2, <2>3, <2>4 DEF Says
  <2> QED BY <2>4 DEF Mirrors, Named
<1> QED BY <1>4, <1>5, <1>6, <1>7, <1>8 DEF Mirrors

LEMMA ShorterStays ==
  ASSUME NEW p \in Player, Mirrors(p), StillAtServer(p), StillAtClient(p), Shorter, NotOf(p)
  PROVE  Mirrors(p)'
<1> USE DEF StillAtServer, StillAtClient, StillShown, StillLinked, Shorter, NotOf
<1>1. \A i \in 1..Len(wire') : i + 1 \in 1..Len(wire) /\ wire'[i] = wire[i + 1]
  OBVIOUS
<1>2. \A i \in 1..Len(wire) : i # 1 => i - 1 \in 1..Len(wire') /\ wire'[i - 1] = wire[i]
  <2> TAKE i \in 1..Len(wire)
  <2> HAVE i # 1
  <2>1. i - 1 \in 1..Len(wire') /\ (i - 1) + 1 = i
    OBVIOUS
  <2> QED BY <1>1, <2>1
<1>3. \A i \in 1..Len(wire) : WormBefore(p, i) => WormBefore(p, i - 1)'
  <2> TAKE i \in 1..Len(wire)
  <2> HAVE WormBefore(p, i)
  <2>1. ASSUME NEW j \in 1..Len(wire), j < i, wire[j].node = WormNode(p), wire[j].kind = "create",
               p \notin cWorms'
        PROVE  WormBefore(p, i - 1)'
    <3>1. j # 1
      BY <2>1
    <3>2. j - 1 \in 1..Len(wire') /\ wire'[j - 1] = wire[j] /\ j - 1 < i - 1
      BY <1>2, <2>1, <3>1
    <3> QED BY <2>1, <3>2 DEF WormBefore
  <2> QED BY <2>1 DEF WormBefore
<1>4. CreateFirst(p)'
  <2>1. CreateFirst(p)
    BY DEF Mirrors
  <2>2. ASSUME NEW i \in 1..Len(wire'), Of(p, i)'
        PROVE  IF Creates(p, i)'
               THEN /\ p \notin cPlayers' /\ WormBefore(p, i)'
                    /\ \A j \in 1..Len(wire') : j < i => ~Of(p, j)'
               ELSE p \in cPlayers' \/ \E j \in 1..Len(wire') : j < i /\ Creates(p, j)'
    <3>1. i + 1 \in 1..Len(wire) /\ Of(p, i + 1) /\ wire'[i] = wire[i + 1]
      BY <1>1, <2>2 DEF Of
    <3>2. CASE Creates(p, i)'
      <4>1. Creates(p, i + 1)
        BY <3>1, <3>2 DEF Creates, Of
      <4>2. p \notin cPlayers /\ WormBefore(p, i + 1)
            /\ \A j \in 1..Len(wire) : j < i + 1 => ~Of(p, j)
        BY <2>1, <3>1, <4>1 DEF CreateFirst
      <4>3. WormBefore(p, i)'
        <5>1. i = (i + 1) - 1
          OBVIOUS
        <5> QED BY <1>3, <3>1, <4>2, <5>1
      <4>4. \A j \in 1..Len(wire') : j < i => ~Of(p, j)'
        BY <1>1, <4>2 DEF Of
      <4> QED BY <3>2, <4>2, <4>3, <4>4
    <3>3. CASE ~Creates(p, i)'
      <4>1. ~Creates(p, i + 1)
        BY <3>1, <3>3 DEF Creates, Of
      <4>2. p \in cPlayers \/ \E j \in 1..Len(wire) : j < i + 1 /\ Creates(p, j)
        BY <2>1, <3>1, <4>1 DEF CreateFirst
      <4>3. ASSUME NEW j \in 1..Len(wire), j < i + 1, Creates(p, j)
            PROVE  \E k \in 1..Len(wire') : k < i /\ Creates(p, k)'
        <5>1. j # 1
          BY <4>3 DEF Creates
        <5>2. j - 1 \in 1..Len(wire') /\ wire'[j - 1] = wire[j] /\ j - 1 < i
          BY <1>2, <4>3, <5>1
        <5> QED BY <4>3, <5>2 DEF Creates, Of
      <4> QED BY <3>3, <4>2, <4>3
    <3> QED BY <3>2, <3>3
  <2>3. qPlayer'[p] # << >> => p \in cPlayers'
    BY <2>1 DEF CreateFirst
  <2> QED BY <2>2, <2>3 DEF CreateFirst
<1>5. RemovedLast(p)'
  <2>1. RemovedLast(p) /\ (Told(p)' <=> Told(p))
    BY DEF Mirrors, Told
  <2>2. ASSUME Told(p)' \/ p \in cMark', NEW i \in 1..Len(wire') PROVE ~Of(p, i)'
    BY <1>1, <2>1, <2>2 DEF RemovedLast, Of
  <2>3. ASSUME NEW i \in 1..Len(wire'), Removes(p, i)', NEW j \in 1..Len(wire'), j > i
        PROVE  ~Of(p, j)'
    <3>1. i + 1 \in 1..Len(wire) /\ Removes(p, i + 1) /\ j + 1 \in 1..Len(wire) /\ j + 1 > i + 1
      BY <1>1, <2>3 DEF Removes, Of
    <3>2. ~Of(p, j + 1)
      BY <2>1, <3>1 DEF RemovedLast
    <3> QED BY <1>1, <3>2 DEF Of
  <2> QED BY <2>2, <2>3 DEF RemovedLast
<1>6. Shown(p)'
  <2>1. Told(p)' <=> Told(p)
    BY DEF Told
  <2>2. Coming(p)' <=> Coming(p)
    <3>1. Coming(p)' => Coming(p)
      BY <1>1 DEF Coming, Creates, Of
    <3>2. Coming(p) => Coming(p)'
      BY <1>2 DEF Coming, Creates, Of
    <3> QED BY <3>1, <3>2
  <2>3. (\E i \in 1..Len(wire) : Removes(p, i))' <=> \E i \in 1..Len(wire) : Removes(p, i)
    <3>1. (\E i \in 1..Len(wire) : Removes(p, i))' => \E i \in 1..Len(wire) : Removes(p, i)
      BY <1>1 DEF Removes, Of
    <3>2. (\E i \in 1..Len(wire) : Removes(p, i)) => (\E i \in 1..Len(wire) : Removes(p, i))'
      BY <1>2 DEF Removes, Of
    <3> QED BY <3>1, <3>2
  <2>4. Leaving(p)' <=> Leaving(p)
    BY <2>1, <2>3 DEF Leaving
  <2>5. (\A i \in 1..Len(wire) : ~Of(p, i)) => \A i \in 1..Len(wire') : ~Of(p, i)'
    BY <1>1 DEF Of
  <2> QED BY <2>2, <2>4, <2>5 DEF Mirrors, Shown
<1>7. Links(p)'
  BY DEF Mirrors, Links, WormID_
<1>8. Named(p)'
  <2>1. ~Gives(wire[1], p)
    BY DEF Gives, Of
  <2>2. Silent(wire, p) => Silent(wire', p)
    BY <1>1 DEF Silent
  <2>3. ASSUME NEW x, LastSays(wire, p, x) PROVE LastSays(wire', p, x)
    <3>1. PICK i \in 1..Len(wire) : /\ Gives(wire[i], p) /\ NameIn(wire[i]) = x
                                    /\ \A j \in 1..Len(wire) : j > i => ~Gives(wire[j], p)
      BY <2>3 DEF LastSays
    <3>2. i - 1 \in 1..Len(wire') /\ wire'[i - 1] = wire[i]
      BY <1>2, <2>1, <3>1
    <3>3. \A j \in 1..Len(wire') : j > i - 1 => ~Gives(wire'[j], p)
      BY <1>1, <3>1
    <3> QED BY <3>1, <3>2, <3>3 DEF LastSays
  <2>4. ASSUME NEW x, Says(p, x) PROVE Says(p, x)'
    BY <2>2, <2>3, <2>4 DEF Says
  <2> QED BY <2>4 DEF Mirrors, Named
<1> QED BY <1>4, <1>5, <1>6, <1>7, <1>8 DEF Mirrors

-----------------------------------------------------------------------------
(***************************************************************************)
(* What becomes of names.                                                  *)
(***************************************************************************)

\* A player that comes is given a name of its own, which begins with what it
\* asked for; the others keep theirs.
LEMMA JoinNames ==
  ASSUME ServerTypes, NamesDiffer, NEW p \in Player, NEW w \in Word, NEW rep, join(p, <<w>>, rep)
  PROVE  /\ name' \in [Player -> Names] /\ NamesDiffer'
         /\ Begins(name'[p], <<w>>)
         /\ \A q \in Player : q # p => name'[q] = name[q]
<1> DEFINE first == constructed(name, present)
           with == [name EXCEPT ![p] = first]
           next == localChangeName(with[p], <<w>>, with, present \cup {p})
<1>1. /\ present \subseteq Player /\ p \notin present /\ present' = present \cup {p}
      /\ name \in [Player -> Names]
  BY DEF ServerTypes, join
<1>2. first \in Names /\ \A q \in present : first # name[q]
  <2>1. DefaultWord \in AnyWord /\ << >> # <<DefaultWord>>
    BY DEF AnyWord
  <2> QED BY <1>1, <2>1, LocalChangeName DEF constructed
<1>3. with \in [Player -> Names] /\ with[p] = first /\ \A q \in Player : q # p => with[q] = name[q]
  <2> HIDE DEF first
  <2> QED BY <1>1, <1>2
<1>4. /\ next \in Names /\ Begins(next, <<w>>)
      /\ next = with[p] \/ \A q \in present \cup {p} : next # with[q]
  <2> HIDE DEF with
  <2>1. w \in AnyWord /\ present \cup {p} \in SUBSET Player
    BY <1>1 DEF AnyWord
  <2> QED BY <2>1, LocalChangeName
<1>5. name' = [with EXCEPT ![p] = next]
  BY DEF join
<1> HIDE DEF first, with, next
<1>6. /\ name' \in [Player -> Names] /\ name'[p] = next
      /\ \A q \in Player : q # p => name'[q] = name[q]
  BY <1>3, <1>4, <1>5
<1>7. \A q \in present : next # name[q]
  BY <1>1, <1>2, <1>3, <1>4
<1>8. NamesDiffer'
  BY <1>1, <1>6, <1>7 DEF NamesDiffer
<1> QED BY <1>4, <1>6, <1>8

\* So is one that changes its name.
LEMMA ChangeNames ==
  ASSUME ServerTypes, NamesDiffer, NEW p \in Player, NEW w \in Word,
         changeName_(p, <<w>>)
  PROVE  /\ name' \in [Player -> Names] /\ NamesDiffer'
         /\ Begins(name'[p], <<w>>)
         /\ \A q \in Player : q # p => name'[q] = name[q]
<1> DEFINE next == localChangeName(name[p], <<w>>, name, present)
<1>1. /\ present \subseteq Player /\ present' = present
      /\ name \in [Player -> Names]
  BY DEF ServerTypes, changeName_
<1>2. /\ next \in Names /\ Begins(next, <<w>>)
      /\ next = name[p] \/ \A q \in present : next # name[q]
  BY <1>1, LocalChangeName DEF AnyWord
<1>3. name' = [name EXCEPT ![p] = next]
  BY DEF changeName_
<1> HIDE DEF next
<1>4. /\ name' \in [Player -> Names] /\ name'[p] = next
      /\ \A q \in Player : q # p => name'[q] = name[q]
  BY <1>1, <1>2, <1>3
<1>5. NamesDiffer'
  BY <1>1, <1>2, <1>4 DEF NamesDiffer
<1> QED BY <1>2, <1>4, <1>5

-----------------------------------------------------------------------------
(***************************************************************************)
(* What becomes of the messages.                                           *)
(***************************************************************************)
LEMMA WireSame == ASSUME NetTypes, wire' = wire PROVE Longer /\ \A p \in Player : NoneOf(p)
BY DEF NetTypes, Longer, NoneOf

LEMMA WireAppend ==
  ASSUME NetTypes, NEW m \in Messages, m.node[2] \in used, used \subseteq used',
         wire' = Append(wire, m)
  PROVE  /\ wire' \in Seq(Messages) /\ \A i \in 1..Len(wire') : wire'[i].node[2] \in used'
         /\ Longer /\ Len(wire') = Len(wire) + 1 /\ wire'[Len(wire')] = m
<1>1. /\ wire \in Seq(Messages) /\ Len(wire) \in Nat
      /\ \A i \in 1..Len(wire) : wire[i].node[2] \in used
  BY DEF NetTypes
<1>2. /\ wire' \in Seq(Messages) /\ Len(wire') = Len(wire) + 1
      /\ \A i \in 1..Len(wire) : wire'[i] = wire[i]
      /\ wire'[Len(wire) + 1] = m
  BY <1>1, AppendProperties
<1>3. \A i \in 1..Len(wire') : i \in 1..Len(wire) \/ i = Len(wire) + 1
  BY <1>1, <1>2
<1>4. \A i \in 1..Len(wire') : wire'[i].node[2] \in used'
  BY <1>1, <1>2, <1>3
<1> QED BY <1>1, <1>2, <1>4 DEF Longer

LEMMA WireTail ==
  ASSUME NetTypes, wire # << >>, wire' = Tail(wire), used' = used
  PROVE  /\ wire' \in Seq(Messages) /\ \A i \in 1..Len(wire') : wire'[i].node[2] \in used'
         /\ Shorter /\ 1 \in 1..Len(wire) /\ Head(wire) = wire[1] /\ wire[1] \in Messages
<1>1. /\ wire \in Seq(Messages) /\ Len(wire) \in Nat /\ Len(wire) # 0
      /\ \A i \in 1..Len(wire) : wire[i].node[2] \in used
  BY EmptySeq DEF NetTypes
<1>2. /\ wire' \in Seq(Messages) /\ Len(wire') = Len(wire) - 1
      /\ \A i \in 1..Len(wire') : wire'[i] = wire[i + 1]
      /\ Head(wire) = wire[1]
  BY <1>1, HeadTailProperties
<1>3. \A i \in 1..Len(wire') : i + 1 \in 1..Len(wire)
  BY <1>1, <1>2
<1>4. \A i \in 1..Len(wire') : wire'[i].node[2] \in used'
  BY <1>1, <1>2, <1>3
<1>5. 1 \in 1..Len(wire) /\ wire[1] \in Messages /\ Len(wire') \in Nat
  BY <1>1, <1>2
<1> QED BY <1>1, <1>2, <1>4, <1>5 DEF Shorter

LastIs(m) == Len(wire') = Len(wire) + 1 /\ wire'[Len(wire')] = m

\* A message of a player that comes behind the others.
LEMMA Behind ==
  ASSUME NEW p \in Player, Mirrors(p), p \in present, Known(p), StillShown(p), Longer,
         NEW m, LastIs(m), m.node = PlayerNode(p), m.kind # "create"
  PROVE  /\ CreateFirst(p)' /\ RemovedLast(p)'
         /\ p \in cPlayers' \/ Coming(p)'
         /\ m.kind = "removed" => Leaving(p)'
         /\ m.kind # "removed" => ~Leaving(p)'
<1> USE DEF StillShown, Longer, LastIs
<1>0. PICK n \in Nat : n = Len(wire')
  OBVIOUS
<1>1. /\ n \in 1..Len(wire') /\ Len(wire) + 1 = n
      /\ \A i \in 1..Len(wire) : i \in 1..Len(wire') /\ wire'[i] = wire[i]
      /\ \A i \in 1..Len(wire') : i # n => i \in 1..Len(wire)
  BY <1>0
<1>2. (p \in cPlayers \/ Coming(p)) /\ ~Leaving(p)
  BY DEF Mirrors, Shown
<1>3. /\ Of(p, n)' /\ ~Creates(p, n)'
      /\ Removes(p, n)' <=> m.kind = "removed"
  BY <1>0 DEF Of, Creates, Removes
<1>4. /\ \A i \in 1..Len(wire) : Of(p, i)' <=> Of(p, i)
      /\ \A i \in 1..Len(wire) : Creates(p, i)' <=> Creates(p, i)
      /\ \A i \in 1..Len(wire) : Removes(p, i)' <=> Removes(p, i)
  BY <1>1 DEF Of, Creates, Removes
<1>5. \A i \in 1..Len(wire) : WormBefore(p, i) => WormBefore(p, i)'
  BY <1>1 DEF WormBefore
<1>6. CreateFirst(p)'
  <2>1. CreateFirst(p)
    BY DEF Mirrors
  <2>2. ASSUME NEW i \in 1..Len(wire'), Of(p, i)'
        PROVE  IF Creates(p, i)'
               THEN /\ p \notin cPlayers' /\ WormBefore(p, i)'
                    /\ \A j \in 1..Len(wire') : j < i => ~Of(p, j)'
               ELSE p \in cPlayers' \/ \E j \in 1..Len(wire') : j < i /\ Creates(p, j)'
    <3>1. CASE i = n
      <4>1. ASSUME NEW j \in 1..Len(wire), Creates(p, j)
            PROVE  j \in 1..Len(wire') /\ j < i /\ Creates(p, j)'
        BY <1>1, <1>4, <3>1, <4>1
      <4> QED BY <1>2, <1>3, <3>1, <4>1 DEF Coming
    <3>2. CASE i # n /\ Creates(p, i)'
      <4>1. i \in 1..Len(wire) /\ Of(p, i) /\ Creates(p, i)
        BY <1>1, <1>4, <2>2, <3>2
      <4>2. p \notin cPlayers /\ WormBefore(p, i) /\ \A j \in 1..Len(wire) : j < i => ~Of(p, j)
        BY <2>1, <4>1 DEF CreateFirst
      <4>3. \A j \in 1..Len(wire') : j < i => j \in 1..Len(wire)
        BY <1>1
      <4> QED BY <1>4, <1>5, <3>2, <4>1, <4>2, <4>3
    <3>3. CASE i # n /\ ~Creates(p, i)'
      <4>1. i \in 1..Len(wire) /\ Of(p, i) /\ ~Creates(p, i)
        BY <1>1, <1>4, <2>2, <3>3
      <4>2. p \in cPlayers \/ \E j \in 1..Len(wire) : j < i /\ Creates(p, j)
        BY <2>1, <4>1 DEF CreateFirst
      <4> QED BY <1>1, <1>4, <3>3, <4>2
    <3> QED BY <3>1, <3>2, <3>3
  <2>3. qPlayer'[p] # << >> => p \in cPlayers'
    BY <2>1 DEF CreateFirst
  <2> QED BY <2>2, <2>3 DEF CreateFirst
<1>7. ~Told(p)' /\ p \notin cMark' /\ \A i \in 1..Len(wire) : ~Removes(p, i)'
  BY <1>2, <1>4 DEF Leaving, Told
<1>8. RemovedLast(p)'
  <2>1. \A i \in 1..Len(wire') : Removes(p, i)' => i = n
    BY <1>1, <1>7
  <2>2. \A i \in 1..Len(wire') : Removes(p, i)' => \A j \in 1..Len(wire') : j > i => ~Of(p, j)'
    BY <1>0, <2>1
  <2> QED BY <1>7, <2>2 DEF RemovedLast
<1>9. p \in cPlayers' \/ Coming(p)'
  BY <1>1, <1>2, <1>4 DEF Coming
<1>10. (\E i \in 1..Len(wire) : Removes(p, i))' <=> m.kind = "removed"
  BY <1>1, <1>3, <1>7
<1> QED BY <1>6, <1>7, <1>8, <1>9, <1>10 DEF Leaving

\* What the server says of a name.
LEMMA SaidStays ==
  ASSUME NEW p \in Player, Mirrors(p), p \in present, Known(p), StillAtClient(p), Longer,
         NEW m, LastIs(m), Gives(m, p), NameIn(m) = name'[p], p \in present', Known(p)'
  PROVE  Mirrors(p)'
<1>1. m.node = PlayerNode(p) /\ m.kind # "create" /\ m.kind # "removed" /\ StillShown(p)
  BY DEF Gives, StillAtClient
<1>2. CreateFirst(p)' /\ RemovedLast(p)' /\ Shown(p)'
  BY <1>1, Behind DEF Shown
<1>3. Links(p)'
  BY DEF Mirrors, Links, WormID_, StillAtClient, StillShown, StillLinked
<1>4. LastSays(wire', p, name'[p])
  <2>1. Len(wire') \in 1..Len(wire') /\ \A j \in 1..Len(wire') : ~(j > Len(wire'))
    BY DEF LastIs, Longer
  <2> QED BY <2>1 DEF LastSays, LastIs
<1>5. Named(p)'
  BY <1>4 DEF Named, Says
<1> QED BY <1>2, <1>3, <1>5 DEF Mirrors

\* A player that the client is told has gone.
LEMMA RemovedStays ==
  ASSUME NEW p \in Player, Mirrors(p), p \in present, Known(p), StillShown(p), Longer,
         NEW m, LastIs(m), m.node = PlayerNode(p), m.kind = "removed",
         p \notin present', p \notin inits'
  PROVE  Mirrors(p)'
<1>1. CreateFirst(p)' /\ RemovedLast(p)' /\ Shown(p)'
  BY Behind DEF Shown
<1>2. Links(p)' /\ Named(p)'
  BY DEF Mirrors, Links, Named, StillShown
<1> QED BY <1>1, <1>2 DEF Mirrors

\* A player of whom the client has heard nothing.
Unheard(p) ==
  /\ p \notin cPlayers /\ p \notin cMark /\ p \notin inits /\ qPlayer[p] = << >> /\ ~Known(p)
  /\ \A i \in 1..Len(wire) : ~Of(p, i)

LEMMA UnheardMirrors == ASSUME NEW p \in Player, Unheard(p)' PROVE Mirrors(p)'
<1>1. ~Coming(p)'
  BY DEF Unheard, Coming, Creates
<1>2. CreateFirst(p)' /\ RemovedLast(p)' /\ Shown(p)'
  BY <1>1 DEF Unheard, CreateFirst, RemovedLast, Removes, Shown
<1> QED BY <1>2 DEF Mirrors, Unheard, Links, Named

\* What the client asks for.
LEMMA WishStays ==
  ASSUME WishComes, UNCHANGED <<option, nameChanged, early, up>>,
         Me \in cPlayers => Me \in cPlayers', name'[Me] = name[Me]
  PROVE  WishComes'
BY DEF WishComes, Carries

LEMMA WishHeard ==
  ASSUME WishComes, OptionTypes, UNCHANGED <<option, nameChanged, early, cPlayers>>,
         up # << >>, up' = Tail(up), Begins(name'[Me], Head(up).name)
  PROVE  WishComes' /\ OptionTypes'
<1> DEFINE U == [kind : {"request", "petition"}, name : Wishes]
<1>1. up \in Seq(U) /\ Len(up) \in Nat /\ Len(up) # 0 /\ Head(up) = up[1]
  BY EmptySeq DEF OptionTypes
<1>2. /\ up' \in Seq(U) /\ Len(up') = Len(up) - 1
      /\ \A i \in 1..Len(up') : up'[i] = up[i + 1]
  <2> HIDE DEF U
  <2> QED BY <1>1, HeadTailProperties
<1>3. OptionTypes'
  BY <1>2 DEF OptionTypes
<1>4. early' \/ nameChanged' \/ up[Len(up)].name = option
  BY DEF WishComes
<1>5. CASE up' # << >>
  <2>1. Len(up') # 0
    <3> HIDE DEF U
    <3> QED BY <1>2, <1>5, EmptySeq
  <2>2. up'[Len(up')] = up[Len(up)]
    <3> HIDE DEF U
    <3> QED BY <1>1, <1>2, <2>1
  <2> QED BY <1>3, <1>4, <1>5, <2>2 DEF WishComes
<1>6. CASE up' = << >>
  <2>1. Len(up) = 1
    <3> HIDE DEF U
    <3>1. Len(up') = 0
      BY <1>6, EmptySeq
    <3> QED BY <1>1, <1>2, <3>1
  <2> QED BY <1>1, <1>3, <1>4, <1>6, <2>1 DEF WishComes, Carries, Begins
<1> QED BY <1>5, <1>6

\* Nodes tell their players.
LEMMA Nodes ==
  ASSUME NEW p, NEW q
  PROVE  /\ PlayerNode(p)[2] = p /\ WormNode(p)[2] = p
         /\ PlayerNode(p) = PlayerNode(q) => p = q
         /\ WormNode(p) = WormNode(q) => p = q
         /\ PlayerNode(p) # WormNode(q)
BY DEF PlayerNode, WormNode

LEMMA MessageTypes ==
  ASSUME NEW p \in Player
  PROVE  /\ [node |-> WormNode(p), kind |-> "create", data |-> None] \in Messages
         /\ [node |-> PlayerNode(p), kind |-> "create", data |-> None] \in Messages
         /\ [node |-> PlayerNode(p), kind |-> "removed", data |-> None] \in Messages
         /\ \A k \in Player \cup {None} :
              [node |-> WormNode(p), kind |-> "die", data |-> k] \in Messages
         /\ \A x \in Names : [node |-> PlayerNode(p), kind |-> "name", data |-> x] \in Messages
         /\ \A x \in Names, k \in Nat, d \in Nat :
              [node |-> PlayerNode(p), kind |-> "sync",
               data |-> [name |-> x, kills |-> k, deaths |-> d]] \in Messages
BY DEF Messages, WormMessages, PlayerMessages

LEMMA AddTypes ==
  ASSUME NEW count \in [Player -> Nat], NEW which
  PROVE  Add(count, which) \in [Player -> Nat]
BY DEF Add

-----------------------------------------------------------------------------
(***************************************************************************)
(* The initial states.                                                     *)
(***************************************************************************)
LEMMA InitIInv == Init => IInv
<1> SUFFICES ASSUME Init PROVE IInv
  OBVIOUS
<1>1. << >> \in Names
  BY ShortNamesAreNames DEF ShortNames
<1>2. option \in Wishes
  <2>1. (CHOOSE w \in Word : TRUE) \in Word
    BY SessionAssumption
  <2> QED BY <2>1 DEF Init, Wishes
<1>3. ServerTypes
  BY <1>1 DEF Init, ServerTypes, Nameless, Zeros
<1>4. NetTypes
  BY DEF Init, NetTypes
<1>5. ClientTypes
  BY <1>1 DEF Init, ClientTypes, Nameless, Zeros
<1>6. OptionTypes
  <2> DEFINE U == [kind : {"request", "petition"}, name : Wishes]
  <2>1. [kind |-> "request", name |-> option] \in U
    BY <1>2
  <2>2. up \in Seq(U)
    <3> HIDE DEF U
    <3>1. up = <<[kind |-> "request", name |-> option]>>
      BY DEF Init
    <3> QED BY <2>1, <3>1
  <2> QED BY <1>2, <2>2 DEF Init, OptionTypes
<1>7. Filed /\ NamesDiffer
  BY DEF Init, Filed, NamesDiffer
<1>8. WishComes
  BY DEF Init, WishComes
<1>9. ASSUME NEW p \in Player PROVE Mirrors(p)
  <2>1. CreateFirst(p) /\ RemovedLast(p)
    BY DEF Init, CreateFirst, RemovedLast, Told
  <2>2. Shown(p)
    BY DEF Init, Shown, Coming
  <2>3. Links(p) /\ Named(p)
    BY DEF Init, Links, Named
  <2> QED BY <2>1, <2>2, <2>3 DEF Mirrors
<1> QED BY <1>3, <1>4, <1>5, <1>6, <1>7, <1>8, <1>9 DEF IInv, Types

-----------------------------------------------------------------------------
(***************************************************************************)
(* What the server does.                                                   *)
(***************************************************************************)
LEMMA ClientStays ==
  ASSUME ClientTypes, Filed, UNCHANGED clientVars, used \subseteq used'
  PROVE  ClientTypes' /\ Filed'
<1>1. ClientTypes'
  BY DEF ClientTypes, clientVars
<1>2. Filed'
  BY DEF Filed, clientVars
<1> QED BY <1>1, <1>2

\* A player that comes.
LEMMA JoinIInv ==
  ASSUME IInv, NEW p \in Player, NEW w \in Word, NEW rep \in Player, join(p, <<w>>, rep),
         own' \subseteq own \cup {p}, UNCHANGED <<announced, wire, items, clientVars>>
  PROVE  /\ ServerTypes' /\ NetTypes' /\ ClientTypes' /\ Filed' /\ NamesDiffer'
         /\ \A q \in Player : Mirrors(q)'
         /\ Begins(name'[p], <<w>>) /\ \A q \in Player : q # p => name'[q] = name[q]
<1>0. ServerTypes /\ NetTypes /\ ClientTypes /\ Filed /\ NamesDiffer /\ \A q \in Player : Mirrors(q)
  BY DEF IInv, Types
<1>1. /\ name' \in [Player -> Names] /\ NamesDiffer'
      /\ Begins(name'[p], <<w>>) /\ \A q \in Player : q # p => name'[q] = name[q]
  BY <1>0, JoinNames
<1>2. /\ p \notin used /\ used' = used \cup {p} /\ present' = present \cup {p}
      /\ inits' = inits /\ kills' = kills /\ deaths' = deaths
      /\ stats' = [stats EXCEPT ![p] = stats[rep]]
  BY DEF join
<1>3. ServerTypes'
  BY <1>0, <1>1, <1>2 DEF ServerTypes
<1>4. NetTypes'
  <2>1. announced' \subseteq {WormNode(q) : q \in present'} \cup {PlayerNode(q) : q \in present'}
    BY <1>0, <1>2 DEF NetTypes
  <2>2. items' \subseteq [id : {"WormID", "PlayerID"}, of : present']
    BY <1>0, <1>2 DEF NetTypes
  <2>3. wire' \in Seq(Messages) /\ \A i \in 1..Len(wire') : wire'[i].node[2] \in used'
    BY <1>0, <1>2 DEF NetTypes
  <2> QED BY <2>1, <2>2, <2>3 DEF NetTypes
<1>5. ClientTypes' /\ Filed'
  BY <1>0, <1>2, ClientStays
<1>6. ASSUME NEW q \in Player, q # p PROVE Mirrors(q)'
  <2>1. StillAtServer(q)
    BY <1>1, <1>2, <1>6 DEF StillAtServer, Known
  <2>2. StillAtClient(q)
    BY DEF StillAtClient, StillShown, StillLinked, clientVars
  <2>3. Longer /\ NoneOf(q)
    BY <1>0, WireSame
  <2> QED BY <1>0, <2>1, <2>2, <2>3, LongerStays
<1>7. Mirrors(p)'
  <2>1. p \notin present /\ p \notin cPlayers /\ p \notin cMark /\ p \notin inits
    BY <1>0, <1>2 DEF ServerTypes, ClientTypes
  <2>2. ~Known(p)
    BY <1>0, <2>1, Nodes DEF NetTypes, Known
  <2>3. ASSUME NEW i \in 1..Len(wire), Of(p, i) PROVE FALSE
    <3>1. wire[i].node[2] = p
      BY <2>3, Nodes DEF Of
    <3> QED BY <1>0, <1>2, <3>1 DEF NetTypes
  <2>4. qPlayer[p] = << >>
    BY <1>0, <2>1 DEF Mirrors, CreateFirst
  <2>5. Unheard(p)'
    BY <1>2, <2>1, <2>2, <2>3, <2>4 DEF Unheard, Known, Of, clientVars
  <2> QED BY <2>5, UnheardMirrors
<1> QED BY <1>1, <1>3, <1>4, <1>5, <1>6, <1>7

LEMMA RequestIInv == ASSUME IInv, Request PROVE IInv'
<1>0. ServerTypes /\ ClientTypes /\ OptionTypes /\ WishComes
  BY DEF IInv, Types
<1>1. /\ up # << >> /\ up' = Tail(up) /\ UNCHANGED <<own, announced, wire, items, clientVars>>
      /\ UNCHANGED <<option, nameChanged, early, cPlayers>>
  BY DEF Request, optionVars, clientVars
<1>2. PICK rep \in used \cup {Me} : join(Me, Head(up).name, rep)
  BY DEF Request
<1>3. PICK w \in Word : Head(up).name = <<w>>
  <2>1. Head(up) \in [kind : {"request", "petition"}, name : Wishes]
    BY <1>0, <1>1, HeadTailProperties DEF OptionTypes
  <2> QED BY <2>1 DEF Wishes
<1>4. rep \in Player /\ Me \in Player /\ join(Me, <<w>>, rep)
  BY <1>0, <1>2, <1>3, SessionAssumption DEF ServerTypes
<1>5. /\ ServerTypes' /\ NetTypes' /\ ClientTypes' /\ Filed' /\ NamesDiffer'
      /\ \A q \in Player : Mirrors(q)'
      /\ Begins(name'[Me], <<w>>)
  BY <1>1, <1>4, JoinIInv
<1>6. WishComes' /\ OptionTypes'
  BY <1>0, <1>1, <1>3, <1>5, WishHeard
<1> QED BY <1>5, <1>6 DEF IInv, Types

LEMMA OtherJoinsIInv == ASSUME IInv, NEW p \in Player, OtherJoins(p) PROVE IInv'
<1>0. ServerTypes /\ ClientTypes /\ OptionTypes /\ WishComes
  BY DEF IInv, Types
<1>1. /\ p # Me /\ UNCHANGED <<announced, wire, items, clientVars>>
      /\ UNCHANGED <<option, nameChanged, early, up>> /\ UNCHANGED <<optionVars, cPlayers>>
  BY DEF OtherJoins, netVars, optionVars, clientVars
<1>2. PICK w \in Word, rep \in used \cup {p} : join(p, <<w>>, rep) /\ own' \subseteq own \cup {p}
  BY DEF OtherJoins
<1>3. rep \in Player
  BY <1>0, <1>2 DEF ServerTypes
<1>4. /\ ServerTypes' /\ NetTypes' /\ ClientTypes' /\ Filed' /\ NamesDiffer'
      /\ \A q \in Player : Mirrors(q)'
      /\ \A q \in Player : q # p => name'[q] = name[q]
  BY <1>1, <1>2, <1>3, JoinIInv
<1>5. WishComes'
  BY <1>0, <1>1, <1>4, WishStays, SessionAssumption
<1>6. OptionTypes'
  BY <1>0, <1>1 DEF OptionTypes
<1> QED BY <1>4, <1>5, <1>6 DEF IInv, Types

\* The client is told of players that are present only.
LEMMA KnownIsPresent == ASSUME NetTypes, NEW p \in Player, Known(p) PROVE p \in present
BY Nodes DEF NetTypes, Known

\* A message of p, or of its worm, comes behind the others and changes nothing for them.
LEMMA OthersStay ==
  ASSUME NetTypes, NEW p \in Player, Longer, NEW m, LastIs(m), m.node \in {PlayerNode(p), WormNode(p)},
         NEW q \in Player, q # p \/ m.node = WormNode(p), Mirrors(q), StillAtServer(q), StillAtClient(q)
  PROVE  Mirrors(q)'
<1>1. m.node # PlayerNode(q)
  BY Nodes
<1>2. NoneOf(q)
  <2>1. \A i \in 1..Len(wire') : i > Len(wire) => i = Len(wire')
    BY DEF Longer, LastIs
  <2> QED BY <1>1, <2>1 DEF NoneOf, LastIs
<1> QED BY <1>2, LongerStays

LEMMA ChangeNameIInv ==
  ASSUME IInv, NEW p \in Player, NEW w \in Word, changeName_(p, <<w>>), UNCHANGED clientVars
  PROVE  /\ ServerTypes' /\ NetTypes' /\ ClientTypes' /\ Filed' /\ NamesDiffer'
         /\ \A q \in Player : Mirrors(q)'
         /\ Begins(name'[p], <<w>>) /\ \A q \in Player : q # p => name'[q] = name[q]
<1>0. ServerTypes /\ NetTypes /\ ClientTypes /\ Filed /\ NamesDiffer /\ \A q \in Player : Mirrors(q)
  BY DEF IInv, Types
<1>1. /\ name' \in [Player -> Names] /\ NamesDiffer'
      /\ Begins(name'[p], <<w>>) /\ \A q \in Player : q # p => name'[q] = name[q]
  BY <1>0, ChangeNames
<1>2. /\ UNCHANGED <<present, used, own, stats, kills, deaths, inits, announced, items>>
      /\ Tell(p, "name", name'[p])
  BY DEF changeName_
<1>3. ServerTypes'
  BY <1>0, <1>1, <1>2 DEF ServerTypes
<1>4. ClientTypes' /\ Filed'
  BY <1>0, <1>2, ClientStays
<1>5. \A q \in Player : StillAtClient(q)
  BY <1>2 DEF StillAtClient, StillShown, StillLinked, clientVars
<1>6. \A q \in Player : q # p \/ ~Known(q) => StillAtServer(q)
  BY <1>1, <1>2 DEF StillAtServer, Known
<1>7. CASE Known(p)
  <2> DEFINE m == [node |-> PlayerNode(p), kind |-> "name", data |-> name'[p]]
  <2>1. wire' = Append(wire, m)
    BY <1>2, <1>7 DEF Tell, Known
  <2>2. p \in present
    BY <1>0, <1>7, KnownIsPresent
  <2>3. m \in Messages
    <3>1. name'[p] \in Names
      BY <1>1
    <3> QED BY <3>1, MessageTypes
  <2>4. m.node = PlayerNode(p) /\ Gives(m, p) /\ NameIn(m) = name'[p] /\ m.node[2] \in used
    BY <1>0, <2>2, Nodes DEF Gives, NameIn, ServerTypes
  <2> HIDE DEF m
  <2>5. /\ wire' \in Seq(Messages) /\ \A i \in 1..Len(wire') : wire'[i].node[2] \in used'
        /\ Longer /\ LastIs(m)
    BY <1>0, <1>2, <2>1, <2>3, <2>4, WireAppend DEF LastIs
  <2>6. NetTypes'
    BY <1>0, <1>2, <2>5 DEF NetTypes
  <2>7. ASSUME NEW q \in Player, q # p PROVE Mirrors(q)'
    BY <1>0, <1>5, <1>6, <2>4, <2>5, <2>7, OthersStay
  <2>8. Mirrors(p)'
    <3>1. p \in present' /\ Known(p)'
      BY <1>2, <1>7, <2>2 DEF Known
    <3> QED BY <1>0, <1>5, <1>7, <2>2, <2>4, <2>5, <3>1, SaidStays
  <2> QED BY <1>1, <1>3, <1>4, <2>6, <2>7, <2>8
<1>8. CASE ~Known(p)
  <2>1. wire' = wire
    BY <1>2, <1>8 DEF Tell, Known
  <2>2. NetTypes'
    BY <1>0, <1>2, <2>1 DEF NetTypes
  <2>3. ASSUME NEW q \in Player PROVE Mirrors(q)'
    <3>1. StillAtServer(q) /\ StillAtClient(q)
      BY <1>5, <1>6, <1>8
    <3> QED BY <1>0, <2>1, <3>1, WireSame, LongerStays
  <2> QED BY <1>1, <1>3, <1>4, <2>2, <2>3
<1> QED BY <1>7, <1>8

LEMMA PetitionIInv == ASSUME IInv, Petition PROVE IInv'
<1>0. OptionTypes /\ WishComes
  BY DEF IInv, Types
<1>1. /\ up # << >> /\ up' = Tail(up) /\ UNCHANGED clientVars
      /\ UNCHANGED <<option, nameChanged, early, cPlayers>>
  BY DEF Petition, optionVars, clientVars
<1>2. PICK w \in Word : Head(up).name = <<w>>
  <2>1. Head(up) \in [kind : {"request", "petition"}, name : Wishes]
    BY <1>0, <1>1, HeadTailProperties DEF OptionTypes
  <2> QED BY <2>1 DEF Wishes
<1>3. Me \in Player /\ changeName_(Me, <<w>>)
  BY <1>2, SessionAssumption DEF Petition
<1>4. /\ ServerTypes' /\ NetTypes' /\ ClientTypes' /\ Filed' /\ NamesDiffer'
      /\ \A q \in Player : Mirrors(q)'
      /\ Begins(name'[Me], <<w>>)
  BY <1>1, <1>3, ChangeNameIInv
<1>5. WishComes' /\ OptionTypes'
  BY <1>0, <1>1, <1>2, <1>4, WishHeard
<1> QED BY <1>4, <1>5 DEF IInv, Types

LEMMA OtherRenamesIInv == ASSUME IInv, NEW p \in Player, OtherRenames(p) PROVE IInv'
<1>0. OptionTypes /\ WishComes
  BY DEF IInv, Types
<1>1. /\ p # Me /\ UNCHANGED clientVars /\ UNCHANGED <<option, nameChanged, early, up>>
      /\ cPlayers' = cPlayers
  BY DEF OtherRenames, clientVars
<1>2. PICK w \in Word : changeName_(p, <<w>>)
  BY DEF OtherRenames
<1>3. /\ ServerTypes' /\ NetTypes' /\ ClientTypes' /\ Filed' /\ NamesDiffer'
      /\ \A q \in Player : Mirrors(q)'
      /\ \A q \in Player : q # p => name'[q] = name[q]
  BY <1>1, <1>2, ChangeNameIInv
<1>4. WishComes'
  BY <1>0, <1>1, <1>3, WishStays, SessionAssumption
<1>5. OptionTypes'
  BY <1>0, <1>1 DEF OptionTypes
<1> QED BY <1>3, <1>4, <1>5 DEF IInv, Types

LEMMA DieIInv ==
  ASSUME IInv, NEW p \in Player, NEW k \in Player \cup {None}, die(p, k)
  PROVE  IInv'
<1>0. /\ ServerTypes /\ NetTypes /\ ClientTypes /\ OptionTypes
      /\ Filed /\ NamesDiffer /\ WishComes /\ \A q \in Player : Mirrors(q)
  BY DEF IInv, Types
<1>1. /\ UNCHANGED <<present, used, own, name, stats, inits, announced, items, up>>
      /\ UNCHANGED clientVars /\ UNCHANGED <<option, nameChanged, early, up>> /\ cPlayers' = cPlayers
      /\ p \in present
  BY DEF die, optionVars, clientVars
<1>2. kills' \in [Player -> Nat] /\ deaths' \in [Player -> Nat]
  BY <1>0, AddTypes DEF die, ServerTypes
<1>3. ServerTypes' /\ NamesDiffer'
  BY <1>0, <1>1, <1>2 DEF ServerTypes, NamesDiffer
<1>4. ClientTypes' /\ Filed'
  BY <1>0, <1>1, ClientStays
<1>5. OptionTypes' /\ WishComes'
  <2>1. WishComes'
    BY <1>0, <1>1, WishStays
  <2> QED BY <1>0, <1>1, <2>1 DEF OptionTypes
<1>6. \A q \in Player : StillAtServer(q) /\ StillAtClient(q)
  BY <1>1 DEF StillAtServer, StillAtClient, StillShown, StillLinked, clientVars, Known
<1>7. CASE WormNode(p) \in announced
  <2> DEFINE m == [node |-> WormNode(p), kind |-> "die", data |-> k]
  <2>1. wire' = Append(wire, m)
    BY <1>7 DEF die
  <2>2. m \in Messages /\ m.node = WormNode(p) /\ m.node[2] \in used
    BY <1>0, <1>1, Nodes, MessageTypes DEF ServerTypes
  <2> HIDE DEF m
  <2>3. /\ wire' \in Seq(Messages) /\ \A i \in 1..Len(wire') : wire'[i].node[2] \in used'
        /\ Longer /\ LastIs(m)
    BY <1>0, <1>1, <2>1, <2>2, WireAppend DEF LastIs
  <2>4. NetTypes'
    BY <1>0, <1>1, <2>3 DEF NetTypes
  <2>5. ASSUME NEW q \in Player PROVE Mirrors(q)'
    BY <1>0, <1>6, <2>2, <2>3, OthersStay
  <2> QED BY <1>3, <1>4, <1>5, <2>4, <2>5 DEF IInv, Types
<1>8. CASE WormNode(p) \notin announced
  <2>1. wire' = wire
    BY <1>8 DEF die
  <2>2. NetTypes'
    BY <1>0, <1>1, <2>1 DEF NetTypes
  <2>3. ASSUME NEW q \in Player PROVE Mirrors(q)'
    BY <1>0, <1>6, <2>1, WireSame, LongerStays
  <2> QED BY <1>3, <1>4, <1>5, <2>2, <2>3 DEF IInv, Types
<1> QED BY <1>7, <1>8

LEMMA DeleteThisIInv == ASSUME IInv, NEW p \in Player, deleteThis(p) PROVE IInv'
<1>0. /\ ServerTypes /\ NetTypes /\ ClientTypes /\ OptionTypes
      /\ Filed /\ NamesDiffer /\ WishComes /\ \A q \in Player : Mirrors(q)
  BY DEF IInv, Types
<1>1. /\ UNCHANGED <<used, own, stats, kills, deaths, up>>
      /\ UNCHANGED clientVars /\ UNCHANGED <<option, nameChanged, early, up>> /\ cPlayers' = cPlayers
      /\ p \in present /\ p # Me
      /\ present' = present \ {p} /\ inits' = inits \ {p}
      /\ announced' = announced \ {PlayerNode(p), WormNode(p)}
      /\ items' = {i \in items : i.of # p}
      /\ name' = [name EXCEPT ![p] = << >>]
      /\ Tell(p, "removed", None)
  BY DEF deleteThis, optionVars, clientVars
<1>2. name' \in [Player -> Names] /\ \A q \in Player : q # p => name'[q] = name[q]
  BY <1>0, <1>1, ShortNamesAreNames DEF ServerTypes, ShortNames
<1>3. ServerTypes' /\ NamesDiffer'
  <2>1. ServerTypes'
    BY <1>0, <1>1, <1>2 DEF ServerTypes
  <2>2. \A q \in present' : q \in present /\ q # p /\ q \in Player
    BY <1>0, <1>1 DEF ServerTypes
  <2>3. NamesDiffer'
    BY <1>0, <1>2, <2>2 DEF NamesDiffer
  <2> QED BY <2>1, <2>3
<1>4. ClientTypes' /\ Filed'
  BY <1>0, <1>1, ClientStays
<1>5. OptionTypes' /\ WishComes'
  <2>1. WishComes'
    BY <1>0, <1>1, <1>2, SessionAssumption, WishStays
  <2> QED BY <1>0, <1>1, <2>1 DEF OptionTypes
<1>6. /\ announced' \subseteq {WormNode(q) : q \in present'} \cup {PlayerNode(q) : q \in present'}
      /\ items' \subseteq [id : {"WormID", "PlayerID"}, of : present']
  <2>1. ASSUME NEW n \in announced'
        PROVE  n \in {WormNode(q) : q \in present'} \cup {PlayerNode(q) : q \in present'}
    <3>1. n \in announced /\ n # PlayerNode(p) /\ n # WormNode(p)
      BY <1>1
    <3>2. PICK q \in present : n = WormNode(q) \/ n = PlayerNode(q)
      BY <1>0, <3>1 DEF NetTypes
    <3>3. q \in present'
      BY <1>1, <3>1, <3>2
    <3> QED BY <3>2, <3>3
  <2>2. items' \subseteq [id : {"WormID", "PlayerID"}, of : present']
    BY <1>0, <1>1 DEF NetTypes
  <2> QED BY <2>1, <2>2
<1>7. ASSUME NEW q \in Player, q # p PROVE StillAtServer(q) /\ StillAtClient(q)
  <2>1. Known(q)' <=> Known(q)
    BY <1>1, <1>7, Nodes DEF Known
  <2>2. WormID_(q) \in items => WormID_(q) \in items'
    BY <1>1, <1>7 DEF WormID_
  <2> QED BY <1>1, <1>2, <1>7, <2>1, <2>2
          DEF StillAtServer, StillAtClient, StillShown, StillLinked, clientVars
<1>8. p \notin present' /\ p \notin inits' /\ ~Known(p)' /\ StillShown(p)
  BY <1>1 DEF Known, StillShown, clientVars
<1>9. CASE Known(p)
  <2> DEFINE m == [node |-> PlayerNode(p), kind |-> "removed", data |-> None]
  <2>1. wire' = Append(wire, m)
    BY <1>1, <1>9 DEF Tell, Known
  <2>2. m \in Messages /\ m.node = PlayerNode(p) /\ m.node[2] \in used /\ m.kind = "removed"
    BY <1>0, <1>1, Nodes, MessageTypes DEF ServerTypes
  <2> HIDE DEF m
  <2>3. /\ wire' \in Seq(Messages) /\ \A i \in 1..Len(wire') : wire'[i].node[2] \in used'
        /\ Longer /\ LastIs(m)
    BY <1>0, <1>1, <2>1, <2>2, WireAppend DEF LastIs
  <2>4. NetTypes'
    BY <1>6, <2>3 DEF NetTypes
  <2>5. ASSUME NEW q \in Player, q # p PROVE Mirrors(q)'
    BY <1>0, <1>7, <2>2, <2>3, <2>5, OthersStay
  <2>6. Mirrors(p)'
    BY <1>0, <1>1, <1>8, <1>9, <2>2, <2>3, RemovedStays
  <2> QED BY <1>3, <1>4, <1>5, <2>4, <2>5, <2>6 DEF IInv, Types
<1>10. CASE ~Known(p)
  <2>1. wire' = wire
    BY <1>1, <1>10 DEF Tell, Known
  <2>2. NetTypes'
    BY <1>0, <1>1, <1>6, <2>1 DEF NetTypes
  <2>3. ASSUME NEW q \in Player, q # p PROVE Mirrors(q)'
    BY <1>0, <1>7, <2>1, <2>3, WireSame, LongerStays
  <2>4. Mirrors(p)'
    <3>1. p \notin cPlayers /\ \A i \in 1..Len(wire) : ~Of(p, i)
      BY <1>0, <1>1, <1>10 DEF Mirrors, Shown
    <3>2. p \notin cMark /\ qPlayer[p] = << >>
      BY <1>0, <3>1 DEF ClientTypes, Mirrors, CreateFirst
    <3>3. Unheard(p)'
      BY <1>1, <1>8, <2>1, <3>1, <3>2 DEF Unheard, Of, clientVars
    <3> QED BY <3>3, UnheardMirrors
  <2> QED BY <1>3, <1>4, <1>5, <2>2, <2>3, <2>4 DEF IInv, Types
<1> QED BY <1>9, <1>10

LEMMA SendSyncMessageIInv == ASSUME IInv, NEW p \in Player, sendSyncMessage(p) PROVE IInv'
<1>0. /\ ServerTypes /\ NetTypes /\ ClientTypes /\ OptionTypes
      /\ Filed /\ NamesDiffer /\ WishComes /\ \A q \in Player : Mirrors(q)
  BY DEF IInv, Types
<1> DEFINE score == [name |-> name[p], kills |-> kills[stats[p]], deaths |-> deaths[stats[p]]]
           m == [node |-> PlayerNode(p), kind |-> "sync", data |-> score]
<1>1. /\ UNCHANGED <<present, used, own, name, stats, kills, deaths, announced, items, up>>
      /\ UNCHANGED clientVars /\ UNCHANGED <<option, nameChanged, early, up>> /\ cPlayers' = cPlayers
      /\ p \in inits /\ inits' = inits \ {p}
      /\ Tell(p, "sync", score)
  BY DEF sendSyncMessage, optionVars, clientVars
<1>2. p \in present /\ Known(p)
  BY <1>0, <1>1 DEF ServerTypes, Mirrors, Named
<1>3. ServerTypes' /\ NamesDiffer'
  BY <1>0, <1>1 DEF ServerTypes, NamesDiffer
<1>4. ClientTypes' /\ Filed'
  BY <1>0, <1>1, ClientStays
<1>5. OptionTypes' /\ WishComes'
  <2>1. WishComes'
    BY <1>0, <1>1, WishStays
  <2> QED BY <1>0, <1>1, <2>1 DEF OptionTypes
<1>6. \A q \in Player : StillAtClient(q) /\ (q # p => StillAtServer(q))
  BY <1>1 DEF StillAtServer, StillAtClient, StillShown, StillLinked, clientVars, Known
<1>7. wire' = Append(wire, m)
  BY <1>1, <1>2 DEF Tell, Known
<1>8. m \in Messages
  <2>1. name[p] \in Names /\ kills[stats[p]] \in Nat /\ deaths[stats[p]] \in Nat
    BY <1>0 DEF ServerTypes
  <2> QED BY <2>1, MessageTypes
<1>9. m.node = PlayerNode(p) /\ Gives(m, p) /\ NameIn(m) = name'[p] /\ m.node[2] \in used
  BY <1>0, <1>1, <1>2, Nodes DEF Gives, NameIn, ServerTypes
<1> HIDE DEF m, score
<1>10. /\ wire' \in Seq(Messages) /\ \A i \in 1..Len(wire') : wire'[i].node[2] \in used'
       /\ Longer /\ LastIs(m)
  BY <1>0, <1>1, <1>7, <1>8, <1>9, WireAppend DEF LastIs
<1>11. NetTypes'
  BY <1>0, <1>1, <1>10 DEF NetTypes
<1>12. ASSUME NEW q \in Player, q # p PROVE Mirrors(q)'
  BY <1>0, <1>6, <1>9, <1>10, <1>12, OthersStay
<1>13. Mirrors(p)'
  <2>1. p \in present' /\ Known(p)'
    BY <1>1, <1>2 DEF Known
  <2> QED BY <1>0, <1>2, <1>6, <1>9, <1>10, <2>1, SaidStays
<1> QED BY <1>3, <1>4, <1>5, <1>11, <1>12, <1>13 DEF IInv, Types

LEMMA AnnounceIInv == ASSUME IInv, NEW p \in Player, Announce(p) PROVE IInv'
<1>0. /\ ServerTypes /\ NetTypes /\ ClientTypes /\ OptionTypes
      /\ Filed /\ NamesDiffer /\ WishComes /\ \A q \in Player : Mirrors(q)
  BY DEF IInv, Types
<1> DEFINE a == [node |-> WormNode(p), kind |-> "create", data |-> None]
           b == [node |-> PlayerNode(p), kind |-> "create", data |-> None]
           n == Len(wire)
<1>1. /\ UNCHANGED <<present, used, own, name, stats, kills, deaths, up>>
      /\ UNCHANGED clientVars /\ UNCHANGED <<option, nameChanged, early, up>> /\ cPlayers' = cPlayers
      /\ p \in present /\ ~Known(p)
      /\ announced' = announced \cup {WormNode(p), PlayerNode(p)}
      /\ wire' = wire \o <<a, b>>
      /\ inits' = inits \cup {p}
  BY DEF Announce, optionVars, clientVars, Known, driftVars
<1>2. /\ items \subseteq items' /\ WormID_(p) \in items'
      /\ items' \subseteq [id : {"WormID", "PlayerID"}, of : present']
  BY <1>0, <1>1 DEF Announce, NetTypes, WormID_
<1>3. ServerTypes' /\ NamesDiffer'
  BY <1>0, <1>1 DEF ServerTypes, NamesDiffer
<1>4. ClientTypes' /\ Filed'
  BY <1>0, <1>1, ClientStays
<1>5. OptionTypes' /\ WishComes'
  <2>1. WishComes'
    BY <1>0, <1>1, WishStays
  <2> QED BY <1>0, <1>1, <2>1 DEF OptionTypes
<1>6. /\ a \in Messages /\ a.node = WormNode(p) /\ a.kind = "create" /\ a.node[2] \in used'
      /\ b \in Messages /\ b.node = PlayerNode(p) /\ b.kind = "create" /\ b.node[2] \in used'
  BY <1>0, <1>1, Nodes, MessageTypes DEF ServerTypes
<1> HIDE DEF a, b
<1>7. /\ n \in Nat /\ wire' \in Seq(Messages) /\ Len(wire') = n + 2
      /\ \A i \in 1..n : wire'[i] = wire[i]
      /\ wire'[n + 1] = a /\ wire'[n + 2] = b
  <2>1. wire \in Seq(Messages) /\ <<a, b>> \in Seq(Messages) /\ Len(<<a, b>>) = 2
        /\ <<a, b>>[1] = a /\ <<a, b>>[2] = b
    BY <1>0, <1>6 DEF NetTypes
  <2> QED BY <1>1, <2>1, ConcatProperties
<1>8. \A i \in 1..Len(wire') : i \in 1..n \/ i = n + 1 \/ i = n + 2
  <2> HIDE DEF n
  <2> QED BY <1>7
<1>9. \A i \in 1..Len(wire') : wire'[i].node[2] \in used'
  BY <1>0, <1>1, <1>6, <1>7, <1>8 DEF NetTypes
<1>10. NetTypes'
  BY <1>0, <1>1, <1>2, <1>7, <1>9 DEF NetTypes
<1>11. ASSUME NEW q \in Player, q # p PROVE Mirrors(q)'
  <2>1. Known(q)' <=> Known(q)
    BY <1>1, <1>11, Nodes DEF Known
  <2>2. StillAtServer(q) /\ StillAtClient(q)
    BY <1>1, <1>2, <1>11, <2>1 DEF StillAtServer, StillAtClient, StillShown, StillLinked, clientVars
  <2>3. Longer
    BY <1>7 DEF Longer
  <2>4. a.node # PlayerNode(q) /\ b.node # PlayerNode(q)
    BY <1>6, <1>11, Nodes
  <2>5. NoneOf(q)
    BY <1>7, <1>8, <2>4 DEF NoneOf
  <2> QED BY <1>0, <2>2, <2>3, <2>5, LongerStays
<1>12. Mirrors(p)'
  <2>1. p \notin cPlayers' /\ p \notin cMark' /\ qPlayer'[p] = << >>
    <3>1. p \notin cPlayers /\ \A i \in 1..Len(wire) : ~Of(p, i)
      BY <1>0, <1>1 DEF Mirrors, Shown
    <3> QED BY <1>0, <1>1, <3>1 DEF ClientTypes, Mirrors, CreateFirst, clientVars
  <2>2. PICK k \in Nat : k = n
    BY <1>7
  <2>3. /\ \A i \in 1..Len(wire') : Of(p, i)' <=> i = k + 2
        /\ Creates(p, k + 2)' /\ k + 2 \in 1..Len(wire') /\ k + 1 \in 1..Len(wire')
    <3>1. \A i \in 1..n : wire'[i].node # PlayerNode(p)
      BY <1>0, <1>1, <1>7 DEF Mirrors, Shown, Of
    <3>2. WormNode(p) # PlayerNode(p)
      BY Nodes
    <3> HIDE DEF n
    <3>3. k + 2 \in 1..Len(wire') /\ k + 1 \in 1..Len(wire')
      BY <1>7, <2>2
    <3> QED BY <1>6, <1>7, <1>8, <2>2, <3>1, <3>2, <3>3 DEF Of, Creates
  <2>4. WormBefore(p, k + 2)'
    <3>1. wire'[k + 1].node = WormNode(p) /\ wire'[k + 1].kind = "create" /\ k + 1 < k + 2
      BY <1>6, <1>7, <2>2
    <3> QED BY <2>3, <3>1 DEF WormBefore
  <2>5. \A i \in 1..Len(wire') : ~Removes(p, i)'
    BY <2>3 DEF Removes, Creates
  <2>6. CreateFirst(p)'
    BY <2>1, <2>3, <2>4 DEF CreateFirst
  <2>7. ~Told(p)' /\ ~Leaving(p)'
    <3>1. Len(qPlayer'[p]) = 0
      BY <2>1, EmptySeq
    <3> QED BY <2>1, <2>5, <3>1 DEF Told, Leaving
  <2>8. RemovedLast(p)'
    BY <2>1, <2>5, <2>7 DEF RemovedLast
  <2>9. Shown(p)'
    <3>1. Coming(p)' /\ p \in present' /\ Known(p)'
      BY <1>1, <2>3 DEF Coming, Known
    <3> QED BY <2>7, <3>1 DEF Shown
  <2>10. Links(p)'
    BY <1>2, <2>1 DEF Links, WormID_
  <2>11. Named(p)'
    BY <1>1 DEF Named, Known
  <2> QED BY <2>6, <2>8, <2>9, <2>10, <2>11 DEF Mirrors
<1> QED BY <1>3, <1>4, <1>5, <1>10, <1>11, <1>12 DEF IInv, Types

-----------------------------------------------------------------------------
(***************************************************************************)
(* What the client receives.                                               *)
(***************************************************************************)

\* What comes is of a player there is or was, or of its worm.
LEMMA MessageOf ==
  ASSUME ServerTypes, NetTypes, wire # << >>
  PROVE  LET m == Head(wire)
             p == m.node[2]
         IN /\ m = wire[1] /\ 1 \in 1..Len(wire) /\ p \in used /\ p \in Player
            /\ \/ m.node = WormNode(p) /\ m \in WormMessages
               \/ m.node = PlayerNode(p) /\ m \in PlayerMessages
<1> DEFINE m == Head(wire)
<1>1. /\ wire \in Seq(Messages) /\ Len(wire) \in Nat /\ Len(wire) # 0
      /\ \A i \in 1..Len(wire) : wire[i].node[2] \in used
  BY EmptySeq DEF NetTypes
<1>2. 1 \in 1..Len(wire) /\ m = wire[1] /\ m \in Messages
  BY <1>1
<1> HIDE DEF m
<1>3. m.node[2] \in used /\ m.node[2] \in Player
  BY <1>1, <1>2 DEF ServerTypes
<1>4. CASE m \in WormMessages
  <2>1. PICK q \in Player : m.node = WormNode(q)
    BY <1>4 DEF WormMessages
  <2>2. m.node[2] = q
    BY <2>1, Nodes
  <2> QED BY <1>2, <1>3, <1>4, <2>1, <2>2 DEF m
<1>5. CASE m \in PlayerMessages
  <2>1. PICK q \in Player : m.node = PlayerNode(q)
    BY <1>5 DEF PlayerMessages
  <2>2. m.node[2] = q
    BY <2>1, Nodes
  <2> QED BY <1>2, <1>3, <1>5, <2>1, <2>2 DEF m
<1> QED BY <1>2, <1>4, <1>5 DEF Messages

\* What follows when p's first message is taken from the wire.
LEMMA Ahead ==
  ASSUME NEW p \in Player, Mirrors(p), Shorter, Len(wire) # 0, Of(p, 1)
  PROVE  /\ Creates(p, 1) => /\ p \notin cPlayers /\ p \in cWorms /\ qPlayer[p] = << >>
         /\ ~Creates(p, 1) => p \in cPlayers
         /\ \A i \in 1..Len(wire') : ~Creates(p, i)'
         /\ ~Told(p) /\ p \notin cMark
         /\ \A i \in 1..Len(wire') : Removes(p, i)' =>
              \A j \in 1..Len(wire') : j > i => ~Of(p, j)'
         /\ Removes(p, 1) => \A i \in 1..Len(wire') : ~Of(p, i)'
         /\ Leaving(p) <=> Removes(p, 1) \/ \E i \in 1..Len(wire') : Removes(p, i)'
<1> USE DEF Shorter
<1>1. 1 \in 1..Len(wire) /\ \A j \in 1..Len(wire) : ~(j < 1)
  OBVIOUS
<1>2. \A i \in 1..Len(wire') : i + 1 \in 1..Len(wire) /\ wire'[i] = wire[i + 1] /\ 1 < i + 1
  OBVIOUS
<1>3. \A i \in 1..Len(wire) : i # 1 => i - 1 \in 1..Len(wire') /\ wire'[i - 1] = wire[i]
  <2> TAKE i \in 1..Len(wire)
  <2> HAVE i # 1
  <2>1. i - 1 \in 1..Len(wire') /\ (i - 1) + 1 = i
    OBVIOUS
  <2> QED BY <1>2, <2>1
<1>4. /\ \A i \in 1..Len(wire') : Of(p, i)' <=> Of(p, i + 1)
      /\ \A i \in 1..Len(wire') : Creates(p, i)' <=> Creates(p, i + 1)
      /\ \A i \in 1..Len(wire') : Removes(p, i)' <=> Removes(p, i + 1)
  BY <1>2 DEF Of, Creates, Removes
<1>5. CreateFirst(p) /\ RemovedLast(p)
  BY DEF Mirrors
<1>6. /\ Creates(p, 1) => p \notin cPlayers /\ WormBefore(p, 1)
      /\ ~Creates(p, 1) => p \in cPlayers
      /\ qPlayer[p] # << >> => p \in cPlayers
  BY <1>1, <1>5 DEF CreateFirst
<1>7. WormBefore(p, 1) => p \in cWorms
  BY <1>1 DEF WormBefore
<1>8. ASSUME NEW i \in 1..Len(wire'), Creates(p, i)' PROVE FALSE
  <2>1. i + 1 \in 1..Len(wire) /\ Creates(p, i + 1) /\ Of(p, i + 1) /\ 1 < i + 1
    BY <1>2, <1>4, <1>8 DEF Creates
  <2> QED BY <1>1, <1>5, <2>1 DEF CreateFirst
<1>9. ~Told(p) /\ p \notin cMark
  BY <1>1, <1>5 DEF RemovedLast
<1>10. ASSUME NEW i \in 1..Len(wire'), Removes(p, i)', NEW j \in 1..Len(wire'), j > i
       PROVE  ~Of(p, j)'
  <2>1. i + 1 \in 1..Len(wire) /\ j + 1 \in 1..Len(wire) /\ j + 1 > i + 1 /\ Removes(p, i + 1)
    BY <1>2, <1>4, <1>10
  <2> QED BY <1>4, <1>5, <2>1 DEF RemovedLast
<1>11. ASSUME Removes(p, 1), NEW i \in 1..Len(wire') PROVE ~Of(p, i)'
  BY <1>1, <1>2, <1>4, <1>5, <1>11 DEF RemovedLast
<1>12. (\E i \in 1..Len(wire) : Removes(p, i)) <=>
         Removes(p, 1) \/ \E i \in 1..Len(wire') : Removes(p, i)'
  <2>1. ASSUME NEW i \in 1..Len(wire), Removes(p, i), i # 1
        PROVE  \E k \in 1..Len(wire') : Removes(p, k)'
    <3>1. i - 1 \in 1..Len(wire') /\ wire'[i - 1] = wire[i]
      BY <1>3, <2>1
    <3> QED BY <2>1, <3>1 DEF Removes, Of
  <2> QED BY <1>1, <1>2, <1>4, <2>1
<1> QED BY <1>6, <1>7, <1>8, <1>9, <1>10, <1>11, <1>12 DEF Leaving

\* The event that comes is filed behind the others.
LEMMA SaysAppend ==
  ASSUME NEW p, NEW S, NEW s \in Seq(S), NEW m \in S
  PROVE  LET t == Append(s, m)
         IN /\ Silent(s, p) /\ ~Gives(m, p) => Silent(t, p)
            /\ \A x : LastSays(s, p, x) /\ ~Gives(m, p) => LastSays(t, p, x)
            /\ Gives(m, p) => LastSays(t, p, NameIn(m))
<1> DEFINE t == Append(s, m)
<1>1. /\ Len(s) \in Nat /\ Len(t) = Len(s) + 1 /\ t[Len(s) + 1] = m
      /\ \A i \in 1..Len(s) : t[i] = s[i]
  BY AppendProperties
<1> HIDE DEF t
<1>2. /\ Len(s) + 1 \in 1..Len(t) /\ \A i \in 1..Len(s) : i \in 1..Len(t)
      /\ \A i \in 1..Len(t) : i \in 1..Len(s) \/ i = Len(s) + 1
  BY <1>1
<1>3. Silent(s, p) /\ ~Gives(m, p) => Silent(t, p)
  BY <1>1, <1>2 DEF Silent
<1>4. ASSUME NEW x, LastSays(s, p, x), ~Gives(m, p) PROVE LastSays(t, p, x)
  <2>1. PICK i \in 1..Len(s) : /\ Gives(s[i], p) /\ NameIn(s[i]) = x
                               /\ \A j \in 1..Len(s) : j > i => ~Gives(s[j], p)
    BY <1>4 DEF LastSays
  <2>2. \A j \in 1..Len(t) : j > i => ~Gives(t[j], p)
    BY <1>1, <1>2, <1>4, <2>1
  <2> QED BY <1>1, <1>2, <2>1, <2>2 DEF LastSays
<1>5. Gives(m, p) => LastSays(t, p, NameIn(m))
  <2>1. \A j \in 1..Len(t) : ~(j > Len(s) + 1)
    BY <1>1
  <2> QED BY <1>1, <1>2, <2>1 DEF LastSays
<1> QED BY <1>3, <1>4, <1>5 DEF t

\* The first of some messages or events is taken.
LEMMA SaysTail ==
  ASSUME NEW p, NEW S, NEW s \in Seq(S), s # << >>
  PROVE  /\ Silent(s, p) => Silent(Tail(s), p) /\ ~Gives(Head(s), p)
         /\ \A x : LastSays(s, p, x) =>
                     \/ LastSays(Tail(s), p, x)
                     \/ Silent(Tail(s), p) /\ Gives(Head(s), p) /\ NameIn(Head(s)) = x
<1> DEFINE t == Tail(s)
<1>1. /\ Len(s) \in Nat /\ Len(s) # 0 /\ Len(t) = Len(s) - 1 /\ Head(s) = s[1]
      /\ \A i \in 1..Len(t) : t[i] = s[i + 1]
  BY EmptySeq, HeadTailProperties
<1> HIDE DEF t
<1>2. /\ 1 \in 1..Len(s)
      /\ \A i \in 1..Len(t) : i + 1 \in 1..Len(s) /\ t[i] = s[i + 1] /\ 1 < i + 1
  BY <1>1
<1>3. \A i \in 1..Len(s) : i # 1 => i - 1 \in 1..Len(t) /\ t[i - 1] = s[i]
  <2> TAKE i \in 1..Len(s)
  <2> HAVE i # 1
  <2>1. i - 1 \in 1..Len(t) /\ (i - 1) + 1 = i
    BY <1>1
  <2> QED BY <1>2, <2>1
<1>4. Silent(s, p) => Silent(t, p) /\ ~Gives(Head(s), p)
  BY <1>1, <1>2 DEF Silent
<1>5. ASSUME NEW x, LastSays(s, p, x)
      PROVE  \/ LastSays(t, p, x)
             \/ Silent(t, p) /\ Gives(Head(s), p) /\ NameIn(Head(s)) = x
  <2>1. PICK i \in 1..Len(s) : /\ Gives(s[i], p) /\ NameIn(s[i]) = x
                               /\ \A j \in 1..Len(s) : j > i => ~Gives(s[j], p)
    BY <1>5 DEF LastSays
  <2>2. CASE i = 1
    <3>1. Silent(t, p)
      BY <1>2, <2>1, <2>2 DEF Silent
    <3> QED BY <1>1, <2>1, <2>2, <3>1
  <2>3. CASE i # 1
    <3>1. i - 1 \in 1..Len(t) /\ t[i - 1] = s[i]
      BY <1>3, <2>3
    <3>2. \A j \in 1..Len(t) : j > i - 1 => ~Gives(t[j], p)
      BY <1>2, <2>1
    <3>3. LastSays(t, p, x)
      BY <2>1, <3>1, <3>2 DEF LastSays
    <3> QED BY <3>3
  <2> QED BY <2>2, <2>3
<1> QED BY <1>4, <1>5 DEF t

LEMMA ReceiveCreateIInv ==
  ASSUME IInv, Receive, ReceiveCreate(Head(wire))
  PROVE  IInv'
<1>0. /\ ServerTypes /\ NetTypes /\ ClientTypes /\ OptionTypes
      /\ Filed /\ NamesDiffer /\ WishComes /\ \A q \in Player : Mirrors(q)
  BY DEF IInv, Types
<1>1. /\ wire # << >> /\ wire' = Tail(wire)
      /\ UNCHANGED <<present, used, own, name, stats, kills, deaths, inits, announced, items, up>>
      /\ UNCHANGED <<linked, cKills, cDeaths, cMark, turn, option, early>>
      /\ Head(wire).kind = "create" /\ UNCHANGED <<qWorm, qPlayer>>
  BY DEF Receive, ReceiveCreate, serverVars
<1>2. PICK m, p : /\ m = Head(wire) /\ p = m.node[2]
                  /\ m = wire[1] /\ 1 \in 1..Len(wire) /\ p \in used /\ p \in Player
                  /\ m.node = WormNode(p) \/ m.node = PlayerNode(p)
  BY <1>0, <1>1, MessageOf
<1>3. /\ wire' \in Seq(Messages) /\ \A i \in 1..Len(wire') : wire'[i].node[2] \in used'
      /\ Shorter
  BY <1>0, <1>1, WireTail
<1>4. ServerTypes' /\ NamesDiffer' /\ NetTypes' /\ Filed'
  <2>1. ServerTypes' /\ NamesDiffer'
    BY <1>0, <1>1 DEF ServerTypes, NamesDiffer
  <2>2. NetTypes'
    BY <1>0, <1>1, <1>3 DEF NetTypes
  <2>3. Filed'
    BY <1>0, <1>1 DEF Filed
  <2> QED BY <2>1, <2>2, <2>3
<1>5. \A q \in Player : StillAtServer(q) /\ StillLinked(q)
  BY <1>1 DEF StillAtServer, StillLinked, Known
<1>6. CASE m.node = WormNode(p)
  <2>1. cWorms' = cWorms \cup {p} /\ UNCHANGED <<cPlayers, cName, nameChanged>>
    BY <1>2, <1>6 DEF ReceiveCreate
  <2>2. ClientTypes'
    BY <1>0, <1>1, <1>2, <2>1 DEF ClientTypes
  <2>3. OptionTypes' /\ WishComes'
    <3>1. WishComes'
      BY <1>0, <1>1, <2>1, WishStays
    <3> QED BY <1>0, <1>1, <2>1, <3>1 DEF OptionTypes
  <2>4. ASSUME NEW q \in Player PROVE Mirrors(q)'
    <3>1. StillAtClient(q)
      BY <1>1, <1>5, <2>1 DEF StillAtClient, StillShown
    <3>2. NotOf(q)
      BY <1>2, <1>6, <2>1, Nodes DEF NotOf, Of
    <3> QED BY <1>0, <1>3, <1>5, <3>1, <3>2, ShorterStays
  <2> QED BY <1>4, <2>2, <2>3, <2>4 DEF IInv, Types
<1>7. CASE m.node # WormNode(p)
  <2>1. /\ cPlayers' = cPlayers \cup {p} /\ UNCHANGED cWorms
        /\ cName' = [cName EXCEPT ![p] = IF p = Me THEN localChangeName(<< >>, option, cName, cPlayers)
                                         ELSE constructed(cName, cPlayers)]
        /\ nameChanged' = (nameChanged /\ p # Me)
    BY <1>2, <1>7 DEF ReceiveCreate
  <2>2. m.node = PlayerNode(p) /\ Creates(p, 1) /\ Of(p, 1) /\ ~Removes(p, 1)
    BY <1>1, <1>2, <1>7 DEF Creates, Of, Removes
  <2>3. /\ p \notin cPlayers /\ p \in cWorms /\ qPlayer[p] = << >>
        /\ \A i \in 1..Len(wire') : ~Creates(p, i)'
        /\ ~Told(p) /\ p \notin cMark
        /\ \A i \in 1..Len(wire') : Removes(p, i)' =>
              \A j \in 1..Len(wire') : j > i => ~Of(p, j)'
        /\ Leaving(p) <=> \E i \in 1..Len(wire') : Removes(p, i)'
    <3>1. Len(wire) # 0
      BY <1>3 DEF Shorter
    <3> QED BY <1>0, <1>2, <1>3, <2>2, <3>1, Ahead
  <2>4. /\ cName' \in [Player -> Names] /\ \A q \in Player : q # p => cName'[q] = cName[q]
    <3>1. PICK w \in Word : option = <<w>>
      BY <1>0 DEF OptionTypes, Wishes
    <3>2. w \in AnyWord /\ DefaultWord \in AnyWord /\ cPlayers \in SUBSET Player
      BY <1>0 DEF AnyWord, ClientTypes, ServerTypes
    <3>3. localChangeName(<< >>, option, cName, cPlayers) \in Names
      BY <3>1, <3>2, LocalChangeName
    <3>4. constructed(cName, cPlayers) \in Names
      BY <3>2, LocalChangeName DEF constructed
    <3> QED BY <1>0, <2>1, <3>3, <3>4 DEF ClientTypes
  <2>5. ClientTypes'
    BY <1>0, <1>1, <1>2, <2>1, <2>3, <2>4 DEF ClientTypes
  <2>6. OptionTypes' /\ WishComes'
    <3>1. nameChanged' \in BOOLEAN
      BY <2>1
    <3>2. OptionTypes'
      BY <1>0, <1>1, <3>1 DEF OptionTypes
    <3>3. WishComes'
      BY <1>0, <1>1, <2>1, <2>3 DEF WishComes, Carries
    <3> QED BY <3>2, <3>3
  <2>7. ASSUME NEW q \in Player, q # p PROVE Mirrors(q)'
    <3>1. StillAtClient(q)
      BY <1>1, <1>5, <2>1, <2>4, <2>7 DEF StillAtClient, StillShown
    <3>2. NotOf(q)
      BY <1>2, <2>2, <2>7, Nodes DEF NotOf, Of
    <3> QED BY <1>0, <1>3, <1>5, <3>1, <3>2, ShorterStays
  <2>8. Mirrors(p)'
    <3>1. Mirrors(p) /\ StillAtServer(p) /\ StillLinked(p) /\ p \in cPlayers'
      BY <1>0, <1>2, <1>5, <2>1
    <3>2. ~Told(p)' /\ p \notin cMark'
      BY <1>1, <2>3 DEF Told
    <3>3. CreateFirst(p)'
      BY <2>3, <3>1 DEF CreateFirst
    <3>4. RemovedLast(p)'
      BY <2>3, <3>2 DEF RemovedLast
    <3>5. Leaving(p)' <=> Leaving(p)
      BY <2>3, <3>2 DEF Leaving
    <3>6. Shown(p)'
      <4>1. Coming(p) /\ ~(\A i \in 1..Len(wire) : ~Of(p, i))
        BY <1>2, <2>2 DEF Coming
      <4> QED BY <3>1, <3>5, <4>1 DEF Mirrors, Shown, StillAtServer
    <3>7. Links(p)'
      BY <2>1, <2>3, <3>1 DEF Mirrors, Links, StillAtServer, StillLinked, WormID_
    <3>8. ASSUME NEW x, Says(p, x) PROVE Says(p, x)'
      <4>1. ~Gives(wire[1], p)
        BY <1>1, <1>2 DEF Gives
      <4>2. ~LastSays(qPlayer[p], p, x)
        <5>1. Len(qPlayer[p]) = 0
          BY <2>3, EmptySeq
        <5> QED BY <5>1 DEF LastSays
      <4>3. LastSays(wire, p, x)
        BY <2>3, <3>8, <4>2 DEF Says
      <4>4. LastSays(wire', p, x)
        <5>1. wire \in Seq(Messages) /\ Head(wire) = wire[1]
          BY <1>0, <1>2 DEF NetTypes
        <5> QED BY <1>1, <4>1, <4>3, <5>1, SaysTail
      <4> QED BY <4>4 DEF Says
    <3>9. Named(p)'
      <4>1. Known(p) => name'[p] = name[p]
        BY <1>1
      <4> QED BY <3>1, <3>8, <4>1 DEF Mirrors, Named, StillAtServer
    <3> QED BY <3>3, <3>4, <3>6, <3>7, <3>9 DEF Mirrors
  <2> QED BY <1>4, <2>5, <2>6, <2>7, <2>8 DEF IInv, Types
<1> QED BY <1>6, <1>7

LEMMA ReceiveEventIInv ==
  ASSUME IInv, Receive, ReceiveEvent(Head(wire))
  PROVE  IInv'
<1>0. /\ ServerTypes /\ NetTypes /\ ClientTypes /\ OptionTypes
      /\ Filed /\ NamesDiffer /\ WishComes /\ \A q \in Player : Mirrors(q)
  BY DEF IInv, Types
<1>1. /\ wire # << >> /\ wire' = Tail(wire)
      /\ UNCHANGED <<present, used, own, name, stats, kills, deaths, inits, announced, items, up>>
      /\ UNCHANGED <<linked, cKills, cDeaths, cMark, turn, option, early>>
      /\ Head(wire).kind # "create" /\ UNCHANGED <<cPlayers, cWorms, cName, nameChanged>>
  BY DEF Receive, ReceiveEvent, serverVars
<1>2. PICK m, p : /\ m = Head(wire) /\ p = m.node[2]
                  /\ m = wire[1] /\ 1 \in 1..Len(wire) /\ p \in used /\ p \in Player
                  /\ \/ m.node = WormNode(p) /\ m \in WormMessages
                     \/ m.node = PlayerNode(p) /\ m \in PlayerMessages
  BY <1>0, <1>1, MessageOf
<1>3. /\ wire' \in Seq(Messages) /\ \A i \in 1..Len(wire') : wire'[i].node[2] \in used'
      /\ Shorter
  BY <1>0, <1>1, WireTail
<1>4. ServerTypes' /\ NamesDiffer' /\ NetTypes' /\ OptionTypes' /\ WishComes'
  <2>1. ServerTypes' /\ NamesDiffer'
    BY <1>0, <1>1 DEF ServerTypes, NamesDiffer
  <2>2. NetTypes'
    BY <1>0, <1>1, <1>3 DEF NetTypes
  <2>3. WishComes'
    BY <1>0, <1>1, WishStays
  <2>4. OptionTypes'
    BY <1>0, <1>1 DEF OptionTypes
  <2> QED BY <2>1, <2>2, <2>3, <2>4
<1>5. \A q \in Player : StillAtServer(q) /\ StillLinked(q)
  BY <1>1 DEF StillAtServer, StillLinked, Known
<1>6. CASE m.node = WormNode(p)
  <2>1. qWorm' = [qWorm EXCEPT ![p] = Append(@, m)] /\ UNCHANGED qPlayer
    BY <1>2, <1>6 DEF ReceiveEvent
  <2>2. m \in WormMessages
    BY <1>2, <1>6, Nodes
  <2>3. ClientTypes' /\ Filed'
    <3>1. Append(qWorm[p], m) \in Seq(WormMessages)
      BY <1>0, <1>2, <2>2, AppendProperties DEF ClientTypes
    <3>2. qWorm' \in [Player -> Seq(WormMessages)]
      BY <1>0, <2>1, <3>1 DEF ClientTypes
    <3>3. turn = "network"
      BY DEF Receive
    <3> QED BY <1>0, <1>1, <2>1, <3>2, <3>3 DEF ClientTypes, Filed
  <2>4. ASSUME NEW q \in Player PROVE Mirrors(q)'
    <3>1. StillAtClient(q)
      BY <1>1, <1>5, <2>1 DEF StillAtClient, StillShown
    <3>2. NotOf(q)
      BY <1>1, <1>2, <1>6, Nodes DEF NotOf, Of
    <3> QED BY <1>0, <1>3, <1>5, <3>1, <3>2, ShorterStays
  <2> QED BY <1>4, <2>3, <2>4 DEF IInv, Types
<1>7. CASE m.node # WormNode(p)
  <2>1. qPlayer' = [qPlayer EXCEPT ![p] = Append(@, m)] /\ UNCHANGED qWorm
    BY <1>2, <1>7 DEF ReceiveEvent
  <2>2. /\ m.node = PlayerNode(p) /\ m \in PlayerMessages /\ Of(p, 1) /\ ~Creates(p, 1)
        /\ Removes(p, 1) <=> m.kind = "removed"
    BY <1>1, <1>2, <1>7 DEF Of, Creates, Removes
  <2>3. /\ p \in cPlayers /\ ~Told(p) /\ p \notin cMark
        /\ \A i \in 1..Len(wire') : ~Creates(p, i)'
        /\ \A i \in 1..Len(wire') : Removes(p, i)' =>
              \A j \in 1..Len(wire') : j > i => ~Of(p, j)'
        /\ Removes(p, 1) => \A i \in 1..Len(wire') : ~Of(p, i)'
        /\ Leaving(p) <=> Removes(p, 1) \/ \E i \in 1..Len(wire') : Removes(p, i)'
    <3>1. Len(wire) # 0
      BY <1>3 DEF Shorter
    <3> QED BY <1>0, <1>2, <1>3, <2>2, <3>1, Ahead
  <2>4. /\ qPlayer[p] \in Seq(PlayerMessages) /\ Len(qPlayer[p]) \in Nat
        /\ qPlayer'[p] = Append(qPlayer[p], m) /\ qPlayer'[p] \in Seq(PlayerMessages)
        /\ Len(qPlayer'[p]) = Len(qPlayer[p]) + 1 /\ qPlayer'[p][Len(qPlayer[p]) + 1] = m
        /\ \A i \in 1..Len(qPlayer[p]) : qPlayer'[p][i] = qPlayer[p][i]
    <3>1. qPlayer[p] \in Seq(PlayerMessages) /\ qPlayer'[p] = Append(qPlayer[p], m)
      BY <1>0, <1>2, <2>1 DEF ClientTypes
    <3> QED BY <2>2, <3>1, AppendProperties
  <2>5. ClientTypes'
    <3>1. qPlayer' \in [Player -> Seq(PlayerMessages)]
      BY <1>0, <2>1, <2>4 DEF ClientTypes
    <3> QED BY <1>0, <1>1, <2>1, <3>1 DEF ClientTypes
  <2>6. Filed'
    <3>1. ASSUME NEW i \in 1..Len(qPlayer'[p])
          PROVE  qPlayer'[p][i].node = PlayerNode(p) /\ qPlayer'[p][i].kind # "create"
      <4>1. i \in 1..Len(qPlayer[p]) \/ i = Len(qPlayer[p]) + 1
        BY <2>4
      <4> QED BY <1>0, <1>1, <1>2, <2>2, <2>4, <4>1 DEF Filed
    <3>2. \A q \in Player : q # p => qPlayer'[q] = qPlayer[q]
      BY <1>0, <2>1 DEF ClientTypes
    <3> QED BY <1>0, <3>1, <3>2 DEF Filed
  <2>7. ASSUME NEW q \in Player, q # p PROVE Mirrors(q)'
    <3>1. qPlayer'[q] = qPlayer[q]
      BY <1>0, <2>1, <2>7 DEF ClientTypes
    <3>2. StillAtClient(q)
      BY <1>1, <1>5, <3>1 DEF StillAtClient, StillShown
    <3>3. NotOf(q)
      BY <1>2, <2>2, <2>7, Nodes DEF NotOf, Of
    <3> QED BY <1>0, <1>3, <1>5, <3>2, <3>3, ShorterStays
  <2>8. Mirrors(p)'
    <3>1. Mirrors(p) /\ StillAtServer(p) /\ StillLinked(p) /\ p \in cPlayers' /\ p \notin cMark'
      BY <1>0, <1>1, <1>2, <1>5, <2>3
    <3>2. Told(p)' <=> m.kind = "removed"
      <4>1. \A i \in 1..Len(qPlayer[p]) : qPlayer[p][i].kind # "removed"
        BY <2>3 DEF Told
      <4>2. /\ Len(qPlayer[p]) + 1 \in 1..Len(qPlayer'[p])
            /\ \A i \in 1..Len(qPlayer'[p]) : i \in 1..Len(qPlayer[p]) \/ i = Len(qPlayer[p]) + 1
        BY <2>4
      <4>3. Told(p)' => m.kind = "removed"
        BY <2>4, <4>1, <4>2 DEF Told
      <4>4. m.kind = "removed" => Told(p)'
        BY <2>4, <4>2 DEF Told
      <4> QED BY <4>3, <4>4
    <3>3. CreateFirst(p)'
      BY <2>3, <3>1 DEF CreateFirst
    <3>4. RemovedLast(p)'
      BY <2>2, <2>3, <3>1, <3>2 DEF RemovedLast
    <3>5. Leaving(p)' <=> Leaving(p)
      BY <2>2, <2>3, <3>1, <3>2 DEF Leaving
    <3>6. Shown(p)'
      <4>1. ~(\A i \in 1..Len(wire) : ~Of(p, i))
        BY <1>2, <2>2
      <4> QED BY <2>3, <3>1, <3>5, <4>1 DEF Mirrors, Shown, StillAtServer
    <3>7. Links(p)'
      BY <1>1, <2>3, <3>1 DEF Mirrors, Links, StillAtServer, StillLinked, WormID_
    <3>8. ASSUME NEW x, Says(p, x) PROVE Says(p, x)'
      <4>1. /\ Silent(wire, p) => Silent(wire', p) /\ ~Gives(m, p)
            /\ LastSays(wire, p, x) =>
                  \/ LastSays(wire', p, x)
                  \/ Silent(wire', p) /\ Gives(m, p) /\ NameIn(m) = x
        <5>1. wire \in Seq(Messages)
          BY <1>0 DEF NetTypes
        <5> QED BY <1>1, <1>2, <5>1, SaysTail
      <4>2. /\ Silent(qPlayer[p], p) /\ ~Gives(m, p) => Silent(qPlayer'[p], p)
            /\ LastSays(qPlayer[p], p, x) /\ ~Gives(m, p) => LastSays(qPlayer'[p], p, x)
            /\ Gives(m, p) => LastSays(qPlayer'[p], p, NameIn(m))
        BY <2>2, <2>4, SaysAppend
      <4>3. cName' = cName /\ cPlayers' = cPlayers
        BY <1>1
      <4> QED BY <3>8, <4>1, <4>2, <4>3 DEF Says
    <3>9. Named(p)'
      <4>1. name' = name
        BY <1>1
      <4> QED BY <3>1, <3>8, <4>1 DEF Mirrors, Named, StillAtServer
    <3> QED BY <3>3, <3>4, <3>6, <3>7, <3>9 DEF Mirrors
  <2> QED BY <1>4, <2>5, <2>6, <2>7, <2>8 DEF IInv, Types
<1> QED BY <1>6, <1>7

LEMMA ReceiveIInv == ASSUME IInv, Receive PROVE IInv'
BY ReceiveCreateIInv, ReceiveEventIInv DEF Receive

LEMMA ReceiveItemIInv == ASSUME IInv, NEW i \in items, ReceiveItem(i) PROVE IInv'
<1>0. /\ ServerTypes /\ NetTypes /\ ClientTypes /\ OptionTypes
      /\ Filed /\ NamesDiffer /\ WishComes /\ \A q \in Player : Mirrors(q)
  BY DEF IInv, Types
<1>1. /\ UNCHANGED <<present, used, own, name, stats, kills, deaths, inits, announced, wire, up>>
      /\ UNCHANGED <<cPlayers, cWorms, cName, cKills, cDeaths, qWorm, qPlayer, cMark, turn>>
      /\ UNCHANGED <<option, nameChanged, early>>
      /\ i.of \in IF i.id = "WormID" THEN cPlayers ELSE cWorms
      /\ items' = items \ {i}
      /\ linked' = IF i.id = "WormID" THEN WormID(i.of) ELSE PlayerID(i.of)
  BY DEF ReceiveItem, serverVars, optionVars
<1>2. i.id \in {"WormID", "PlayerID"} /\ i.of \in present /\ i.of \in Player
      /\ i = [id |-> i.id, of |-> i.of]
  BY <1>0 DEF NetTypes, ServerTypes
<1>3. /\ linked \subseteq linked' /\ linked' \subseteq linked \cup ({i.of} \cap cPlayers \cap cWorms)
      /\ i.id = "WormID" => i.of \in linked'
  <2>1. i.id = "WormID" => i.of \in cPlayers /\ i.of \in cWorms
    BY <1>0, <1>1, <1>2 DEF Mirrors, Links
  <2> QED BY <1>1, <2>1 DEF WormID, PlayerID, assignWorm
<1>4. ServerTypes' /\ NamesDiffer'
  BY <1>0, <1>1 DEF ServerTypes, NamesDiffer
<1>5. NetTypes'
  BY <1>0, <1>1 DEF NetTypes
<1>6. ClientTypes' /\ Filed'
  BY <1>0, <1>1, <1>3 DEF ClientTypes, Filed
<1>7. OptionTypes' /\ WishComes'
  <2>1. WishComes'
    BY <1>0, <1>1, WishStays
  <2> QED BY <1>0, <1>1, <2>1 DEF OptionTypes
<1>8. ASSUME NEW q \in Player PROVE Mirrors(q)'
  <2>1. StillLinked(q)
    BY <1>1, <1>2, <1>3 DEF StillLinked, WormID_
  <2>2. StillAtServer(q) /\ StillAtClient(q)
    BY <1>1, <2>1 DEF StillAtServer, StillAtClient, StillShown, Known
  <2> QED BY <1>0, <1>1, <2>2, WireSame, LongerStays
<1> QED BY <1>4, <1>5, <1>6, <1>7, <1>8 DEF IInv, Types

-----------------------------------------------------------------------------
(***************************************************************************)
(* What the client does in a turn.                                         *)
(***************************************************************************)

\* What leaves the server, the messages, the players and their events alone.
LEMMA RestStays ==
  ASSUME IInv, UNCHANGED serverVars, UNCHANGED <<announced, wire, items>>,
         UNCHANGED <<cPlayers, cWorms, linked, cName, qPlayer, cMark>>
  PROVE  /\ ServerTypes' /\ NetTypes' /\ Filed' /\ NamesDiffer'
         /\ \A q \in Player : Mirrors(q)'
<1>0. /\ ServerTypes /\ NetTypes /\ Filed /\ NamesDiffer /\ \A q \in Player : Mirrors(q)
  BY DEF IInv, Types
<1>1. UNCHANGED <<present, used, own, name, stats, kills, deaths, inits>>
  BY DEF serverVars
<1>2. ServerTypes' /\ NamesDiffer'
  BY <1>0, <1>1 DEF ServerTypes, NamesDiffer
<1>3. NetTypes' /\ Filed'
  BY <1>0, <1>1 DEF NetTypes, Filed
<1>4. ASSUME NEW q \in Player PROVE Mirrors(q)'
  <2>1. StillAtServer(q) /\ StillAtClient(q)
    BY <1>1 DEF StillAtServer, StillAtClient, StillShown, StillLinked, Known
  <2> QED BY <1>0, <2>1, WireSame, LongerStays
<1> QED BY <1>2, <1>3, <1>4

\* A turn that begins, and the end of its first half.
LEMMA TurnsIInv == ASSUME IInv, BeginTurn \/ EndWorms PROVE IInv'
<1>0. ClientTypes /\ OptionTypes /\ WishComes
  BY DEF IInv, Types
<1>1. /\ UNCHANGED serverVars /\ UNCHANGED <<announced, wire, items, up>>
      /\ UNCHANGED <<cPlayers, cWorms, linked, cName, cKills, cDeaths, qWorm, qPlayer, cMark>>
      /\ UNCHANGED <<option, nameChanged, early>> /\ name' = name
      /\ \/ turn' = "worms"
         \/ turn' = "players" /\ \A p \in Player : qWorm[p] = << >>
  BY DEF BeginTurn, EndWorms, netVars, optionVars, serverVars
<1>2. ServerTypes' /\ NetTypes' /\ Filed' /\ NamesDiffer' /\ \A q \in Player : Mirrors(q)'
  BY <1>1, RestStays
<1>3. ClientTypes'
  <2>1. used' = used
    BY <1>1 DEF serverVars
  <2> QED BY <1>0, <1>1, <2>1 DEF ClientTypes
<1>4. OptionTypes' /\ WishComes'
  <2>1. WishComes'
    BY <1>0, <1>1, WishStays
  <2> QED BY <1>0, <1>1, <2>1 DEF OptionTypes
<1> QED BY <1>2, <1>3, <1>4 DEF IInv, Types

LEMMA WormDiesIInv == ASSUME IInv, NEW p \in Player, WormDies(p) PROVE IInv'
<1>0. ClientTypes /\ OptionTypes /\ WishComes
  BY DEF IInv, Types
<1>1. /\ UNCHANGED serverVars /\ UNCHANGED <<announced, wire, items, up>>
      /\ UNCHANGED <<cPlayers, cWorms, linked, cName, qPlayer, cMark, turn>>
      /\ UNCHANGED <<option, nameChanged, early>> /\ name' = name /\ used' = used
      /\ qWorm[p] # << >> /\ qWorm' = [qWorm EXCEPT ![p] = Tail(@)] /\ turn = "worms"
  BY DEF WormDies, netVars, optionVars, serverVars
<1>2. ServerTypes' /\ NetTypes' /\ Filed' /\ NamesDiffer' /\ \A q \in Player : Mirrors(q)'
  BY <1>1, RestStays
<1>3. cKills' \in [Player -> Nat] /\ cDeaths' \in [Player -> Nat]
  BY <1>0, AddTypes DEF WormDies, ClientTypes
<1>4. qWorm' \in [Player -> Seq(WormMessages)]
  <2>1. Tail(qWorm[p]) \in Seq(WormMessages)
    BY <1>0, <1>1, HeadTailProperties DEF ClientTypes
  <2> QED BY <1>0, <1>1, <2>1 DEF ClientTypes
<1>5. ClientTypes'
  BY <1>0, <1>1, <1>3, <1>4 DEF ClientTypes
<1>6. OptionTypes' /\ WishComes'
  <2>1. WishComes'
    BY <1>0, <1>1, WishStays
  <2> QED BY <1>0, <1>1, <2>1 DEF OptionTypes
<1> QED BY <1>2, <1>5, <1>6 DEF IInv, Types

LEMMA PlayerThinksIInv == ASSUME IInv, NEW p \in Player, PlayerThinks(p) PROVE IInv'
<1>0. /\ ServerTypes /\ NetTypes /\ ClientTypes /\ OptionTypes
      /\ Filed /\ NamesDiffer /\ WishComes /\ \A q \in Player : Mirrors(q)
  BY DEF IInv, Types
<1> DEFINE e == Head(qPlayer[p])
<1>1. /\ UNCHANGED <<present, used, own, name, stats, kills, deaths, inits, announced, wire, items, up>>
      /\ UNCHANGED <<cPlayers, cWorms, linked, qWorm, turn>>
      /\ UNCHANGED <<option, nameChanged, early>>
      /\ turn = "players" /\ qPlayer[p] # << >> /\ qPlayer' = [qPlayer EXCEPT ![p] = Tail(@)]
  BY DEF PlayerThinks, serverVars, netVars, optionVars
<1>2. /\ qPlayer[p] \in Seq(PlayerMessages) /\ Len(qPlayer[p]) \in Nat /\ Len(qPlayer[p]) # 0
      /\ e = qPlayer[p][1] /\ e \in PlayerMessages
      /\ qPlayer'[p] = Tail(qPlayer[p]) /\ qPlayer'[p] \in Seq(PlayerMessages)
      /\ Len(qPlayer'[p]) = Len(qPlayer[p]) - 1
      /\ \A i \in 1..Len(qPlayer'[p]) : qPlayer'[p][i] = qPlayer[p][i + 1]
      /\ \A q \in Player : q # p => qPlayer'[q] = qPlayer[q]
  <2>1. qPlayer[p] \in Seq(PlayerMessages)
    BY <1>0 DEF ClientTypes
  <2>2. /\ qPlayer'[p] = Tail(qPlayer[p])
        /\ \A q \in Player : q # p => qPlayer'[q] = qPlayer[q]
    BY <1>0, <1>1 DEF ClientTypes
  <2>3. PICK s \in Seq(PlayerMessages) : s = qPlayer[p] /\ s # << >>
    BY <1>1, <2>1
  <2>4. /\ Len(s) \in Nat /\ Len(s) # 0 /\ Head(s) = s[1] /\ Head(s) \in PlayerMessages
        /\ Tail(s) \in Seq(PlayerMessages) /\ Len(Tail(s)) = Len(s) - 1
        /\ \A i \in 1..Len(Tail(s)) : Tail(s)[i] = s[i + 1]
    BY <2>3, EmptySeq, HeadTailProperties
  <2> QED BY <2>2, <2>3, <2>4
<1>3. e.node = PlayerNode(p) /\ p \in cPlayers
  <2>1. 1 \in 1..Len(qPlayer[p])
    BY <1>2
  <2> QED BY <1>0, <1>1, <1>2, <2>1 DEF Filed, Mirrors, CreateFirst
<1>4. \/ /\ e.kind = "sync" /\ cName' = [cName EXCEPT ![p] = e.data.name]
         /\ cKills' = [cKills EXCEPT ![p] = e.data.kills]
         /\ cDeaths' = [cDeaths EXCEPT ![p] = e.data.deaths]
         /\ cMark' = cMark
      \/ /\ e.kind = "name" /\ cName' = [cName EXCEPT ![p] = e.data]
         /\ UNCHANGED <<cKills, cDeaths, cMark>>
      \/ /\ e.kind = "removed" /\ cMark' = cMark \cup {p}
         /\ UNCHANGED <<cName, cKills, cDeaths>>
  BY DEF PlayerThinks, SYNC, NAME_CHANGE, EventRemoved
<1>5. /\ e.kind = "sync" => /\ e.data.name \in Names
                            /\ e.data.kills \in Nat /\ e.data.deaths \in Nat
      /\ e.kind = "name" => e.data \in Names
  BY <1>2 DEF PlayerMessages
<1>6. /\ Gives(e, p) <=> e.kind \in {"name", "sync"}
      /\ Gives(e, p) => cName'[p] = NameIn(e)
      /\ ~Gives(e, p) => cName' = cName
      /\ cMark' = IF e.kind = "removed" THEN cMark \cup {p} ELSE cMark
      /\ cName' \in [Player -> Names] /\ \A q \in Player : q # p => cName'[q] = cName[q]
      /\ cKills' \in [Player -> Nat] /\ cDeaths' \in [Player -> Nat]
  <2>1. /\ cName \in [Player -> Names] /\ cKills \in [Player -> Nat] /\ cDeaths \in [Player -> Nat]
    BY <1>0 DEF ClientTypes
  <2>2. Gives(e, p) <=> e.kind \in {"name", "sync"}
    BY <1>3 DEF Gives
  <2>3. NameIn(e) = IF e.kind = "sync" THEN e.data.name ELSE e.data
    BY DEF NameIn
  <2> HIDE DEF e
  <2> QED BY <1>4, <1>5, <2>1, <2>2, <2>3
<1>7. ServerTypes' /\ NamesDiffer' /\ NetTypes'
  BY <1>0, <1>1 DEF ServerTypes, NamesDiffer, NetTypes
<1>8. OptionTypes' /\ WishComes'
  <2>1. WishComes'
    BY <1>0, <1>1, WishStays
  <2> QED BY <1>0, <1>1, <2>1 DEF OptionTypes
<1>9. ClientTypes'
  <2>1. qPlayer' \in [Player -> Seq(PlayerMessages)]
    BY <1>0, <1>1, <1>2 DEF ClientTypes
  <2>2. cMark' \subseteq cPlayers'
    BY <1>0, <1>1, <1>3, <1>6 DEF ClientTypes
  <2> QED BY <1>0, <1>1, <1>6, <2>1, <2>2 DEF ClientTypes
<1>10. \A i \in 1..Len(qPlayer'[p]) : i + 1 \in 1..Len(qPlayer[p]) /\ i + 1 # 1
  BY <1>2
<1>11. Filed'
  <2>1. \A i \in 1..Len(qPlayer'[p]) :
          qPlayer'[p][i].node = PlayerNode(p) /\ qPlayer'[p][i].kind # "create"
    BY <1>0, <1>2, <1>10 DEF Filed
  <2>2. ASSUME NEW q \in Player, q # p, NEW i \in 1..Len(qPlayer'[q])
        PROVE  qPlayer'[q][i].node = PlayerNode(q) /\ qPlayer'[q][i].kind # "create"
    <3>1. qPlayer'[q] = qPlayer[q]
      BY <1>2, <2>2
    <3> QED BY <1>0, <2>2, <3>1 DEF Filed
  <2>3. \A q \in Player : \A i \in 1..Len(qPlayer'[q]) :
          qPlayer'[q][i].node = PlayerNode(q) /\ qPlayer'[q][i].kind # "create"
    BY <2>1, <2>2
  <2> QED BY <2>3 DEF Filed
<1>12. ASSUME NEW q \in Player, q # p PROVE Mirrors(q)'
  <2>1. StillAtServer(q) /\ StillAtClient(q)
    BY <1>1, <1>2, <1>6, <1>12 DEF StillAtServer, StillAtClient, StillShown, StillLinked, Known
  <2> QED BY <1>0, <1>1, <2>1, WireSame, LongerStays
<1>13. Mirrors(p)'
  <2>1. CreateFirst(p) /\ RemovedLast(p) /\ Shown(p) /\ Links(p) /\ Named(p)
    BY <1>0 DEF Mirrors
  <2>2. Told(p) \/ p \in cMark <=> Told(p)' \/ p \in cMark'
    <3>1. \A i \in 1..Len(qPlayer[p]) : i # 1 =>
            i - 1 \in 1..Len(qPlayer'[p]) /\ qPlayer'[p][i - 1] = qPlayer[p][i]
      <4> TAKE i \in 1..Len(qPlayer[p])
      <4> HAVE i # 1
      <4>1. i - 1 \in 1..Len(qPlayer'[p]) /\ (i - 1) + 1 = i
        BY <1>2
      <4> QED BY <1>2, <4>1
    <3>2. 1 \in 1..Len(qPlayer[p])
      BY <1>2
    <3>3. Told(p) <=> e.kind = "removed" \/ Told(p)'
      BY <1>2, <1>10, <3>1, <3>2 DEF Told
    <3> QED BY <1>6, <3>3
  <2>3. CreateFirst(p)'
    BY <1>1, <1>3, <2>1 DEF CreateFirst, Creates, Of, WormBefore
  <2>4. RemovedLast(p)'
    BY <1>1, <2>1, <2>2 DEF RemovedLast, Removes, Of
  <2>5. Leaving(p)' <=> Leaving(p)
    BY <1>1, <2>2 DEF Leaving, Removes, Of
  <2>6. Shown(p)'
    BY <1>1, <2>1, <2>5 DEF Shown, Coming, Creates, Of, Known
  <2>7. Links(p)'
    BY <1>1, <2>1 DEF Links, Known, WormID_
  <2>8. ASSUME NEW x, Says(p, x) PROVE Says(p, x)'
    <3>1. /\ Silent(qPlayer[p], p) => Silent(qPlayer'[p], p) /\ ~Gives(e, p)
          /\ LastSays(qPlayer[p], p, x) =>
               \/ LastSays(qPlayer'[p], p, x)
               \/ Silent(qPlayer'[p], p) /\ Gives(e, p) /\ NameIn(e) = x
      <4>1. PICK s \in Seq(PlayerMessages) : s = qPlayer[p] /\ s # << >>
        BY <1>1, <1>2
      <4>2. /\ Silent(s, p) => Silent(Tail(s), p) /\ ~Gives(Head(s), p)
            /\ LastSays(s, p, x) =>
                 \/ LastSays(Tail(s), p, x)
                 \/ Silent(Tail(s), p) /\ Gives(Head(s), p) /\ NameIn(Head(s)) = x
        BY <4>1, SaysTail
      <4> QED BY <1>2, <4>1, <4>2
    <3>2. wire' = wire /\ cPlayers' = cPlayers
      BY <1>1
    <3> HIDE DEF e
    <3> QED BY <1>3, <1>6, <2>8, <3>1, <3>2 DEF Says
  <2>9. Named(p)'
    BY <1>1, <2>1, <2>8 DEF Named, Known
  <2> QED BY <2>3, <2>4, <2>6, <2>7, <2>9 DEF Mirrors
<1> QED BY <1>7, <1>8, <1>9, <1>11, <1>12, <1>13 DEF IInv, Types

LEMMA NameChangePetitionIInv == ASSUME IInv, nameChangePetition PROVE IInv'
<1>0. ClientTypes /\ OptionTypes /\ WishComes
  BY DEF IInv, Types
<1>1. /\ UNCHANGED serverVars /\ UNCHANGED <<announced, wire, items>> /\ UNCHANGED clientVars
      /\ UNCHANGED <<option, early>> /\ used' = used
      /\ nameChanged' = FALSE
      /\ up' = Append(up, [kind |-> "petition", name |-> option])
      /\ UNCHANGED <<cPlayers, cWorms, linked, cName, qPlayer, cMark>>
  BY DEF nameChangePetition, serverVars, clientVars
<1>2. ServerTypes' /\ NetTypes' /\ Filed' /\ NamesDiffer' /\ \A q \in Player : Mirrors(q)'
  BY <1>1, RestStays
<1>3. ClientTypes'
  BY <1>0, <1>1 DEF ClientTypes, clientVars
<1> DEFINE U == [kind : {"request", "petition"}, name : Wishes]
           m == [kind |-> "petition", name |-> option]
<1>4. m \in U /\ up \in Seq(U) /\ m.name = option
  BY <1>0 DEF OptionTypes
<1>5. up' \in Seq(U) /\ up' # << >> /\ up'[Len(up')] = m
  <2> HIDE DEF U, m
  <2>1. up' = Append(up, m)
    BY <1>1 DEF m
  <2>2. up' \in Seq(U) /\ Len(up') = Len(up) + 1 /\ up'[Len(up) + 1] = m /\ Len(up) \in Nat
    BY <1>4, <2>1, AppendProperties
  <2> QED BY <2>2, EmptySeq
<1>6. OptionTypes'
  BY <1>0, <1>1, <1>5 DEF OptionTypes
<1>7. WishComes'
  <2> HIDE DEF m
  <2> QED BY <1>1, <1>4, <1>5 DEF WishComes
<1> QED BY <1>2, <1>3, <1>6, <1>7 DEF IInv, Types

LEMMA ChangeNameOfOptionIInv == ASSUME IInv, NEW w \in Word, changeName(w) PROVE IInv'
<1>0. ClientTypes /\ OptionTypes
  BY DEF IInv, Types
<1>1. /\ UNCHANGED serverVars /\ UNCHANGED <<announced, wire, items, up>> /\ UNCHANGED clientVars
      /\ option' = <<w>> /\ nameChanged' = TRUE /\ early' = (Me \notin cPlayers) /\ used' = used
      /\ UNCHANGED <<cPlayers, cWorms, linked, cName, qPlayer, cMark>>
  BY DEF changeName, serverVars, clientVars, netVars
<1>2. ServerTypes' /\ NetTypes' /\ Filed' /\ NamesDiffer' /\ \A q \in Player : Mirrors(q)'
  BY <1>1, RestStays
<1>3. ClientTypes'
  BY <1>0, <1>1 DEF ClientTypes, clientVars
<1>4. OptionTypes' /\ WishComes'
  BY <1>0, <1>1 DEF OptionTypes, WishComes, Wishes
<1> QED BY <1>2, <1>3, <1>4 DEF IInv, Types

\* The end of a turn, when players that are to go go.
LEMMA EndPlayersIInv == ASSUME IInv, EndPlayers PROVE IInv'
<1>0. /\ ServerTypes /\ NetTypes /\ ClientTypes /\ OptionTypes
      /\ Filed /\ NamesDiffer /\ WishComes /\ \A q \in Player : Mirrors(q)
  BY DEF IInv, Types
<1>1. /\ UNCHANGED <<present, used, own, name, stats, kills, deaths, inits, announced, wire, items, up>>
      /\ UNCHANGED <<qWorm, qPlayer, option, nameChanged, early>>
      /\ turn = "players" /\ turn' = "network"
      /\ cPlayers' = cPlayers \ cMark /\ cWorms' = cWorms \ (linked \cap cMark)
      /\ linked' = linked \ cMark /\ cMark' = {}
      /\ cName' = [p \in Player |-> IF p \in cMark THEN << >> ELSE cName[p]]
      /\ cKills' = [p \in Player |-> IF p \in cMark THEN 0 ELSE cKills[p]]
      /\ cDeaths' = [p \in Player |-> IF p \in cMark THEN 0 ELSE cDeaths[p]]
  BY DEF EndPlayers, serverVars, netVars, optionVars
<1>2. ServerTypes' /\ NamesDiffer' /\ NetTypes' /\ Filed'
  BY <1>0, <1>1 DEF ServerTypes, NamesDiffer, NetTypes, Filed
<1>3. ClientTypes'
  <2>1. << >> \in Names
    BY ShortNamesAreNames DEF ShortNames
  <2>2. /\ cName' \in [Player -> Names]
        /\ cKills' \in [Player -> Nat] /\ cDeaths' \in [Player -> Nat]
    BY <1>0, <1>1, <2>1 DEF ClientTypes
  <2> QED BY <1>0, <1>1, <2>2 DEF ClientTypes
<1>4. ASSUME NEW p \in Player, p \in cMark
      PROVE  /\ p \notin present /\ p # Me
             /\ \A i \in 1..Len(wire) : ~Of(p, i)
  <2>1. p \in cPlayers /\ Leaving(p) /\ p \in used
    BY <1>0, <1>4 DEF ClientTypes, Leaving
  <2>2. p \notin present
    BY <1>0, <2>1 DEF Mirrors, Shown
  <2>3. p # Me
    BY <1>0, <2>1, <2>2 DEF ServerTypes
  <2> QED BY <1>0, <1>4, <2>2, <2>3 DEF Mirrors, RemovedLast
<1>5. OptionTypes' /\ WishComes'
  <2>1. Me \in cPlayers => Me \in cPlayers'
    BY <1>1, <1>4, SessionAssumption
  <2>2. WishComes'
    BY <1>0, <1>1, <2>1, WishStays
  <2> QED BY <1>0, <1>1, <2>2 DEF OptionTypes
<1>6. ASSUME NEW p \in Player, p \notin cMark PROVE Mirrors(p)'
  <2>1. StillAtServer(p) /\ StillAtClient(p)
    BY <1>1, <1>6 DEF StillAtServer, StillAtClient, StillShown, StillLinked, Known
  <2> QED BY <1>0, <1>1, <2>1, WireSame, LongerStays
<1>7. ASSUME NEW p \in Player, p \in cMark PROVE Mirrors(p)'
  <2>1. p \notin present' /\ p \notin cPlayers' /\ p \notin cMark' /\ p \notin inits'
    BY <1>0, <1>1, <1>4, <1>7 DEF ServerTypes
  <2>2. qPlayer'[p] = << >>
    BY <1>1, <1>7 DEF EndPlayers
  <2>3. ~Known(p)'
    BY <1>0, <1>1, <1>4, <1>7, KnownIsPresent DEF Known
  <2>4. \A i \in 1..Len(wire') : ~Of(p, i)'
    BY <1>1, <1>4, <1>7 DEF Of
  <2>5. Unheard(p)'
    BY <2>1, <2>2, <2>3, <2>4 DEF Unheard
  <2> QED BY <2>5, UnheardMirrors
<1> QED BY <1>2, <1>3, <1>5, <1>6, <1>7 DEF IInv, Types

-----------------------------------------------------------------------------
(***************************************************************************)
(* The theorems.                                                           *)
(***************************************************************************)
LEMMA ProgressIInv == ASSUME IInv, Progress PROVE IInv'
<1>1. CASE Request \/ Petition
  BY <1>1, RequestIInv, PetitionIInv
<1>2. CASE Receive \/ BeginTurn \/ EndWorms
  BY <1>2, ReceiveIInv, TurnsIInv
<1>3. CASE EndPlayers \/ nameChangePetition
  BY <1>3, EndPlayersIInv, NameChangePetitionIInv
<1>4. ASSUME NEW i \in items, ReceiveItem(i) PROVE IInv'
  BY <1>4, ReceiveItemIInv
<1>5. ASSUME NEW p \in Player, sendSyncMessage(p) \/ Announce(p) PROVE IInv'
  BY <1>5, SendSyncMessageIInv, AnnounceIInv
<1>6. ASSUME NEW p \in Player, WormDies(p) \/ PlayerThinks(p) PROVE IInv'
  BY <1>6, WormDiesIInv, PlayerThinksIInv
<1> QED BY <1>1, <1>2, <1>3, <1>4, <1>5, <1>6 DEF Progress

LEMMA NextIInv == ASSUME IInv, [Next]_vars PROVE IInv'
<1>1. CASE Progress
  BY <1>1, ProgressIInv
<1>2. ASSUME NEW p \in Player, OtherJoins(p) \/ OtherRenames(p) \/ deleteThis(p) PROVE IInv'
  BY <1>2, OtherJoinsIInv, OtherRenamesIInv, DeleteThisIInv
<1>3. ASSUME NEW p \in Player, NEW k \in Player \cup {None}, die(p, k) PROVE IInv'
  BY <1>3, DieIInv
<1>4. ASSUME NEW w \in Word, changeName(w) PROVE IInv'
  BY <1>4, ChangeNameOfOptionIInv
<1>5. CASE UNCHANGED vars
  <2>1. /\ UNCHANGED serverVars /\ UNCHANGED <<announced, wire, items, up>> /\ UNCHANGED clientVars
        /\ UNCHANGED <<option, nameChanged, early>> /\ name' = name /\ used' = used
        /\ UNCHANGED <<cPlayers, cWorms, linked, cName, qPlayer, cMark>>
    BY <1>5 DEF vars, serverVars, netVars, clientVars, optionVars
  <2>2. ClientTypes /\ OptionTypes /\ WishComes
    BY DEF IInv, Types
  <2>3. ServerTypes' /\ NetTypes' /\ Filed' /\ NamesDiffer' /\ \A q \in Player : Mirrors(q)'
    BY <2>1, RestStays
  <2>4. ClientTypes' /\ OptionTypes'
    BY <2>1, <2>2 DEF ClientTypes, OptionTypes, clientVars
  <2>5. WishComes'
    BY <2>1, <2>2, WishStays
  <2> QED BY <2>3, <2>4, <2>5 DEF IInv, Types
<1> QED BY <1>1, <1>2, <1>3, <1>4, <1>5 DEF Next

\* The inductive invariant of a session: what the events of each player's
\* node, on the wire and in the node, will have told the client.
THEOREM SpecIInv == FairSpec => []IInv
<1>1. Init => IInv
  BY InitIInv
<1>2. IInv /\ [Next]_vars => IInv'
  BY NextIInv
<1> QED BY <1>1, <1>2, PTL DEF FairSpec

\* For any players and words: no two players of a server have one name, and a
\* client at rest shows the players of the server by these names, each with
\* its worm.
THEOREM SpecMirrorAgrees == FairSpec => []MirrorAgrees
<1>1. IInv => MirrorAgrees
  <2> SUFFICES ASSUME IInv PROVE MirrorAgrees
    OBVIOUS
  <2>0. /\ ServerTypes /\ NetTypes /\ ClientTypes /\ NamesDiffer
        /\ \A p \in Player : Mirrors(p)
    BY DEF IInv, Types
  <2>1. TypeOK
    BY <2>0 DEF TypeOK, ServerTypes, NetTypes, ClientTypes
  <2>2. ASSUME Quiet, NEW p \in Player
        PROVE  /\ p \in present => p \in cPlayers /\ p \in linked /\ cName[p] = name[p]
               /\ p \notin present => p \notin cPlayers
    <3>1. /\ Len(wire) = 0 /\ Len(qPlayer[p]) = 0 /\ items = {} /\ inits = {} /\ cMark = {}
          /\ p \in present => Known(p)
      BY <2>0, <2>2, EmptySeq DEF Quiet, Known, ClientTypes
    <3>2. ~Coming(p) /\ ~Leaving(p)
      BY <3>1 DEF Coming, Leaving, Told
    <3>3. p \notin present => p \notin cPlayers
      BY <2>0, <3>2 DEF Mirrors, Shown
    <3>4. ASSUME p \in present PROVE p \in cPlayers /\ p \in linked /\ cName[p] = name[p]
      <4>1. p \in cPlayers /\ p \in linked
        BY <2>0, <3>1, <3>2, <3>4 DEF Mirrors, Shown, Links
      <4>2. Says(p, name[p])
        BY <2>0, <3>1, <3>4 DEF Mirrors, Named
      <4>3. ~LastSays(wire, p, name[p]) /\ ~LastSays(qPlayer[p], p, name[p])
        BY <3>1 DEF LastSays
      <4> QED BY <4>1, <4>2, <4>3 DEF Says
    <3> QED BY <3>3, <3>4
  <2>3. cPlayers \subseteq Player /\ present \subseteq Player /\ linked \subseteq cPlayers
    BY <2>0 DEF ServerTypes, ClientTypes
  <2> QED BY <2>0, <2>1, <2>2, <2>3 DEF MirrorAgrees, NamesDiffer
<1> QED BY <1>1, SpecIInv, PTL

\* For any players and words: a name that the client asked for once its player
\* had come is what the server calls it, up to a number.
THEOREM SpecNameIsCarried == FairSpec => []NameIsCarried
<1>1. IInv => NameIsCarried
  BY DEF IInv, WishComes, NameIsCarried, Quiet
<1> QED BY <1>1, SpecIInv, PTL

-----------------------------------------------------------------------------
(***************************************************************************)
(* Scores.  The last SYNC of a player and the deaths behind it will make   *)
(* the score the server has.                                               *)
(***************************************************************************)
Scores == {"kills", "deaths"}

\* What a message adds to a score of p.
Counts(m, p, c) ==
  /\ m.kind = "die"
  /\ IF c = "deaths" THEN m.node = WormNode(p)
                     ELSE m.data = p /\ m.node # WormNode(p)
One(m, p, c) == IF Counts(m, p, c) THEN 1 ELSE 0

\* The deaths in s behind the i-th message, and those that wait in nodes, as
\* far as they count for p.
After(s, i, p, c) == {j \in 1..Len(s) : j > i /\ Counts(s[j], p, c)}
Pending(s, p, c)  == Cardinality(After(s, 0, p, c))
Waiting(q, p, c)  ==
  {w \in Player \X Nat : w[2] \in 1..Len(q[w[1]]) /\ Counts(q[w[1]][w[2]], p, c)}

IsSync(m, p) == m.node = PlayerNode(p) /\ m.kind = "sync"
NoSync(s, p) == \A j \in 1..Len(s) : ~IsSync(s[j], p)
LastSync(s, p, i) == /\ i \in 1..Len(s) /\ IsSync(s[i], p)
                     /\ \A j \in 1..Len(s) : j > i => ~IsSync(s[j], p)
ScoreIn(m, c) == IF c = "deaths" THEN m.data.deaths ELSE m.data.kills

\* The last SYNC in s says x; with the deaths behind it, the score comes to n.
SyncSays(s, p, c, x) == \E i \in 1..Len(s) : LastSync(s, p, i) /\ ScoreIn(s[i], c) = x
Makes(s, p, c, n) ==
  \E i \in 1..Len(s) : /\ LastSync(s, p, i)
                       /\ ScoreIn(s[i], c) + Cardinality(After(s, i, p, c)) = n

\* With s on the wire, and the events e in the node of p, a score of p that is
\* k with the deaths that wait will come to n, unless one was missed.
Leads(s, e, lost, k, p, c, n) ==
  \/ Makes(s, p, c, n)
  \/ /\ NoSync(s, p)
     /\ \/ \E x \in Nat : SyncSays(e, p, c, x) /\ x + Pending(s, p, c) = n
        \/ NoSync(e, p) /\ (p \in lost \/ k + Pending(s, p, c) = n)

ScoreOf(p, c) == IF c = "deaths" THEN deaths[stats[p]] ELSE kills[stats[p]]
ShownScore(p, c) == IF c = "deaths" THEN cDeaths[p] ELSE cKills[p]
Heard(p, c) == ShownScore(p, c) + Cardinality(Waiting(qWorm, p, c))

Due(p) ==
  /\ p \in present /\ Known(p) /\ p \notin inits
  /\ p \notin unseen /\ p \notin apart

Scored(p) ==
  Due(p) =>
    /\ NoSync(wire, p) => p \in cPlayers
    /\ \A c \in Scores :
         Leads(wire, qPlayer[p], missed, Heard(p, c), p, c, ScoreOf(p, c))

\* The deaths that wait are of the worm in whose node they wait.
DeathsFiled ==
  \A p \in Player : \A i \in 1..Len(qWorm[p]) :
    qWorm[p][i].node = WormNode(p) /\ qWorm[p][i].kind = "die"

SInv ==
  /\ DeathsFiled
  /\ \A p \in Player, c \in Scores : IsFiniteSet(Waiting(qWorm, p, c))
  /\ \A p \in Player : Scored(p)

-----------------------------------------------------------------------------
(***************************************************************************)
(* Counting.                                                               *)
(***************************************************************************)
LEMMA SameSize ==
  ASSUME NEW A, NEW B, IsFiniteSet(A), NEW f \in [A -> B],
         \A x, y \in A : f[x] = f[y] => x = y, \A y \in B : \E x \in A : f[x] = y
  PROVE  IsFiniteSet(B) /\ Cardinality(B) = Cardinality(A)
<1>1. f \in Bijection(A, B)
  BY Fun_IsBij
<1>2. ExistsBijection(A, B)
  BY <1>1 DEF ExistsBijection
<1> QED BY <1>2, FS_Bijection

LEMMA AfterFinite ==
  ASSUME NEW S, NEW s \in Seq(S), NEW i, NEW p, NEW c
  PROVE  IsFiniteSet(After(s, i, p, c)) /\ Cardinality(After(s, i, p, c)) \in Nat
<1>1. Len(s) \in Nat
  BY LenProperties
<1>2. IsFiniteSet(1..Len(s))
  BY <1>1, FS_Interval
<1>3. After(s, i, p, c) \in SUBSET (1..Len(s))
  BY DEF After
<1>4. IsFiniteSet(After(s, i, p, c))
  BY <1>2, <1>3, FS_Subset
<1> QED BY <1>4, FS_CardinalityType

\* One more element, or the same set.
LEMMA OneMore ==
  ASSUME NEW S, IsFiniteSet(S), NEW T, NEW x, x \notin S, NEW more \in BOOLEAN,
         T = IF more THEN S \cup {x} ELSE S
  PROVE  IsFiniteSet(T) /\ Cardinality(T) = Cardinality(S) + (IF more THEN 1 ELSE 0)
<1>1. Cardinality(S) \in Nat
  BY FS_CardinalityType
<1>2. CASE more
  BY <1>2, FS_AddElement
<1>3. CASE ~more
  BY <1>1, <1>3
<1> QED BY <1>2, <1>3

LEMMA AfterAppend ==
  ASSUME NEW S, NEW s \in Seq(S), NEW m \in S, NEW i \in 0..Len(s), NEW p, NEW c
  PROVE  Cardinality(After(Append(s, m), i, p, c)) =
           Cardinality(After(s, i, p, c)) + One(m, p, c)
<1> DEFINE t == Append(s, m)
<1>1. /\ Len(s) \in Nat /\ Len(t) = Len(s) + 1 /\ t[Len(s) + 1] = m
      /\ \A j \in 1..Len(s) : t[j] = s[j]
  BY AppendProperties
<1> HIDE DEF t
<1>2. PICK z \in Nat : z = Len(s) + 1
  BY <1>1
<1>3. /\ \A j \in 1..Len(s) : j \in 1..Len(t)
      /\ \A j \in 1..Len(t) : j \in 1..Len(s) \/ j = z
      /\ z \in 1..Len(t) /\ z > i /\ z \notin 1..Len(s)
  BY <1>1, <1>2
<1>4. After(t, i, p, c) = IF Counts(m, p, c) THEN After(s, i, p, c) \cup {z}
                          ELSE After(s, i, p, c)
  BY <1>1, <1>2, <1>3 DEF After
<1>5. z \notin After(s, i, p, c)
  BY <1>3 DEF After
<1>6. IsFiniteSet(After(s, i, p, c))
  BY AfterFinite
<1>7. Counts(m, p, c) \in BOOLEAN
  BY DEF Counts
<1>8. Cardinality(After(t, i, p, c)) =
        Cardinality(After(s, i, p, c)) + (IF Counts(m, p, c) THEN 1 ELSE 0)
  BY <1>4, <1>5, <1>6, <1>7, OneMore
<1> QED BY <1>8 DEF One, t

LEMMA AfterTail ==
  ASSUME NEW S, NEW s \in Seq(S), s # << >>, NEW i \in 1..Len(s), NEW p, NEW c
  PROVE  Cardinality(After(Tail(s), i - 1, p, c)) = Cardinality(After(s, i, p, c))
<1> DEFINE t == Tail(s)
<1>1. /\ Len(s) \in Nat /\ Len(t) = Len(s) - 1
      /\ \A j \in 1..Len(t) : t[j] = s[j + 1]
  BY EmptySeq, HeadTailProperties
<1> HIDE DEF t
<1> DEFINE A == After(s, i, p, c)
           B == After(t, i - 1, p, c)
           f == [j \in A |-> j - 1]
<1>2. ASSUME NEW j \in A PROVE j - 1 \in B /\ j \in Nat
  <2>1. j \in 1..Len(s) /\ j > i /\ Counts(s[j], p, c)
    BY DEF After
  <2>2. j - 1 \in 1..Len(t) /\ j - 1 > i - 1 /\ (j - 1) + 1 = j
    BY <1>1, <2>1
  <2> QED BY <1>1, <2>1, <2>2 DEF After
<1>3. ASSUME NEW j \in B PROVE j + 1 \in A /\ (j + 1) - 1 = j
  <2>1. j \in 1..Len(t) /\ j > i - 1 /\ Counts(t[j], p, c)
    BY DEF After
  <2>2. j + 1 \in 1..Len(s) /\ j + 1 > i /\ (j + 1) - 1 = j
    BY <1>1, <2>1
  <2> QED BY <1>1, <2>1, <2>2 DEF After
<1>4. IsFiniteSet(A)
  BY AfterFinite
<1> HIDE DEF A, B
<1>5. f \in [A -> B] /\ \A j \in A : f[j] = j - 1
  BY <1>2
<1>6. \A j, k \in A : f[j] = f[k] => j = k
  BY <1>2, <1>5
<1>7. \A k \in B : \E j \in A : f[j] = k
  BY <1>3, <1>5
<1>8. Cardinality(B) = Cardinality(A)
  <2> HIDE DEF f
  <2> QED BY <1>4, <1>5, <1>6, <1>7, SameSize
<1> QED BY <1>8 DEF A, B, t

LEMMA AfterHead ==
  ASSUME NEW S, NEW s \in Seq(S), s # << >>, NEW p, NEW c
  PROVE  Pending(s, p, c) = Pending(Tail(s), p, c) + One(Head(s), p, c)
<1>1. Len(s) \in Nat /\ 1 \in 1..Len(s) /\ Head(s) = s[1]
  BY EmptySeq, HeadTailProperties
<1>2. Cardinality(After(Tail(s), 0, p, c)) = Cardinality(After(s, 1, p, c))
  <2>1. PICK i \in 1..Len(s) : i = 1
    BY <1>1
  <2>2. Cardinality(After(Tail(s), i - 1, p, c)) = Cardinality(After(s, i, p, c))
    BY AfterTail
  <2> QED BY <2>1, <2>2
<1>3. After(s, 0, p, c) = IF Counts(Head(s), p, c) THEN After(s, 1, p, c) \cup {1}
                          ELSE After(s, 1, p, c)
  <2>1. \A j \in 1..Len(s) : j > 0 /\ (j > 1 \/ j = 1)
    BY <1>1
  <2> QED BY <1>1, <2>1 DEF After
<1>4. 1 \notin After(s, 1, p, c) /\ IsFiniteSet(After(s, 1, p, c))
  <2>1. 1 \notin After(s, 1, p, c)
    BY DEF After
  <2> QED BY <2>1, AfterFinite
<1>5. Counts(Head(s), p, c) \in BOOLEAN
  BY DEF Counts
<1>6. Cardinality(After(s, 0, p, c)) =
        Cardinality(After(s, 1, p, c)) + (IF Counts(Head(s), p, c) THEN 1 ELSE 0)
  BY <1>3, <1>4, <1>5, OneMore
<1> QED BY <1>2, <1>6 DEF Pending, One

\* Among the events of the worms, m comes behind those of x, or the first of them is taken.
Added(q, r, x, m) ==
  /\ q \in [Player -> Seq(WormMessages)] /\ m \in WormMessages
  /\ r[x] = Append(q[x], m) /\ \A y \in Player : y # x => r[y] = q[y]
Taken(q, r, x) ==
  /\ q \in [Player -> Seq(WormMessages)] /\ q[x] # << >>
  /\ r[x] = Tail(q[x]) /\ \A y \in Player : y # x => r[y] = q[y]

LEMMA WaitingAppend ==
  ASSUME NEW x \in Player, NEW m, NEW p, NEW c,
         NEW q, NEW r, Added(q, r, x, m), IsFiniteSet(Waiting(q, p, c))
  PROVE  /\ IsFiniteSet(Waiting(r, p, c))
         /\ Cardinality(Waiting(r, p, c)) = Cardinality(Waiting(q, p, c)) + One(m, p, c)
<1>0. /\ q \in [Player -> Seq(WormMessages)] /\ m \in WormMessages
      /\ r[x] = Append(q[x], m) /\ \A y \in Player : y # x => r[y] = q[y]
  BY DEF Added
<1>1. PICK s \in Seq(WormMessages), t \in Seq(WormMessages) : s = q[x] /\ t = Append(s, m)
  BY <1>0, AppendProperties
<1>2. /\ Len(s) \in Nat /\ Len(t) = Len(s) + 1 /\ t[Len(s) + 1] = m
      /\ \A j \in 1..Len(s) : t[j] = s[j]
  BY <1>0, <1>1, AppendProperties
<1>3. r[x] = t /\ \A y \in Player : y # x => r[y] = q[y]
  BY <1>0, <1>1
<1>4. PICK z \in Nat : z = Len(s) + 1
  BY <1>2
<1>5. /\ \A j \in 1..Len(s) : j \in 1..Len(t)
      /\ \A j \in 1..Len(t) : j \in 1..Len(s) \/ j = z
      /\ z \in 1..Len(t) /\ z \notin 1..Len(s) /\ t[z] = m
  BY <1>2, <1>4
<1>6. ASSUME NEW y \in Player, NEW i \in Nat
      PROVE  <<y, i>> \in Waiting(r, p, c) <=>
               \/ <<y, i>> \in Waiting(q, p, c)
               \/ y = x /\ i = z /\ Counts(m, p, c)
  <2>1. <<y, i>> \in Waiting(r, p, c) <=> i \in 1..Len(r[y]) /\ Counts(r[y][i], p, c)
    BY DEF Waiting
  <2>2. <<y, i>> \in Waiting(q, p, c) <=> i \in 1..Len(q[y]) /\ Counts(q[y][i], p, c)
    BY DEF Waiting
  <2>3. CASE y = x
    <3>1. r[y] = t /\ q[y] = s
      BY <1>1, <1>3, <2>3
    <3> QED BY <1>2, <1>5, <2>1, <2>2, <2>3, <3>1
  <2>4. CASE y # x
    BY <1>3, <2>1, <2>2, <2>4
  <2> QED BY <2>3, <2>4
<1>7. <<x, z>> \notin Waiting(q, p, c)
  <2>1. <<x, z>> \in Waiting(q, p, c) => z \in 1..Len(q[x])
    BY DEF Waiting
  <2> QED BY <1>1, <1>5, <2>1
<1>8. Waiting(r, p, c) \subseteq Player \X Nat /\ Waiting(q, p, c) \subseteq Player \X Nat
  BY DEF Waiting
<1>9. Waiting(r, p, c) = IF Counts(m, p, c) THEN Waiting(q, p, c) \cup {<<x, z>>}
                         ELSE Waiting(q, p, c)
  <2>0. \A w \in Player \X Nat : \E y \in Player, i \in Nat : w = <<y, i>>
    OBVIOUS
  <2> DEFINE A == Waiting(q, p, c)
             B == Waiting(r, p, c)
  <2>1. ASSUME NEW w \in B PROVE w \in A \/ (w = <<x, z>> /\ Counts(m, p, c))
    <3>1. PICK y \in Player, i \in Nat : w = <<y, i>>
      BY <1>8, <2>0, <2>1
    <3> QED BY <1>6, <2>1, <3>1
  <2>2. ASSUME NEW w \in A PROVE w \in B
    <3>1. PICK y \in Player, i \in Nat : w = <<y, i>>
      BY <1>8, <2>0, <2>2
    <3> QED BY <1>6, <2>2, <3>1
  <2>3. Counts(m, p, c) => <<x, z>> \in B
    BY <1>4, <1>6
  <2> HIDE DEF A, B
  <2>4. B = IF Counts(m, p, c) THEN A \cup {<<x, z>>} ELSE A
    BY <2>1, <2>2, <2>3
  <2> QED BY <2>4 DEF A, B
<1>10. Counts(m, p, c) \in BOOLEAN
  BY DEF Counts
<1>11. /\ IsFiniteSet(Waiting(r, p, c))
       /\ Cardinality(Waiting(r, p, c)) =
            Cardinality(Waiting(q, p, c)) + (IF Counts(m, p, c) THEN 1 ELSE 0)
  BY <1>7, <1>9, <1>10, OneMore
<1> QED BY <1>11 DEF One

LEMMA WaitingTail ==
  ASSUME NEW x \in Player, NEW p, NEW c,
         NEW q, NEW r, Taken(q, r, x), IsFiniteSet(Waiting(q, p, c))
  PROVE  /\ IsFiniteSet(Waiting(r, p, c))
         /\ Cardinality(Waiting(q, p, c)) =
              Cardinality(Waiting(r, p, c)) + One(Head(q[x]), p, c)
<1>0. /\ q \in [Player -> Seq(WormMessages)] /\ q[x] # << >>
      /\ r[x] = Tail(q[x]) /\ \A y \in Player : y # x => r[y] = q[y]
  BY DEF Taken
<1>1. PICK s \in Seq(WormMessages), t \in Seq(WormMessages) : s = q[x] /\ s # << >> /\ t = Tail(s)
  BY <1>0, HeadTailProperties
<1>2. /\ Len(s) \in Nat /\ Len(s) # 0 /\ Len(t) = Len(s) - 1 /\ Head(s) = s[1]
      /\ \A j \in 1..Len(t) : t[j] = s[j + 1]
  BY <1>1, EmptySeq, HeadTailProperties
<1>3. r[x] = t /\ \A y \in Player : y # x => r[y] = q[y]
  BY <1>0, <1>1
<1> DEFINE A == Waiting(q, p, c) \ {<<x, 1>>}
           B == Waiting(r, p, c)
           Before(y, i) == IF y = x THEN i - 1 ELSE i
           f == [w \in A |-> <<w[1], Before(w[1], w[2])>>]
<1>4. ASSUME NEW y \in Player, NEW i \in Nat
      PROVE  /\ <<y, i>> \in A <=> /\ i \in 1..Len(q[y]) /\ Counts(q[y][i], p, c)
                                   /\ ~(y = x /\ i = 1)
             /\ <<y, i>> \in B <=> i \in 1..Len(r[y]) /\ Counts(r[y][i], p, c)
  BY DEF Waiting
<1>5. ASSUME NEW y \in Player, NEW i \in Nat, <<y, i>> \in A
      PROVE  Before(y, i) \in Nat /\ <<y, Before(y, i)>> \in B
  <2>1. CASE y = x
    <3>1. i \in 1..Len(s) /\ i # 1 /\ Counts(s[i], p, c)
      BY <1>1, <1>4, <1>5, <2>1
    <3>2. PICK k \in Nat : k = i - 1
      BY <3>1
    <3>3. k \in 1..Len(t) /\ t[k] = s[i]
      BY <1>2, <3>1, <3>2
    <3>4. <<y, k>> \in B
      BY <1>3, <1>4, <2>1, <3>1, <3>3
    <3> QED BY <2>1, <3>2, <3>4
  <2>2. CASE y # x
    <3>1. r[y] = q[y]
      BY <1>3, <2>2
    <3> QED BY <1>4, <1>5, <2>2, <3>1
  <2> QED BY <2>1, <2>2
<1>6. ASSUME NEW y \in Player, NEW k \in Nat, <<y, k>> \in B
      PROVE  \E i \in Nat : <<y, i>> \in A /\ Before(y, i) = k
  <2>1. CASE y = x
    <3>1. k \in 1..Len(t) /\ Counts(t[k], p, c)
      BY <1>3, <1>4, <1>6, <2>1
    <3>2. PICK i \in Nat : i = k + 1
      OBVIOUS
    <3>3. i \in 1..Len(s) /\ i # 1 /\ t[k] = s[i] /\ i - 1 = k
      BY <1>2, <3>1, <3>2
    <3>4. <<y, i>> \in A
      BY <1>1, <1>4, <2>1, <3>1, <3>3
    <3> QED BY <2>1, <3>3, <3>4
  <2>2. CASE y # x
    <3>1. r[y] = q[y]
      BY <1>3, <2>2
    <3> QED BY <1>4, <1>6, <2>2, <3>1
  <2> QED BY <2>1, <2>2
<1>7. A \subseteq Player \X Nat /\ B \subseteq Player \X Nat
  BY DEF Waiting
<1>8. IsFiniteSet(A)
  BY FS_RemoveElement
<1>9. Cardinality(Waiting(q, p, c)) = Cardinality(A) + One(Head(q[x]), p, c)
  <2>1. <<x, 1>> \in Waiting(q, p, c) <=> Counts(s[1], p, c)
    <3>1. 1 \in 1..Len(q[x])
      BY <1>1, <1>2
    <3> QED BY <1>1, <3>1 DEF Waiting
  <2>2. Waiting(q, p, c) = IF Counts(s[1], p, c) THEN A \cup {<<x, 1>>} ELSE A
    BY <2>1
  <2>3. Counts(s[1], p, c) \in BOOLEAN
    BY DEF Counts
  <2>4. <<x, 1>> \notin A
    OBVIOUS
  <2> HIDE DEF A
  <2>5. Cardinality(Waiting(q, p, c)) = Cardinality(A) + (IF Counts(s[1], p, c) THEN 1 ELSE 0)
    BY <1>8, <2>2, <2>3, <2>4, OneMore
  <2> QED BY <1>1, <1>2, <2>5 DEF One
<1> HIDE DEF A, B
<1>10. \A w \in A : \E y \in Player, i \in Nat : w = <<y, i>>
  BY <1>7
<1>11. \A y \in Player, i \in Nat : <<y, i>> \in A => f[<<y, i>>] = <<y, Before(y, i)>>
  OBVIOUS
<1>12. f \in [A -> B]
  <2>1. ASSUME NEW w \in A PROVE <<w[1], Before(w[1], w[2])>> \in B
    <3>1. PICK y \in Player, i \in Nat : w = <<y, i>>
      BY <1>10
    <3>2. w[1] = y /\ w[2] = i
      BY <3>1
    <3> QED BY <1>5, <3>1, <3>2
  <2> QED BY <2>1
<1> HIDE DEF f
<1>13. \A v, w \in A : f[v] = f[w] => v = w
  <2> SUFFICES ASSUME NEW v \in A, NEW w \in A, f[v] = f[w] PROVE v = w
    OBVIOUS
  <2>1. PICK y \in Player, i \in Nat : v = <<y, i>>
    BY <1>10
  <2>2. PICK z \in Player, k \in Nat : w = <<z, k>>
    BY <1>10
  <2>3. <<y, Before(y, i)>> = <<z, Before(z, k)>>
    BY <1>11, <2>1, <2>2
  <2>4. y = z /\ Before(y, i) = Before(y, k)
    BY <2>3
  <2>5. i = k
    BY <2>4
  <2> QED BY <2>1, <2>2, <2>4, <2>5
<1>14. \A u \in B : \E w \in A : f[w] = u
  <2> SUFFICES ASSUME NEW u \in B PROVE \E w \in A : f[w] = u
    OBVIOUS
  <2>1. PICK y \in Player, k \in Nat : u = <<y, k>>
    BY <1>7
  <2>2. PICK i \in Nat : <<y, i>> \in A /\ Before(y, i) = k
    BY <1>6, <2>1
  <2>3. f[<<y, i>>] = u
    BY <1>11, <2>1, <2>2
  <2> QED BY <2>2, <2>3
<1>15. IsFiniteSet(B) /\ Cardinality(B) = Cardinality(A)
  BY <1>8, <1>12, <1>13, <1>14, SameSize
<1> QED BY <1>9, <1>15 DEF B

\* Deaths that wait nowhere.
LEMMA WaitingNone ==
  ASSUME NEW q, \A x \in Player : q[x] = << >>, NEW p, NEW c
  PROVE  IsFiniteSet(Waiting(q, p, c)) /\ Cardinality(Waiting(q, p, c)) = 0
<1>1. \A x \in Player : Len(q[x]) = 0
  BY EmptySeq
<1>2. Waiting(q, p, c) = {}
  BY <1>1 DEF Waiting
<1> QED BY <1>2, FS_EmptySet

-----------------------------------------------------------------------------
(***************************************************************************)
(* What becomes of the last SYNC.                                          *)
(***************************************************************************)
LEMMA SyncNumbers ==
  ASSUME NEW m \in Messages, NEW p, NEW c, IsSync(m, p)
  PROVE  ScoreIn(m, c) \in Nat
BY DEF Messages, WormMessages, PlayerMessages, IsSync, ScoreIn, WormNode, PlayerNode

LEMMA NotBoth ==
  ASSUME NEW m, NEW p, NEW c
  PROVE  /\ IsSync(m, p) => One(m, p, c) = 0
         /\ m.kind # "die" => One(m, p, c) = 0
         /\ One(m, p, c) \in {0, 1}
BY DEF IsSync, One, Counts

\* Something other than a SYNC of p comes behind s.
LEMMA ScoreAppend ==
  ASSUME NEW p, NEW c, NEW S, S \subseteq Messages, NEW s \in Seq(S), NEW m \in S, ~IsSync(m, p)
  PROVE  LET t == Append(s, m)
         IN /\ NoSync(t, p) <=> NoSync(s, p)
            /\ Pending(t, p, c) = Pending(s, p, c) + One(m, p, c)
            /\ \A n : Makes(s, p, c, n) => Makes(t, p, c, n + One(m, p, c))
            /\ \A x : SyncSays(s, p, c, x) => SyncSays(t, p, c, x)
<1> DEFINE t == Append(s, m)
<1>1. /\ Len(s) \in Nat /\ Len(t) = Len(s) + 1 /\ t[Len(s) + 1] = m
      /\ \A j \in 1..Len(s) : t[j] = s[j]
  BY AppendProperties
<1>2. \A i \in 0..Len(s) : Cardinality(After(t, i, p, c)) =
                             Cardinality(After(s, i, p, c)) + One(m, p, c)
  BY AfterAppend
<1> HIDE DEF t
<1>3. /\ \A j \in 1..Len(s) : j \in 1..Len(t) /\ j \in 0..Len(s)
      /\ \A j \in 1..Len(t) : j \in 1..Len(s) \/ j = Len(s) + 1
  BY <1>1
<1>4. NoSync(t, p) <=> NoSync(s, p)
  BY <1>1, <1>3 DEF NoSync
<1>5. Pending(t, p, c) = Pending(s, p, c) + One(m, p, c)
  <2>1. 0 \in 0..Len(s)
    BY <1>1
  <2> QED BY <1>2, <2>1 DEF Pending
<1>6. ASSUME NEW i, LastSync(s, p, i)
      PROVE  i \in 1..Len(s) /\ LastSync(t, p, i) /\ t[i] = s[i]
  BY <1>1, <1>3, <1>6 DEF LastSync
<1>7. ASSUME NEW n, Makes(s, p, c, n)
      PROVE  Makes(t, p, c, n + One(m, p, c))
  <2>1. PICK i \in 1..Len(s) : /\ LastSync(s, p, i)
                               /\ ScoreIn(s[i], c) + Cardinality(After(s, i, p, c)) = n
    BY <1>7 DEF Makes
  <2>2. i \in 1..Len(t) /\ LastSync(t, p, i) /\ t[i] = s[i]
    BY <1>3, <1>6, <2>1
  <2>3. ScoreIn(s[i], c) \in Nat
    <3>1. s[i] \in Messages /\ IsSync(s[i], p)
      BY <2>1 DEF LastSync
    <3> QED BY <3>1, SyncNumbers
  <2>4. Cardinality(After(s, i, p, c)) \in Nat
    BY AfterFinite
  <2>5. One(m, p, c) \in Nat
    BY NotBoth
  <2>6. Cardinality(After(t, i, p, c)) = Cardinality(After(s, i, p, c)) + One(m, p, c)
    BY <1>2, <1>3
  <2>7. ScoreIn(t[i], c) + Cardinality(After(t, i, p, c)) = n + One(m, p, c)
    BY <2>1, <2>2, <2>3, <2>4, <2>5, <2>6
  <2> QED BY <2>2, <2>7 DEF Makes
<1>8. ASSUME NEW x, SyncSays(s, p, c, x)
      PROVE  SyncSays(t, p, c, x)
  <2>1. PICK i \in 1..Len(s) : LastSync(s, p, i) /\ ScoreIn(s[i], c) = x
    BY <1>8 DEF SyncSays
  <2>2. i \in 1..Len(t) /\ LastSync(t, p, i) /\ ScoreIn(t[i], c) = x
    BY <1>3, <1>6, <2>1
  <2> QED BY <2>2 DEF SyncSays
<1> QED BY <1>4, <1>5, <1>7, <1>8 DEF t

\* A SYNC of p does.
LEMMA SyncAppend ==
  ASSUME NEW p, NEW c, NEW S, S \subseteq Messages, NEW s \in Seq(S), NEW m \in S, IsSync(m, p)
  PROVE  LET t == Append(s, m)
         IN /\ ~NoSync(t, p)
            /\ Makes(t, p, c, ScoreIn(m, c))
            /\ SyncSays(t, p, c, ScoreIn(m, c))
<1> DEFINE t == Append(s, m)
<1>1. /\ Len(s) \in Nat /\ Len(t) = Len(s) + 1 /\ t[Len(s) + 1] = m
  BY AppendProperties
<1> HIDE DEF t
<1>2. PICK z \in 1..Len(t) : t[z] = m /\ \A j \in 1..Len(t) : ~(j > z)
  <2>1. Len(s) + 1 \in 1..Len(t) /\ \A j \in 1..Len(t) : ~(j > Len(s) + 1)
    BY <1>1
  <2> QED BY <1>1, <2>1
<1>3. LastSync(t, p, z)
  BY <1>2 DEF LastSync
<1>4. After(t, z, p, c) = {}
  BY <1>2 DEF After
<1>5. ScoreIn(t[z], c) + Cardinality(After(t, z, p, c)) = ScoreIn(m, c)
  <2>1. ScoreIn(m, c) \in Nat
    BY SyncNumbers
  <2>2. Cardinality(After(t, z, p, c)) = 0
    BY <1>4, FS_EmptySet
  <2> QED BY <1>2, <2>1, <2>2
<1>6. Makes(t, p, c, ScoreIn(m, c)) /\ SyncSays(t, p, c, ScoreIn(m, c))
  BY <1>2, <1>3, <1>5 DEF Makes, SyncSays
<1>7. ~NoSync(t, p)
  BY <1>2 DEF NoSync
<1> QED BY <1>6, <1>7 DEF t

\* The first of s is taken.
LEMMA ScoreTail ==
  ASSUME NEW p, NEW c, NEW S, S \subseteq Messages, NEW s \in Seq(S), s # << >>
  PROVE  LET t == Tail(s)
             h == Head(s)
         IN /\ NoSync(s, p) <=> NoSync(t, p) /\ ~IsSync(h, p)
            /\ Pending(s, p, c) = Pending(t, p, c) + One(h, p, c)
            /\ \A x : SyncSays(s, p, c, x) =>
                 \/ SyncSays(t, p, c, x)
                 \/ NoSync(t, p) /\ IsSync(h, p) /\ ScoreIn(h, c) = x
            /\ \A n : Makes(s, p, c, n) =>
                 \/ Makes(t, p, c, n)
                 \/ NoSync(t, p) /\ IsSync(h, p) /\ ScoreIn(h, c) + Pending(t, p, c) = n
<1> DEFINE t == Tail(s)
           h == Head(s)
<1>1. /\ Len(s) \in Nat /\ Len(s) # 0 /\ Len(t) = Len(s) - 1 /\ h = s[1]
      /\ \A i \in 1..Len(t) : t[i] = s[i + 1]
  BY EmptySeq, HeadTailProperties
<1>2. \A i \in 1..Len(s) : Cardinality(After(t, i - 1, p, c)) = Cardinality(After(s, i, p, c))
  BY AfterTail
<1>3. Pending(s, p, c) = Pending(t, p, c) + One(h, p, c)
  BY AfterHead
<1> HIDE DEF t, h
<1>4. /\ 1 \in 1..Len(s)
      /\ \A i \in 1..Len(t) : i + 1 \in 1..Len(s) /\ t[i] = s[i + 1] /\ 1 < i + 1
  BY <1>1
<1>5. \A i \in 1..Len(s) : i # 1 => i - 1 \in 1..Len(t) /\ t[i - 1] = s[i]
  <2> TAKE i \in 1..Len(s)
  <2> HAVE i # 1
  <2>1. i - 1 \in 1..Len(t) /\ (i - 1) + 1 = i
    BY <1>1
  <2> QED BY <1>1, <2>1
<1>6. NoSync(s, p) <=> NoSync(t, p) /\ ~IsSync(h, p)
  <2>1. NoSync(s, p) => NoSync(t, p) /\ ~IsSync(h, p)
    BY <1>1, <1>4 DEF NoSync
  <2>2. ASSUME NoSync(t, p), ~IsSync(h, p), NEW i \in 1..Len(s) PROVE ~IsSync(s[i], p)
    BY <1>1, <1>5, <2>2 DEF NoSync
  <2> QED BY <2>1, <2>2 DEF NoSync
<1>7. ASSUME NEW i \in 1..Len(s), LastSync(s, p, i)
      PROVE  IF i = 1 THEN NoSync(t, p) /\ IsSync(h, p) /\ h = s[i]
             ELSE /\ i - 1 \in 1..Len(t) /\ LastSync(t, p, i - 1) /\ t[i - 1] = s[i]
  <2>1. IsSync(s[i], p) /\ \A j \in 1..Len(s) : j > i => ~IsSync(s[j], p)
    BY <1>7 DEF LastSync
  <2>2. CASE i = 1
    <3>1. NoSync(t, p)
      BY <1>4, <2>1, <2>2 DEF NoSync
    <3> QED BY <1>1, <2>1, <2>2, <3>1
  <2>3. CASE i # 1
    <3>1. i - 1 \in 1..Len(t) /\ t[i - 1] = s[i]
      BY <1>5, <2>3
    <3>2. \A j \in 1..Len(t) : j > i - 1 => ~IsSync(t[j], p)
      BY <1>4, <2>1
    <3> QED BY <2>1, <2>3, <3>1, <3>2 DEF LastSync
  <2> QED BY <2>2, <2>3
<1>8. ASSUME NEW x, SyncSays(s, p, c, x)
      PROVE  SyncSays(t, p, c, x) \/ (NoSync(t, p) /\ IsSync(h, p) /\ ScoreIn(h, c) = x)
  <2>1. PICK i \in 1..Len(s) : LastSync(s, p, i) /\ ScoreIn(s[i], c) = x
    BY <1>8 DEF SyncSays
  <2>2. CASE i = 1
    BY <1>7, <2>1, <2>2
  <2>3. CASE i # 1
    <3>1. i - 1 \in 1..Len(t) /\ LastSync(t, p, i - 1) /\ t[i - 1] = s[i]
      BY <1>7, <2>1, <2>3
    <3> QED BY <2>1, <3>1 DEF SyncSays
  <2> QED BY <2>2, <2>3
<1>9. ASSUME NEW n, Makes(s, p, c, n)
      PROVE  \/ Makes(t, p, c, n)
             \/ NoSync(t, p) /\ IsSync(h, p) /\ ScoreIn(h, c) + Pending(t, p, c) = n
  <2>1. PICK i \in 1..Len(s) : /\ LastSync(s, p, i)
                               /\ ScoreIn(s[i], c) + Cardinality(After(s, i, p, c)) = n
    BY <1>9 DEF Makes
  <2>2. Cardinality(After(t, i - 1, p, c)) = Cardinality(After(s, i, p, c))
    BY <1>2
  <2>3. CASE i = 1
    <3>1. i - 1 = 0
      BY <2>3
    <3>2. Pending(t, p, c) = Cardinality(After(s, i, p, c))
      BY <2>2, <3>1 DEF Pending
    <3>3. NoSync(t, p) /\ IsSync(h, p) /\ h = s[i]
      BY <1>7, <2>1, <2>3
    <3> QED BY <2>1, <3>2, <3>3
  <2>4. CASE i # 1
    <3>1. i - 1 \in 1..Len(t) /\ LastSync(t, p, i - 1) /\ t[i - 1] = s[i]
      BY <1>7, <2>1, <2>4
    <3>2. ScoreIn(t[i - 1], c) + Cardinality(After(t, i - 1, p, c)) = n
      BY <2>1, <2>2, <3>1
    <3> QED BY <3>1, <3>2 DEF Makes
  <2> QED BY <2>3, <2>4
<1> QED BY <1>3, <1>6, <1>8, <1>9 DEF t, h

-----------------------------------------------------------------------------
(***************************************************************************)
(* What becomes of a score.                                                *)
(***************************************************************************)
LEMMA LeadsAppend ==
  ASSUME NEW p, NEW c, NEW s \in Seq(Messages), NEW m \in Messages, ~IsSync(m, p),
         NEW e, NEW lost, NEW k \in Nat, NEW n \in Nat,
         Leads(s, e, lost, k, p, c, n)
  PROVE  Leads(Append(s, m), e, lost, k, p, c, n + One(m, p, c))
<1> DEFINE t == Append(s, m)
<1>1. /\ NoSync(t, p) <=> NoSync(s, p)
      /\ Pending(t, p, c) = Pending(s, p, c) + One(m, p, c)
      /\ \A y : Makes(s, p, c, y) => Makes(t, p, c, y + One(m, p, c))
  BY ScoreAppend
<1> HIDE DEF t
<1>2. Pending(s, p, c) \in Nat /\ One(m, p, c) \in Nat
  BY AfterFinite, NotBoth DEF Pending
<1>3. CASE Makes(s, p, c, n)
  BY <1>1, <1>3 DEF Leads, t
<1>4. CASE NoSync(s, p) /\ \E x \in Nat : SyncSays(e, p, c, x) /\ x + Pending(s, p, c) = n
  <2>1. PICK x \in Nat : SyncSays(e, p, c, x) /\ x + Pending(s, p, c) = n
    BY <1>4
  <2>2. x + Pending(t, p, c) = n + One(m, p, c)
    BY <1>1, <1>2, <2>1
  <2> QED BY <1>1, <1>4, <2>1, <2>2 DEF Leads, t
<1>5. CASE NoSync(s, p) /\ NoSync(e, p) /\ (p \in lost \/ k + Pending(s, p, c) = n)
  <2>1. p \in lost \/ k + Pending(t, p, c) = n + One(m, p, c)
    BY <1>1, <1>2, <1>5
  <2> QED BY <1>1, <1>5, <2>1 DEF Leads, t
<1> QED BY <1>3, <1>4, <1>5 DEF Leads

LEMMA LeadsNewSync ==
  ASSUME NEW p, NEW c, NEW s \in Seq(Messages), NEW m \in Messages, IsSync(m, p),
         NEW e, NEW lost, NEW k
  PROVE  Leads(Append(s, m), e, lost, k, p, c, ScoreIn(m, c))
BY SyncAppend DEF Leads

\* The first message is taken, and a death it may be waits: no SYNC may be waiting then.
LEMMA LeadsTaken ==
  ASSUME NEW p, NEW c, NEW s \in Seq(Messages), s # << >>, ~IsSync(Head(s), p),
         NEW e, NEW lost, NEW k \in Nat, NEW n \in Nat, NEW h, h = Head(s),
         Leads(s, e, lost, k, p, c, n), One(h, p, c) = 0 \/ NoSync(e, p)
  PROVE  Leads(Tail(s), e, lost, k + One(h, p, c), p, c, n)
<1> DEFINE t == Tail(s)
<1>1. /\ NoSync(s, p) => NoSync(t, p)
      /\ Pending(s, p, c) = Pending(t, p, c) + One(h, p, c)
      /\ Makes(s, p, c, n) => Makes(t, p, c, n)
  BY ScoreTail
<1>2. t \in Seq(Messages)
  BY HeadTailProperties
<1> HIDE DEF t
<1>3. Pending(t, p, c) \in Nat /\ One(h, p, c) \in Nat
  BY <1>2, AfterFinite, NotBoth DEF Pending
<1>4. CASE Makes(s, p, c, n)
  BY <1>1, <1>4 DEF Leads, t
<1>5. CASE NoSync(s, p) /\ \E x \in Nat : SyncSays(e, p, c, x) /\ x + Pending(s, p, c) = n
  <2>1. PICK x \in Nat : SyncSays(e, p, c, x) /\ x + Pending(s, p, c) = n
    BY <1>5
  <2>2. ~NoSync(e, p)
    BY <2>1 DEF SyncSays, LastSync, NoSync
  <2>3. x + Pending(t, p, c) = n
    BY <1>1, <1>3, <2>1, <2>2
  <2> QED BY <1>1, <1>5, <2>1, <2>3 DEF Leads, t
<1>6. CASE NoSync(s, p) /\ NoSync(e, p) /\ (p \in lost \/ k + Pending(s, p, c) = n)
  <2>1. p \in lost \/ (k + One(h, p, c)) + Pending(t, p, c) = n
    BY <1>1, <1>3, <1>6
  <2> QED BY <1>1, <1>6, <2>1 DEF Leads, t
<1> QED BY <1>4, <1>5, <1>6 DEF Leads

\* The first message is taken, and filed with the events of p.
LEMMA LeadsFiled ==
  ASSUME NEW p, NEW c \in Scores, NEW s \in Seq(Messages), s # << >>, NEW h, h = Head(s),
         NEW S, S \subseteq Messages, h \in S, NEW e \in Seq(S), One(h, p, c) = 0,
         NEW lost, NEW k \in Nat, NEW n \in Nat, Leads(s, e, lost, k, p, c, n)
  PROVE  Leads(Tail(s), Append(e, h), lost, k, p, c, n)
<1> DEFINE t == Tail(s)
           f == Append(e, h)
<1>1. /\ NoSync(s, p) <=> NoSync(t, p) /\ ~IsSync(h, p)
      /\ Pending(s, p, c) = Pending(t, p, c) + One(h, p, c)
      /\ Makes(s, p, c, n) =>
           \/ Makes(t, p, c, n)
           \/ NoSync(t, p) /\ IsSync(h, p) /\ ScoreIn(h, c) + Pending(t, p, c) = n
  BY ScoreTail
<1>2. t \in Seq(Messages)
  BY HeadTailProperties
<1>3. /\ ~IsSync(h, p) => /\ NoSync(f, p) <=> NoSync(e, p)
                          /\ \A x : SyncSays(e, p, c, x) => SyncSays(f, p, c, x)
      /\ IsSync(h, p) => SyncSays(f, p, c, ScoreIn(h, c)) /\ ScoreIn(h, c) \in Nat
  BY ScoreAppend, SyncAppend, SyncNumbers
<1> HIDE DEF t, f
<1>4. Pending(s, p, c) = Pending(t, p, c)
  <2>1. Pending(t, p, c) \in Nat
    BY <1>2, AfterFinite DEF Pending
  <2> QED BY <1>1, <2>1
<1>5. CASE IsSync(h, p)
  <2>1. \/ Makes(t, p, c, n)
        \/ NoSync(t, p) /\ ScoreIn(h, c) + Pending(t, p, c) = n
    BY <1>1, <1>5 DEF Leads
  <2>2. Leads(t, f, lost, k, p, c, n)
    BY <1>3, <1>5, <2>1 DEF Leads
  <2> QED BY <2>2 DEF t, f
<1>6. CASE ~IsSync(h, p)
  <2>1. /\ NoSync(s, p) <=> NoSync(t, p)
        /\ Makes(s, p, c, n) => Makes(t, p, c, n)
    BY <1>1, <1>6
  <2>2. Leads(t, f, lost, k, p, c, n)
    BY <1>3, <1>4, <1>6, <2>1 DEF Leads
  <2> QED BY <2>2 DEF t, f
<1> QED BY <1>5, <1>6

\* The first event is looked at.
LEMMA LeadsHeard ==
  ASSUME NEW p, NEW c, NEW S, S \subseteq Messages, NEW e \in Seq(S), e # << >>, NEW h, h = Head(e),
         NEW s, NEW lost, NEW k, NEW n, Leads(s, e, lost, k, p, c, n),
         NEW lost2, NEW k2,
         IF IsSync(h, p) THEN k2 = ScoreIn(h, c) ELSE k2 = k /\ (p \in lost => p \in lost2)
  PROVE  Leads(s, Tail(e), lost2, k2, p, c, n)
<1> DEFINE t == Tail(e)
<1>1. /\ NoSync(e, p) <=> NoSync(t, p) /\ ~IsSync(h, p)
      /\ \A x : SyncSays(e, p, c, x) =>
            \/ SyncSays(t, p, c, x)
            \/ NoSync(t, p) /\ IsSync(h, p) /\ ScoreIn(h, c) = x
  BY ScoreTail
<1> HIDE DEF t
<1>2. CASE Makes(s, p, c, n)
  BY <1>2 DEF Leads
<1>3. CASE NoSync(s, p) /\ \E x \in Nat : SyncSays(e, p, c, x) /\ x + Pending(s, p, c) = n
  <2>1. PICK x \in Nat : SyncSays(e, p, c, x) /\ x + Pending(s, p, c) = n
    BY <1>3
  <2>2. CASE SyncSays(t, p, c, x)
    BY <1>3, <2>1, <2>2 DEF Leads, t
  <2>3. CASE NoSync(t, p) /\ IsSync(h, p) /\ ScoreIn(h, c) = x
    BY <1>3, <2>1, <2>3 DEF Leads, t
  <2> QED BY <1>1, <2>1, <2>2, <2>3
<1>4. CASE NoSync(s, p) /\ NoSync(e, p) /\ (p \in lost \/ k + Pending(s, p, c) = n)
  BY <1>1, <1>4 DEF Leads, t
<1> QED BY <1>2, <1>3, <1>4 DEF Leads

\* What is lost stays lost, and what is heard behind a SYNC on its way does not matter.
LEMMA LeadsStays ==
  ASSUME NEW p, NEW c, NEW s, NEW e, NEW lost, NEW k, NEW n, Leads(s, e, lost, k, p, c, n),
         NEW lost2, NEW k2, ~NoSync(s, p) \/ p \in lost2 \/ (k2 = k /\ (p \in lost => p \in lost2))
  PROVE  Leads(s, e, lost2, k2, p, c, n)
BY DEF Leads

-----------------------------------------------------------------------------
(***************************************************************************)
(* What the steps do to the scores.                                        *)
(***************************************************************************)
LEMMA ScoreTypes ==
  ASSUME IInv, SInv, NEW p \in Player, NEW c \in Scores
  PROVE  /\ ScoreOf(p, c) \in Nat /\ ShownScore(p, c) \in Nat /\ Heard(p, c) \in Nat
         /\ IsFiniteSet(Waiting(qWorm, p, c)) /\ Cardinality(Waiting(qWorm, p, c)) \in Nat
<1>1. ServerTypes /\ ClientTypes
  BY DEF IInv, Types
<1>2. ScoreOf(p, c) \in Nat /\ ShownScore(p, c) \in Nat
  BY <1>1 DEF ServerTypes, ClientTypes, ScoreOf, ShownScore
<1>3. IsFiniteSet(Waiting(qWorm, p, c)) /\ Cardinality(Waiting(qWorm, p, c)) \in Nat
  BY FS_CardinalityType DEF SInv
<1> QED BY <1>2, <1>3 DEF Heard

\* What does not concern the score of p.
StillDue(p) ==
  /\ Due(p)' => Due(p)
  /\ p \in cPlayers => p \in cPlayers'
  /\ p \in missed => p \in missed'
  /\ \A c \in Scores : Heard(p, c)' = Heard(p, c)
StillCounted(p) == \A c \in Scores : ScoreOf(p, c)' = ScoreOf(p, c)

LEMMA ScoredStays ==
  ASSUME NEW p \in Player, Scored(p), StillDue(p), StillCounted(p),
         wire' = wire, qPlayer'[p] = qPlayer[p]
  PROVE  Scored(p)'
<1> SUFFICES ASSUME Due(p)'
             PROVE  /\ NoSync(wire, p)' => p \in cPlayers'
                    /\ \A c \in Scores : Leads(wire, qPlayer[p], missed, Heard(p, c), p, c, ScoreOf(p, c))'
  BY DEF Scored
<1>1. /\ NoSync(wire, p) => p \in cPlayers
      /\ \A c \in Scores : Leads(wire, qPlayer[p], missed, Heard(p, c), p, c, ScoreOf(p, c))
  BY DEF Scored, StillDue
<1>2. NoSync(wire, p)' => p \in cPlayers'
  BY <1>1 DEF StillDue
<1>3. ASSUME NEW c \in Scores
      PROVE  Leads(wire', qPlayer'[p], missed', Heard(p, c)', p, c, ScoreOf(p, c)')
  <2>1. Leads(wire, qPlayer[p], missed', Heard(p, c)', p, c, ScoreOf(p, c))
    <3>1. Heard(p, c)' = Heard(p, c) /\ (p \in missed => p \in missed')
      BY DEF StillDue
    <3>2. Leads(wire, qPlayer[p], missed, Heard(p, c), p, c, ScoreOf(p, c))
      BY <1>1
    <3> QED BY <3>1, <3>2, LeadsStays
  <2> QED BY <2>1 DEF StillCounted
<1> QED BY <1>2, <1>3

LEMMA ScoredAppend ==
  ASSUME IInv, SInv, NEW p \in Player, StillDue(p), NEW m \in Messages,
         ~IsSync(m, p), wire' = Append(wire, m), qPlayer'[p] = qPlayer[p],
         Due(p)' => \A c \in Scores : ScoreOf(p, c)' = ScoreOf(p, c) + One(m, p, c)
  PROVE  Scored(p)'
<1>0. wire \in Seq(Messages) /\ Scored(p)
  BY DEF IInv, Types, NetTypes, SInv
<1> SUFFICES ASSUME Due(p)'
             PROVE  /\ NoSync(wire', p) => p \in cPlayers'
                    /\ \A c \in Scores :
                         Leads(wire', qPlayer'[p], missed', Heard(p, c)', p, c, ScoreOf(p, c)')
  BY DEF Scored
<1>1. /\ NoSync(wire, p) => p \in cPlayers
      /\ \A c \in Scores : Leads(wire, qPlayer[p], missed, Heard(p, c), p, c, ScoreOf(p, c))
  BY <1>0 DEF Scored, StillDue
<1>2. NoSync(wire', p) => p \in cPlayers'
  <2>1. NoSync(wire', p) => NoSync(wire, p)
    BY <1>0, ScoreAppend
  <2> QED BY <1>1, <2>1 DEF StillDue
<1>3. ASSUME NEW c \in Scores
      PROVE  Leads(wire', qPlayer'[p], missed', Heard(p, c)', p, c, ScoreOf(p, c)')
  <2>1. Leads(wire, qPlayer[p], missed', Heard(p, c)', p, c, ScoreOf(p, c))
    <3>1. Heard(p, c)' = Heard(p, c) /\ (p \in missed => p \in missed')
      BY DEF StillDue
    <3>2. Leads(wire, qPlayer[p], missed, Heard(p, c), p, c, ScoreOf(p, c))
      BY <1>1
    <3> QED BY <3>1, <3>2, LeadsStays
  <2>2. Heard(p, c)' \in Nat /\ ScoreOf(p, c) \in Nat
    BY ScoreTypes DEF StillDue
  <2>3. Leads(wire', qPlayer[p], missed', Heard(p, c)', p, c, ScoreOf(p, c) + One(m, p, c))
    BY <1>0, <2>1, <2>2, LeadsAppend
  <2> QED BY <2>3
<1> QED BY <1>2, <1>3

\* What leaves the events of the worms and the scores shown alone.
LEMMA HeardSame ==
  ASSUME SInv, UNCHANGED <<qWorm, cKills, cDeaths>>
  PROVE  /\ DeathsFiled' /\ \A p \in Player, c \in Scores : IsFiniteSet(Waiting(qWorm, p, c))'
         /\ \A p \in Player, c \in Scores : Heard(p, c)' = Heard(p, c)
<1>1. DeathsFiled'
  BY DEF SInv, DeathsFiled
<1>2. \A p \in Player, c \in Scores : Waiting(qWorm, p, c)' = Waiting(qWorm, p, c)
  BY DEF Waiting
<1>3. \A p \in Player, c \in Scores : ShownScore(p, c)' = ShownScore(p, c)
  BY DEF ShownScore
<1> QED BY <1>1, <1>2, <1>3 DEF SInv, Heard

\* What leaves all but the players' worms, the turn and the names alone.
LEMMA RestScored ==
  ASSUME SInv, UNCHANGED <<present, announced, inits, unseen, apart, missed, stats, kills, deaths>>,
         UNCHANGED <<wire, qWorm, qPlayer, cPlayers, cKills, cDeaths>>
  PROVE  SInv'
<1>1. /\ DeathsFiled' /\ \A p \in Player, c \in Scores : IsFiniteSet(Waiting(qWorm, p, c))'
      /\ \A p \in Player, c \in Scores : Heard(p, c)' = Heard(p, c)
  BY HeardSame
<1>2. ASSUME NEW p \in Player PROVE Scored(p)'
  <2>1. StillDue(p)
    BY <1>1 DEF StillDue, Due, Known
  <2>2. StillCounted(p)
    BY DEF StillCounted, ScoreOf
  <2>3. Scored(p)
    BY DEF SInv
  <2> QED BY <2>1, <2>2, <2>3, ScoredStays
<1> QED BY <1>1, <1>2 DEF SInv

LEMMA JoinSInv ==
  ASSUME IInv, SInv, NEW p \in Player, NEW wish, NEW rep, join(p, wish, rep),
         UNCHANGED <<announced, wire, items, clientVars, driftVars>>
  PROVE  SInv'
<1>1. /\ p \notin used /\ present' = present \cup {p} /\ stats' = [stats EXCEPT ![p] = stats[rep]]
      /\ UNCHANGED <<kills, deaths, inits, announced, wire>>
      /\ UNCHANGED <<qWorm, qPlayer, cPlayers, cKills, cDeaths, missed, unseen, apart>>
  BY DEF join, clientVars, driftVars
<1>2. ServerTypes /\ NetTypes
  BY DEF IInv, Types
<1>3. /\ DeathsFiled' /\ \A q \in Player, c \in Scores : IsFiniteSet(Waiting(qWorm, q, c))'
      /\ \A q \in Player, c \in Scores : Heard(q, c)' = Heard(q, c)
  BY <1>1, HeardSame
<1>4. ~Known(p)'
  BY <1>1, <1>2, KnownIsPresent DEF Known, ServerTypes
<1>5. ASSUME NEW q \in Player PROVE Scored(q)'
  <2>1. CASE q = p
    BY <1>4, <2>1 DEF Scored, Due
  <2>2. CASE q # p
    <3>1. StillDue(q)
      BY <1>1, <1>3, <2>2 DEF StillDue, Due, Known
    <3>2. stats'[q] = stats[q]
      BY <1>1, <1>2, <2>2 DEF ServerTypes
    <3>3. StillCounted(q)
      BY <1>1, <3>2 DEF StillCounted, ScoreOf
    <3>4. Scored(q)
      BY DEF SInv
    <3> QED BY <1>1, <3>1, <3>3, <3>4, ScoredStays
  <2> QED BY <2>1, <2>2
<1> QED BY <1>3, <1>5 DEF SInv

\* A player's node is told something of p that is no SYNC.
LEMMA ToldScored ==
  ASSUME IInv, SInv, NEW p \in Player, NEW q \in Player, NEW kind, NEW data, Tell(p, kind, data),
         [node |-> PlayerNode(p), kind |-> kind, data |-> data] \in Messages,
         kind # "die", q # p \/ kind # "sync",
         StillDue(q), StillCounted(q), qPlayer'[q] = qPlayer[q]
  PROVE  Scored(q)'
<1> DEFINE m == [node |-> PlayerNode(p), kind |-> kind, data |-> data]
<1>1. wire' = Append(wire, m) \/ wire' = wire
  BY DEF Tell
<1>2. m \in Messages /\ m.node = PlayerNode(p) /\ m.kind = kind
  OBVIOUS
<1> HIDE DEF m
<1>3. CASE wire' = wire
  <2>1. Scored(q)
    BY DEF SInv
  <2> QED BY <1>3, <2>1, ScoredStays
<1>4. CASE wire' = Append(wire, m)
  <2>1. ~IsSync(m, q)
    BY <1>2, Nodes DEF IsSync
  <2>2. \A c \in Scores : ScoreOf(q, c)' = ScoreOf(q, c) + One(m, q, c)
    <3> TAKE c \in Scores
    <3>1. One(m, q, c) = 0
      BY <1>2, NotBoth
    <3>2. ScoreOf(q, c) \in Nat
      BY ScoreTypes
    <3> QED BY <3>1, <3>2 DEF StillCounted
  <2> QED BY <1>2, <1>4, <2>1, <2>2, ScoredAppend
<1> QED BY <1>1, <1>3, <1>4

LEMMA ChangeNameSInv ==
  ASSUME IInv, SInv, NEW p \in Player, NEW w \in Word, changeName_(p, <<w>>),
         UNCHANGED <<clientVars, driftVars>>
  PROVE  SInv'
<1>1. /\ UNCHANGED <<present, stats, kills, deaths, inits, announced>> /\ Tell(p, "name", name'[p])
      /\ UNCHANGED <<qWorm, qPlayer, cPlayers, cKills, cDeaths, missed, unseen, apart>>
  BY DEF changeName_, clientVars, driftVars
<1>2. [node |-> PlayerNode(p), kind |-> "name", data |-> name'[p]] \in Messages
  <2>1. ServerTypes /\ NamesDiffer
    BY DEF IInv, Types
  <2>2. name' \in [Player -> Names]
    BY <2>1, ChangeNames
  <2> QED BY <2>2, MessageTypes
<1>3. /\ DeathsFiled' /\ \A q \in Player, c \in Scores : IsFiniteSet(Waiting(qWorm, q, c))'
      /\ \A q \in Player, c \in Scores : Heard(q, c)' = Heard(q, c)
  BY <1>1, HeardSame
<1>4. ASSUME NEW q \in Player PROVE Scored(q)'
  <2>1. StillDue(q) /\ StillCounted(q)
    BY <1>1, <1>3 DEF StillDue, StillCounted, ScoreOf, Due, Known
  <2> QED BY <1>1, <1>2, <2>1, ToldScored
<1> QED BY <1>3, <1>4 DEF SInv

\* What a death adds to the scores the server has.
LEMMA DieCounts ==
  ASSUME ServerTypes, NEW p \in Player, NEW k \in Player \cup {None}, die(p, k),
         NEW q \in Player, q \in present, q \notin apart'
  PROVE  LET m == [node |-> WormNode(p), kind |-> "die", data |-> k]
         IN /\ \A c \in Scores : ScoreOf(q, c)' = ScoreOf(q, c) + One(m, q, c)
            /\ q \notin unseen' /\ WormNode(p) \notin announced =>
                 \A c \in Scores : One(m, q, c) = 0
<1> DEFINE m == [node |-> WormNode(p), kind |-> "die", data |-> k]
<1>1. /\ stats' = stats /\ stats \in [Player -> Player]
      /\ kills \in [Player -> Nat] /\ deaths \in [Player -> Nat]
      /\ deaths' = Add(deaths, {stats[p]}) /\ kills' = Add(kills, {stats[x] : x \in Killers(p, k)})
      /\ apart' = apart \cup {x \in present : \E y \in {p} \cup Killers(p, k) :
                                                x # y /\ stats[x] = stats[y]}
  BY DEF die, ServerTypes
<1>2. \A y \in {p} \cup Killers(p, k) : q # y => stats[q] # stats[y]
  BY <1>1
<1>3. /\ Counts(m, q, "deaths") <=> q = p
      /\ Counts(m, q, "kills") <=> q \in Killers(p, k)
  <2>1. m.node = WormNode(q) <=> q = p
    BY Nodes
  <2>2. q # None
    BY SessionAssumption
  <2> QED BY <2>1, <2>2 DEF Counts, Killers
<1> HIDE DEF m
<1>4. deaths'[stats[q]] = deaths[stats[q]] + One(m, q, "deaths")
  <2>1. stats[q] \in Player /\ (stats[q] \in {stats[p]} <=> q = p)
    BY <1>1, <1>2
  <2> QED BY <1>1, <1>3, <2>1 DEF Add, One
<1>5. kills'[stats[q]] = kills[stats[q]] + One(m, q, "kills")
  <2>1. stats[q] \in Player /\ (stats[q] \in {stats[x] : x \in Killers(p, k)} <=> q \in Killers(p, k))
    BY <1>1, <1>2
  <2> QED BY <1>1, <1>3, <2>1 DEF Add, One
<1>6. \A c \in Scores : ScoreOf(q, c)' = ScoreOf(q, c) + One(m, q, c)
  <2> TAKE c \in Scores
  <2>1. CASE c = "deaths"
    BY <1>1, <1>4, <2>1 DEF ScoreOf
  <2>2. CASE c = "kills"
    BY <1>1, <1>5, <2>2 DEF ScoreOf
  <2> QED BY <2>1, <2>2 DEF Scores
<1>7. ASSUME q \notin unseen', WormNode(p) \notin announced, NEW c \in Scores
      PROVE  One(m, q, c) = 0
  <2>1. q # p /\ q \notin Killers(p, k)
    BY <1>7 DEF die
  <2> QED BY <1>3, <2>1 DEF Scores, One
<1> QED BY <1>6, <1>7 DEF m

LEMMA DieSInv ==
  ASSUME IInv, SInv, NEW p \in Player, NEW k \in Player \cup {None}, die(p, k)
  PROVE  SInv'
<1> DEFINE m == [node |-> WormNode(p), kind |-> "die", data |-> k]
<1>1. /\ UNCHANGED <<present, stats, inits, announced>> /\ unseen \subseteq unseen' /\ apart \subseteq apart'
      /\ UNCHANGED <<qWorm, qPlayer, cPlayers, cKills, cDeaths, missed>>
      /\ IF WormNode(p) \in announced THEN wire' = Append(wire, m) ELSE wire' = wire
  BY DEF die, clientVars
<1>2. ServerTypes
  BY DEF IInv, Types
<1>3. /\ DeathsFiled' /\ \A q \in Player, c \in Scores : IsFiniteSet(Waiting(qWorm, q, c))'
      /\ \A q \in Player, c \in Scores : Heard(q, c)' = Heard(q, c)
  BY <1>1, HeardSame
<1>4. m \in Messages /\ m.kind = "die"
  BY MessageTypes
<1>5. ASSUME NEW q \in Player, Due(q)'
      PROVE  /\ \A c \in Scores : ScoreOf(q, c)' = ScoreOf(q, c) + One(m, q, c)
             /\ WormNode(p) \notin announced => \A c \in Scores : One(m, q, c) = 0
  <2>1. q \in present /\ q \notin apart' /\ q \notin unseen'
    BY <1>1, <1>5 DEF Due
  <2> QED BY <1>2, <2>1, DieCounts
<1> HIDE DEF m
<1>6. ASSUME NEW q \in Player PROVE Scored(q)'
  <2>1. StillDue(q)
    BY <1>1, <1>3 DEF StillDue, Due, Known
  <2>2. CASE WormNode(p) \in announced
    <3>1. ~IsSync(m, q)
      BY <1>4 DEF IsSync
    <3>2. wire' = Append(wire, m) /\ qPlayer'[q] = qPlayer[q]
      BY <1>1, <2>2
    <3> QED BY <1>4, <1>5, <2>1, <3>1, <3>2, ScoredAppend
  <2>3. CASE WormNode(p) \notin announced
    <3>1. Due(q)' => StillCounted(q)
      <4> SUFFICES ASSUME Due(q)', NEW c \in Scores PROVE ScoreOf(q, c)' = ScoreOf(q, c)
        BY DEF StillCounted
      <4>1. ScoreOf(q, c) \in Nat
        BY ScoreTypes
      <4>2. ScoreOf(q, c)' = ScoreOf(q, c) + One(m, q, c) /\ One(m, q, c) = 0
        BY <1>5, <2>3
      <4> QED BY <4>1, <4>2
    <3>2. Scored(q)
      BY DEF SInv
    <3>3. CASE ~Due(q)'
      BY <3>3 DEF Scored
    <3>4. CASE Due(q)'
      BY <1>1, <2>1, <2>3, <3>1, <3>2, <3>4, ScoredStays
    <3> QED BY <3>3, <3>4
  <2> QED BY <2>2, <2>3
<1> QED BY <1>3, <1>6 DEF SInv

LEMMA DeleteThisSInv == ASSUME IInv, SInv, NEW p \in Player, deleteThis(p) PROVE SInv'
<1>1. /\ UNCHANGED <<stats, kills, deaths>> /\ Tell(p, "removed", None)
      /\ present' = present \ {p} /\ inits' = inits \ {p}
      /\ announced' = announced \ {PlayerNode(p), WormNode(p)}
      /\ missed' = missed \ {p} /\ unseen' = unseen \ {p} /\ apart' = apart \ {p}
      /\ UNCHANGED <<qWorm, qPlayer, cPlayers, cKills, cDeaths>>
  BY DEF deleteThis, clientVars
<1>2. /\ DeathsFiled' /\ \A q \in Player, c \in Scores : IsFiniteSet(Waiting(qWorm, q, c))'
      /\ \A q \in Player, c \in Scores : Heard(q, c)' = Heard(q, c)
  BY <1>1, HeardSame
<1>3. ASSUME NEW q \in Player PROVE Scored(q)'
  <2>1. CASE q = p
    BY <1>1, <2>1 DEF Scored, Due
  <2>2. CASE q # p
    <3>1. StillDue(q) /\ StillCounted(q)
      BY <1>1, <1>2, <2>2 DEF StillDue, StillCounted, ScoreOf, Due, Known
    <3> QED BY <1>1, <2>2, <3>1, MessageTypes, ToldScored
  <2> QED BY <2>1, <2>2
<1> QED BY <1>2, <1>3 DEF SInv

LEMMA SendSyncMessageSInv == ASSUME IInv, SInv, NEW p \in Player, sendSyncMessage(p) PROVE SInv'
<1> DEFINE score == [name |-> name[p], kills |-> kills[stats[p]], deaths |-> deaths[stats[p]]]
           m == [node |-> PlayerNode(p), kind |-> "sync", data |-> score]
<1>1. /\ UNCHANGED <<present, stats, kills, deaths, announced, missed, apart>>
      /\ Tell(p, "sync", score) /\ p \in inits
      /\ inits' = inits \ {p} /\ unseen' = unseen \ {p}
      /\ UNCHANGED <<qWorm, qPlayer, cPlayers, cKills, cDeaths>>
  BY DEF sendSyncMessage, clientVars
<1>2. /\ ServerTypes /\ NetTypes /\ Mirrors(p)
  BY DEF IInv, Types
<1>3. /\ DeathsFiled' /\ \A q \in Player, c \in Scores : IsFiniteSet(Waiting(qWorm, q, c))'
      /\ \A q \in Player, c \in Scores : Heard(q, c)' = Heard(q, c)
  BY <1>1, HeardSame
<1>4. m \in Messages
  <2>1. name[p] \in Names /\ kills[stats[p]] \in Nat /\ deaths[stats[p]] \in Nat
    BY <1>2 DEF ServerTypes
  <2> QED BY <2>1, MessageTypes
<1>5. wire' = Append(wire, m) /\ IsSync(m, p)
  BY <1>1, <1>2 DEF Mirrors, Named, Known, Tell, IsSync
<1>6. \A c \in Scores : ScoreOf(p, c)' = ScoreIn(m, c)
  BY <1>1 DEF ScoreOf, ScoreIn, Scores
<1> HIDE DEF m, score
<1>7. ASSUME NEW q \in Player PROVE Scored(q)'
  <2>1. CASE q = p
    <3>1. \A c \in Scores : Leads(wire', qPlayer'[p], missed', Heard(p, c)', p, c, ScoreOf(p, c)')
      <4> TAKE c \in Scores
      <4>1. wire \in Seq(Messages)
        BY <1>2 DEF NetTypes
      <4>2. \A e, k : Leads(Append(wire, m), e, missed', k, p, c, ScoreIn(m, c))
        BY <1>4, <1>5, <4>1, LeadsNewSync
      <4> QED BY <1>5, <1>6, <4>2
    <3>2. ~NoSync(wire', p)
      BY <1>2, <1>4, <1>5, SyncAppend DEF NetTypes
    <3> QED BY <2>1, <3>1, <3>2 DEF Scored
  <2>2. CASE q # p
    <3>1. StillDue(q)
      BY <1>1, <1>3, <2>2 DEF StillDue, Due, Known
    <3>2. ~IsSync(m, q)
      BY <1>5, <2>2, Nodes DEF IsSync
    <3>3. \A c \in Scores : ScoreOf(q, c)' = ScoreOf(q, c) + One(m, q, c)
      <4> TAKE c \in Scores
      <4>1. One(m, q, c) = 0
        BY <1>5, NotBoth DEF IsSync
      <4>2. ScoreOf(q, c)' = ScoreOf(q, c) /\ ScoreOf(q, c) \in Nat
        BY <1>1, ScoreTypes DEF ScoreOf
      <4> QED BY <4>1, <4>2
    <3> QED BY <1>1, <1>4, <1>5, <3>1, <3>2, <3>3, ScoredAppend
  <2> QED BY <2>1, <2>2
<1> QED BY <1>3, <1>7 DEF SInv

\* Two messages that come together come one behind the other.
LEMMA TwoMore ==
  ASSUME NEW S, NEW s \in Seq(S), NEW a \in S, NEW b \in S
  PROVE  /\ s \o <<a, b>> = Append(Append(s, a), b) /\ Append(s, a) \in Seq(S)
<1> DEFINE t == Append(s, a)
           u == Append(t, b)
           v == s \o <<a, b>>
<1>1. /\ t \in Seq(S) /\ Len(s) \in Nat /\ Len(t) = Len(s) + 1 /\ t[Len(s) + 1] = a
      /\ \A i \in 1..Len(s) : t[i] = s[i]
  BY AppendProperties
<1>2. /\ u \in Seq(S) /\ Len(u) = Len(t) + 1 /\ u[Len(t) + 1] = b
      /\ \A i \in 1..Len(t) : u[i] = t[i]
  <2> HIDE DEF t
  <2> QED BY <1>1, AppendProperties
<1>3. <<a, b>> \in Seq(S) /\ Len(<<a, b>>) = 2 /\ <<a, b>>[1] = a /\ <<a, b>>[2] = b
  OBVIOUS
<1>4. /\ v \in Seq(S) /\ Len(v) = Len(s) + 2
      /\ \A i \in 1..Len(v) : v[i] = IF i <= Len(s) THEN s[i] ELSE <<a, b>>[i - Len(s)]
  BY <1>1, <1>3, ConcatProperties
<1> HIDE DEF t, u, v
<1>5. Len(u) = Len(v)
  BY <1>1, <1>2, <1>4
<1>6. ASSUME NEW i \in 1..Len(u) PROVE u[i] = v[i]
  <2>1. CASE i \in 1..Len(s)
    <3>1. i \in 1..Len(t) /\ i <= Len(s) /\ i \in 1..Len(v)
      BY <1>1, <1>5, <2>1
    <3> QED BY <1>1, <1>2, <1>4, <2>1, <3>1
  <2>2. CASE i = Len(s) + 1
    <3>1. i \in 1..Len(t) /\ ~(i <= Len(s)) /\ i - Len(s) = 1 /\ i \in 1..Len(v)
      BY <1>1, <1>5, <2>2
    <3>2. u[i] = a
      BY <1>1, <1>2, <2>2, <3>1
    <3>3. v[i] = <<a, b>>[1]
      BY <1>4, <3>1
    <3> QED BY <3>2, <3>3
  <2>3. CASE i = Len(s) + 2
    <3>1. i = Len(t) + 1 /\ ~(i <= Len(s)) /\ i - Len(s) = 2 /\ i \in 1..Len(v)
      BY <1>1, <1>5, <2>3
    <3>2. u[i] = b
      BY <1>2, <3>1
    <3>3. v[i] = <<a, b>>[2]
      BY <1>4, <3>1
    <3> QED BY <3>2, <3>3
  <2>4. i \in 1..Len(s) \/ i = Len(s) + 1 \/ i = Len(s) + 2
    BY <1>1, <1>2
  <2> QED BY <2>1, <2>2, <2>3, <2>4
<1>7. u = v
  BY <1>2, <1>4, <1>5, <1>6, SeqEqual
<1> QED BY <1>1, <1>7 DEF t, u, v

LEMMA AnnounceSInv == ASSUME IInv, SInv, NEW p \in Player, Announce(p) PROVE SInv'
<1> DEFINE a == [node |-> WormNode(p), kind |-> "create", data |-> None]
           b == [node |-> PlayerNode(p), kind |-> "create", data |-> None]
<1>1. /\ UNCHANGED <<present, stats, kills, deaths, missed, unseen, apart>>
      /\ announced' = announced \cup {WormNode(p), PlayerNode(p)}
      /\ wire' = wire \o <<a, b>> /\ inits' = inits \cup {p}
      /\ UNCHANGED <<qWorm, qPlayer, cPlayers, cKills, cDeaths>>
  BY DEF Announce, clientVars, driftVars
<1>2. wire \in Seq(Messages)
  BY DEF IInv, Types, NetTypes
<1>3. /\ DeathsFiled' /\ \A q \in Player, c \in Scores : IsFiniteSet(Waiting(qWorm, q, c))'
      /\ \A q \in Player, c \in Scores : Heard(q, c)' = Heard(q, c)
  BY <1>1, HeardSame
<1>4. a \in Messages /\ a.kind = "create" /\ b \in Messages /\ b.kind = "create"
  BY MessageTypes
<1> HIDE DEF a, b
<1>5. PICK t \in Seq(Messages) : t = Append(wire, a) /\ wire' = Append(t, b)
  <2>1. wire \o <<a, b>> = Append(Append(wire, a), b) /\ Append(wire, a) \in Seq(Messages)
    BY <1>2, <1>4, TwoMore
  <2> QED BY <1>1, <2>1, Zenon
<1>6. ASSUME NEW q \in Player PROVE Scored(q)'
  <2>1. CASE q = p
    BY <1>1, <2>1 DEF Scored, Due
  <2>2. CASE q # p
    <3>1. Due(q)' => Due(q)
      BY <1>1, <2>2, Nodes DEF Due, Known
    <3> SUFFICES ASSUME Due(q)
                 PROVE  /\ NoSync(wire', q) => q \in cPlayers'
                        /\ \A c \in Scores :
                             Leads(wire', qPlayer'[q], missed', Heard(q, c)', q, c, ScoreOf(q, c)')
      BY <3>1 DEF Scored
    <3>2. ~IsSync(a, q) /\ ~IsSync(b, q) /\ \A c \in Scores : One(a, q, c) = 0 /\ One(b, q, c) = 0
      BY <1>4, NotBoth DEF IsSync
    <3>3. /\ NoSync(wire, q) => q \in cPlayers
          /\ \A c \in Scores : Leads(wire, qPlayer[q], missed, Heard(q, c), q, c, ScoreOf(q, c))
      BY DEF SInv, Scored
    <3>4. NoSync(wire', q) => NoSync(wire, q)
      BY <1>2, <1>4, <1>5, <3>2, ScoreAppend
    <3>5. ASSUME NEW c \in Scores
          PROVE  Leads(wire', qPlayer'[q], missed', Heard(q, c)', q, c, ScoreOf(q, c)')
      <4>1. PICK n \in Nat, k \in Nat : n = ScoreOf(q, c) /\ k = Heard(q, c)
        BY ScoreTypes
      <4>2. Leads(wire, qPlayer[q], missed, k, q, c, n)
        BY <3>3, <4>1
      <4>3. Leads(t, qPlayer[q], missed, k, q, c, n + One(a, q, c))
        BY <1>2, <1>4, <1>5, <3>2, <4>2, LeadsAppend
      <4>4. n + One(a, q, c) = n /\ n + One(b, q, c) = n
        BY <3>2
      <4>5. Leads(t, qPlayer[q], missed, k, q, c, n)
        BY <4>3, <4>4
      <4>6. Leads(wire', qPlayer[q], missed, k, q, c, n + One(b, q, c))
        BY <1>4, <1>5, <3>2, <4>5, LeadsAppend
      <4>7. Leads(wire', qPlayer[q], missed, k, q, c, n)
        BY <4>4, <4>6
      <4>8. ScoreOf(q, c)' = n /\ Heard(q, c)' = k
        BY <1>1, <1>3, <4>1 DEF ScoreOf
      <4> QED BY <1>1, <4>7, <4>8
    <3> QED BY <1>1, <3>3, <3>4, <3>5
  <2> QED BY <2>1, <2>2
<1> QED BY <1>3, <1>6 DEF SInv


\* A node that is made.
LEMMA ReceiveCreateSInv ==
  ASSUME IInv, SInv, Receive, ReceiveCreate(Head(wire))
  PROVE  SInv'
<1>1. /\ UNCHANGED <<present, announced, inits, unseen, apart, missed, stats, kills, deaths>>
      /\ UNCHANGED <<qWorm, qPlayer, cKills, cDeaths>>
      /\ wire # << >> /\ wire' = Tail(wire) /\ cPlayers \subseteq cPlayers'
  BY DEF Receive, ReceiveCreate, serverVars
<1>2. PICK h : h = Head(wire) /\ h.kind = "create"
  BY DEF ReceiveCreate
<1>3. wire \in Seq(Messages)
  BY DEF IInv, Types, NetTypes
<1>4. /\ DeathsFiled' /\ \A q \in Player, c \in Scores : IsFiniteSet(Waiting(qWorm, q, c))'
      /\ \A q \in Player, c \in Scores : Heard(q, c)' = Heard(q, c)
  BY <1>1, HeardSame
<1>5. ASSUME NEW q \in Player PROVE Scored(q)'
  <2>1. Due(q)' => Due(q)
    BY <1>1 DEF Due, Known
  <2> SUFFICES ASSUME Due(q)
               PROVE  /\ NoSync(wire', q) => q \in cPlayers'
                      /\ \A c \in Scores :
                           Leads(wire', qPlayer'[q], missed', Heard(q, c)', q, c, ScoreOf(q, c)')
    BY <2>1 DEF Scored
  <2>2. /\ NoSync(wire, q) => q \in cPlayers
        /\ \A c \in Scores : Leads(wire, qPlayer[q], missed, Heard(q, c), q, c, ScoreOf(q, c))
    BY DEF SInv, Scored
  <2>3. ~IsSync(h, q) /\ \A c \in Scores : One(h, q, c) = 0
    BY <1>2, NotBoth DEF IsSync
  <2>4. NoSync(wire', q) => NoSync(wire, q)
    BY <1>1, <1>2, <1>3, <2>3, ScoreTail
  <2>5. ASSUME NEW c \in Scores
        PROVE  Leads(wire', qPlayer'[q], missed', Heard(q, c)', q, c, ScoreOf(q, c)')
    <3>1. PICK n \in Nat, k \in Nat : n = ScoreOf(q, c) /\ k = Heard(q, c)
      BY ScoreTypes
    <3>2. Leads(wire, qPlayer[q], missed, k, q, c, n)
      BY <2>2, <3>1
    <3>3. Leads(wire', qPlayer[q], missed, k + One(h, q, c), q, c, n)
      BY <1>1, <1>2, <1>3, <2>3, <3>2, LeadsTaken
    <3>4. k + One(h, q, c) = k
      BY <2>3
    <3>5. Leads(wire', qPlayer[q], missed, k, q, c, n)
      BY <3>3, <3>4
    <3>6. ScoreOf(q, c)' = n /\ Heard(q, c)' = k
      BY <1>1, <1>4, <3>1 DEF ScoreOf
    <3> QED BY <1>1, <3>5, <3>6
  <2> QED BY <1>1, <2>2, <2>4, <2>5
<1> QED BY <1>4, <1>5 DEF SInv

\* An event of a player's node.
LEMMA ReceiveEventSInv ==
  ASSUME IInv, SInv, Receive, ReceiveEvent(Head(wire)), NEW x \in Player,
         Head(wire).node = PlayerNode(x), Head(wire) \in PlayerMessages
  PROVE  SInv'
<1>1. PICK h : h = Head(wire) /\ h.kind # "create" /\ h.node = PlayerNode(x) /\ h \in PlayerMessages
  BY DEF ReceiveEvent
<1>2. /\ UNCHANGED <<present, announced, inits, unseen, apart, missed, stats, kills, deaths>>
      /\ UNCHANGED <<qWorm, cPlayers, cKills, cDeaths>>
      /\ wire # << >> /\ wire' = Tail(wire)
      /\ qPlayer' = [qPlayer EXCEPT ![x] = Append(@, h)]
  BY <1>1, Nodes DEF Receive, ReceiveEvent, serverVars
<1>3. wire \in Seq(Messages) /\ qPlayer \in [Player -> Seq(PlayerMessages)]
  BY DEF IInv, Types, NetTypes, ClientTypes
<1>4. /\ DeathsFiled' /\ \A q \in Player, c \in Scores : IsFiniteSet(Waiting(qWorm, q, c))'
      /\ \A q \in Player, c \in Scores : Heard(q, c)' = Heard(q, c)
  BY <1>2, HeardSame
<1>5. \A q, c : One(h, q, c) = 0
  <2>1. h.kind # "die"
    BY <1>1 DEF PlayerMessages
  <2> QED BY <2>1, NotBoth
<1>6. PlayerMessages \subseteq Messages /\ h \in Messages
  BY <1>1 DEF Messages
<1>7. x \in cPlayers
  <2>1. CreateFirst(x) /\ 1 \in 1..Len(wire) /\ Head(wire) = wire[1]
    BY <1>2, <1>3, EmptySeq DEF IInv, Mirrors
  <2>2. Of(x, 1) /\ ~Creates(x, 1)
    BY <1>1, <2>1 DEF Of, Creates
  <2> QED BY <2>1, <2>2 DEF CreateFirst
<1>8. ASSUME NEW q \in Player PROVE Scored(q)'
  <2>1. Due(q)' => Due(q)
    BY <1>2 DEF Due, Known
  <2> SUFFICES ASSUME Due(q)
               PROVE  /\ NoSync(wire', q) => q \in cPlayers'
                      /\ \A c \in Scores :
                           Leads(wire', qPlayer'[q], missed', Heard(q, c)', q, c, ScoreOf(q, c)')
    BY <2>1 DEF Scored
  <2>2. /\ NoSync(wire, q) => q \in cPlayers
        /\ \A c \in Scores : Leads(wire, qPlayer[q], missed, Heard(q, c), q, c, ScoreOf(q, c))
    BY DEF SInv, Scored
  <2>3. q # x => ~IsSync(h, q)
    BY <1>1, Nodes DEF IsSync
  <2>4. NoSync(wire', q) => q \in cPlayers'
    <3>1. CASE q = x
      BY <1>2, <1>7, <3>1
    <3>2. CASE q # x
      <4>1. NoSync(wire', q) => NoSync(wire, q)
        BY <1>1, <1>2, <1>3, <2>3, <3>2, ScoreTail
      <4> QED BY <1>2, <2>2, <4>1
    <3> QED BY <3>1, <3>2
  <2>5. ASSUME NEW c \in Scores
        PROVE  Leads(wire', qPlayer'[q], missed', Heard(q, c)', q, c, ScoreOf(q, c)')
    <3>1. PICK n \in Nat, k \in Nat : n = ScoreOf(q, c) /\ k = Heard(q, c)
      BY ScoreTypes
    <3>2. Leads(wire, qPlayer[q], missed, k, q, c, n)
      BY <2>2, <3>1
    <3>3. Leads(wire', qPlayer'[q], missed, k, q, c, n)
      <4>1. CASE q = x
        <5>1. qPlayer'[q] = Append(qPlayer[q], h) /\ qPlayer[q] \in Seq(PlayerMessages)
          BY <1>2, <1>3, <4>1
        <5>2. Leads(Tail(wire), Append(qPlayer[q], h), missed, k, q, c, n)
          BY <1>1, <1>2, <1>3, <1>5, <1>6, <3>2, <5>1, LeadsFiled
        <5> QED BY <1>2, <5>1, <5>2
      <4>2. CASE q # x
        <5>1. qPlayer'[q] = qPlayer[q]
          BY <1>2, <4>2
        <5>2. Leads(wire', qPlayer[q], missed, k + One(h, q, c), q, c, n)
          BY <1>1, <1>2, <1>3, <1>5, <2>3, <3>2, <4>2, LeadsTaken
        <5>3. k + One(h, q, c) = k
          BY <1>5
        <5>4. Leads(wire', qPlayer[q], missed, k, q, c, n)
          BY <5>2, <5>3
        <5> QED BY <5>1, <5>4
      <4> QED BY <4>1, <4>2
    <3>4. ScoreOf(q, c)' = n /\ Heard(q, c)' = k
      BY <1>2, <1>4, <3>1 DEF ScoreOf
    <3> QED BY <1>2, <3>3, <3>4
  <2> QED BY <2>4, <2>5
<1> QED BY <1>4, <1>8 DEF SInv

\* A death: it is apart if a SYNC of one it counts for waits.
LEMMA ReceiveDeathSInv ==
  ASSUME IInv, SInv, Receive, ReceiveEvent(Head(wire)), NEW x \in Player,
         Head(wire).node = WormNode(x), Head(wire) \in WormMessages
  PROVE  SInv'
<1>1. PICK h : h = Head(wire) /\ h.kind # "create" /\ h.node = WormNode(x) /\ h \in WormMessages
  BY DEF ReceiveEvent
<1>2. /\ UNCHANGED <<present, announced, inits, unseen, missed, stats, kills, deaths>>
      /\ UNCHANGED <<qPlayer, cPlayers, cKills, cDeaths>>
      /\ wire # << >> /\ wire' = Tail(wire)
      /\ qWorm' = [qWorm EXCEPT ![x] = Append(@, h)]
      /\ apart' = apart \cup {y \in present \cap ({x} \cup Killers(x, h.data)) : Waits(y, "sync")}
  BY <1>1, Nodes DEF Receive, ReceiveEvent, serverVars
<1>3. /\ wire \in Seq(Messages) /\ qPlayer \in [Player -> Seq(PlayerMessages)]
      /\ qWorm \in [Player -> Seq(WormMessages)]
  BY DEF IInv, Types, NetTypes, ClientTypes
<1>4. h \in Messages /\ h.kind = "die"
  BY <1>1 DEF Messages, WormMessages
<1>5. DeathsFiled'
  <2> SUFFICES ASSUME NEW y \in Player, NEW i \in 1..Len(qWorm'[y])
               PROVE  qWorm'[y][i].node = WormNode(y) /\ qWorm'[y][i].kind = "die"
    BY DEF DeathsFiled
  <2>1. \A j \in 1..Len(qWorm[y]) : qWorm[y][j].node = WormNode(y) /\ qWorm[y][j].kind = "die"
    BY DEF SInv, DeathsFiled
  <2>2. CASE y # x
    BY <1>2, <2>1, <2>2
  <2>3. CASE y = x
    <3>1. PICK s \in Seq(WormMessages) : s = qWorm[y]
      BY <1>3
    <3>2. qWorm'[y] = Append(s, h)
      BY <1>2, <1>3, <2>3, <3>1
    <3>3. /\ Len(s) \in Nat /\ Len(Append(s, h)) = Len(s) + 1 /\ Append(s, h)[Len(s) + 1] = h
          /\ \A j \in 1..Len(s) : Append(s, h)[j] = s[j]
      BY <1>1, AppendProperties
    <3>4. i \in 1..Len(s) \/ i = Len(s) + 1
      BY <3>2, <3>3
    <3> QED BY <1>1, <1>4, <2>1, <2>3, <3>1, <3>2, <3>3, <3>4
  <2> QED BY <2>2, <2>3
<1>6. ASSUME NEW q \in Player, NEW c \in Scores
      PROVE  IsFiniteSet(Waiting(qWorm', q, c)) /\ Heard(q, c)' = Heard(q, c) + One(h, q, c)
  <2>1. /\ ShownScore(q, c) \in Nat /\ IsFiniteSet(Waiting(qWorm, q, c))
        /\ Cardinality(Waiting(qWorm, q, c)) \in Nat /\ One(h, q, c) \in Nat
    BY ScoreTypes, NotBoth
  <2>2. /\ IsFiniteSet(Waiting(qWorm', q, c))
        /\ Cardinality(Waiting(qWorm', q, c)) = Cardinality(Waiting(qWorm, q, c)) + One(h, q, c)
    <3>1. Added(qWorm, qWorm', x, h)
      BY <1>1, <1>2, <1>3 DEF Added
    <3> QED BY <2>1, <3>1, WaitingAppend
  <2>3. ShownScore(q, c)' = ShownScore(q, c)
    BY <1>2 DEF ShownScore
  <2> QED BY <2>1, <2>2, <2>3 DEF Heard
<1>7. ASSUME NEW q \in Player, Due(q)', NEW c \in Scores
      PROVE  One(h, q, c) = 0 \/ NoSync(qPlayer[q], q)
  <2>1. q \in present /\ q \notin apart' /\ q # None
    BY <1>2, <1>7, SessionAssumption DEF Due
  <2>2. ~Waits(q, "sync") => NoSync(qPlayer[q], q)
    <3>1. DOMAIN qPlayer[q] = 1..Len(qPlayer[q])
      BY <1>3
    <3> QED BY <3>1 DEF Waits, NoSync, IsSync
  <2>3. One(h, q, c) # 0 => q \in {x} \cup Killers(x, h.data)
    <3>1. h.node = WormNode(q) <=> q = x
      BY <1>1, Nodes
    <3> QED BY <2>1, <3>1 DEF One, Counts, Killers
  <2> QED BY <1>2, <2>1, <2>2, <2>3
<1>8. ASSUME NEW q \in Player PROVE Scored(q)'
  <2> SUFFICES ASSUME Due(q)'
               PROVE  /\ NoSync(wire', q) => q \in cPlayers'
                      /\ \A c \in Scores :
                           Leads(wire', qPlayer'[q], missed', Heard(q, c)', q, c, ScoreOf(q, c)')
    BY DEF Scored
  <2>1. Due(q)
    BY <1>2 DEF Due, Known
  <2>2. /\ NoSync(wire, q) => q \in cPlayers
        /\ \A c \in Scores : Leads(wire, qPlayer[q], missed, Heard(q, c), q, c, ScoreOf(q, c))
    BY <2>1 DEF SInv, Scored
  <2>3. ~IsSync(h, q)
    BY <1>4 DEF IsSync
  <2>4. NoSync(wire', q) => NoSync(wire, q)
    BY <1>1, <1>2, <1>3, <2>3, ScoreTail
  <2>5. ASSUME NEW c \in Scores
        PROVE  Leads(wire', qPlayer'[q], missed', Heard(q, c)', q, c, ScoreOf(q, c)')
    <3>1. PICK n \in Nat, k \in Nat : n = ScoreOf(q, c) /\ k = Heard(q, c)
      BY ScoreTypes
    <3>2. Leads(wire, qPlayer[q], missed, k, q, c, n)
      BY <2>2, <3>1
    <3>3. One(h, q, c) = 0 \/ NoSync(qPlayer[q], q)
      BY <1>7
    <3>4. Leads(wire', qPlayer[q], missed, k + One(h, q, c), q, c, n)
      BY <1>1, <1>2, <1>3, <2>3, <3>2, <3>3, LeadsTaken
    <3>5. ScoreOf(q, c)' = n /\ Heard(q, c)' = k + One(h, q, c)
      BY <1>2, <1>6, <3>1 DEF ScoreOf
    <3> QED BY <1>2, <3>4, <3>5
  <2> QED BY <1>2, <2>2, <2>4, <2>5
<1>9. \A q \in Player, c \in Scores : IsFiniteSet(Waiting(qWorm, q, c))'
  BY <1>6
<1> QED BY <1>5, <1>8, <1>9 DEF SInv

LEMMA ReceiveSInv == ASSUME IInv, SInv, Receive PROVE SInv'
<1>1. CASE ReceiveCreate(Head(wire))
  BY <1>1, ReceiveCreateSInv
<1>2. CASE ReceiveEvent(Head(wire))
  <2>1. ServerTypes /\ NetTypes /\ wire # << >>
    BY DEF IInv, Types, Receive
  <2>2. PICK x \in Player : \/ Head(wire).node = WormNode(x) /\ Head(wire) \in WormMessages
                            \/ Head(wire).node = PlayerNode(x) /\ Head(wire) \in PlayerMessages
    BY <2>1, MessageOf
  <2> QED BY <1>2, <2>2, ReceiveEventSInv, ReceiveDeathSInv
<1> QED BY <1>1, <1>2 DEF Receive

LEMMA WormDiesSInv == ASSUME IInv, SInv, NEW x \in Player, WormDies(x) PROVE SInv'
<1>1. /\ UNCHANGED <<present, announced, inits, unseen, apart, stats, kills, deaths>>
      /\ UNCHANGED <<wire, qPlayer, cPlayers, linked>>
      /\ qWorm[x] # << >> /\ qWorm' = [qWorm EXCEPT ![x] = Tail(@)]
  BY DEF WormDies, serverVars, netVars
<1>2. PICK h : h = Head(qWorm[x])
  OBVIOUS
<1> DEFINE owner == {x} \cap linked
           killer == {h.data} \cap cPlayers
<1>3. /\ cDeaths' = Add(cDeaths, owner) /\ cKills' = Add(cKills, killer \ owner)
      /\ missed' = IF owner = {} THEN missed \cup ({x} \cap present) ELSE missed
  BY <1>2 DEF WormDies
<1>4. /\ qWorm \in [Player -> Seq(WormMessages)] /\ linked \subseteq cPlayers
      /\ cKills \in [Player -> Nat] /\ cDeaths \in [Player -> Nat]
  BY DEF IInv, Types, ClientTypes
<1>5. PICK s \in Seq(WormMessages) : s = qWorm[x]
  BY <1>4
<1>6. /\ Len(s) \in Nat /\ Len(s) # 0 /\ Len(Tail(s)) = Len(s) - 1 /\ Head(s) = s[1]
      /\ \A i \in 1..Len(Tail(s)) : Tail(s)[i] = s[i + 1]
  BY <1>1, <1>5, EmptySeq, HeadTailProperties
<1>7. \A y \in Player : \A i \in 1..Len(qWorm[y]) :
        qWorm[y][i].node = WormNode(y) /\ qWorm[y][i].kind = "die"
  BY DEF SInv, DeathsFiled
<1>8. h.node = WormNode(x) /\ h.kind = "die"
  <2>1. 1 \in 1..Len(s)
    BY <1>6
  <2> QED BY <1>2, <1>5, <1>6, <1>7, <2>1
<1>9. DeathsFiled'
  <2> SUFFICES ASSUME NEW y \in Player, NEW i \in 1..Len(qWorm'[y])
               PROVE  qWorm'[y][i].node = WormNode(y) /\ qWorm'[y][i].kind = "die"
    BY DEF DeathsFiled
  <2>1. CASE y # x
    BY <1>1, <1>7, <2>1
  <2>2. CASE y = x
    <3>1. qWorm'[y] = Tail(s)
      BY <1>1, <1>4, <1>5, <2>2
    <3>2. i + 1 \in 1..Len(s) /\ Tail(s)[i] = s[i + 1]
      BY <1>6, <3>1
    <3> QED BY <1>5, <1>7, <2>2, <3>1, <3>2
  <2> QED BY <2>1, <2>2
<1>10. ASSUME NEW q \in Player, NEW c \in Scores
       PROVE  /\ IsFiniteSet(Waiting(qWorm', q, c)) /\ Cardinality(Waiting(qWorm', q, c)) \in Nat
              /\ Cardinality(Waiting(qWorm, q, c)) =
                   Cardinality(Waiting(qWorm', q, c)) + One(h, q, c)
  <2>1. IsFiniteSet(Waiting(qWorm, q, c))
    BY ScoreTypes
  <2>2. Taken(qWorm, qWorm', x)
    BY <1>1, <1>4 DEF Taken
  <2>3. /\ IsFiniteSet(Waiting(qWorm', q, c))
        /\ Cardinality(Waiting(qWorm, q, c)) =
             Cardinality(Waiting(qWorm', q, c)) + One(Head(qWorm[x]), q, c)
    BY <2>1, <2>2, WaitingTail
  <2>4. Cardinality(Waiting(qWorm', q, c)) \in Nat
    BY <2>3, FS_CardinalityType
  <2> QED BY <1>2, <2>3, <2>4
<1> HIDE DEF owner, killer
\* A death that waited is counted, unless the player is not there or its worm is not its own.
<1>11. ASSUME NEW q \in Player, Due(q), NEW c \in Scores, q \in cPlayers, q \notin missed'
       PROVE  ShownScore(q, c)' = ShownScore(q, c) + One(h, q, c)
  <2>1. q \in present /\ q # None
    BY <1>11, SessionAssumption DEF Due
  <2>2. q = x => owner = {x}
    BY <1>3, <1>11, <2>1 DEF owner
  <2>3. h.node = WormNode(q) <=> q = x
    BY <1>8, Nodes
  <2>4. CASE c = "deaths"
    <3>1. q \in owner <=> q = x
      BY <2>2 DEF owner
    <3>2. One(h, q, c) = IF q = x THEN 1 ELSE 0
      BY <1>8, <2>3, <2>4 DEF One, Counts
    <3>3. cDeaths'[q] = IF q \in owner THEN cDeaths[q] + 1 ELSE cDeaths[q]
      BY <1>3 DEF Add
    <3>4. cDeaths[q] \in Nat
      BY <1>4
    <3> QED BY <2>4, <3>1, <3>2, <3>3, <3>4 DEF ShownScore
  <2>5. CASE c = "kills"
    <3>1. q \in killer \ owner <=> h.data = q /\ q # x
      BY <1>11, <2>2 DEF killer, owner
    <3>2. One(h, q, c) = IF h.data = q /\ q # x THEN 1 ELSE 0
      BY <1>8, <2>3, <2>5 DEF One, Counts
    <3>3. cKills'[q] = IF q \in killer \ owner THEN cKills[q] + 1 ELSE cKills[q]
      BY <1>3 DEF Add
    <3>4. cKills[q] \in Nat
      BY <1>4
    <3> QED BY <2>5, <3>1, <3>2, <3>3, <3>4 DEF ShownScore
  <2> QED BY <2>4, <2>5 DEF Scores
<1>12. ASSUME NEW q \in Player PROVE Scored(q)'
  <2>1. Due(q)' => Due(q)
    BY <1>1 DEF Due, Known
  <2> SUFFICES ASSUME Due(q)
               PROVE  /\ NoSync(wire', q) => q \in cPlayers'
                      /\ \A c \in Scores :
                           Leads(wire', qPlayer'[q], missed', Heard(q, c)', q, c, ScoreOf(q, c)')
    BY <2>1 DEF Scored
  <2>2. /\ NoSync(wire, q) => q \in cPlayers
        /\ \A c \in Scores : Leads(wire, qPlayer[q], missed, Heard(q, c), q, c, ScoreOf(q, c))
    BY DEF SInv, Scored
  <2>3. ASSUME NEW c \in Scores
        PROVE  Leads(wire', qPlayer'[q], missed', Heard(q, c)', q, c, ScoreOf(q, c)')
    <3>1. PICK n, k, k2 : n = ScoreOf(q, c) /\ k = Heard(q, c) /\ k2 = Heard(q, c)'
      OBVIOUS
    <3>2. Leads(wire, qPlayer[q], missed, k, q, c, n)
      BY <2>2, <3>1
    <3>3. q \in missed => q \in missed'
      BY <1>3
    <3>4. q \in cPlayers /\ q \notin missed' => k2 = k
      <4> SUFFICES ASSUME q \in cPlayers, q \notin missed' PROVE k2 = k
        OBVIOUS
      <4>1. ShownScore(q, c)' = ShownScore(q, c) + One(h, q, c)
        BY <1>11
      <4>2. ShownScore(q, c) \in Nat /\ One(h, q, c) \in Nat
        BY ScoreTypes, NotBoth
      <4>3. k2 = ShownScore(q, c)' + Cardinality(Waiting(qWorm', q, c))
        BY <3>1 DEF Heard
      <4>4. k = ShownScore(q, c) + Cardinality(Waiting(qWorm, q, c))
        BY <3>1 DEF Heard
      <4> QED BY <1>10, <4>1, <4>2, <4>3, <4>4
    <3>5. Leads(wire, qPlayer[q], missed', k2, q, c, n)
      BY <2>2, <3>2, <3>3, <3>4, LeadsStays
    <3>6. ScoreOf(q, c)' = n
      BY <1>1, <3>1 DEF ScoreOf
    <3> QED BY <1>1, <3>1, <3>5, <3>6
  <2> QED BY <1>1, <2>2, <2>3
<1>13. \A q \in Player, c \in Scores : IsFiniteSet(Waiting(qWorm, q, c))'
  BY <1>10
<1> QED BY <1>9, <1>12, <1>13 DEF SInv

LEMMA PlayerThinksSInv == ASSUME IInv, SInv, NEW x \in Player, PlayerThinks(x) PROVE SInv'
<1>1. PICK h : h = Head(qPlayer[x])
  OBVIOUS
<1>2. /\ UNCHANGED <<present, announced, inits, unseen, apart, stats, kills, deaths>>
      /\ UNCHANGED <<wire, qWorm, cPlayers>> /\ turn = "players"
      /\ qPlayer[x] # << >> /\ qPlayer' = [qPlayer EXCEPT ![x] = Tail(@)]
      /\ \/ /\ h.kind = "sync" /\ missed' = missed \ {x}
            /\ cKills' = [cKills EXCEPT ![x] = h.data.kills]
            /\ cDeaths' = [cDeaths EXCEPT ![x] = h.data.deaths]
         \/ /\ h.kind \in {"name", "removed"} /\ UNCHANGED <<missed, cKills, cDeaths>>
  BY <1>1 DEF PlayerThinks, SYNC, NAME_CHANGE, EventRemoved, serverVars, netVars
<1>3. /\ qPlayer \in [Player -> Seq(PlayerMessages)] /\ \A y \in Player : qWorm[y] = << >>
      /\ cKills \in [Player -> Nat] /\ cDeaths \in [Player -> Nat]
  BY <1>2 DEF IInv, Types, ClientTypes
<1>4. PICK e \in Seq(PlayerMessages) : e = qPlayer[x] /\ e # << >> /\ h = Head(e)
  BY <1>1, <1>2, <1>3
<1>5. IsSync(h, x) <=> h.kind = "sync"
  <2>1. 1 \in 1..Len(e) /\ h = e[1]
    BY <1>4, EmptySeq
  <2>2. h.node = PlayerNode(x)
    BY <1>4, <2>1 DEF IInv, Filed
  <2> QED BY <2>2 DEF IsSync
<1>6. DeathsFiled'
  BY <1>2 DEF SInv, DeathsFiled
<1>7. ASSUME NEW q \in Player, NEW c \in Scores
      PROVE  /\ IsFiniteSet(Waiting(qWorm', q, c))
             /\ Heard(q, c) = ShownScore(q, c) /\ Heard(q, c)' = ShownScore(q, c)'
  <2>1. /\ IsFiniteSet(Waiting(qWorm, q, c)) /\ Cardinality(Waiting(qWorm, q, c)) = 0
        /\ IsFiniteSet(Waiting(qWorm', q, c)) /\ Cardinality(Waiting(qWorm', q, c)) = 0
    BY <1>2, <1>3, WaitingNone
  <2>2. ShownScore(q, c) \in Nat
    BY ScoreTypes
  <2>3. ShownScore(q, c)' \in Nat
    <3>1. h.kind = "sync" => h.data.kills \in Nat /\ h.data.deaths \in Nat
      <4>1. h \in PlayerMessages
        BY <1>4
      <4> QED BY <4>1 DEF PlayerMessages
    <3>2. cKills' \in [Player -> Nat] /\ cDeaths' \in [Player -> Nat]
      BY <1>2, <1>3, <3>1
    <3> QED BY <3>2 DEF ShownScore
  <2> QED BY <2>1, <2>2, <2>3 DEF Heard
<1>8. ASSUME NEW q \in Player PROVE Scored(q)'
  <2>1. Due(q)' => Due(q)
    BY <1>2 DEF Due, Known
  <2> SUFFICES ASSUME Due(q)
               PROVE  /\ NoSync(wire', q) => q \in cPlayers'
                      /\ \A c \in Scores :
                           Leads(wire', qPlayer'[q], missed', Heard(q, c)', q, c, ScoreOf(q, c)')
    BY <2>1 DEF Scored
  <2>2. /\ NoSync(wire, q) => q \in cPlayers
        /\ \A c \in Scores : Leads(wire, qPlayer[q], missed, Heard(q, c), q, c, ScoreOf(q, c))
    BY DEF SInv, Scored
  <2>3. ASSUME NEW c \in Scores
        PROVE  Leads(wire', qPlayer'[q], missed', Heard(q, c)', q, c, ScoreOf(q, c)')
    <3>1. PICK n, k, k2 : n = ScoreOf(q, c) /\ k = Heard(q, c) /\ k2 = Heard(q, c)'
      OBVIOUS
    <3>2. Leads(wire, qPlayer[q], missed, k, q, c, n)
      BY <2>2, <3>1
    <3>3. CASE q # x
      <4>1. qPlayer'[q] = qPlayer[q] /\ (q \in missed => q \in missed')
        BY <1>2, <3>3
      <4>2. k2 = k
        <5>1. ShownScore(q, c)' = ShownScore(q, c)
          <6>1. cKills'[q] = cKills[q] /\ cDeaths'[q] = cDeaths[q]
            BY <1>2, <1>3, <3>3
          <6> QED BY <6>1 DEF ShownScore
        <5> QED BY <1>7, <3>1, <5>1
      <4> QED BY <1>2, <3>1, <3>2, <4>1, <4>2, LeadsStays DEF ScoreOf
    <3>4. CASE q = x
      <4>1. IF IsSync(h, q) THEN k2 = ScoreIn(h, c) ELSE k2 = k /\ (q \in missed => q \in missed')
        <5>1. CASE h.kind = "sync"
          <6>1. ShownScore(q, c)' = ScoreIn(h, c)
            BY <1>2, <1>3, <3>4, <5>1 DEF ShownScore, ScoreIn, Scores
          <6> QED BY <1>5, <1>7, <3>1, <3>4, <5>1, <6>1
        <5>2. CASE h.kind # "sync"
          <6>1. missed' = missed /\ ShownScore(q, c)' = ShownScore(q, c)
            BY <1>2, <5>2 DEF ShownScore
          <6> QED BY <1>5, <1>7, <3>1, <3>4, <5>2, <6>1
        <5> QED BY <5>1, <5>2
      <4>2. qPlayer'[q] = Tail(e) /\ qPlayer[q] = e
        BY <1>2, <1>3, <1>4, <3>4
      <4>3. Leads(wire, Tail(e), missed', k2, q, c, n)
        <5>1. PlayerMessages \subseteq Messages
          BY DEF Messages
        <5>2. Leads(wire, e, missed, k, q, c, n)
          BY <3>2, <4>2
        <5> QED BY <1>4, <4>1, <5>1, <5>2, LeadsHeard
      <4>4. ScoreOf(q, c)' = n
        BY <1>2, <3>1 DEF ScoreOf
      <4> QED BY <1>2, <3>1, <4>2, <4>3, <4>4
    <3> QED BY <3>3, <3>4
  <2> QED BY <1>2, <2>2, <2>3
<1>9. \A q \in Player, c \in Scores : IsFiniteSet(Waiting(qWorm, q, c))'
  BY <1>7
<1> QED BY <1>6, <1>8, <1>9 DEF SInv

LEMMA EndPlayersSInv == ASSUME IInv, SInv, EndPlayers PROVE SInv'
<1>1. /\ UNCHANGED <<present, announced, inits, unseen, apart, missed, stats, kills, deaths>>
      /\ UNCHANGED <<wire, qWorm, qPlayer>> /\ cPlayers' = cPlayers \ cMark
      /\ cKills' = [p \in Player |-> IF p \in cMark THEN 0 ELSE cKills[p]]
      /\ cDeaths' = [p \in Player |-> IF p \in cMark THEN 0 ELSE cDeaths[p]]
  BY DEF EndPlayers, serverVars, netVars, driftVars
<1>2. /\ DeathsFiled' /\ \A q \in Player, c \in Scores : IsFiniteSet(Waiting(qWorm, q, c))'
  BY <1>1 DEF SInv, DeathsFiled, Waiting
<1>3. ASSUME NEW q \in Player PROVE Scored(q)'
  <2> SUFFICES ASSUME Due(q)' PROVE Scored(q)'
    BY DEF Scored
  <2>1. Due(q)
    BY <1>1 DEF Due, Known
  <2>2. q \notin cMark
    <3>1. Mirrors(q) /\ q \in present /\ Known(q)
      BY <2>1 DEF IInv, Due
    <3> QED BY <3>1 DEF Mirrors, Shown, Leaving
  <2>3. StillDue(q)
    <3>1. \A c \in Scores : Heard(q, c)' = Heard(q, c)
      BY <1>1, <2>2 DEF Heard, ShownScore, Waiting
    <3> QED BY <1>1, <2>1, <2>2, <3>1 DEF StillDue
  <2>4. StillCounted(q)
    BY <1>1 DEF StillCounted, ScoreOf
  <2>5. Scored(q)
    BY DEF SInv
  <2> QED BY <1>1, <2>3, <2>4, <2>5, ScoredStays
<1> QED BY <1>2, <1>3 DEF SInv

LEMMA InitSInv == Init => SInv
<1> SUFFICES ASSUME Init PROVE SInv
  OBVIOUS
<1>1. \A x \in Player : qWorm[x] = << >>
  BY DEF Init
<1>2. DeathsFiled
  BY <1>1 DEF DeathsFiled
<1>3. \A p \in Player, c \in Scores : IsFiniteSet(Waiting(qWorm, p, c))
  BY <1>1, WaitingNone
<1>4. \A p \in Player : Scored(p)
  BY DEF Init, Scored, Due
<1> QED BY <1>2, <1>3, <1>4 DEF SInv

LEMMA ProgressSInv == ASSUME IInv, SInv, Progress PROVE SInv'
<1>1. CASE Request
  <2>1. PICK rep : join(Me, Head(up).name, rep)
    BY <1>1 DEF Request
  <2>2. UNCHANGED <<announced, wire, items, clientVars, driftVars>>
    BY <1>1 DEF Request
  <2> QED BY <2>1, <2>2, SessionAssumption, JoinSInv
<1>2. CASE Petition
  <2>1. PICK w \in Word : Head(up).name = <<w>>
    <3>1. up # << >> /\ up \in Seq([kind : {"request", "petition"}, name : Wishes])
      BY <1>2 DEF Petition, IInv, Types, OptionTypes
    <3>2. Head(up).name \in Wishes
      <4>1. \A U : up \in Seq(U) => Head(up) \in U
        BY <3>1, EmptySeq
      <4> QED BY <3>1, <4>1
    <3> QED BY <3>2 DEF Wishes
  <2>2. changeName_(Me, <<w>>) /\ UNCHANGED <<clientVars, driftVars>>
    BY <1>2, <2>1 DEF Petition
  <2> QED BY <2>2, SessionAssumption, ChangeNameSInv
<1>3. CASE Receive
  BY <1>3, ReceiveSInv
<1>4. CASE EndPlayers
  BY <1>4, EndPlayersSInv
<1>5. ASSUME NEW p \in Player, sendSyncMessage(p) \/ Announce(p) \/ WormDies(p) \/ PlayerThinks(p)
      PROVE  SInv'
  BY <1>5, SendSyncMessageSInv, AnnounceSInv, WormDiesSInv, PlayerThinksSInv
<1>6. ASSUME BeginTurn \/ EndWorms \/ nameChangePetition \/ (\E i \in items : ReceiveItem(i))
      PROVE  SInv'
  <2>1. /\ UNCHANGED <<present, announced, inits, unseen, apart, missed, stats, kills, deaths>>
        /\ UNCHANGED <<wire, qWorm, qPlayer, cPlayers, cKills, cDeaths>>
    BY <1>6 DEF BeginTurn, EndWorms, nameChangePetition, ReceiveItem, serverVars, netVars,
                clientVars, driftVars
  <2> QED BY <2>1, RestScored
<1> QED BY <1>1, <1>2, <1>3, <1>4, <1>5, <1>6 DEF Progress

LEMMA NextSInv == ASSUME IInv, SInv, [Next]_vars PROVE SInv'
<1>1. CASE Progress
  BY <1>1, ProgressSInv
<1>2. ASSUME NEW p \in Player, OtherJoins(p) PROVE SInv'
  <2>1. UNCHANGED <<announced, wire, items, clientVars, driftVars>>
    BY <1>2 DEF OtherJoins, netVars
  <2>2. PICK wish, rep : join(p, wish, rep)
    BY <1>2 DEF OtherJoins
  <2> QED BY <2>1, <2>2, JoinSInv
<1>3. ASSUME NEW p \in Player, OtherRenames(p) PROVE SInv'
  <2>1. PICK w \in Word : changeName_(p, <<w>>)
    BY <1>3 DEF OtherRenames
  <2>2. UNCHANGED <<clientVars, driftVars>>
    BY <1>3 DEF OtherRenames
  <2> QED BY <2>1, <2>2, ChangeNameSInv
<1>4. ASSUME NEW p \in Player, deleteThis(p) PROVE SInv'
  BY <1>4, DeleteThisSInv
<1>5. ASSUME NEW p \in Player, NEW k \in Player \cup {None}, die(p, k) PROVE SInv'
  BY <1>5, DieSInv
<1>6. ASSUME (\E w \in Word : changeName(w)) \/ UNCHANGED vars PROVE SInv'
  <2>1. /\ UNCHANGED <<present, announced, inits, unseen, apart, missed, stats, kills, deaths>>
        /\ UNCHANGED <<wire, qWorm, qPlayer, cPlayers, cKills, cDeaths>>
    BY <1>6 DEF changeName, vars, serverVars, netVars, clientVars, driftVars
  <2> QED BY <2>1, RestScored
<1> QED BY <1>1, <1>2, <1>3, <1>4, <1>5, <1>6 DEF Next

\* For any players and deaths: a client at rest has the scores of the server,
\* but for the deaths that came before their worm had a player, were counted
\* before it was told of, or overtook an older SYNC.
THEOREM SpecScoresAgree == FairSpec => []ScoresAgree
<1>1. Init => IInv /\ SInv
  BY InitIInv, InitSInv
<1>2. IInv /\ SInv /\ [Next]_vars => (IInv /\ SInv)'
  BY NextIInv, NextSInv
<1>3. IInv /\ SInv => ScoresAgree
  <2> SUFFICES ASSUME IInv, SInv, Quiet, NEW p \in present, p \notin missed \cup unseen \cup apart
               PROVE  cKills[p] = kills[stats[p]] /\ cDeaths[p] = deaths[stats[p]]
    BY DEF ScoresAgree
  <2>1. p \in Player
    BY DEF IInv, Types, ServerTypes
  <2>2. Due(p)
    BY DEF Quiet, Due, Known
  <2>3. Len(wire) = 0 /\ Len(qPlayer[p]) = 0
    BY <2>1, EmptySeq DEF Quiet
  <2>4. ASSUME NEW c \in Scores PROVE ShownScore(p, c) = ScoreOf(p, c)
    <3>1. Leads(wire, qPlayer[p], missed, Heard(p, c), p, c, ScoreOf(p, c))
      BY <2>1, <2>2 DEF SInv, Scored
    <3>2. ~Makes(wire, p, c, ScoreOf(p, c)) /\ \A x : ~SyncSays(qPlayer[p], p, c, x)
      BY <2>3 DEF Makes, SyncSays
    <3>3. Heard(p, c) + Pending(wire, p, c) = ScoreOf(p, c)
      BY <3>1, <3>2 DEF Leads
    <3>4. Cardinality(Waiting(qWorm, p, c)) = 0
      BY WaitingNone DEF Quiet
    <3>5. Pending(wire, p, c) = 0
      <4>1. After(wire, 0, p, c) = {}
        BY <2>3 DEF After
      <4> QED BY <4>1, FS_EmptySet DEF Pending
    <3>6. ShownScore(p, c) \in Nat
      BY <2>1, ScoreTypes
    <3> QED BY <3>3, <3>4, <3>5, <3>6 DEF Heard
  <2>5. ShownScore(p, "kills") = ScoreOf(p, "kills") /\ ShownScore(p, "deaths") = ScoreOf(p, "deaths")
    BY <2>4 DEF Scores
  <2> QED BY <2>5 DEF ShownScore, ScoreOf
<1> QED BY <1>1, <1>2, <1>3, PTL DEF FairSpec
=============================================================================
