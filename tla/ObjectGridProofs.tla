--------------------------- MODULE ObjectGridProofs ---------------------------
(***************************************************************************)
(* Proofs about ObjectGrid.  An inductive invariant, GridInv, says which   *)
(* list each object is on and how far it is from the end of that list, for *)
(* the lists the passes follow and for those of the squares, and that the  *)
(* iterator of the pass stands on one of these objects.  From it follow    *)
(* that the counts are right, that the grid implements ObjectSet, and that *)
(* a walk over an area finds its objects.                                  *)
(*                                                                         *)
(* The lemmas take the links, the lists and the ranks as parameters, and   *)
(* name what a step does to them by an operator (Pushed, Dropped,          *)
(* LinkedFirst, PassedBy and others), so that one lemma serves the S list, *)
(* the waiting lists and the D list.                                       *)
(***************************************************************************)
EXTENDS ObjectGrid, WellFoundedInduction, FiniteSetTheorems, TLAPS

(***************************************************************************)
(* Induction over the natural numbers, for sets: the form in which what a  *)
(* walk along pointers finds can be proved.                                *)
(***************************************************************************)
LEMMA SmallestNat ==
  ASSUME NEW S, S \subseteq Nat, S # {}
  PROVE  \E m \in S : \A k \in S : m <= k
<1>1. IsWellFoundedOn(OpToRel(<, Nat), Nat)
  BY NatLessThanWellFounded
<1>2. PICK x \in S : \A y \in S : ~(<<y, x>> \in OpToRel(<, Nat))
  BY <1>1, WFMin
<1>3. \A y \in S : <<y, x>> \in OpToRel(<, Nat) <=> y < x
  BY DEF OpToRel
<1>4. \A y \in S : ~(y < x)
  BY <1>2, <1>3, Zenon
<1>5. QED
  BY <1>4

LEMMA NatSetInduction ==
  ASSUME NEW S, 0 \in S, \A n \in Nat : n \in S => n + 1 \in S
  PROVE  Nat \subseteq S
<1> SUFFICES ASSUME Nat \ S # {} PROVE FALSE
  OBVIOUS
<1>1. PICK m \in Nat \ S : \A k \in Nat \ S : m <= k
  BY SmallestNat
<1>2. m # 0
  BY <1>1
<1>3. m - 1 \in Nat /\ m - 1 \in S
  BY <1>1, <1>2
<1>4. (m - 1) + 1 \in S
  BY <1>3
<1>5. QED
  BY <1>4, <1>1

-----------------------------------------------------------------------------
(***************************************************************************)
(* Lists threaded through the objects.  A set K of lists, each with a head *)
(* first[k] and an end stop[k]; the objects on the lists are M, each on    *)
(* the list own[o], where rank[o] objects are left from o on; a list has   *)
(* length[k] objects.                                                      *)
(***************************************************************************)
HeadsFit(K, stop, first, M, own, rank, length) ==
  \A k \in K :
    IF length[k] = 0 THEN first[k] = stop[k]
    ELSE first[k] \in M /\ own[first[k]] = k /\ rank[first[k]] = length[k]

LinkFits(stop, next, M, own, rank, o) ==
  IF rank[o] = 1 THEN next[o] = stop[own[o]]
  ELSE next[o] \in M /\ own[next[o]] = own[o] /\ rank[next[o]] = rank[o] - 1

LinksFit(stop, next, M, own, rank, length) ==
  \A o \in M : rank[o] \in 1 .. length[own[o]] /\ LinkFits(stop, next, M, own, rank, o)

RanksDiffer(M, own, rank) ==
  \A o, p \in M : own[o] = own[p] /\ rank[o] = rank[p] => o = p

Threaded(K, stop, first, next, M, own, rank, length) ==
  /\ M \subseteq Object
  /\ own \in [Object -> K] /\ rank \in [Object -> Nat] /\ length \in [K -> Nat]
  /\ HeadsFit(K, stop, first, M, own, rank, length)
  /\ LinksFit(stop, next, M, own, rank, length)
  /\ RanksDiffer(M, own, rank)

(* Only the links of the objects on the lists, and the heads of the lists, matter. *)
LEMMA ThreadedSame ==
  ASSUME NEW K, NEW stop, NEW first, NEW next, NEW M, NEW own, NEW rank, NEW length,
         Threaded(K, stop, first, next, M, own, rank, length),
         NEW first2, NEW next2,
         \A k \in K : first2[k] = first[k],
         \A p \in M : next2[p] = next[p]
  PROVE  Threaded(K, stop, first2, next2, M, own, rank, length)
<1>1. HeadsFit(K, stop, first2, M, own, rank, length)
  BY DEF Threaded, HeadsFit
<1>2. LinksFit(stop, next2, M, own, rank, length)
  BY DEF Threaded, LinksFit, LinkFits
<1>3. QED
  BY <1>1, <1>2 DEF Threaded

(* An object put in front of a list: its links, and what the list is then. *)
LinkedFirst(K, M, first, next, o, k, first2, next2) ==
  /\ first2[k] = o /\ \A j \in K \ {k} : first2[j] = first[j]
  /\ next2[o] = first[k] /\ \A p \in M : next2[p] = next[p]

Pushed(M, own, rank, length, o, k, M2, own2, rank2, length2) ==
  /\ M2 = M \cup {o} /\ own2 = [own EXCEPT ![o] = k]
  /\ rank2 = [rank EXCEPT ![o] = length[k] + 1]
  /\ length2 = [length EXCEPT ![k] = @ + 1]

LEMMA ThreadedPush ==
  ASSUME NEW K, NEW stop, NEW first, NEW next, NEW M, NEW own, NEW rank, NEW length,
         Threaded(K, stop, first, next, M, own, rank, length), NEW o \in Object \ M, NEW k \in K,
         NEW first2, NEW next2, LinkedFirst(K, M, first, next, o, k, first2, next2),
         NEW M2, NEW own2, NEW rank2, NEW length2,
         Pushed(M, own, rank, length, o, k, M2, own2, rank2, length2)
  PROVE  Threaded(K, stop, first2, next2, M2, own2, rank2, length2)
<1> USE DEF LinkedFirst
<1>0. M2 = M \cup {o}
  BY DEF Pushed
<1>1. /\ M \subseteq Object
      /\ own \in [Object -> K] /\ rank \in [Object -> Nat] /\ length \in [K -> Nat]
  BY DEF Threaded
<1>2. /\ own2 \in [Object -> K] /\ rank2 \in [Object -> Nat] /\ length2 \in [K -> Nat]
      /\ own2[o] = k /\ rank2[o] = length[k] + 1 /\ length2[k] = length[k] + 1
      /\ \A p \in M : own2[p] = own[p] /\ rank2[p] = rank[p]
      /\ \A j \in K \ {k} : length2[j] = length[j]
  BY <1>1 DEF Pushed
<1>3. HeadsFit(K, stop, first2, M \cup {o}, own2, rank2, length2)
  <2> SUFFICES ASSUME NEW j \in K
               PROVE  IF length2[j] = 0 THEN first2[j] = stop[j]
                      ELSE /\ first2[j] \in M \cup {o} /\ own2[first2[j]] = j
                           /\ rank2[first2[j]] = length2[j]
    BY DEF HeadsFit
  <2>1. CASE j = k
    BY <2>1, <1>1, <1>2
  <2>2. CASE j # k
    BY <2>2, <1>1, <1>2 DEF Threaded, HeadsFit
  <2>3. QED
    BY <2>1, <2>2
<1>4. LinksFit(stop, next2, M \cup {o}, own2, rank2, length2)
  <2> SUFFICES ASSUME NEW p \in M \cup {o}
               PROVE  /\ rank2[p] \in 1 .. length2[own2[p]]
                      /\ LinkFits(stop, next2, M \cup {o}, own2, rank2, p)
    BY DEF LinksFit
  <2>1. CASE p = o
    <3>1. rank2[o] \in 1 .. length2[k]
      BY <1>1, <1>2
    <3>2. CASE length[k] = 0
      BY <3>2, <2>1, <3>1, <1>1, <1>2 DEF Threaded, HeadsFit, LinkFits
    <3>3. CASE length[k] # 0
      <4>1. first[k] \in M /\ own[first[k]] = k /\ rank[first[k]] = length[k]
        BY <3>3 DEF Threaded, HeadsFit
      <4>2. rank2[o] # 1 /\ rank2[o] - 1 = length[k]
        BY <3>3, <1>1, <1>2
      <4>3. QED
        BY <4>1, <4>2, <2>1, <3>1, <1>2 DEF LinkFits
    <3>4. QED
      BY <3>2, <3>3
  <2>2. CASE p \in M
    <3>1. rank[p] \in 1 .. length[own[p]] /\ LinkFits(stop, next, M, own, rank, p)
      BY <2>2 DEF Threaded, LinksFit
    <3>2. rank2[p] \in 1 .. length2[own2[p]]
      BY <3>1, <2>2, <1>1, <1>2
    <3>3. LinkFits(stop, next2, M \cup {o}, own2, rank2, p)
      BY <3>1, <2>2, <1>1, <1>2 DEF LinkFits
    <3>4. QED
      BY <3>2, <3>3
  <2>3. QED
    BY <2>1, <2>2
<1>5. RanksDiffer(M \cup {o}, own2, rank2)
  <2>1. \A p \in M : own[p] = k => rank[p] <= length[k]
    BY <1>1 DEF Threaded, LinksFit
  <2>2. \A p \in M : own2[p] = k => rank2[p] # rank2[o]
    BY <2>1, <1>1, <1>2
  <2>3. \A p, q \in M : own2[p] = own2[q] /\ rank2[p] = rank2[q] => p = q
    BY <1>2 DEF Threaded, RanksDiffer
  <2>4. QED
    BY <2>2, <2>3, <1>2 DEF RanksDiffer
<1>6. M \cup {o} \subseteq Object
  BY <1>1
<1>7. Threaded(K, stop, first2, next2, M \cup {o}, own2, rank2, length2)
  BY <1>2, <1>3, <1>4, <1>5, <1>6 DEF Threaded
<1>8. QED
  BY <1>0, <1>7

(* The ranks when o has been taken out. *)
RankWithout(own, rank, o) ==
  [p \in Object |-> IF own[p] = own[o] /\ rank[p] > rank[o] THEN rank[p] - 1 ELSE rank[p]]

(* An object taken out of its list: what led to it leads to the one behind it. *)
PassedBy(K, stop, M, first, next, o, first2, next2) ==
  /\ \A j \in K : stop[j] \notin M
  /\ \A j \in K : first2[j] = IF first[j] = o THEN next[o] ELSE first[j]
  /\ \A p \in M \ {o} : next2[p] = IF next[p] = o THEN next[o] ELSE next[p]

Dropped(M, own, rank, length, o, M2, rank2, length2) ==
  /\ M2 = M \ {o} /\ rank2 = RankWithout(own, rank, o)
  /\ length2 = [length EXCEPT ![own[o]] = @ - 1]

LEMMA ThreadedDrop ==
  ASSUME NEW K, NEW stop, NEW first, NEW next, NEW M, NEW own, NEW rank, NEW length,
         Threaded(K, stop, first, next, M, own, rank, length), NEW o \in M,
         NEW first2, NEW next2, PassedBy(K, stop, M, first, next, o, first2, next2),
         NEW M2, NEW rank2, NEW length2, Dropped(M, own, rank, length, o, M2, rank2, length2)
  PROVE  Threaded(K, stop, first2, next2, M2, own, rank2, length2)
<1> USE DEF PassedBy
<1> DEFINE k == own[o]
<1>0. M2 = M \ {o}
  BY DEF Dropped
<1>1. /\ M \subseteq Object
      /\ own \in [Object -> K] /\ rank \in [Object -> Nat] /\ length \in [K -> Nat]
  BY DEF Threaded
<1>2. \A p \in M : rank[p] \in 1 .. length[own[p]] /\ LinkFits(stop, next, M, own, rank, p)
  BY DEF Threaded, LinksFit
<1>3. k \in K /\ length[k] \in Nat \ {0} /\ length[k] - 1 \in Nat
  BY <1>1, <1>2
<1>4. /\ length2 \in [K -> Nat]
      /\ length2[k] = length[k] - 1 /\ \A j \in K \ {k} : length2[j] = length[j]
  BY <1>1, <1>3 DEF Dropped
<1>5. /\ rank2 \in [Object -> Nat]
      /\ \A p \in M : rank2[p] = IF own[p] = k /\ rank[p] > rank[o] THEN rank[p] - 1 ELSE rank[p]
  BY <1>1 DEF RankWithout, Dropped
<1>6. RanksDiffer(M, own, rank) /\ HeadsFit(K, stop, first, M, own, rank, length)
  BY DEF Threaded
<1>7. \A p \in M : own[p] = k /\ p # o => rank[p] # rank[o]
  BY <1>6 DEF RanksDiffer
<1> HIDE DEF k
<1>8. own[o] = k
  BY DEF k
<1>9. HeadsFit(K, stop, first2, M \ {o}, own, rank2, length2)
  <2> SUFFICES ASSUME NEW j \in K
               PROVE  IF length2[j] = 0 THEN first2[j] = stop[j]
                      ELSE /\ first2[j] \in M \ {o} /\ own[first2[j]] = j
                           /\ rank2[first2[j]] = length2[j]
    BY DEF HeadsFit
  <2>1. IF length[j] = 0 THEN first[j] = stop[j]
        ELSE first[j] \in M /\ own[first[j]] = j /\ rank[first[j]] = length[j]
    BY <1>6 DEF HeadsFit
  <2>2. CASE j # k
    <3>1. first[j] # o
      BY <2>1, <2>2, <1>8
    <3>2. first2[j] = first[j] /\ length2[j] = length[j]
      BY <3>1, <2>2, <1>4
    <3>3. QED
      BY <3>1, <3>2, <2>1, <2>2, <1>5
  <2>3. CASE j = k /\ first[j] = o
    <3>1. rank[o] = length[k] /\ first2[j] = next[o]
      BY <2>1, <2>3, <1>3
    <3>2. LinkFits(stop, next, M, own, rank, o)
      BY <1>2
    <3>3. CASE length[k] = 1
      BY <3>1, <3>2, <3>3, <2>3, <1>4, <1>8 DEF LinkFits
    <3>4. CASE length[k] # 1
      <4>1. next[o] \in M /\ own[next[o]] = k /\ rank[next[o]] = length[k] - 1
        BY <3>1, <3>2, <3>4, <1>8 DEF LinkFits
      <4>2. next[o] # o
        BY <4>1, <3>1, <1>3
      <4>3. rank2[next[o]] = length[k] - 1
        BY <4>1, <3>1, <1>5, <1>3
      <4>4. QED
        BY <4>1, <4>2, <4>3, <3>1, <3>4, <2>3, <1>3, <1>4
    <3>5. QED
      BY <3>3, <3>4
  <2>4. CASE j = k /\ first[j] # o
    <3>1. first[k] \in M /\ own[first[k]] = k /\ rank[first[k]] = length[k] /\ first2[k] = first[k]
      BY <2>1, <2>4, <1>3
    <3>2. rank[o] < length[k]
      BY <3>1, <2>4, <1>2, <1>7, <1>8, <1>3, <1>1
    <3>3. rank2[first[k]] = length[k] - 1
      BY <3>1, <3>2, <1>5
    <3>4. length2[k] # 0
      BY <3>2, <1>2, <1>4, <1>3, <1>1
    <3>5. QED
      BY <3>1, <3>3, <3>4, <2>4, <1>4
  <2>5. QED
    BY <2>2, <2>3, <2>4
<1>10. LinksFit(stop, next2, M \ {o}, own, rank2, length2)
  <2> SUFFICES ASSUME NEW p \in M \ {o}
               PROVE  /\ rank2[p] \in 1 .. length2[own[p]]
                      /\ LinkFits(stop, next2, M \ {o}, own, rank2, p)
    BY DEF LinksFit
  <2>0. /\ rank[p] \in Nat /\ rank[o] \in Nat /\ own[p] \in K
        /\ 1 <= rank[p] /\ rank[p] <= length[own[p]] /\ 1 <= rank[o] /\ rank[o] <= length[k]
        /\ rank2[p] = IF own[p] = k /\ rank[p] > rank[o] THEN rank[p] - 1 ELSE rank[p]
        /\ LinkFits(stop, next, M, own, rank, p) /\ LinkFits(stop, next, M, own, rank, o)
        /\ next2[p] = IF next[p] = o THEN next[o] ELSE next[p]
        /\ own[p] = k => rank[p] # rank[o]
    BY <1>1, <1>2, <1>5, <1>7, <1>8
  <2>1. rank2[p] \in 1 .. length2[own[p]]
    BY <2>0, <1>1, <1>3, <1>4
  <2>2. CASE next[p] = o
    <3>1. own[p] = k /\ rank[p] = rank[o] + 1 /\ rank2[p] = rank[o] /\ next2[p] = next[o]
      BY <2>2, <2>0, <1>8, <1>1 DEF LinkFits
    <3>2. CASE rank[o] = 1
      BY <3>1, <3>2, <2>0, <2>1, <1>8 DEF LinkFits
    <3>3. CASE rank[o] # 1
      <4>1. next[o] \in M /\ own[next[o]] = k /\ rank[next[o]] = rank[o] - 1
        BY <3>3, <2>0, <1>8 DEF LinkFits
      <4>2. next[o] # o /\ rank2[next[o]] = rank[o] - 1
        BY <4>1, <2>0, <1>5
      <4>3. QED
        BY <4>1, <4>2, <3>1, <3>3, <2>1 DEF LinkFits
    <3>4. QED
      BY <3>2, <3>3, <2>1
  <2>3. CASE next[p] # o
    <3>1. next2[p] = next[p]
      BY <2>3, <2>0
    <3>2. CASE rank[p] = 1
      <4>1. rank2[p] = 1 /\ next[p] = stop[own[p]]
        BY <3>2, <2>0 DEF LinkFits
      <4>2. QED
        BY <4>1, <3>1, <2>1 DEF LinkFits
    <3>3. CASE rank[p] # 1
      <4>1. next[p] \in M \ {o} /\ own[next[p]] = own[p] /\ rank[next[p]] = rank[p] - 1
        BY <3>3, <2>0, <2>3 DEF LinkFits
      <4>2. rank2[next[p]] = IF own[p] = k /\ rank[p] - 1 > rank[o] THEN rank[p] - 2 ELSE rank[p] - 1
        BY <4>1, <1>5, <2>0
      <4>3. own[p] = k => rank[p] - 1 # rank[o]
        BY <4>1, <1>7
      <4>4. rank2[p] # 1
        BY <2>0, <4>3, <3>3
      <4>5. rank2[next[p]] = rank2[p] - 1
        BY <4>2, <4>3, <2>0
      <4>6. QED
        BY <4>1, <4>4, <4>5, <3>1, <2>1 DEF LinkFits
    <3>4. QED
      BY <3>2, <3>3
  <2>4. QED
    BY <2>2, <2>3
<1>11. RanksDiffer(M \ {o}, own, rank2)
  <2> SUFFICES ASSUME NEW p \in M \ {o}, NEW q \in M \ {o}, own[p] = own[q], rank2[p] = rank2[q]
               PROVE  rank[p] = rank[q]
    BY <1>6 DEF RanksDiffer
  <2>1. rank[p] \in Nat /\ rank[q] \in Nat /\ rank[o] \in Nat
    BY <1>1
  <2>2. own[p] = k => rank[p] # rank[o] /\ rank[q] # rank[o]
    BY <1>7
  <2>3. QED
    BY <2>1, <2>2, <1>5
<1>12. M \ {o} \subseteq Object
  BY <1>1
<1>13. Threaded(K, stop, first2, next2, M \ {o}, own, rank2, length2)
  BY <1>1, <1>4, <1>5, <1>9, <1>10, <1>11, <1>12 DEF Threaded
<1>14. QED
  BY <1>0, <1>13

(* The objects of a list that are left from the one of rank n on. *)
Below(M, own, rank, k, n) == {p \in M : own[p] = k /\ rank[p] <= n}

(* Every rank of a list is taken. *)
LEMMA RanksAreTaken ==
  ASSUME NEW K, NEW stop, NEW first, NEW next, NEW M, NEW own, NEW rank, NEW length,
         Threaded(K, stop, first, next, M, own, rank, length), NEW k \in K
  PROVE  \A i \in 1 .. length[k] : \E p \in M : own[p] = k /\ rank[p] = i
<1> DEFINE n == length[k]
           Taken == {j \in Nat : j < n => \E p \in M : own[p] = k /\ rank[p] = n - j}
<1>1. n \in Nat /\ rank \in [Object -> Nat] /\ M \subseteq Object
  BY DEF Threaded
<1>2. 0 \in Taken
  <2>1. n # 0 => first[k] \in M /\ own[first[k]] = k /\ rank[first[k]] = n
    BY DEF Threaded, HeadsFit
  <2>2. QED
    BY <2>1, <1>1
<1>3. ASSUME NEW j \in Nat, j \in Taken PROVE j + 1 \in Taken
  <2> SUFFICES ASSUME j + 1 < n PROVE \E p \in M : own[p] = k /\ rank[p] = n - (j + 1)
    OBVIOUS
  <2>1. PICK p \in M : own[p] = k /\ rank[p] = n - j
    BY <1>1, <1>3
  <2>2. LinkFits(stop, next, M, own, rank, p)
    BY DEF Threaded, LinksFit
  <2>3. rank[p] # 1
    BY <2>1, <1>1
  <2>4. next[p] \in M /\ own[next[p]] = k /\ rank[next[p]] = rank[p] - 1
    BY <2>1, <2>2, <2>3 DEF LinkFits
  <2>5. QED
    BY <2>1, <2>4, <1>1
<1>4. Nat \subseteq Taken
  <2> HIDE DEF Taken
  <2> QED
    BY <1>2, <1>3, NatSetInduction
<1>5. QED
  <2> SUFFICES ASSUME NEW i \in 1 .. n PROVE \E p \in M : own[p] = k /\ rank[p] = i
    OBVIOUS
  <2>1. n - i \in Nat /\ n - i < n /\ n - (n - i) = i
    BY <1>1
  <2>2. n - i \in Taken
    BY <2>1, <1>4
  <2>3. QED
    BY <2>1, <2>2

(* The length of a list is the number of its objects. *)
LEMMA LengthIsCardinality ==
  ASSUME NEW K, NEW stop, NEW first, NEW next, NEW M, NEW own, NEW rank, NEW length,
         Threaded(K, stop, first, next, M, own, rank, length), NEW k \in K, NEW n \in 0 .. length[k]
  PROVE  /\ IsFiniteSet(Below(M, own, rank, k, n))
         /\ Cardinality(Below(M, own, rank, k, n)) = n
         /\ n <= Cardinality(Object)
<1> DEFINE B == Below(M, own, rank, k, n)
           f == [p \in B |-> rank[p]]
<1>1. /\ M \subseteq Object /\ rank \in [Object -> Nat] /\ length[k] \in Nat
      /\ RanksDiffer(M, own, rank)
      /\ \A p \in M : rank[p] \in 1 .. length[own[p]]
  BY DEF Threaded, LinksFit
<1>2. \A p \in B : p \in M /\ own[p] = k /\ rank[p] \in 1 .. n
  BY <1>1 DEF Below
<1>3. f \in [B -> 1 .. n]
  BY <1>2
<1>4. \A p, q \in B : f[p] = f[q] => p = q
  BY <1>1, <1>2 DEF RanksDiffer
<1>5. \A i \in 1 .. n : \E p \in B : f[p] = i
  <2> SUFFICES ASSUME NEW i \in 1 .. n PROVE \E p \in B : rank[p] = i
    OBVIOUS
  <2>1. i \in 1 .. length[k]
    BY <1>1
  <2>2. PICK p \in M : own[p] = k /\ rank[p] = i
    BY <2>1, RanksAreTaken
  <2>3. p \in B
    BY <2>2 DEF Below
  <2>4. QED
    BY <2>2, <2>3
<1> HIDE DEF B, f
<1>6. f \in Bijection(B, 1 .. n)
  BY <1>3, <1>4, <1>5 DEF Bijection, Injection, Surjection, IsInjective
<1>7. ExistsBijection(B, 1 .. n)
  BY <1>6 DEF ExistsBijection
<1>8. B \subseteq Object /\ IsFiniteSet(Object)
  BY <1>1, <1>2, GridAssumption
<1>9. IsFiniteSet(B) /\ Cardinality(B) <= Cardinality(Object)
  BY <1>8, FS_Subset
<1>10. IsFiniteSet(1 .. n) /\ Cardinality(1 .. n) = n
  BY FS_Interval, <1>1
<1>11. Cardinality(1 .. n) = Cardinality(B)
  BY <1>7, <1>9, FS_Bijection
<1>12. QED
  BY <1>9, <1>10, <1>11 DEF B

(* What a walk from an object finds: the objects left from it on. *)
LEMMA FromFinds ==
  ASSUME NEW K, NEW stop, NEW first, NEW next, NEW M, NEW own, NEW rank, NEW length,
         Threaded(K, stop, first, next, M, own, rank, length),
         \A j \in K : stop[j] = NULL, NEW o \in M
  PROVE  From(next, o) = Below(M, own, rank, own[o], rank[o])
<1> DEFINE N == Cardinality(Object)
           k == own[o]
           m == rank[o]
           Member(i) == CHOOSE p \in M : own[p] = k /\ rank[p] = m - i
           g == [i \in 0 .. N |-> IF i < m THEN Member(i) ELSE NULL]
           nth[i \in 0 .. N] ==
             IF i = 0 THEN o ELSE IF nth[i - 1] = NULL THEN NULL ELSE next[nth[i - 1]]
<1>1. /\ M \subseteq Object /\ rank \in [Object -> Nat] /\ k \in K
      /\ RanksDiffer(M, own, rank)
      /\ m \in 1 .. length[k] /\ length[k] \in Nat /\ m \in 0 .. length[k]
      /\ \A p \in M : rank[p] \in 1 .. length[own[p]] /\ LinkFits(stop, next, M, own, rank, p)
      /\ NULL \notin M
  BY GridAssumption DEF Threaded, LinksFit
<1>2. N \in Nat /\ m <= N
  BY <1>1, LengthIsCardinality, FS_CardinalityType, GridAssumption
<1>3. \A i \in 0 .. N : i < m => Member(i) \in M /\ own[Member(i)] = k /\ rank[Member(i)] = m - i
  <2> SUFFICES ASSUME NEW i \in 0 .. N, i < m
               PROVE  \E p \in M : own[p] = k /\ rank[p] = m - i
    OBVIOUS
  <2>1. m - i \in 1 .. length[k]
    BY <1>1, <1>2
  <2>2. QED
    BY <2>1, <1>1, RanksAreTaken
<1> HIDE DEF Member
<1>4. \A i \in 0 .. N : IF i < m THEN g[i] \in M /\ own[g[i]] = k /\ rank[g[i]] = m - i ELSE g[i] = NULL
  BY <1>3
<1>5. g[0] = o
  BY <1>4, <1>1, <1>2 DEF RanksDiffer
<1>6. \A i \in 1 .. N : g[i] = IF g[i - 1] = NULL THEN NULL ELSE next[g[i - 1]]
  <2> SUFFICES ASSUME NEW i \in 1 .. N PROVE g[i] = IF g[i - 1] = NULL THEN NULL ELSE next[g[i - 1]]
    OBVIOUS
  <2> HIDE DEF g
  <2>1. i - 1 \in 0 .. N /\ i \in 0 .. N
    BY <1>2
  <2>2. CASE i - 1 < m
    <3>1. g[i - 1] \in M /\ own[g[i - 1]] = k /\ rank[g[i - 1]] = m - (i - 1)
      BY <2>1, <2>2, <1>4
    <3>2. LinkFits(stop, next, M, own, rank, g[i - 1]) /\ g[i - 1] # NULL
      BY <3>1, <1>1
    <3>3. CASE i < m
      <4>1. next[g[i - 1]] \in M /\ own[next[g[i - 1]]] = k /\ rank[next[g[i - 1]]] = m - i
        BY <3>1, <3>2, <3>3, <1>1 DEF LinkFits
      <4>2. g[i] \in M /\ own[g[i]] = k /\ rank[g[i]] = m - i
        BY <3>3, <2>1, <1>4
      <4>3. QED
        BY <4>1, <4>2, <3>2, <1>1 DEF RanksDiffer
    <3>4. CASE ~(i < m)
      <4>1. rank[g[i - 1]] = 1
        BY <3>1, <3>4, <2>2, <1>1
      <4>2. next[g[i - 1]] = NULL
        BY <4>1, <3>1, <3>2, <1>1 DEF LinkFits
      <4>3. QED
        BY <4>2, <3>4, <2>1, <1>4
    <3>5. QED
      BY <3>3, <3>4
  <2>3. CASE ~(i - 1 < m)
    <3>1. g[i - 1] = NULL /\ g[i] = NULL
      BY <2>3, <2>1, <1>1, <1>4
    <3>2. QED
      BY <3>1
  <2>4. QED
    BY <2>2, <2>3
<1>7. nth = [i \in 0 .. N |->
               IF i = 0 THEN o ELSE IF nth[i - 1] = NULL THEN NULL ELSE next[nth[i - 1]]]
  <2> HIDE DEF N
  <2>1. SUFFICES \E ff : ff = [i \in 0 .. N |->
               IF i = 0 THEN o ELSE IF ff[i - 1] = NULL THEN NULL ELSE next[ff[i - 1]]]
    OBVIOUS
  <2>2. g = [i \in 0 .. N |-> g[i]]
    OBVIOUS
  <2> HIDE DEF g
  <2>3. \A i \in 0 .. N : g[i] = IF i = 0 THEN o ELSE IF g[i - 1] = NULL THEN NULL ELSE next[g[i - 1]]
    BY <1>5, <1>6, <1>2
  <2>4. g = [i \in 0 .. N |-> IF i = 0 THEN o ELSE IF g[i - 1] = NULL THEN NULL ELSE next[g[i - 1]]]
    BY <2>2, <2>3
  <2>5. QED
    BY <2>4
<1>8. From(next, o) = {nth[i] : i \in 0 .. N} \ {NULL}
  BY DEF From
<1>9. \A i \in 0 .. N : nth[i] = IF i = 0 THEN o ELSE IF nth[i - 1] = NULL THEN NULL ELSE next[nth[i - 1]]
  <2> HIDE DEF nth
  <2> QED
    BY <1>7
<1> HIDE DEF nth, g, N, k, m
<1>10. \A i \in 0 .. N : nth[i] = g[i]
  <2> DEFINE Same == {i \in Nat : i \in 0 .. N => nth[i] = g[i]}
  <2>1. 0 \in Same
    BY <1>5, <1>9, <1>2
  <2>2. ASSUME NEW i \in Nat, i \in Same PROVE i + 1 \in Same
    <3> SUFFICES ASSUME i + 1 \in 0 .. N PROVE nth[i + 1] = g[i + 1]
      OBVIOUS
    <3>1. i \in 0 .. N /\ (i + 1) - 1 = i /\ i + 1 # 0 /\ i + 1 \in 1 .. N
      BY <1>2
    <3>2. nth[i] = g[i]
      BY <3>1, <2>2
    <3>3. g[i + 1] = IF g[i] = NULL THEN NULL ELSE next[g[i]]
      BY <3>1, <1>6
    <3>4. nth[i + 1] = IF nth[i] = NULL THEN NULL ELSE next[nth[i]]
      BY <3>1, <1>9
    <3>5. QED
      BY <3>2, <3>3, <3>4
  <2>3. Nat \subseteq Same
    <3> HIDE DEF Same
    <3> QED
      BY <2>1, <2>2, NatSetInduction
  <2>4. QED
    BY <2>3, <1>2
<1>11. {g[i] : i \in 0 .. N} \ {NULL} = Below(M, own, rank, k, m)
  <2>1. ASSUME NEW p \in {g[i] : i \in 0 .. N} \ {NULL} PROVE p \in Below(M, own, rank, k, m)
    <3>1. PICK i \in 0 .. N : p = g[i]
      OBVIOUS
    <3>2. i < m
      BY <3>1, <1>4
    <3>3. p \in M /\ own[p] = k /\ rank[p] = m - i
      BY <3>1, <3>2, <1>4
    <3>4. rank[p] <= m
      BY <3>3, <1>1, <1>2
    <3>5. QED
      BY <3>3, <3>4 DEF Below
  <2>2. ASSUME NEW p \in Below(M, own, rank, k, m) PROVE p \in {g[i] : i \in 0 .. N} \ {NULL}
    <3>1. p \in M /\ own[p] = k /\ rank[p] <= m /\ rank[p] >= 1 /\ rank[p] \in Nat
      BY <1>1 DEF Below
    <3>2. m - rank[p] \in 0 .. N /\ m - rank[p] < m /\ m - (m - rank[p]) = rank[p]
      BY <3>1, <1>1, <1>2
    <3>3. g[m - rank[p]] \in M /\ own[g[m - rank[p]]] = k /\ rank[g[m - rank[p]]] = rank[p]
      BY <3>2, <1>4
    <3>4. g[m - rank[p]] = p
      BY <3>1, <3>3, <1>1 DEF RanksDiffer
    <3>5. p # NULL
      BY <3>1, <1>1
    <3>6. QED
      BY <3>2, <3>4, <3>5
  <2>3. QED
    BY <2>1, <2>2
<1>12. From(next, o) = {g[i] : i \in 0 .. N} \ {NULL}
  BY <1>8, <1>10
<1>13. QED
  BY <1>11, <1>12 DEF k, m

(* A walk from no object finds none. *)
LEMMA FromNull ==
  ASSUME NEW next
  PROVE  From(next, NULL) = {}
<1> DEFINE N == Cardinality(Object)
           g == [i \in 0 .. N |-> NULL]
           nth[i \in 0 .. N] ==
             IF i = 0 THEN NULL ELSE IF nth[i - 1] = NULL THEN NULL ELSE next[nth[i - 1]]
<1>0. N \in Nat
  BY FS_CardinalityType, GridAssumption
<1>1. nth = [i \in 0 .. N |->
               IF i = 0 THEN NULL ELSE IF nth[i - 1] = NULL THEN NULL ELSE next[nth[i - 1]]]
  <2> HIDE DEF N
  <2>1. SUFFICES \E ff : ff = [i \in 0 .. N |->
               IF i = 0 THEN NULL ELSE IF ff[i - 1] = NULL THEN NULL ELSE next[ff[i - 1]]]
    OBVIOUS
  <2>2. \A i \in 0 .. N : i = 0 \/ i - 1 \in 0 .. N
    BY <1>0
  <2>3. g = [i \in 0 .. N |-> IF i = 0 THEN NULL ELSE IF g[i - 1] = NULL THEN NULL ELSE next[g[i - 1]]]
    BY <2>2
  <2>4. QED
    BY <2>3
<1>2. From(next, NULL) = {nth[i] : i \in 0 .. N} \ {NULL}
  BY DEF From
<1>3. \A i \in 0 .. N : nth[i] = IF i = 0 THEN NULL ELSE IF nth[i - 1] = NULL THEN NULL ELSE next[nth[i - 1]]
  <2> HIDE DEF nth
  <2> QED
    BY <1>1
<1> HIDE DEF nth, N
<1>4. \A i \in 0 .. N : nth[i] = NULL
  <2> DEFINE Same == {i \in Nat : i \in 0 .. N => nth[i] = NULL}
  <2>1. 0 \in Same
    BY <1>3, <1>0
  <2>2. ASSUME NEW i \in Nat, i \in Same PROVE i + 1 \in Same
    <3> SUFFICES ASSUME i + 1 \in 0 .. N PROVE nth[i + 1] = NULL
      OBVIOUS
    <3>1. i \in 0 .. N /\ (i + 1) - 1 = i /\ i + 1 # 0
      BY <1>0
    <3>2. QED
      BY <3>1, <2>2, <1>3
  <2>3. Nat \subseteq Same
    <3> HIDE DEF Same
    <3> QED
      BY <2>1, <2>2, NatSetInduction
  <2>4. QED
    BY <2>3, <1>0
<1>5. QED
  BY <1>2, <1>4

-----------------------------------------------------------------------------
(***************************************************************************)
(* The S lists and the waiting lists of a layer.                           *)
(***************************************************************************)
SList == Layer \X {"listed", "square", "none"}
NoStop == [k \in SList |-> NULL]

HeadOf(listed, square, none) ==
  [k \in SList |-> IF k[2] = "listed" THEN listed[k[1]]
                   ELSE IF k[2] = "square" THEN square[k[1]] ELSE none[k[1]]]

Chained(fs, fd, fn, next, M, own, rank, length) ==
  Threaded(SList, NoStop, HeadOf(fs, fd, fn), next, M, own, rank, length)

(* The objects of a list. *)
Of(M, own, k) == {p \in M : own[p] = k}
On(M, own, w) == {p \in M : own[p][2] = w}

ListOf(l) == <<l, "listed">>
SquareListOf(l) == <<l, "square">>
NoneListOf(l) == <<l, "none">>

LEMMA SListFacts ==
  /\ \A l \in Layer : /\ ListOf(l) \in SList /\ ListOf(l)[1] = l /\ ListOf(l)[2] = "listed"
                      /\ SquareListOf(l) \in SList /\ SquareListOf(l)[1] = l
                      /\ SquareListOf(l)[2] = "square"
                      /\ NoneListOf(l) \in SList /\ NoneListOf(l)[1] = l
                      /\ NoneListOf(l)[2] = "none"
  /\ \A k \in SList : /\ k[1] \in Layer /\ NoStop[k] = NULL
                      /\ \/ k[2] = "listed" /\ k = ListOf(k[1])
                         \/ k[2] = "square" /\ k = SquareListOf(k[1])
                         \/ k[2] = "none" /\ k = NoneListOf(k[1])
BY DEF SList, NoStop, ListOf, SquareListOf, NoneListOf

LEMMA ListedHead ==
  ASSUME NEW fs, NEW fd, NEW fn
  PROVE  \A l \in Layer : HeadOf(fs, fd, fn)[ListOf(l)] = fs[l]
BY DEF SList, HeadOf, ListOf, SquareListOf, NoneListOf

LEMMA SquareHead ==
  ASSUME NEW fs, NEW fd, NEW fn
  PROVE  \A l \in Layer : HeadOf(fs, fd, fn)[SquareListOf(l)] = fd[l]
BY DEF SList, HeadOf, ListOf, SquareListOf, NoneListOf

LEMMA NoneHead ==
  ASSUME NEW fs, NEW fd, NEW fn
  PROVE  \A l \in Layer : HeadOf(fs, fd, fn)[NoneListOf(l)] = fn[l]
BY DEF SList, HeadOf, ListOf, SquareListOf, NoneListOf

(* A walk from the head of a list finds the list. *)
LEMMA FromHead ==
  ASSUME NEW fs, NEW fd, NEW fn, NEW next, NEW M, NEW own, NEW rank, NEW length,
         Chained(fs, fd, fn, next, M, own, rank, length)
  PROVE  \A k \in SList :
           /\ From(next, HeadOf(fs, fd, fn)[k]) = Of(M, own, k)
           /\ Cardinality(Of(M, own, k)) = length[k]
           /\ length[k] \in 0 .. Cardinality(Object)
<1> TAKE k \in SList
<1> DEFINE h == HeadOf(fs, fd, fn)
           n == length[k]
<1>1. /\ M \subseteq Object /\ rank \in [Object -> Nat] /\ n \in Nat /\ n \in 0 .. n
      /\ \A p \in M : rank[p] \in 1 .. length[own[p]]
      /\ HeadsFit(SList, NoStop, h, M, own, rank, length)
      /\ \A j \in SList : NoStop[j] = NULL
  BY DEF Chained, Threaded, LinksFit, NoStop
<1>2. Below(M, own, rank, k, n) = Of(M, own, k)
  BY <1>1 DEF Below, Of
<1>3. Cardinality(Of(M, own, k)) = n /\ n <= Cardinality(Object)
  BY <1>1, <1>2, LengthIsCardinality DEF Chained
<1>4. n \in 0 .. Cardinality(Object)
  BY <1>1, <1>3, FS_CardinalityType, GridAssumption
<1>5. CASE n = 0
  <2>1. h[k] = NULL
    BY <1>1, <1>5 DEF HeadsFit
  <2>2. \A p \in M : own[p] # k
    BY <1>1, <1>5
  <2>3. From(next, h[k]) = {}
    BY <2>1, FromNull
  <2>4. QED
    BY <2>2, <2>3, <1>3, <1>4 DEF Of
<1>6. CASE n # 0
  <2>1. h[k] \in M /\ own[h[k]] = k /\ rank[h[k]] = n
    BY <1>1, <1>6 DEF HeadsFit
  <2>2. From(next, h[k]) = Below(M, own, rank, own[h[k]], rank[h[k]])
    BY <2>1, <1>1, FromFinds DEF Chained
  <2>3. QED
    BY <2>1, <2>2, <1>2, <1>3, <1>4
<1>7. QED
  BY <1>5, <1>6

(* What the lists of the grid hold. *)
LEMMA ListsHold ==
  ASSUME NEW fs, NEW fd, NEW fn, NEW next, NEW M, NEW own, NEW rank, NEW length,
         Chained(fs, fd, fn, next, M, own, rank, length)
  PROVE  /\ \A l \in Layer : /\ From(next, fs[l]) = Of(M, own, ListOf(l))
                             /\ From(next, fd[l]) = Of(M, own, SquareListOf(l))
                             /\ From(next, fn[l]) = Of(M, own, NoneListOf(l))
         /\ UNION {From(next, fs[l]) : l \in Layer} = On(M, own, "listed")
         /\ UNION {From(next, fd[l]) \cup From(next, fn[l]) : l \in Layer} = M \ On(M, own, "listed")
<1>1. ASSUME NEW l \in Layer
      PROVE  /\ From(next, fs[l]) = Of(M, own, ListOf(l))
             /\ From(next, fd[l]) = Of(M, own, SquareListOf(l))
             /\ From(next, fn[l]) = Of(M, own, NoneListOf(l))
  <2>0. ListOf(l) \in SList /\ SquareListOf(l) \in SList /\ NoneListOf(l) \in SList
    BY SListFacts
  <2>1. From(next, HeadOf(fs, fd, fn)[ListOf(l)]) = Of(M, own, ListOf(l))
    BY <2>0, FromHead
  <2>2. From(next, HeadOf(fs, fd, fn)[SquareListOf(l)]) = Of(M, own, SquareListOf(l))
    BY <2>0, FromHead
  <2>3. From(next, HeadOf(fs, fd, fn)[NoneListOf(l)]) = Of(M, own, NoneListOf(l))
    BY <2>0, FromHead
  <2>4. QED
    BY <2>1, <2>2, <2>3, ListedHead, SquareHead, NoneHead DEF Of
<1>2. \A p \in M : own[p] \in SList
  BY DEF Chained, Threaded
<1>3. \A p \in M : /\ own[p][1] \in Layer
                   /\ \/ own[p][2] = "listed" /\ own[p] = ListOf(own[p][1])
                      \/ own[p][2] = "square" /\ own[p] = SquareListOf(own[p][1])
                      \/ own[p][2] = "none" /\ own[p] = NoneListOf(own[p][1])
  BY <1>2, SListFacts
<1>4. UNION {Of(M, own, ListOf(l)) : l \in Layer} = On(M, own, "listed")
  BY <1>3, SListFacts DEF On, Of
<1>5. UNION {Of(M, own, SquareListOf(l)) \cup Of(M, own, NoneListOf(l)) : l \in Layer}
        = M \ On(M, own, "listed")
  BY <1>3, SListFacts DEF On, Of
<1>6. UNION {From(next, fs[l]) : l \in Layer} = UNION {Of(M, own, ListOf(l)) : l \in Layer}
  BY <1>1
<1>7. UNION {From(next, fd[l]) \cup From(next, fn[l]) : l \in Layer}
        = UNION {Of(M, own, SquareListOf(l)) \cup Of(M, own, NoneListOf(l)) : l \in Layer}
  BY <1>1
<1>8. QED
  BY <1>1, <1>4, <1>5, <1>6, <1>7

-----------------------------------------------------------------------------
(* The iterator *)

(* It names an object of an S list, and prev the object or the head before it. *)
IterFits(it, first, next, M, own) ==
  it.ptr # NULL =>
    /\ it.ptr \in M /\ own[it.ptr] = ListOf(it.layer)
    /\ IF it.prev = NULL THEN first[it.layer] = it.ptr
       ELSE it.prev \in M /\ next[it.prev] = it.ptr

IterType(it) == it \in [layer : Layer, ptr : Object \cup {NULL}, prev : Object \cup {NULL}]

(* The objects of later layers. *)
Later(l, M, own) == {p \in On(M, own, "listed") : own[p][1] > l}

(* The objects it has yet to visit. *)
Left(it, M, own, rank) ==
  IF it.ptr = NULL THEN {}
  ELSE Later(it.layer, M, own) \cup Below(M, own, rank, ListOf(it.layer), rank[it.ptr])

LEMMA HeadFacts ==
  ASSUME NEW fs, NEW fd, NEW fn, NEW next, NEW M, NEW own, NEW rank, NEW length,
         Chained(fs, fd, fn, next, M, own, rank, length)
  PROVE  /\ NULL \notin M
         /\ \A l \in Layer :
              /\ fs[l] = NULL <=> \A p \in M : own[p] # ListOf(l)
              /\ fs[l] # NULL => /\ fs[l] \in M /\ own[fs[l]] = ListOf(l)
                                 /\ rank[fs[l]] = length[ListOf(l)]
                                 /\ \A p \in M : own[p] = ListOf(l) => rank[p] <= rank[fs[l]]
<1>0. NULL \notin M
  BY GridAssumption DEF Chained, Threaded
<1> SUFFICES ASSUME NEW l \in Layer
             PROVE  /\ fs[l] = NULL <=> \A p \in M : own[p] # ListOf(l)
                    /\ fs[l] # NULL =>
                         /\ fs[l] \in M /\ own[fs[l]] = ListOf(l)
                         /\ rank[fs[l]] = length[ListOf(l)]
                         /\ \A p \in M : own[p] = ListOf(l) => rank[p] <= rank[fs[l]]
  BY <1>0
<1> DEFINE k == ListOf(l)
<1>1. /\ k \in SList /\ HeadOf(fs, fd, fn)[k] = fs[l] /\ NoStop[k] = NULL
  <2>1. k \in SList
    BY SListFacts
  <2>2. HeadOf(fs, fd, fn)[k] = fs[l]
    BY ListedHead
  <2>3. QED
    BY <2>1, <2>2, SListFacts
<1>2. NULL \notin M /\ length[k] \in Nat
  BY <1>1, GridAssumption DEF Chained, Threaded
<1>3. IF length[k] = 0 THEN fs[l] = NULL
      ELSE fs[l] \in M /\ own[fs[l]] = k /\ rank[fs[l]] = length[k]
  BY <1>1 DEF Chained, Threaded, HeadsFit
<1>4. \A p \in M : own[p] = k => rank[p] \in 1 .. length[k]
  BY DEF Chained, Threaded, LinksFit
<1>5. \A p \in M : own[p] = k => rank[p] <= length[k] /\ length[k] # 0
  BY <1>2, <1>4
<1>6. QED
  BY <1>2, <1>3, <1>5

LEMMA SmallestLayer ==
  ASSUME NEW S, S \subseteq Layer, S # {}
  PROVE  (CHOOSE k \in S : \A j \in S : k <= j) \in S
         /\ \A j \in S : (CHOOSE k \in S : \A j2 \in S : k <= j2) <= j
<1>1. S \subseteq Nat
  BY DEF Layer
<1>2. \E k \in S : \A j \in S : k <= j
  BY <1>1, SmallestNat
<1>3. QED
  BY <1>2

(* Where an iterator that has run off its list goes on. *)
LEMMA FirstValid ==
  ASSUME NEW fs, NEW fd, NEW fn, NEW next, NEW M, NEW own, NEW rank, NEW length,
         Chained(fs, fd, fn, next, M, own, rank, length),
         NEW it, IterType(it), it.ptr = NULL
  PROVE  /\ IterType(findFirstValid(it, fs))
         /\ IterFits(findFirstValid(it, fs), fs, next, M, own)
         /\ Left(findFirstValid(it, fs), M, own, rank) = Later(it.layer, M, own)
<1> DEFINE later == {k \in Layer : k > it.layer /\ fs[k] # NULL}
           m == CHOOSE k \in later : \A j \in later : k <= j
           v == findFirstValid(it, fs)
<1>1. v = IF later = {} THEN End ELSE [layer |-> m, ptr |-> fs[m], prev |-> NULL]
  BY DEF findFirstValid
<1>2. it.layer \in Layer /\ Layer \subseteq Nat /\ LayerCount \in Layer
  BY GridAssumption DEF IterType, Layer
<1>3. M \subseteq Object /\ \A p \in M : own[p] \in SList
  BY DEF Chained, Threaded
<1>4. \A p \in M : own[p][1] \in Layer /\ (own[p][2] = "listed" <=> own[p] = ListOf(own[p][1]))
  BY <1>3, SListFacts
<1>5. \A p \in Later(it.layer, M, own) : own[p][1] \in later
  <2> SUFFICES ASSUME NEW p \in Later(it.layer, M, own) PROVE own[p][1] \in later
    OBVIOUS
  <2>1. p \in M /\ own[p] = ListOf(own[p][1]) /\ own[p][1] \in Layer /\ own[p][1] > it.layer
    BY <1>4 DEF Later, On
  <2>2. fs[own[p][1]] # NULL
    BY <2>1, HeadFacts
  <2>3. QED
    BY <2>1, <2>2
<1>6. CASE later = {}
  <2>1. v = End
    BY <1>1, <1>6
  <2>2. Later(it.layer, M, own) = {}
    BY <1>5, <1>6
  <2>3. QED
    BY <2>1, <2>2, <1>2 DEF End, IterType, IterFits, Left
<1>7. CASE later # {}
  <2>1. later \subseteq Layer
    OBVIOUS
  <2>2. m \in later /\ \A j \in later : m <= j
    <3> HIDE DEF later
    <3> QED
      BY <2>1, <1>7, SmallestLayer
  <2> HIDE DEF m
  <2>3. v = [layer |-> m, ptr |-> fs[m], prev |-> NULL] /\ m \in Layer /\ fs[m] # NULL /\ m > it.layer
    BY <1>1, <1>7, <2>2
  <2>4. /\ NULL \notin M /\ fs[m] \in M /\ own[fs[m]] = ListOf(m)
        /\ \A p \in M : own[p] = ListOf(m) => rank[p] <= rank[fs[m]]
    <3>1. m \in Layer /\ fs[m] # NULL
      BY <2>3
    <3> HIDE DEF later, v
    <3>2. \A l \in Layer :
            fs[l] # NULL => /\ fs[l] \in M /\ own[fs[l]] = ListOf(l)
                            /\ \A p \in M : own[p] = ListOf(l) => rank[p] <= rank[fs[l]]
      BY HeadFacts
    <3>3. NULL \notin M
      BY HeadFacts
    <3>4. QED
      BY <3>1, <3>2, <3>3
  <2>5. IterType(v)
    BY <2>3, <2>4, <1>3 DEF IterType
  <2>6. IterFits(v, fs, next, M, own)
    BY <2>3, <2>4 DEF IterFits
  <2>7. Left(v, M, own, rank) = Later(m, M, own) \cup Below(M, own, rank, ListOf(m), rank[fs[m]])
    BY <2>3 DEF Left
  <2>8. Below(M, own, rank, ListOf(m), rank[fs[m]]) = {p \in On(M, own, "listed") : own[p][1] = m}
    BY <2>3, <2>4, <1>4, SListFacts DEF Below, On
  <2>9. \A p \in On(M, own, "listed") : own[p][1] > it.layer <=> own[p][1] > m \/ own[p][1] = m
    <3> SUFFICES ASSUME NEW p \in On(M, own, "listed")
                 PROVE  own[p][1] > it.layer <=> own[p][1] > m \/ own[p][1] = m
      OBVIOUS
    <3>1. own[p][1] \in Layer /\ own[p][1] > it.layer => own[p][1] \in later
      BY <1>5, <1>4 DEF Later, On
    <3>2. own[p][1] \in Nat /\ m \in Nat /\ it.layer \in Nat
      BY <1>2, <1>4, <2>3 DEF On
    <3>3. QED
      BY <3>1, <3>2, <2>2, <2>3, <1>4 DEF On
  <2>10. Left(v, M, own, rank) = Later(it.layer, M, own)
    BY <2>7, <2>8, <2>9 DEF Later
  <2>11. QED
    BY <2>5, <2>6, <2>10
<1>8. QED
  BY <1>6, <1>7

(* The first object of a pass: all are left. *)
LEMMA AtBegin ==
  ASSUME NEW fs, NEW fd, NEW fn, NEW next, NEW M, NEW own, NEW rank, NEW length,
         Chained(fs, fd, fn, next, M, own, rank, length)
  PROVE  /\ IterType(beginAll(fs))
         /\ IterFits(beginAll(fs), fs, next, M, own)
         /\ Left(beginAll(fs), M, own, rank) = On(M, own, "listed")
<1> DEFINE it == [layer |-> 1, ptr |-> fs[1], prev |-> NULL]
<1>1. beginAll(fs) = findFirstValid(it, fs)
  BY DEF beginAll
<1>2. 1 \in Layer /\ \A l \in Layer : l \in Nat /\ (l > 1 \/ l = 1)
  BY GridAssumption DEF Layer
<1>3. M \subseteq Object /\ \A p \in M : own[p] \in SList
  BY DEF Chained, Threaded
<1>4. \A p \in M : own[p][1] \in Layer /\ (own[p][2] = "listed" <=> own[p] = ListOf(own[p][1]))
  BY <1>3, SListFacts
<1>5. \A p \in On(M, own, "listed") : own[p][1] > 1 \/ own[p] = ListOf(1)
  BY <1>2, <1>4 DEF On
<1>6. CASE fs[1] = NULL
  <2>1. IterType(it) /\ it.ptr = NULL
    BY <1>2, <1>6 DEF IterType
  <2>2. \A p \in M : own[p] # ListOf(1)
    BY <1>2, <1>6, HeadFacts
  <2>3. Later(1, M, own) = On(M, own, "listed")
    BY <2>2, <1>5 DEF Later, On
  <2>4. it.layer = 1
    OBVIOUS
  <2> HIDE DEF it
  <2>5. QED
    BY <2>1, <2>3, <2>4, <1>1, FirstValid
<1>7. CASE fs[1] # NULL
  <2>1. beginAll(fs) = it
    BY <1>1, <1>7 DEF findFirstValid
  <2>2. \A l \in Layer :
          fs[l] # NULL => /\ fs[l] \in M /\ own[fs[l]] = ListOf(l)
                          /\ \A p \in M : own[p] = ListOf(l) => rank[p] <= rank[fs[l]]
    BY HeadFacts
  <2>3. /\ fs[1] \in M /\ own[fs[1]] = ListOf(1)
        /\ \A p \in M : own[p] = ListOf(1) => rank[p] <= rank[fs[1]]
    BY <2>2, <1>2, <1>7
  <2>4. IterType(it)
    BY <2>3, <1>2, <1>3 DEF IterType
  <2>5. IterFits(it, fs, next, M, own)
    BY <2>3 DEF IterFits
  <2>6. Left(it, M, own, rank) = Later(1, M, own) \cup Below(M, own, rank, ListOf(1), rank[fs[1]])
    BY <1>7 DEF Left
  <2>7. Below(M, own, rank, ListOf(1), rank[fs[1]]) = {p \in On(M, own, "listed") : own[p] = ListOf(1)}
    BY <2>3, <1>2, SListFacts DEF Below, On
  <2>8. Left(it, M, own, rank) = On(M, own, "listed")
    BY <2>6, <2>7, <1>5 DEF Later
  <2>9. QED
    BY <2>1, <2>4, <2>5, <2>8
<1>8. QED
  BY <1>6, <1>7

(* The object an iterator names, and the one behind it. *)
LEMMA BehindIter ==
  ASSUME NEW fs, NEW fd, NEW fn, NEW next, NEW M, NEW own, NEW rank, NEW length,
         Chained(fs, fd, fn, next, M, own, rank, length),
         NEW it, IterType(it), IterFits(it, fs, next, M, own), it.ptr # NULL
  PROVE  /\ it.ptr \in M /\ own[it.ptr] = ListOf(it.layer) /\ it.layer \in Layer
         /\ rank[it.ptr] \in Nat
         /\ IF next[it.ptr] = NULL THEN rank[it.ptr] = 1
            ELSE /\ next[it.ptr] \in M \ {it.ptr} /\ own[next[it.ptr]] = ListOf(it.layer)
                 /\ rank[next[it.ptr]] = rank[it.ptr] - 1
         /\ \A p \in M : own[p] = ListOf(it.layer) =>
              rank[p] \in Nat /\ rank[p] >= 1 /\ (rank[p] = rank[it.ptr] => p = it.ptr)
         /\ Left(it, M, own, rank)
              = Later(it.layer, M, own) \cup Below(M, own, rank, ListOf(it.layer), rank[it.ptr])
         /\ it.ptr \notin Later(it.layer, M, own)
<1> DEFINE o == it.ptr
           l == it.layer
<1>1. o \in M /\ own[o] = ListOf(l) /\ l \in Layer
  BY DEF IterFits, IterType
<1>2. /\ rank \in [Object -> Nat] /\ M \subseteq Object /\ NULL \notin M /\ NoStop[ListOf(l)] = NULL
      /\ ListOf(l)[1] = l /\ l \in Nat /\ length \in [SList -> Nat] /\ ListOf(l) \in SList
  BY <1>1, GridAssumption, SListFacts DEF Chained, Threaded, Layer
<1>3. \A p \in M : rank[p] \in 1 .. length[own[p]] /\ LinkFits(NoStop, next, M, own, rank, p)
  BY DEF Chained, Threaded, LinksFit
<1>4. \A p \in M : own[p] = ListOf(l) => rank[p] \in Nat /\ rank[p] >= 1 /\ (rank[p] = rank[o] => p = o)
  BY <1>1, <1>2, <1>3 DEF Chained, Threaded, RanksDiffer
<1>5. IF next[o] = NULL THEN rank[o] = 1
      ELSE next[o] \in M \ {o} /\ own[next[o]] = ListOf(l) /\ rank[next[o]] = rank[o] - 1
  <2>1. LinkFits(NoStop, next, M, own, rank, o)
    BY <1>1, <1>3
  <2>2. rank[o] # rank[o] - 1
    BY <1>1, <1>4
  <2>3. QED
    BY <2>1, <2>2, <1>1, <1>2 DEF LinkFits
<1>6. Left(it, M, own, rank) = Later(l, M, own) \cup Below(M, own, rank, ListOf(l), rank[o])
  BY DEF Left
<1>7. o \notin Later(l, M, own)
  BY <1>1, <1>2 DEF Later
<1>8. QED
  BY <1>1, <1>4, <1>5, <1>6, <1>7

(* Grid::iterator::operator++ leaves one object behind. *)
LEMMA AtAdvance ==
  ASSUME NEW fs, NEW fd, NEW fn, NEW next, NEW M, NEW own, NEW rank, NEW length,
         Chained(fs, fd, fn, next, M, own, rank, length),
         NEW it, IterType(it), IterFits(it, fs, next, M, own), it.ptr # NULL,
         NEW it2, it2 = findFirstValid([layer |-> it.layer, ptr |-> next[it.ptr], prev |-> it.ptr], fs)
  PROVE  /\ IterType(it2) /\ IterFits(it2, fs, next, M, own)
         /\ Left(it2, M, own, rank) = Left(it, M, own, rank) \ {it.ptr}
<1> DEFINE o == it.ptr
           l == it.layer
           at == [layer |-> l, ptr |-> next[o], prev |-> o]
<1>1. /\ o \in M /\ own[o] = ListOf(l) /\ l \in Layer /\ rank[o] \in Nat
      /\ IF next[o] = NULL THEN rank[o] = 1
         ELSE next[o] \in M \ {o} /\ own[next[o]] = ListOf(l) /\ rank[next[o]] = rank[o] - 1
      /\ \A p \in M : own[p] = ListOf(l) => rank[p] \in Nat /\ rank[p] >= 1 /\ (rank[p] = rank[o] => p = o)
      /\ Left(it, M, own, rank) = Later(l, M, own) \cup Below(M, own, rank, ListOf(l), rank[o])
      /\ o \notin Later(l, M, own)
  BY BehindIter
<1>2. M \subseteq Object
  BY DEF Chained, Threaded
<1>3. CASE next[o] = NULL
  <2>1. IterType(at) /\ at.ptr = NULL /\ at.layer = l
    BY <1>1, <1>2, <1>3 DEF IterType
  <2>2. Below(M, own, rank, ListOf(l), rank[o]) = {o}
    BY <1>1, <1>3 DEF Below
  <2> HIDE DEF at, l, o
  <2>3. it2 = findFirstValid(at, fs)
    BY DEF at, l, o
  <2>4. IterType(it2) /\ IterFits(it2, fs, next, M, own) /\ Left(it2, M, own, rank) = Later(l, M, own)
    BY <2>1, <2>3, FirstValid
  <2>5. QED
    BY <2>2, <2>4, <1>1 DEF o
<1>4. CASE next[o] # NULL
  <2>1. it2 = at
    BY <1>4 DEF findFirstValid
  <2>2. IterType(at)
    BY <1>1, <1>2, <1>4 DEF IterType
  <2>3. IterFits(at, fs, next, M, own)
    <3>1. o # NULL
      OBVIOUS
    <3>2. QED
      BY <3>1, <1>1, <1>4 DEF IterFits
  <2>4. Left(at, M, own, rank) = Later(l, M, own) \cup Below(M, own, rank, ListOf(l), rank[o] - 1)
    BY <1>1, <1>4 DEF Left
  <2>5. Below(M, own, rank, ListOf(l), rank[o] - 1) = Below(M, own, rank, ListOf(l), rank[o]) \ {o}
    BY <1>1 DEF Below
  <2>6. Left(at, M, own, rank) = Left(it, M, own, rank) \ {o}
    BY <2>4, <2>5, <1>1
  <2>7. QED
    BY <2>1, <2>2, <2>3, <2>6
<1>5. QED
  BY <1>3, <1>4


(* Erasing an object leaves it behind as well. *)
GoesOn(it, o, fs2, next, it2) ==
  it.ptr = o /\ it2 = findFirstValid([it EXCEPT !.ptr = next[o]], fs2)

Bypassed(it, o, fs, next, fs2, next2) ==
  /\ fs2[it.layer] = IF fs[it.layer] = o THEN next[o] ELSE fs[it.layer]
  /\ it.prev # NULL => next2[it.prev] = next[o]

LeftBehind(o, it, M, own, rank, it2, M2, rank2) ==
  Left(it2, M2, own, rank2) = Left(it, M, own, rank) \ {o}

LEMMA AtErase ==
  ASSUME NEW fs, NEW fd, NEW fn, NEW next, NEW M, NEW own, NEW rank, NEW length,
         Chained(fs, fd, fn, next, M, own, rank, length),
         NEW it, IterType(it), IterFits(it, fs, next, M, own), it.ptr # NULL,
         NEW fs2, NEW next2, NEW o, NEW M2, NEW rank2, NEW length2,
         Dropped(M, own, rank, length, o, M2, rank2, length2),
         Chained(fs2, fd, fn, next2, M2, own, rank2, length2),
         Bypassed(it, o, fs, next, fs2, next2), NEW it2, GoesOn(it, o, fs2, next, it2)
  PROVE  /\ IterType(it2) /\ IterFits(it2, fs2, next2, M2, own)
         /\ LeftBehind(o, it, M, own, rank, it2, M2, rank2)
<1> USE DEF LeftBehind
<1> DEFINE l == it.layer
           at == [it EXCEPT !.ptr = next[o]]
<1>0. /\ o = it.ptr /\ it2 = findFirstValid(at, fs2)
      /\ M2 = M \ {o} /\ rank2 = RankWithout(own, rank, o)
      /\ fs2[l] = IF fs[l] = o THEN next[o] ELSE fs[l]
      /\ it.prev # NULL => next2[it.prev] = next[o]
  BY DEF GoesOn, Dropped, Bypassed
<1>1. /\ o \in M /\ own[o] = ListOf(l) /\ l \in Layer /\ rank[o] \in Nat
      /\ IF next[o] = NULL THEN rank[o] = 1
         ELSE next[o] \in M \ {o} /\ own[next[o]] = ListOf(l) /\ rank[next[o]] = rank[o] - 1
      /\ \A p \in M : own[p] = ListOf(l) => rank[p] \in Nat /\ rank[p] >= 1 /\ (rank[p] = rank[o] => p = o)
      /\ Left(it, M, own, rank) = Later(l, M, own) \cup Below(M, own, rank, ListOf(l), rank[o])
      /\ o \notin Later(l, M, own)
  BY <1>0, BehindIter
<1>2. M \subseteq Object /\ NULL \notin M
  BY GridAssumption DEF Chained, Threaded
<1>3. \A p \in M : own[p] = ListOf(l) => rank2[p] = IF rank[p] > rank[o] THEN rank[p] - 1 ELSE rank[p]
  BY <1>0, <1>1, <1>2 DEF RankWithout
<1>4. Later(l, M2, own) = Later(l, M, own)
  BY <1>0, <1>1 DEF Later, On
<1>5. at = [layer |-> l, ptr |-> next[o], prev |-> it.prev] /\ it.prev \in Object \cup {NULL}
  BY DEF IterType
<1>6. CASE next[o] = NULL
  <2>1. IterType(at) /\ at.ptr = NULL /\ at.layer = l
    BY <1>1, <1>5, <1>6 DEF IterType
  <2>2. Below(M, own, rank, ListOf(l), rank[o]) = {o}
    BY <1>1, <1>6 DEF Below
  <2>3. Chained(fs2, fd, fn, next2, M2, own, rank2, length2) /\ it2 = findFirstValid(at, fs2)
    BY <1>0
  <2> HIDE DEF at
  <2>4. IterType(it2) /\ IterFits(it2, fs2, next2, M2, own) /\ Left(it2, M2, own, rank2) = Later(l, M2, own)
    BY <2>1, <2>3, FirstValid
  <2>5. Left(it2, M2, own, rank2) = Left(it, M, own, rank) \ {o}
    BY <2>2, <2>4, <1>1, <1>4
  <2>6. QED
    BY <2>4, <2>5
<1>7. CASE next[o] # NULL
  <2>1. it2 = at
    BY <1>0, <1>7, <1>5 DEF findFirstValid
  <2>2. IterType(at)
    BY <1>1, <1>2, <1>5, <1>7 DEF IterType
  <2>3. IterFits(at, fs2, next2, M2, own)
    <3>1. it.prev = NULL => fs2[l] = next[o]
      BY <1>0 DEF IterFits
    <3>2. it.prev # NULL => it.prev \in M /\ next[it.prev] = o
      BY <1>0 DEF IterFits
    <3>3. it.prev # NULL => it.prev \in M2
      BY <3>2, <1>0, <1>1, <1>7
    <3>4. QED
      BY <3>1, <3>2, <3>3, <1>0, <1>1, <1>5, <1>7 DEF IterFits
  <2>4. rank2[next[o]] = rank[o] - 1
    BY <1>1, <1>3, <1>7
  <2>5. Left(at, M2, own, rank2) = Later(l, M2, own) \cup Below(M2, own, rank2, ListOf(l), rank[o] - 1)
    <3> HIDE DEF at
    <3>1. at.ptr # NULL /\ at.ptr = next[o] /\ at.layer = l
      BY <1>5, <1>7
    <3>2. QED
      BY <3>1, <2>4 DEF Left
  <2>6. Below(M2, own, rank2, ListOf(l), rank[o] - 1) = Below(M, own, rank, ListOf(l), rank[o]) \ {o}
    <3>1. \A p \in M2 : own[p] = ListOf(l) => (rank2[p] <= rank[o] - 1 <=> rank[p] <= rank[o])
      BY <1>0, <1>1, <1>3
    <3>2. QED
      BY <1>0, <3>1 DEF Below
  <2>7. Left(at, M2, own, rank2) = Left(it, M, own, rank) \ {o}
    BY <2>5, <2>6, <1>1, <1>4
  <2>8. QED
    BY <2>1, <2>2, <2>3, <2>7
<1>8. QED
  BY <1>6, <1>7

-----------------------------------------------------------------------------
(***************************************************************************)
(* The D lists: one for each square, from its guard to the next.           *)
(***************************************************************************)
DList == Layer \X Cell
NextGuard == [k \in DList |-> guard(k[1], k[2] + 1)]

Meshed(next, prev, D, own, rank, length) ==
  /\ next \in [Node -> Node \cup {NULL}] /\ prev \in [Node -> Node \cup {NULL}]
  /\ Threaded(DList, NextGuard, next, next, D, own, rank, length)
  /\ \A x \in D \cup DList : prev[next[x]] = x
  /\ \A o \in D : prev[o] \in D \cup DList /\ next[prev[o]] = o

LEMMA CellFacts ==
  /\ Cell \subseteq Nat /\ NoCell \notin Cell /\ NoCell \in Nat
  /\ \A c \in Cell : c + 1 \in 0 .. NoCell /\ c \in 0 .. NoCell
<1>1. SquaresH * SquaresV \in Nat
  BY GridAssumption
<1> DEFINE n == SquaresH * SquaresV
<1> HIDE DEF n
<1>2. n \in Nat
  BY <1>1 DEF n
<1>3. Cell = 0 .. n - 1 /\ NoCell = n
  BY DEF Cell, NoCell, n
<1>4. QED
  BY <1>2, <1>3

LEMMA GuardFacts ==
  /\ \A l \in Layer, c \in Cell : /\ guard(l, c) \in DList /\ NextGuard[guard(l, c)] = guard(l, c + 1)
                                  /\ guard(l, c)[1] = l /\ guard(l, c)[2] = c
  /\ \A l \in Layer, c \in 0 .. NoCell : guard(l, c) \in Guard
  /\ \A k \in DList : k[1] \in Layer /\ k[2] \in Cell /\ k = guard(k[1], k[2])
  /\ DList \subseteq Guard /\ \A k \in DList : NextGuard[k] \in Guard
  /\ Guard \subseteq Node /\ Object \subseteq Node /\ Node = Object \cup Guard
  /\ \A g \in Guard : g \notin Object /\ g # NULL
  /\ NULL \notin Object /\ NULL \notin Node
<1>1. Guard = Layer \X (0 .. NoCell)
  BY DEF Guard, NoCell
<1>2. \A g \in Guard : g \notin Object /\ g # NULL
  BY GridAssumption DEF Guard, Layer
<1>3. DList \subseteq Guard
  BY <1>1, CellFacts DEF DList
<1>4. \A l \in Layer, c \in Cell :
         /\ guard(l, c) \in DList /\ NextGuard[guard(l, c)] = guard(l, c + 1)
         /\ guard(l, c)[1] = l /\ guard(l, c)[2] = c
  BY DEF DList, NextGuard, guard
<1>5. \A l \in Layer, c \in 0 .. NoCell : guard(l, c) \in Guard
  BY <1>1 DEF guard
<1>6. \A k \in DList : k[1] \in Layer /\ k[2] \in Cell /\ k = guard(k[1], k[2])
  BY DEF DList, guard
<1>7. ASSUME NEW k \in DList PROVE NextGuard[k] \in Guard
  <2>1. k[1] \in Layer /\ k[2] \in Cell /\ k[2] + 1 \in 0 .. NoCell
    BY <1>6, CellFacts
  <2>2. guard(k[1], k[2] + 1) \in Guard
    BY <2>1, <1>5
  <2>3. QED
    BY <2>2 DEF NextGuard
<1>8. NULL \notin Object
  BY GridAssumption
<1>9. QED
  BY <1>2, <1>3, <1>4, <1>5, <1>6, <1>7, <1>8 DEF Node

LEMMA MeshedFacts ==
  ASSUME NEW next, NEW prev, NEW D, NEW own, NEW rank, NEW length,
         Meshed(next, prev, D, own, rank, length)
  PROVE  /\ D \subseteq Object /\ D \cup DList \subseteq Node /\ D \cap DList = {}
         /\ \A x \in D \cup DList : next[x] \in D \cup Guard
         /\ \A k \in DList : NextGuard[k] \notin D
         /\ \A o \in D : next[o] # o
<1>1. D \subseteq Object /\ own \in [Object -> DList] /\ rank \in [Object -> Nat] /\ length \in [DList -> Nat]
  BY DEF Meshed, Threaded
<1>2. \A k \in DList : NextGuard[k] \in Guard /\ NextGuard[k] \notin D
  BY <1>1, GuardFacts
<1>3. \A k \in DList : next[k] \in D \cup Guard
  BY <1>1, <1>2 DEF Meshed, Threaded, HeadsFit
<1>4. \A o \in D : next[o] \in D \cup Guard /\ next[o] # o
  <2> SUFFICES ASSUME NEW o \in D PROVE next[o] \in D \cup Guard /\ next[o] # o
    OBVIOUS
  <2>1. LinkFits(NextGuard, next, D, own, rank, o) /\ own[o] \in DList /\ rank[o] \in Nat
    BY <1>1 DEF Meshed, Threaded, LinksFit
  <2>2. QED
    BY <2>1, <1>2 DEF LinkFits
<1>5. D \cup DList \subseteq Node /\ D \cap DList = {}
  BY <1>1, GuardFacts
<1>6. QED
  BY <1>1, <1>2, <1>3, <1>4, <1>5

(* Grid::resize: the guards follow one another, with nothing between. *)
LEMMA MeshedFresh ==
  ASSUME NEW own \in [Object -> DList], NEW rank \in [Object -> Nat]
  PROVE  Meshed(FreshNextD, FreshPrevD, {}, own, rank, [k \in DList |-> 0])
<1> DEFINE zero == [k \in DList |-> 0]
<1>1. FreshNextD \in [Node -> Node \cup {NULL}]
  <2>1. \A n \in Guard : n[1] \in Layer /\ n[2] \in 0 .. NoCell
    BY DEF Guard, NoCell
  <2>2. \A n \in Guard : n[2] < NoCell => n[2] + 1 \in 0 .. NoCell
    BY <2>1, CellFacts
  <2>3. \A n \in Guard : n[2] < NoCell => guard(n[1], n[2] + 1) \in Node
    BY <2>1, <2>2, GuardFacts
  <2>4. QED
    BY <2>3 DEF FreshNextD
<1>2. FreshPrevD \in [Node -> Node \cup {NULL}]
  <2>1. \A n \in Guard : n[1] \in Layer /\ n[2] \in 0 .. NoCell
    BY DEF Guard, NoCell
  <2>2. \A n \in Guard : n[2] > 0 => n[2] - 1 \in 0 .. NoCell
    BY <2>1, CellFacts
  <2>3. \A n \in Guard : n[2] > 0 => guard(n[1], n[2] - 1) \in Node
    BY <2>1, <2>2, GuardFacts
  <2>4. QED
    BY <2>3 DEF FreshPrevD
<1>3. \A k \in DList : FreshNextD[k] = NextGuard[k] /\ FreshPrevD[NextGuard[k]] = k
  <2> SUFFICES ASSUME NEW k \in DList
               PROVE  FreshNextD[k] = NextGuard[k] /\ FreshPrevD[NextGuard[k]] = k
    OBVIOUS
  <2>1. k[1] \in Layer /\ k[2] \in Cell /\ k = guard(k[1], k[2]) /\ k \in Guard /\ k \in Node
    BY GuardFacts
  <2>2. k[2] \in Nat /\ k[2] < NoCell /\ k[2] + 1 \in 0 .. NoCell
    BY <2>1, CellFacts DEF Cell, NoCell
  <2>3. NextGuard[k] = guard(k[1], k[2] + 1) /\ NextGuard[k] \in Guard /\ NextGuard[k] \in Node
    BY GuardFacts DEF NextGuard
  <2>4. FreshNextD[k] = NextGuard[k]
    BY <2>1, <2>2, <2>3 DEF FreshNextD
  <2>5. NextGuard[k][1] = k[1] /\ NextGuard[k][2] = k[2] + 1
    BY <2>3 DEF guard
  <2>6. FreshPrevD[NextGuard[k]] = guard(k[1], (k[2] + 1) - 1)
    BY <2>2, <2>3, <2>5 DEF FreshPrevD
  <2>7. (k[2] + 1) - 1 = k[2]
    BY <2>2
  <2>8. QED
    BY <2>1, <2>4, <2>6, <2>7
<1>4. Threaded(DList, NextGuard, FreshNextD, FreshNextD, {}, own, rank, zero)
  <2>1. zero \in [DList -> Nat] /\ \A k \in DList : zero[k] = 0
    OBVIOUS
  <2> HIDE DEF zero
  <2>2. QED
    BY <2>1, <1>3 DEF Threaded, HeadsFit, LinksFit, RanksDiffer
<1>5. QED
  BY <1>1, <1>2, <1>3, <1>4 DEF Meshed

(* insertAfter: an object linked behind the guard of a square. *)
LEMMA MeshedLink ==
  ASSUME NEW next, NEW prev, NEW D, NEW own, NEW rank, NEW length,
         Meshed(next, prev, D, own, rank, length), NEW o \in Object \ D, NEW k \in DList,
         NEW D2, NEW own2, NEW rank2, NEW length2,
         Pushed(D, own, rank, length, o, k, D2, own2, rank2, length2)
  PROVE  Meshed(LinkedNext(next, k, o), LinkedPrev(next, prev, k, o), D2, own2, rank2, length2)
<1> DEFINE next2 == LinkedNext(next, k, o)
           prev2 == LinkedPrev(next, prev, k, o)
<1>1. /\ next \in [Node -> Node \cup {NULL}] /\ prev \in [Node -> Node \cup {NULL}]
      /\ Threaded(DList, NextGuard, next, next, D, own, rank, length)
      /\ \A x \in D \cup DList : prev[next[x]] = x
      /\ \A q \in D : prev[q] \in D \cup DList /\ next[prev[q]] = q
  BY DEF Meshed
<1>2. /\ D \subseteq Object /\ D \cup DList \subseteq Node /\ D \cap DList = {}
      /\ \A x \in D \cup DList : next[x] \in D \cup Guard
      /\ o \in Node /\ k \in Node /\ o # k /\ o \notin Guard /\ o \notin DList
      /\ Guard \subseteq Node /\ next[k] \in Node /\ Object \subseteq Node
  BY MeshedFacts, GuardFacts
<1>3. /\ next2 \in [Node -> Node \cup {NULL}]
      /\ next2[o] = next[k] /\ next2[k] = o
      /\ \A x \in Node \ {o, k} : next2[x] = next[x]
  BY <1>1, <1>2 DEF LinkedNext
<1>4. /\ prev2 \in [Node -> Node \cup {NULL}]
      /\ \A x \in Node : prev2[x] = IF x = o THEN k ELSE IF x = next[k] THEN o ELSE prev[x]
  BY <1>1, <1>2 DEF LinkedPrev
<1> HIDE DEF next2, prev2
<1>5. Threaded(DList, NextGuard, next2, next2, D2, own2, rank2, length2)
  <2>1. LinkedFirst(DList, D, next, next, o, k, next2, next2)
    BY <1>2, <1>3 DEF LinkedFirst
  <2>2. QED
    BY <2>1, <1>1, ThreadedPush
<1>6. ASSUME NEW x \in (D \cup {o}) \cup DList PROVE prev2[next2[x]] = x
  <2>1. CASE x = o
    <3>1. next[k] # o
      BY <1>2
    <3>2. QED
      BY <2>1, <3>1, <1>2, <1>3, <1>4
  <2>2. CASE x = k
    BY <2>2, <1>2, <1>3, <1>4
  <2>3. CASE x # o /\ x # k
    <3>1. x \in D \cup DList /\ x \in Node /\ next2[x] = next[x]
      BY <2>3, <1>2, <1>3
    <3>2. prev[next[x]] = x /\ prev[next[k]] = k /\ next[x] \in D \cup Guard
      BY <3>1, <1>1, <1>2
    <3>3. next[x] # next[k] /\ next[x] # o /\ next[x] \in Node
      BY <3>2, <2>3, <1>2
    <3>4. QED
      BY <3>1, <3>2, <3>3, <1>4
  <2>4. QED
    BY <2>1, <2>2, <2>3
<1>7. ASSUME NEW q \in D \cup {o}
      PROVE  prev2[q] \in (D \cup {o}) \cup DList /\ next2[prev2[q]] = q
  <2>0. q \in Node
    BY <1>2
  <2>1. CASE q = o
    BY <2>1, <1>2, <1>3, <1>4
  <2>2. CASE q # o /\ q = next[k]
    BY <2>0, <2>2, <1>2, <1>3, <1>4
  <2>3. CASE q # o /\ q # next[k]
    <3>1. prev2[q] = prev[q] /\ prev[q] \in D \cup DList /\ next[prev[q]] = q
      BY <2>0, <2>3, <1>1, <1>4
    <3>2. prev[q] # k /\ prev[q] # o /\ prev[q] \in Node
      BY <3>1, <2>3, <1>2
    <3>3. QED
      BY <3>1, <3>2, <1>3
  <2>4. QED
    BY <2>1, <2>2, <2>3
<1>8. Meshed(next2, prev2, D2, own2, rank2, length2)
  <2>1. D2 = D \cup {o}
    BY DEF Pushed
  <2>2. QED
    BY <2>1, <1>3, <1>4, <1>5, <1>6, <1>7 DEF Meshed
<1>9. QED
  BY <1>8 DEF next2, prev2

(* An object unlinked from its square. *)
Without(link, at, to) == [n \in Node |-> IF n = at THEN to ELSE link[n]]

LEMMA MeshedUnlink ==
  ASSUME NEW next, NEW prev, NEW D, NEW own, NEW rank, NEW length,
         Meshed(next, prev, D, own, rank, length), NEW o \in D, NEW D2, NEW rank2, NEW length2,
         Dropped(D, own, rank, length, o, D2, rank2, length2)
  PROVE  Meshed(Without(next, prev[o], next[o]), Without(prev, next[o], prev[o]), D2, own, rank2, length2)
<1> DEFINE next2 == Without(next, prev[o], next[o])
           prev2 == Without(prev, next[o], prev[o])
<1>1. /\ next \in [Node -> Node \cup {NULL}] /\ prev \in [Node -> Node \cup {NULL}]
      /\ Threaded(DList, NextGuard, next, next, D, own, rank, length)
      /\ \A x \in D \cup DList : prev[next[x]] = x
      /\ \A q \in D : prev[q] \in D \cup DList /\ next[prev[q]] = q
  BY DEF Meshed
<1>2. /\ D \subseteq Object /\ D \cup DList \subseteq Node /\ D \cap DList = {}
      /\ \A x \in D \cup DList : next[x] \in D \cup Guard
      /\ \A j \in DList : NextGuard[j] \notin D
      /\ next[o] # o /\ next[o] \in D \cup Guard
      /\ Guard \subseteq Node /\ o \in Node /\ o \notin DList
  BY MeshedFacts, GuardFacts
<1>3. prev[o] \in D \cup DList /\ next[prev[o]] = o /\ prev[next[o]] = o /\ prev[o] # o
  BY <1>1, <1>2
<1>4. /\ next2 \in [Node -> Node \cup {NULL}]
      /\ \A x \in Node : next2[x] = IF x = prev[o] THEN next[o] ELSE next[x]
  BY <1>1, <1>2 DEF Without
<1>5. /\ prev2 \in [Node -> Node \cup {NULL}]
      /\ \A x \in Node : prev2[x] = IF x = next[o] THEN prev[o] ELSE prev[x]
  BY <1>1, <1>2 DEF Without
<1> HIDE DEF next2, prev2
<1>6. \A x \in D \cup DList : next[x] = o <=> x = prev[o]
  BY <1>1, <1>3
<1>7. Threaded(DList, NextGuard, next2, next2, D2, own, rank2, length2)
  <2>1. \A j \in DList : next2[j] = IF next[j] = o THEN next[o] ELSE next[j]
    BY <1>2, <1>4, <1>6
  <2>2. \A p \in D \ {o} : next2[p] = IF next[p] = o THEN next[o] ELSE next[p]
    BY <1>2, <1>4, <1>6
  <2>3. PassedBy(DList, NextGuard, D, next, next, o, next2, next2)
    BY <2>1, <2>2, <1>2 DEF PassedBy
  <2>4. QED
    BY <2>3, <1>1, ThreadedDrop
<1>8. ASSUME NEW x \in (D \ {o}) \cup DList PROVE prev2[next2[x]] = x
  <2>0. x \in D \cup DList /\ x \in Node /\ x # o /\ next[x] \in Node /\ next[o] \in Node
    BY <1>2
  <2>1. CASE x = prev[o]
    BY <2>0, <2>1, <1>4, <1>5
  <2>2. CASE x # prev[o]
    <3>1. next2[x] = next[x] /\ prev[next[x]] = x
      BY <2>0, <2>2, <1>1, <1>4
    <3>2. next[x] # next[o]
      BY <3>1, <2>0, <1>3
    <3>3. QED
      BY <3>1, <3>2, <2>0, <1>5
  <2>3. QED
    BY <2>1, <2>2
<1>9. ASSUME NEW q \in D \ {o}
      PROVE  prev2[q] \in (D \ {o}) \cup DList /\ next2[prev2[q]] = q
  <2>0. q \in Node /\ prev[q] \in D \cup DList /\ next[prev[q]] = q /\ prev[o] \in Node
    BY <1>1, <1>2, <1>3
  <2>1. CASE q = next[o]
    BY <2>0, <2>1, <1>3, <1>4, <1>5
  <2>2. CASE q # next[o]
    <3>1. prev2[q] = prev[q] /\ prev[q] # o /\ prev[q] # prev[o] /\ prev[q] \in Node
      BY <2>0, <2>2, <1>2, <1>3, <1>5
    <3>2. QED
      BY <3>1, <2>0, <1>4
  <2>3. QED
    BY <2>1, <2>2
<1>10. Meshed(next2, prev2, D2, own, rank2, length2)
  <2>1. D2 = D \ {o}
    BY DEF Dropped
  <2>2. QED
    BY <2>1, <1>4, <1>5, <1>7, <1>8, <1>9 DEF Meshed
<1>11. QED
  BY <1>10 DEF next2, prev2

(* A new object's links are no part of the squares. *)
LEMMA MeshedNew ==
  ASSUME NEW next, NEW prev, NEW D, NEW own, NEW rank, NEW length,
         Meshed(next, prev, D, own, rank, length), NEW o \in Object \ D
  PROVE  Meshed(NewNode(next, o), NewNode(prev, o), D, own, rank, length)
<1> DEFINE next2 == NewNode(next, o)
           prev2 == NewNode(prev, o)
<1>1. /\ next \in [Node -> Node \cup {NULL}] /\ prev \in [Node -> Node \cup {NULL}]
      /\ Threaded(DList, NextGuard, next, next, D, own, rank, length)
      /\ \A x \in D \cup DList : prev[next[x]] = x
      /\ \A q \in D : prev[q] \in D \cup DList /\ next[prev[q]] = q
  BY DEF Meshed
<1>2. /\ D \cup DList \subseteq Node /\ o \notin D \cup DList /\ o \notin Guard /\ Guard \subseteq Node
      /\ \A x \in D \cup DList : next[x] \in D \cup Guard
  BY MeshedFacts, GuardFacts
<1>3. /\ next2 \in [Node -> Node \cup {NULL}] /\ prev2 \in [Node -> Node \cup {NULL}]
      /\ \A x \in Node \ {o} : next2[x] = next[x] /\ prev2[x] = prev[x]
  <2>1. o \in Node
    BY GuardFacts
  <2>2. QED
    BY <1>1, <2>1 DEF NewNode
<1> HIDE DEF next2, prev2
<1>4. Threaded(DList, NextGuard, next2, next2, D, own, rank, length)
  <2>1. (\A j \in DList : next2[j] = next[j]) /\ \A p \in D : next2[p] = next[p]
    BY <1>2, <1>3
  <2>2. QED
    BY <2>1, <1>1, ThreadedSame
<1>5. \A x \in D \cup DList : prev2[next2[x]] = x
  BY <1>1, <1>2, <1>3
<1>6. \A q \in D : prev2[q] \in D \cup DList /\ next2[prev2[q]] = q
  BY <1>1, <1>2, <1>3
<1>7. Meshed(next2, prev2, D, own, rank, length)
  BY <1>3, <1>4, <1>5, <1>6 DEF Meshed
<1>8. QED
  BY <1>7 DEF next2, prev2

-----------------------------------------------------------------------------
(***************************************************************************)
(* The inductive invariant.  M are the objects on the S lists and on the   *)
(* waiting lists, D those that are in a square as well.                    *)
(***************************************************************************)
Lists(M, own, rank, length) ==
  /\ Chained(firstS, firstDelayed, firstDelayedNoCol, nextS, M, own, rank, length)
  /\ \A l \in Layer : count[l] = length[ListOf(l)]
  /\ M \subseteq live

(* What waits for a square has one, what waits for none has none. *)
Placed(M, own) ==
  \A o \in M : /\ own[o][2] = "square" => cellIndex[o] \in Cell
               /\ own[o][2] = "none" => cellIndex[o] = NoCell

(* An object is behind the guard of its layer and of the square it was last put in. *)
Squares(M, own, D, dOwn, dRank, dLength) ==
  /\ Meshed(nextD, prevD, D, dOwn, dRank, dLength)
  /\ D = {o \in M : own[o][2] = "listed" /\ cellIndex[o] # NoCell}
  /\ \A o \in D : dOwn[o] = guard(own[o][1], cellIndex[o])
  /\ \A o \in M \ D : prevD[o] = NULL

(* The pass under way is over when the loop leaves it, and one that clears the *)
(* lists has all that they hold before it.                                     *)
Pass(M, own, rank) ==
  /\ IterFits(iter, firstS, nextS, M, own)
  /\ phase \in {"rest", "flush"} => iter.ptr = NULL
  /\ ~loaded => phase \in {"rest", "erase"} /\ On(M, own, "listed") = {}
  /\ phase = "clear" => On(M, own, "listed") = Left(iter, M, own, rank)

Shape(M, own, rank, length, D, dOwn, dRank, dLength) ==
  /\ Lists(M, own, rank, length) /\ Placed(M, own)
  /\ Squares(M, own, D, dOwn, dRank, dLength) /\ Pass(M, own, rank)

Typed ==
  /\ firstS \in [Layer -> Object \cup {NULL}] /\ nextS \in [Object -> Object \cup {NULL}]
  /\ count \in [Layer -> Nat]
  /\ firstDelayed \in [Layer -> Object \cup {NULL}]
  /\ firstDelayedNoCol \in [Layer -> Object \cup {NULL}]
  /\ cellIndex \in [Object -> Cell \cup {NoCell}]
  /\ deleteMe \subseteq live /\ live \subseteq Object
  /\ IterType(iter)
  /\ phase \in {"erase", "think", "flush", "rest", "clear"}
  /\ loaded \in BOOLEAN

GridInv ==
  Typed /\ \E M, own, rank, length, D, dOwn, dRank, dLength :
             Shape(M, own, rank, length, D, dOwn, dRank, dLength)

(* The set of objects that the lists stand for. *)
View(M, own, rank) ==
  /\ AllListed = On(M, own, "listed") /\ AllPending = M \ On(M, own, "listed")
  /\ Todo = Left(iter, M, own, rank)

-----------------------------------------------------------------------------
(* What the iterator has yet to visit, by the links and by the ranks. *)
LEMMA TodoHolds ==
  ASSUME NEW fs, NEW fd, NEW fn, NEW next, NEW M, NEW own, NEW rank, NEW length,
         Chained(fs, fd, fn, next, M, own, rank, length),
         NEW it, IterType(it), IterFits(it, fs, next, M, own)
  PROVE  (IF it.ptr = NULL THEN {}
          ELSE From(next, it.ptr) \cup UNION {From(next, fs[l]) : l \in it.layer + 1 .. LayerCount})
           = Left(it, M, own, rank)
<1>1. CASE it.ptr = NULL
  BY <1>1 DEF Left
<1>2. CASE it.ptr # NULL
  <2> DEFINE later == it.layer + 1 .. LayerCount
  <2>1. it.ptr \in M /\ own[it.ptr] = ListOf(it.layer) /\ it.layer \in Layer /\ LayerCount \in Nat
    BY <1>2, GridAssumption DEF IterFits, IterType
  <2>2. \A k \in SList : NoStop[k] = NULL
    BY DEF NoStop
  <2>3. From(next, it.ptr) = Below(M, own, rank, ListOf(it.layer), rank[it.ptr])
    BY <2>1, <2>2, FromFinds DEF Chained
  <2>4. /\ later \subseteq Layer /\ it.layer \in Nat
        /\ \A l \in Layer : l \in Nat /\ (l \in later <=> l > it.layer)
    BY <2>1 DEF Layer
  <2> HIDE DEF later
  <2>5. \A p \in M : own[p] \in SList
    BY DEF Chained, Threaded
  <2>6. \A p \in M : own[p][1] \in Layer /\ (own[p][2] = "listed" <=> own[p] = ListOf(own[p][1]))
    BY <2>5, SListFacts
  <2>7. \A l \in later : From(next, fs[l]) = Of(M, own, ListOf(l))
    BY <2>4, ListsHold
  <2>8. UNION {From(next, fs[l]) : l \in later} = UNION {Of(M, own, ListOf(l)) : l \in later}
    BY <2>7
  <2>9. UNION {Of(M, own, ListOf(l)) : l \in later} = Later(it.layer, M, own)
    <3>1. ASSUME NEW l \in later, NEW p \in Of(M, own, ListOf(l)) PROVE p \in Later(it.layer, M, own)
      BY <2>4, SListFacts DEF Of, Later, On
    <3>2. ASSUME NEW p \in Later(it.layer, M, own)
          PROVE  \E l \in later : p \in Of(M, own, ListOf(l))
      BY <2>4, <2>6 DEF Of, Later, On
    <3>3. QED
      BY <3>1, <3>2
  <2>10. QED
    BY <1>2, <2>3, <2>8, <2>9 DEF Left, later
<1>3. QED
  BY <1>1, <1>2

(* The set of objects that the lists stand for, in a state and in the next. *)
LEMMA Abstract ==
  ASSUME NEW M, NEW own, NEW rank, NEW length, Lists(M, own, rank, length),
         IterType(iter), IterFits(iter, firstS, nextS, M, own)
  PROVE  /\ View(M, own, rank)
         /\ \A l \in Layer : count[l] = Cardinality(Listed(l)) /\ count[l] \in 0 .. Cardinality(Object)
<1>1. Chained(firstS, firstDelayed, firstDelayedNoCol, nextS, M, own, rank, length)
  BY DEF Lists
<1>2. /\ UNION {From(nextS, firstS[l]) : l \in Layer} = On(M, own, "listed")
      /\ UNION {From(nextS, firstDelayed[l]) \cup From(nextS, firstDelayedNoCol[l]) : l \in Layer}
           = M \ On(M, own, "listed")
      /\ \A l \in Layer : From(nextS, firstS[l]) = Of(M, own, ListOf(l))
  BY <1>1, ListsHold
<1>3. Todo = Left(iter, M, own, rank)
  BY <1>1, TodoHolds DEF Todo, Listed
<1>4. ASSUME NEW l \in Layer
      PROVE  count[l] = Cardinality(Listed(l)) /\ count[l] \in 0 .. Cardinality(Object)
  <2>1. ListOf(l) \in SList
    BY SListFacts
  <2>2. Cardinality(Of(M, own, ListOf(l))) = length[ListOf(l)] /\ length[ListOf(l)] \in 0 .. Cardinality(Object)
    BY <1>1, <2>1, FromHead
  <2>3. QED
    BY <1>2, <2>2 DEF Lists, Listed
<1>5. QED
  BY <1>2, <1>3, <1>4 DEF View, AllListed, AllPending, Listed, Pending

LEMMA AbstractNext ==
  ASSUME NEW CONSTANT M, NEW CONSTANT own, NEW CONSTANT rank, NEW CONSTANT length,
         Lists(M, own, rank, length)', IterType(iter)', IterFits(iter, firstS, nextS, M, own)'
  PROVE  /\ View(M, own, rank)'
         /\ \A l \in Layer : count'[l] = Cardinality(Listed(l)') /\ count'[l] \in 0 .. Cardinality(Object)
<1>1. Chained(firstS', firstDelayed', firstDelayedNoCol', nextS', M, own, rank, length)
  BY DEF Lists
<1>2. /\ UNION {From(nextS', firstS'[l]) : l \in Layer} = On(M, own, "listed")
      /\ UNION {From(nextS', firstDelayed'[l]) \cup From(nextS', firstDelayedNoCol'[l]) : l \in Layer}
           = M \ On(M, own, "listed")
      /\ \A l \in Layer : From(nextS', firstS'[l]) = Of(M, own, ListOf(l))
  BY <1>1, ListsHold
<1>3. Todo' = Left(iter', M, own, rank)
  <2>1. IterType(iter') /\ IterFits(iter', firstS', nextS', M, own)
    OBVIOUS
  <2>2. QED
    BY <1>1, <2>1, TodoHolds DEF Todo, Listed
<1>4. ASSUME NEW l \in Layer
      PROVE  count'[l] = Cardinality(Listed(l)') /\ count'[l] \in 0 .. Cardinality(Object)
  <2>1. ListOf(l) \in SList
    BY SListFacts
  <2>2. Cardinality(Of(M, own, ListOf(l))) = length[ListOf(l)] /\ length[ListOf(l)] \in 0 .. Cardinality(Object)
    BY <1>1, <2>1, FromHead
  <2>3. QED
    BY <1>2, <2>2 DEF Lists, Listed
<1>5. QED
  BY <1>2, <1>3, <1>4 DEF View, AllListed, AllPending, Listed, Pending

(* The types, from the invariant. *)
LEMMA TypesHold ==
  ASSUME GridInv
  PROVE  TypeOK /\ CountIsLength
<1>1. PICK M, own, rank, length, D, dOwn, dRank, dLength :
        Shape(M, own, rank, length, D, dOwn, dRank, dLength)
  BY DEF GridInv
<1>2. Typed /\ Lists(M, own, rank, length) /\ IterFits(iter, firstS, nextS, M, own)
  BY <1>1 DEF GridInv, Shape, Pass
<1>3. \A l \in Layer : count[l] = Cardinality(Listed(l)) /\ count[l] \in 0 .. Cardinality(Object)
  BY <1>2, Abstract DEF Typed
<1>4. count \in [Layer -> 0 .. Cardinality(Object)]
  BY <1>2, <1>3 DEF Typed
<1>5. nextD \in [Node -> Node \cup {NULL}] /\ prevD \in [Node -> Node \cup {NULL}]
  BY <1>1 DEF Shape, Squares, Meshed
<1>6. TypeOK
  BY <1>2, <1>4, <1>5 DEF TypeOK, Typed, IterType
<1>7. QED
  BY <1>3, <1>6 DEF CountIsLength

(* Steps that leave the objects and the lists alone. *)
LEMMA ListsStay ==
  ASSUME NEW CONSTANT M, NEW CONSTANT own, NEW CONSTANT rank, NEW CONSTANT length,
         NEW CONSTANT D, NEW CONSTANT dOwn, NEW CONSTANT dRank, NEW CONSTANT dLength,
         Typed, Shape(M, own, rank, length, D, dOwn, dRank, dLength),
         UNCHANGED <<heads, links, cellIndex, live>>,
         deleteMe' \subseteq live, IterType(iter'), Pass(M, own, rank)', loaded' \in BOOLEAN,
         phase' \in {"erase", "think", "flush", "rest", "clear"}
  PROVE  /\ GridInv' /\ View(M, own, rank) /\ View(M, own, rank)'
         /\ AllListed' = AllListed /\ AllPending' = AllPending
<1>1. /\ firstS' = firstS /\ nextS' = nextS /\ nextD' = nextD /\ prevD' = prevD /\ count' = count
      /\ firstDelayed' = firstDelayed /\ firstDelayedNoCol' = firstDelayedNoCol
      /\ cellIndex' = cellIndex /\ live' = live
  BY DEF heads, links
<1>2. Typed'
  BY <1>1 DEF Typed, IterType
<1>3. Lists(M, own, rank, length)' /\ Placed(M, own)'
  BY <1>1 DEF Shape, Lists, Placed
<1>4. Squares(M, own, D, dOwn, dRank, dLength)'
  BY <1>1 DEF Shape, Squares
<1>5. Shape(M, own, rank, length, D, dOwn, dRank, dLength)'
  BY <1>3, <1>4 DEF Shape
<1>6. GridInv'
  BY <1>2, <1>5 DEF GridInv
<1>7. View(M, own, rank)
  BY Abstract DEF Typed, Shape, Pass
<1>8. View(M, own, rank)'
  BY <1>2, <1>3, AbstractNext DEF Typed, Pass
<1>9. QED
  BY <1>6, <1>7, <1>8 DEF View

(* The object an iterator names is one it has yet to visit. *)
LEMMA IterIsLeft ==
  ASSUME NEW fs, NEW fd, NEW fn, NEW next, NEW M, NEW own, NEW rank, NEW length,
         Chained(fs, fd, fn, next, M, own, rank, length),
         NEW it, IterType(it), IterFits(it, fs, next, M, own), it.ptr # NULL
  PROVE  it.ptr \in Left(it, M, own, rank) /\ it.ptr \in On(M, own, "listed")
<1>1. /\ it.ptr \in M /\ own[it.ptr] = ListOf(it.layer) /\ rank[it.ptr] \in Nat /\ it.layer \in Layer
      /\ Left(it, M, own, rank)
           = Later(it.layer, M, own) \cup Below(M, own, rank, ListOf(it.layer), rank[it.ptr])
  BY BehindIter
<1>2. it.ptr \in Below(M, own, rank, ListOf(it.layer), rank[it.ptr])
  BY <1>1 DEF Below
<1>3. QED
  BY <1>1, <1>2, SListFacts DEF On

(* At the end of a pass nothing is left to visit. *)
LEMMA TodoEmpty ==
  ASSUME iter.ptr = NULL
  PROVE  Todo = {}
BY DEF Todo

-----------------------------------------------------------------------------
(***************************************************************************)
(* The actions: each preserves the invariant and is a step of the set of   *)
(* objects.                                                                *)
(***************************************************************************)
LEMMA BeginPassStep ==
  ASSUME NEW CONSTANT p \in {"erase", "think", "clear"}, GridInv, BeginPass(p), p # "erase" => loaded
  PROVE  GridInv' /\ Set!Begin(p)
<1>1. PICK M, own, rank, length, D, dOwn, dRank, dLength :
        Shape(M, own, rank, length, D, dOwn, dRank, dLength)
  BY DEF GridInv
<1>2. Typed /\ Chained(firstS, firstDelayed, firstDelayedNoCol, nextS, M, own, rank, length)
  BY <1>1 DEF GridInv, Shape, Lists
<1>3. /\ iter' = beginAll(firstS) /\ firstS' = firstS /\ nextS' = nextS /\ loaded' = loaded
      /\ phase' = p /\ live' = live /\ deleteMe' = deleteMe /\ cellIndex' = cellIndex
  BY DEF BeginPass, heads, links
<1>4. /\ IterType(iter') /\ IterFits(iter', firstS', nextS', M, own)
      /\ Left(iter', M, own, rank) = On(M, own, "listed")
  BY <1>2, <1>3, AtBegin
<1>5. Pass(M, own, rank)'
  BY <1>1, <1>3, <1>4 DEF Shape, Pass
<1>6. /\ GridInv' /\ View(M, own, rank) /\ View(M, own, rank)'
      /\ AllListed' = AllListed /\ AllPending' = AllPending
  <2>1. UNCHANGED <<heads, links, cellIndex, live>>
    BY DEF BeginPass
  <2>2. deleteMe' \subseteq live /\ loaded' \in BOOLEAN /\ phase' \in {"erase", "think", "flush", "rest", "clear"}
    BY <1>2, <1>3 DEF Typed
  <2>3. QED
    BY <1>1, <1>2, <1>4, <1>5, <2>1, <2>2, ListsStay
<1>7. Set!Begin(p)
  BY <1>3, <1>4, <1>6 DEF View, Set!Begin
<1>8. QED
  BY <1>6, <1>7

LEMMA KeepStep ==
  ASSUME GridInv, Keep
  PROVE  GridInv' /\ \E o \in Object : Set!Keep(o)
<1>1. PICK M, own, rank, length, D, dOwn, dRank, dLength :
        Shape(M, own, rank, length, D, dOwn, dRank, dLength)
  BY DEF GridInv
<1>2. /\ Typed /\ IterType(iter) /\ IterFits(iter, firstS, nextS, M, own)
      /\ Chained(firstS, firstDelayed, firstDelayedNoCol, nextS, M, own, rank, length)
  BY <1>1 DEF GridInv, Typed, Shape, Lists, Pass
<1>3. /\ iter' = advance(iter) /\ firstS' = firstS /\ nextS' = nextS /\ loaded' = loaded
      /\ phase' = phase /\ live' = live /\ deleteMe' = deleteMe /\ cellIndex' = cellIndex
      /\ phase = "erase" /\ iter.ptr # NULL /\ iter.ptr \notin deleteMe
  BY DEF Keep, heads, links
<1>4. /\ IterType(iter') /\ IterFits(iter', firstS', nextS', M, own)
      /\ Left(iter', M, own, rank) = Left(iter, M, own, rank) \ {iter.ptr}
  BY <1>2, <1>3, AtAdvance DEF advance
<1>5. Pass(M, own, rank)'
  BY <1>1, <1>3, <1>4 DEF Shape, Pass
<1>6. /\ GridInv' /\ View(M, own, rank) /\ View(M, own, rank)'
      /\ AllListed' = AllListed /\ AllPending' = AllPending
  <2>1. UNCHANGED <<heads, links, cellIndex, live>>
    BY DEF Keep
  <2>2. deleteMe' \subseteq live /\ loaded' \in BOOLEAN /\ phase' \in {"erase", "think", "flush", "rest", "clear"}
    BY <1>2, <1>3 DEF Typed
  <2>3. QED
    BY <1>1, <1>2, <1>4, <1>5, <2>1, <2>2, ListsStay
<1>7. iter.ptr \in Left(iter, M, own, rank) /\ iter.ptr \in Object
  BY <1>2, <1>3, IterIsLeft DEF IterType
<1>8. Set!Keep(iter.ptr)
  BY <1>3, <1>4, <1>6, <1>7 DEF View, Set!Keep
<1>9. QED
  BY <1>6, <1>7, <1>8

(* A step that ends a pass, or the flush. *)
LEMMA EndStep ==
  ASSUME GridInv, iter.ptr = NULL, UNCHANGED <<heads, links, cellIndex, deleteMe, live, iter>>,
         \/ phase' = "flush" /\ loaded' = loaded /\ loaded
         \/ phase' = "rest" /\ loaded' = loaded
         \/ phase = "clear" /\ phase' = "rest" /\ loaded' = FALSE
  PROVE  /\ GridInv' /\ Todo = {} /\ Todo' = Todo /\ AllListed' = AllListed /\ AllPending' = AllPending
         /\ live' = live /\ cellIndex' = cellIndex /\ deleteMe' = deleteMe
<1>1. PICK M, own, rank, length, D, dOwn, dRank, dLength :
        Shape(M, own, rank, length, D, dOwn, dRank, dLength)
  BY DEF GridInv
<1>2. Typed /\ Pass(M, own, rank)
  BY <1>1 DEF GridInv, Shape
<1>3. /\ iter' = iter /\ firstS' = firstS /\ nextS' = nextS /\ deleteMe' = deleteMe
      /\ live' = live /\ cellIndex' = cellIndex
  BY DEF heads, links
<1>4. Left(iter, M, own, rank) = {} /\ Left(iter', M, own, rank) = {}
  BY <1>3 DEF Left
<1>5. Pass(M, own, rank)'
  BY <1>2, <1>3, <1>4 DEF Pass
<1>6. /\ GridInv' /\ View(M, own, rank) /\ View(M, own, rank)'
      /\ AllListed' = AllListed /\ AllPending' = AllPending
  <2>1. UNCHANGED <<heads, links, cellIndex, live>>
    OBVIOUS
  <2>2. /\ deleteMe' \subseteq live /\ loaded' \in BOOLEAN /\ IterType(iter')
        /\ phase' \in {"erase", "think", "flush", "rest", "clear"}
    BY <1>2, <1>3 DEF Typed, IterType
  <2>3. QED
    BY <1>1, <1>2, <1>5, <2>1, <2>2, ListsStay
<1>7. QED
  BY <1>3, <1>4, <1>6 DEF View

LEMMA EndEraseStep ==
  ASSUME GridInv, EndErase
  PROVE  GridInv' /\ Set!EndErase
<1>1. CASE loaded
  <2>1. Todo = {}
    BY TodoEmpty DEF EndErase
  <2>2. BeginPass("think") /\ phase = "erase"
    BY <1>1 DEF EndErase
  <2>3. GridInv' /\ Set!Begin("think")
    BY <1>1, <2>2, BeginPassStep
  <2>4. QED
    BY <1>1, <2>1, <2>2, <2>3 DEF Set!EndErase
<1>2. CASE ~loaded
  <2>1. phase = "erase" /\ iter.ptr = NULL /\ phase' = "rest" /\ loaded' = loaded
    BY <1>2 DEF EndErase
  <2>2. UNCHANGED <<heads, links, cellIndex, deleteMe, live, iter>>
    BY <1>2 DEF EndErase
  <2>3. /\ GridInv' /\ Todo = {} /\ Todo' = Todo /\ AllListed' = AllListed /\ AllPending' = AllPending
        /\ live' = live /\ cellIndex' = cellIndex /\ deleteMe' = deleteMe
    BY <2>1, <2>2, EndStep
  <2>4. QED
    BY <1>2, <2>1, <2>3 DEF Set!EndErase
<1>3. QED
  BY <1>1, <1>2

LEMMA EndThinkStep ==
  ASSUME GridInv, EndThink
  PROVE  GridInv' /\ Set!EndThink
<1>1. phase = "think" /\ iter.ptr = NULL /\ phase' = "flush" /\ loaded' = loaded
  BY DEF EndThink
<1>2. loaded
  BY <1>1 DEF GridInv, Typed, Shape, Pass
<1>3. /\ GridInv' /\ Todo = {} /\ Todo' = Todo /\ AllListed' = AllListed /\ AllPending' = AllPending
      /\ live' = live /\ cellIndex' = cellIndex /\ deleteMe' = deleteMe
  <2>1. UNCHANGED <<heads, links, cellIndex, deleteMe, live, iter>>
    BY DEF EndThink
  <2>2. QED
    BY <1>1, <1>2, <2>1, EndStep
<1>4. QED
  BY <1>1, <1>3 DEF Set!EndThink

LEMMA EndFlushStep ==
  ASSUME GridInv, EndFlush
  PROVE  GridInv' /\ Set!EndFlush
<1>1. phase = "flush" /\ phase' = "rest" /\ loaded' = loaded /\ \A l \in Layer : ~Waits(l)
  BY DEF EndFlush
<1>2. iter.ptr = NULL
  BY <1>1 DEF GridInv, Shape, Pass
<1>3. /\ GridInv' /\ Todo = {} /\ Todo' = Todo /\ AllListed' = AllListed /\ AllPending' = AllPending
      /\ live' = live /\ cellIndex' = cellIndex /\ deleteMe' = deleteMe
  <2>1. UNCHANGED <<heads, links, cellIndex, deleteMe, live, iter>>
    BY DEF EndFlush
  <2>2. QED
    BY <1>1, <1>2, <2>1, EndStep
<1>4. AllPending = {}
  <2>1. \A l \in Layer : From(nextS, firstDelayed[l]) = {} /\ From(nextS, firstDelayedNoCol[l]) = {}
    BY <1>1, FromNull DEF Waits
  <2>2. QED
    BY <2>1 DEF AllPending, Pending
<1>5. QED
  BY <1>1, <1>3, <1>4 DEF Set!EndFlush

LEMMA EndClearStep ==
  ASSUME GridInv, EndClear
  PROVE  GridInv' /\ Set!EndClear
<1>1. phase = "clear" /\ iter.ptr = NULL /\ phase' = "rest" /\ loaded' = FALSE
  BY DEF EndClear
<1>2. /\ GridInv' /\ Todo = {} /\ Todo' = Todo /\ AllListed' = AllListed /\ AllPending' = AllPending
      /\ live' = live /\ cellIndex' = cellIndex /\ deleteMe' = deleteMe
  <2>1. UNCHANGED <<heads, links, cellIndex, deleteMe, live, iter>>
    BY DEF EndClear
  <2>2. QED
    BY <1>1, <2>1, EndStep
<1>3. QED
  BY <1>1, <1>2 DEF Set!EndClear

LEMMA RemoveStep ==
  ASSUME NEW CONSTANT o \in Object, GridInv, remove(o)
  PROVE  GridInv' /\ Set!Mark({o})
<1>1. PICK M, own, rank, length, D, dOwn, dRank, dLength :
        Shape(M, own, rank, length, D, dOwn, dRank, dLength)
  BY DEF GridInv
<1>2. Typed /\ Pass(M, own, rank)
  BY <1>1 DEF GridInv, Shape
<1>3. /\ phase \in {"think", "rest"} /\ o \in live /\ deleteMe' = deleteMe \cup {o}
      /\ iter' = iter /\ firstS' = firstS /\ nextS' = nextS /\ loaded' = loaded
      /\ live' = live /\ cellIndex' = cellIndex /\ phase' = phase
  BY DEF remove, heads, links
<1>4. Pass(M, own, rank)'
  BY <1>2, <1>3 DEF Pass
<1>5. /\ GridInv' /\ View(M, own, rank) /\ View(M, own, rank)'
      /\ AllListed' = AllListed /\ AllPending' = AllPending
  <2>1. UNCHANGED <<heads, links, cellIndex, live>>
    BY DEF remove
  <2>2. /\ deleteMe' \subseteq live /\ loaded' \in BOOLEAN /\ IterType(iter')
        /\ phase' \in {"erase", "think", "flush", "rest", "clear"}
    BY <1>2, <1>3 DEF Typed, IterType
  <2>3. QED
    BY <1>1, <1>2, <1>4, <2>1, <2>2, ListsStay
<1>6. Set!Mark({o})
  BY <1>3, <1>5 DEF View, Set!Mark, Set!Dead
<1>7. QED
  BY <1>5, <1>6

(* Lists without objects. *)
LEMMA ChainedNone ==
  ASSUME NEW own \in [Object -> SList], NEW rank \in [Object -> Nat], NEW next
  PROVE  Chained(NoHeads, NoHeads, NoHeads, next, {}, own, rank, [k \in SList |-> 0])
<1> DEFINE zero == [k \in SList |-> 0]
<1>1. zero \in [SList -> Nat] /\ \A k \in SList : zero[k] = 0
  OBVIOUS
<1>2. \A k \in SList : HeadOf(NoHeads, NoHeads, NoHeads)[k] = NULL /\ NoStop[k] = NULL
  BY DEF HeadOf, NoHeads, NoStop, SList
<1> HIDE DEF zero
<1>3. QED
  <2>1. Threaded(SList, NoStop, HeadOf(NoHeads, NoHeads, NoHeads), next, {}, own, rank, zero)
    BY <1>1, <1>2 DEF Threaded, HeadsFit, LinksFit, RanksDiffer
  <2>2. QED
    BY <2>1 DEF Chained, zero

LEMMA ResizeStep ==
  ASSUME GridInv, resize
  PROVE  GridInv' /\ Set!Resize
<1>1. PICK M, own, rank, length, D, dOwn, dRank, dLength :
        Shape(M, own, rank, length, D, dOwn, dRank, dLength)
  BY DEF GridInv
<1>2. /\ phase = "rest" /\ ~loaded /\ loaded' = TRUE /\ phase' = phase /\ iter' = iter
      /\ firstS' = NoHeads /\ count' = [l \in Layer |-> 0]
      /\ firstDelayed' = NoHeads /\ firstDelayedNoCol' = NoHeads
      /\ nextD' = FreshNextD /\ prevD' = FreshPrevD
      /\ nextS' = nextS /\ cellIndex' = cellIndex /\ deleteMe' = deleteMe /\ live' = live
  BY DEF resize
<1>3. Typed /\ Pass(M, own, rank) /\ Lists(M, own, rank, length)
  BY <1>1 DEF GridInv, Shape
<1>4. iter.ptr = NULL /\ iter'.ptr = NULL /\ On(M, own, "listed") = {} /\ M \subseteq live
  BY <1>2, <1>3 DEF Pass, Lists
<1>5. /\ own \in [Object -> SList] /\ rank \in [Object -> Nat]
      /\ dOwn \in [Object -> DList] /\ dRank \in [Object -> Nat]
  BY <1>1, <1>3 DEF Lists, Chained, Threaded, Shape, Squares, Meshed
<1> DEFINE zero == [k \in SList |-> 0]
           dZero == [k \in DList |-> 0]
<1>6. Lists({}, own, rank, zero)'
  <2>1. Chained(NoHeads, NoHeads, NoHeads, nextS', {}, own, rank, zero)
    BY <1>5, ChainedNone
  <2>2. \A l \in Layer : count'[l] = 0 /\ zero[ListOf(l)] = 0
    BY <1>2, SListFacts
  <2>3. QED
    BY <1>2, <2>1, <2>2 DEF Lists
<1>7. Placed({}, own)'
  BY DEF Placed
<1>8. Squares({}, own, {}, dOwn, dRank, dZero)'
  <2>1. Meshed(nextD', prevD', {}, dOwn, dRank, dZero)
    BY <1>2, <1>5, MeshedFresh
  <2>2. QED
    BY <2>1 DEF Squares
<1>9. Pass({}, own, rank)'
  BY <1>2, <1>4 DEF Pass, IterFits, On
<1>10. Typed'
  <2>1. NoHeads \in [Layer -> Object \cup {NULL}] /\ [l \in Layer |-> 0] \in [Layer -> Nat]
    BY DEF NoHeads
  <2>2. QED
    BY <1>2, <1>3, <2>1 DEF Typed, IterType
<1> HIDE DEF zero, dZero
<1>11. GridInv'
  BY <1>6, <1>7, <1>8, <1>9, <1>10 DEF GridInv, Shape
<1>12. View(M, own, rank) /\ View({}, own, rank)'
  <2>1. View(M, own, rank)
    BY <1>3, Abstract DEF Typed, Pass
  <2>2. View({}, own, rank)'
    BY <1>6, <1>9, <1>10, AbstractNext DEF Typed, Pass
  <2>3. QED
    BY <2>1, <2>2
<1>13. Left(iter, M, own, rank) = {} /\ Left(iter', {}, own, rank) = {} /\ On({}, own, "listed") = {}
  BY <1>4 DEF Left, On
<1>14. /\ AllListed = {} /\ AllListed' = {} /\ AllPending = M /\ AllPending' = {}
       /\ Todo = {} /\ Todo' = {}
  BY <1>4, <1>12, <1>13 DEF View
<1>15. Set!Resize
  BY <1>2, <1>4, <1>14 DEF Set!Resize
<1>16. QED
  BY <1>11, <1>15

-----------------------------------------------------------------------------
(* The heads of all lists when one of them is set. *)
SetAt(K, first, k, v, first2) == \A j \in K : first2[j] = IF j = k THEN v ELSE first[j]

LEMMA ListedSet ==
  ASSUME NEW fs, NEW fd, NEW fn, NEW l \in Layer, NEW v, NEW new,
         SetAt(Layer, fs, l, v, new)
  PROVE  SetAt(SList, HeadOf(fs, fd, fn), ListOf(l), v, HeadOf(new, fd, fn))
<1> SUFFICES ASSUME NEW k \in SList
             PROVE  HeadOf(new, fd, fn)[k] = IF k = ListOf(l) THEN v ELSE HeadOf(fs, fd, fn)[k]
  BY DEF SetAt
<1>1. /\ k[1] \in Layer /\ k[2] \in {"listed", "square", "none"}
      /\ k = ListOf(l) <=> k[1] = l /\ k[2] = "listed"
  BY SListFacts
<1>2. new[k[1]] = IF k[1] = l THEN v ELSE fs[k[1]]
  BY <1>1 DEF SetAt
<1>3. /\ HeadOf(new, fd, fn)[k] =
           IF k[2] = "listed" THEN new[k[1]]
           ELSE IF k[2] = "square" THEN fd[k[1]] ELSE fn[k[1]]
      /\ HeadOf(fs, fd, fn)[k] =
           IF k[2] = "listed" THEN fs[k[1]] ELSE IF k[2] = "square" THEN fd[k[1]] ELSE fn[k[1]]
  BY DEF HeadOf
<1>4. QED
  BY <1>1, <1>2, <1>3

LEMMA SquareSet ==
  ASSUME NEW fs, NEW fd, NEW fn, NEW l \in Layer, NEW v, NEW new,
         SetAt(Layer, fd, l, v, new)
  PROVE  SetAt(SList, HeadOf(fs, fd, fn), SquareListOf(l), v, HeadOf(fs, new, fn))
<1> SUFFICES ASSUME NEW k \in SList
             PROVE  HeadOf(fs, new, fn)[k] = IF k = SquareListOf(l) THEN v ELSE HeadOf(fs, fd, fn)[k]
  BY DEF SetAt
<1>1. /\ k[1] \in Layer /\ k[2] \in {"listed", "square", "none"}
      /\ k = SquareListOf(l) <=> k[1] = l /\ k[2] = "square"
  BY SListFacts
<1>2. new[k[1]] = IF k[1] = l THEN v ELSE fd[k[1]]
  BY <1>1 DEF SetAt
<1>3. /\ HeadOf(fs, new, fn)[k] =
           IF k[2] = "listed" THEN fs[k[1]]
           ELSE IF k[2] = "square" THEN new[k[1]] ELSE fn[k[1]]
      /\ HeadOf(fs, fd, fn)[k] =
           IF k[2] = "listed" THEN fs[k[1]] ELSE IF k[2] = "square" THEN fd[k[1]] ELSE fn[k[1]]
  BY DEF HeadOf
<1>4. QED
  BY <1>1, <1>2, <1>3

LEMMA NoneSet ==
  ASSUME NEW fs, NEW fd, NEW fn, NEW l \in Layer, NEW v, NEW new,
         SetAt(Layer, fn, l, v, new)
  PROVE  SetAt(SList, HeadOf(fs, fd, fn), NoneListOf(l), v, HeadOf(fs, fd, new))
<1> SUFFICES ASSUME NEW k \in SList
             PROVE  HeadOf(fs, fd, new)[k] = IF k = NoneListOf(l) THEN v ELSE HeadOf(fs, fd, fn)[k]
  BY DEF SetAt
<1>1. /\ k[1] \in Layer /\ k[2] \in {"listed", "square", "none"}
      /\ k = NoneListOf(l) <=> k[1] = l /\ k[2] = "none"
  BY SListFacts
<1>2. new[k[1]] = IF k[1] = l THEN v ELSE fn[k[1]]
  BY <1>1 DEF SetAt
<1>3. /\ HeadOf(fs, fd, new)[k] =
           IF k[2] = "listed" THEN fs[k[1]]
           ELSE IF k[2] = "square" THEN fd[k[1]] ELSE new[k[1]]
      /\ HeadOf(fs, fd, fn)[k] =
           IF k[2] = "listed" THEN fs[k[1]] ELSE IF k[2] = "square" THEN fd[k[1]] ELSE fn[k[1]]
  BY DEF HeadOf
<1>4. QED
  BY <1>1, <1>2, <1>3

(* More objects, none of the new ones on an S list. *)
Grown(M, own, rank, M2, own2, rank2) ==
  /\ M \subseteq M2
  /\ \A p \in M : own2[p] = own[p] /\ rank2[p] = rank[p]
  /\ \A p \in M2 \ M : own2[p][2] # "listed"

(* Objects put on waiting lists are not among those a pass has yet to visit. *)
LEMMA LeftSame ==
  ASSUME NEW M, NEW own, NEW rank, NEW M2, NEW own2, NEW rank2, NEW it,
         Grown(M, own, rank, M2, own2, rank2),
         it.ptr # NULL => it.ptr \in M /\ it.layer \in Layer
  PROVE  /\ On(M2, own2, "listed") = On(M, own, "listed")
         /\ Left(it, M2, own2, rank2) = Left(it, M, own, rank)
<1>0. /\ M \subseteq M2 /\ \A p \in M : own2[p] = own[p] /\ rank2[p] = rank[p]
      /\ \A p \in M2 \ M : own2[p][2] # "listed"
  BY DEF Grown
<1>1. On(M2, own2, "listed") = On(M, own, "listed")
  BY <1>0 DEF On
<1>2. CASE it.ptr = NULL
  BY <1>1, <1>2 DEF Left
<1>3. CASE it.ptr # NULL
  <2>1. \A l : Later(l, M2, own2) = Later(l, M, own)
    BY <1>0, <1>1 DEF Later, On
  <2>2. \A p \in M2 \ M : own2[p] # ListOf(it.layer)
    BY <1>0, <1>3, SListFacts
  <2>3. ASSUME NEW n
        PROVE  Below(M2, own2, rank2, ListOf(it.layer), n) = Below(M, own, rank, ListOf(it.layer), n)
    <3>1. \A p \in M2 : p \in M \/ own2[p] # ListOf(it.layer)
      BY <2>2
    <3>2. \A p \in M : own2[p] = own[p] /\ rank2[p] = rank[p] /\ p \in M2
      BY <1>0
    <3>3. QED
      BY <3>1, <3>2 DEF Below
  <2>4. rank2[it.ptr] = rank[it.ptr]
    BY <1>0, <1>3
  <2>5. QED
    BY <1>1, <1>3, <2>1, <2>3, <2>4 DEF Left
<1>4. QED
  BY <1>2, <1>3

(* An object put in front of one of the lists of a layer. *)
LEMMA ChainedPush ==
  ASSUME NEW fs, NEW fd, NEW fn, NEW next, NEW M, NEW own, NEW rank, NEW length,
         Chained(fs, fd, fn, next, M, own, rank, length), NEW o \in Object \ M, NEW k \in SList,
         NEW fs2, NEW fd2, NEW fn2, NEW next2,
         LinkedFirst(SList, M, HeadOf(fs, fd, fn), next, o, k, HeadOf(fs2, fd2, fn2), next2),
         NEW M2, NEW own2, NEW rank2, NEW length2,
         Pushed(M, own, rank, length, o, k, M2, own2, rank2, length2)
  PROVE  Chained(fs2, fd2, fn2, next2, M2, own2, rank2, length2)
BY ThreadedPush DEF Chained

(* An object made and put on a waiting list. *)
LEMMA WaitStep ==
  ASSUME NEW CONSTANT o \in Object, NEW CONSTANT c \in Cell \cup {NoCell}, NEW CONSTANT k \in SList,
         GridInv, Construct(o, c), phase \in {"think", "rest"},
         k[2] = IF c = NoCell THEN "none" ELSE "square",
         firstS' = firstS, count' = count,
         nextS' = [nextS EXCEPT ![o] = HeadOf(firstS, firstDelayed, firstDelayedNoCol)[k]],
         firstDelayed' \in [Layer -> Object \cup {NULL}],
         firstDelayedNoCol' \in [Layer -> Object \cup {NULL}],
         \A j \in SList : HeadOf(firstS', firstDelayed', firstDelayedNoCol')[j] =
            IF j = k THEN o ELSE HeadOf(firstS, firstDelayed, firstDelayedNoCol)[j],
         nextD' = NewNode(nextD, o), prevD' = NewNode(prevD, o)
  PROVE  GridInv' /\ Set!Insert(o, c)
<1>1. PICK M, own, rank, length, D, dOwn, dRank, dLength :
        Shape(M, own, rank, length, D, dOwn, dRank, dLength)
  BY DEF GridInv
<1>2. /\ Typed /\ Lists(M, own, rank, length) /\ Placed(M, own)
      /\ Squares(M, own, D, dOwn, dRank, dLength) /\ Pass(M, own, rank)
  BY <1>1 DEF GridInv, Shape
<1>3. /\ o \notin live /\ loaded /\ live' = live \cup {o} /\ cellIndex' = [cellIndex EXCEPT ![o] = c]
      /\ deleteMe' = deleteMe /\ iter' = iter /\ phase' = phase /\ loaded' = loaded
  BY DEF Construct
<1>4. /\ M \subseteq live /\ o \notin M
      /\ Threaded(SList, NoStop, HeadOf(firstS, firstDelayed, firstDelayedNoCol), nextS, M, own, rank, length)
      /\ M \subseteq Object /\ own \in [Object -> SList] /\ rank \in [Object -> Nat]
      /\ length \in [SList -> Nat]
  BY <1>2, <1>3 DEF Lists, Chained, Threaded
<1> DEFINE M2 == M \cup {o}
           own2 == [own EXCEPT ![o] = k]
           rank2 == [rank EXCEPT ![o] = length[k] + 1]
           length2 == [length EXCEPT ![k] = @ + 1]
           head == HeadOf(firstS, firstDelayed, firstDelayedNoCol)
           head2 == HeadOf(firstS', firstDelayed', firstDelayedNoCol')
<1>5. /\ \A p \in M : own2[p] = own[p] /\ rank2[p] = rank[p]
      /\ own2[o] = k /\ \A j \in SList \ {k} : length2[j] = length[j]
      /\ k[2] # "listed"
  BY <1>4
<1>6. nextS' \in [Object -> Object \cup {NULL}] /\ nextS'[o] = head[k] /\ \A p \in M : nextS'[p] = nextS[p]
  <2>1. head[k] \in Object \cup {NULL}
    BY <1>2 DEF HeadOf, SList, Typed
  <2>2. QED
    BY <1>2, <1>4, <2>1 DEF Typed
<1>7. Chained(firstS', firstDelayed', firstDelayedNoCol', nextS', M2, own2, rank2, length2)
  <2>1. Chained(firstS, firstDelayed, firstDelayedNoCol, nextS, M, own, rank, length) /\ o \in Object \ M
    BY <1>2, <1>4 DEF Lists
  <2>2. Pushed(M, own, rank, length, o, k, M2, own2, rank2, length2)
    BY DEF Pushed
  <2>3. LinkedFirst(SList, M, head, nextS, o, k, head2, nextS')
    BY <1>6 DEF LinkedFirst
  <2> HIDE DEF M2, own2, rank2, length2
  <2>4. QED
    BY <2>1, <2>2, <2>3, ChainedPush
<1> HIDE DEF own2, rank2, length2, head, head2
<1>8. Lists(M2, own2, rank2, length2)'
  <2>1. \A l \in Layer : length2[ListOf(l)] = length[ListOf(l)]
    <3>1. \A l \in Layer : ListOf(l) \in SList /\ ListOf(l) # k
      BY <1>5, SListFacts
    <3>2. QED
      BY <1>5, <3>1
  <2>2. \A l \in Layer : count'[l] = length2[ListOf(l)]
    BY <1>2, <2>1 DEF Lists
  <2>3. M2 \subseteq live'
    BY <1>3, <1>4
  <2>4. QED
    BY <1>7, <2>2, <2>3 DEF Lists
<1>9. /\ cellIndex' \in [Object -> Cell \cup {NoCell}] /\ cellIndex'[o] = c
      /\ \A p \in M : cellIndex'[p] = cellIndex[p]
  BY <1>2, <1>3, <1>4 DEF Typed
<1>10. Placed(M2, own2)'
  <2>1. \A p \in M2 : /\ own2[p][2] = "square" => cellIndex'[p] \in Cell
                      /\ own2[p][2] = "none" => cellIndex'[p] = NoCell
    BY <1>2, <1>5, <1>9 DEF Placed
  <2>2. QED
    BY <2>1 DEF Placed
<1>11. Squares(M2, own2, D, dOwn, dRank, dLength)'
  <2>1. /\ Meshed(nextD, prevD, D, dOwn, dRank, dLength)
        /\ D = {p \in M : own[p][2] = "listed" /\ cellIndex[p] # NoCell}
        /\ \A p \in D : dOwn[p] = guard(own[p][1], cellIndex[p])
        /\ \A p \in M \ D : prevD[p] = NULL
    BY <1>2 DEF Squares
  <2>2. o \in Object \ D /\ D \subseteq M
    BY <1>4, <2>1
  <2>3. Meshed(nextD', prevD', D, dOwn, dRank, dLength)
    BY <2>1, <2>2, MeshedNew
  <2>4. D = {p \in M2 : own2[p][2] = "listed" /\ cellIndex'[p] # NoCell}
    BY <2>1, <1>5, <1>9
  <2>5. \A p \in D : dOwn[p] = guard(own2[p][1], cellIndex'[p])
    BY <2>1, <2>2, <1>5, <1>9
  <2>6. \A p \in M2 \ D : prevD'[p] = NULL
    <3>1. prevD \in [Node -> Node \cup {NULL}] /\ Object \subseteq Node
      BY <2>1, GuardFacts DEF Meshed
    <3>2. prevD'[o] = NULL /\ \A p \in M : prevD'[p] = prevD[p]
      BY <3>1, <1>4 DEF NewNode
    <3>3. QED
      BY <2>1, <3>2
  <2>7. QED
    BY <2>3, <2>4, <2>5, <2>6 DEF Squares
<1>12. /\ On(M2, own2, "listed") = On(M, own, "listed")
       /\ Left(iter', M2, own2, rank2) = Left(iter, M, own, rank)
  <2>1. Grown(M, own, rank, M2, own2, rank2)
    BY <1>5 DEF Grown
  <2>2. iter.ptr # NULL => iter.ptr \in M /\ iter.layer \in Layer
    BY <1>2 DEF Pass, IterFits, Typed, IterType
  <2> HIDE DEF M2
  <2>3. Left(iter, M2, own2, rank2) = Left(iter, M, own, rank) /\ On(M2, own2, "listed") = On(M, own, "listed")
    BY <2>1, <2>2, LeftSame
  <2>4. QED
    BY <2>3, <1>3
<1>13. Pass(M2, own2, rank2)'
  <2>1. IterFits(iter', firstS', nextS', M2, own2)
    BY <1>2, <1>3, <1>5, <1>6 DEF Pass, IterFits
  <2>2. QED
    BY <2>1, <1>2, <1>3, <1>12 DEF Pass
<1>14. Typed'
  BY <1>2, <1>3, <1>6, <1>9 DEF Typed, IterType
<1>15. GridInv'
  <2> HIDE DEF M2
  <2> QED
    BY <1>8, <1>10, <1>11, <1>13, <1>14 DEF GridInv, Shape
<1>16. View(M, own, rank) /\ View(M2, own2, rank2)'
  <2> HIDE DEF M2
  <2>1. View(M, own, rank)
    BY <1>2, Abstract DEF Typed, Pass
  <2>2. View(M2, own2, rank2)'
    BY <1>8, <1>13, <1>14, AbstractNext DEF Typed, Pass
  <2>3. QED
    BY <2>1, <2>2
<1>17. /\ AllListed' = AllListed /\ AllPending' = AllPending \cup {o} /\ Todo' = Todo
       /\ AllListed \cup AllPending = M
  <2>1. o \notin On(M, own, "listed") /\ On(M, own, "listed") \subseteq M
    BY <1>4 DEF On
  <2>2. QED
    BY <1>12, <1>16, <2>1 DEF View
<1>18. Set!Insert(o, c)
  BY <1>3, <1>4, <1>17 DEF Set!Insert, Set!Dead
<1>19. QED
  BY <1>15, <1>18

LEMMA InsertDelayedStep ==
  ASSUME NEW CONSTANT o \in Object, NEW CONSTANT l \in Layer, NEW CONSTANT c \in Cell,
         GridInv, insertDelayed(l, o, c)
  PROVE  GridInv' /\ Set!Insert(o, c)
<1>1. /\ phase \in {"think", "rest"} /\ Construct(o, c)
      /\ nextS' = [nextS EXCEPT ![o] = firstDelayed[l]]
      /\ firstDelayed' = [firstDelayed EXCEPT ![l] = o]
      /\ nextD' = NewNode(nextD, o) /\ prevD' = NewNode(prevD, o)
      /\ firstS' = firstS /\ count' = count /\ firstDelayedNoCol' = firstDelayedNoCol
  BY DEF insertDelayed
<1>2. Typed
  BY DEF GridInv
<1>3. /\ SquareListOf(l) \in SList /\ SquareListOf(l)[2] = "square" /\ c # NoCell
  BY SListFacts, CellFacts
<1>4. HeadOf(firstS, firstDelayed, firstDelayedNoCol)[SquareListOf(l)] = firstDelayed[l]
  BY SquareHead
<1>5. \A j \in SList : HeadOf(firstS', firstDelayed', firstDelayedNoCol')[j] =
         IF j = SquareListOf(l) THEN o ELSE HeadOf(firstS, firstDelayed, firstDelayedNoCol)[j]
  <2>1. SetAt(Layer, firstDelayed, l, o, firstDelayed')
    BY <1>1, <1>2 DEF Typed, SetAt
  <2>2. SetAt(SList, HeadOf(firstS, firstDelayed, firstDelayedNoCol), SquareListOf(l), o,
              HeadOf(firstS, firstDelayed', firstDelayedNoCol))
    BY <2>1, SquareSet
  <2>3. QED
    BY <1>1, <2>2 DEF SetAt
<1>6. firstDelayed' \in [Layer -> Object \cup {NULL}] /\ firstDelayedNoCol' \in [Layer -> Object \cup {NULL}]
  BY <1>1, <1>2 DEF Typed
<1>7. QED
  BY <1>1, <1>3, <1>4, <1>5, <1>6, WaitStep

LEMMA InsertDelayedNoColStep ==
  ASSUME NEW CONSTANT o \in Object, NEW CONSTANT l \in Layer, GridInv, insertDelayedNoCol(l, o)
  PROVE  GridInv' /\ Set!Insert(o, NoCell)
<1>1. /\ phase \in {"think", "rest"} /\ Construct(o, NoCell)
      /\ nextS' = [nextS EXCEPT ![o] = firstDelayedNoCol[l]]
      /\ firstDelayedNoCol' = [firstDelayedNoCol EXCEPT ![l] = o]
      /\ nextD' = NewNode(nextD, o) /\ prevD' = NewNode(prevD, o)
      /\ firstS' = firstS /\ count' = count /\ firstDelayed' = firstDelayed
  BY DEF insertDelayedNoCol
<1>2. Typed
  BY DEF GridInv
<1>3. NoneListOf(l) \in SList /\ NoneListOf(l)[2] = "none"
  BY SListFacts
<1>4. HeadOf(firstS, firstDelayed, firstDelayedNoCol)[NoneListOf(l)] = firstDelayedNoCol[l]
  BY NoneHead
<1>5. \A j \in SList : HeadOf(firstS', firstDelayed', firstDelayedNoCol')[j] =
         IF j = NoneListOf(l) THEN o ELSE HeadOf(firstS, firstDelayed, firstDelayedNoCol)[j]
  <2>1. SetAt(Layer, firstDelayedNoCol, l, o, firstDelayedNoCol')
    BY <1>1, <1>2 DEF Typed, SetAt
  <2>2. SetAt(SList, HeadOf(firstS, firstDelayed, firstDelayedNoCol), NoneListOf(l), o,
              HeadOf(firstS, firstDelayed, firstDelayedNoCol'))
    BY <2>1, NoneSet
  <2>3. QED
    BY <1>1, <2>2 DEF SetAt
<1>6. firstDelayed' \in [Layer -> Object \cup {NULL}] /\ firstDelayedNoCol' \in [Layer -> Object \cup {NULL}]
  BY <1>1, <1>2 DEF Typed
<1>7. QED
  BY <1>1, <1>3, <1>4, <1>5, <1>6, WaitStep

-----------------------------------------------------------------------------
(* List::count when an object joins a layer's list. *)
LEMMA CountUp ==
  ASSUME NEW M, NEW own, NEW rank, NEW length \in [SList -> Nat], NEW o, NEW l \in Layer,
         NEW M2, NEW own2, NEW rank2, NEW length2,
         Pushed(M, own, rank, length, o, ListOf(l), M2, own2, rank2, length2),
         NEW cnt \in [Layer -> Nat], \A j \in Layer : cnt[j] = length[ListOf(j)]
  PROVE  \A j \in Layer : [cnt EXCEPT ![l] = @ + 1][j] = length2[ListOf(j)]
<1>1. \A j \in Layer : ListOf(j) \in SList /\ (ListOf(j) = ListOf(l) => j = l)
  BY SListFacts
<1>2. length2 = [length EXCEPT ![ListOf(l)] = @ + 1]
  BY DEF Pushed
<1>3. QED
  BY <1>1, <1>2

(* The objects outside the squares keep what they point to. *)
LEMMA MeshedRest ==
  ASSUME NEW next, NEW prev, NEW D, NEW own, NEW rank, NEW length,
         Meshed(next, prev, D, own, rank, length), NEW p \in Object \ D
  PROVE  /\ \A o \in Object \ D, k \in DList : p # o => LinkedPrev(next, prev, k, o)[p] = prev[p]
         /\ \A o \in D : Without(prev, next[o], prev[o])[p] = prev[p]
<1>1. \A x \in D \cup DList : next[x] \in D \cup Guard
  BY MeshedFacts
<1>2. p \in Node /\ p \notin D \cup Guard
  BY GuardFacts
<1>3. \A x \in D \cup DList : next[x] # p
  BY <1>1, <1>2
<1>4. QED
  BY <1>2, <1>3 DEF LinkedPrev, Without

LEMMA InsertImmediatelyStep ==
  ASSUME NEW CONSTANT o \in Object, NEW CONSTANT l \in Layer, NEW CONSTANT c \in Cell,
         GridInv, insertImmediately(l, o, c)
  PROVE  GridInv' /\ Set!InsertImmediately(o, c)
<1>1. PICK M, own, rank, length, D, dOwn, dRank, dLength :
        Shape(M, own, rank, length, D, dOwn, dRank, dLength)
  BY DEF GridInv
<1>2. /\ Typed /\ Lists(M, own, rank, length) /\ Placed(M, own)
      /\ Squares(M, own, D, dOwn, dRank, dLength) /\ Pass(M, own, rank)
  BY <1>1 DEF GridInv, Shape
<1>3. /\ phase = "rest" /\ o \notin live /\ loaded /\ live' = live \cup {o}
      /\ cellIndex' = [cellIndex EXCEPT ![o] = c]
      /\ deleteMe' = deleteMe /\ iter' = iter /\ phase' = phase /\ loaded' = loaded
      /\ nextS' = [nextS EXCEPT ![o] = firstS[l]] /\ firstS' = [firstS EXCEPT ![l] = o]
      /\ count' = [count EXCEPT ![l] = @ + 1]
      /\ nextD' = LinkedNext(nextD, guard(l, c), o) /\ prevD' = LinkedPrev(nextD, prevD, guard(l, c), o)
      /\ firstDelayed' = firstDelayed /\ firstDelayedNoCol' = firstDelayedNoCol
  BY DEF insertImmediately, Construct, insertAfter, insertS
<1>4. /\ M \subseteq live /\ o \in Object \ M
      /\ Chained(firstS, firstDelayed, firstDelayedNoCol, nextS, M, own, rank, length)
      /\ M \subseteq Object /\ own \in [Object -> SList] /\ rank \in [Object -> Nat]
      /\ length \in [SList -> Nat]
  BY <1>2, <1>3 DEF Lists, Chained, Threaded
<1>5. /\ Meshed(nextD, prevD, D, dOwn, dRank, dLength)
      /\ D = {p \in M : own[p][2] = "listed" /\ cellIndex[p] # NoCell}
      /\ \A p \in D : dOwn[p] = guard(own[p][1], cellIndex[p])
      /\ \A p \in M \ D : prevD[p] = NULL
      /\ dOwn \in [Object -> DList]
  BY <1>2 DEF Squares, Meshed, Threaded
<1>6. o \in Object \ D /\ D \subseteq M
  BY <1>4, <1>5
<1> DEFINE k == ListOf(l)
           M2 == M \cup {o}
           own2 == [own EXCEPT ![o] = k]
           rank2 == [rank EXCEPT ![o] = length[k] + 1]
           length2 == [length EXCEPT ![k] = @ + 1]
           g == guard(l, c)
           D2 == D \cup {o}
           dOwn2 == [dOwn EXCEPT ![o] = g]
           dRank2 == [dRank EXCEPT ![o] = dLength[g] + 1]
           dLength2 == [dLength EXCEPT ![g] = @ + 1]
<1>7. /\ Pushed(M, own, rank, length, o, k, M2, own2, rank2, length2)
      /\ Pushed(D, dOwn, dRank, dLength, o, g, D2, dOwn2, dRank2, dLength2)
      /\ M2 = M \cup {o} /\ D2 = D \cup {o}
  BY DEF Pushed
<1>8. k \in SList /\ k[1] = l /\ k[2] = "listed" /\ g \in DList /\ c # NoCell
  BY SListFacts, GuardFacts, CellFacts
<1>9. /\ own2[o] = k /\ \A p \in M : own2[p] = own[p]
      /\ dOwn2[o] = g /\ \A p \in D : dOwn2[p] = dOwn[p]
  BY <1>4, <1>5, <1>6
<1> HIDE DEF k, M2, own2, rank2, length2, D2, dOwn2, dRank2, dLength2
<1>10. Chained(firstS', firstDelayed', firstDelayedNoCol', nextS', M2, own2, rank2, length2)
  <2> DEFINE head == HeadOf(firstS, firstDelayed, firstDelayedNoCol)
             head2 == HeadOf(firstS', firstDelayed', firstDelayedNoCol')
  <2>1. SetAt(Layer, firstS, l, o, firstS')
    BY <1>2, <1>3 DEF SetAt, Typed
  <2>2. SetAt(SList, head, k, o, HeadOf(firstS', firstDelayed, firstDelayedNoCol))
    BY <2>1, ListedSet DEF k
  <2>3. SetAt(SList, head, k, o, head2)
    BY <2>2, <1>3
  <2>4. head[k] = firstS[l]
    BY ListedHead DEF k
  <2> HIDE DEF head, head2
  <2>5. nextS'[o] = firstS[l] /\ \A p \in M : nextS'[p] = nextS[p]
    BY <1>2, <1>3, <1>4 DEF Typed
  <2>6. LinkedFirst(SList, M, head, nextS, o, k, head2, nextS')
    BY <1>8, <2>3, <2>4, <2>5 DEF LinkedFirst, SetAt
  <2>7. QED
    BY <1>4, <1>7, <1>8, <2>6, ChainedPush DEF head, head2
<1>11. Lists(M2, own2, rank2, length2)'
  <2>1. \A j \in Layer : count'[j] = length2[ListOf(j)]
    <3>1. \A j \in Layer : count[j] = length[ListOf(j)]
      BY <1>2 DEF Lists
    <3>2. count \in [Layer -> Nat]
      BY <1>2 DEF Typed
    <3>3. \A j \in Layer : [count EXCEPT ![l] = @ + 1][j] = length2[ListOf(j)]
      BY <3>1, <3>2, <1>4, <1>7, CountUp DEF k
    <3>4. QED
      BY <3>3, <1>3
  <2>2. M2 \subseteq live'
    BY <1>3, <1>4, <1>7
  <2>3. QED
    BY <1>10, <2>1, <2>2 DEF Lists
<1>12. /\ cellIndex' \in [Object -> Cell \cup {NoCell}] /\ cellIndex'[o] = c
       /\ \A p \in M : cellIndex'[p] = cellIndex[p]
  BY <1>2, <1>3, <1>4 DEF Typed
<1>13. Placed(M2, own2)'
  <2>1. \A p \in M2 : /\ own2[p][2] = "square" => cellIndex'[p] \in Cell
                      /\ own2[p][2] = "none" => cellIndex'[p] = NoCell
    BY <1>2, <1>7, <1>8, <1>9, <1>12 DEF Placed
  <2>2. QED
    BY <2>1 DEF Placed
<1>14. Squares(M2, own2, D2, dOwn2, dRank2, dLength2)'
  <2>1. Meshed(nextD', prevD', D2, dOwn2, dRank2, dLength2)
    BY <1>3, <1>5, <1>6, <1>7, <1>8, MeshedLink
  <2>2. D2 = {p \in M2 : own2[p][2] = "listed" /\ cellIndex'[p] # NoCell}
    BY <1>5, <1>7, <1>8, <1>9, <1>12
  <2>3. \A p \in D2 : dOwn2[p] = guard(own2[p][1], cellIndex'[p])
    BY <1>5, <1>6, <1>7, <1>8, <1>9, <1>12
  <2>4. ASSUME NEW p \in M2 \ D2 PROVE prevD'[p] = NULL
    <3>1. p \in M \ D /\ p # o /\ p \in Object \ D
      BY <1>4, <1>7
    <3>2. prevD'[p] = prevD[p]
      BY <3>1, <1>3, <1>5, <1>6, <1>8, MeshedRest
    <3>3. QED
      BY <3>1, <3>2, <1>5
  <2>5. QED
    BY <2>1, <2>2, <2>3, <2>4 DEF Squares
<1>15. iter.ptr = NULL /\ iter'.ptr = NULL
  BY <1>2, <1>3 DEF Pass
<1>16. Pass(M2, own2, rank2)'
  BY <1>3, <1>15 DEF Pass, IterFits
<1>17. Typed'
  BY <1>2, <1>3, <1>12 DEF Typed, IterType
<1>18. GridInv'
  BY <1>11, <1>13, <1>14, <1>16, <1>17 DEF GridInv, Shape
<1>19. View(M, own, rank) /\ View(M2, own2, rank2)'
  <2>1. View(M, own, rank)
    BY <1>2, Abstract DEF Typed, Pass
  <2>2. View(M2, own2, rank2)'
    BY <1>11, <1>16, <1>17, AbstractNext DEF Typed, Pass
  <2>3. QED
    BY <2>1, <2>2
<1>20. On(M2, own2, "listed") = On(M, own, "listed") \cup {o}
  BY <1>7, <1>8, <1>9 DEF On
<1>21. /\ AllListed' = AllListed \cup {o} /\ AllPending' = AllPending /\ Todo' = Todo
       /\ AllListed \cup AllPending = M
  <2>1. o \notin On(M, own, "listed") /\ On(M, own, "listed") \subseteq M
    BY <1>4 DEF On
  <2>2. Todo = {} /\ Todo' = {}
    BY <1>15 DEF Todo
  <2>3. /\ AllListed = On(M, own, "listed") /\ AllPending = M \ On(M, own, "listed")
        /\ AllListed' = On(M2, own2, "listed") /\ AllPending' = M2 \ On(M2, own2, "listed")
    BY <1>19 DEF View
  <2>4. AllPending' = AllPending
    BY <1>4, <1>7, <1>20, <2>1, <2>3
  <2>5. QED
    BY <1>20, <2>1, <2>2, <2>3, <2>4
<1>22. Set!InsertImmediately(o, c)
  BY <1>3, <1>4, <1>8, <1>21 DEF Set!InsertImmediately, Set!Dead
<1>23. QED
  BY <1>18, <1>22

-----------------------------------------------------------------------------
(* Grid::flush: an object moved from the head of a waiting list to the head of *)
(* a layer's list.                                                             *)
LEMMA ThreadedHead ==
  ASSUME NEW K, NEW stop, NEW first, NEW next, NEW M, NEW own, NEW rank, NEW length,
         Threaded(K, stop, first, next, M, own, rank, length), NEW k \in K, first[k] \in M,
         \A j \in K : stop[j] \notin M
  PROVE  /\ own[first[k]] = k
         /\ \A j \in K : first[j] = first[k] => j = k
         /\ \A p \in M : next[p] # first[k]
<1>1. \A j \in K : first[j] \in M => own[first[j]] = j /\ rank[first[j]] = length[j]
  BY DEF Threaded, HeadsFit
<1>2. ASSUME NEW p \in M, next[p] = first[k] PROVE FALSE
  <2>1. /\ rank[p] \in 1 .. length[own[p]] /\ LinkFits(stop, next, M, own, rank, p)
        /\ own[p] \in K /\ length \in [K -> Nat]
    BY DEF Threaded, LinksFit
  <2>2. rank[p] # 1 /\ own[first[k]] = own[p] /\ rank[first[k]] = rank[p] - 1
    BY <1>2, <2>1 DEF LinkFits
  <2>3. own[p] = k /\ rank[first[k]] = length[k]
    BY <1>1, <2>2
  <2>4. QED
    BY <2>1, <2>2, <2>3
<1>3. QED
  BY <1>1, <1>2

Moved(first, next, o, k, k2, first2, next2) ==
  /\ first[k] = o /\ k # k2
  /\ \A j \in SList : first2[j] = IF j = k THEN next[o] ELSE IF j = k2 THEN o ELSE first[j]
  /\ \A p \in Object : next2[p] = IF p = o THEN first[k2] ELSE next[p]

LEMMA ChainedMove ==
  ASSUME NEW fs, NEW fd, NEW fn, NEW next, NEW M, NEW own, NEW rank, NEW length,
         Chained(fs, fd, fn, next, M, own, rank, length),
         NEW k \in SList, NEW k2 \in SList, NEW o \in M, NEW fs2, NEW fd2, NEW fn2, NEW next2,
         Moved(HeadOf(fs, fd, fn), next, o, k, k2, HeadOf(fs2, fd2, fn2), next2),
         NEW M1, NEW rank1, NEW length1, Dropped(M, own, rank, length, o, M1, rank1, length1),
         NEW M2, NEW own2, NEW rank2, NEW length2,
         Pushed(M1, own, rank1, length1, o, k2, M2, own2, rank2, length2)
  PROVE  /\ Chained(fs2, fd2, fn2, next2, M2, own2, rank2, length2) /\ M2 = M /\ own[o] = k
         /\ length1 \in [SList -> Nat] /\ \A j \in SList \ {k} : length1[j] = length[j]
<1> DEFINE head == HeadOf(fs, fd, fn)
           head1 == [j \in SList |-> IF j = k THEN next[o] ELSE head[j]]
           head2 == HeadOf(fs2, fd2, fn2)
<1>1. /\ Threaded(SList, NoStop, head, next, M, own, rank, length)
      /\ \A j \in SList : NoStop[j] \notin M
      /\ M \subseteq Object /\ k2 # k
  BY SListFacts, GridAssumption DEF Chained, Threaded, Moved
<1>2. /\ head[k] = o /\ own[o] = k /\ (\A j \in SList : head[j] = o => j = k)
      /\ \A p \in M : next[p] # o
  <2> HIDE DEF head
  <2>1. head[k] = o
    BY DEF head, Moved
  <2>2. head[k] \in M
    BY <2>1
  <2>3. /\ own[head[k]] = k /\ (\A j \in SList : head[j] = head[k] => j = k)
        /\ \A p \in M : next[p] # head[k]
    BY <1>1, <2>2, ThreadedHead
  <2>4. QED
    BY <2>1, <2>3
<1>3. /\ \A j \in SList : head1[j] = IF j = k THEN next[o] ELSE head[j]
      /\ \A j \in SList : head2[j] = IF j = k THEN next[o] ELSE IF j = k2 THEN o ELSE head[j]
      /\ \A p \in Object : next2[p] = IF p = o THEN head[k2] ELSE next[p]
  BY DEF Moved
<1> HIDE DEF head, head1, head2
<1>4. Threaded(SList, NoStop, head1, next, M1, own, rank1, length1)
  <2>1. PassedBy(SList, NoStop, M, head, next, o, head1, next)
    BY <1>1, <1>2, <1>3 DEF PassedBy
  <2>2. QED
    BY <1>1, <2>1, ThreadedDrop
<1>5. M1 = M \ {o} /\ o \in Object \ M1
  BY <1>1 DEF Dropped
<1>6. Threaded(SList, NoStop, head2, next2, M2, own2, rank2, length2)
  <2>1. LinkedFirst(SList, M1, head1, next, o, k2, head2, next2)
    BY <1>1, <1>3, <1>5 DEF LinkedFirst
  <2>2. QED
    BY <1>1, <1>4, <1>5, <2>1, ThreadedPush
<1>7. M2 = M
  BY <1>5 DEF Pushed
<1>8. length1 \in [SList -> Nat] /\ \A j \in SList \ {k} : length1[j] = length[j]
  <2>1. length1 \in [SList -> Nat] /\ length \in [SList -> Nat]
    BY <1>1, <1>4 DEF Threaded
  <2>2. length1 = [length EXCEPT ![own[o]] = @ - 1]
    BY DEF Dropped
  <2>3. QED
    BY <1>2, <2>1, <2>2
<1>9. QED
  BY <1>2, <1>6, <1>7, <1>8 DEF Chained, head2

Flushed(M, own, l, k, o) ==
  \E own2, rank2, length2 :
    /\ Typed' /\ Lists(M, own2, rank2, length2)' /\ Pass(M, own2, rank2)'
    /\ o \in M /\ own[o] = k /\ own2[o] = ListOf(l) /\ \A p \in M \ {o} : own2[p] = own[p]
    /\ o \in Object /\ Set!Flush(o)

LEMMA FlushLists ==
  ASSUME NEW CONSTANT M, NEW CONSTANT own, NEW CONSTANT rank, NEW CONSTANT length,
         NEW CONSTANT l \in Layer, NEW CONSTANT k \in SList, k[2] # "listed",
         NEW CONSTANT o, o # NULL, HeadOf(firstS, firstDelayed, firstDelayedNoCol)[k] = o,
         Typed, Lists(M, own, rank, length), Pass(M, own, rank), phase = "flush", insertS(l, o),
         SetAt(SList, HeadOf(firstS', firstDelayed, firstDelayedNoCol), k, nextS[o],
               HeadOf(firstS', firstDelayed', firstDelayedNoCol')),
         firstDelayed' \in [Layer -> Object \cup {NULL}],
         firstDelayedNoCol' \in [Layer -> Object \cup {NULL}],
         UNCHANGED <<cellIndex, deleteMe, live, iter, phase, loaded>>
  PROVE  Flushed(M, own, l, k, o)
<1> DEFINE head == HeadOf(firstS, firstDelayed, firstDelayedNoCol)
           head2 == HeadOf(firstS', firstDelayed', firstDelayedNoCol')
           mid == HeadOf(firstS', firstDelayed, firstDelayedNoCol)
           k2 == ListOf(l)
           M1 == M \ {o}
           rank1 == RankWithout(own, rank, o)
           length1 == [length EXCEPT ![own[o]] = @ - 1]
           M2 == M1 \cup {o}
           own2 == [own EXCEPT ![o] = k2]
           rank2 == [rank1 EXCEPT ![o] = length1[k2] + 1]
           length2 == [length1 EXCEPT ![k2] = @ + 1]
<1>1. /\ nextS' = [nextS EXCEPT ![o] = firstS[l]] /\ firstS' = [firstS EXCEPT ![l] = o]
      /\ count' = [count EXCEPT ![l] = @ + 1]
      /\ cellIndex' = cellIndex /\ deleteMe' = deleteMe /\ live' = live /\ iter' = iter
      /\ phase' = phase /\ loaded' = loaded
  BY DEF insertS
<1>2. /\ M \subseteq live /\ M \subseteq Object /\ NULL \notin M
      /\ Chained(firstS, firstDelayed, firstDelayedNoCol, nextS, M, own, rank, length)
      /\ own \in [Object -> SList] /\ rank \in [Object -> Nat] /\ length \in [SList -> Nat]
      /\ HeadsFit(SList, NoStop, head, M, own, rank, length)
  BY GridAssumption DEF Lists, Chained, Threaded
<1>3. /\ Dropped(M, own, rank, length, o, M1, rank1, length1)
      /\ Pushed(M1, own, rank1, length1, o, k2, M2, own2, rank2, length2)
  BY DEF Dropped, Pushed
<1>4. o \in M /\ o \in Object
  <2>1. NoStop[k] = NULL
    BY SListFacts
  <2>2. head[k] = o
    OBVIOUS
  <2> HIDE DEF head
  <2>3. o \in M
    BY <1>2, <2>1, <2>2 DEF HeadsFit
  <2>4. QED
    BY <1>2, <2>3
<1>5. k2 \in SList /\ k2[2] = "listed" /\ k2 # k
  BY SListFacts
<1>6. own2[o] = k2 /\ \A p \in M \ {o} : own2[p] = own[p]
  BY <1>2, <1>4
<1>7. /\ SetAt(SList, head, k2, o, mid) /\ SetAt(SList, mid, k, nextS[o], head2) /\ head[k] = o
      /\ SetAt(Object, nextS, o, head[k2], nextS')
  <2>1. SetAt(Layer, firstS, l, o, firstS')
    BY <1>1 DEF SetAt, Typed
  <2>2. SetAt(SList, head, k2, o, mid)
    BY <2>1, ListedSet
  <2>3. head[k2] = firstS[l]
    BY ListedHead
  <2> HIDE DEF k2
  <2>4. SetAt(Object, nextS, o, head[k2], nextS')
    <3> HIDE DEF head
    <3> QED
      BY <1>1, <1>4, <2>3 DEF SetAt, Typed
  <2>5. QED
    BY <2>2, <2>4
<1> HIDE DEF k2, M1, rank1, length1, M2, own2, rank2, length2
<1>8. /\ Chained(firstS', firstDelayed', firstDelayedNoCol', nextS', M2, own2, rank2, length2)
      /\ M2 = M /\ own[o] = k
      /\ length1 \in [SList -> Nat] /\ \A j \in SList \ {k} : length1[j] = length[j]
  <2> HIDE DEF mid
  <2>1. /\ k2 \in SList \ {k} /\ o \in M
        /\ Chained(firstS, firstDelayed, firstDelayedNoCol, nextS, M, own, rank, length)
    BY <1>2, <1>4, <1>5
  <2> HIDE DEF head, head2
  <2>2. Moved(head, nextS, o, k, k2, head2, nextS')
    BY <1>5, <1>7 DEF Moved, SetAt
  <2>3. QED
    BY <1>3, <1>5, <2>1, <2>2, ChainedMove DEF head, head2
<1> HIDE DEF head, head2, mid
<1>9. Lists(M, own2, rank2, length2)'
  <2>1. \A j \in Layer : count[j] = length[ListOf(j)]
    BY DEF Lists
  <2>2. \A j \in Layer : count[j] = length1[ListOf(j)]
    <3>1. \A j \in Layer : ListOf(j) \in SList /\ ListOf(j) # k
      BY SListFacts
    <3>2. QED
      BY <1>8, <2>1, <3>1
  <2>3. count \in [Layer -> Nat]
    BY DEF Typed
  <2>4. \A j \in Layer : [count EXCEPT ![l] = @ + 1][j] = length2[ListOf(j)]
    BY <1>3, <1>8, <2>2, <2>3, CountUp DEF k2
  <2>5. QED
    BY <1>1, <1>2, <1>8, <2>4 DEF Lists
<1>10. iter.ptr = NULL /\ iter'.ptr = NULL
  BY <1>1 DEF Pass
<1>11. Pass(M, own2, rank2)'
  BY <1>1, <1>10 DEF Pass, IterFits
<1>12. Typed'
  <2>1. firstS[l] \in Object \cup {NULL} /\ count[l] + 1 \in Nat
    BY DEF Typed
  <2>2. QED
    BY <1>1, <1>4, <2>1 DEF Typed, IterType
<1>13. View(M, own, rank) /\ View(M, own2, rank2)'
  <2>1. View(M, own, rank)
    BY Abstract DEF Typed, Pass
  <2>2. View(M, own2, rank2)'
    BY <1>9, <1>11, <1>12, AbstractNext DEF Typed, Pass
  <2>3. QED
    BY <2>1, <2>2
<1>14. On(M, own2, "listed") = On(M, own, "listed") \cup {o} /\ o \notin On(M, own, "listed")
  BY <1>4, <1>5, <1>6, <1>8 DEF On
<1>15. /\ AllListed = On(M, own, "listed") /\ AllPending = M \ On(M, own, "listed")
       /\ AllListed' = On(M, own2, "listed") /\ AllPending' = M \ On(M, own2, "listed")
  BY <1>13 DEF View
<1>16. /\ AllListed' = AllListed \cup {o} /\ AllPending' = AllPending \ {o} /\ o \in AllPending
       /\ Todo = {} /\ Todo' = {}
       /\ AllListed' \cup AllPending' = AllListed \cup AllPending
  <2>1. Todo = {} /\ Todo' = {}
    BY <1>10 DEF Todo
  <2>2. QED
    BY <1>4, <1>14, <1>15, <2>1
<1>17. Set!Flush(o)
  BY <1>1, <1>16 DEF Set!Flush
<1>18. QED
  <2>1. /\ Typed' /\ Lists(M, own2, rank2, length2)' /\ Pass(M, own2, rank2)'
        /\ o \in M /\ own[o] = k /\ own2[o] = ListOf(l) /\ \A p \in M \ {o} : own2[p] = own[p]
        /\ o \in Object /\ Set!Flush(o)
    BY <1>4, <1>6, <1>8, <1>9, <1>11, <1>12, <1>17 DEF k2
  <2>2. QED
    BY <2>1 DEF Flushed

LEMMA FlushStep ==
  ASSUME NEW CONSTANT l \in Layer, GridInv, flushDelayed(l)
  PROVE  GridInv' /\ \E o \in Object : Set!Flush(o)
<1>1. PICK M, own, rank, length, D, dOwn, dRank, dLength :
        Shape(M, own, rank, length, D, dOwn, dRank, dLength)
  BY DEF GridInv
<1>2. /\ Typed /\ Lists(M, own, rank, length) /\ Placed(M, own)
      /\ Squares(M, own, D, dOwn, dRank, dLength) /\ Pass(M, own, rank)
  BY <1>1 DEF GridInv, Shape
<1>3. /\ phase = "flush" /\ Waits(l)
      /\ UNCHANGED <<cellIndex, deleteMe, live, iter, phase, loaded>> /\ cellIndex' = cellIndex
  BY DEF flushDelayed
<1>4. /\ M \subseteq Object /\ own \in [Object -> SList]
      /\ Meshed(nextD, prevD, D, dOwn, dRank, dLength)
      /\ D = {p \in M : own[p][2] = "listed" /\ cellIndex[p] # NoCell}
      /\ \A p \in D : dOwn[p] = guard(own[p][1], cellIndex[p])
      /\ \A p \in M \ D : prevD[p] = NULL
      /\ dOwn \in [Object -> DList]
  BY <1>2 DEF Lists, Chained, Threaded, Squares, Meshed
<1>5. CASE firstDelayed[l] # NULL
  <2>1. PICK o : o = firstDelayed[l]
    OBVIOUS
  <2>2. /\ firstDelayed' = [firstDelayed EXCEPT ![l] = nextS[o]]
        /\ insertS(l, o) /\ firstDelayedNoCol' = firstDelayedNoCol
        /\ nextD' = LinkedNext(nextD, guard(l, cellIndex[o]), o)
        /\ prevD' = LinkedPrev(nextD, prevD, guard(l, cellIndex[o]), o)
    BY <1>5, <2>1 DEF flushDelayed, insertAfter
  <2>3. /\ SquareListOf(l) \in SList /\ SquareListOf(l)[2] = "square"
        /\ HeadOf(firstS, firstDelayed, firstDelayedNoCol)[SquareListOf(l)] = o
    BY <2>1, SListFacts, SquareHead
  <2>4. nextS[o] \in Object \cup {NULL}
    BY <1>2, <1>5, <2>1 DEF Typed
  <2>5. /\ SetAt(Layer, firstDelayed, l, nextS[o], firstDelayed')
        /\ firstDelayed' \in [Layer -> Object \cup {NULL}]
        /\ firstDelayedNoCol' \in [Layer -> Object \cup {NULL}]
    BY <1>2, <2>2, <2>4 DEF SetAt, Typed
  <2>6. SetAt(SList, HeadOf(firstS', firstDelayed, firstDelayedNoCol), SquareListOf(l), nextS[o],
              HeadOf(firstS', firstDelayed', firstDelayedNoCol'))
    <3>1. SetAt(SList, HeadOf(firstS', firstDelayed, firstDelayedNoCol), SquareListOf(l), nextS[o],
                HeadOf(firstS', firstDelayed', firstDelayedNoCol))
      BY <2>5, SquareSet
    <3>2. QED
      BY <3>1, <2>2
  <2>7. PICK own2, rank2, length2 :
           /\ Typed' /\ Lists(M, own2, rank2, length2)' /\ Pass(M, own2, rank2)'
           /\ o \in M /\ own[o] = SquareListOf(l) /\ own2[o] = ListOf(l)
           /\ \A p \in M \ {o} : own2[p] = own[p]
           /\ o \in Object /\ Set!Flush(o)
    <3>1. Flushed(M, own, l, SquareListOf(l), o)
      BY <1>2, <1>3, <1>5, <2>1, <2>2, <2>3, <2>5, <2>6, FlushLists
    <3>2. QED
      BY <3>1 DEF Flushed
  <2>8. ListOf(l)[1] = l /\ ListOf(l)[2] = "listed"
    BY SListFacts
  <2>9. PICK g : g = guard(l, cellIndex[o])
    OBVIOUS
  <2>10. cellIndex[o] \in Cell /\ cellIndex[o] # NoCell /\ g \in DList /\ o \in Object \ D
    <3>1. cellIndex[o] \in Cell
      BY <1>2, <2>3, <2>7 DEF Placed
    <3>2. QED
      BY <3>1, <1>4, <2>3, <2>7, <2>9, CellFacts, GuardFacts
  <2> DEFINE D2 == D \cup {o}
             dOwn2 == [dOwn EXCEPT ![o] = g]
             dRank2 == [dRank EXCEPT ![o] = dLength[g] + 1]
             dLength2 == [dLength EXCEPT ![g] = @ + 1]
  <2>11. Pushed(D, dOwn, dRank, dLength, o, g, D2, dOwn2, dRank2, dLength2) /\ D2 = D \cup {o}
    BY DEF Pushed
  <2>12. dOwn2[o] = g /\ \A p \in D : dOwn2[p] = dOwn[p]
    BY <1>4, <2>10
  <2> HIDE DEF D2, dOwn2, dRank2, dLength2
  <2>13. Placed(M, own2)'
    <3>1. \A p \in M : /\ own2[p][2] = "square" => cellIndex'[p] \in Cell
                       /\ own2[p][2] = "none" => cellIndex'[p] = NoCell
      BY <1>2, <1>3, <2>7, <2>8 DEF Placed
    <3>2. QED
      BY <3>1 DEF Placed
  <2>14. Squares(M, own2, D2, dOwn2, dRank2, dLength2)'
    <3>1. Meshed(nextD', prevD', D2, dOwn2, dRank2, dLength2)
      BY <1>4, <2>2, <2>9, <2>10, <2>11, MeshedLink
    <3>2. D2 = {p \in M : own2[p][2] = "listed" /\ cellIndex'[p] # NoCell}
      BY <1>3, <1>4, <2>7, <2>8, <2>10, <2>11
    <3>3. \A p \in D2 : dOwn2[p] = guard(own2[p][1], cellIndex'[p])
      BY <1>3, <1>4, <2>7, <2>8, <2>9, <2>10, <2>11, <2>12
    <3>4. ASSUME NEW p \in M \ D2 PROVE prevD'[p] = NULL
      <4>1. p \in M \ D /\ p # o /\ p \in Object \ D
        BY <1>4, <2>11
      <4>2. prevD'[p] = prevD[p]
        BY <4>1, <1>4, <2>2, <2>9, <2>10, MeshedRest
      <4>3. QED
        BY <4>1, <4>2, <1>4
    <3>5. QED
      BY <3>1, <3>2, <3>3, <3>4 DEF Squares
  <2>15. GridInv'
    BY <2>7, <2>13, <2>14 DEF GridInv, Shape
  <2>16. QED
    BY <2>7, <2>15
<1>6. CASE firstDelayed[l] = NULL
  <2>1. PICK o : o = firstDelayedNoCol[l]
    OBVIOUS
  <2>2. /\ firstDelayedNoCol' = [firstDelayedNoCol EXCEPT ![l] = nextS[o]] /\ o # NULL
        /\ insertS(l, o) /\ firstDelayed' = firstDelayed /\ nextD' = nextD /\ prevD' = prevD
    BY <1>3, <1>6, <2>1 DEF flushDelayed, Waits
  <2>3. /\ NoneListOf(l) \in SList /\ NoneListOf(l)[2] = "none"
        /\ HeadOf(firstS, firstDelayed, firstDelayedNoCol)[NoneListOf(l)] = o
    BY <2>1, SListFacts, NoneHead
  <2>4. nextS[o] \in Object \cup {NULL}
    BY <1>2, <2>1, <2>2 DEF Typed
  <2>5. /\ SetAt(Layer, firstDelayedNoCol, l, nextS[o], firstDelayedNoCol')
        /\ firstDelayed' \in [Layer -> Object \cup {NULL}]
        /\ firstDelayedNoCol' \in [Layer -> Object \cup {NULL}]
    BY <1>2, <2>2, <2>4 DEF SetAt, Typed
  <2>6. SetAt(SList, HeadOf(firstS', firstDelayed, firstDelayedNoCol), NoneListOf(l), nextS[o],
              HeadOf(firstS', firstDelayed', firstDelayedNoCol'))
    <3>1. SetAt(SList, HeadOf(firstS', firstDelayed, firstDelayedNoCol), NoneListOf(l), nextS[o],
                HeadOf(firstS', firstDelayed, firstDelayedNoCol'))
      BY <2>5, NoneSet
    <3>2. QED
      BY <3>1, <2>2
  <2>7. PICK own2, rank2, length2 :
           /\ Typed' /\ Lists(M, own2, rank2, length2)' /\ Pass(M, own2, rank2)'
           /\ o \in M /\ own[o] = NoneListOf(l) /\ own2[o] = ListOf(l)
           /\ \A p \in M \ {o} : own2[p] = own[p]
           /\ o \in Object /\ Set!Flush(o)
    <3>1. Flushed(M, own, l, NoneListOf(l), o)
      BY <1>2, <1>3, <2>1, <2>2, <2>3, <2>5, <2>6, FlushLists
    <3>2. QED
      BY <3>1 DEF Flushed
  <2>8. ListOf(l)[1] = l /\ ListOf(l)[2] = "listed"
    BY SListFacts
  <2>9. cellIndex[o] = NoCell /\ o \notin D
    BY <1>2, <1>4, <2>3, <2>7 DEF Placed
  <2>10. Placed(M, own2)'
    <3>1. \A p \in M : /\ own2[p][2] = "square" => cellIndex'[p] \in Cell
                       /\ own2[p][2] = "none" => cellIndex'[p] = NoCell
      BY <1>2, <1>3, <2>7, <2>8 DEF Placed
    <3>2. QED
      BY <3>1 DEF Placed
  <2>11. Squares(M, own2, D, dOwn, dRank, dLength)'
    <3>1. Meshed(nextD', prevD', D, dOwn, dRank, dLength)
      BY <1>4, <2>2
    <3>2. D = {p \in M : own2[p][2] = "listed" /\ cellIndex'[p] # NoCell}
      BY <1>3, <1>4, <2>7, <2>9
    <3>3. \A p \in D : dOwn[p] = guard(own2[p][1], cellIndex'[p])
      BY <1>3, <1>4, <2>7, <2>9
    <3>4. \A p \in M \ D : prevD'[p] = NULL
      BY <1>4, <2>2
    <3>5. QED
      BY <3>1, <3>2, <3>3, <3>4 DEF Squares
  <2>12. GridInv'
    BY <2>7, <2>10, <2>11 DEF GridInv, Shape
  <2>13. QED
    BY <2>7, <2>12
<1>7. QED
  BY <1>5, <1>6

-----------------------------------------------------------------------------
(* Grid::erase: the object at the iterator taken off the lists. *)
LEMMA CountDown ==
  ASSUME NEW M, NEW own, NEW rank, NEW length \in [SList -> Nat], NEW o, NEW l \in Layer, own[o] = ListOf(l),
         NEW M2, NEW rank2, NEW length2 \in [SList -> Nat], Dropped(M, own, rank, length, o, M2, rank2, length2),
         NEW cnt \in [Layer -> Nat], \A j \in Layer : cnt[j] = length[ListOf(j)]
  PROVE  /\ [cnt EXCEPT ![l] = @ - 1] \in [Layer -> Nat]
         /\ \A j \in Layer : [cnt EXCEPT ![l] = @ - 1][j] = length2[ListOf(j)]
<1>1. \A j \in Layer : ListOf(j) \in SList /\ (ListOf(j) = ListOf(l) => j = l)
  BY SListFacts
<1>2. length2 = [length EXCEPT ![ListOf(l)] = @ - 1]
  BY DEF Dropped
<1>3. cnt[l] - 1 = length2[ListOf(l)] /\ length2[ListOf(l)] \in Nat
  BY <1>1, <1>2
<1>4. \A j \in Layer : j # l => cnt[j] = length2[ListOf(j)]
  BY <1>1, <1>2
<1>5. QED
  BY <1>3, <1>4

(* At most one object leads to another. *)
LEMMA ThreadedBefore ==
  ASSUME NEW K, NEW stop, NEW first, NEW next, NEW M, NEW own, NEW rank, NEW length,
         Threaded(K, stop, first, next, M, own, rank, length), NEW o \in M,
         \A j \in K : stop[j] \notin M
  PROVE  \A p, q \in M : next[p] = o /\ next[q] = o => p = q /\ p # o
<1>1. /\ \A p \in M : rank[p] \in 1 .. length[own[p]] /\ LinkFits(stop, next, M, own, rank, p) /\ own[p] \in K
      /\ RanksDiffer(M, own, rank)
      /\ \A p \in M : rank[p] \in Nat
  BY DEF Threaded, LinksFit
<1>2. \A p \in M : next[p] = o => own[p] = own[o] /\ rank[p] = rank[o] + 1
  BY <1>1 DEF LinkFits
<1>3. QED
  BY <1>1, <1>2 DEF RanksDiffer

UnlinkedS(it, o, fs, next, fs2, next2) ==
  /\ it.ptr = o
  /\ IF it.prev # NULL
     THEN next2 = [next EXCEPT ![it.prev] = next[o]] /\ fs2 = fs
     ELSE fs2 = [fs EXCEPT ![it.layer] = next[o]] /\ next2 = next

LEMMA UnlinkPassesBy ==
  ASSUME NEW fs, NEW fd, NEW fn, NEW next, NEW M, NEW own, NEW rank, NEW length,
         Chained(fs, fd, fn, next, M, own, rank, length),
         NEW it, IterType(it), IterFits(it, fs, next, M, own), it.ptr # NULL,
         fs \in [Layer -> Object \cup {NULL}], next \in [Object -> Object \cup {NULL}],
         NEW o, NEW fs2, NEW next2, UnlinkedS(it, o, fs, next, fs2, next2)
  PROVE  /\ PassedBy(SList, NoStop, M, HeadOf(fs, fd, fn), next, o, HeadOf(fs2, fd, fn), next2)
         /\ Bypassed(it, o, fs, next, fs2, next2)
<1> DEFINE l == it.layer
           k == ListOf(l)
           head == HeadOf(fs, fd, fn)
           head2 == HeadOf(fs2, fd, fn)
<1> USE DEF UnlinkedS
<1>1. /\ o \in M /\ own[o] = k /\ l \in Layer /\ k \in SList /\ head[k] = fs[l] /\ M \subseteq Object
      /\ IF it.prev = NULL THEN fs[l] = o ELSE it.prev \in M /\ next[it.prev] = o
      /\ it.prev \in Object \cup {NULL} /\ NULL \notin M
  BY SListFacts, ListedHead, GridAssumption DEF IterFits, IterType, Chained, Threaded
<1>2. /\ Threaded(SList, NoStop, head, next, M, own, rank, length)
      /\ \A j \in SList : NoStop[j] \notin M
  BY <1>1, SListFacts DEF Chained
<1>3. CASE it.prev = NULL
  <2>1. SetAt(Layer, fs, l, next[o], fs2)
    BY <1>3 DEF SetAt
  <2>2. SetAt(SList, head, k, next[o], head2)
    BY <1>1, <2>1, ListedSet
  <2>3. head[k] = o /\ next2 = next
    BY <1>1, <1>3
  <2>4. \A j \in SList : head2[j] = IF j = k THEN next[o] ELSE head[j]
    BY <2>2 DEF SetAt
  <2> HIDE DEF head, head2, k
  <2>5. (\A j \in SList : head[j] = o => j = k) /\ \A p \in M : next[p] # o
    BY <1>1, <1>2, <2>3, ThreadedHead
  <2>6. PassedBy(SList, NoStop, M, head, next, o, head2, next2)
    BY <1>2, <2>3, <2>4, <2>5 DEF PassedBy
  <2>7. QED
    BY <1>1, <1>3, <2>6 DEF head, head2, Bypassed
<1>4. CASE it.prev # NULL
  <2>1. it.prev \in M /\ next[it.prev] = o /\ fs2 = fs /\ head2 = head
    BY <1>1, <1>4
  <2>2. next2[it.prev] = next[o] /\ \A p \in M : p # it.prev => next2[p] = next[p]
    BY <1>1, <1>4, <2>1
  <2> HIDE DEF head, head2, k
  <2>3. \A j \in SList : head[j] # o
    <3> SUFFICES ASSUME NEW j \in SList, head[j] = o PROVE FALSE
      OBVIOUS
    <3>1. head[j] \in M
      BY <1>1
    <3>2. \A p \in M : next[p] # head[j]
      BY <1>2, <3>1, ThreadedHead
    <3>3. QED
      BY <2>1, <3>2
  <2>4. \A p, q \in M : next[p] = o /\ next[q] = o => p = q /\ p # o
    BY <1>1, <1>2, ThreadedBefore
  <2>5. \A p \in M \ {o} : next2[p] = IF next[p] = o THEN next[o] ELSE next[p]
    BY <2>1, <2>2, <2>4
  <2>6. PassedBy(SList, NoStop, M, head, next, o, head2, next2)
    BY <1>2, <2>1, <2>3, <2>5 DEF PassedBy
  <2>7. fs[l] # o
    BY <1>1, <2>3 DEF head
  <2>8. QED
    BY <2>1, <2>2, <2>6, <2>7 DEF head, head2, Bypassed
<1>5. QED
  BY <1>3, <1>4

LEMMA ChainedDrop ==
  ASSUME NEW fs, NEW fd, NEW fn, NEW next, NEW M, NEW own, NEW rank, NEW length,
         Chained(fs, fd, fn, next, M, own, rank, length), NEW o \in M,
         NEW fs2, NEW next2,
         PassedBy(SList, NoStop, M, HeadOf(fs, fd, fn), next, o, HeadOf(fs2, fd, fn), next2),
         NEW M2, NEW rank2, NEW length2, Dropped(M, own, rank, length, o, M2, rank2, length2)
  PROVE  Chained(fs2, fd, fn, next2, M2, own, rank2, length2) /\ length2 \in [SList -> Nat]
<1>1. Threaded(SList, NoStop, HeadOf(fs2, fd, fn), next2, M2, own, rank2, length2)
  BY ThreadedDrop DEF Chained
<1>2. QED
  BY <1>1 DEF Chained, Threaded

(* What erase does to the set of objects. *)
ErasedFrom(o) ==
  /\ o \in Todo /\ o \in Object /\ Todo' = Todo \ {o}
  /\ AllListed' = AllListed \ {o} /\ AllPending' = AllPending
  /\ live' \ (AllListed' \cup AllPending') = live \ (AllListed \cup AllPending)
  /\ deleteMe' = deleteMe \ {o} /\ cellIndex' = [cellIndex EXCEPT ![o] = NoCell]
  /\ loaded' = loaded

LEMMA EraseLists ==
  ASSUME GridInv, erase, iter.ptr # NULL, phase \in {"erase", "clear"}, phase' = phase
  PROVE  GridInv' /\ ErasedFrom(iter.ptr)
<1>1. PICK M, own, rank, length, D, dOwn, dRank, dLength :
        Shape(M, own, rank, length, D, dOwn, dRank, dLength)
  BY DEF GridInv
<1>2. /\ Typed /\ Lists(M, own, rank, length) /\ Placed(M, own)
      /\ Squares(M, own, D, dOwn, dRank, dLength) /\ Pass(M, own, rank)
  BY <1>1 DEF GridInv, Shape
<1>3. PICK o, l, was : o = iter.ptr /\ l = iter.layer /\ was = prevD[o]
  OBVIOUS
<1>4. /\ IF iter.prev # NULL
         THEN nextS' = [nextS EXCEPT ![iter.prev] = nextS[iter.ptr]] /\ firstS' = firstS
         ELSE firstS' = [firstS EXCEPT ![iter.layer] = nextS[iter.ptr]] /\ nextS' = nextS
      /\ IF prevD[o] # NULL
         THEN nextD' = UnlinkedNext(o) /\ prevD' = UnlinkedPrev(o)
         ELSE nextD' = nextD /\ prevD' = prevD
      /\ count' = [count EXCEPT ![l] = @ - 1]
      /\ iter' = findFirstValid([iter EXCEPT !.ptr = nextS[iter.ptr]], firstS')
      /\ live' = live \ {o} /\ deleteMe' = deleteMe \ {o}
      /\ cellIndex' = [cellIndex EXCEPT ![o] = NoCell]
      /\ firstDelayed' = firstDelayed /\ firstDelayedNoCol' = firstDelayedNoCol /\ loaded' = loaded
  BY <1>3 DEF erase, unlink
<1>5. /\ M \subseteq live /\ M \subseteq Object
      /\ Chained(firstS, firstDelayed, firstDelayedNoCol, nextS, M, own, rank, length)
      /\ own \in [Object -> SList] /\ rank \in [Object -> Nat] /\ length \in [SList -> Nat]
      /\ IterType(iter) /\ IterFits(iter, firstS, nextS, M, own)
      /\ firstS \in [Layer -> Object \cup {NULL}] /\ nextS \in [Object -> Object \cup {NULL}]
  BY <1>2 DEF Lists, Chained, Threaded, Typed, Pass
<1>6. /\ Meshed(nextD, prevD, D, dOwn, dRank, dLength)
      /\ D = {p \in M : own[p][2] = "listed" /\ cellIndex[p] # NoCell}
      /\ \A p \in D : dOwn[p] = guard(own[p][1], cellIndex[p])
      /\ \A p \in M \ D : prevD[p] = NULL
  BY <1>2 DEF Squares
<1>7. /\ o \in M /\ o \in Object /\ l \in Layer /\ own[o] = ListOf(l)
      /\ o \in Left(iter, M, own, rank) /\ o \in On(M, own, "listed")
  BY <1>3, <1>5, IterIsLeft DEF IterFits, IterType
<1> DEFINE M2 == M \ {o}
           rank2 == RankWithout(own, rank, o)
           length2 == [length EXCEPT ![own[o]] = @ - 1]
<1>8. Dropped(M, own, rank, length, o, M2, rank2, length2) /\ M2 = M \ {o} /\ rank2 = RankWithout(own, rank, o)
  BY DEF Dropped
<1> HIDE DEF M2, rank2, length2
<1>9. /\ PassedBy(SList, NoStop, M, HeadOf(firstS, firstDelayed, firstDelayedNoCol), nextS, o,
                  HeadOf(firstS', firstDelayed, firstDelayedNoCol), nextS')
      /\ Bypassed(iter, o, firstS, nextS, firstS', nextS')
  <2>1. UnlinkedS(iter, o, firstS, nextS, firstS', nextS')
    BY <1>3, <1>4 DEF UnlinkedS
  <2>2. QED
    BY <2>1, <1>5, UnlinkPassesBy
<1>10. /\ Chained(firstS', firstDelayed, firstDelayedNoCol, nextS', M2, own, rank2, length2)
       /\ length2 \in [SList -> Nat]
  BY <1>5, <1>7, <1>8, <1>9, ChainedDrop
<1>11. /\ IterType(iter') /\ IterFits(iter', firstS', nextS', M2, own)
       /\ Left(iter', M2, own, rank2) = Left(iter, M, own, rank) \ {o}
  <2>1. GoesOn(iter, o, firstS', nextS, iter')
    BY <1>3, <1>4 DEF GoesOn
  <2>2. IterType(iter') /\ IterFits(iter', firstS', nextS', M2, own)
        /\ LeftBehind(o, iter, M, own, rank, iter', M2, rank2)
    BY <2>1, <1>5, <1>8, <1>9, <1>10, AtErase
  <2>3. QED
    BY <2>2 DEF LeftBehind
<1>12. Lists(M2, own, rank2, length2)' /\ count' \in [Layer -> Nat]
  <2>1. \A j \in Layer : count[j] = length[ListOf(j)]
    BY <1>2 DEF Lists
  <2>2. count \in [Layer -> Nat]
    BY <1>2 DEF Typed
  <2>3. /\ [count EXCEPT ![l] = @ - 1] \in [Layer -> Nat]
        /\ \A j \in Layer : [count EXCEPT ![l] = @ - 1][j] = length2[ListOf(j)]
    BY <2>1, <2>2, <1>5, <1>7, <1>8, <1>10, CountDown
  <2>4. M2 \subseteq live'
    BY <1>4, <1>5, <1>8
  <2>5. QED
    BY <1>4, <1>10, <2>3, <2>4 DEF Lists
<1>13. /\ cellIndex' \in [Object -> Cell \cup {NoCell}]
       /\ \A p \in M2 : p \in M /\ p # o /\ cellIndex'[p] = cellIndex[p]
  BY <1>2, <1>4, <1>5, <1>8 DEF Typed
<1>14. Placed(M2, own)'
  <2>1. \A p \in M2 : /\ own[p][2] = "square" => cellIndex'[p] \in Cell
                      /\ own[p][2] = "none" => cellIndex'[p] = NoCell
    BY <1>2, <1>13 DEF Placed
  <2>2. QED
    BY <2>1 DEF Placed
<1>15. \E D2, dRank2, dLength2 : Squares(M2, own, D2, dOwn, dRank2, dLength2)'
  <2>1. CASE o \in D
    <3> DEFINE D2 == D \ {o}
               dRank2 == RankWithout(dOwn, dRank, o)
               dLength2 == [dLength EXCEPT ![dOwn[o]] = @ - 1]
    <3>1. Dropped(D, dOwn, dRank, dLength, o, D2, dRank2, dLength2) /\ D2 = D \ {o}
      BY DEF Dropped
    <3> HIDE DEF D2, dRank2, dLength2
    <3>2. nextD' = Without(nextD, prevD[o], nextD[o]) /\ prevD' = Without(prevD, nextD[o], prevD[o])
      <4>1. prevD[o] \in D \cup DList
        BY <1>6, <2>1 DEF Meshed
      <4>2. prevD[o] # NULL
        BY <4>1, <1>5, <1>6, GuardFacts
      <4>3. QED
        BY <4>2, <1>4 DEF UnlinkedNext, UnlinkedPrev, Without
    <3>3. Meshed(nextD', prevD', D2, dOwn, dRank2, dLength2)
      BY <1>6, <2>1, <3>1, <3>2, MeshedUnlink
    <3>4. D2 = {p \in M2 : own[p][2] = "listed" /\ cellIndex'[p] # NoCell}
      BY <1>6, <1>8, <1>13, <3>1
    <3>5. \A p \in D2 : dOwn[p] = guard(own[p][1], cellIndex'[p])
      BY <1>6, <1>13, <3>1, <3>4
    <3>6. ASSUME NEW p \in M2 \ D2 PROVE prevD'[p] = NULL
      <4>1. p \in M \ D /\ p \in Object \ D
        BY <1>5, <1>8, <3>1
      <4>2. prevD'[p] = prevD[p]
        BY <4>1, <1>6, <2>1, <3>2, MeshedRest
      <4>3. QED
        BY <4>1, <4>2, <1>6
    <3>7. Squares(M2, own, D2, dOwn, dRank2, dLength2)'
      BY <3>3, <3>4, <3>5, <3>6 DEF Squares
    <3>8. QED
      BY <3>7
  <2>2. CASE o \notin D
    <3>1. nextD' = nextD /\ prevD' = prevD
      BY <1>4, <1>6, <1>7, <2>2
    <3>2. Meshed(nextD', prevD', D, dOwn, dRank, dLength)
      BY <1>6, <3>1
    <3>3. D = {p \in M2 : own[p][2] = "listed" /\ cellIndex'[p] # NoCell}
      BY <1>6, <1>8, <1>13, <2>2
    <3>4. \A p \in D : dOwn[p] = guard(own[p][1], cellIndex'[p])
      BY <1>6, <1>13, <3>3
    <3>5. \A p \in M2 \ D : prevD'[p] = NULL
      BY <1>6, <1>13, <3>1
    <3>6. Squares(M2, own, D, dOwn, dRank, dLength)'
      BY <3>2, <3>3, <3>4, <3>5 DEF Squares
    <3>7. QED
      BY <3>6
  <2>3. QED
    BY <2>1, <2>2
<1>16. On(M2, own, "listed") = On(M, own, "listed") \ {o}
  BY <1>8 DEF On
<1>17. Pass(M2, own, rank2)'
  BY <1>2, <1>4, <1>11, <1>16 DEF Pass
<1>18. Typed'
  <2>1. nextS[o] \in Object \cup {NULL}
    BY <1>5, <1>7
  <2>2. firstS' \in [Layer -> Object \cup {NULL}] /\ nextS' \in [Object -> Object \cup {NULL}]
    BY <1>3, <1>4, <1>5, <2>1
  <2>3. /\ firstDelayed' \in [Layer -> Object \cup {NULL}]
        /\ firstDelayedNoCol' \in [Layer -> Object \cup {NULL}]
        /\ deleteMe' \subseteq live' /\ live' \subseteq Object
        /\ phase' \in {"erase", "think", "flush", "rest", "clear"} /\ loaded' \in BOOLEAN
    BY <1>2, <1>4 DEF Typed
  <2>4. QED
    BY <1>11, <1>12, <1>13, <2>2, <2>3 DEF Typed
<1>19. GridInv'
  BY <1>12, <1>14, <1>15, <1>17, <1>18 DEF GridInv, Shape
<1>20. View(M, own, rank) /\ View(M2, own, rank2)'
  <2>1. View(M, own, rank)
    BY <1>2, Abstract DEF Typed, Pass
  <2>2. View(M2, own, rank2)'
    BY <1>12, <1>17, <1>18, AbstractNext DEF Typed, Pass
  <2>3. QED
    BY <2>1, <2>2
<1>21. /\ AllListed = On(M, own, "listed") /\ AllPending = M \ On(M, own, "listed")
       /\ Todo = Left(iter, M, own, rank)
       /\ AllListed' = On(M2, own, "listed") /\ AllPending' = M2 \ On(M2, own, "listed")
       /\ Todo' = Left(iter', M2, own, rank2)
  BY <1>20 DEF View
<1>22. ErasedFrom(o)
  <2>1. AllListed' = AllListed \ {o}
    BY <1>16, <1>21
  <2>2. AllPending' = AllPending
    BY <1>7, <1>8, <1>16, <1>21
  <2>3. Todo' = Todo \ {o} /\ o \in Todo
    BY <1>7, <1>11, <1>21
  <2>4. AllListed \cup AllPending = M /\ AllListed' \cup AllPending' = M \ {o}
    <3>1. On(M, own, "listed") \subseteq M /\ On(M2, own, "listed") \subseteq M2
      BY DEF On
    <3>2. QED
      BY <3>1, <1>8, <1>21
  <2>5. live' \ (AllListed' \cup AllPending') = live \ (AllListed \cup AllPending)
    BY <1>4, <1>5, <1>7, <2>4
  <2>6. QED
    BY <1>4, <1>7, <2>1, <2>2, <2>3, <2>5 DEF ErasedFrom
<1>23. QED
  BY <1>3, <1>19, <1>22

LEMMA EraseStep ==
  ASSUME GridInv, Erase
  PROVE  GridInv' /\ \E o \in Object : Set!Erase(o)
<1>1. phase = "erase" /\ iter.ptr \in deleteMe /\ erase /\ phase' = phase
  BY DEF Erase
<1>2. iter.ptr # NULL
  BY <1>1, GridAssumption DEF GridInv, Typed
<1>3. GridInv' /\ ErasedFrom(iter.ptr)
  BY <1>1, <1>2, EraseLists
<1>4. Set!Erase(iter.ptr) /\ iter.ptr \in Object
  BY <1>1, <1>3 DEF ErasedFrom, Set!Erase
<1>5. QED
  BY <1>3, <1>4

LEMMA ClearStep ==
  ASSUME GridInv, Clear
  PROVE  GridInv' /\ \E o \in Object : Set!Clear(o)
<1>1. phase = "clear" /\ iter.ptr # NULL /\ erase /\ phase' = phase
  BY DEF Clear
<1>2. GridInv' /\ ErasedFrom(iter.ptr)
  BY <1>1, EraseLists
<1>3. Set!Clear(iter.ptr) /\ iter.ptr \in Object
  BY <1>1, <1>2 DEF ErasedFrom, Set!Clear
<1>4. QED
  BY <1>2, <1>3

-----------------------------------------------------------------------------
(* An object that has thought is moved behind the guard of its square, if it   *)
(* has one.                                                                    *)
PutAt(o, c) ==
  /\ cellIndex' = [cellIndex EXCEPT ![o] = c]
  /\ c \in Cell \cup {NoCell}
  /\ (cellIndex[o] = NoCell) <=> (c = NoCell)

LEMMA Relocated ==
  ASSUME NEW CONSTANT M, NEW CONSTANT own, NEW CONSTANT D,
         NEW CONSTANT dOwn, NEW CONSTANT dRank, NEW CONSTANT dLength,
         Squares(M, own, D, dOwn, dRank, dLength), M \subseteq Object,
         cellIndex \in [Object -> Cell \cup {NoCell}],
         NEW CONSTANT o \in M, NEW CONSTANT l \in Layer, iter.ptr = o, iter.layer = l, own[o] = ListOf(l),
         NEW CONSTANT c \in Cell, relocateIfNecessary(c)
  PROVE  /\ \E c2 : PutAt(o, c2)
         /\ \E dOwn2, dRank2, dLength2 : Squares(M, own, D, dOwn2, dRank2, dLength2)'
<1>1. /\ Meshed(nextD, prevD, D, dOwn, dRank, dLength)
      /\ D = {p \in M : own[p][2] = "listed" /\ cellIndex[p] # NoCell}
      /\ \A p \in D : dOwn[p] = guard(own[p][1], cellIndex[p])
      /\ \A p \in M \ D : prevD[p] = NULL
      /\ dOwn \in [Object -> DList]
  BY DEF Squares, Meshed, Threaded
<1>2. IF prevD[o] = NULL \/ cellIndex[o] = c
      THEN cellIndex' = cellIndex /\ nextD' = nextD /\ prevD' = prevD
      ELSE /\ cellIndex' = [cellIndex EXCEPT ![o] = c]
           /\ nextD' = LinkedNext(UnlinkedNext(o), guard(l, c), o)
           /\ prevD' = LinkedPrev(UnlinkedNext(o), UnlinkedPrev(o), guard(l, c), o)
  BY DEF relocateIfNecessary, moveAfter
<1>3. o \in Object /\ own[o][1] = l /\ own[o][2] = "listed"
  BY SListFacts
<1>4. CASE prevD[o] = NULL \/ cellIndex[o] = c
  <2>1. cellIndex' = cellIndex /\ nextD' = nextD /\ prevD' = prevD
    BY <1>2, <1>4
  <2>2. PutAt(o, cellIndex[o])
    BY <2>1, <1>3 DEF PutAt
  <2>3. Squares(M, own, D, dOwn, dRank, dLength)'
    BY <2>1, <1>1 DEF Squares
  <2>4. QED
    BY <2>2, <2>3
<1>5. CASE prevD[o] # NULL /\ cellIndex[o] # c
  <2>1. /\ cellIndex' = [cellIndex EXCEPT ![o] = c]
        /\ nextD' = LinkedNext(UnlinkedNext(o), guard(l, c), o)
        /\ prevD' = LinkedPrev(UnlinkedNext(o), UnlinkedPrev(o), guard(l, c), o)
    BY <1>2, <1>5
  <2>2. o \in D /\ D \subseteq Object
    BY <1>1, <1>5
  <2> DEFINE g == guard(l, c)
             nx == Without(nextD, prevD[o], nextD[o])
             pv == Without(prevD, nextD[o], prevD[o])
             D1 == D \ {o}
             dRank1 == RankWithout(dOwn, dRank, o)
             dLength1 == [dLength EXCEPT ![dOwn[o]] = @ - 1]
             D2 == D1 \cup {o}
             dOwn2 == [dOwn EXCEPT ![o] = g]
             dRank2 == [dRank1 EXCEPT ![o] = dLength1[g] + 1]
             dLength2 == [dLength1 EXCEPT ![g] = @ + 1]
  <2>3. /\ nextD' = LinkedNext(nx, g, o) /\ prevD' = LinkedPrev(nx, pv, g, o)
        /\ \A p \in Object : p # o => prevD'[p] = LinkedPrev(nx, pv, g, o)[p]
    BY <2>1 DEF UnlinkedNext, UnlinkedPrev, Without
  <2>4. g \in DList /\ c # NoCell
    BY GuardFacts, CellFacts
  <2>5. /\ Dropped(D, dOwn, dRank, dLength, o, D1, dRank1, dLength1)
        /\ Pushed(D1, dOwn, dRank1, dLength1, o, g, D2, dOwn2, dRank2, dLength2)
        /\ D1 = D \ {o} /\ D2 = D
    BY <2>2 DEF Dropped, Pushed
  <2>6. dOwn2[o] = g /\ \A p \in D : p # o => dOwn2[p] = dOwn[p]
    BY <1>1, <2>2
  <2>7. o \in Object \ D1
    BY <1>3
  <2> HIDE DEF g, D1, dRank1, dLength1, D2, dOwn2, dRank2, dLength2
  <2>8. Meshed(nx, pv, D1, dOwn, dRank1, dLength1)
    BY <1>1, <2>2, <2>5, MeshedUnlink
  <2>9. ASSUME NEW p \in M \ D PROVE prevD'[p] = NULL
    <3>1. p \in Object \ D /\ p \in Object \ D1 /\ p # o
      BY <2>2, <2>5
    <3>2. pv[p] = prevD[p]
      BY <3>1, <1>1, <2>2, MeshedRest
    <3> HIDE DEF nx, pv
    <3>3. LinkedPrev(nx, pv, g, o)[p] = pv[p]
      BY <3>1, <2>4, <2>7, <2>8, MeshedRest
    <3>4. QED
      BY <3>1, <3>2, <3>3, <2>3, <1>1
  <2> HIDE DEF nx, pv
  <2>10. Meshed(nextD', prevD', D2, dOwn2, dRank2, dLength2)
    BY <2>3, <2>4, <2>5, <2>7, <2>8, MeshedLink
  <2>11. cellIndex'[o] = c /\ \A p \in M : p # o => cellIndex'[p] = cellIndex[p]
    BY <2>1, <1>3
  <2>12. D = {p \in M : own[p][2] = "listed" /\ cellIndex'[p] # NoCell}
    BY <1>1, <1>3, <2>2, <2>4, <2>11
  <2>13. \A p \in D : dOwn2[p] = guard(own[p][1], cellIndex'[p])
    BY <1>1, <1>3, <2>6, <2>11 DEF g
  <2>14. Squares(M, own, D, dOwn2, dRank2, dLength2)'
    BY <2>5, <2>9, <2>10, <2>12, <2>13 DEF Squares
  <2>15. PutAt(o, c)
    BY <1>1, <2>1, <2>2, <2>4 DEF PutAt
  <2>16. QED
    BY <2>14, <2>15
<1>6. QED
  BY <1>4, <1>5

LEMMA ThinkStep ==
  ASSUME NEW CONSTANT c \in Cell, GridInv, Think(c)
  PROVE  GridInv' /\ \E o \in Object, c2 \in Set!Place : Set!Think(o, c2)
<1>1. PICK M, own, rank, length, D, dOwn, dRank, dLength :
        Shape(M, own, rank, length, D, dOwn, dRank, dLength)
  BY DEF GridInv
<1>2. /\ Typed /\ Lists(M, own, rank, length) /\ Placed(M, own)
      /\ Squares(M, own, D, dOwn, dRank, dLength) /\ Pass(M, own, rank)
  BY <1>1 DEF GridInv, Shape
<1>3. PICK o, l : o = iter.ptr /\ l = iter.layer
  OBVIOUS
<1>4. /\ relocateIfNecessary(c) /\ iter' = advance(iter) /\ firstS' = firstS /\ nextS' = nextS
      /\ firstDelayed' = firstDelayed /\ firstDelayedNoCol' = firstDelayedNoCol /\ count' = count
      /\ phase' = phase /\ live' = live /\ deleteMe' = deleteMe /\ loaded' = loaded
      /\ phase = "think" /\ iter.ptr # NULL
  BY DEF Think, heads
<1>5. /\ M \subseteq live /\ M \subseteq Object /\ IterType(iter) /\ IterFits(iter, firstS, nextS, M, own)
      /\ Chained(firstS, firstDelayed, firstDelayedNoCol, nextS, M, own, rank, length)
      /\ cellIndex \in [Object -> Cell \cup {NoCell}]
  BY <1>2 DEF Lists, Chained, Threaded, Typed, Pass
<1>6. /\ o \in M /\ o \in Object /\ l \in Layer /\ own[o] = ListOf(l)
      /\ o \in Left(iter, M, own, rank)
  BY <1>3, <1>4, <1>5, IterIsLeft DEF IterFits, IterType
<1>7. /\ \E c2 : PutAt(o, c2)
      /\ \E dOwn2, dRank2, dLength2 : Squares(M, own, D, dOwn2, dRank2, dLength2)'
  BY <1>2, <1>3, <1>4, <1>5, <1>6, Relocated
<1>8. PICK c2 : PutAt(o, c2)
  BY <1>7
<1>9. /\ cellIndex' = [cellIndex EXCEPT ![o] = c2]
      /\ c2 \in Cell \cup {NoCell}
      /\ (cellIndex[o] = NoCell) <=> (c2 = NoCell)
  BY <1>8 DEF PutAt
<1>10. /\ IterType(iter') /\ IterFits(iter', firstS', nextS', M, own)
       /\ Left(iter', M, own, rank) = Left(iter, M, own, rank) \ {iter.ptr}
  BY <1>4, <1>5, AtAdvance DEF advance
<1>11. Lists(M, own, rank, length)'
  BY <1>2, <1>4 DEF Lists
<1>12. Placed(M, own)'
  <2>1. own[o][2] = "listed"
    BY <1>6, SListFacts
  <2>2. \A p \in M : p # o => cellIndex'[p] = cellIndex[p]
    BY <1>5, <1>9
  <2>3. \A p \in M : /\ own[p][2] = "square" => cellIndex'[p] \in Cell
                     /\ own[p][2] = "none" => cellIndex'[p] = NoCell
    BY <1>2, <2>1, <2>2 DEF Placed
  <2>4. QED
    BY <2>3 DEF Placed
<1>13. Pass(M, own, rank)'
  BY <1>2, <1>4, <1>10 DEF Pass
<1>14. Typed'
  BY <1>2, <1>4, <1>9, <1>10 DEF Typed
<1>15. GridInv'
  BY <1>7, <1>11, <1>12, <1>13, <1>14 DEF GridInv, Shape
<1>16. View(M, own, rank) /\ View(M, own, rank)'
  <2>1. View(M, own, rank)
    BY <1>2, Abstract DEF Typed, Pass
  <2>2. View(M, own, rank)'
    BY <1>11, <1>13, <1>14, AbstractNext DEF Typed, Pass
  <2>3. QED
    BY <2>1, <2>2
<1>17. /\ AllListed' = AllListed /\ AllPending' = AllPending
       /\ o \in Todo /\ Todo' = Todo \ {o}
  BY <1>3, <1>6, <1>10, <1>16 DEF View
<1>18. Set!Think(o, c2)
  BY <1>4, <1>9, <1>17 DEF Set!Think
<1>19. QED
  BY <1>6, <1>9, <1>15, <1>18 DEF Set!Place

-----------------------------------------------------------------------------
(***************************************************************************)
(* The invariant, and the set of objects that the grid implements.         *)
(***************************************************************************)
LEMMA InitHolds ==
  ASSUME Init
  PROVE  GridInv /\ Set!Init
<1>1. /\ firstS = NoHeads /\ nextS = [o \in Object |-> NULL]
      /\ nextD = FreshNextD /\ prevD = FreshPrevD
      /\ count = [l \in Layer |-> 0]
      /\ firstDelayed = NoHeads /\ firstDelayedNoCol = NoHeads
      /\ cellIndex = [o \in Object |-> NoCell]
      /\ deleteMe = {} /\ live = {} /\ iter = End
      /\ phase = "rest" /\ loaded = TRUE
  BY DEF Init
<1>2. 1 \in Layer /\ LayerCount \in Layer /\ 0 \in Cell
  <2>1. SquaresH * SquaresV >= 1 /\ SquaresH * SquaresV \in Nat
    <3> SUFFICES ASSUME NEW h \in Nat \ {0}, NEW v \in Nat \ {0} PROVE h * v >= 1 /\ h * v \in Nat
      BY GridAssumption
    <3>1. v = (v - 1) + 1 /\ v - 1 \in Nat
      OBVIOUS
    <3>2. PICK u \in Nat : v = u + 1
      BY <3>1
    <3>3. h * v = h * u + h /\ h * u \in Nat
      BY <3>2
    <3>4. QED
      BY <3>3
  <2>2. QED
    BY <2>1, GridAssumption DEF Layer, Cell
<1> DEFINE own == [o \in Object |-> ListOf(1)]
           rank == [o \in Object |-> 0]
           zero == [k \in SList |-> 0]
           dOwn == [o \in Object |-> guard(1, 0)]
           dZero == [k \in DList |-> 0]
<1>3. own \in [Object -> SList] /\ rank \in [Object -> Nat] /\ dOwn \in [Object -> DList]
  BY <1>2, SListFacts, GuardFacts
<1>4. Lists({}, own, rank, zero)
  <2>1. Chained(NoHeads, NoHeads, NoHeads, nextS, {}, own, rank, zero)
    BY <1>3, ChainedNone
  <2>2. \A l \in Layer : count[l] = 0 /\ zero[ListOf(l)] = 0
    BY <1>1, SListFacts
  <2>3. QED
    BY <1>1, <2>1, <2>2 DEF Lists
<1>5. Placed({}, own)
  BY DEF Placed
<1>6. Squares({}, own, {}, dOwn, rank, dZero)
  <2>1. Meshed(nextD, prevD, {}, dOwn, rank, dZero)
    BY <1>1, <1>3, MeshedFresh
  <2>2. QED
    BY <2>1 DEF Squares
<1>7. iter.ptr = NULL /\ IterType(iter)
  BY <1>1, <1>2 DEF End, IterType
<1>8. Pass({}, own, rank)
  BY <1>1, <1>7 DEF Pass, IterFits
<1>9. Typed
  <2>1. /\ NoHeads \in [Layer -> Object \cup {NULL}] /\ [l \in Layer |-> 0] \in [Layer -> Nat]
        /\ [o \in Object |-> NULL] \in [Object -> Object \cup {NULL}]
        /\ [o \in Object |-> NoCell] \in [Object -> Cell \cup {NoCell}]
    BY DEF NoHeads
  <2>2. QED
    BY <1>1, <1>7, <2>1 DEF Typed
<1> HIDE DEF own, rank, zero, dOwn, dZero
<1>10. GridInv
  BY <1>4, <1>5, <1>6, <1>8, <1>9 DEF GridInv, Shape
<1>11. View({}, own, rank)
  BY <1>4, <1>8, <1>9, Abstract DEF Typed, Pass
<1>12. AllListed = {} /\ AllPending = {} /\ Todo = {}
  <2>1. On({}, own, "listed") = {}
    BY DEF On
  <2>2. QED
    BY <1>7, <1>11, <2>1, TodoEmpty DEF View
<1>13. Set!Init
  BY <1>1, <1>12 DEF Set!Init
<1>14. QED
  BY <1>10, <1>13

(* A step that changes nothing. *)
LEMMA StutterStep ==
  ASSUME GridInv, UNCHANGED gridVars
  PROVE  GridInv' /\ UNCHANGED Set!setVars
<1>1. PICK M, own, rank, length, D, dOwn, dRank, dLength :
        Shape(M, own, rank, length, D, dOwn, dRank, dLength)
  BY DEF GridInv
<1>2. Typed /\ Pass(M, own, rank)
  BY <1>1 DEF GridInv, Shape
<1>3. /\ iter' = iter /\ firstS' = firstS /\ nextS' = nextS /\ loaded' = loaded
      /\ live' = live /\ cellIndex' = cellIndex /\ phase' = phase /\ deleteMe' = deleteMe
  BY DEF gridVars
<1>4. Pass(M, own, rank)'
  BY <1>2, <1>3 DEF Pass
<1>5. /\ GridInv' /\ View(M, own, rank) /\ View(M, own, rank)'
      /\ AllListed' = AllListed /\ AllPending' = AllPending
  <2>1. UNCHANGED <<heads, links, cellIndex, live>>
    BY DEF gridVars, heads, links
  <2>2. /\ deleteMe' \subseteq live /\ loaded' \in BOOLEAN /\ IterType(iter')
        /\ phase' \in {"erase", "think", "flush", "rest", "clear"}
    BY <1>2, <1>3 DEF Typed
  <2>3. QED
    BY <1>1, <1>2, <1>4, <2>1, <2>2, ListsStay
<1>6. Todo' = Todo
  BY <1>3, <1>5 DEF View
<1>7. QED
  BY <1>3, <1>5, <1>6 DEF Set!setVars

LEMMA NextStep ==
  ASSUME GridInv, Next
  PROVE  GridInv' /\ Set!Next
<1> DEFINE Goal == GridInv' /\ Set!Next
<1>1. Set!BeginErase \/ Set!EndErase \/ Set!EndThink \/ Set!EndFlush \/ Set!BeginClear \/ Set!EndClear
        \/ Set!Resize => Set!Next
  BY DEF Set!Next
<1>2. ASSUME NEW o \in Object, Set!Erase(o) \/ Set!Keep(o) \/ Set!Flush(o) \/ Set!Mark({o}) \/ Set!Clear(o)
      PROVE  Set!Next
  BY <1>2 DEF Set!Next
<1>3. ASSUME NEW o \in Object, NEW c \in Set!Place,
             Set!Think(o, c) \/ Set!Insert(o, c) \/ Set!InsertImmediately(o, c)
      PROVE  Set!Next
  BY <1>3 DEF Set!Next
<1>4. /\ \A c \in Cell : c \in Set!Place
      /\ NoCell \in Set!Place
      /\ \A k \in Kind : k[1] \in Layer
      /\ WormLayer \subseteq Layer
  BY GridAssumption DEF Set!Place, Layer
<1> USE <1>1, <1>2, <1>3, <1>4
<1>5. CASE BeginErase
  <2>1. GridInv' /\ Set!Begin("erase")
    BY <1>5, BeginPassStep DEF BeginErase
  <2>2. QED
    BY <1>5, <2>1 DEF BeginErase, Set!BeginErase
<1>6. CASE BeginClear
  <2>1. GridInv' /\ Set!Begin("clear")
    BY <1>6, BeginPassStep DEF BeginClear
  <2>2. QED
    BY <1>6, <2>1 DEF BeginClear, Set!BeginClear
<1>7. CASE Erase
  BY <1>7, EraseStep
<1>8. CASE Keep
  BY <1>8, KeepStep
<1>9. CASE EndErase
  BY <1>9, EndEraseStep
<1>10. CASE EndThink
  BY <1>10, EndThinkStep
<1>11. CASE EndFlush
  BY <1>11, EndFlushStep
<1>12. CASE Clear
  BY <1>12, ClearStep
<1>13. CASE EndClear
  BY <1>13, EndClearStep
<1>14. CASE resize
  BY <1>14, ResizeStep
<1>15. ASSUME NEW c \in Cell, Think(c)
       PROVE  Goal
  BY <1>15, ThinkStep
<1>16. ASSUME NEW l \in Layer, flushDelayed(l)
       PROVE  Goal
  BY <1>16, FlushStep
<1>17. ASSUME NEW o \in Object, remove(o)
       PROVE  Goal
  BY <1>17, RemoveStep
<1>18. ASSUME NEW o \in Object, NEW k \in Kind, insertDelayedNoCol(k[1], o)
       PROVE  Goal
  BY <1>18, InsertDelayedNoColStep
<1>19. ASSUME NEW o \in Object, NEW k \in Kind, NEW c \in Cell, insertDelayed(k[1], o, c)
       PROVE  Goal
  BY <1>19, InsertDelayedStep
<1>20. ASSUME NEW o \in Object, NEW l \in WormLayer, NEW c \in Cell, insertImmediately(l, o, c)
       PROVE  Goal
  BY <1>20, InsertImmediatelyStep
<1>21. QED
  BY <1>5, <1>6, <1>7, <1>8, <1>9, <1>10, <1>11, <1>12, <1>13, <1>14, <1>15, <1>16, <1>17, <1>18,
     <1>19, <1>20 DEF Next, Loop

(* The objects that the lists thread, the list of each and how far it is from *)
(* the end of that list account for every link, in every state.               *)
THEOREM SpecGridInv == Spec => []GridInv
<1>1. GridInv /\ [Next]_gridVars => GridInv'
  BY NextStep, StutterStep
<1>2. QED
  BY <1>1, InitHolds, PTL DEF Spec

(* The state is of its types; in particular no link leaves the grid's nodes. *)
THEOREM SpecTypeOK == Spec => []TypeOK
<1>1. GridInv => TypeOK
  BY TypesHold
<1>2. QED
  BY <1>1, SpecGridInv, PTL

(* List::count is the length of the layer's list, so an area skips no layer   *)
(* that has objects.                                                          *)
THEOREM SpecCountIsLength == Spec => []CountIsLength
<1>1. GridInv => CountIsLength
  BY TypesHold
<1>2. QED
  BY <1>1, SpecGridInv, PTL

(* The intrusive lists are a set of objects: every step of the grid is a step *)
(* of that set, or changes nothing of it.                                     *)
THEOREM SpecIsObjectSet == Spec => IsObjectSet
<1>1. Init => Set!Init
  BY InitHolds
<1>2. GridInv /\ [Next]_gridVars => [Set!Next]_(Set!setVars)
  BY NextStep, StutterStep
<1>3. QED
  BY <1>1, <1>2, SpecGridInv, PTL DEF Spec, IsObjectSet, Set!Spec

-----------------------------------------------------------------------------
(***************************************************************************)
(* Grid::area_iterator: the squares of an area, in the order of the walk.  *)
(***************************************************************************)
IsArea(x, y, w, h) ==
  /\ x \in 0 .. SquaresH - 1 /\ y \in 0 .. SquaresV - 1
  /\ w \in 1 .. SquaresH - x /\ h \in 1 .. SquaresV - y

(* The square with r left on its row, itself included, and v rows left. *)
SquareAt(x, y, w, h, r, v) == (x + (w - r)) + (y + (h - v)) * SquaresH

LEMMA RowsApart ==
  ASSUME NEW n \in Nat, NEW a \in Nat, NEW b \in Nat, a < b
  PROVE  a * n \in Nat /\ b * n \in Nat /\ a * n + n <= b * n
<1>1. b = (a + 1) + (b - (a + 1)) /\ b - (a + 1) \in Nat
  OBVIOUS
<1>2. PICK d \in Nat : b = (a + 1) + d
  BY <1>1
<1>3. b * n = a * n + n + d * n
  BY <1>2
<1>4. a * n \in Nat /\ d * n \in Nat
  OBVIOUS
<1>5. QED
  BY <1>3, <1>4

LEMMA Rows ==
  /\ \A j \in Nat : j * SquaresH \in Nat /\ (j + 1) * SquaresH = j * SquaresH + SquaresH
  /\ \A i, j \in Nat : i < j => i * SquaresH + SquaresH <= j * SquaresH
  /\ SquaresV * SquaresH = NoCell /\ NoCell \in Nat
<1>1. SquaresH \in Nat /\ SquaresV \in Nat
  BY GridAssumption
<1>2. \A i, j \in Nat : i < j => i * SquaresH + SquaresH <= j * SquaresH
  BY <1>1, RowsApart
<1>3. ASSUME NEW j \in Nat
      PROVE  j * SquaresH \in Nat /\ (j + 1) * SquaresH = j * SquaresH + SquaresH
  BY <1>1
<1>4. SquaresV * SquaresH = NoCell /\ NoCell \in Nat
  BY <1>1 DEF NoCell
<1>5. QED
  BY <1>2, <1>3, <1>4

LEMMA AreaInGrid ==
  ASSUME NEW x, NEW y, NEW w, NEW h, IsArea(x, y, w, h)
  PROVE  /\ AreaOf(x, y, w, h) \subseteq Cell
         /\ SquareAt(x, y, w, h, w, h) = x + y * SquaresH
         /\ \A t \in AreaOf(x, y, w, h) : t >= x + y * SquaresH
<1>1. /\ SquaresH \in Nat \ {0} /\ SquaresV \in Nat \ {0}
      /\ x \in Nat /\ y \in Nat /\ w \in Nat /\ h \in Nat /\ w > 0 /\ h > 0
      /\ x + w <= SquaresH /\ y + h <= SquaresV
  BY GridAssumption DEF IsArea
<1> DEFINE Row(j) == j * SquaresH
<1>2. /\ \A j \in Nat : Row(j) \in Nat
      /\ \A i, j \in Nat : i < j => Row(i) + SquaresH <= Row(j)
      /\ Row(SquaresV) = NoCell /\ NoCell \in Nat
  BY Rows
<1>3. Cell = 0 .. NoCell - 1
  BY DEF Cell, NoCell
<1>4. SquareAt(x, y, w, h, w, h) = x + Row(y)
  BY <1>1 DEF SquareAt
<1>5. AreaOf(x, y, w, h) = {i + Row(j) : i \in x .. x + w - 1, j \in y .. y + h - 1}
  BY DEF AreaOf
<1> HIDE DEF Row
<1>6. ASSUME NEW t \in AreaOf(x, y, w, h)
      PROVE  t \in Cell /\ t >= x + Row(y)
  <2>1. PICK i \in x .. x + w - 1, j \in y .. y + h - 1 : t = i + Row(j)
    BY <1>5
  <2>2. i \in Nat /\ j \in Nat /\ i >= x /\ i < SquaresH /\ j < SquaresV /\ j >= y
    BY <1>1
  <2>3. Row(j) \in Nat /\ Row(j) + SquaresH <= Row(SquaresV) /\ Row(y) \in Nat
    BY <2>2, <1>1, <1>2
  <2>4. Row(j) >= Row(y)
    <3>1. y < j => Row(y) + SquaresH <= Row(j)
      BY <2>2, <1>1, <1>2
    <3>2. y = j \/ y < j
      BY <2>2, <1>1
    <3>3. QED
      BY <3>1, <3>2, <2>3, <1>1
  <2>5. t \in Nat /\ t < NoCell /\ t >= x + Row(y)
    BY <2>1, <2>2, <2>3, <2>4, <1>1, <1>2
  <2>6. QED
    BY <2>5, <1>2, <1>3
<1>7. QED
  BY <1>4, <1>6 DEF Row

LEMMA AreaOrder ==
  ASSUME NEW x, NEW y, NEW w, NEW h, IsArea(x, y, w, h), NEW r \in 1 .. w, NEW v \in 1 .. h,
         NEW s, s = SquareAt(x, y, w, h, r, v)
  PROVE  /\ s \in AreaOf(x, y, w, h)
         /\ r > 1 => s + 1 = SquareAt(x, y, w, h, r - 1, v)
         /\ r = 1 /\ v > 1 =>
              /\ s + SquaresH - w + 1 = SquareAt(x, y, w, h, w, v - 1)
              /\ \A t \in AreaOf(x, y, w, h) : t > s <=> t >= s + SquaresH - w + 1
         /\ r = 1 /\ v = 1 => \A t \in AreaOf(x, y, w, h) : ~(t > s)
<1>1. /\ SquaresH \in Nat \ {0} /\ SquaresV \in Nat \ {0}
      /\ x \in Nat /\ y \in Nat /\ w \in Nat /\ h \in Nat /\ w > 0 /\ h > 0
      /\ x + w <= SquaresH /\ y + h <= SquaresV
      /\ r \in Nat /\ v \in Nat /\ 1 <= r /\ r <= w /\ 1 <= v /\ v <= h
  BY GridAssumption DEF IsArea
<1> DEFINE Row(j) == j * SquaresH
           j0 == y + (h - v)
<1>2. /\ \A j \in Nat : Row(j) \in Nat /\ Row(j + 1) = Row(j) + SquaresH
      /\ \A i, j \in Nat : i < j => Row(i) + SquaresH <= Row(j)
  BY Rows
<1>3. /\ j0 \in Nat /\ j0 \in y .. y + h - 1 /\ s = (x + (w - r)) + Row(j0)
      /\ SquareAt(x, y, w, h, r - 1, v) = (x + (w - (r - 1))) + Row(j0)
      /\ SquareAt(x, y, w, h, w, v - 1) = (x + (w - w)) + Row(y + (h - (v - 1)))
      /\ y + (h - (v - 1)) = j0 + 1
  BY <1>1 DEF SquareAt
<1>4. AreaOf(x, y, w, h) = {i + Row(j) : i \in x .. x + w - 1, j \in y .. y + h - 1}
  BY DEF AreaOf
<1> HIDE DEF Row, j0
<1>5. s \in AreaOf(x, y, w, h) /\ s \in Nat
  <2>1. x + (w - r) \in x .. x + w - 1 /\ x + (w - r) \in Nat
    BY <1>1
  <2>2. PICK i \in x .. x + w - 1, j \in y .. y + h - 1 : i = x + (w - r) /\ j = j0
    BY <2>1, <1>3
  <2>3. s = i + Row(j) /\ i \in Nat /\ Row(j) \in Nat
    BY <2>1, <2>2, <1>2, <1>3
  <2>4. QED
    BY <2>3, <1>4
<1>6. r > 1 => s + 1 = SquareAt(x, y, w, h, r - 1, v)
  <2>1. Row(j0) \in Nat
    BY <1>2, <1>3
  <2>2. QED
    BY <2>1, <1>1, <1>3
<1>7. s + SquaresH - w + 1 = SquareAt(x, y, w, h, w, v - 1) \/ r # 1
  <2>1. Row(j0) \in Nat /\ Row(j0 + 1) = Row(j0) + SquaresH
    BY <1>2, <1>3
  <2>2. QED
    BY <2>1, <1>1, <1>3
<1>8. ASSUME r = 1, NEW t \in AreaOf(x, y, w, h)
      PROVE  (t > s <=> t >= s + SquaresH - w + 1) /\ (v = 1 => ~(t > s))
  <2>1. PICK i \in x .. x + w - 1, j \in y .. y + h - 1 : t = i + Row(j)
    BY <1>4
  <2>2. i \in Nat /\ j \in Nat /\ i >= x /\ i <= x + w - 1 /\ j <= y + h - 1
    BY <1>1
  <2>3. Row(j) \in Nat /\ Row(j0) \in Nat /\ s = (x + w - 1) + Row(j0)
    BY <2>2, <1>1, <1>2, <1>3, <1>8
  <2>4. CASE j <= j0
    <3>1. Row(j) <= Row(j0)
      BY <2>2, <2>3, <2>4, <1>1, <1>2, <1>3
    <3>2. t <= s /\ t \in Nat
      BY <2>1, <2>2, <2>3, <3>1, <1>1
    <3>3. QED
      BY <3>2, <1>1, <1>5
  <2>5. CASE j > j0
    <3>1. Row(j0) + SquaresH <= Row(j)
      BY <2>2, <2>5, <1>2, <1>3
    <3>2. t >= s + SquaresH - w + 1 /\ t \in Nat
      BY <2>1, <2>2, <2>3, <3>1, <1>1
    <3>3. v # 1
      BY <2>2, <2>5, <1>1 DEF j0
    <3>4. QED
      BY <3>2, <3>3, <1>1, <1>5
  <2>6. QED
    BY <2>2, <2>4, <2>5, <1>3
<1>9. QED
  BY <1>5, <1>6, <1>7, <1>8

(* The guards passed when r squares are left on the row and v rows in layer l, *)
(* counting all of the layers before it.                                       *)
Steps(w, h, l, r, v) == (l - 1) * (w * h) + (h - v) * w + (w - r)

Onward(w, h, l, r, v, r2, v2) == Steps(w, h, l, r2, v2) = Steps(w, h, l, r, v) + 1

LEMMA StepsGrow ==
  ASSUME NEW w \in Nat, NEW h \in Nat, NEW l \in Layer, NEW r \in 1 .. w, NEW v \in 1 .. h
  PROVE  /\ Steps(w, h, l, r, v) \in Nat
         /\ Steps(w, h, l, r, v) + 1 <= LayerCount * w * h
         /\ r > 1 => Steps(w, h, l, r - 1, v) = Steps(w, h, l, r, v) + 1
         /\ v > 1 => Steps(w, h, l, w, v - 1) = Steps(w, h, l, 1, v) + 1
         /\ \A k \in Layer : k > l => Steps(w, h, l, 1, 1) + 1 <= Steps(w, h, k, w, h)
<1>1. LayerCount \in Nat \ {0} /\ Layer = 1 .. LayerCount
  BY GridAssumption DEF Layer
<1>2. PICK A \in Nat : A = w * h
  OBVIOUS
<1>3. PICK u \in Nat : v = u + 1
  <2>1. v - 1 \in Nat /\ v = (v - 1) + 1
    OBVIOUS
  <2>2. QED
    BY <2>1
<1>4. /\ (l - 1) * A \in Nat /\ (l - 1) * A + A = l * A
      /\ \A k \in Layer : k > l => l * A <= (k - 1) * A /\ (k - 1) * A \in Nat
      /\ l * A <= LayerCount * A /\ LayerCount * w * h = LayerCount * A
  <2>1. l - 1 \in Nat /\ l \in Nat /\ l <= LayerCount
    BY <1>1
  <2>2. PICK m \in Nat : l = m + 1
    BY <2>1
  <2>3. (l - 1) * A = m * A /\ l * A = m * A + A /\ m * A \in Nat
    BY <2>2
  <2>4. ASSUME NEW n \in Nat, l <= n PROVE l * A <= n * A /\ n * A \in Nat /\ l * A \in Nat
    <3>1. n = l \/ l < n
      BY <2>1, <2>4
    <3>2. l < n => l * A + A <= n * A /\ l * A \in Nat /\ n * A \in Nat
      BY <2>1, RowsApart
    <3>3. l * A \in Nat
      BY <2>1
    <3>4. QED
      BY <3>1, <3>2, <3>3
  <2>5. ASSUME NEW k \in Layer, k > l PROVE l * A <= (k - 1) * A /\ (k - 1) * A \in Nat
    <3>1. k - 1 \in Nat /\ l <= k - 1
      BY <2>5, <2>1, <1>1
    <3>2. QED
      BY <3>1, <2>4
  <2>6. LayerCount * w * h = LayerCount * A
    BY <1>1, <1>2
  <2>7. QED
    BY <2>1, <2>3, <2>4, <2>5, <2>6, <1>1
<1>5. /\ (h - v) * w \in Nat /\ (h - v) * w + u * w + w = A /\ u * w \in Nat
      /\ v > 1 => (h - (v - 1)) * w = (h - v) * w + w
      /\ (h - 1) * w + w = A /\ (h - h) * w = 0
  <2>1. h - v \in Nat
    OBVIOUS
  <2>2. PICK z \in Nat : z = h - v /\ h = z + u + 1
    BY <2>1, <1>3
  <2>3. A = z * w + u * w + w /\ z * w \in Nat /\ u * w \in Nat
    BY <2>2, <1>2
  <2>4. (h - v) * w = z * w /\ h - (v - 1) = z + 1 /\ h - 1 = z + u /\ h - h = 0
    BY <2>2, <1>3
  <2>5. (z + 1) * w = z * w + w /\ (z + u) * w = z * w + u * w /\ 0 * w = 0
    OBVIOUS
  <2>6. QED
    BY <2>3, <2>4, <2>5
<1> DEFINE P == (l - 1) * A
           Q == (h - v) * w
<1>6. Steps(w, h, l, r, v) = P + Q + (w - r)
  BY <1>2 DEF Steps
<1>7. r > 1 => Steps(w, h, l, r - 1, v) = P + Q + (w - (r - 1))
  BY <1>2 DEF Steps
<1>8. v > 1 => Steps(w, h, l, w, v - 1) = P + (Q + w) + (w - w) /\ Steps(w, h, l, 1, v) = P + Q + (w - 1)
  BY <1>2, <1>5 DEF Steps
<1>9. ASSUME NEW k \in Layer, k > l PROVE Steps(w, h, l, 1, 1) + 1 <= Steps(w, h, k, w, h)
  <2>1. Steps(w, h, k, w, h) = (k - 1) * A + 0 + (w - w)
    BY <1>2, <1>5 DEF Steps
  <2>2. Steps(w, h, l, 1, 1) = P + (h - 1) * w + (w - 1)
    BY <1>2 DEF Steps
  <2>3. P \in Nat /\ P + A = l * A /\ l * A <= (k - 1) * A /\ (k - 1) * A \in Nat
    BY <1>4, <1>9
  <2>4. (h - 1) * w \in Nat /\ (h - 1) * w + w = A
    <3>1. h - 1 \in Nat
      OBVIOUS
    <3>2. QED
      BY <3>1, <1>5
  <2> HIDE DEF P
  <2>5. PICK p1 \in Nat, p2 \in Nat, p3 \in Nat : p1 = (k - 1) * A /\ p2 = (h - 1) * w /\ p3 = P
    BY <2>3, <2>4
  <2>6. p3 + A <= p1 /\ p2 + w = A
    BY <2>3, <2>4, <2>5
  <2>7. QED
    BY <2>1, <2>2, <2>5, <2>6
<1>10. P \in Nat /\ Q \in Nat /\ Q + w <= A /\ P + A <= LayerCount * w * h
  <2>1. P + A = l * A
    BY <1>4
  <2>2. Q + u * w + w = A /\ u * w \in Nat /\ Q \in Nat
    BY <1>5
  <2> HIDE DEF Q
  <2>3. Q + w <= A
    BY <2>2
  <2>4. QED
    BY <1>4, <2>1, <2>2, <2>3
<1>11. LayerCount * w * h \in Nat
  BY <1>1
<1> HIDE DEF P, Q
<1>12. PICK N \in Nat : N = LayerCount * w * h
  BY <1>11
<1>13. Steps(w, h, l, r, v) \in Nat /\ Steps(w, h, l, r, v) + 1 <= N
  BY <1>6, <1>10, <1>12
<1>14. QED
  BY <1>6, <1>7, <1>8, <1>9, <1>10, <1>12, <1>13

-----------------------------------------------------------------------------
LEMMA StepsOnRow ==
  ASSUME NEW w, w \in Nat, NEW h, h \in Nat, NEW l, l \in Layer, NEW r, r \in 1 .. w, NEW v, v \in 1 .. h,
         r > 1, NEW r2, r2 = r - 1
  PROVE  Onward(w, h, l, r, v, r2, v)
<1>1. Steps(w, h, l, r - 1, v) = Steps(w, h, l, r, v) + 1
  BY StepsGrow
<1>2. QED
  BY <1>1 DEF Onward

LEMMA StepsNextRow ==
  ASSUME NEW w, w \in Nat, NEW h, h \in Nat, NEW l, l \in Layer, NEW v, v \in 1 .. h, 1 \in 1 .. w,
         v > 1, NEW v2, v2 = v - 1
  PROVE  Onward(w, h, l, 1, v, w, v2)
<1>1. Steps(w, h, l, w, v - 1) = Steps(w, h, l, 1, v) + 1
  BY StepsGrow
<1>2. QED
  BY <1>1 DEF Onward

LEMMA StepsNextLayer ==
  ASSUME NEW w, w \in Nat, NEW h, h \in Nat, NEW l, l \in Layer, 1 \in 1 .. w, 1 \in 1 .. h,
         NEW k, k \in Layer, k > l
  PROVE  Steps(w, h, l, 1, 1) + 1 <= Steps(w, h, k, w, h)
BY StepsGrow

LEMMA StepsNat ==
  ASSUME NEW w, w \in Nat, NEW h, h \in Nat, NEW l, l \in Layer, NEW r, r \in 1 .. w, NEW v, v \in 1 .. h
  PROVE  Steps(w, h, l, r, v) \in Nat /\ Steps(w, h, l, r, v) + 1 <= LayerCount * w * h
BY StepsGrow

(* The objects of an area, and those the walk has still ahead of it: in a later *)
(* layer, in a later square, or in this square and the last n of it.            *)
There(D, dOwn, sq) == {o \in D : dOwn[o][2] \in sq}

Ahead(D, dOwn, dRank, sq, l, s, n) ==
  {o \in There(D, dOwn, sq) : \/ dOwn[o][1] > l
                              \/ dOwn[o][1] = l /\ dOwn[o][2] > s
                              \/ dOwn[o] = guard(l, s) /\ dRank[o] <= n}

FromSquare(D, dOwn, sq, l, s) ==
  {o \in There(D, dOwn, sq) : dOwn[o][1] > l \/ (dOwn[o][1] = l /\ dOwn[o][2] >= s)}

AboveLayer(D, dOwn, sq, l) == {o \in There(D, dOwn, sq) : dOwn[o][1] > l}

LEMMA MeshedObjects ==
  ASSUME NEW next, NEW prev, NEW D, NEW dOwn, NEW dRank, NEW dLength,
         Meshed(next, prev, D, dOwn, dRank, dLength)
  PROVE  /\ D \subseteq Object /\ dLength \in [DList -> Nat]
         /\ \A o \in D : /\ dOwn[o] \in DList /\ dOwn[o][1] \in Layer /\ dOwn[o][2] \in Cell
                         /\ dOwn[o] = guard(dOwn[o][1], dOwn[o][2])
                         /\ dRank[o] \in Nat /\ 1 <= dRank[o] /\ dRank[o] <= dLength[dOwn[o]]
         /\ Cell \subseteq Nat /\ Layer \subseteq Nat
<1>1. /\ D \subseteq Object /\ dOwn \in [Object -> DList] /\ dRank \in [Object -> Nat]
      /\ dLength \in [DList -> Nat] /\ \A o \in D : dRank[o] \in 1 .. dLength[dOwn[o]]
  BY DEF Meshed, Threaded, LinksFit
<1>2. \A k \in DList : k[1] \in Layer /\ k[2] \in Cell /\ k = guard(k[1], k[2])
  BY GuardFacts
<1>3. Cell \subseteq Nat /\ Layer \subseteq Nat
  BY CellFacts, GridAssumption DEF Layer
<1>4. ASSUME NEW o \in D
      PROVE  /\ dOwn[o] \in DList /\ dOwn[o][1] \in Layer /\ dOwn[o][2] \in Cell
             /\ dOwn[o] = guard(dOwn[o][1], dOwn[o][2])
             /\ dRank[o] \in Nat /\ 1 <= dRank[o] /\ dRank[o] <= dLength[dOwn[o]]
  <2>1. dOwn[o] \in DList /\ dRank[o] \in Nat /\ dLength[dOwn[o]] \in Nat
    BY <1>1
  <2>2. QED
    BY <2>1, <1>1, <1>2
<1>5. QED
  BY <1>1, <1>3, <1>4

LEMMA AheadSquare ==
  ASSUME NEW next, NEW prev, NEW D, NEW dOwn, NEW dRank, NEW dLength,
         Meshed(next, prev, D, dOwn, dRank, dLength), NEW sq, NEW l \in Layer, NEW s \in Cell,
         NEW n, n = dLength[guard(l, s)]
  PROVE  Ahead(D, dOwn, dRank, sq, l, s, n) = FromSquare(D, dOwn, sq, l, s)
<1>1. guard(l, s)[1] = l /\ guard(l, s)[2] = s
  BY GuardFacts
<1>2. ASSUME NEW o \in There(D, dOwn, sq)
      PROVE  o \in Ahead(D, dOwn, dRank, sq, l, s, n) <=> o \in FromSquare(D, dOwn, sq, l, s)
  <2>1. o \in D
    BY DEF There
  <2>2. /\ dOwn[o][1] \in Nat /\ dOwn[o][2] \in Nat /\ dOwn[o] = guard(dOwn[o][1], dOwn[o][2])
        /\ dRank[o] <= dLength[dOwn[o]] /\ l \in Nat /\ s \in Nat
    BY <2>1, MeshedObjects
  <2>3. PICK a \in Nat, b \in Nat : a = dOwn[o][1] /\ b = dOwn[o][2]
    BY <2>2
  <2>4. a = l /\ b = s => dOwn[o] = guard(l, s) /\ dRank[o] <= n
    BY <2>2, <2>3
  <2>5. dOwn[o] = guard(l, s) => a = l /\ b = s
    BY <1>1, <2>3
  <2>6. o \in Ahead(D, dOwn, dRank, sq, l, s, n)
          <=> a > l \/ (a = l /\ b > s) \/ (dOwn[o] = guard(l, s) /\ dRank[o] <= n)
    BY <2>3 DEF Ahead
  <2>7. o \in FromSquare(D, dOwn, sq, l, s) <=> a > l \/ (a = l /\ b >= s)
    BY <2>3 DEF FromSquare
  <2>8. b >= s <=> b > s \/ b = s
    BY <2>2
  <2>9. QED
    BY <2>4, <2>5, <2>6, <2>7, <2>8
<1>3. QED
  BY <1>2 DEF Ahead, FromSquare

LEMMA AheadLast ==
  ASSUME NEW next, NEW prev, NEW D, NEW dOwn, NEW dRank, NEW dLength,
         Meshed(next, prev, D, dOwn, dRank, dLength), NEW sq, NEW l, NEW s
  PROVE  /\ \A s2 : (\A t \in sq : t > s <=> t >= s2) =>
              Ahead(D, dOwn, dRank, sq, l, s, 0) = FromSquare(D, dOwn, sq, l, s2)
         /\ (\A t \in sq : ~(t > s)) =>
              Ahead(D, dOwn, dRank, sq, l, s, 0) = AboveLayer(D, dOwn, sq, l)
<1>1. \A o \in There(D, dOwn, sq) : dRank[o] \in Nat /\ ~(dRank[o] <= 0) /\ dOwn[o][2] \in sq
  BY MeshedObjects DEF There
<1>2. Ahead(D, dOwn, dRank, sq, l, s, 0)
        = {o \in There(D, dOwn, sq) : dOwn[o][1] > l \/ (dOwn[o][1] = l /\ dOwn[o][2] > s)}
  BY <1>1 DEF Ahead
<1>3. ASSUME NEW s2, \A t \in sq : t > s <=> t >= s2
      PROVE  Ahead(D, dOwn, dRank, sq, l, s, 0) = FromSquare(D, dOwn, sq, l, s2)
  BY <1>1, <1>2, <1>3 DEF FromSquare
<1>4. ASSUME \A t \in sq : ~(t > s)
      PROVE  Ahead(D, dOwn, dRank, sq, l, s, 0) = AboveLayer(D, dOwn, sq, l)
  BY <1>1, <1>2, <1>4 DEF AboveLayer
<1>5. QED
  BY <1>3, <1>4

Stands(o, D, dOwn, dRank, sq, l, s, n) ==
  /\ l \in Layer /\ s \in Cell /\ s \in sq
  /\ o \in D /\ dOwn[o] = guard(l, s) /\ n = dRank[o]

Passed(o, D, dOwn, dRank, sq, l, s, n) ==
  /\ o \in Ahead(D, dOwn, dRank, sq, l, s, n)
  /\ Ahead(D, dOwn, dRank, sq, l, s, n - 1) = Ahead(D, dOwn, dRank, sq, l, s, n) \ {o}

LEMMA AheadObject ==
  ASSUME NEW next, NEW prev, NEW D, NEW dOwn, NEW dRank, NEW dLength,
         Meshed(next, prev, D, dOwn, dRank, dLength), NEW sq, NEW l, NEW s, NEW n, NEW o,
         Stands(o, D, dOwn, dRank, sq, l, s, n)
  PROVE  Passed(o, D, dOwn, dRank, sq, l, s, n)
<1> USE DEF Stands, Passed
<1>1. /\ \A p \in D : dRank[p] \in Nat
      /\ \A p \in D : dOwn[p] = dOwn[o] /\ dRank[p] = dRank[o] => p = o
  BY MeshedObjects DEF Meshed, Threaded, RanksDiffer
<1>2. dOwn[o][1] = l /\ dOwn[o][2] = s /\ l \in Nat /\ s \in Nat /\ n \in Nat
  BY <1>1, GuardFacts, CellFacts, GridAssumption DEF Layer
<1>3. o \in There(D, dOwn, sq) /\ There(D, dOwn, sq) \subseteq D
  BY <1>2 DEF There
<1>4. \A p \in There(D, dOwn, sq) :
        dOwn[p] = guard(l, s) => (dRank[p] <= n - 1 <=> dRank[p] <= n /\ p # o)
  BY <1>1, <1>2, <1>3
<1>5. ~(dOwn[o][1] > l) /\ ~(dOwn[o][2] > s) /\ ~(dRank[o] <= n - 1) /\ dRank[o] <= n
  BY <1>2
<1>6. o \in Ahead(D, dOwn, dRank, sq, l, s, n) /\ o \notin Ahead(D, dOwn, dRank, sq, l, s, n - 1)
  BY <1>3, <1>5 DEF Ahead
<1>7. ASSUME NEW p \in There(D, dOwn, sq), p # o
      PROVE  p \in Ahead(D, dOwn, dRank, sq, l, s, n - 1) <=> p \in Ahead(D, dOwn, dRank, sq, l, s, n)
  BY <1>4, <1>7 DEF Ahead
<1>8. /\ Ahead(D, dOwn, dRank, sq, l, s, n - 1) \subseteq There(D, dOwn, sq)
      /\ Ahead(D, dOwn, dRank, sq, l, s, n) \subseteq There(D, dOwn, sq)
  BY DEF Ahead
<1>9. QED
  BY <1>6, <1>7, <1>8

LEMMA AheadLayer ==
  ASSUME NEW next, NEW prev, NEW D, NEW dOwn, NEW dRank, NEW dLength,
         Meshed(next, prev, D, dOwn, dRank, dLength), NEW sq, NEW s, \A t \in sq : t >= s,
         NEW j \in Nat, NEW k \in Nat, k > j, \A o \in D : dOwn[o][1] > j => dOwn[o][1] >= k
  PROVE  FromSquare(D, dOwn, sq, k, s) = AboveLayer(D, dOwn, sq, j)
<1>1. \A o \in There(D, dOwn, sq) : o \in D /\ dOwn[o][1] \in Nat /\ dOwn[o][2] >= s
  BY MeshedObjects DEF There
<1>2. \A o \in There(D, dOwn, sq) : dOwn[o][1] > j <=> dOwn[o][1] > k \/ dOwn[o][1] = k
  BY <1>1
<1>3. QED
  BY <1>1, <1>2 DEF FromSquare, AboveLayer

-----------------------------------------------------------------------------
(* Where the walk is: at a guard with n objects of its square ahead, or at the  *)
(* object from which n are ahead.                                               *)
AtNode(l, s, r, v, o) ==
  [curLayer |-> l, curSquare |-> s, leftOnRow |-> r, rowsLeft |-> v,
   curObj |-> o, nextGuard |-> guard(l, s + 1)]

At(a, x, y, w, h, D, dOwn, dRank, l, s, r, v, n) ==
  /\ l \in Layer /\ r \in 1 .. w /\ v \in 1 .. h /\ n \in Nat
  /\ s = SquareAt(x, y, w, h, r, v)
  /\ a = AtNode(l, s, r, v, a.curObj)
  /\ IF n = 0 THEN a.curObj = guard(l, s + 1)
     ELSE a.curObj \in D /\ dOwn[a.curObj] = guard(l, s) /\ dRank[a.curObj] = n

(* What the lemmas about the walk assume of the D lists. *)
Walkable(D, dOwn, dRank, dLength, x, y, w, h, sq, begin) ==
  /\ Meshed(nextD, prevD, D, dOwn, dRank, dLength)
  /\ \A o \in D : count[dOwn[o][1]] # 0
  /\ IsArea(x, y, w, h) /\ sq = AreaOf(x, y, w, h) /\ begin = x + y * SquaresH

AtFacts(a, w, h, sq, l, s, r, v, n) ==
  /\ a.curObj # NULL /\ (n = 0 <=> a.curObj = a.nextGuard)
  /\ s \in sq /\ s \in Cell /\ s + 1 \in 0 .. NoCell
  /\ w \in Nat /\ h \in Nat /\ l \in Layer /\ r \in 1 .. w /\ v \in 1 .. h /\ n \in Nat
  /\ a.curLayer = l /\ a.curSquare = s /\ a.leftOnRow = r /\ a.rowsLeft = v

LEMMA AtHasObject ==
  ASSUME NEW D, NEW dOwn, NEW dRank, NEW dLength, NEW x, NEW y, NEW w, NEW h, NEW sq, NEW begin,
         Walkable(D, dOwn, dRank, dLength, x, y, w, h, sq, begin),
         NEW a, NEW l, NEW s, NEW r, NEW v, NEW n, At(a, x, y, w, h, D, dOwn, dRank, l, s, r, v, n)
  PROVE  AtFacts(a, w, h, sq, l, s, r, v, n)
<1> USE DEF AtNode
<1>0. IsArea(x, y, w, h) /\ sq = AreaOf(x, y, w, h) /\ D \subseteq Object
  BY MeshedObjects DEF Walkable
<1>1. s \in AreaOf(x, y, w, h)
  BY <1>0, AreaOrder DEF At
<1>2. s \in Cell /\ s + 1 \in 0 .. NoCell
  BY <1>0, <1>1, AreaInGrid, CellFacts
<1>3. l \in Layer /\ guard(l, s + 1) \in Guard
  BY <1>2, GuardFacts DEF At
<1>4. guard(l, s + 1) \notin D /\ guard(l, s + 1) # NULL /\ NULL \notin D
  BY <1>0, <1>3, GuardFacts
<1>5. w \in Nat /\ h \in Nat
  BY <1>0, GridAssumption DEF IsArea
<1>6. /\ a = AtNode(l, s, r, v, a.curObj) /\ l \in Layer /\ r \in 1 .. w /\ v \in 1 .. h /\ n \in Nat
      /\ IF n = 0 THEN a.curObj = guard(l, s + 1) ELSE a.curObj \in D
  BY DEF At
<1>7. /\ a.nextGuard = guard(l, s + 1)
      /\ a.curLayer = l /\ a.curSquare = s /\ a.leftOnRow = r /\ a.rowsLeft = v
  BY <1>6
<1>8. QED
  BY <1>0, <1>1, <1>2, <1>4, <1>5, <1>6, <1>7 DEF AtFacts

(* An iterator that comes to a square. *)
LEMMA AtSquareFits ==
  ASSUME NEW D, NEW dOwn, NEW dRank, NEW dLength, Meshed(nextD, prevD, D, dOwn, dRank, dLength),
         NEW x, NEW y, NEW w, NEW h, IsArea(x, y, w, h),
         NEW l \in Layer, NEW r \in 1 .. w, NEW v \in 1 .. h, NEW s, s = SquareAt(x, y, w, h, r, v),
         NEW n, n = dLength[guard(l, s)], NEW a, a = AtSquare(l, s, r, v)
  PROVE  At(a, x, y, w, h, D, dOwn, dRank, l, s, r, v, n)
<1>1. s \in Cell
  BY AreaOrder, AreaInGrid
<1>2. guard(l, s) \in DList /\ NextGuard[guard(l, s)] = guard(l, s + 1)
  BY <1>1, GuardFacts
<1>3. n \in Nat
  BY <1>2, MeshedObjects
<1>4. /\ IF n = 0 THEN nextD[guard(l, s)] = guard(l, s + 1)
         ELSE /\ nextD[guard(l, s)] \in D /\ dOwn[nextD[guard(l, s)]] = guard(l, s)
              /\ dRank[nextD[guard(l, s)]] = n
  BY <1>2 DEF Meshed, Threaded, HeadsFit
<1>5. a = AtNode(l, s, r, v, a.curObj) /\ a.curObj = nextD[guard(l, s)]
  BY DEF AtSquare, AtNode
<1>6. QED
  BY <1>3, <1>4, <1>5 DEF At

(* An iterator that leaves an object. *)
LEMMA AtObjectFits ==
  ASSUME NEW D, NEW dOwn, NEW dRank, NEW dLength, Meshed(nextD, prevD, D, dOwn, dRank, dLength),
         NEW x, NEW y, NEW w, NEW h, IsArea(x, y, w, h),
         NEW a, NEW l, NEW s, NEW r, NEW v, NEW n, At(a, x, y, w, h, D, dOwn, dRank, l, s, r, v, n),
         n # 0, NEW a2, a2 = [a EXCEPT !.curObj = nextD[a.curObj]]
  PROVE  At(a2, x, y, w, h, D, dOwn, dRank, l, s, r, v, n - 1)
<1>1. /\ l \in Layer /\ r \in 1 .. w /\ v \in 1 .. h /\ n \in Nat /\ s = SquareAt(x, y, w, h, r, v)
      /\ a.curObj \in D /\ dOwn[a.curObj] = guard(l, s) /\ dRank[a.curObj] = n
      /\ a = AtNode(l, s, r, v, a.curObj)
  BY DEF At
<1>2. s \in Cell
  BY <1>1, AreaOrder, AreaInGrid
<1>3. guard(l, s) \in DList /\ NextGuard[guard(l, s)] = guard(l, s + 1)
  BY <1>1, <1>2, GuardFacts
<1>4. LinkFits(NextGuard, nextD, D, dOwn, dRank, a.curObj)
  BY <1>1 DEF Meshed, Threaded, LinksFit
<1>5. IF n = 1 THEN nextD[a.curObj] = guard(l, s + 1)
      ELSE /\ nextD[a.curObj] \in D /\ dOwn[nextD[a.curObj]] = guard(l, s)
           /\ dRank[nextD[a.curObj]] = n - 1
  BY <1>1, <1>3, <1>4 DEF LinkFits
<1>6. a2 = AtNode(l, s, r, v, nextD[a.curObj]) /\ a2.curObj = nextD[a.curObj]
  BY <1>1 DEF AtNode
<1>7. n - 1 \in Nat /\ (n - 1 = 0 <=> n = 1)
  BY <1>1
<1>8. QED
  BY <1>1, <1>5, <1>6, <1>7 DEF At

(* An iterator that passes over the layers without objects. *)
Skipped(a, j, x, y, w, h, D, dOwn, dRank, sq, s) ==
  \/ a.curObj = NULL /\ AboveLayer(D, dOwn, sq, j) = {}
  \/ \E k, n : /\ k \in Layer /\ k > j /\ At(a, x, y, w, h, D, dOwn, dRank, k, s, w, h, n)
               /\ Ahead(D, dOwn, dRank, sq, k, s, n) = AboveLayer(D, dOwn, sq, j)

LEMMA SkipFits ==
  ASSUME NEW D, NEW dOwn, NEW dRank, NEW dLength, NEW x, NEW y, NEW w, NEW h, NEW sq, NEW s,
         Walkable(D, dOwn, dRank, dLength, x, y, w, h, sq, s),
         NEW j, j \in 0 .. LayerCount, NEW a, a = skipEmptyLayers(j, s, w, h)
  PROVE  Skipped(a, j, x, y, w, h, D, dOwn, dRank, sq, s)
<1> USE DEF Walkable, Skipped
<1> DEFINE rest == {k \in Layer : k > j /\ count[k] # 0}
<1>1. \A o \in D : dOwn[o][1] \in Layer /\ (dOwn[o][1] > j => dOwn[o][1] \in rest)
  BY MeshedObjects
<1>2. Layer \subseteq Nat /\ j \in Nat /\ w \in 1 .. w /\ h \in 1 .. h
  BY GridAssumption DEF Layer, IsArea
<1>3. CASE rest = {}
  <2>1. a = AreaEnd
    BY <1>3 DEF skipEmptyLayers
  <2>2. a.curObj = NULL
    BY <2>1 DEF AreaEnd, AtSquare
  <2>3. AboveLayer(D, dOwn, sq, j) = {}
    BY <1>1, <1>3 DEF AboveLayer, There
  <2>4. QED
    BY <2>2, <2>3
<1>4. CASE rest # {}
  <2>1. \E k \in rest : \A i \in rest : k <= i
    BY <1>2, <1>4, SmallestNat
  <2> DEFINE k == CHOOSE j2 \in rest : \A i \in rest : j2 <= i
  <2>2. k \in rest /\ \A i \in rest : k <= i
    BY <2>1
  <2>3. a = AtSquare(k, s, w, h)
    BY <1>4 DEF skipEmptyLayers
  <2> HIDE DEF k
  <2>4. k \in Layer /\ k > j /\ k \in Nat
    BY <1>2, <2>2
  <2>5. s = SquareAt(x, y, w, h, w, h) /\ sq \subseteq Cell /\ \A t \in sq : t >= s
    BY AreaInGrid
  <2>6. s \in Cell
    BY <1>2, <2>5, AreaOrder
  <2>7. PICK n : n = dLength[guard(k, s)]
    OBVIOUS
  <2>8. At(a, x, y, w, h, D, dOwn, dRank, k, s, w, h, n)
    BY <1>2, <2>3, <2>4, <2>5, <2>7, AtSquareFits
  <2>9. Ahead(D, dOwn, dRank, sq, k, s, n) = FromSquare(D, dOwn, sq, k, s)
    BY <2>4, <2>6, <2>7, AheadSquare
  <2>10. \A o \in D : dOwn[o][1] > j => dOwn[o][1] >= k
    <3> SUFFICES ASSUME NEW o \in D, dOwn[o][1] > j PROVE dOwn[o][1] >= k
      OBVIOUS
    <3>1. dOwn[o][1] \in rest /\ dOwn[o][1] \in Nat
      BY <1>1, <1>2
    <3>2. k <= dOwn[o][1]
      BY <3>1, <2>2
    <3>3. QED
      BY <3>1, <3>2, <2>4
  <2>11. FromSquare(D, dOwn, sq, k, s) = AboveLayer(D, dOwn, sq, j)
    BY <1>2, <2>4, <2>5, <2>10, AheadLayer
  <2>12. QED
    BY <2>4, <2>8, <2>9, <2>11
<1>5. QED
  BY <1>3, <1>4

-----------------------------------------------------------------------------
(* One more object is seen. *)
LEMMA SawMore ==
  ASSUME NEW seen \in Seq(Object), NEW T, T \subseteq Object, Saw(seen, T), NEW o \in Object \ T,
         NEW T2, T2 = T \cup {o}
  PROVE  /\ Saw(Append(seen, o), T2) /\ Append(seen, o) \in Seq(Object)
         /\ Len(Append(seen, o)) = Len(seen) + 1
<1>1. IsFiniteSet(T)
  BY FS_Subset, GridAssumption
<1>2. Cardinality(T2) = Cardinality(T) + 1
  BY <1>1, FS_AddElement
<1>3. PICK seen2 : seen2 = Append(seen, o)
  OBVIOUS
<1>4. PICK n \in Nat : n = Len(seen)
  OBVIOUS
<1>5. /\ seen2 \in Seq(Object) /\ Len(seen2) = n + 1
      /\ DOMAIN seen = 1 .. n /\ DOMAIN seen2 = 1 .. n + 1
      /\ seen2[n + 1] = o /\ \A j \in 1 .. n : seen2[j] = seen[j]
  BY <1>3, <1>4
<1>6. 1 .. n + 1 = (1 .. n) \cup {n + 1}
  OBVIOUS
<1>7. {seen2[j] : j \in DOMAIN seen2} = {seen[j] : j \in DOMAIN seen} \cup {o}
  <2>1. {seen2[j] : j \in DOMAIN seen2} = {seen2[j] : j \in 1 .. n} \cup {seen2[n + 1]}
    BY <1>5, <1>6
  <2>2. {seen2[j] : j \in 1 .. n} = {seen[j] : j \in 1 .. n}
    BY <1>5
  <2>3. QED
    BY <2>1, <2>2, <1>5
<1>8. Saw(seen2, T2)
  BY <1>2, <1>4, <1>5, <1>7 DEF Saw
<1>9. QED
  BY <1>3, <1>4, <1>5, <1>8

(* The walk after i steps, if it is over and if it goes on. *)
Over(b, D, dOwn, sq) == b.at.curObj = NULL /\ Saw(b.seen, There(D, dOwn, sq))

Amid(b, i, x, y, w, h, D, dOwn, dRank, sq, l, s, r, v, n) ==
  /\ At(b.at, x, y, w, h, D, dOwn, dRank, l, s, r, v, n)
  /\ Saw(b.seen, There(D, dOwn, sq) \ Ahead(D, dOwn, dRank, sq, l, s, n))
  /\ i <= Steps(w, h, l, r, v) + Len(b.seen)

Walks(b, i, x, y, w, h, D, dOwn, dRank, sq) ==
  /\ b.seen \in Seq(Object)
  /\ \/ Over(b, D, dOwn, sq)
     \/ \E l, s, r, v, n : Amid(b, i, x, y, w, h, D, dOwn, dRank, sq, l, s, r, v, n)

Start(begin, w, h) == [at |-> skipEmptyLayers(0, begin, w, h), seen |-> << >>]

Walked(begin, w, h, b) ==
  IF b.at.curObj = NULL THEN b
  ELSE [at |-> areaStep(b.at, begin, w, h),
        seen |-> IF b.at.curObj = b.at.nextGuard THEN b.seen ELSE Append(b.seen, b.at.curObj)]

LEMMA WalkStarts ==
  ASSUME NEW D, NEW dOwn, NEW dRank, NEW dLength, NEW x, NEW y, NEW w, NEW h, NEW sq, NEW begin,
         Walkable(D, dOwn, dRank, dLength, x, y, w, h, sq, begin), NEW b, b = Start(begin, w, h)
  PROVE  Walks(b, 0, x, y, w, h, D, dOwn, dRank, sq)
<1>1. b.at = skipEmptyLayers(0, begin, w, h) /\ b.seen = << >>
  BY DEF Start
<1>2. b.seen \in Seq(Object) /\ Saw(b.seen, {}) /\ Len(b.seen) = 0
  BY <1>1, FS_EmptySet DEF Saw
<1>3. 0 \in 0 .. LayerCount
  BY GridAssumption
<1>4. AboveLayer(D, dOwn, sq, 0) = There(D, dOwn, sq)
  <2>1. \A o \in D : dOwn[o][1] \in Layer
    BY MeshedObjects DEF Walkable
  <2>2. \A l \in Layer : l > 0
    BY GridAssumption DEF Layer
  <2>3. QED
    BY <2>1, <2>2 DEF AboveLayer, There
<1>5. Skipped(b.at, 0, x, y, w, h, D, dOwn, dRank, sq, begin)
  <2>1. PICK a : a = b.at
    OBVIOUS
  <2>2. Skipped(a, 0, x, y, w, h, D, dOwn, dRank, sq, begin)
    BY <1>1, <1>3, <2>1, SkipFits
  <2>3. QED
    BY <2>1, <2>2
<1>6. CASE b.at.curObj = NULL /\ AboveLayer(D, dOwn, sq, 0) = {}
  BY <1>2, <1>4, <1>6 DEF Walks, Over
<1>7. CASE \E k, n :
             /\ k \in Layer /\ k > 0 /\ At(b.at, x, y, w, h, D, dOwn, dRank, k, begin, w, h, n)
             /\ Ahead(D, dOwn, dRank, sq, k, begin, n) = AboveLayer(D, dOwn, sq, 0)
  <2>1. PICK k, n : /\ k \in Layer /\ At(b.at, x, y, w, h, D, dOwn, dRank, k, begin, w, h, n)
                    /\ Ahead(D, dOwn, dRank, sq, k, begin, n) = There(D, dOwn, sq)
    BY <1>4, <1>7
  <2>2. There(D, dOwn, sq) \ Ahead(D, dOwn, dRank, sq, k, begin, n) = {}
    BY <2>1
  <2>3. w \in Nat /\ h \in Nat /\ w \in 1 .. w /\ h \in 1 .. h
    BY GridAssumption DEF Walkable, IsArea
  <2>4. Steps(w, h, k, w, h) \in Nat
    BY <2>1, <2>3, StepsNat
  <2>5. 0 <= Steps(w, h, k, w, h) + Len(b.seen)
    BY <1>2, <2>4
  <2>6. Amid(b, 0, x, y, w, h, D, dOwn, dRank, sq, k, begin, w, h, n)
    BY <1>2, <2>1, <2>2, <2>5 DEF Amid
  <2>7. QED
    BY <1>2, <2>6 DEF Walks
<1>8. QED
  BY <1>5, <1>6, <1>7 DEF Skipped

(* The step from an object. *)
LEMMA WalkObject ==
  ASSUME NEW D, NEW dOwn, NEW dRank, NEW dLength, NEW x, NEW y, NEW w, NEW h, NEW sq, NEW begin,
         Walkable(D, dOwn, dRank, dLength, x, y, w, h, sq, begin),
         NEW b, b.seen \in Seq(Object), NEW i \in Nat, NEW l, NEW s, NEW r, NEW v, NEW n,
         Amid(b, i, x, y, w, h, D, dOwn, dRank, sq, l, s, r, v, n), n # 0,
         NEW b2, b2 = Walked(begin, w, h, b)
  PROVE  /\ b2.seen \in Seq(Object)
         /\ Amid(b2, i + 1, x, y, w, h, D, dOwn, dRank, sq, l, s, r, v, n - 1)
<1>1. PICK a, o : a = b.at /\ o = a.curObj
  OBVIOUS
<1>2. At(a, x, y, w, h, D, dOwn, dRank, l, s, r, v, n)
  BY <1>1 DEF Amid
<1>3. /\ Meshed(nextD, prevD, D, dOwn, dRank, dLength) /\ IsArea(x, y, w, h)
      /\ sq = AreaOf(x, y, w, h) /\ D \subseteq Object
  BY MeshedObjects DEF Walkable
<1>4. /\ a.curObj # NULL /\ a.curObj # a.nextGuard /\ s \in sq /\ s \in Cell
      /\ w \in Nat /\ h \in Nat /\ l \in Layer /\ r \in 1 .. w /\ v \in 1 .. h /\ n \in Nat
  <2>1. AtFacts(a, w, h, sq, l, s, r, v, n)
    BY <1>2, AtHasObject
  <2>2. QED
    BY <2>1 DEF AtFacts
<1>5. o \in D /\ dOwn[o] = guard(l, s) /\ n = dRank[o]
  BY <1>1, <1>2 DEF At
<1>6. b2.at = [a EXCEPT !.curObj = nextD[a.curObj]] /\ b2.seen = Append(b.seen, o)
  BY <1>1, <1>4 DEF Walked, areaStep
<1>7. At(b2.at, x, y, w, h, D, dOwn, dRank, l, s, r, v, n - 1)
  <2>1. PICK a2 : a2 = b2.at
    OBVIOUS
  <2>2. At(a2, x, y, w, h, D, dOwn, dRank, l, s, r, v, n - 1)
    BY <1>2, <1>3, <1>6, <2>1, AtObjectFits
  <2>3. QED
    BY <2>1, <2>2
<1> DEFINE T == There(D, dOwn, sq) \ Ahead(D, dOwn, dRank, sq, l, s, n)
           T2 == There(D, dOwn, sq) \ Ahead(D, dOwn, dRank, sq, l, s, n - 1)
<1>8. /\ o \in Ahead(D, dOwn, dRank, sq, l, s, n)
      /\ Ahead(D, dOwn, dRank, sq, l, s, n - 1) = Ahead(D, dOwn, dRank, sq, l, s, n) \ {o}
  <2>1. Stands(o, D, dOwn, dRank, sq, l, s, n)
    BY <1>4, <1>5 DEF Stands
  <2>2. Passed(o, D, dOwn, dRank, sq, l, s, n)
    BY <2>1, <1>3, AheadObject
  <2>3. QED
    BY <2>2 DEF Passed
<1>9. /\ There(D, dOwn, sq) \subseteq D
      /\ Ahead(D, dOwn, dRank, sq, l, s, n) \subseteq There(D, dOwn, sq)
  BY DEF There, Ahead
<1>10. T2 = T \cup {o} /\ o \in Object \ T /\ T \subseteq Object
  BY <1>3, <1>8, <1>9
<1>11. Saw(b.seen, T) /\ i <= Steps(w, h, l, r, v) + Len(b.seen)
  BY DEF Amid
<1> HIDE DEF T, T2
<1>12. Saw(b2.seen, T2) /\ b2.seen \in Seq(Object) /\ Len(b2.seen) = Len(b.seen) + 1
  BY <1>6, <1>10, <1>11, SawMore
<1>13. Steps(w, h, l, r, v) \in Nat
  BY <1>4, StepsNat
<1>14. i + 1 <= Steps(w, h, l, r, v) + Len(b2.seen)
  BY <1>11, <1>12, <1>13
<1>15. QED
  BY <1>7, <1>12, <1>14 DEF Amid, T2

(* The step from a guard, to another or to the end. *)
LEMMA WalkGuard ==
  ASSUME NEW D, NEW dOwn, NEW dRank, NEW dLength, NEW x, NEW y, NEW w, NEW h, NEW sq, NEW begin,
         Walkable(D, dOwn, dRank, dLength, x, y, w, h, sq, begin),
         NEW b, b.seen \in Seq(Object), NEW i \in Nat, NEW l, NEW s, NEW r, NEW v,
         Amid(b, i, x, y, w, h, D, dOwn, dRank, sq, l, s, r, v, 0),
         NEW b2, b2 = Walked(begin, w, h, b)
  PROVE  Walks(b2, i + 1, x, y, w, h, D, dOwn, dRank, sq)
<1>1. PICK a : a = b.at
  OBVIOUS
<1>2. At(a, x, y, w, h, D, dOwn, dRank, l, s, r, v, 0)
  BY <1>1 DEF Amid
<1>3. /\ Meshed(nextD, prevD, D, dOwn, dRank, dLength) /\ IsArea(x, y, w, h)
      /\ sq = AreaOf(x, y, w, h) /\ D \subseteq Object
  BY MeshedObjects DEF Walkable
<1>4. /\ a.curObj # NULL /\ a.curObj = a.nextGuard /\ s \in sq /\ s \in Cell
      /\ w \in Nat /\ h \in Nat /\ l \in Layer /\ r \in 1 .. w /\ v \in 1 .. h
      /\ a.curLayer = l /\ a.curSquare = s /\ a.leftOnRow = r /\ a.rowsLeft = v
      /\ s = SquareAt(x, y, w, h, r, v)
  <2>1. AtFacts(a, w, h, sq, l, s, r, v, 0)
    BY <1>2, AtHasObject
  <2>2. QED
    BY <2>1, <1>2 DEF AtFacts, At
<1>5. b2.at = areaStep(a, begin, w, h) /\ b2.seen = b.seen
  BY <1>1, <1>4 DEF Walked
<1>6. b2.at = IF r > 1 THEN AtSquare(l, s + 1, r - 1, v)
              ELSE IF v > 1 THEN AtSquare(l, s + SquaresH - w + 1, w, v - 1)
              ELSE skipEmptyLayers(l, begin, w, h)
  BY <1>4, <1>5 DEF areaStep
<1>7. /\ Saw(b2.seen, There(D, dOwn, sq) \ Ahead(D, dOwn, dRank, sq, l, s, 0))
      /\ i <= Steps(w, h, l, r, v) + Len(b2.seen) /\ Len(b2.seen) \in Nat
      /\ b2.seen \in Seq(Object)
  BY <1>5 DEF Amid
<1>8. sq \subseteq Cell /\ Cell \subseteq Nat /\ Steps(w, h, l, r, v) \in Nat
  BY <1>3, <1>4, AreaInGrid, CellFacts, StepsNat
<1>9. ASSUME NEW s2, NEW r2 \in 1 .. w, NEW v2 \in 1 .. h, s2 = SquareAt(x, y, w, h, r2, v2),
             \A t \in sq : t > s <=> t >= s2, b2.at = AtSquare(l, s2, r2, v2),
             Steps(w, h, l, r2, v2) = Steps(w, h, l, r, v) + 1
      PROVE  Walks(b2, i + 1, x, y, w, h, D, dOwn, dRank, sq)
  <2>1. s2 \in Cell
    BY <1>3, <1>9, AreaOrder, AreaInGrid
  <2>2. PICK n : n = dLength[guard(l, s2)]
    OBVIOUS
  <2>3. PICK a2 : a2 = b2.at
    OBVIOUS
  <2>4. At(a2, x, y, w, h, D, dOwn, dRank, l, s2, r2, v2, n)
    BY <1>3, <1>4, <1>9, <2>2, <2>3, AtSquareFits
  <2>5. Ahead(D, dOwn, dRank, sq, l, s2, n) = FromSquare(D, dOwn, sq, l, s2)
    BY <1>3, <1>4, <2>1, <2>2, AheadSquare
  <2>6. Ahead(D, dOwn, dRank, sq, l, s, 0) = FromSquare(D, dOwn, sq, l, s2)
    BY <1>3, <1>9, AheadLast
  <2>7. i + 1 <= Steps(w, h, l, r2, v2) + Len(b2.seen)
    BY <1>7, <1>8, <1>9
  <2>8. Amid(b2, i + 1, x, y, w, h, D, dOwn, dRank, sq, l, s2, r2, v2, n)
    BY <1>7, <2>3, <2>4, <2>5, <2>6, <2>7 DEF Amid
  <2>9. QED
    BY <1>7, <2>8 DEF Walks
<1>10. CASE r > 1
  <2>1. s + 1 = SquareAt(x, y, w, h, r - 1, v) /\ b2.at = AtSquare(l, s + 1, r - 1, v)
    BY <1>3, <1>4, <1>6, <1>10, AreaOrder
  <2>2. r - 1 \in 1 .. w
    BY <1>4, <1>10
  <2>3. \A t \in sq : t > s <=> t >= s + 1
    BY <1>4, <1>8
  <2>4. Steps(w, h, l, r - 1, v) = Steps(w, h, l, r, v) + 1
    <3>1. PICK r2 : r2 = r - 1
      OBVIOUS
    <3>2. Onward(w, h, l, r, v, r2, v)
      BY <1>4, <1>10, <3>1, StepsOnRow
    <3>3. QED
      BY <3>1, <3>2 DEF Onward
  <2>5. QED
    BY <1>4, <1>9, <2>1, <2>2, <2>3, <2>4
<1>11. CASE r = 1 /\ v > 1
  <2>1. PICK s2 : s2 = s + SquaresH - w + 1
    OBVIOUS
  <2>2. /\ s2 = SquareAt(x, y, w, h, w, v - 1) /\ \A t \in sq : t > s <=> t >= s2
        /\ b2.at = AtSquare(l, s2, w, v - 1)
    BY <1>3, <1>4, <1>6, <1>11, <2>1, AreaOrder
  <2>3. v - 1 \in 1 .. h /\ w \in 1 .. w
    BY <1>4, <1>11
  <2>4. Steps(w, h, l, w, v - 1) = Steps(w, h, l, r, v) + 1
    <3>1. PICK v2 : v2 = v - 1
      OBVIOUS
    <3>2. Onward(w, h, l, 1, v, w, v2)
      BY <1>4, <1>11, <3>1, StepsNextRow
    <3>3. QED
      BY <1>11, <3>1, <3>2 DEF Onward
  <2>5. QED
    BY <1>9, <2>2, <2>3, <2>4
<1>12. CASE r = 1 /\ v = 1
  <2>1. PICK a2 : a2 = b2.at
    OBVIOUS
  <2>2. a2 = skipEmptyLayers(l, begin, w, h) /\ l \in 0 .. LayerCount
    BY <1>4, <1>6, <1>12, <2>1, GridAssumption DEF Layer
  <2>3. Skipped(a2, l, x, y, w, h, D, dOwn, dRank, sq, begin)
    BY <2>2, SkipFits
  <2>4. \A t \in sq : ~(t > s)
    BY <1>3, <1>4, <1>12, AreaOrder
  <2>5. Ahead(D, dOwn, dRank, sq, l, s, 0) = AboveLayer(D, dOwn, sq, l)
    BY <1>3, <2>4, AheadLast
  <2>6. CASE a2.curObj = NULL /\ AboveLayer(D, dOwn, sq, l) = {}
    <3>1. Saw(b2.seen, There(D, dOwn, sq))
      <4>1. There(D, dOwn, sq) \ Ahead(D, dOwn, dRank, sq, l, s, 0) = There(D, dOwn, sq)
        BY <2>5, <2>6
      <4>2. QED
        BY <4>1, <1>7
    <3>2. QED
      BY <3>1, <1>7, <2>1, <2>6 DEF Walks, Over
  <2>7. CASE \E k, n : /\ k \in Layer /\ k > l
                       /\ At(a2, x, y, w, h, D, dOwn, dRank, k, begin, w, h, n)
                       /\ Ahead(D, dOwn, dRank, sq, k, begin, n) = AboveLayer(D, dOwn, sq, l)
    <3>1. PICK k, n :
            /\ k \in Layer /\ k > l /\ At(a2, x, y, w, h, D, dOwn, dRank, k, begin, w, h, n)
            /\ Ahead(D, dOwn, dRank, sq, k, begin, n) = AboveLayer(D, dOwn, sq, l)
      BY <2>7
    <3>2. w \in 1 .. w /\ h \in 1 .. h /\ Steps(w, h, k, w, h) \in Nat
      <4>1. w \in 1 .. w /\ h \in 1 .. h
        BY <1>4
      <4>2. QED
        BY <1>4, <3>1, <4>1, StepsNat
    <3>3. Steps(w, h, l, r, v) + 1 <= Steps(w, h, k, w, h)
      BY <1>4, <1>12, <3>1, StepsNextLayer
    <3>4. i + 1 <= Steps(w, h, k, w, h) + Len(b2.seen)
      BY <1>7, <1>8, <3>2, <3>3
    <3>5. Amid(b2, i + 1, x, y, w, h, D, dOwn, dRank, sq, k, begin, w, h, n)
      BY <1>7, <2>1, <2>5, <3>1, <3>4 DEF Amid
    <3>6. QED
      BY <1>7, <3>5 DEF Walks
  <2>8. QED
    BY <2>3, <2>6, <2>7 DEF Skipped
<1>13. QED
  BY <1>4, <1>10, <1>11, <1>12

LEMMA WalkStep ==
  ASSUME NEW D, NEW dOwn, NEW dRank, NEW dLength, NEW x, NEW y, NEW w, NEW h, NEW sq, NEW begin,
         Walkable(D, dOwn, dRank, dLength, x, y, w, h, sq, begin),
         NEW b, NEW i, i \in Nat, Walks(b, i, x, y, w, h, D, dOwn, dRank, sq),
         NEW b2, b2 = Walked(begin, w, h, b), NEW i2, i2 = i + 1
  PROVE  Walks(b2, i2, x, y, w, h, D, dOwn, dRank, sq)
<1>1. b.seen \in Seq(Object)
  BY DEF Walks
<1>2. CASE Over(b, D, dOwn, sq)
  <2>1. b2 = b
    BY <1>2 DEF Over, Walked
  <2>2. QED
    BY <2>1, <1>1, <1>2 DEF Walks
<1>3. CASE \E l, s, r, v, n : Amid(b, i, x, y, w, h, D, dOwn, dRank, sq, l, s, r, v, n)
  <2>1. PICK l, s, r, v, n : Amid(b, i, x, y, w, h, D, dOwn, dRank, sq, l, s, r, v, n)
    BY <1>3
  <2>2. CASE n = 0
    <3>1. Amid(b, i, x, y, w, h, D, dOwn, dRank, sq, l, s, r, v, 0)
      BY <2>1, <2>2
    <3>2. Walks(b2, i + 1, x, y, w, h, D, dOwn, dRank, sq)
      BY <1>1, <3>1, WalkGuard
    <3>3. QED
      BY <3>2
  <2>3. CASE n # 0
    <3>1. /\ b2.seen \in Seq(Object)
          /\ Amid(b2, i + 1, x, y, w, h, D, dOwn, dRank, sq, l, s, r, v, n - 1)
      BY <1>1, <2>1, <2>3, WalkObject
    <3>2. Walks(b2, i + 1, x, y, w, h, D, dOwn, dRank, sq)
      BY <3>1 DEF Walks
    <3>3. QED
      BY <3>2
  <2>4. QED
    BY <2>2, <2>3
<1>4. QED
  BY <1>2, <1>3 DEF Walks

(* So many steps are enough. *)
LEMMA WalkEnds ==
  ASSUME NEW D, NEW dOwn, NEW dRank, NEW dLength, NEW x, NEW y, NEW w, NEW h, NEW sq, NEW begin,
         Walkable(D, dOwn, dRank, dLength, x, y, w, h, sq, begin),
         NEW b, NEW i, i = LayerCount * w * h + Cardinality(Object) + 1,
         Walks(b, i, x, y, w, h, D, dOwn, dRank, sq)
  PROVE  Over(b, D, dOwn, sq)
<1> SUFFICES ASSUME NEW l, NEW s, NEW r, NEW v, NEW n,
                    Amid(b, i, x, y, w, h, D, dOwn, dRank, sq, l, s, r, v, n)
             PROVE  FALSE
  BY DEF Walks
<1>1. PICK a : a = b.at
  OBVIOUS
<1>2. At(a, x, y, w, h, D, dOwn, dRank, l, s, r, v, n)
  BY <1>1 DEF Amid
<1>3. AtFacts(a, w, h, sq, l, s, r, v, n)
  BY <1>2, AtHasObject
<1>4. Steps(w, h, l, r, v) \in Nat /\ Steps(w, h, l, r, v) + 1 <= LayerCount * w * h
  BY <1>3, StepsNat DEF AtFacts
<1>5. PICK T : T = There(D, dOwn, sq) \ Ahead(D, dOwn, dRank, sq, l, s, n)
  OBVIOUS
<1>6. T \subseteq Object
  BY <1>5, MeshedObjects DEF There, Walkable
<1>7. Cardinality(T) \in Nat /\ Cardinality(Object) \in Nat /\ Cardinality(T) <= Cardinality(Object)
  BY <1>6, FS_Subset, FS_CardinalityType, GridAssumption
<1>8. Len(b.seen) = Cardinality(T) /\ i <= Steps(w, h, l, r, v) + Len(b.seen)
  BY <1>5 DEF Amid, Saw
<1>9. PICK p \in Nat, c \in Nat, t \in Nat :
        p = Steps(w, h, l, r, v) /\ c = Cardinality(Object) /\ t = Cardinality(T)
  BY <1>4, <1>7
<1>10. w \in Nat /\ h \in Nat /\ LayerCount \in Nat
  BY <1>3, GridAssumption DEF AtFacts
<1>11. PICK m \in Nat : m = LayerCount * w * h
  BY <1>10
<1>12. i = m + c + 1 /\ i <= p + t /\ p + 1 <= m /\ t <= c
  BY <1>4, <1>7, <1>8, <1>9, <1>11
<1>13. QED
  BY <1>12

(* The walk is a function of the number of steps. *)
WalkOf(g, N, begin, w, h) ==
  g = [i \in 0 .. N |-> IF i = 0 THEN Start(begin, w, h) ELSE Walked(begin, w, h, g[i - 1])]

LEMMA WalkExists ==
  ASSUME NEW begin, NEW w, NEW h, NEW N \in Nat
  PROVE  \E g : WalkOf(g, N, begin, w, h)
<1> DEFINE Have == {n \in Nat : \E g : WalkOf(g, n, begin, w, h)}
<1>1. 0 \in Have
  <2> DEFINE g == [i \in 0 .. 0 |-> Start(begin, w, h)]
  <2>1. g = [i \in 0 .. 0 |-> IF i = 0 THEN Start(begin, w, h) ELSE Walked(begin, w, h, g[i - 1])]
    OBVIOUS
  <2>2. WalkOf(g, 0, begin, w, h)
    BY <2>1 DEF WalkOf
  <2>3. QED
    BY <2>2
<1>2. ASSUME NEW n \in Nat, n \in Have PROVE n + 1 \in Have
  <2>1. PICK g : WalkOf(g, n, begin, w, h)
    BY <1>2
  <2>2. \A i \in 0 .. n :
          g[i] = IF i = 0 THEN Start(begin, w, h) ELSE Walked(begin, w, h, g[i - 1])
    BY <2>1 DEF WalkOf
  <2> DEFINE g2 == [i \in 0 .. n + 1 |-> IF i <= n THEN g[i] ELSE Walked(begin, w, h, g[n])]
  <2>3. ASSUME NEW i \in 0 .. n + 1
        PROVE  g2[i] = IF i = 0 THEN Start(begin, w, h) ELSE Walked(begin, w, h, g2[i - 1])
    <3>1. CASE i = 0
      BY <3>1, <2>2
    <3>2. CASE i \in 1 .. n
      <4>1. i - 1 \in 0 .. n + 1 /\ i - 1 <= n /\ i <= n /\ i \in 0 .. n /\ i # 0
        BY <3>2
      <4>2. g2[i] = g[i] /\ g2[i - 1] = g[i - 1]
        BY <4>1
      <4>3. g[i] = Walked(begin, w, h, g[i - 1])
        BY <4>1, <2>2
      <4>4. QED
        BY <4>1, <4>2, <4>3
    <3>3. CASE i = n + 1
      <4>1. g2[i] = Walked(begin, w, h, g[n]) /\ g2[i - 1] = g[n] /\ i # 0
        BY <3>3
      <4>2. QED
        BY <4>1
    <3>4. QED
      BY <3>1, <3>2, <3>3
  <2>4. g2 = [i \in 0 .. n + 1 |-> g2[i]]
    OBVIOUS
  <2> HIDE DEF g2
  <2>5. g2 = [i \in 0 .. n + 1 |->
                IF i = 0 THEN Start(begin, w, h) ELSE Walked(begin, w, h, g2[i - 1])]
    BY <2>3, <2>4
  <2>6. WalkOf(g2, n + 1, begin, w, h)
    BY <2>5 DEF WalkOf
  <2>7. QED
    BY <2>6
<1>3. Nat \subseteq Have
  <2> HIDE DEF Have
  <2> QED
    BY <1>1, <1>2, NatSetInduction
<1>4. QED
  BY <1>3

LEMMA AreaSees ==
  ASSUME NEW D, NEW dOwn, NEW dRank, NEW dLength, NEW x, NEW y, NEW w, NEW h, NEW sq, NEW begin,
         Walkable(D, dOwn, dRank, dLength, x, y, w, h, sq, begin)
  PROVE  Saw(areaVisits(begin, w, h), There(D, dOwn, sq))
<1> DEFINE most == LayerCount * w * h + Cardinality(Object) + 1
           walk[i \in 0 .. most] ==
             IF i = 0 THEN [at |-> skipEmptyLayers(0, begin, w, h), seen |-> << >>]
             ELSE LET before == walk[i - 1]
                      a == before.at
                  IN IF a.curObj = NULL THEN before
                     ELSE [at |-> areaStep(a, begin, w, h),
                           seen |-> IF a.curObj = a.nextGuard THEN before.seen
                                    ELSE Append(before.seen, a.curObj)]
<1>1. areaVisits(begin, w, h) = walk[most].seen
  BY DEF areaVisits
<1>2. w \in Nat /\ h \in Nat /\ LayerCount \in Nat /\ Cardinality(Object) \in Nat
  BY GridAssumption, FS_CardinalityType DEF Walkable, IsArea
<1>3. most \in Nat
  BY <1>2
<1>4. WalkOf(walk, most, begin, w, h)
  <2> HIDE DEF most
  <2>1. \E g : WalkOf(g, most, begin, w, h)
    BY <1>3, WalkExists
  <2>2. QED
    BY <2>1 DEF WalkOf, Start, Walked
<1> HIDE DEF walk, most
<1>5. \A i \in 0 .. most :
        walk[i] = IF i = 0 THEN Start(begin, w, h) ELSE Walked(begin, w, h, walk[i - 1])
  BY <1>4 DEF WalkOf
<1> DEFINE Good == {i \in Nat : i <= most => Walks(walk[i], i, x, y, w, h, D, dOwn, dRank, sq)}
<1>6. 0 \in Good
  <2>1. PICK b : b = walk[0]
    OBVIOUS
  <2>2. b = Start(begin, w, h)
    BY <1>3, <1>5, <2>1
  <2>3. Walks(b, 0, x, y, w, h, D, dOwn, dRank, sq)
    BY <2>2, WalkStarts
  <2>4. QED
    BY <2>1, <2>3
<1>7. ASSUME NEW i \in Nat, i \in Good PROVE i + 1 \in Good
  <2> SUFFICES ASSUME i + 1 <= most PROVE Walks(walk[i + 1], i + 1, x, y, w, h, D, dOwn, dRank, sq)
    OBVIOUS
  <2>1. PICK b, b2, i2 : b = walk[i] /\ b2 = walk[i + 1] /\ i2 = i + 1
    OBVIOUS
  <2>2. Walks(b, i, x, y, w, h, D, dOwn, dRank, sq)
    BY <1>3, <1>7, <2>1
  <2>3. i + 1 \in 0 .. most /\ i + 1 # 0 /\ (i + 1) - 1 = i
    BY <1>3
  <2>4. b2 = Walked(begin, w, h, b)
    BY <1>5, <2>1, <2>3
  <2>5. Walks(b2, i2, x, y, w, h, D, dOwn, dRank, sq)
    BY <2>1, <2>2, <2>4, WalkStep
  <2>6. QED
    BY <2>1, <2>5
<1>8. Nat \subseteq Good
  <2> HIDE DEF Good
  <2> QED
    BY <1>6, <1>7, NatSetInduction
<1>9. Walks(walk[most], most, x, y, w, h, D, dOwn, dRank, sq)
  BY <1>3, <1>8
<1>10. PICK b : b = walk[most]
  OBVIOUS
<1>11. Over(b, D, dOwn, sq)
  <2>1. most = LayerCount * w * h + Cardinality(Object) + 1
    BY DEF most
  <2>2. Walks(b, most, x, y, w, h, D, dOwn, dRank, sq)
    BY <1>9, <1>10
  <2>3. QED
    BY <2>1, <2>2, WalkEnds
<1>12. QED
  BY <1>1, <1>10, <1>11 DEF Over

(* The areas of a grid that the invariant holds of. *)
LEMMA AreaHolds ==
  ASSUME GridInv
  PROVE  AreaFindsAll
<1>1. PICK M, own, rank, length, D, dOwn, dRank, dLength :
        Shape(M, own, rank, length, D, dOwn, dRank, dLength)
  BY DEF GridInv
<1>2. /\ Typed /\ Lists(M, own, rank, length) /\ Pass(M, own, rank)
      /\ Meshed(nextD, prevD, D, dOwn, dRank, dLength)
      /\ D = {p \in M : own[p][2] = "listed" /\ cellIndex[p] # NoCell}
      /\ \A p \in D : dOwn[p] = guard(own[p][1], cellIndex[p])
  BY <1>1 DEF GridInv, Shape, Squares
<1>3. \A o \in D : count[dOwn[o][1]] # 0
  <2> SUFFICES ASSUME NEW o \in D PROVE count[dOwn[o][1]] # 0
    OBVIOUS
  <2>1. o \in M /\ own[o] \in SList /\ own[o][2] = "listed" /\ dOwn[o] = guard(own[o][1], cellIndex[o])
    BY <1>2 DEF Lists, Chained, Threaded
  <2>2. own[o][1] \in Layer /\ own[o] = ListOf(own[o][1])
    BY <2>1, SListFacts
  <2>3. dOwn[o][1] = own[o][1]
    BY <2>1 DEF guard
  <2>4. rank[o] \in 1 .. length[own[o]] /\ length[own[o]] \in Nat
    BY <1>2, <2>1 DEF Lists, Chained, Threaded, LinksFit
  <2>5. count[own[o][1]] = length[own[o]]
    BY <1>2, <2>2 DEF Lists
  <2>6. QED
    BY <2>3, <2>4, <2>5
<1>4. AllListed = On(M, own, "listed")
  BY <1>2, Abstract DEF View, Typed, Pass
<1>5. QED
  <2> SUFFICES ASSUME NEW x \in 0 .. SquaresH - 1, NEW y \in 0 .. SquaresV - 1,
                      NEW w \in 1 .. SquaresH - x, NEW h \in 1 .. SquaresV - y
               PROVE  Saw(areaVisits(x + y * SquaresH, w, h),
                          {o \in AllListed : cellIndex[o] \in AreaOf(x, y, w, h)})
    BY DEF AreaFindsAll
  <2>0. PICK sq : sq = AreaOf(x, y, w, h)
    OBVIOUS
  <2>1. PICK begin : begin = x + y * SquaresH
    OBVIOUS
  <2>2. IsArea(x, y, w, h)
    BY DEF IsArea
  <2>3. Walkable(D, dOwn, dRank, dLength, x, y, w, h, sq, begin)
    BY <1>2, <1>3, <2>0, <2>1, <2>2 DEF Walkable
  <2>4. Saw(areaVisits(begin, w, h), There(D, dOwn, sq))
    BY <2>3, AreaSees
  <2>5. sq \subseteq Cell /\ NoCell \notin sq
    BY <2>0, <2>2, AreaInGrid, CellFacts
  <2>6. \A o \in D : dOwn[o][2] = cellIndex[o]
    BY <1>2 DEF guard
  <2>7. There(D, dOwn, sq) = {o \in AllListed : cellIndex[o] \in sq}
    <3>1. There(D, dOwn, sq) = {o \in D : cellIndex[o] \in sq}
      BY <2>6 DEF There
    <3>2. {o \in D : cellIndex[o] \in sq} = {o \in On(M, own, "listed") : cellIndex[o] \in sq}
      BY <1>2, <2>5 DEF On
    <3>3. QED
      BY <3>1, <3>2, <1>4
  <2>8. QED
    BY <2>0, <2>1, <2>4, <2>7

(* Any area of squares, at any moment, gives the listed objects in these squares *)
(* and each of them once, whatever was moved, erased or flushed before.          *)
THEOREM SpecAreaFindsAll == Spec => []AreaFindsAll
<1>1. GridInv => AreaFindsAll
  BY AreaHolds
<1>2. QED
  BY <1>1, SpecGridInv, PTL
=============================================================================
