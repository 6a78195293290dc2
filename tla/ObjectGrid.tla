------------------------------ MODULE ObjectGrid ------------------------------
(***************************************************************************)
(* The grid of the game's objects (Grid in object_grid.h).  Each layer     *)
(* threads its objects on two intrusive lists: the S list, singly linked,  *)
(* which the passes of the main loop follow, and the D list, doubly        *)
(* linked, which goes through the guard nodes of the layer's squares, with *)
(* the objects of a square behind its guard.  Objects made while the lists *)
(* are in use wait in one of two more lists per layer until flush().       *)
(*                                                                         *)
(* A pointer is an object, a guard <<layer, square>> or NULL.  An object   *)
(* that has been deleted may be made again, as memory is.                  *)
(***************************************************************************)
EXTENDS Naturals, FiniteSets, Sequences

CONSTANTS
  Object,      \* the objects there may be
  LayerCount,  \* Grid::layerCount
  SquaresH,    \* squares in a row
  SquaresV,    \* rows
  Kind,        \* the kinds of particles: a layer, and whether they are put in a square
  WormLayer,   \* the layers of worms and ropes, which are inserted at once
  NULL

ASSUME GridAssumption ==
  /\ IsFiniteSet(Object)
  /\ LayerCount \in Nat \ {0} /\ SquaresH \in Nat \ {0} /\ SquaresV \in Nat \ {0}
  /\ Kind \subseteq (1 .. LayerCount) \X BOOLEAN
  /\ WormLayer \subseteq 1 .. LayerCount
  /\ NULL \notin Object
  /\ \A g \in (1 .. LayerCount) \X (0 .. SquaresH * SquaresV) : g \notin Object /\ g # NULL

Layer == 1 .. LayerCount
Cell == 0 .. SquaresH * SquaresV - 1
Guard == Layer \X (0 .. SquaresH * SquaresV)
Node == Object \cup Guard

VARIABLES
  firstS, nextS,          \* the S lists: their heads, and the links of the objects
  nextD, prevD,           \* the links of the D lists, of guards and objects
  count,                  \* List::count
  firstDelayed,           \* heads of the waiting lists, threaded through nextS:
  firstDelayedNoCol,      \*   with a place among the squares, and without
  cellIndex,              \* the square an object was last put in
  deleteMe,               \* the object is to be erased
  live,                   \* the objects constructed and not deleted
  iter,                   \* Grid::iterator of the pass under way
  phase,                  \* where the main loop is
  loaded                  \* a level is loaded

heads == <<firstS, count, firstDelayed, firstDelayedNoCol>>
links == <<nextS, nextD, prevD>>
gridVars == <<firstS, nextS, nextD, prevD, count, firstDelayed, firstDelayedNoCol,
              cellIndex, deleteMe, live, iter, phase, loaded>>

guard(l, c) == <<l, c>>
NoCell == SquaresH * SquaresV   \* stands for the -1 of an object without a square

-----------------------------------------------------------------------------
(* List *)

insertSUncounted(l, o) ==   \* mutant
  /\ nextS' = [nextS EXCEPT ![o] = firstS[l]]
  /\ firstS' = [firstS EXCEPT ![l] = o]
  /\ UNCHANGED count

insertS(l, o) ==
  /\ nextS' = [nextS EXCEPT ![o] = firstS[l]]
  /\ firstS' = [firstS EXCEPT ![l] = o]
  /\ count' = [count EXCEPT ![l] = @ + 1]

(* The D list's nextD and prevD with o linked behind i, from lists nx and pv that do not hold o. *)
LinkedNext(nx, i, o) == [nx EXCEPT ![o] = nx[i], ![i] = o]
LinkedPrevOne(nx, pv, i, o) == [pv EXCEPT ![o] = i]   \* mutant: the next node is left

LinkedPrev(nx, pv, i, o) ==
  [n \in Node |-> IF n = o THEN i ELSE IF n = nx[i] THEN o ELSE pv[n]]

(* The same with o taken out; what o itself points to is left standing. *)
UnlinkedNext(o) == [n \in Node |-> IF n = prevD[o] THEN nextD[o] ELSE nextD[n]]
UnlinkedPrev(o) == [n \in Node |-> IF n = nextD[o] THEN prevD[o] ELSE prevD[n]]

insertAfter(l, i, o) ==
  /\ insertS(l, o)
  /\ nextD' = LinkedNext(nextD, i, o)
  /\ prevD' = LinkedPrev(nextD, prevD, i, o)

moveAfter(i, o) ==
  /\ nextD' = LinkedNext(UnlinkedNext(o), i, o)
  /\ prevD' = LinkedPrev(UnlinkedNext(o), UnlinkedPrev(o), i, o)

unlink(it) ==
  LET o == it.ptr IN
  /\ IF it.prev # NULL
     THEN nextS' = [nextS EXCEPT ![it.prev] = nextS[o]] /\ UNCHANGED firstS
     ELSE firstS' = [firstS EXCEPT ![it.layer] = nextS[o]] /\ UNCHANGED nextS
  /\ IF prevD[o] # NULL
     THEN nextD' = UnlinkedNext(o) /\ prevD' = UnlinkedPrev(o)
     ELSE UNCHANGED <<nextD, prevD>>
  /\ count' = [count EXCEPT ![it.layer] = @ - 1]

-----------------------------------------------------------------------------
(* Grid::iterator *)

End == [layer |-> LayerCount, ptr |-> NULL, prev |-> NULL]

findFirstValid(it, first) ==
  LET later == {k \in Layer : k > it.layer /\ first[k] # NULL}
      k == CHOOSE k \in later : \A j \in later : k <= j
  IN IF it.ptr # NULL THEN it
     ELSE IF later = {} THEN End
     ELSE [layer |-> k, ptr |-> first[k], prev |-> NULL]

beginAll(first) == findFirstValid([layer |-> 1, ptr |-> first[1], prev |-> NULL], first)

advance(it) ==
  findFirstValid([layer |-> it.layer, ptr |-> nextS[it.ptr], prev |-> it.ptr], firstS)

eraseAndAdvance ==   \* mutant: the object after an erased one is passed over
  /\ unlink(iter)
  /\ iter' = LET it == findFirstValid([iter EXCEPT !.ptr = nextS[iter.ptr]], firstS')
             IN IF it.ptr = NULL THEN it ELSE advance(it)
  /\ live' = live \ {iter.ptr}
  /\ deleteMe' = deleteMe \ {iter.ptr}
  /\ cellIndex' = [cellIndex EXCEPT ![iter.ptr] = NoCell]
  /\ UNCHANGED <<firstDelayed, firstDelayedNoCol, loaded>>

erase ==
  /\ unlink(iter)
  /\ iter' = findFirstValid([iter EXCEPT !.ptr = nextS[iter.ptr]], firstS')
  /\ live' = live \ {iter.ptr}
  /\ deleteMe' = deleteMe \ {iter.ptr}
  /\ cellIndex' = [cellIndex EXCEPT ![iter.ptr] = NoCell]
  /\ UNCHANGED <<firstDelayed, firstDelayedNoCol, loaded>>

(* Grid::resize: guards only, in the order of the squares, and nothing waiting. *)
FreshNextD == [n \in Node |-> IF n \in Guard /\ n[2] < NoCell THEN guard(n[1], n[2] + 1) ELSE NULL]
FreshPrevD == [n \in Node |-> IF n \in Guard /\ n[2] > 0 THEN guard(n[1], n[2] - 1) ELSE NULL]
NoHeads == [l \in Layer |-> NULL]

Init ==
  /\ firstS = NoHeads /\ nextS = [o \in Object |-> NULL]
  /\ nextD = FreshNextD /\ prevD = FreshPrevD
  /\ count = [l \in Layer |-> 0]
  /\ firstDelayed = NoHeads /\ firstDelayedNoCol = NoHeads
  /\ cellIndex = [o \in Object |-> NoCell]
  /\ deleteMe = {} /\ live = {}
  /\ iter = End
  /\ phase = "rest" /\ loaded = TRUE

-----------------------------------------------------------------------------
(* The passes of the main loop *)

BeginPass(p) ==
  /\ phase' = p
  /\ iter' = beginAll(firstS)
  /\ UNCHANGED <<heads, links, cellIndex, deleteMe, live, loaded>>

BeginErase == phase = "rest" /\ BeginPass("erase")

Erase == phase = "erase" /\ iter.ptr \in deleteMe /\ erase /\ UNCHANGED phase

Keep ==
  /\ phase = "erase" /\ iter.ptr # NULL /\ iter.ptr \notin deleteMe
  /\ iter' = advance(iter)
  /\ UNCHANGED <<heads, links, cellIndex, deleteMe, live, phase, loaded>>

EndErase ==
  /\ phase = "erase" /\ iter.ptr = NULL
  /\ IF loaded THEN BeginPass("think")
     ELSE phase' = "rest" /\ UNCHANGED <<heads, links, cellIndex, deleteMe, live, iter, loaded>>

(* The object at the iterator has thought, and its position is now in the square realIndex. *)
relocateIfNecessary(realIndex) ==
  LET o == iter.ptr IN
  IF prevD[o] = NULL \/ cellIndex[o] = realIndex
  THEN UNCHANGED <<cellIndex, nextD, prevD>>
  ELSE /\ cellIndex' = [cellIndex EXCEPT ![o] = realIndex]
       /\ moveAfter(guard(iter.layer, realIndex), o)

Think(realIndex) ==
  /\ phase = "think" /\ iter.ptr # NULL
  /\ relocateIfNecessary(realIndex)
  /\ iter' = advance(iter)
  /\ UNCHANGED <<heads, nextS, deleteMe, live, phase, loaded>>

EndThink ==
  /\ phase = "think" /\ iter.ptr = NULL
  /\ phase' = "flush"
  /\ UNCHANGED <<heads, links, cellIndex, deleteMe, live, iter, loaded>>

(* Grid::flush, an object at a time: layer after layer, first those with a square. *)
Waits(l) == firstDelayed[l] # NULL \/ firstDelayedNoCol[l] # NULL

flushDelayed(l) ==
  /\ phase = "flush" /\ Waits(l) /\ \A k \in 1 .. l - 1 : ~Waits(k)
  /\ LET o == firstDelayed[l] IN
     IF o # NULL
     THEN /\ firstDelayed' = [firstDelayed EXCEPT ![l] = nextS[o]]
          /\ insertAfter(l, guard(l, cellIndex[o]), o)
          /\ UNCHANGED firstDelayedNoCol
     ELSE /\ firstDelayedNoCol' = [firstDelayedNoCol EXCEPT ![l] = nextS[firstDelayedNoCol[l]]]
          /\ insertS(l, firstDelayedNoCol[l])
          /\ UNCHANGED <<firstDelayed, nextD, prevD>>
  /\ UNCHANGED <<cellIndex, deleteMe, live, iter, phase, loaded>>

EndFlush ==
  /\ phase = "flush" /\ \A l \in Layer : ~Waits(l)
  /\ phase' = "rest"
  /\ UNCHANGED <<heads, links, cellIndex, deleteMe, live, iter, loaded>>

-----------------------------------------------------------------------------
(* What objects, players, packets, scripts and the console do *)

(* The constructor of an object, at a square or at none. *)
Construct(o, c) ==
  /\ o \notin live /\ loaded
  /\ live' = live \cup {o}
  /\ cellIndex' = [cellIndex EXCEPT ![o] = c]
  /\ UNCHANGED <<deleteMe, iter, phase, loaded>>

NewNode(links_, o) == [links_ EXCEPT ![o] = NULL]

insertDelayed(l, o, c) ==
  /\ phase \in {"think", "rest"}
  /\ Construct(o, c)
  /\ nextS' = [nextS EXCEPT ![o] = firstDelayed[l]]
  /\ firstDelayed' = [firstDelayed EXCEPT ![l] = o]
  /\ nextD' = NewNode(nextD, o) /\ prevD' = NewNode(prevD, o)
  /\ UNCHANGED <<firstS, count, firstDelayedNoCol>>

insertDelayedNoCol(l, o) ==
  /\ phase \in {"think", "rest"}
  /\ Construct(o, NoCell)
  /\ nextS' = [nextS EXCEPT ![o] = firstDelayedNoCol[l]]
  /\ firstDelayedNoCol' = [firstDelayedNoCol EXCEPT ![l] = o]
  /\ nextD' = NewNode(nextD, o) /\ prevD' = NewNode(prevD, o)
  /\ UNCHANGED <<firstS, count, firstDelayed>>

(* A worm or its rope: between two passes only, as worms come from packets and commands. *)
insertImmediately(l, o, c) ==
  /\ phase = "rest"
  /\ Construct(o, c)
  /\ insertAfter(l, guard(l, c), o)
  /\ UNCHANGED <<firstDelayed, firstDelayedNoCol>>

remove(o) ==
  /\ phase \in {"think", "rest"} /\ o \in live \ deleteMe
  /\ deleteMe' = deleteMe \cup {o}
  /\ UNCHANGED <<heads, links, cellIndex, live, iter, phase, loaded>>

(* Game::reset: every list is emptied, the waiting lists are not. *)
BeginClear == phase = "rest" /\ loaded /\ BeginPass("clear")

Clear == phase = "clear" /\ iter.ptr # NULL /\ erase /\ UNCHANGED phase

EndClear ==
  /\ phase = "clear" /\ iter.ptr = NULL
  /\ phase' = "rest" /\ loaded' = FALSE
  /\ UNCHANGED <<heads, links, cellIndex, deleteMe, live, iter>>

(* Grid::resize for the next level, whose lists are new. *)
resize ==
  /\ phase = "rest" /\ ~loaded
  /\ loaded' = TRUE
  /\ firstS' = NoHeads /\ count' = [l \in Layer |-> 0]
  /\ firstDelayed' = NoHeads /\ firstDelayedNoCol' = NoHeads
  /\ nextD' = FreshNextD /\ prevD' = FreshPrevD
  /\ UNCHANGED <<nextS, cellIndex, deleteMe, live, iter, phase>>

Loop ==
  \/ BeginErase \/ Erase \/ Keep \/ EndErase \/ EndThink \/ EndFlush \/ Clear \/ EndClear
  \/ \E c \in Cell : Think(c)
  \/ \E l \in Layer : flushDelayed(l)

Next ==
  \/ Loop \/ BeginClear \/ resize
  \/ \E o \in Object :
       \/ remove(o)
       \/ \E k \in Kind : ~k[2] /\ insertDelayedNoCol(k[1], o)
       \/ \E k \in Kind, c \in Cell : k[2] /\ insertDelayed(k[1], o, c)
       \/ \E l \in WormLayer, c \in Cell : insertImmediately(l, o, c)

Spec == Init /\ [][Next]_gridVars

-----------------------------------------------------------------------------
(* Grid::area_iterator, over w by h squares from the square begin on, in every layer. *)

AtSquare(l, square, leftOnRow, rowsLeft) ==
  [curLayer |-> l, curSquare |-> square, leftOnRow |-> leftOnRow, rowsLeft |-> rowsLeft,
   curObj |-> nextD[guard(l, square)], nextGuard |-> guard(l, square + 1)]

AreaEnd == [AtSquare(LayerCount, 0, 0, 0) EXCEPT !.curObj = NULL]

(* The first layer after l that has objects, at its first square. *)
skipEmptyLayers(l, begin, w, h) ==
  LET rest == {k \in Layer : k > l /\ count[k] # 0}
  IN IF rest = {} THEN AreaEnd
     ELSE AtSquare(CHOOSE k \in rest : \A j \in rest : k <= j, begin, w, h)

areaStep(a, begin, w, h) ==
  IF a.curObj # a.nextGuard THEN [a EXCEPT !.curObj = nextD[a.curObj]]
  ELSE IF a.leftOnRow > 1 THEN AtSquare(a.curLayer, a.curSquare + 1, a.leftOnRow - 1, a.rowsLeft)
  ELSE IF a.rowsLeft > 1
       THEN AtSquare(a.curLayer, a.curSquare + SquaresH - w + 1, w, a.rowsLeft - 1)
  ELSE skipEmptyLayers(a.curLayer, begin, w, h)

(* What the iterator names, in order. *)
areaVisits(begin, w, h) ==
  LET most == LayerCount * w * h + Cardinality(Object) + 1
      walk[i \in 0 .. most] ==
        IF i = 0 THEN [at |-> skipEmptyLayers(0, begin, w, h), seen |-> << >>]
        ELSE LET before == walk[i - 1]
                 a == before.at
             IN IF a.curObj = NULL THEN before
                ELSE [at |-> areaStep(a, begin, w, h),
                      seen |-> IF a.curObj = a.nextGuard THEN before.seen
                               ELSE Append(before.seen, a.curObj)]
  IN walk[most].seen

-----------------------------------------------------------------------------
(* What the lists hold *)

(* The objects from o on, along the links of an S list. *)
From(links_, o) ==
  LET nth[i \in 0 .. Cardinality(Object)] ==
        IF i = 0 THEN o ELSE LET n == nth[i - 1] IN IF n = NULL THEN NULL ELSE links_[n]
  IN {nth[i] : i \in 0 .. Cardinality(Object)} \ {NULL}

Listed(l) == From(nextS, firstS[l])
Pending(l) == From(nextS, firstDelayed[l]) \cup From(nextS, firstDelayedNoCol[l])
AllListed == UNION {Listed(l) : l \in Layer}
AllPending == UNION {Pending(l) : l \in Layer}
Todo == IF iter.ptr = NULL THEN {}
        ELSE From(nextS, iter.ptr) \cup UNION {Listed(l) : l \in iter.layer + 1 .. LayerCount}

TypeOK ==
  /\ firstS \in [Layer -> Object \cup {NULL}] /\ nextS \in [Object -> Object \cup {NULL}]
  /\ nextD \in [Node -> Node \cup {NULL}] /\ prevD \in [Node -> Node \cup {NULL}]
  /\ count \in [Layer -> 0 .. Cardinality(Object)]
  /\ firstDelayed \in [Layer -> Object \cup {NULL}]
  /\ firstDelayedNoCol \in [Layer -> Object \cup {NULL}]
  /\ cellIndex \in [Object -> Cell \cup {NoCell}]
  /\ deleteMe \subseteq live /\ live \subseteq Object
  /\ iter \in [layer : Layer, ptr : Object \cup {NULL}, prev : Object \cup {NULL}]
  /\ phase \in {"erase", "think", "flush", "rest", "clear"}
  /\ loaded \in BOOLEAN

(* The squares of an area, and a walk that has named each object of a set once. *)
AreaOf(x, y, w, h) == {i + j * SquaresH : i \in x .. x + w - 1, j \in y .. y + h - 1}
Saw(seen, there) == {seen[i] : i \in DOMAIN seen} = there /\ Len(seen) = Cardinality(there)

(* Any area of squares, at any moment of a pass, gives the listed objects in *)
(* these squares and each of them once: what detect events, and collisions   *)
(* of particles, look for (beginArea).                                       *)
AreaFindsAll ==
  \A x \in 0 .. SquaresH - 1, y \in 0 .. SquaresV - 1 :
    \A w \in 1 .. SquaresH - x, h \in 1 .. SquaresV - y :
      Saw(areaVisits(x + y * SquaresH, w, h),
          {o \in AllListed : cellIndex[o] \in AreaOf(x, y, w, h)})

(* List::count, by which an area skips the empty layers, is the length of the *)
(* layer's list, whatever was erased, flushed or cleared.                     *)
CountIsLength == TypeOK /\ \A l \in Layer : count[l] = Cardinality(Listed(l))

(* The grid is a set of objects whose passes visit each listed object once    *)
(* while others are made, moved and marked, that erases none but marked ones, *)
(* and that loses none but those waiting when a level is left.                *)
Set == INSTANCE ObjectSet WITH
         listed <- AllListed, pending <- AllPending, lost <- live \ (AllListed \cup AllPending),
         place <- cellIndex, marked <- deleteMe, todo <- Todo
IsObjectSet == Set!Spec
=============================================================================
