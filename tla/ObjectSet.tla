------------------------------- MODULE ObjectSet -------------------------------
(***************************************************************************)
(* What the grid of objects promises the main loop: a set of listed        *)
(* objects that a pass visits once each while objects are made, moved and  *)
(* marked, and a set of waiting objects that join it in a flush.           *)
(***************************************************************************)
EXTENDS Naturals, FiniteSets

CONSTANTS
  Object,   \* the objects there may be
  Cell,     \* the squares of the grid
  NoCell    \* the place of an object that is in no square

Place == Cell \cup {NoCell}

VARIABLES
  listed,   \* the objects a pass visits
  pending,  \* those made and not flushed
  lost,     \* those that were waiting when the grid was made anew: nothing refers to them
  place,    \* the square of an object, if it is in one
  marked,   \* the objects to be erased
  todo,     \* what the pass under way has yet to visit
  phase,    \* where the main loop is
  loaded    \* a level is loaded

setVars == <<listed, pending, lost, place, marked, todo, phase, loaded>>

Phase == {"erase", "think", "flush", "rest", "clear"}

SetTypeOK ==
  /\ listed \subseteq Object /\ pending \subseteq Object /\ lost \subseteq Object
  /\ place \in [Object -> Place]
  /\ marked \subseteq Object /\ todo \subseteq Object
  /\ phase \in Phase
  /\ loaded \in BOOLEAN

(* An object is in one place: listed, waiting or lost; only listed ones are visited. *)
OnePlace ==
  /\ listed \cap pending = {} /\ listed \cap lost = {} /\ pending \cap lost = {}
  /\ todo \subseteq listed
  /\ marked \subseteq listed \cup pending \cup lost

Init ==
  /\ listed = {} /\ pending = {} /\ lost = {}
  /\ place = [o \in Object |-> NoCell]
  /\ marked = {} /\ todo = {}
  /\ phase = "rest"
  /\ loaded = TRUE

Dead(o) == o \notin listed \cup pending \cup lost

Begin(p) == phase' = p /\ todo' = listed /\ UNCHANGED <<listed, pending, lost, place, marked, loaded>>

BeginErase == phase = "rest" /\ Begin("erase")

EndErase ==
  /\ phase = "erase" /\ todo = {}
  /\ IF loaded THEN Begin("think")
     ELSE phase' = "rest" /\ UNCHANGED <<listed, pending, lost, place, marked, todo, loaded>>

Erase(o) ==
  /\ phase = "erase" /\ o \in todo /\ o \in marked
  /\ listed' = listed \ {o} /\ marked' = marked \ {o} /\ todo' = todo \ {o}
  /\ place' = [place EXCEPT ![o] = NoCell]
  /\ UNCHANGED <<pending, lost, phase, loaded>>

Keep(o) ==
  /\ phase = "erase" /\ o \in todo /\ o \notin marked
  /\ todo' = todo \ {o}
  /\ UNCHANGED <<listed, pending, lost, place, marked, phase, loaded>>

(* The object thinks, which may move it; an object in no square stays in none. *)
Think(o, c) ==
  /\ phase = "think"
  /\ (place[o] = NoCell) <=> (c = NoCell)
  /\ place' = [place EXCEPT ![o] = c]
  /\ o \in todo /\ todo' = todo \ {o}
  /\ UNCHANGED <<listed, pending, lost, marked, phase, loaded>>

EndThink ==
  /\ phase = "think" /\ todo = {}
  /\ phase' = "flush"
  /\ UNCHANGED <<listed, pending, lost, place, marked, todo, loaded>>

Flush(o) ==
  /\ phase = "flush" /\ o \in pending
  /\ pending' = pending \ {o} /\ listed' = listed \cup {o}
  /\ UNCHANGED <<lost, place, marked, todo, phase, loaded>>

EndFlush ==
  /\ phase = "flush" /\ pending = {}
  /\ phase' = "rest"
  /\ UNCHANGED <<listed, pending, lost, place, marked, todo, loaded>>

(* Made while the lists may be in use. *)
Insert(o, c) ==
  /\ phase \in {"think", "rest"} /\ loaded
  /\ place' = [place EXCEPT ![o] = c]
  /\ Dead(o) /\ pending' = pending \cup {o}
  /\ UNCHANGED <<listed, lost, marked, todo, phase, loaded>>

(* Made between two passes. *)
InsertImmediately(o, c) ==
  /\ phase = "rest" /\ loaded /\ c # NoCell
  /\ place' = [place EXCEPT ![o] = c]
  /\ Dead(o) /\ listed' = listed \cup {o}
  /\ UNCHANGED <<pending, lost, marked, todo, phase, loaded>>

Mark(os) ==
  /\ phase \in {"think", "rest"}
  /\ marked' = marked \cup os
  /\ \A o \in os : ~Dead(o)
  /\ UNCHANGED <<listed, pending, lost, place, todo, phase, loaded>>

(* The end of a level: all that is listed goes, marked or not. *)
BeginClear == phase = "rest" /\ loaded /\ Begin("clear")

Clear(o) ==
  /\ phase = "clear" /\ o \in todo
  /\ listed' = listed \ {o} /\ marked' = marked \ {o} /\ todo' = todo \ {o}
  /\ place' = [place EXCEPT ![o] = NoCell]
  /\ UNCHANGED <<pending, lost, phase, loaded>>

EndClear ==
  /\ phase = "clear" /\ todo = {}
  /\ phase' = "rest" /\ loaded' = FALSE
  /\ UNCHANGED <<listed, pending, lost, place, marked, todo>>

(* The grid of the next level: what still waits in the old one is lost. *)
Resize ==
  /\ phase = "rest" /\ ~loaded
  /\ loaded' = TRUE
  /\ lost' = lost \cup pending /\ pending' = {}
  /\ UNCHANGED <<listed, place, marked, todo, phase>>

Next ==
  \/ BeginErase \/ EndErase \/ EndThink \/ EndFlush \/ BeginClear \/ EndClear \/ Resize
  \/ \E o \in Object :
       \/ Erase(o) \/ Keep(o) \/ Flush(o) \/ Mark({o}) \/ Clear(o)
       \/ \E c \in Place : Think(o, c) \/ Insert(o, c) \/ InsertImmediately(o, c)

Spec == Init /\ [][Next]_setVars
=============================================================================
