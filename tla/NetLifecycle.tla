---------------------------- MODULE NetLifecycle ----------------------------
(***************************************************************************)
(* What the rest of the game may rely on about the network subsystem of    *)
(* Goop/network.cpp, in two variables: the program is off the network, is  *)
(* hosting, is dialling a server, has joined one, or is closing, and it    *)
(* has a set of open connections.                                          *)
(*                                                                         *)
(* The promise: a role is only taken up from "off" and only given up       *)
(* through "closing", so a game can change level, host or connect without  *)
(* ever meeting the remains of the previous session; nothing is connected  *)
(* while "off"; and "closing" ends.                                        *)
(***************************************************************************)
CONSTANT Conn          \* the connections the peers can have with us

VARIABLES link,        \* which of the five situations the program is in
          peers        \* the connections that are open

lvars == <<link, peers>>

Links == {"off", "hosting", "joining", "joined", "closing", "down"}

LInit == link = "off" /\ peers = {}

\* Taking up a role is possible only from "off".
TakeUp ==
  /\ link = "off"
  /\ link' \in {"hosting", "joining"}
  /\ UNCHANGED peers

\* A dialled server answers; a role that has been taken up can be given up
\* (dialling, answering and giving up again may all fall into one callback).
Answered ==
  /\ link = "joining"
  /\ link' \in {"joined", "closing"}
  /\ \E c \in Conn \ peers : peers' = peers \cup {c}

\* A peer comes or goes while a session exists, the closing one included.
Come ==
  /\ link \in {"hosting", "closing"}
  /\ \E c \in Conn \ peers : peers' = peers \cup {c}
  /\ UNCHANGED link

Go ==
  /\ link \in {"hosting", "joined", "closing"}
  /\ \E c \in peers : peers' = peers \ {c}
  /\ UNCHANGED link

GiveUp ==
  /\ link \in {"hosting", "joining", "joined"}
  /\ link' = "closing"
  /\ UNCHANGED peers

\* The end of closing drops whatever is still open.
Close ==
  /\ link = "closing"
  /\ link' = "off"
  /\ peers' = {}

\* The program ends: on request when it is off, or by a crash.
Halt ==
  /\ link # "down"
  /\ link' = "down"
  /\ UNCHANGED peers

LNext == TakeUp \/ Answered \/ Come \/ Go \/ GiveUp \/ Close \/ Halt

LSpec == LInit /\ [][LNext]_lvars

\* Closing ends, in "off" or with the program.
ClosingEnds == link = "closing" ~> link # "closing"
=============================================================================
