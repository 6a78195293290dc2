-------------------------------- MODULE Stream --------------------------------
(***************************************************************************)
(* A message put together by the encoders of Goop/encoding.h and taken     *)
(* apart by the matching decoders on another machine: what Game,           *)
(* NetWorm, BasePlayer and the replicators do with a ZCom_BitStream, for   *)
(* any sequence of fields.  Nothing in the bits says where a field ends,   *)
(* or what it is: the reader has only the order of its own calls.          *)
(***************************************************************************)
EXTENDS Encoding

CONSTANTS
  Bounded,           \* counts of the fields written by encode
  MaxCode,           \* the largest number written as an Elias-delta code
  Axis,              \* an axis of level.vectorEncoding
  Beyond,            \* how far coordinates reach beyond the area
  SpeedFine,         \* the coordinates of a speed to one code
  MaxSpeed,          \* the largest coordinate of a speed
  MaxFields          \* bound: fields in a message

ASSUME StreamAssumption ==
  /\ Bounded \subseteq Nat \ {0} /\ {MaxCode, Beyond, MaxSpeed} \subseteq Nat
  /\ SpeedFine \in Nat \ {0} /\ MaxFields \in Nat

Fields ==
  [kind : {"bounded"}, value : 0..(CHOOSE c \in Bounded : \A d \in Bounded : d <= c),
   count : Bounded]
    \cup [kind : {"elias"}, value : 1..MaxCode]
    \cup [kind : {"diff"}, value : -MaxSpeed..MaxSpeed]
    \cup [kind : {"vector"},
          value : LET per == Axis.acc * Axis.fine
                  IN  (Axis.x1 * per - Beyond)..(Axis.x2 * per + Beyond)]

(***************************************************************************)
(* What the assertions of the encoders and the sizes of their types ask.   *)
(***************************************************************************)
Allowed(f) ==
  /\ f.kind = "bounded" => f.value < f.count
  /\ f.kind = "diff"    => IsEncodable(SpeedFine, f.value)

VARIABLES
  stream,            \* the bits of the message
  written,           \* the fields it was made of
  sent,              \* has it been sent
  read               \* the values taken from it

vars == <<stream, written, sent, read>>

-----------------------------------------------------------------------------
encodeField(s, f) ==
  CASE f.kind = "bounded" -> encode(s, f.value, f.count)
    [] f.kind = "elias"   -> encodeEliasDelta(s, f.value)
    [] f.kind = "diff"    -> encodeDiff(s, SpeedFine, f.value)
    [] f.kind = "vector"  -> encodeVector(s, Axis, f.value)

decodeField(s, f) ==
  CASE f.kind = "bounded" -> decode(s, f.count)
    [] f.kind = "elias"   -> decodeEliasDelta(s)
    [] f.kind = "diff"    -> decodeDiff(s, SpeedFine)
    [] f.kind = "vector"  -> decodeVector(s, Axis)

Init == stream = <<>> /\ written = <<>> /\ sent = FALSE /\ read = <<>>

Write(f) ==
  /\ ~sent /\ Len(written) < MaxFields
  /\ Allowed(f)
  /\ stream' = encodeField(stream, f)
  /\ written' = Append(written, f)
  /\ UNCHANGED <<sent, read>>

Send == ~sent /\ written # <<>> /\ sent' = TRUE /\ UNCHANGED <<stream, written, read>>

Read ==
  /\ sent /\ Len(read) < Len(written)
  /\ LET field == decodeField(stream, written[Len(read) + 1])
     IN  read' = Append(read, field.value) /\ stream' = field.rest
  /\ UNCHANGED <<written, sent>>

Next == (\E f \in Fields : Write(f)) \/ Send \/ Read
Spec == Init /\ [][Next]_vars

-----------------------------------------------------------------------------
TypeOK ==
  /\ stream \in Seq({0, 1}) /\ sent \in BOOLEAN
  /\ \A i \in DOMAIN written : written[i] \in Fields /\ Allowed(written[i])
  /\ read \in Seq(Int) /\ Len(read) <= Len(written)

(***************************************************************************)
(* Indices and codes arrive as they were written, whatever was written     *)
(* before and after them, and the message is read to its end and not       *)
(* beyond it: writer and reader agree about the length of every field.     *)
(***************************************************************************)
CodesArrive ==
  /\ TypeOK
  /\ \A i \in DOMAIN read : written[i].kind \in {"bounded", "elias"} => read[i] = written[i].value
ReadToTheEnd == Len(read) = Len(written) => stream = <<>> \/ ~sent

(***************************************************************************)
(* A coordinate inside the area that is at least half a code away from its *)
(* far edge arrives as the nearest one that has a code, and one beyond the *)
(* area as one on the side where it was.  (What is nearer to the far edge   *)
(* arrives at the near edge when the width is a power of two.)              *)
(***************************************************************************)
PositionsAreNear ==
  \A i \in DOMAIN read : written[i].kind = "vector" =>
    LET v == written[i].value  far == Axis.x2 * Axis.acc * Axis.fine
    IN  /\ isInside(Axis, v) /\ 2 * (far - v) > Axis.fine => 2 * (read[i] - v) \in -Axis.fine..Axis.fine
        /\ v < Axis.x1 * Axis.acc * Axis.fine => read[i] = Axis.x1 * Axis.acc * Axis.fine
        /\ 2 * (v - far) >= Axis.fine * 2 => read[i] = far - Axis.fine

(***************************************************************************)
(* A speed keeps its direction.  To the right it arrives as the nearest    *)
(* code; to the left, where adding a half and dropping the fraction rounds *)
(* the wrong way, it is slowed down, by less than one code and a half: a   *)
(* worm that stands still does not set off on another machine.             *)
(***************************************************************************)
SpeedsAreNear ==
  \A i \in DOMAIN read : written[i].kind = "diff" =>
    LET v == written[i].value
    IN  /\ v >= 0 => read[i] >= 0 /\ 2 * (read[i] - v) \in -SpeedFine..SpeedFine
        /\ v < 0 => read[i] \in v..0 /\ 2 * (read[i] - v) < 3 * SpeedFine

(* What a message says of positions and speeds is near what was meant. *)
ValuesAreNear == PositionsAreNear /\ SpeedsAreNear
=============================================================================
