------------------------------ MODULE HttpRequest ------------------------------
(***************************************************************************)
(* One HTTP request: Request of http/http.cpp over Socket of http/tcp.cpp. *)
(* Every action but Clock is one call of Request::think, which             *)
(* processHttpRequests of Goop/network.cpp makes once per tick until it    *)
(* returns true.                                                           *)
(*                                                                         *)
(* A response is a sequence of pieces of text: what the parser tells apart *)
(* is the status "200 OK", the name and the value of a Content-Length, any *)
(* other text, and the characters CR and LF.  The socket hands it over in  *)
(* chunks of any size.                                                     *)
(***************************************************************************)
EXTENDS Integers, Sequences, SequencesExt

CONSTANTS
  Text,              \* the pieces of text of a response
  Heads,             \* the heads of a response that may come, line after line
  Bodies,            \* the bodies that may come
  OutLen,            \* pieces in which the request can be sent
  TimeOut            \* timeOut of the socket (10 seconds)

CR == "CR"
LF == "LF"

ASSUME HttpAssumption ==
  /\ OutLen \in Nat \ {0} /\ TimeOut \in Nat
  /\ {CR, LF} \subseteq Text
  /\ Heads \subseteq Seq(Text) /\ Bodies \subseteq Seq(Text)

\* What a head is made of, in HTTP: lines that are not empty and end with CR
\* and LF, which are nowhere else; the line of a Content-Length is a number.
\* A body may be anything.
HeadOfLines(h) ==
  \A k \in 1..Len(h) :
    /\ h[k] = CR => /\ k > 1 /\ h[k - 1] \notin {CR, LF}
                    /\ k < Len(h) /\ h[k + 1] = LF
    /\ h[k] = LF => k > 1 /\ h[k - 1] = CR
    /\ k = Len(h) => h[k] = LF
    /\ h[k] = "Content-Length" /\ (k = 1 \/ h[k - 1] = LF) =>
         k + 1 < Len(h) /\ h[k + 1] = "number" /\ h[k + 2] = CR

ASSUME HeadsAreLines == \A h \in Heads : HeadOfLines(h)

VARIABLES
  response,          \* what the server sends, if it sends all
  body,              \* the part of it after the empty line
  connection,        \* connecting, connected, or closed by the server
  state,             \* SendingData, ReadingHeader, ReadingData, Done
  error,             \* ErrorNone, ErrorConnect, ErrorSend, ...
  unsent,            \* how much of outData is left
  elapsed,           \* seconds since resetTimer
  received,          \* how much of the response has been read
  header, data, success,
  ended,             \* "no", "returned" (think returned true), or "thrown"
  splitAtCR          \* history: a chunk of the header ended with a CR

socket == <<connection, error, unsent, elapsed, received>>
parse  == <<state, header, data, success>>
vars   == <<response, body, socket, parse, ended, splitAtCR>>

\* The response with this head, an empty line and this body.
Response(h, b) == h \o <<CR, LF>> \o b

-----------------------------------------------------------------------------
(***************************************************************************)
(* The parser.  b, oldb and found are positions in the chunk, from 1; so   *)
(* found is Len(chunk) + 2 when the CR of the empty line ends the chunk.   *)
(***************************************************************************)
\* addHeader: a header line sets success, or has a length to be read, or
\* means nothing.  lexical_cast throws if the value is not a number alone.
IsStatus(line) == "200 OK" \in ToSet(line)

Throws(line) ==
  /\ ~IsStatus(line)
  /\ Len(line) > 1 /\ line[1] = "Content-Length" /\ Tail(line) # <<"number">>

\* Mutant: the data begins right after the last CR.
ParseCharEarly(p, chunk) ==
  LET line == p.header \o SubSeq(chunk, p.oldb, p.b - 1) IN
  IF p.found > 0 \/ p.thrown THEN p
  ELSE CASE chunk[p.b] = LF -> [p EXCEPT !.b = @ + 1, !.oldb = p.b + 1]
         [] chunk[p.b] = CR /\ line = <<>> -> [p EXCEPT !.found = p.b + 1]
         [] chunk[p.b] = CR /\ line # <<>> ->
              [p EXCEPT !.b = @ + 1, !.header = <<>>,
                        !.success = @ \/ IsStatus(line),
                        !.thrown = Throws(line)]
         [] OTHER -> [p EXCEPT !.b = @ + 1]

\* One character of parseHeaders, p the state of the loop.
ParseChar(p, chunk) ==
  LET line == p.header \o SubSeq(chunk, p.oldb, p.b - 1) IN
  IF p.found > 0 \/ p.thrown THEN p
  ELSE CASE chunk[p.b] = LF -> [p EXCEPT !.b = @ + 1, !.oldb = p.b + 1]
         [] chunk[p.b] = CR /\ line = <<>> -> [p EXCEPT !.found = p.b + 2]
         [] chunk[p.b] = CR /\ line # <<>> ->
              [p EXCEPT !.b = @ + 1, !.header = <<>>,
                        !.success = @ \/ IsStatus(line),
                        !.thrown = Throws(line)]
         [] OTHER -> [p EXCEPT !.b = @ + 1]

\* The loop of parseHeaders: its state after n characters of the chunk.
Loop(chunk) ==
  LET start == [b |-> 1, oldb |-> 1, header |-> header, success |-> success,
                found |-> 0, thrown |-> FALSE]
      loop[n \in 0..Len(chunk)] ==
        IF n = 0 THEN start ELSE ParseChar(loop[n - 1], chunk)
  IN  loop

\* After the loop the rest of the chunk is kept: from oldb, which a CR has
\* not moved.
parseHeaders(chunk) ==
  LET p == Loop(chunk)[Len(chunk)]
  IN  IF p.found > 0 \/ p.thrown THEN p
      ELSE [p EXCEPT !.header = @ \o SubSeq(chunk, p.oldb, Len(chunk))]

-----------------------------------------------------------------------------
(***************************************************************************)
(* Ends of a request.                                                      *)
(***************************************************************************)
Return == ended' = "returned"

\* Mutant: an error after the status leaves success standing.
FailKeepsSuccess(e) ==
  /\ error' = e
  /\ state' = "Done" /\ Return
  /\ UNCHANGED <<header, data, success>>

\* switchState(Done) closes the socket.
Fail(e) ==
  /\ error' = e
  /\ success' = FALSE /\ state' = "Done" /\ Return
  /\ UNCHANGED <<header, data>>

\* Mutant: a call that would block is no reason to give up.
TimedOutNever(since) == FALSE

\* checkTimeout, after a call that would block.
TimedOut(since) == since > TimeOut

Running == ended = "no"

-----------------------------------------------------------------------------
(***************************************************************************)
(* Socket::think, while connecting.                                        *)
(***************************************************************************)
ConnectFails ==
  /\ Running /\ connection = "connecting"
  /\ error' = "ErrorConnect" /\ Return
  /\ UNCHANGED <<response, body, connection, unsent, elapsed, received, parse,
                 splitAtCR>>

ConnectWaits ==
  /\ Running /\ connection = "connecting" /\ TimedOut(elapsed)
  /\ error' = "ErrorTimeout" /\ Return
  /\ UNCHANGED <<response, body, connection, unsent, elapsed, received, parse,
                 splitAtCR>>

(***************************************************************************)
(* case SendingData, from the very call that finds the socket connected.   *)
(* A partial send does not reset the timer.                                *)
(***************************************************************************)
Sending ==
  Running /\ connection \in {"connecting", "connected"} /\ state = "SendingData"

Since == IF connection = "connecting" THEN 0 ELSE elapsed

Send ==
  /\ Sending /\ connection' = "connected" /\ elapsed' = Since
  /\ \E n \in 1..unsent :
       /\ unsent' = unsent - n
       /\ state' = IF n = unsent THEN "ReadingHeader" ELSE state
  /\ UNCHANGED <<response, body, error, received, header, data, success, ended,
                 splitAtCR>>

SendFails ==
  /\ Sending /\ connection' = "connected" /\ elapsed' = Since
  /\ Fail("ErrorSend")
  /\ UNCHANGED <<response, body, unsent, received, splitAtCR>>

SendBlocks ==
  /\ Sending /\ connection' = "connected" /\ elapsed' = Since
  /\ IF TimedOut(Since) THEN Fail("ErrorTimeout")
                        ELSE UNCHANGED <<error, parse, ended>>
  /\ UNCHANGED <<response, body, unsent, received, splitAtCR>>

-----------------------------------------------------------------------------
(***************************************************************************)
(* case ReadingHeader and case ReadingData.                                *)
(***************************************************************************)
Reading ==
  Running /\ connection = "connected" /\ state \in {"ReadingHeader", "ReadingData"}

\* The server closes the connection, whether it has sent all or not.
EndOfStream ==
  /\ Reading
  /\ connection' = "closed" /\ Return
  /\ UNCHANGED <<response, body, error, unsent, elapsed, received, parse,
                 splitAtCR>>

RecvFails ==
  /\ Reading /\ Fail("ErrorRecv")
  /\ UNCHANGED <<response, body, connection, unsent, elapsed, received,
                 splitAtCR>>

RecvBlocks ==
  /\ Reading /\ TimedOut(elapsed) /\ Fail("ErrorTimeout")
  /\ UNCHANGED <<response, body, connection, unsent, elapsed, received,
                 splitAtCR>>

\* The next n pieces arrive.
Chunk(n) == SubSeq(response, received + 1, received + n)

Arrives(n) ==
  /\ received' = received + n
  /\ elapsed' = 0
  /\ UNCHANGED <<response, body, connection, error, unsent>>

ReadHeader ==
  /\ Reading /\ state = "ReadingHeader"
  /\ \E n \in 1..(Len(response) - received) :
       LET p == parseHeaders(Chunk(n)) IN
       /\ Arrives(n)
       /\ header' = p.header
       /\ splitAtCR' =
            (splitAtCR \/ (p.found \notin 1..(n + 1) /\ Last(Chunk(n)) = CR))
       /\ CASE p.thrown ->
                 ended' = "thrown" /\ UNCHANGED <<state, data, success>>
            [] ~p.thrown /\ p.found = 0 ->
                 success' = p.success /\ UNCHANGED <<state, data, ended>>
            [] p.found > n + 1 ->
                 success' = FALSE /\ state' = "Done" /\ Return
                   /\ UNCHANGED data
            [] p.found \in 1..(n + 1) ->
                 /\ success' = p.success /\ state' = "ReadingData"
                 /\ data' = SubSeq(Chunk(n), p.found, n)
                 /\ UNCHANGED ended

\* Mutant: each chunk takes the place of the one before.
ReadDataOverwrites ==
  /\ Reading /\ state = "ReadingData"
  /\ \E n \in 1..(Len(response) - received) :
       Arrives(n) /\ data' = Chunk(n)
  /\ UNCHANGED <<state, header, success, ended, splitAtCR>>

ReadData ==
  /\ Reading /\ state = "ReadingData"
  /\ \E n \in 1..(Len(response) - received) :
       Arrives(n) /\ data' = data \o Chunk(n)
  /\ UNCHANGED <<state, header, success, ended, splitAtCR>>

-----------------------------------------------------------------------------
\* time(0) goes on.  Bound: nothing changes once it is past the time-out.
Clock ==
  /\ Running /\ elapsed <= TimeOut
  /\ elapsed' = elapsed + 1
  /\ UNCHANGED <<response, body, connection, error, unsent, received, parse,
                 ended, splitAtCR>>

Init ==
  /\ \E h \in Heads : \E b \in Bodies :
       response = Response(h, b) /\ body = b
  /\ connection = "connecting" /\ state = "SendingData" /\ error = "ErrorNone"
  /\ unsent = OutLen /\ elapsed = 0 /\ received = 0
  /\ header = <<>> /\ data = <<>> /\ success = FALSE
  /\ ended = "no" /\ splitAtCR = FALSE

Think ==
  \/ ConnectFails \/ ConnectWaits
  \/ Send \/ SendFails \/ SendBlocks
  \/ EndOfStream \/ RecvFails \/ RecvBlocks \/ ReadHeader \/ ReadData

Next == Think \/ Clock

Spec == Init /\ [][Next]_vars

\* processHttpRequests calls think every tick, and time passes.  Nothing is
\* asked of the server: it may be silent, and then think finds that its call
\* would block.
Blocks ==
  ConnectWaits \/ (connection = "connected" /\ SendBlocks) \/ RecvBlocks

FairSpec == Spec /\ WF_vars(Blocks) /\ WF_vars(Clock)

-----------------------------------------------------------------------------
(***************************************************************************)
(* Properties                                                              *)
(***************************************************************************)
TypeOK ==
  /\ connection \in {"connecting", "connected", "closed"}
  /\ state \in {"SendingData", "ReadingHeader", "ReadingData", "Done"}
  /\ error \in {"ErrorNone", "ErrorConnect", "ErrorSend", "ErrorRecv",
                "ErrorTimeout"}
  /\ unsent \in 0..OutLen /\ elapsed \in 0..(TimeOut + 1)
  /\ received \in 0..Len(response)
  /\ header \in Seq(Text) /\ data \in Seq(Text)
  /\ success \in BOOLEAN /\ splitAtCR \in BOOLEAN
  /\ ended \in {"no", "returned", "thrown"}

\* The response up to its empty line.
head == SubSeq(response, 1, Len(response) - Len(body) - 2)

Accepted == ended = "returned" /\ success
Whole    == received = Len(response) /\ connection = "closed"

\* A request that succeeds has read a 200 OK and met no error; a request
\* that succeeds has not failed before (network.cpp: onServerAdded and the
\* other handlers act on success alone).
SuccessIsMeant ==
  Accepted => /\ error = "ErrorNone"
              /\ "200 OK" \in ToSet(SubSeq(response, 1, received))

\* What is handed out as data is one piece of the body and never a part of
\* the header, however the response was cut into chunks.
DataIsFromBody ==
  /\ TypeOK
  /\ \E i \in 1..(Len(body) - Len(data) + 1) :
       data = SubSeq(body, i, i + Len(data) - 1)

\* A response that arrives whole, and is not cut between a CR and its LF, is
\* delivered whole and judged by its head alone; and nothing throws but for such
\* a cut: lexical_cast gets the length alone.
WholeResponseIsDelivered ==
  /\ Whole /\ ~splitAtCR =>
       ended = "returned" /\ data = body
         /\ success = ("200 OK" \in ToSet(head))
  /\ ended = "thrown" => splitAtCR

\* A well-formed response is not turned away as a malformed one
\* (http.cpp:148).  It is, when a chunk ends with the CR of the empty line.
WellFormedIsAccepted ==
  ended = "returned" /\ error = "ErrorNone" /\ state = "Done" =>
    ~ "200 OK" \in ToSet(head)

\* think returns true in the end, whatever the server does.
RequestEnds == <>(ended # "no")
=============================================================================
