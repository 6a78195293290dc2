--------------------------- MODULE HttpRequestProofs ---------------------------
(***************************************************************************)
(* The three invariants of HttpRequest, for every set of heads made of     *)
(* lines, every set of bodies, every way to cut a response into chunks.    *)
(***************************************************************************)
EXTENDS HttpRequest, SequenceTheorems, FiniteSetTheorems, NaturalsInduction,
        WellFoundedInduction, TLAPS

-----------------------------------------------------------------------------
(***************************************************************************)
(* The inductive invariant.                                                *)
(***************************************************************************)
\* The length of the head.
H == Len(response) - Len(body) - 2

\* There is a status in the first m pieces of the response.
Status(m) == \E j \in 1..m : response[j] = "200 OK"

Sent == body \in Bodies /\ \E h \in Heads : response = Response(h, body)

Phases ==
  /\ state = "SendingData" => received = 0 /\ header = <<>> /\ ~success
  /\ state \in {"SendingData", "ReadingHeader"} => data = <<>>
  /\ connection = "connecting" => state = "SendingData"
  /\ connection = "closed" =>
       ended = "returned" /\ state \in {"ReadingHeader", "ReadingData"}
  /\ state = "Done" => ended = "returned" /\ ~success
  /\ error # "ErrorNone" => ended = "returned" /\ ~success

\* success comes from a status that was read, and so will what is in header.
StatusRead ==
  /\ success => Status(received)
  /\ \A i \in 1..Len(header) : \E j \in 1..received : header[i] = response[j]

\* An empty header at the beginning of a chunk is the beginning of a line.
HeaderBegins ==
  ended = "no" /\ state = "ReadingHeader" /\ header = <<>> /\ received > 0 =>
    response[received] = LF

\* The data is what has been read after some place in the body.
DataAfter ==
  state = "ReadingData" \/ data # <<>> =>
    \E k \in (H + 3)..(received + 1) : data = SubSeq(response, k, received)

\* A line that began at s has been read up to m.
LineFrom(s, m) ==
  /\ s \in 1..(m + 1)
  /\ s = 1 \/ response[s - 1] = LF
  /\ \A j \in s..m : response[j] \notin {CR, LF}

\* Without a cut between CR and LF, header is the line that was begun, and
\* success says whether there was a status in the lines before.
LineKept ==
  ~splitAtCR =>
    /\ ended # "thrown"
    /\ state \in {"SendingData", "ReadingHeader"} =>
         /\ received <= H
         /\ \E s \in 1..(received + 1) :
              /\ LineFrom(s, received)
              /\ header = SubSeq(response, s, received)
              /\ success <=> Status(s - 1)
    /\ state = "ReadingData" =>
         /\ received >= H + 2
         /\ data = SubSeq(response, H + 3, received)
         /\ success <=> Status(H)

IInv ==
  TypeOK /\ Sent /\ Phases /\ StatusRead /\ HeaderBegins /\ DataAfter /\ LineKept


-----------------------------------------------------------------------------
(***************************************************************************)
(* Induction up to a number, and the loop of the parser.                   *)
(***************************************************************************)

\* A set of natural numbers that is not empty has a least element.
LEMMA LeastElement ==
  ASSUME NEW T, T \subseteq Nat, T # {}
  PROVE  \E n \in T : \A m \in T : n <= m
<1> DEFINE R == StrictSubsetOrdering(Nat)
           U == {1..n : n \in T}
<1>1. \E x \in U : \A y \in U : ~(<<y, x>> \in R)
  <2>1. IsWellFoundedOn(R, FiniteSubsetsOf(Nat))
    BY FS_StrictSubsetOrderingWellFounded
  <2>2. U \subseteq FiniteSubsetsOf(Nat)
    <3>1. ASSUME NEW n \in T PROVE 1..n \subseteq Nat /\ IsFiniteSet(1..n)
      BY FS_Interval
    <3> QED BY <3>1 DEF FiniteSubsetsOf
  <2>3. U # {} OBVIOUS
  <2> HIDE DEF R, U
  <2>4. QED
    BY <2>1, <2>2, <2>3, WFMin
<1>2. PICK n \in T : \A m \in T : ~(<<1..m, 1..n>> \in R)
  BY <1>1
<1>3. ASSUME NEW m \in T
      PROVE n <= m
  <2>1. n \in Nat /\ m \in Nat OBVIOUS
  <2>2. ASSUME m < n PROVE FALSE
    <3>1. 1..m \subseteq 1..n /\ 1..m # 1..n
      <4>1. n \in 1..n /\ n \notin 1..m BY <2>1, <2>2
      <4> QED BY <4>1, <2>1, <2>2
    <3>2. <<1..m, 1..n>> \in R
      BY <3>1, <2>1 DEF StrictSubsetOrdering
    <3> QED BY <3>2, <1>2
  <2> QED BY <2>1, <2>2
<1> QED BY <1>3

\* What holds of 0, and of each number up to N after the one before it, holds
\* of all the numbers up to N.
LEMMA UpTo ==
  ASSUME NEW N \in Nat, NEW T, 0 \in T,
         \A k \in 0..N : k > 0 /\ k - 1 \in T => k \in T
  PROVE  0..N \subseteq T
<1> DEFINE U == (0..N) \ T
<1> SUFFICES ASSUME U # {} PROVE FALSE
  OBVIOUS
<1>1. PICK k \in U : \A m \in U : k <= m
  <2>1. U \subseteq Nat
    OBVIOUS
  <2> HIDE DEF U
  <2>2. QED
    BY <2>1, LeastElement
<1>2. k > 0 /\ k - 1 \in 0..N /\ ~(k <= k - 1)
  BY <1>1
<1>3. k - 1 \in T
  BY <1>1, <1>2
<1>4. QED
  BY <1>1, <1>2, <1>3

\* The states the loop of parseHeaders starts from.
Start == [b |-> 1, oldb |-> 1, header |-> header, success |-> success,
          found |-> 0, thrown |-> FALSE]

\* The states g goes through, up to N characters.
IsLoop(g, chunk, N) ==
  g = [n \in 0..N |-> IF n = 0 THEN Start ELSE ParseChar(g[n - 1], chunk)]

\* The loop of parseHeaders runs over a chunk of any length.
LEMMA LoopExists ==
  ASSUME NEW chunk, NEW N \in Nat
  PROVE  \E g : IsLoop(g, chunk, N)
<1> DEFINE T == {k \in Nat : \E g : IsLoop(g, chunk, k)}
<1>1. 0 \in T
  <2> DEFINE g == [n \in 0..0 |-> Start]
  <2>1. g = [n \in 0..0 |-> IF n = 0 THEN Start ELSE ParseChar(g[n - 1], chunk)]
    <3>1. \A n \in 0..0 : n = 0
      BY SMT
    <3>2. QED
      BY <3>1, Zenon
  <2> HIDE DEF g
  <2>2. QED
    BY <2>1 DEF IsLoop
<1>2. ASSUME NEW k \in 0..N, k > 0, k - 1 \in T
      PROVE  k \in T
  <2>1. PICK g : IsLoop(g, chunk, k - 1)
    BY <1>2
  <2> DEFINE f == [n \in 0..k |-> IF n = k THEN ParseChar(g[k - 1], chunk) ELSE g[n]]
  <2>2. ASSUME NEW n \in 0..k
        PROVE  f[n] = IF n = 0 THEN Start ELSE ParseChar(f[n - 1], chunk)
    <3>1. CASE n = 0
      <4>1. n \in 0..(k - 1) /\ n # k
        BY <1>2, <3>1
      <4>2. g[n] = Start
        BY <2>1, <3>1, <4>1 DEF IsLoop
      <4>3. QED
        BY <3>1, <4>1, <4>2
    <3>2. CASE n # 0 /\ n # k
      <4>1. n \in 0..(k - 1) /\ n - 1 \in 0..k /\ n - 1 # k
        BY <1>2, <3>2
      <4>2. g[n] = ParseChar(g[n - 1], chunk)
        BY <2>1, <3>2, <4>1 DEF IsLoop
      <4>3. QED
        BY <3>2, <4>1, <4>2
    <3>3. CASE n = k
      <4>1. k - 1 \in 0..k /\ k - 1 # k /\ n # 0
        BY <1>2, <3>3
      <4>2. QED
        BY <3>3, <4>1
    <3>4. QED
      BY <3>1, <3>2, <3>3
  <2>3. f = [n \in 0..k |-> f[n]]
    OBVIOUS
  <2> HIDE DEF f
  <2>4. f = [n \in 0..k |-> IF n = 0 THEN Start ELSE ParseChar(f[n - 1], chunk)]
    BY <2>2, <2>3
  <2>5. IsLoop(f, chunk, k) /\ k \in Nat
    BY <2>4 DEF IsLoop
  <2>6. QED
    BY <2>5
<1> HIDE DEF T
<1>3. N \in T
  BY <1>1, <1>2, UpTo
<1>4. QED
  BY <1>3 DEF T

LEMMA LoopSteps ==
  ASSUME NEW chunk, Len(chunk) \in Nat
  PROVE  /\ Loop(chunk)[0] = Start
         /\ \A k \in 1..Len(chunk) :
              Loop(chunk)[k] = ParseChar(Loop(chunk)[k - 1], chunk)
<1> DEFINE N == Len(chunk)
<1>1. Loop(chunk) = CHOOSE g : IsLoop(g, chunk, N)
  BY DEF Loop, IsLoop, Start
<1>2. \E g : IsLoop(g, chunk, N)
  BY LoopExists
<1>3. IsLoop(CHOOSE g : IsLoop(g, chunk, N), chunk, N)
  BY Zenon, <1>2
<1>4. PICK g : g = Loop(chunk)
  OBVIOUS
<1>5. g = [n \in 0..N |-> IF n = 0 THEN Start ELSE ParseChar(g[n - 1], chunk)]
  BY <1>1, <1>3, <1>4 DEF IsLoop
<1>6. g[0] = Start /\ \A k \in 1..N : g[k] = ParseChar(g[k - 1], chunk)
  <2>1. 0 \in 0..N /\ \A k \in 1..N : k \in 0..N /\ k # 0
    OBVIOUS
  <2>2. QED
    BY <1>5, <2>1
<1>7. QED
  BY <1>4, <1>6

-----------------------------------------------------------------------------
(***************************************************************************)
(* The response and its chunks.                                            *)
(***************************************************************************)

\* What the parser may count on: a head of lines, then an empty line.
Shape ==
  /\ H \in Nat /\ Len(response) = H + 2 + Len(body) /\ Len(body) \in Nat
  /\ response[H + 1] = CR /\ response[H + 2] = LF
  /\ \A i \in (H + 3)..Len(response) : response[i] = body[i - H - 2]
  /\ \A i \in 1..H :
       /\ response[i] = CR => /\ i > 1 /\ response[i - 1] # CR /\ response[i - 1] # LF
                              /\ i < H /\ response[i + 1] = LF
       /\ response[i] = LF => i > 1 /\ response[i - 1] = CR
       /\ response[i] = "Content-Length" /\ (i = 1 \/ response[i - 1] = LF) =>
            i + 1 < H /\ response[i + 1] = "number" /\ response[i + 2] = CR
  /\ H > 0 => response[H] = LF

LEMMA ResponseFacts ==
  ASSUME Sent
  PROVE  response \in Seq(Text) /\ body \in Seq(Text) /\ Shape
<1>1. PICK h \in Heads : response = Response(h, body)
  BY DEF Sent
<1>2. h \in Seq(Text) /\ body \in Seq(Text)
  BY HttpAssumption DEF Sent
<1>3. PICK gap \in Seq(Text) : /\ gap = <<CR, LF>> /\ Len(gap) = 2
                               /\ gap[1] = CR /\ gap[2] = LF
  <2>1. CR \in Text /\ LF \in Text
    BY HttpAssumption
  <2>2. <<CR, LF>> \in Seq(Text) /\ Len(<<CR, LF>>) = 2
    BY <2>1
  <2>3. QED
    BY <2>2
<1>4. PICK text \in Seq(Text) : text = h \o gap
  BY <1>2, ConcatProperties
<1>t. /\ Len(text) = Len(h) + 2
      /\ \A i \in 1..(Len(h) + 2) :
           text[i] = IF i <= Len(h) THEN h[i] ELSE gap[i - Len(h)]
  BY <1>2, <1>3, <1>4, ConcatProperties
<1>r. response = text \o body
  BY <1>1, <1>3, <1>4 DEF Response
<1>5. Len(h) \in Nat /\ Len(body) \in Nat
  BY <1>2, LenProperties
<1>6. /\ response \in Seq(Text)
      /\ Len(response) = Len(text) + Len(body)
      /\ \A i \in 1..(Len(text) + Len(body)) :
           response[i] = IF i <= Len(text) THEN text[i] ELSE body[i - Len(text)]
  BY <1>2, <1>4, <1>r, ConcatProperties
<1>7. H = Len(h)
  BY <1>t, <1>5, <1>6 DEF H
<1>8. \A i \in 1..Len(h) : response[i] = h[i]
  BY <1>t, <1>5, <1>6
<1>9. response[Len(h) + 1] = CR /\ response[Len(h) + 2] = LF
  BY <1>3, <1>t, <1>5, <1>6
<1>10. \A i \in (Len(h) + 3)..Len(response) : response[i] = body[i - Len(h) - 2]
  BY <1>t, <1>5, <1>6
<1>11. HeadOfLines(h)
  BY HeadsAreLines
<1>12. Len(h) > 0 => response[Len(h)] = LF
  <2>1. Len(h) > 0 => Len(h) \in 1..Len(h)
    BY <1>5
  <2>2. QED
    BY <1>8, <1>11, <2>1 DEF HeadOfLines
<1>13. ASSUME NEW i \in 1..Len(h)
       PROVE  /\ response[i] = CR =>
                   /\ i > 1 /\ response[i - 1] # CR /\ response[i - 1] # LF
                   /\ i < Len(h) /\ response[i + 1] = LF
              /\ response[i] = LF => i > 1 /\ response[i - 1] = CR
              /\ response[i] = "Content-Length" /\ (i = 1 \/ response[i - 1] = LF) =>
                   /\ i + 1 < Len(h)
                   /\ response[i + 1] = "number" /\ response[i + 2] = CR
  <2>1. response[i] = h[i] /\ i \in Nat
    BY <1>8
  <2>2. i > 1 => i - 1 \in 1..Len(h) /\ response[i - 1] = h[i - 1]
    BY <1>5, <1>8
  <2>3. i < Len(h) => i + 1 \in 1..Len(h) /\ response[i + 1] = h[i + 1]
    BY <1>5, <1>8
  <2>4. i + 1 < Len(h) => i + 2 \in 1..Len(h) /\ response[i + 2] = h[i + 2]
    BY <1>5, <1>8
  <2>5. /\ h[i] = CR => /\ i > 1 /\ h[i - 1] \notin {CR, LF}
                        /\ i < Len(h) /\ h[i + 1] = LF
        /\ h[i] = LF => i > 1 /\ h[i - 1] = CR
        /\ h[i] = "Content-Length" /\ (i = 1 \/ h[i - 1] = LF) =>
             i + 1 < Len(h) /\ h[i + 1] = "number" /\ h[i + 2] = CR
    BY <1>11 DEF HeadOfLines
  <2>6. i = 1 \/ i > 1
    BY <1>5
  <2>7. i + 1 < Len(h) => i < Len(h)
    BY <1>5
  <2>8. QED
    BY <2>1, <2>2, <2>3, <2>4, <2>5, <2>6, <2>7
<1>14. Len(response) = Len(h) + 2 + Len(body)
  BY <1>t, <1>6
<1>15. Shape
  BY <1>5, <1>7, <1>9, <1>10, <1>12, <1>13, <1>14, Zenon DEF Shape
<1>16. QED
  BY <1>2, <1>6, <1>15

\* A part of the response, piece by piece.
LEMMA PartFacts ==
  ASSUME response \in Seq(Text), NEW s \in Nat \ {0}, NEW m \in 0..Len(response)
  PROVE  /\ SubSeq(response, s, m) \in Seq(Text)
         /\ Len(SubSeq(response, s, m)) = IF s <= m THEN m - s + 1 ELSE 0
         /\ \A i \in 1..(m - s + 1) : SubSeq(response, s, m)[i] = response[s + i - 1]
<1>1. Len(response) \in Nat
  BY LenProperties
<1>2. \A i \in s..m : response[i] \in Text
  <2>1. \A i \in s..m : i \in 1..Len(response)
    BY <1>1
  <2>2. QED
    BY <2>1, ElementOfSeq
<1>3. s \in Int /\ m \in Int
  BY <1>1
<1>4. QED
  BY <1>2, <1>3, SubSeqProperties

LEMMA ChunkFacts ==
  ASSUME response \in Seq(Text), received \in 0..Len(response),
         NEW n \in 1..(Len(response) - received)
  PROVE  /\ n \in Nat /\ n > 0 /\ received \in Nat /\ received + n <= Len(response)
         /\ Chunk(n) \in Seq(Text) /\ Len(Chunk(n)) = n
         /\ \A i \in 1..n : Chunk(n)[i] = response[received + i]
<1>1. Len(response) \in Nat
  BY LenProperties
<1>2. received + 1 \in Nat \ {0} /\ received + n \in 0..Len(response)
  BY <1>1
<1>3. /\ Chunk(n) \in Seq(Text)
      /\ Len(Chunk(n)) = IF received + 1 <= received + n
                           THEN (received + n) - (received + 1) + 1 ELSE 0
      /\ \A i \in 1..((received + n) - (received + 1) + 1) :
           Chunk(n)[i] = response[(received + 1) + i - 1]
  BY <1>2, PartFacts DEF Chunk
<1>4. (received + n) - (received + 1) + 1 = n /\ received + 1 <= received + n
      /\ \A i \in 1..n : (received + 1) + i - 1 = received + i
  BY <1>1
<1>5. /\ n \in Nat /\ n > 0 /\ received \in Nat
      /\ received + n <= Len(response)
  BY <1>1
<1>6. Chunk(n) \in Seq(Text) /\ Len(Chunk(n)) = n
  BY <1>3, <1>4
<1>7. \A i \in 1..n : Chunk(n)[i] = response[received + i]
  BY <1>3, <1>4, Zenon
<1>8. QED
  BY <1>5, <1>6, <1>7


-----------------------------------------------------------------------------
(***************************************************************************)
(* One character of the parser.                                            *)
(***************************************************************************)
States == [b : Nat, oldb : Nat, header : Seq(Text), success : BOOLEAN,
           found : Nat, thrown : BOOLEAN]

\* A line is h and then the chunk from s to m.
Joined(h, c, s, m, line) ==
  /\ line \in Seq(Text)
  /\ Len(line) = Len(h) + (m + 1 - s)
  /\ \A i \in 1..(Len(h) + (m + 1 - s)) :
       line[i] = IF i <= Len(h) THEN h[i] ELSE c[s + (i - Len(h)) - 1]
  /\ line = <<>> <=> h = <<>> /\ s = m + 1

LEMMA LineFacts ==
  ASSUME NEW h \in Seq(Text), NEW c \in Seq(Text),
         NEW s \in Nat, NEW m \in Nat, s > 0, s <= m + 1, m <= Len(c)
  PROVE  Joined(h, c, s, m, h \o SubSeq(c, s, m))
<1>0. Len(c) \in Nat /\ Len(h) \in Nat
  BY LenProperties
<1>1. \A i \in s..m : c[i] \in Text
  <2>1. \A i \in s..m : i \in 1..Len(c)
    BY <1>0
  <2>2. QED
    BY <2>1, ElementOfSeq
<1>2. s \in Int /\ m \in Int
  OBVIOUS
<1>3. /\ SubSeq(c, s, m) \in Seq(Text)
      /\ Len(SubSeq(c, s, m)) = IF s <= m THEN m - s + 1 ELSE 0
      /\ \A i \in 1..(m - s + 1) : SubSeq(c, s, m)[i] = c[s + i - 1]
  BY <1>1, <1>2, SubSeqProperties
<1>4. PICK t \in Seq(Text) : t = SubSeq(c, s, m)
  BY <1>3
<1>5. /\ Len(t) = m + 1 - s
      /\ \A i \in 1..(m + 1 - s) : t[i] = c[s + i - 1]
  <2>1. m - s + 1 = m + 1 - s /\ (~(s <= m) => m + 1 - s = 0)
    OBVIOUS
  <2>2. QED
    BY <1>3, <1>4, <2>1
<1>6. PICK r \in Seq(Text) : r = h \o t
  BY ConcatProperties
<1>7. /\ Len(r) = Len(h) + Len(t)
      /\ \A i \in 1..(Len(h) + Len(t)) : r[i] = IF i <= Len(h) THEN h[i] ELSE t[i - Len(h)]
  BY <1>6, ConcatProperties
<1>8. \A i \in 1..(Len(h) + (m + 1 - s)) :
        r[i] = IF i <= Len(h) THEN h[i] ELSE c[s + (i - Len(h)) - 1]
  <2> SUFFICES ASSUME NEW i \in 1..(Len(h) + (m + 1 - s))
               PROVE  r[i] = IF i <= Len(h) THEN h[i] ELSE c[s + (i - Len(h)) - 1]
    OBVIOUS
  <2>1. CASE i <= Len(h)
    BY <1>5, <1>7, <2>1
  <2>2. CASE ~(i <= Len(h))
    <3>1. i - Len(h) \in 1..(m + 1 - s)
      BY <1>0, <2>2
    <3>2. QED
      BY <1>5, <1>7, <2>2, <3>1
  <2>3. QED
    BY <2>1, <2>2
<1>9. r = <<>> <=> h = <<>> /\ s = m + 1
  <2>1. r = <<>> <=> h = <<>> /\ t = <<>>
    BY <1>6, ConcatEqualIffEmpty
  <2>2. t = <<>> <=> Len(t) = 0
    BY EmptySeq
  <2>3. QED
    BY <1>5, <2>1, <2>2
<1>10. Len(r) = Len(h) + (m + 1 - s)
  BY <1>5, <1>7
<1>11. QED
  BY <1>4, <1>6, <1>8, <1>9, <1>10 DEF Joined

LEMMA StatusFacts ==
  ASSUME NEW line \in Seq(Text)
  PROVE  IsStatus(line) <=> \E i \in 1..Len(line) : line[i] = "200 OK"
<1>1. DOMAIN line = 1..Len(line)
  BY LenProperties
<1>2. QED
  BY <1>1, Zenon DEF IsStatus, ToSet

LEMMA StatesKept ==
  ASSUME NEW p \in States
  PROVE  /\ \A x \in Nat : [p EXCEPT !.b = x] \in States
         /\ \A x, y \in Nat : [p EXCEPT !.b = x, !.oldb = y] \in States
         /\ \A x \in Nat : [p EXCEPT !.found = x] \in States
         /\ \A x \in Nat, h \in Seq(Text), u, v \in BOOLEAN :
              [p EXCEPT !.b = x, !.header = h, !.success = u, !.thrown = v] \in States
BY DEF States

LEMMA ParseCharStays ==
  ASSUME NEW p, NEW c, p.found > 0 \/ p.thrown
  PROVE  ParseChar(p, c) = p
BY DEF ParseChar

\* ParseChar at place k, with the character x there, and its line.
Stepped(p, x, k, line, q) ==
  /\ x = LF =>
       /\ q.b = k + 1 /\ q.oldb = k + 1 /\ q.header = p.header
       /\ q.success = p.success /\ q.found = 0 /\ ~q.thrown
  /\ x = CR /\ line = <<>> =>
       /\ q.oldb = p.oldb /\ q.header = p.header
       /\ q.success = p.success /\ q.found = k + 2 /\ ~q.thrown
  /\ x = CR /\ line # <<>> =>
       /\ q.b = k + 1 /\ q.oldb = p.oldb /\ q.header = <<>>
       /\ q.success = (p.success \/ IsStatus(line))
       /\ q.found = 0 /\ q.thrown = Throws(line)
  /\ x # CR /\ x # LF =>
       /\ q.b = k + 1 /\ q.oldb = p.oldb /\ q.header = p.header
       /\ q.success = p.success /\ q.found = 0 /\ ~q.thrown

LEMMA ParseCharCases ==
  ASSUME NEW p \in States, NEW c \in Seq(Text), p.found = 0, ~p.thrown,
         p.b \in 1..Len(c), p.oldb \in 1..p.b,
         NEW line, line = p.header \o SubSeq(c, p.oldb, p.b - 1),
         NEW q, q = ParseChar(p, c)
  PROVE  q \in States /\ Stepped(p, c[p.b], p.b, line, q)
<1>1. p.b \in Nat /\ p.oldb \in Nat /\ CR # LF
  BY DEF States, CR, LF
<1>2. IsStatus(line) \in BOOLEAN /\ Throws(line) \in BOOLEAN
  BY DEF IsStatus, Throws
<1>e. <<>> \in Seq(Text)
  BY EmptySeq
<1>n. p.b + 1 \in Nat /\ p.b + 2 \in Nat /\ (p.success \/ IsStatus(line)) \in BOOLEAN
  BY <1>1, <1>2
<1>3. CASE c[p.b] = LF
  <2>1. q = [p EXCEPT !.b = @ + 1, !.oldb = p.b + 1]
    BY <1>1, <1>3 DEF ParseChar
  <2>2. q \in States
    <3>1. [p EXCEPT !.b = p.b + 1, !.oldb = p.b + 1] \in States
      BY <1>n, StatesKept, Zenon
    <3>2. QED
      BY <2>1, <3>1, Zenon
  <2>3. /\ q.b = p.b + 1 /\ q.oldb = p.b + 1 /\ q.header = p.header
        /\ q.success = p.success /\ q.found = 0 /\ ~q.thrown
    BY <1>1, <2>1 DEF States
  <2>4. QED
    BY <1>1, <1>3, <2>2, <2>3, Zenon DEF Stepped
<1>4. CASE c[p.b] = CR /\ line = <<>>
  <2>0. p.header \o SubSeq(c, p.oldb, p.b - 1) = <<>>
    BY <1>4
  <2>1. q = [p EXCEPT !.found = p.b + 2]
    BY <1>1, <1>4, <2>0 DEF ParseChar
  <2>2. q \in States
    BY <1>2, <1>e, <1>n, <2>1, StatesKept, Zenon
  <2>3. /\ q.oldb = p.oldb /\ q.header = p.header
        /\ q.success = p.success /\ q.found = p.b + 2 /\ ~q.thrown
    BY <1>1, <2>1 DEF States
  <2>4. QED
    BY <1>1, <1>4, <2>2, <2>3, Zenon DEF Stepped
<1>5. CASE c[p.b] = CR /\ line # <<>>
  <2>1. q = [p EXCEPT !.b = @ + 1, !.header = <<>>, !.success = @ \/ IsStatus(line),
                      !.thrown = Throws(line)]
    BY <1>1, <1>5 DEF ParseChar
  <2>2. q \in States
    <3>1. [p EXCEPT !.b = p.b + 1, !.header = <<>>,
                    !.success = p.success \/ IsStatus(line),
                    !.thrown = Throws(line)] \in States
      BY <1>2, <1>e, <1>n, StatesKept, Zenon
    <3>2. QED
      BY <2>1, <3>1, Zenon
  <2>3. /\ q.b = p.b + 1 /\ q.oldb = p.oldb /\ q.header = <<>>
        /\ q.success = (p.success \/ IsStatus(line))
        /\ q.found = 0 /\ q.thrown = Throws(line)
    BY <1>1, <2>1 DEF States
  <2>4. QED
    BY <1>1, <1>5, <2>2, <2>3, Zenon DEF Stepped
<1>6. CASE c[p.b] # CR /\ c[p.b] # LF
  <2>1. q = [p EXCEPT !.b = @ + 1]
    BY <1>1, <1>6 DEF ParseChar
  <2>2. q \in States
    BY <1>2, <1>e, <1>n, <2>1, StatesKept, Zenon
  <2>3. /\ q.b = p.b + 1 /\ q.oldb = p.oldb /\ q.header = p.header
        /\ q.success = p.success /\ q.found = 0 /\ ~q.thrown
    BY <1>1, <2>1 DEF States
  <2>4. QED
    BY <1>1, <1>6, <2>2, <2>3, Zenon DEF Stepped
<1>7. QED
  BY <1>3, <1>4, <1>5, <1>6


-----------------------------------------------------------------------------
(***************************************************************************)
(* What holds after k characters of a chunk c, however it was cut.         *)
(***************************************************************************)
Found(p, c, k) ==
  /\ ~p.thrown /\ p.found \in 3..(k + 2) /\ c[p.found - 2] = CR
  /\ p.found = 3 => header = <<>>
  /\ p.found > 3 => c[p.found - 3] = LF

Parsed(p, c, k) ==
  /\ p \in States
  /\ p.found = 0 /\ ~p.thrown => p.b = k + 1
  /\ p.oldb \in 1..(k + 1) /\ (p.oldb > 1 => c[p.oldb - 1] = LF)
  /\ p.header \in {header, <<>>} /\ (k = 0 => p.header = header)
  /\ p.found > 0 => Found(p, c, k)
  /\ p.success => \/ success
                  \/ \E i \in 1..Len(header) : header[i] = "200 OK"
                  \/ \E i \in 1..k : c[i] = "200 OK"

LEMMA StatesFacts ==
  ASSUME NEW p \in States
  PROVE  /\ p.b \in Nat /\ p.oldb \in Nat /\ p.header \in Seq(Text)
         /\ p.success \in BOOLEAN /\ p.found \in Nat /\ p.thrown \in BOOLEAN
BY DEF States

LEMMA ParsedFirst ==
  ASSUME header \in Seq(Text), success \in BOOLEAN, NEW c
  PROVE  Parsed(Start, c, 0)
<1>1. Start \in States
  BY DEF Start, States
<1>2. /\ Start.b = 1 /\ Start.oldb = 1 /\ Start.header = header
      /\ Start.found = 0
  BY DEF Start
<1>3. Start.success = success
  BY DEF Start
<1>4. /\ 1 = 0 + 1 /\ 1 \in 1..(0 + 1) /\ ~(1 > 1) /\ ~(0 > 0)
  OBVIOUS
<1>5. /\ Start.b = 0 + 1 /\ Start.oldb \in 1..(0 + 1) /\ ~(Start.oldb > 1)
      /\ ~(Start.found > 0) /\ Start.header \in {header, <<>>}
  BY <1>2, <1>4
<1>6. QED
  BY <1>1, <1>2, <1>3, <1>5, Zenon DEF Parsed

\* The line that ends at a place of the chunk, and the status in it.
Ended(p, c, k, line) ==
  /\ line \in Seq(Text)
  /\ line = <<>> <=> p.header = <<>> /\ p.oldb = k
  /\ IsStatus(line) => \/ \E i \in 1..Len(header) : header[i] = "200 OK"
                       \/ \E i \in 1..k : c[i] = "200 OK"

LEMMA LineOf ==
  ASSUME header \in Seq(Text), NEW c \in Seq(Text), NEW p \in States,
         NEW k \in Nat, k <= Len(c), p.oldb \in 1..k, p.header \in {header, <<>>},
         NEW line, line = p.header \o SubSeq(c, p.oldb, k - 1)
  PROVE  Ended(p, c, k, line)
<1>1. PICK h \in Seq(Text), o \in Nat, m \in Nat :
        h = p.header /\ o = p.oldb /\ m = k - 1
  <2>1. k - 1 \in Nat
    OBVIOUS
  <2>2. QED
    BY <2>1, StatesFacts
<1>2. o > 0 /\ o <= m + 1 /\ k = m + 1 /\ m <= Len(c)
  <2>1. Len(c) \in Nat /\ o \in 1..k
    BY <1>1, LenProperties
  <2>2. QED
    BY <1>1, <2>1
<1>3. line = h \o SubSeq(c, o, m)
  BY <1>1
<1>l. PICK l \in Nat : l = Len(h)
  BY LenProperties
<1>4. /\ line \in Seq(Text)
      /\ Len(line) = l + (m + 1 - o)
      /\ \A i \in 1..(l + (m + 1 - o)) :
           line[i] = IF i <= l THEN h[i] ELSE c[o + (i - l) - 1]
      /\ line = <<>> <=> h = <<>> /\ o = m + 1
  <2>1. Joined(h, c, o, m, h \o SubSeq(c, o, m))
    BY <1>2, LineFacts
  <2>2. Joined(h, c, o, m, line)
    BY <1>3, <2>1
  <2>3. QED
    BY <1>l, <2>2 DEF Joined
<1>5. ASSUME IsStatus(line)
      PROVE  \/ \E i \in 1..Len(header) : header[i] = "200 OK"
             \/ \E i \in 1..k : c[i] = "200 OK"
  <2>1. PICK i \in 1..Len(line) : line[i] = "200 OK"
    BY <1>4, <1>5, StatusFacts
  <2>2. i \in 1..(l + (m + 1 - o))
    BY <1>4, <2>1
  <2>3. "200 OK" = IF i <= l THEN h[i] ELSE c[o + (i - l) - 1]
    BY <1>4, <2>1, <2>2
  <2>4. CASE i <= l
    <3>1. h[i] = "200 OK"
      BY <2>3, <2>4
    <3>2. i \in 1..l /\ l # 0
      BY <1>2, <2>2, <2>4
    <3>3. h # <<>>
      BY <1>l, <3>2, EmptySeq
    <3>4. h = header
      BY <1>1, <3>3
    <3>5. QED
      BY <1>l, <3>1, <3>2, <3>4
  <2>5. CASE ~(i <= l)
    <3>1. o + (i - l) - 1 \in 1..k
      BY <1>2, <2>2, <2>5
    <3>2. c[o + (i - l) - 1] = "200 OK"
      BY <2>3, <2>5
    <3>3. QED
      BY <3>1, <3>2
  <2>6. QED
    BY <2>4, <2>5
<1>6. line = <<>> <=> p.header = <<>> /\ p.oldb = k
  BY <1>1, <1>2, <1>4
<1>7. QED
  BY <1>4, <1>5, <1>6, Zenon DEF Ended

LEMMA ParsedNext ==
  ASSUME header \in Seq(Text), NEW c \in Seq(Text),
         NEW j \in Nat, NEW k \in Nat, k = j + 1, k <= Len(c),
         NEW p, Parsed(p, c, j)
  PROVE  Parsed(ParseChar(p, c), c, k)
<1> DEFINE Early == \/ success
                    \/ \E i \in 1..Len(header) : header[i] = "200 OK"
           Seen(m) == \E i \in 1..m : c[i] = "200 OK"
<1>0. k > 0 /\ k \in 1..Len(c) /\ Len(c) \in Nat /\ (k = 1 <=> j = 0)
  BY LenProperties
<1>1. p \in States /\ (p.found = 0 /\ ~p.thrown => p.b = k)
  BY Zenon DEF Parsed
<1>s. p \in States
  BY <1>1
<1>2. p.oldb \in 1..k /\ (p.oldb > 1 => c[p.oldb - 1] = LF)
  BY Zenon DEF Parsed
<1>3. p.header \in {header, <<>>} /\ (j = 0 => p.header = header)
  BY Zenon DEF Parsed
<1>4. p.found > 0 => Found(p, c, j)
  BY Zenon DEF Parsed
<1>5. p.success => Early \/ Seen(j)
  BY Zenon DEF Parsed
<1>6. Seen(j) => Seen(k)
  <2>1. \A i \in 1..j : i \in 1..k
    OBVIOUS
  <2>2. QED
    BY <2>1
<1>7. /\ p.b \in Nat /\ p.oldb \in Nat /\ p.header \in Seq(Text)
      /\ p.found \in Nat /\ p.thrown \in BOOLEAN
  BY <1>1, StatesFacts
<1> HIDE DEF Early, Seen
<1>8. CASE p.found > 0 \/ p.thrown
  <2>1. ParseChar(p, c) = p
    BY <1>8, ParseCharStays
  <2>2. p.found > 0 => Found(p, c, k)
    <3>1. p.found \in 3..(j + 2) => p.found \in 3..(k + 2)
      BY <1>7
    <3>2. QED
      BY <1>4, <3>1, Zenon DEF Found
  <2>3. p.oldb \in 1..(k + 1)
    BY <1>2
  <2>4. ~(p.found = 0 /\ ~p.thrown)
    <3>1. p.found > 0 => p.found # 0
      BY <1>7
    <3>2. QED
      BY <1>8, <3>1
  <2>5. k # 0
    BY <1>0
  <2>6. Parsed(p, c, k)
    BY <1>1, <1>2, <1>3, <1>5, <1>6, <2>2, <2>3, <2>4, <2>5, Zenon
    DEF Parsed, Early, Seen
  <2>7. QED
    BY <2>1, <2>6
<1>9. CASE ~(p.found > 0 \/ p.thrown)
  <2>1. p.found = 0 /\ ~p.thrown /\ p.b = k
    <3>1. ~(p.found > 0) => p.found = 0
      BY <1>7
    <3>2. QED
      BY <1>1, <1>9, <3>1
  <2>2. PICK line : line = p.header \o SubSeq(c, p.oldb, k - 1)
    OBVIOUS
  <2>3. PICK q : q = ParseChar(p, c)
    OBVIOUS
  <2>4. q \in States /\ Stepped(p, c[k], k, line, q)
    <3>1. /\ p.b \in 1..Len(c) /\ p.oldb \in 1..p.b
          /\ line = p.header \o SubSeq(c, p.oldb, p.b - 1)
      BY <1>0, <1>2, <2>1, <2>2
    <3>2. q \in States /\ Stepped(p, c[p.b], p.b, line, q)
      BY <1>s, <2>1, <2>3, <3>1, ParseCharCases
    <3>3. QED
      BY <2>1, <3>2
  <2>5. /\ line = <<>> <=> p.header = <<>> /\ p.oldb = k
        /\ IsStatus(line) => \/ \E i \in 1..Len(header) : header[i] = "200 OK"
                             \/ \E i \in 1..k : c[i] = "200 OK"
    <3>1. p.oldb \in 1..k /\ p.header \in {header, <<>>}
      BY <1>2, <1>3
    <3>2. Ended(p, c, k, line)
      BY <1>s, <2>2, <3>1, LineOf
    <3>3. QED
      BY <3>2, Zenon DEF Ended
  <2>6. q.success => Early \/ Seen(k)
    <3>1. q.success = p.success \/ q.success = (p.success \/ IsStatus(line))
      BY <2>4, Zenon DEF Stepped
    <3>2. QED
      BY <1>5, <1>6, <2>5, <3>1, Zenon DEF Early, Seen
  <2>7. q.header \in {header, <<>>} /\ k # 0
    <3>1. q.header = p.header \/ q.header = <<>>
      BY <2>4, Zenon DEF Stepped
    <3>2. QED
      BY <1>0, <1>3, <3>1
  <2>8. q.oldb \in 1..(k + 1) /\ (q.oldb > 1 => c[q.oldb - 1] = LF)
    <3>1. q.oldb = p.oldb \/ (q.oldb = k + 1 /\ c[k] = LF)
      BY <2>4, Zenon DEF Stepped
    <3>2. p.oldb \in 1..(k + 1) /\ k + 1 \in 1..(k + 1) /\ (k + 1) - 1 = k
      BY <1>0, <1>2
    <3>3. QED
      BY <1>2, <3>1, <3>2, Zenon
  <2>9. q.found = 0 \/ (q.found = k + 2 /\ ~q.thrown /\ c[k] = CR /\ line = <<>>)
    BY <2>4, Zenon DEF Stepped
  <2>10. q.found > 0 => Found(q, c, k)
    <3> SUFFICES ASSUME q.found > 0 PROVE Found(q, c, k)
      OBVIOUS
    <3>1. q.found = k + 2 /\ ~q.thrown /\ c[k] = CR /\ p.header = <<>> /\ p.oldb = k
      <4>1. ~(0 > 0)
        OBVIOUS
      <4>2. QED
        BY <2>5, <2>9, <4>1, Zenon
    <3>2. q.found - 2 = k /\ q.found \in 3..(k + 2)
      BY <1>0, <3>1
    <3>3. q.found = 3 => header = <<>>
      <4>1. q.found = 3 => j = 0
        BY <3>1
      <4>2. QED
        BY <1>3, <3>1, <4>1, Zenon
    <3>4. q.found > 3 => c[q.found - 3] = LF
      <4>1. q.found > 3 => p.oldb > 1 /\ q.found - 3 = p.oldb - 1
        BY <1>0, <3>1
      <4>2. QED
        BY <1>2, <4>1, Zenon
    <3>5. QED
      BY <3>1, <3>2, <3>3, <3>4, Zenon DEF Found
  <2>11. q.found = 0 => q.b = k + 1
    <3>1. k + 2 # 0
      OBVIOUS
    <3>2. QED
      BY <2>4, <3>1, Zenon DEF Stepped
  <2>12. Parsed(q, c, k)
    BY <2>4, <2>6, <2>7, <2>8, <2>10, <2>11, Zenon DEF Parsed, Early, Seen
  <2>13. QED
    BY <2>3, <2>12
<1>10. QED
  BY <1>8, <1>9

\* And so it holds when the loop ends.
LEMMA LoopParsed ==
  ASSUME header \in Seq(Text), success \in BOOLEAN, NEW c \in Seq(Text)
  PROVE  Parsed(Loop(c)[Len(c)], c, Len(c))
<1>1. Len(c) \in Nat
  BY LenProperties
<1>2. /\ Loop(c)[0] = Start
      /\ \A k \in 1..Len(c) : Loop(c)[k] = ParseChar(Loop(c)[k - 1], c)
  BY <1>1, LoopSteps
<1> DEFINE T == {k \in 0..Len(c) : Parsed(Loop(c)[k], c, k)}
<1>3. 0 \in T
  BY <1>1, <1>2, ParsedFirst
<1>4. ASSUME NEW k \in 0..Len(c), k > 0, k - 1 \in T
      PROVE  k \in T
  <2>1. k \in 1..Len(c)
    BY <1>1, <1>4
  <2>2. Parsed(Loop(c)[k - 1], c, k - 1)
    BY <1>4
  <2>3. PICK p : p = Loop(c)[k - 1]
    OBVIOUS
  <2>4. Parsed(ParseChar(p, c), c, k)
    <3>1. PICK j \in Nat : j = k - 1
      BY <2>1
    <3>2. k \in Nat /\ k = j + 1 /\ k <= Len(c) /\ Parsed(p, c, j)
      BY <1>1, <2>1, <2>2, <2>3, <3>1
    <3>3. QED
      BY <3>2, ParsedNext
  <2>5. Parsed(Loop(c)[k], c, k)
    BY <1>2, <2>1, <2>3, <2>4
  <2>6. QED
    BY <2>5
<1>5. Len(c) \in 0..Len(c)
  BY <1>1
<1> HIDE DEF T
<1>6. Len(c) \in T
  BY <1>1, <1>3, <1>4, <1>5, UpTo
<1>7. QED
  BY <1>6 DEF T

-----------------------------------------------------------------------------
(***************************************************************************)
(* Lines of the response.                                                  *)
(***************************************************************************)
LEMMA StatusKept ==
  ASSUME NEW r \in Nat
  PROVE  response[r + 1] # "200 OK" => (Status(r + 1) <=> Status(r))
<1>1. \A i \in 1..(r + 1) : i \in 1..r \/ i = r + 1
  OBVIOUS
<1>2. \A i \in 1..r : i \in 1..(r + 1)
  OBVIOUS
<1>3. QED
  BY <1>1, <1>2 DEF Status

LEMMA StatusSplit ==
  ASSUME NEW s \in Nat, NEW r \in Nat, s > 0, s <= r + 1
  PROVE  Status(r) <=> Status(s - 1) \/ \E i \in s..r : response[i] = "200 OK"
<1>1. \A i \in 1..r : i \in 1..(s - 1) \/ i \in s..r
  OBVIOUS
<1>2. (\A i \in 1..(s - 1) : i \in 1..r) /\ \A i \in s..r : i \in 1..r
  OBVIOUS
<1>3. QED
  BY <1>1, <1>2 DEF Status

\* The status of a line.
LEMMA LineStatus ==
  ASSUME response \in Seq(Text), NEW s \in Nat, NEW r \in Nat,
         s > 0, s <= r + 1, r <= Len(response)
  PROVE  /\ SubSeq(response, s, r) \in Seq(Text)
         /\ SubSeq(response, s, r) = <<>> <=> s = r + 1
         /\ IsStatus(SubSeq(response, s, r)) <=>
              \E i \in s..r : response[i] = "200 OK"
<1>0. s \in Nat \ {0} /\ r \in 0..Len(response)
  BY LenProperties
<1>1. PICK line \in Seq(Text) : line = SubSeq(response, s, r)
  BY <1>0, PartFacts
<1>2. /\ Len(line) = IF s <= r THEN r - s + 1 ELSE 0
      /\ \A i \in 1..(r - s + 1) : line[i] = response[s + i - 1]
  BY <1>0, <1>1, PartFacts
<1>3. Len(line) = r - s + 1
  BY <1>2
<1>4. line = <<>> <=> s = r + 1
  <2>1. line = <<>> <=> Len(line) = 0
    BY EmptySeq
  <2>2. QED
    BY <1>3, <2>1
<1>5. IsStatus(line) <=> \E i \in 1..Len(line) : line[i] = "200 OK"
  BY StatusFacts
<1>6. ASSUME NEW i \in 1..Len(line), line[i] = "200 OK"
      PROVE  \E k \in s..r : response[k] = "200 OK"
  <2>1. s + i - 1 \in s..r /\ i \in 1..(r - s + 1)
    BY <1>3
  <2>2. response[s + i - 1] = "200 OK"
    BY <1>2, <1>6, <2>1
  <2>3. QED
    BY <2>1, <2>2
<1>7. ASSUME NEW k \in s..r, response[k] = "200 OK"
      PROVE  \E i \in 1..Len(line) : line[i] = "200 OK"
  <2>1. PICK i \in 1..(r - s + 1) : i = k - s + 1
    OBVIOUS
  <2>2. s + i - 1 = k /\ i \in 1..Len(line)
    BY <1>3, <2>1
  <2>3. line[i] = response[k]
    BY <1>2, <2>1, <2>2
  <2>4. QED
    BY <1>7, <2>2, <2>3
<1>8. QED
  BY <1>1, <1>4, <1>5, <1>6, <1>7

LEMMA TextAssociative ==
  \A a, b, d \in Seq(Text) : (a \o b) \o d = a \o (b \o d)
BY ConcatAssociative

\* h, and the chunk from o to j, is the response from s to r.
Grown(h, c, o, j, s, r) == h \o SubSeq(c, o, j) = SubSeq(response, s, r)

\* A line that goes on.
LEMMA LineGrows ==
  ASSUME response \in Seq(Text), NEW h \in Seq(Text), NEW c \in Seq(Text),
         NEW o \in Nat, NEW j \in Nat, o > 0, o <= j + 1, j + 1 <= Len(c),
         NEW s \in Nat, NEW r \in Nat, s > 0, s <= r + 1, r + 1 <= Len(response),
         c[j + 1] = response[r + 1],
         Grown(h, c, o, j, s, r)
  PROVE  Grown(h, c, o, j + 1, s, r + 1)
<1>0. Len(c) \in Nat /\ Len(response) \in Nat
  BY LenProperties
<1>1. SubSeq(c, o, j + 1) = SubSeq(c, o, j) \o <<c[j + 1]>>
  <2>1. o \in 1..Len(c) /\ j + 1 \in o..Len(c) /\ (j + 1) - 1 = j
    BY <1>0
  <2>2. SubSeq(c, o, j + 1) = SubSeq(c, o, (j + 1) - 1) \o <<c[j + 1]>>
    BY <2>1, SubSeqRecursiveSecond
  <2>3. QED
    BY <2>1, <2>2
<1>2. SubSeq(response, s, r + 1) = SubSeq(response, s, r) \o <<response[r + 1]>>
  <2>1. s \in 1..Len(response) /\ r + 1 \in s..Len(response) /\ (r + 1) - 1 = r
    BY <1>0
  <2>2. SubSeq(response, s, r + 1) =
          SubSeq(response, s, (r + 1) - 1) \o <<response[r + 1]>>
    BY <2>1, SubSeqRecursiveSecond
  <2>3. QED
    BY <2>1, <2>2
<1>3. PICK t \in Seq(Text) : t = SubSeq(c, o, j)
  <2>1. \A i \in o..j : c[i] \in Text
    <3>1. \A i \in o..j : i \in 1..Len(c)
      BY <1>0
    <3>2. QED
      BY <3>1, ElementOfSeq
  <2>2. o \in Int /\ j \in Int
    OBVIOUS
  <2>3. SubSeq(c, o, j) \in Seq(Text)
    BY <2>1, <2>2, SubSeqProperties
  <2>4. QED
    BY <2>3
<1>4. PICK u \in Seq(Text) : u = <<c[j + 1]>>
  <2>1. j + 1 \in 1..Len(c)
    BY <1>0
  <2>2. c[j + 1] \in Text
    BY <2>1, ElementOfSeq
  <2>3. <<c[j + 1]>> \in Seq(Text)
    BY <2>2
  <2>4. QED
    BY <2>3, Zenon
<1>5. (h \o t) \o u = h \o (t \o u)
  BY TextAssociative, Zenon
<1>6. t \in Seq(Text) /\ h \o t = SubSeq(response, s, r)
  BY <1>3 DEF Grown
<1>7. h \o SubSeq(c, o, j + 1) = SubSeq(response, s, r + 1)
  BY <1>1, <1>2, <1>3, <1>4, <1>5, <1>6
<1>8. QED
  BY <1>7 DEF Grown

\* A line of the head does not end with LF alone; it goes on with any other
\* piece than CR, and is not empty if CR comes.
LEMMA LineGoesOn ==
  ASSUME Shape, response \in Seq(Text), NEW s \in Nat, NEW r \in Nat,
         r < H, LineFrom(s, r)
  PROVE  /\ response[r + 1] # LF
         /\ response[r + 1] = CR => s <= r
         /\ response[r + 1] # CR => LineFrom(s, r + 1)
<1>0. H \in Nat /\ r + 1 \in 1..H /\ s > 0 /\ s <= r + 1 /\ CR # LF
  BY DEF Shape, LineFrom, CR, LF
<1>1. /\ s = 1 \/ response[s - 1] = LF
      /\ \A j \in s..r : response[j] # CR /\ response[j] # LF
  BY DEF LineFrom
<1>2. /\ response[r + 1] = CR => r + 1 > 1 /\ response[(r + 1) - 1] # LF
      /\ response[r + 1] = LF => r + 1 > 1 /\ response[(r + 1) - 1] = CR
  BY <1>0 DEF Shape
<1>3. (r + 1) - 1 = r /\ (s <= r \/ s = r + 1)
  BY <1>0
<1>4. s = r + 1 => r = 0 \/ response[r] = LF
  BY <1>0, <1>1
<1>5. response[r + 1] # LF
  <2> SUFFICES ASSUME response[r + 1] = LF PROVE FALSE
    OBVIOUS
  <2>1. r > 0 /\ response[r] = CR
    BY <1>2, <1>3
  <2>2. CASE s <= r
    <3>1. r \in s..r
      BY <2>2
    <3>2. QED
      BY <1>1, <2>1, <3>1
  <2>3. QED
    BY <1>0, <1>3, <1>4, <2>1, <2>2
<1>6. response[r + 1] = CR => s <= r
  <2>1. response[r + 1] = CR => r # 0 /\ response[r] # LF
    BY <1>2, <1>3
  <2>2. QED
    BY <1>3, <1>4, <2>1
<1>7. ASSUME response[r + 1] # CR
      PROVE  LineFrom(s, r + 1)
  <2>1. \A j \in s..(r + 1) : j \in s..r \/ j = r + 1
    BY <1>0
  <2>2. \A j \in s..(r + 1) : response[j] # CR /\ response[j] # LF
    BY <1>1, <1>5, <1>7, <2>1
  <2>3. s \in 1..((r + 1) + 1)
    BY <1>0
  <2>4. QED
    BY <1>1, <2>2, <2>3 DEF LineFrom
<1>8. QED
  BY <1>5, <1>6, <1>7

\* The line before the empty one is whole.
LEMMA LineEndsHead ==
  ASSUME Shape, NEW s \in Nat, LineFrom(s, H)
  PROVE  s = H + 1
<1>1. H \in Nat /\ s > 0 /\ s <= H + 1
  BY DEF Shape, LineFrom
<1>2. CASE s <= H
  <2>1. H \in s..H /\ H > 0
    BY <1>1, <1>2
  <2>2. response[H] # LF
    BY <2>1 DEF LineFrom
  <2>3. QED
    BY <2>1, <2>2 DEF Shape
<1>3. QED
  BY <1>1, <1>2

\* No line of a head throws.
LEMMA NoLineThrows ==
  ASSUME Shape, response \in Seq(Text), NEW s \in Nat, NEW r \in Nat,
         r < H, LineFrom(s, r), response[r + 1] = CR
  PROVE  ~Throws(SubSeq(response, s, r))
<1>0. /\ H \in Nat /\ s > 0 /\ s <= r /\ s \in 1..H /\ r + 1 \in 1..H
      /\ Len(response) \in Nat /\ H < Len(response)
  <2>0. s <= r
    BY LineGoesOn
  <2>1. s > 0 /\ s <= r
    BY <2>0 DEF LineFrom
  <2>2. H \in Nat /\ Len(response) = H + 2 + Len(body) /\ Len(body) \in Nat
    BY DEF Shape
  <2>3. QED
    BY <2>1, <2>2
<1>1. SUFFICES ASSUME Len(SubSeq(response, s, r)) > 1,
                      SubSeq(response, s, r)[1] = "Content-Length"
               PROVE  Tail(SubSeq(response, s, r)) = <<"number">>
  BY DEF Throws
<1>2. s \in Nat \ {0} /\ r \in 0..Len(response)
  BY <1>0
<1>3. /\ Len(SubSeq(response, s, r)) = IF s <= r THEN r - s + 1 ELSE 0
      /\ \A i \in 1..(r - s + 1) : SubSeq(response, s, r)[i] = response[s + i - 1]
  BY <1>2, PartFacts
<1>4. r > s
  BY <1>0, <1>1, <1>3
<1>5. response[s] = "Content-Length"
  <2>1. 1 \in 1..(r - s + 1) /\ s + 1 - 1 = s
    BY <1>0, <1>4
  <2>2. SubSeq(response, s, r)[1] = response[s + 1 - 1]
    BY <1>3, <2>1
  <2>3. QED
    BY <1>1, <2>1, <2>2
<1>6. s = 1 \/ response[s - 1] = LF
  BY DEF LineFrom
<1>7. response[s + 1] = "number" /\ response[s + 2] = CR
  BY <1>0, <1>5, <1>6 DEF Shape
<1>8. s + 2 \notin s..r
  BY <1>7 DEF LineFrom
<1>9. r = s + 1
  BY <1>0, <1>4, <1>8
<1>10. PICK t : t = SubSeq(response, s, s + 1)
  OBVIOUS
<1>11. Tail(t) = SubSeq(response, s + 1, s + 1)
  <2>1. s \in 1..Len(response) /\ s + 1 \in s..Len(response)
    BY <1>0, <1>9
  <2>2. QED
    BY <1>10, <2>1, HeadTailOfSubSeq
<1>12. SubSeq(response, s + 1, s + 1) =
         SubSeq(response, s + 1, s) \o <<response[s + 1]>>
  <2>1. s + 1 \in 1..Len(response) /\ s + 1 \in (s + 1)..Len(response) /\ (s + 1) - 1 = s
    BY <1>0, <1>9
  <2>2. SubSeq(response, s + 1, s + 1) =
          SubSeq(response, s + 1, (s + 1) - 1) \o <<response[s + 1]>>
    BY <2>1, SubSeqRecursiveSecond
  <2>3. QED
    BY <2>1, <2>2
<1>13. SubSeq(response, s + 1, s) = <<>>
  <2>1. s + 1 \in Int /\ s \in Int /\ s < s + 1
    OBVIOUS
  <2>2. QED
    BY <2>1, SubSeqEmpty
<1>14. <<"number">> \in Seq({"number"})
  OBVIOUS
<1>15. <<>> \o <<"number">> = <<"number">>
  BY <1>14, ConcatEmptySeq
<1>16. QED
  BY <1>7, <1>9, <1>10, <1>11, <1>12, <1>13, <1>15

\* After the CR of a line of the head a new line begins behind the LF.
LEMMA LineBegins ==
  ASSUME Shape, NEW r \in Nat, r > 0, r <= H, response[r] = CR
  PROVE  r < H /\ response[r + 1] = LF /\ LineFrom(r + 2, r + 1)
<1>1. H \in Nat /\ r \in 1..H
  BY DEF Shape
<1>2. r < H /\ response[r + 1] = LF
  BY <1>1 DEF Shape
<1>3. (r + 2) - 1 = r + 1 /\ r + 2 \in 1..((r + 1) + 1) /\ (r + 2)..(r + 1) = {}
  OBVIOUS
<1>4. QED
  BY <1>2, <1>3 DEF LineFrom

-----------------------------------------------------------------------------
(***************************************************************************)
(* The loop, for a chunk that is not preceded by a cut between CR and LF.  *)
(* r is how much of the response has been read after k characters.         *)
(***************************************************************************)
Arrived(c) ==
  /\ c \in Seq(Text) /\ Len(c) \in Nat /\ received + Len(c) <= Len(response)
  /\ \A i \in 1..Len(c) : c[i] = response[received + i]

AfterCR(p, c, k, r) ==
  k > 0 /\ c[k] = CR /\ p.header = <<>> /\ (p.success <=> Status(r - 1))

InLine(p, c, k, r) ==
  \E s \in Nat : /\ LineFrom(s, r)
                 /\ p.header \o SubSeq(c, p.oldb, k) = SubSeq(response, s, r)
                 /\ p.success <=> Status(s - 1)

Precise(p, c, k, r) ==
  /\ p \in States /\ ~p.thrown
  /\ p.found = 0 => /\ p.b = k + 1 /\ p.oldb \in 1..(k + 1) /\ r <= H
                    /\ AfterCR(p, c, k, r) \/ InLine(p, c, k, r)
  /\ p.found # 0 => /\ received + p.found = H + 3 /\ p.found <= k + 2
                    /\ p.success <=> Status(H)

\* After the CR of a line.
LEMMA PreciseAfterCR ==
  ASSUME Shape, response \in Seq(Text), received \in Nat, NEW c, Arrived(c),
         NEW j \in Nat, NEW k \in Nat, NEW r \in Nat,
         k = j + 1, k <= Len(c), r = received + j, r <= H,
         NEW p, NEW q \in States, NEW line,
         AfterCR(p, c, j, r), Stepped(p, c[k], k, line, q)
  PROVE  Precise(q, c, k, r + 1)
<1>1. j > 0 /\ c[j] = CR /\ p.header = <<>> /\ (p.success <=> Status(r - 1))
  BY Zenon DEF AfterCR
<1>2. r > 0 /\ response[r] = CR /\ response[r + 1] = c[k]
  <2>1. j \in 1..Len(c) /\ k \in 1..Len(c) /\ received + k = r + 1
    BY <1>1 DEF Arrived
  <2>2. QED
    BY <1>1, <2>1 DEF Arrived
<1>3. r < H /\ response[r + 1] = LF /\ LineFrom(r + 2, r + 1)
  BY <1>2, LineBegins
<1>4. /\ q.b = k + 1 /\ q.oldb = k + 1 /\ q.header = p.header
      /\ q.success = p.success /\ q.found = 0 /\ ~q.thrown
  BY <1>2, <1>3, Zenon DEF Stepped
<1>5. Status(r - 1) <=> Status(r + 1)
  <2>1. r - 1 \in Nat /\ (r - 1) + 1 = r
    BY <1>2
  <2>2. CR # "200 OK" /\ LF # "200 OK"
    BY DEF CR, LF
  <2>3. Status((r - 1) + 1) <=> Status(r - 1)
    BY <1>2, <2>1, <2>2, StatusKept
  <2>4. Status(r + 1) <=> Status(r)
    BY <1>3, <2>2, StatusKept
  <2>5. QED
    BY <2>1, <2>3, <2>4
<1>6. q.header \o SubSeq(c, q.oldb, k) = SubSeq(response, r + 2, r + 1)
  <2>1. SubSeq(c, k + 1, k) = <<>>
    <3>1. k + 1 \in Int /\ k \in Int /\ k < k + 1
      OBVIOUS
    <3>2. QED
      BY <3>1, SubSeqEmpty
  <2>2. SubSeq(response, r + 2, r + 1) = <<>>
    <3>1. r + 2 \in Int /\ r + 1 \in Int /\ r + 1 < r + 2
      OBVIOUS
    <3>2. QED
      BY <3>1, SubSeqEmpty
  <2>3. <<>> \o <<>> = <<>>
    <3>1. <<>> \in Seq(Text)
      OBVIOUS
    <3>2. QED
      BY <3>1, ConcatEmptySeq
  <2>4. QED
    BY <1>1, <1>4, <2>1, <2>2, <2>3
<1>7. InLine(q, c, k, r + 1)
  <2>1. r + 2 \in Nat /\ (r + 2) - 1 = r + 1
    OBVIOUS
  <2>2. q.success <=> Status((r + 2) - 1)
    BY <1>1, <1>4, <1>5, <2>1
  <2>3. QED
    BY <1>3, <1>6, <2>1, <2>2 DEF InLine
<1>8. q.oldb \in 1..(k + 1) /\ r + 1 <= H
  <2>1. k + 1 \in 1..(k + 1) /\ H \in Nat
    BY DEF Shape
  <2>2. QED
    BY <1>3, <1>4, <2>1
<1>9. QED
  BY <1>4, <1>7, <1>8, Zenon DEF Precise

\* In a line.
LEMMA PreciseInLine ==
  ASSUME Shape, response \in Seq(Text), received \in Nat, NEW c, Arrived(c),
         NEW j \in Nat, NEW k \in Nat, NEW r \in Nat,
         k = j + 1, k <= Len(c), r = received + j, r <= H,
         NEW p \in States, NEW q \in States, p.oldb \in 1..k, ~p.thrown,
         InLine(p, c, j, r),
         Stepped(p, c[k], k, p.header \o SubSeq(c, p.oldb, k - 1), q)
  PROVE  Precise(q, c, k, r + 1)
<1>0. /\ H \in Nat /\ Len(response) \in Nat /\ H + 2 <= Len(response)
      /\ response[H + 1] = CR /\ CR # LF /\ k - 1 = j
  BY DEF Shape, CR, LF
<1>1. PICK s \in Nat : /\ LineFrom(s, r)
                       /\ p.header \o SubSeq(c, p.oldb, j) = SubSeq(response, s, r)
                       /\ p.success <=> Status(s - 1)
  BY Zenon DEF InLine
<1> DEFINE line == SubSeq(response, s, r)
<1>2. Stepped(p, c[k], k, line, q)
  BY <1>0, <1>1
<1>3. s > 0 /\ s <= r + 1
  BY <1>1 DEF LineFrom
<1>4. response[r + 1] = c[k]
  <2>1. k \in 1..Len(c) /\ received + k = r + 1
    BY DEF Arrived
  <2>2. QED
    BY <2>1 DEF Arrived
<1>5. line = <<>> <=> s = r + 1
  <2>1. r <= Len(response)
    BY <1>0
  <2>2. QED
    BY <1>3, <2>1, LineStatus
<1>6. CASE r < H /\ c[k] = CR
  <2>1. response[r + 1] = CR
    BY <1>4, <1>6
  <2>2. s <= r /\ ~Throws(line)
    BY <1>1, <1>6, <2>1, LineGoesOn, NoLineThrows
  <2>3. line # <<>>
    BY <1>3, <1>5, <2>2
  <2> HIDE DEF line
  <2>4. /\ q.b = k + 1 /\ q.oldb = p.oldb /\ q.header = <<>>
        /\ q.success = (p.success \/ IsStatus(line))
        /\ q.found = 0 /\ q.thrown = Throws(line)
    BY <1>2, <1>6, <2>3, Zenon DEF Stepped
  <2>5. Status(r) <=> Status(s - 1) \/ IsStatus(line)
    <3>1. r <= Len(response)
      BY <1>0
    <3>2. IsStatus(line) <=> \E i \in s..r : response[i] = "200 OK"
      BY <1>3, <3>1, LineStatus DEF line
    <3>3. Status(r) <=> Status(s - 1) \/ \E i \in s..r : response[i] = "200 OK"
      BY <1>3, StatusSplit
    <3>4. QED
      BY <3>2, <3>3, Zenon
  <2>6. AfterCR(q, c, k, r + 1)
    <3>1. k > 0 /\ (r + 1) - 1 = r
      OBVIOUS
    <3>2. q.success <=> Status(r)
      BY <1>1, <2>4, <2>5, Zenon
    <3>3. QED
      BY <1>6, <2>4, <3>1, <3>2, Zenon DEF AfterCR
  <2>7. q.oldb \in 1..(k + 1) /\ r + 1 <= H
    <3>1. p.oldb \in 1..(k + 1) /\ r + 1 <= H
      BY <1>0, <1>6
    <3>2. QED
      BY <2>4, <3>1
  <2>8. QED
    BY <2>2, <2>4, <2>6, <2>7, Zenon DEF Precise
<1>7. CASE r < H /\ c[k] # CR
  <2>1. response[r + 1] # LF /\ LineFrom(s, r + 1)
    BY <1>1, <1>4, <1>7, LineGoesOn
  <2> HIDE DEF line
  <2>2. /\ q.b = k + 1 /\ q.oldb = p.oldb /\ q.header = p.header
        /\ q.success = p.success /\ q.found = 0 /\ ~q.thrown
    BY <1>2, <1>4, <1>7, <2>1, Zenon DEF Stepped
  <2>3. p.header \o SubSeq(c, p.oldb, k) = SubSeq(response, s, r + 1)
    <3>1. PICK o \in Nat, h \in Seq(Text) : o = p.oldb /\ h = p.header
      BY StatesFacts
    <3>2. o > 0 /\ o <= j + 1 /\ j + 1 <= Len(c) /\ r + 1 <= Len(response)
          /\ c[j + 1] = response[r + 1]
      BY <1>0, <1>4, <1>7, <3>1
    <3>3. c \in Seq(Text) /\ h \o SubSeq(c, o, j) = SubSeq(response, s, r)
      BY <1>1, <3>1 DEF Arrived
    <3>4. h \o SubSeq(c, o, j + 1) = SubSeq(response, s, r + 1)
      <4>1. Grown(h, c, o, j, s, r)
        BY <3>3, Zenon DEF Grown
      <4>2. Grown(h, c, o, j + 1, s, r + 1)
        BY <1>3, <3>2, <3>3, <4>1, LineGrows
      <4>3. QED
        BY <4>2, Zenon DEF Grown
    <3>5. QED
      BY <3>1, <3>4
  <2>4. InLine(q, c, k, r + 1)
    <3>1. q.header \o SubSeq(c, q.oldb, k) = SubSeq(response, s, r + 1)
      BY <2>2, <2>3
    <3>2. q.success <=> Status(s - 1)
      BY <1>1, <2>2
    <3>3. QED
      BY <2>1, <3>1, <3>2 DEF InLine
  <2>5. q.oldb \in 1..(k + 1) /\ r + 1 <= H
    <3>1. p.oldb \in 1..(k + 1) /\ r + 1 <= H
      BY <1>0, <1>7
    <3>2. QED
      BY <2>2, <3>1
  <2>6. QED
    BY <2>2, <2>4, <2>5, Zenon DEF Precise
<1>8. CASE r = H
  <2>1. s = H + 1 /\ c[k] = CR
    BY <1>0, <1>1, <1>4, <1>8, LineEndsHead
  <2>2. line = <<>>
    BY <1>5, <1>8, <2>1
  <2> HIDE DEF line
  <2>3. q.success = p.success /\ q.found = k + 2 /\ ~q.thrown
    BY <1>2, <2>1, <2>2, Zenon DEF Stepped
  <2>4. received + q.found = H + 3 /\ q.found <= k + 2 /\ q.found # 0
    BY <1>8, <2>3
  <2>5. s - 1 = H
    BY <1>0, <2>1
  <2>6. q.success <=> Status(H)
    BY <1>1, <2>3, <2>5
  <2>7. QED
    BY <2>3, <2>4, <2>6, Zenon DEF Precise
<1>9. QED
  BY <1>0, <1>6, <1>7, <1>8

LEMMA PreciseNext ==
  ASSUME Shape, response \in Seq(Text), received \in Nat, NEW c, Arrived(c),
         NEW j \in Nat, NEW k \in Nat, NEW r \in Nat,
         k = j + 1, k <= Len(c), r = received + j,
         NEW p, Precise(p, c, j, r)
  PROVE  Precise(ParseChar(p, c), c, k, r + 1)
<1>1. p \in States /\ ~p.thrown
  BY Zenon DEF Precise
<1>2. CASE p.found # 0
  <2>1. p.found > 0
    BY <1>1, <1>2, StatesFacts
  <2>2. ParseChar(p, c) = p
    BY <2>1, ParseCharStays
  <2>3. received + p.found = H + 3 /\ p.found <= j + 2 /\ (p.success <=> Status(H))
    BY <1>2, Zenon DEF Precise
  <2>4. p.found <= k + 2
    <3>1. p.found \in Nat
      BY <1>1, StatesFacts
    <3>2. QED
      BY <2>3, <3>1
  <2>5. Precise(p, c, k, r + 1)
    BY <1>1, <1>2, <2>3, <2>4, Zenon DEF Precise
  <2>6. QED
    BY <2>2, <2>5
<1>3. CASE p.found = 0
  <2>1. /\ p.b = j + 1 /\ p.oldb \in 1..(j + 1) /\ r <= H
        /\ AfterCR(p, c, j, r) \/ InLine(p, c, j, r)
    BY <1>3, Zenon DEF Precise
  <2>2. PICK q : q = ParseChar(p, c)
    OBVIOUS
  <2>3. PICK line : line = p.header \o SubSeq(c, p.oldb, k - 1)
    OBVIOUS
  <2>4. p.b = k /\ p.oldb \in 1..k
    BY <2>1
  <2>5. q \in States /\ Stepped(p, c[k], k, line, q)
    <3>1. p.b \in 1..Len(c) /\ p.oldb \in 1..p.b /\ c \in Seq(Text)
          /\ line = p.header \o SubSeq(c, p.oldb, p.b - 1)
      BY <2>3, <2>4 DEF Arrived
    <3>2. q \in States /\ Stepped(p, c[p.b], p.b, line, q)
      BY <1>1, <1>3, <2>2, <3>1, ParseCharCases
    <3>3. QED
      BY <2>4, <3>2
  <2>6. CASE AfterCR(p, c, j, r)
    <3>1. Precise(q, c, k, r + 1)
      BY <2>1, <2>5, <2>6, PreciseAfterCR
    <3>2. QED
      BY <2>2, <3>1
  <2>7. CASE InLine(p, c, j, r)
    <3>1. Stepped(p, c[k], k, p.header \o SubSeq(c, p.oldb, k - 1), q)
      BY <2>3, <2>5
    <3>2. Precise(q, c, k, r + 1)
      BY <1>1, <2>1, <2>4, <2>5, <2>7, <3>1, PreciseInLine
    <3>3. QED
      BY <2>2, <3>2
  <2>8. QED
    BY <2>1, <2>6, <2>7
<1>4. QED
  BY <1>2, <1>3

LEMMA PreciseFirst ==
  ASSUME header \in Seq(Text), success \in BOOLEAN, received \in Nat, NEW c,
         received <= H, NEW s \in Nat, LineFrom(s, received),
         header = SubSeq(response, s, received), success <=> Status(s - 1)
  PROVE  Precise(Start, c, 0, received)
<1>1. Start \in States
  BY DEF Start, States
<1>2. /\ Start.b = 0 + 1 /\ Start.oldb = 1 /\ Start.header = header
      /\ Start.success = success /\ Start.found = 0 /\ ~Start.thrown
  BY DEF Start
<1>3. header \o SubSeq(c, 1, 0) = header
  <2>1. SubSeq(c, 1, 0) = <<>>
    BY SubSeqEmpty
  <2>2. QED
    BY <2>1, ConcatEmptySeq
<1>4. InLine(Start, c, 0, received)
  BY <1>2, <1>3, Zenon DEF InLine
<1>5. Start.oldb \in 1..(0 + 1)
  BY <1>2
<1>6. QED
  BY <1>1, <1>2, <1>4, <1>5, Zenon DEF Precise

LEMMA LoopPrecise ==
  ASSUME Shape, response \in Seq(Text), header \in Seq(Text), success \in BOOLEAN,
         received \in Nat, NEW c, Arrived(c),
         received <= H, NEW s \in Nat, LineFrom(s, received),
         header = SubSeq(response, s, received), success <=> Status(s - 1)
  PROVE  Precise(Loop(c)[Len(c)], c, Len(c), received + Len(c))
<1>1. Len(c) \in Nat
  BY DEF Arrived
<1>2. /\ Loop(c)[0] = Start
      /\ \A k \in 1..Len(c) : Loop(c)[k] = ParseChar(Loop(c)[k - 1], c)
  BY <1>1, LoopSteps
<1> DEFINE T == {k \in 0..Len(c) : Precise(Loop(c)[k], c, k, received + k)}
<1>3. 0 \in T
  <2>1. received + 0 = received /\ 0 \in 0..Len(c)
    BY <1>1
  <2>2. Precise(Start, c, 0, received)
    BY PreciseFirst
  <2>3. QED
    BY <1>2, <2>1, <2>2
<1>4. ASSUME NEW k \in 0..Len(c), k > 0, k - 1 \in T
      PROVE  k \in T
  <2>1. k \in 1..Len(c)
    BY <1>1, <1>4
  <2>2. PICK j \in Nat : j = k - 1
    BY <2>1
  <2>3. PICK r \in Nat : r = received + j
    OBVIOUS
  <2>4. PICK p : p = Loop(c)[k - 1]
    OBVIOUS
  <2>5. Precise(p, c, j, r)
    BY <1>4, <2>2, <2>3, <2>4
  <2>6. k \in Nat /\ k = j + 1 /\ k <= Len(c) /\ received + k = r + 1
    BY <1>1, <2>1, <2>2, <2>3
  <2>7. Precise(ParseChar(p, c), c, k, r + 1)
    BY <2>3, <2>5, <2>6, PreciseNext
  <2>8. Precise(Loop(c)[k], c, k, received + k)
    BY <1>2, <2>1, <2>4, <2>6, <2>7
  <2>9. QED
    BY <2>8
<1>5. Len(c) \in 0..Len(c)
  BY <1>1
<1> HIDE DEF T
<1>6. Len(c) \in T
  BY <1>1, <1>3, <1>4, <1>5, UpTo
<1>7. QED
  BY <1>6 DEF T

-----------------------------------------------------------------------------
(***************************************************************************)
(* What parseHeaders returns.                                              *)
(***************************************************************************)
\* p is parseHeaders of the chunk c of n pieces.
Parses(p, n) ==
  /\ p.header \in Seq(Text) /\ p.success \in BOOLEAN /\ p.found \in Nat
  /\ p.thrown \in BOOLEAN
  /\ ~p.thrown /\ p.found = 0 /\ p.header = <<>> => response[received + n] = LF
  /\ p.found > 0 =>
       /\ ~p.thrown /\ p.found \in 3..(n + 2)
       /\ response[(received + p.found) - 2] = CR
       /\ p.found = 3 => header = <<>>
       /\ p.found > 3 => response[(received + p.found) - 3] = LF
  /\ p.success => \/ success
                  \/ \E i \in 1..Len(header) : header[i] = "200 OK"
                  \/ \E i \in 1..n : response[received + i] = "200 OK"
  /\ \A i \in 1..Len(p.header) :
       \/ \E l \in 1..Len(header) : p.header[i] = header[l]
       \/ \E l \in 1..n : p.header[i] = response[received + l]

\* The state of the loop, and what is added to it.
Rested(p, q, c) ==
  /\ p.success = q.success /\ p.found = q.found /\ p.thrown = q.thrown
  /\ p.header = IF q.found > 0 \/ q.thrown THEN q.header
                ELSE q.header \o SubSeq(c, q.oldb, Len(c))

LEMMA RestKept ==
  ASSUME NEW c, NEW q \in States, q = Loop(c)[Len(c)],
         q.header \o SubSeq(c, q.oldb, Len(c)) \in Seq(Text),
         NEW p, p = parseHeaders(c)
  PROVE  Rested(p, q, c)
<1>1. CASE q.found > 0 \/ q.thrown
  <2>1. p = q
    BY <1>1 DEF parseHeaders
  <2>2. QED
    BY <1>1, <2>1 DEF Rested
<1>2. CASE ~(q.found > 0 \/ q.thrown)
  <2>1. p = [q EXCEPT !.header = @ \o SubSeq(c, q.oldb, Len(c))]
    BY <1>2 DEF parseHeaders
  <2>2. /\ p.found = q.found
        /\ p.header = q.header \o SubSeq(c, q.oldb, Len(c))
    BY <2>1 DEF States
  <2>3. p.success = q.success /\ p.thrown = q.thrown
    BY <2>1 DEF States
  <2>4. QED
    BY <1>2, <2>2, <2>3, Zenon DEF Rested
<1>3. QED
  BY <1>1, <1>2

LEMMA ChunkParsed ==
  ASSUME response \in Seq(Text), header \in Seq(Text), success \in BOOLEAN,
         received \in 0..Len(response), NEW n \in 1..(Len(response) - received)
  PROVE  Parses(parseHeaders(Chunk(n)), n)
<1>1. PICK c \in Seq(Text) :
        /\ c = Chunk(n) /\ Len(c) = n /\ n \in Nat /\ n > 0 /\ received \in Nat
        /\ \A i \in 1..n : c[i] = response[received + i]
  BY ChunkFacts
<1>2. PICK q : q = Loop(c)[Len(c)]
  OBVIOUS
<1>3. PICK p : p = parseHeaders(c)
  OBVIOUS
<1>4. Parsed(q, c, n)
  BY <1>1, <1>2, LoopParsed
<1>5. q \in States /\ q.oldb \in 1..(n + 1) /\ (q.oldb > 1 => c[q.oldb - 1] = LF)
  BY <1>4, Zenon DEF Parsed
<1>6. PICK o \in Nat, h \in Seq(Text) : o = q.oldb /\ h = q.header
  BY <1>5, StatesFacts
<1>7. o > 0 /\ o <= n + 1 /\ (o > 1 => c[o - 1] = LF)
  BY <1>1, <1>5, <1>6
<1>8. PICK rest : rest = h \o SubSeq(c, o, n)
  OBVIOUS
<1>9. /\ rest \in Seq(Text)
      /\ Len(rest) = Len(h) + (n + 1 - o)
      /\ \A i \in 1..(Len(h) + (n + 1 - o)) :
           rest[i] = IF i <= Len(h) THEN h[i] ELSE c[o + (i - Len(h)) - 1]
      /\ rest = <<>> <=> h = <<>> /\ o = n + 1
  <2>1. n <= Len(c)
    BY <1>1
  <2>2. Joined(h, c, o, n, h \o SubSeq(c, o, n))
    BY <1>1, <1>7, <2>1, LineFacts
  <2>3. Joined(h, c, o, n, rest)
    BY <1>8, <2>2
  <2>4. QED
    BY <2>3, Zenon DEF Joined
<1>10. /\ p.success = q.success /\ p.found = q.found /\ p.thrown = q.thrown
       /\ p.header = IF q.found > 0 \/ q.thrown THEN h ELSE rest
  <2>1. q.header \o SubSeq(c, q.oldb, Len(c)) = rest
    BY <1>1, <1>6, <1>8
  <2>2. q.header \o SubSeq(c, q.oldb, Len(c)) \in Seq(Text)
    BY <1>9, <2>1
  <2>3. q \in States
    BY <1>5
  <2>4. Rested(p, q, c)
    BY <1>2, <1>3, <2>2, <2>3, RestKept, Zenon
  <2>5. QED
    BY <1>6, <2>1, <2>4, Zenon DEF Rested
<1>11. /\ p.header \in Seq(Text) /\ p.success \in BOOLEAN /\ p.found \in Nat
       /\ p.thrown \in BOOLEAN
  <2>1. q.success \in BOOLEAN /\ q.found \in Nat /\ q.thrown \in BOOLEAN
    BY <1>5, StatesFacts
  <2>2. p.header = h \/ p.header = rest
    BY <1>10, Zenon
  <2>3. QED
    BY <1>6, <1>9, <1>10, <2>1, <2>2, Zenon
<1>12. ASSUME ~p.thrown, p.found = 0, p.header = <<>>
       PROVE  response[received + n] = LF
  <2>1. ~(q.found > 0)
    BY <1>10, <1>12
  <2>2. ~q.thrown
    BY <1>10, <1>12, Zenon
  <2>3. rest = <<>>
    BY <1>10, <1>12, <2>1, <2>2, Zenon
  <2>4. o = n + 1
    BY <1>9, <2>3
  <2>5. c[n] = LF
    BY <1>1, <1>7, <2>4
  <2>6. QED
    BY <1>1, <2>5
<1>13. ASSUME p.found > 0
       PROVE  /\ ~p.thrown /\ p.found \in 3..(n + 2)
              /\ response[(received + p.found) - 2] = CR
              /\ p.found = 3 => header = <<>>
              /\ p.found > 3 => response[(received + p.found) - 3] = LF
  <2>1. PICK f \in Nat : f = p.found /\ f = q.found
    BY <1>10, <1>11
  <2>2. Found(q, c, n)
    BY <1>4, <1>13, <2>1 DEF Parsed
  <2>3. ~q.thrown
    BY <2>2, Zenon DEF Found
  <2>4. /\ f \in 3..(n + 2) /\ c[f - 2] = CR
        /\ (f = 3 => header = <<>>) /\ (f > 3 => c[f - 3] = LF)
    BY <2>1, <2>2 DEF Found
  <2>5. f - 2 \in 1..n /\ received + (f - 2) = (received + f) - 2
    BY <1>1, <2>4
  <2>6. f > 3 => f - 3 \in 1..n /\ received + (f - 3) = (received + f) - 3
    BY <1>1, <2>4
  <2>7. response[(received + f) - 2] = CR
    BY <1>1, <2>4, <2>5
  <2>8. f > 3 => response[(received + f) - 3] = LF
    BY <1>1, <2>4, <2>6
  <2>9. QED
    BY <1>10, <2>1, <2>3, <2>4, <2>7, <2>8, Zenon
<1>14. p.success => \/ success
                    \/ \E i \in 1..Len(header) : header[i] = "200 OK"
                    \/ \E i \in 1..n : response[received + i] = "200 OK"
  <2>1. q.success => \/ success
                     \/ \E i \in 1..Len(header) : header[i] = "200 OK"
                     \/ \E i \in 1..n : c[i] = "200 OK"
    BY <1>4, Zenon DEF Parsed
  <2>2. (\E i \in 1..n : c[i] = "200 OK") =>
          \E i \in 1..n : response[received + i] = "200 OK"
    BY <1>1
  <2>3. QED
    BY <1>10, <2>1, <2>2, Zenon
<1>15. ASSUME NEW i \in 1..Len(p.header)
       PROVE  \/ \E l \in 1..Len(header) : p.header[i] = header[l]
              \/ \E l \in 1..n : p.header[i] = response[received + l]
  <2>0. h \in {header, <<>>}
    BY <1>4, <1>6, Zenon DEF Parsed
  <2>e. Len(<<>>) = 0
    OBVIOUS
  <2>1. ASSUME NEW l \in 1..Len(h) PROVE \E m \in 1..Len(header) : h[l] = header[m]
    <3>1. h # <<>>
      BY <2>e, <2>1
    <3>2. h = header
      BY <2>0, <3>1
    <3>3. QED
      BY <3>2
  <2>2. p.header = h \/ p.header = rest
    BY <1>10, Zenon
  <2>3. CASE p.header = h
    BY <2>1, <2>3
  <2>4. CASE p.header = rest
    <3>1. PICK k \in Nat : k = Len(h)
      BY LenProperties
    <3>2. i \in 1..(k + (n + 1 - o)) /\ p.header[i] = rest[i]
      BY <1>9, <2>4, <3>1
    <3>3. rest[i] = IF i <= k THEN h[i] ELSE c[o + (i - k) - 1]
      BY <1>9, <3>1, <3>2
    <3>4. CASE i <= k
      <4>1. i \in 1..Len(h) /\ rest[i] = h[i]
        BY <3>1, <3>2, <3>3, <3>4
      <4>2. QED
        BY <2>1, <3>2, <4>1
    <3>5. CASE ~(i <= k)
      <4>1. PICK l \in 1..n : l = o + (i - k) - 1
        BY <1>1, <1>7, <3>2, <3>5
      <4>2. p.header[i] = c[l]
        BY <3>2, <3>3, <3>5, <4>1
      <4>3. c[l] = response[received + l]
        BY <1>1
      <4>4. QED
        BY <4>2, <4>3
    <3>6. QED
      BY <3>4, <3>5
  <2>5. QED
    BY <2>2, <2>3, <2>4
<1>16. Parses(p, n)
  BY <1>11, <1>12, <1>13, <1>14, <1>15, Zenon DEF Parses
<1>17. QED
  BY <1>1, <1>3, <1>16

\* And with a head that was not cut between CR and LF.
ParsesLines(p, n) ==
  /\ ~p.thrown
  /\ p.found = 0 =>
       /\ received + n <= H
       /\ \/ response[received + n] = CR
          \/ \E s \in Nat : /\ LineFrom(s, received + n)
                            /\ p.header = SubSeq(response, s, received + n)
                            /\ p.success <=> Status(s - 1)
  /\ p.found # 0 => /\ received + p.found = H + 3 /\ p.found <= n + 2
                    /\ p.success <=> Status(H)

LEMMA ChunkParsesLines ==
  ASSUME Shape, response \in Seq(Text), header \in Seq(Text), success \in BOOLEAN,
         received \in 0..Len(response), NEW n \in 1..(Len(response) - received),
         received <= H, NEW s \in Nat, LineFrom(s, received),
         header = SubSeq(response, s, received), success <=> Status(s - 1)
  PROVE  ParsesLines(parseHeaders(Chunk(n)), n)
<1>1. PICK c \in Seq(Text) :
        /\ c = Chunk(n) /\ Len(c) = n /\ n \in Nat /\ n > 0 /\ received \in Nat
        /\ received + n <= Len(response)
        /\ \A i \in 1..n : c[i] = response[received + i]
  BY ChunkFacts
<1>2. PICK q : q = Loop(c)[Len(c)]
  OBVIOUS
<1>3. PICK p : p = parseHeaders(c)
  OBVIOUS
<1>4. PICK r \in Nat : r = received + n
  BY <1>1
<1>5. Arrived(c)
  BY <1>1 DEF Arrived
<1>6. Precise(q, c, n, r)
  <2>1. received \in Nat
    BY <1>1
  <2>2. Precise(Loop(c)[Len(c)], c, Len(c), received + Len(c))
    BY <1>5, <2>1, LoopPrecise
  <2>3. QED
    BY <1>1, <1>2, <1>4, <2>2
<1>7. q \in States /\ ~q.thrown
  BY <1>6, Zenon DEF Precise
<1>8. q.found = 0 => /\ q.oldb \in 1..(n + 1) /\ r <= H
                     /\ AfterCR(q, c, n, r) \/ InLine(q, c, n, r)
  BY <1>6, Zenon DEF Precise
<1>9. q.found # 0 => /\ received + q.found = H + 3 /\ q.found <= n + 2
                     /\ q.success <=> Status(H)
  BY <1>6, Zenon DEF Precise
<1>10. Parsed(q, c, n)
  BY <1>1, <1>2, LoopParsed
<1>11. q.header \o SubSeq(c, q.oldb, Len(c)) \in Seq(Text)
  <2>1. q.oldb \in 1..(n + 1)
    BY <1>10, Zenon DEF Parsed
  <2>2. PICK o \in Nat, h \in Seq(Text) : o = q.oldb /\ h = q.header
    BY <1>7, StatesFacts
  <2>3. o > 0 /\ o <= n + 1 /\ n <= Len(c)
    BY <1>1, <2>1, <2>2
  <2>4. Joined(h, c, o, n, h \o SubSeq(c, o, n))
    BY <1>1, <2>3, LineFacts
  <2>5. h \o SubSeq(c, o, n) \in Seq(Text)
    BY <2>4, Zenon DEF Joined
  <2>6. QED
    BY <1>1, <2>2, <2>5
<1>12. /\ p.success = q.success /\ p.found = q.found /\ p.thrown = q.thrown
       /\ p.header = IF q.found > 0 \/ q.thrown THEN q.header
                     ELSE q.header \o SubSeq(c, q.oldb, Len(c))
  <2>1. q \in States
    BY <1>7
  <2>2. Rested(p, q, c)
    BY <1>2, <1>3, <1>11, <2>1, RestKept, Zenon
  <2>3. QED
    BY <2>2, Zenon DEF Rested
<1>13. ~p.thrown
  BY <1>7, <1>12, Zenon
<1>14. ASSUME p.found = 0
       PROVE  /\ r <= H
              /\ \/ response[r] = CR
                 \/ \E t \in Nat : /\ LineFrom(t, r)
                                   /\ p.header = SubSeq(response, t, r)
                                   /\ p.success <=> Status(t - 1)
  <2>1. q.found = 0 /\ ~(q.found > 0)
    BY <1>12, <1>14
  <2>2. p.header = q.header \o SubSeq(c, q.oldb, n)
    BY <1>1, <1>7, <1>12, <2>1, Zenon
  <2>3. CASE AfterCR(q, c, n, r)
    <3>0. n \in 1..n
      BY <1>1
    <3>1. c[n] = CR /\ n \in 1..n
      BY <2>3, <3>0, Zenon DEF AfterCR
    <3>2. response[r] = CR
      BY <1>1, <1>4, <3>1
    <3>3. QED
      BY <1>8, <2>1, <3>2
  <2>4. CASE InLine(q, c, n, r)
    <3>1. PICK t \in Nat : /\ LineFrom(t, r)
                           /\ q.header \o SubSeq(c, q.oldb, n) = SubSeq(response, t, r)
                           /\ q.success <=> Status(t - 1)
      BY <2>4, Zenon DEF InLine
    <3>2. p.header = SubSeq(response, t, r) /\ (p.success <=> Status(t - 1))
      BY <1>12, <2>2, <3>1, Zenon
    <3>3. QED
      BY <1>8, <2>1, <3>1, <3>2
  <2>5. QED
    BY <1>8, <2>1, <2>3, <2>4
<1>15. p.found # 0 => /\ received + p.found = H + 3 /\ p.found <= n + 2
                      /\ p.success <=> Status(H)
  BY <1>9, <1>12, Zenon
<1>16. ParsesLines(p, n)
  BY <1>4, <1>13, <1>14, <1>15, Zenon DEF ParsesLines
<1>17. QED
  BY <1>1, <1>3, <1>16

-----------------------------------------------------------------------------
(***************************************************************************)
(* The initial states, and the steps that read nothing.                    *)
(***************************************************************************)
LEMMA InitIInv == Init => IInv
<1> SUFFICES ASSUME Init PROVE IInv
  OBVIOUS
<1>1. Sent
  BY DEF Init, Sent
<1>2. Shape /\ response \in Seq(Text)
  BY <1>1, ResponseFacts
<1>3. H \in Nat /\ Len(response) \in Nat
  BY <1>2 DEF Shape
<1>4. /\ connection = "connecting" /\ state = "SendingData" /\ error = "ErrorNone"
      /\ unsent = OutLen /\ elapsed = 0 /\ received = 0
      /\ header = <<>> /\ data = <<>> /\ success = FALSE
      /\ ended = "no" /\ splitAtCR = FALSE
  BY DEF Init
<1>5. <<>> \in Seq(Text) /\ Len(<<>>) = 0
  OBVIOUS
<1>6. TypeOK
  <2>1. /\ OutLen \in 0..OutLen /\ 0 \in 0..(TimeOut + 1)
        /\ 0 \in 0..Len(response)
    BY <1>3, HttpAssumption
  <2>2. QED
    BY <1>4, <1>5, <2>1, Zenon DEF TypeOK
<1>7. Phases
  BY <1>4 DEF Phases
<1>8. StatusRead
  BY <1>4, <1>5 DEF StatusRead
<1>9. HeaderBegins
  BY <1>4 DEF HeaderBegins
<1>10. DataAfter
  BY <1>4 DEF DataAfter
<1>11. LineKept
  <2>1. LineFrom(1, 0) /\ 1 \in 1..(0 + 1)
    BY DEF LineFrom
  <2>2. SubSeq(response, 1, 0) = <<>>
    BY SubSeqEmpty
  <2>3. ~Status(1 - 1)
    BY DEF Status
  <2>4. 0 <= H
    BY <1>3
  <2>5. QED
    BY <1>4, <2>1, <2>2, <2>3, <2>4 DEF LineKept
<1>12. QED
  BY <1>1, <1>6, <1>7, <1>8, <1>9, <1>10, <1>11 DEF IInv

\* A step that reads nothing: it goes on, or ends with an error.
Quiet ==
  /\ UNCHANGED <<response, body, received, header, data, splitAtCR>>
  /\ \/ state' = "Done" /\ ~success'
     \/ state' = state /\ success' = success
     \/ state = "SendingData" /\ state' = "ReadingHeader" /\ success' = success
  /\ ended = "no" /\ ended' \in {"no", "returned"}

LEMMA QuietKeeps ==
  ASSUME IInv, Quiet
  PROVE  Sent' /\ StatusRead' /\ HeaderBegins' /\ DataAfter' /\ LineKept'
<1>1. /\ response' = response /\ body' = body /\ received' = received
      /\ header' = header /\ data' = data /\ splitAtCR' = splitAtCR
      /\ ended = "no" /\ ended' # "thrown"
  BY DEF Quiet
<1>2. \/ state' = "Done" /\ ~success'
      \/ state' = state /\ success' = success
      \/ state = "SendingData" /\ state' = "ReadingHeader" /\ success' = success
  BY DEF Quiet
<1>3. Sent'
  BY <1>1 DEF IInv, Sent
<1>4. StatusRead'
  <2>1. success' => success
    BY <1>2
  <2>2. success => Status(received)
    BY DEF IInv, StatusRead
  <2>3. Status(received)' <=> Status(received)
    BY <1>1 DEF Status
  <2>4. \A i \in 1..Len(header') : \E j \in 1..received' : header'[i] = response'[j]
    BY <1>1 DEF IInv, StatusRead
  <2>5. QED
    BY <2>1, <2>2, <2>3, <2>4 DEF StatusRead
<1>5. HeaderBegins'
  <2>1. state = "SendingData" => ~(received > 0)
    BY DEF IInv, Phases
  <2>2. QED
    BY <1>1, <1>2, <2>1 DEF IInv, HeaderBegins
<1>6. H' = H
  BY <1>1 DEF H
<1>7. DataAfter'
  BY <1>1, <1>2, <1>6 DEF IInv, DataAfter
<1>8. LineKept'
  <2> SUFFICES ASSUME ~splitAtCR PROVE LineKept'
    BY <1>1 DEF LineKept
  <2>1. state' \in {"SendingData", "ReadingHeader"} =>
          state \in {"SendingData", "ReadingHeader"} /\ success' = success
    BY <1>2
  <2>2. state' = "ReadingData" => state = "ReadingData" /\ success' = success
    BY <1>2
  <2>3. state \in {"SendingData", "ReadingHeader"} =>
         /\ received <= H
         /\ \E s \in 1..(received + 1) :
              /\ LineFrom(s, received)
              /\ header = SubSeq(response, s, received)
              /\ success <=> Status(s - 1)
    BY DEF IInv, LineKept
  <2>4. state = "ReadingData" =>
         /\ received >= H + 2
         /\ data = SubSeq(response, H + 3, received)
         /\ success <=> Status(H)
    BY DEF IInv, LineKept
  <2>5. ASSUME NEW s \in 1..(received + 1)
        PROVE  /\ LineFrom(s, received)' <=> LineFrom(s, received)
               /\ Status(s - 1)' <=> Status(s - 1)
    BY <1>1 DEF LineFrom, Status
  <2>6. Status(H)' <=> Status(H)
    BY <1>1, <1>6 DEF Status
  <2>7. state' \in {"SendingData", "ReadingHeader"} =>
         /\ received' <= H'
         /\ \E s \in 1..(received' + 1) :
              /\ LineFrom(s, received)'
              /\ header' = SubSeq(response', s, received')
              /\ success' <=> Status(s - 1)'
    BY <1>1, <1>6, <2>1, <2>3, <2>5
  <2>8. state' = "ReadingData" =>
         /\ received' >= H' + 2
         /\ data' = SubSeq(response', H' + 3, received')
         /\ success' <=> Status(H)'
    BY <1>1, <1>6, <2>2, <2>4, <2>6
  <2>9. QED
    BY <1>1, <2>7, <2>8 DEF LineKept
<1>9. QED
  BY <1>3, <1>4, <1>5, <1>7, <1>8

\* What is left of the invariant, for such a step.
LEMMA QuietIInv ==
  ASSUME IInv, Quiet, Phases',
         connection' \in {"connecting", "connected", "closed"},
         state' \in {"SendingData", "ReadingHeader", "ReadingData", "Done"},
         error' \in {"ErrorNone", "ErrorConnect", "ErrorSend", "ErrorRecv",
                     "ErrorTimeout"},
         unsent' \in 0..OutLen, elapsed' \in 0..(TimeOut + 1), success' \in BOOLEAN
  PROVE  IInv'
<1>1. Sent' /\ StatusRead' /\ HeaderBegins' /\ DataAfter' /\ LineKept'
  BY QuietKeeps
<1>2. TypeOK
  BY DEF IInv
<1>3. TypeOK'
  <2>1. /\ response' = response /\ received' = received /\ header' = header
        /\ data' = data /\ splitAtCR' = splitAtCR
        /\ ended' \in {"no", "returned", "thrown"}
    BY DEF Quiet
  <2>2. /\ received \in 0..Len(response) /\ header \in Seq(Text)
        /\ data \in Seq(Text) /\ splitAtCR \in BOOLEAN
    BY <1>2, Zenon DEF TypeOK
  <2>3. /\ received' \in 0..Len(response') /\ header' \in Seq(Text)
        /\ data' \in Seq(Text) /\ splitAtCR' \in BOOLEAN
    BY <2>1, <2>2
  <2>4. QED
    BY <2>1, <2>3 DEF TypeOK
<1>4. QED
  BY <1>1, <1>3, Zenon DEF IInv

LEMMA TypeFacts ==
  ASSUME IInv
  PROVE  /\ response \in Seq(Text) /\ body \in Seq(Text) /\ Shape
         /\ H \in Nat /\ Len(response) \in Nat
         /\ received \in 0..Len(response) /\ received \in Nat
         /\ header \in Seq(Text) /\ data \in Seq(Text)
         /\ success \in BOOLEAN /\ splitAtCR \in BOOLEAN
         /\ unsent \in 0..OutLen /\ elapsed \in 0..(TimeOut + 1)
         /\ OutLen \in Nat /\ TimeOut \in Nat
<1>1. response \in Seq(Text) /\ body \in Seq(Text) /\ Shape
  BY ResponseFacts DEF IInv
<1>2. H \in Nat /\ Len(response) \in Nat
  BY <1>1 DEF Shape
<1>3. /\ received \in 0..Len(response) /\ header \in Seq(Text) /\ data \in Seq(Text)
      /\ success \in BOOLEAN /\ splitAtCR \in BOOLEAN
      /\ unsent \in 0..OutLen /\ elapsed \in 0..(TimeOut + 1)
  BY DEF IInv, TypeOK
<1>4. received \in Nat
  BY <1>2, <1>3
<1>5. QED
  BY <1>1, <1>2, <1>3, <1>4, HttpAssumption

\* connecting
LEMMA ConnectFailsKeeps == ASSUME IInv, ConnectFails PROVE IInv'
<1>1. /\ UNCHANGED <<response, body, received, header, data, splitAtCR>>
      /\ state' = state /\ success' = success /\ ended = "no" /\ ended' = "returned"
      /\ connection = "connecting" /\ connection' = connection
      /\ error' = "ErrorConnect" /\ unsent' = unsent /\ elapsed' = elapsed
  BY DEF ConnectFails, parse, Return, Running
<1>2. Quiet
  BY <1>1 DEF Quiet
<1>3. Phases'
  BY <1>1 DEF IInv, Phases
<1>4. TypeOK
  BY DEF IInv
<1>5. QED
  BY <1>1, <1>2, <1>3, <1>4, QuietIInv DEF TypeOK

LEMMA ConnectWaitsKeeps == ASSUME IInv, ConnectWaits PROVE IInv'
<1>1. /\ UNCHANGED <<response, body, received, header, data, splitAtCR>>
      /\ state' = state /\ success' = success /\ ended = "no" /\ ended' = "returned"
      /\ connection = "connecting" /\ connection' = connection
      /\ error' = "ErrorTimeout" /\ unsent' = unsent /\ elapsed' = elapsed
  BY DEF ConnectWaits, parse, Return, Running
<1>2. Quiet
  BY <1>1 DEF Quiet
<1>3. Phases'
  BY <1>1 DEF IInv, Phases
<1>4. TypeOK
  BY DEF IInv
<1>5. QED
  BY <1>1, <1>2, <1>3, <1>4, QuietIInv DEF TypeOK

\* SendingData
LEMMA SendKeeps == ASSUME IInv, Send PROVE IInv'
<1>1. PICK n \in 1..unsent : /\ unsent' = unsent - n
                             /\ state' = IF n = unsent THEN "ReadingHeader" ELSE state
  BY DEF Send
<1>2. /\ UNCHANGED <<response, body, received, header, data, splitAtCR>>
      /\ success' = success /\ ended = "no" /\ ended' = "no"
      /\ state = "SendingData" /\ connection' = "connected" /\ error' = error
      /\ elapsed' \in {0, elapsed}
  BY DEF Send, Sending, Since, Running
<1>3. state' = "ReadingHeader" \/ state' = state
  BY <1>1
<1>4. Quiet
  BY <1>2, <1>3 DEF Quiet
<1>5. Phases'
  BY <1>2, <1>3 DEF IInv, Phases
<1>6. TypeOK
  BY DEF IInv
<1>7. unsent' \in 0..OutLen /\ elapsed' \in 0..(TimeOut + 1)
  BY <1>1, <1>2, TypeFacts
<1>8. QED
  BY <1>2, <1>3, <1>4, <1>5, <1>6, <1>7, QuietIInv DEF TypeOK

LEMMA SendFailsKeeps == ASSUME IInv, SendFails PROVE IInv'
<1>1. /\ UNCHANGED <<response, body, received, header, data, splitAtCR>>
      /\ state' = "Done" /\ success' = FALSE /\ ended = "no" /\ ended' = "returned"
      /\ connection' = "connected" /\ error' = "ErrorSend"
      /\ unsent' = unsent /\ elapsed' \in {0, elapsed} /\ state = "SendingData"
  BY DEF SendFails, Fail, Return, Sending, Since, Running
<1>2. Quiet
  BY <1>1 DEF Quiet
<1>3. Phases'
  BY <1>1 DEF IInv, Phases
<1>4. TypeOK
  BY DEF IInv
<1>5. elapsed' \in 0..(TimeOut + 1)
  BY <1>1, TypeFacts
<1>6. QED
  BY <1>1, <1>2, <1>3, <1>4, <1>5, QuietIInv DEF TypeOK

LEMMA SendBlocksKeeps == ASSUME IInv, SendBlocks PROVE IInv'
<1>1. /\ UNCHANGED <<response, body, received, header, data, splitAtCR>>
      /\ ended = "no" /\ connection' = "connected"
      /\ unsent' = unsent /\ elapsed' \in {0, elapsed} /\ state = "SendingData"
      /\ \/ /\ state' = "Done" /\ success' = FALSE /\ ended' = "returned"
            /\ error' = "ErrorTimeout"
         \/ state' = state /\ success' = success /\ ended' = ended /\ error' = error
  BY DEF SendBlocks, Fail, Return, Sending, Since, Running, parse
<1>2. Quiet
  BY <1>1 DEF Quiet
<1>3. Phases'
  BY <1>1 DEF IInv, Phases
<1>4. TypeOK
  BY DEF IInv
<1>5. elapsed' \in 0..(TimeOut + 1)
  BY <1>1, TypeFacts
<1>6. QED
  BY <1>1, <1>2, <1>3, <1>4, <1>5, QuietIInv DEF TypeOK

\* reading, but nothing comes
LEMMA EndOfStreamKeeps == ASSUME IInv, EndOfStream PROVE IInv'
<1>1. /\ UNCHANGED <<response, body, received, header, data, splitAtCR>>
      /\ state' = state /\ success' = success /\ ended = "no" /\ ended' = "returned"
      /\ state \in {"ReadingHeader", "ReadingData"} /\ connection' = "closed"
      /\ error' = error /\ unsent' = unsent /\ elapsed' = elapsed
  BY DEF EndOfStream, parse, Return, Reading, Running
<1>2. Quiet
  BY <1>1 DEF Quiet
<1>3. Phases'
  BY <1>1 DEF IInv, Phases
<1>4. TypeOK
  BY DEF IInv
<1>5. QED
  BY <1>1, <1>2, <1>3, <1>4, QuietIInv DEF TypeOK

LEMMA RecvKeeps == ASSUME IInv, RecvFails \/ RecvBlocks PROVE IInv'
<1>1. /\ UNCHANGED <<response, body, received, header, data, splitAtCR>>
      /\ state' = "Done" /\ success' = FALSE /\ ended = "no" /\ ended' = "returned"
      /\ connection = "connected" /\ connection' = connection
      /\ error' \in {"ErrorRecv", "ErrorTimeout"}
      /\ unsent' = unsent /\ elapsed' = elapsed
  BY DEF RecvFails, RecvBlocks, Fail, Return, Reading, Running
<1>2. Quiet
  BY <1>1 DEF Quiet
<1>3. Phases'
  BY <1>1 DEF IInv, Phases
<1>4. TypeOK
  BY DEF IInv
<1>5. QED
  BY <1>1, <1>2, <1>3, <1>4, QuietIInv DEF TypeOK

LEMMA ClockKeeps == ASSUME IInv, Clock PROVE IInv'
<1>1. /\ UNCHANGED <<response, body, received, header, data, splitAtCR>>
      /\ state' = state /\ success' = success /\ ended = "no" /\ ended' = ended
      /\ connection' = connection /\ error' = error /\ unsent' = unsent
      /\ elapsed <= TimeOut /\ elapsed' = elapsed + 1
  BY DEF Clock, parse, Running
<1>2. Quiet
  BY <1>1 DEF Quiet
<1>3. Phases'
  BY <1>1 DEF IInv, Phases
<1>4. TypeOK
  BY DEF IInv
<1>5. elapsed' \in 0..(TimeOut + 1)
  BY <1>1, TypeFacts
<1>6. QED
  BY <1>1, <1>2, <1>3, <1>4, <1>5, QuietIInv DEF TypeOK

-----------------------------------------------------------------------------
(***************************************************************************)
(* The steps that read a chunk.                                            *)
(***************************************************************************)
\* The data that begins at f in a chunk.
LEMMA RestOfChunk ==
  ASSUME response \in Seq(Text), received \in 0..Len(response),
         NEW n \in 1..(Len(response) - received), NEW f \in 1..(n + 1)
  PROVE  /\ SubSeq(Chunk(n), f, n) \in Seq(Text)
         /\ SubSeq(Chunk(n), f, n) = SubSeq(response, received + f, received + n)
<1>1. PICK c \in Seq(Text) :
        /\ c = Chunk(n) /\ Len(c) = n /\ n \in Nat /\ n > 0 /\ received \in Nat
        /\ received + n <= Len(response)
        /\ \A i \in 1..n : c[i] = response[received + i]
  BY ChunkFacts
<1>2. f \in Nat /\ f > 0 /\ f <= n + 1
  BY <1>1
<1>3. /\ SubSeq(c, f, n) \in Seq(Text)
      /\ Len(SubSeq(c, f, n)) = IF f <= n THEN n - f + 1 ELSE 0
      /\ \A i \in 1..(n - f + 1) : SubSeq(c, f, n)[i] = c[f + i - 1]
  <2>1. \A i \in f..n : c[i] \in Text
    <3>1. \A i \in f..n : i \in 1..Len(c)
      BY <1>1, <1>2
    <3>2. QED
      BY <3>1, ElementOfSeq
  <2>2. f \in Int /\ n \in Int
    BY <1>1, <1>2
  <2>3. QED
    BY <2>1, <2>2, SubSeqProperties
<1>4. PICK a \in Nat \ {0}, b \in 0..Len(response) : a = received + f /\ b = received + n
  <2>1. received + f \in Nat \ {0}
    BY <1>1, <1>2
  <2>2. received + n \in 0..Len(response)
    BY <1>1, LenProperties
  <2>3. QED
    BY <2>1, <2>2
<1>5. /\ SubSeq(response, a, b) \in Seq(Text)
      /\ Len(SubSeq(response, a, b)) = IF a <= b THEN b - a + 1 ELSE 0
      /\ \A i \in 1..(b - a + 1) : SubSeq(response, a, b)[i] = response[a + i - 1]
  BY PartFacts
<1>6. b - a + 1 = n - f + 1 /\ (a <= b <=> f <= n)
  BY <1>1, <1>2, <1>4
<1>7. PICK u \in Seq(Text), v \in Seq(Text) :
        u = SubSeq(c, f, n) /\ v = SubSeq(response, a, b)
  BY <1>3, <1>5
<1>8. Len(u) = n - f + 1 /\ Len(v) = n - f + 1
  BY <1>1, <1>2, <1>3, <1>5, <1>6, <1>7
<1>9. ASSUME NEW i \in 1..Len(u)
      PROVE  u[i] = v[i]
  <2>1. i \in 1..(n - f + 1) /\ i \in 1..(b - a + 1)
    BY <1>6, <1>8
  <2>2. u[i] = c[f + i - 1]
    BY <1>3, <1>7, <2>1
  <2>3. v[i] = response[a + i - 1]
    BY <1>5, <1>7, <2>1
  <2>4. PICK l \in 1..n : l = f + i - 1
    BY <1>1, <1>2, <2>1
  <2>5. received + l = a + i - 1
    BY <1>1, <1>2, <1>4, <2>1, <2>4
  <2>6. c[l] = response[received + l]
    BY <1>1
  <2>7. QED
    BY <2>2, <2>3, <2>4, <2>5, <2>6
<1>10. u = v
  BY <1>8, <1>9, SeqEqual
<1>11. QED
  BY <1>1, <1>4, <1>7, <1>10

\* Two parts of the response, one after the other.
LEMMA PartsJoin ==
  ASSUME response \in Seq(Text), received \in 0..Len(response),
         NEW n \in 1..(Len(response) - received), NEW k \in 1..(received + 1)
  PROVE  SubSeq(response, k, received) \o Chunk(n) =
           SubSeq(response, k, received + n)
<1>1. Len(response) \in Nat
  BY LenProperties
<1>2. PICK m \in Nat : m = received
  BY <1>1
<1>3. /\ k \in 1..(Len(response) + 1) /\ m \in (k - 1)..Len(response)
      /\ m + n \in m..Len(response)
  BY <1>1, <1>2
<1>4. SubSeq(response, k, m) \o SubSeq(response, m + 1, m + n) =
        SubSeq(response, k, m + n)
  BY <1>3, ConcatAdjacentSubSeq
<1>5. QED
  BY <1>2, <1>4 DEF Chunk

\* What a step of the header does, p being what the parser returns.
HeaderStep(n, p) ==
  /\ ended = "no" /\ connection = "connected" /\ state = "ReadingHeader"
  /\ received' = received + n /\ elapsed' = 0
  /\ response' = response /\ body' = body /\ connection' = connection
  /\ error' = error /\ unsent' = unsent
  /\ header' = p.header
  /\ splitAtCR' = (splitAtCR \/ (p.found \notin 1..(n + 1) /\ Last(Chunk(n)) = CR))
  /\ p.thrown => /\ ended' = "thrown" /\ state' = state /\ data' = data
                 /\ success' = success
  /\ ~p.thrown /\ p.found = 0 => /\ success' = p.success /\ state' = state
                                 /\ data' = data /\ ended' = ended
  /\ ~p.thrown /\ p.found # 0 /\ p.found > n + 1 =>
       /\ success' = FALSE /\ state' = "Done" /\ ended' = "returned"
       /\ data' = data
  /\ ~p.thrown /\ p.found # 0 /\ ~(p.found > n + 1) =>
       /\ success' = p.success /\ state' = "ReadingData" /\ ended' = ended
       /\ data' = SubSeq(Chunk(n), p.found, n)

LEMMA ReadHeaderSteps ==
  ASSUME IInv, ReadHeader
  PROVE  \E n \in 1..(Len(response) - received) : \E p :
           p = parseHeaders(Chunk(n)) /\ HeaderStep(n, p)
<1>1. PICK n \in 1..(Len(response) - received) :
        LET p == parseHeaders(Chunk(n)) IN
        /\ Arrives(n)
        /\ header' = p.header
        /\ splitAtCR' =
             (splitAtCR \/ (p.found \notin 1..(n + 1) /\ Last(Chunk(n)) = CR))
        /\ CASE p.thrown ->
                  ended' = "thrown" /\ UNCHANGED <<state, data, success>>
             [] ~p.thrown /\ p.found = 0 ->
                  success' = p.success /\ UNCHANGED <<state, data, ended>>
             [] p.found > n + 1 ->
                  success' = FALSE /\ state' = "Done" /\ Return
                    /\ UNCHANGED data
             [] p.found \in 1..(n + 1) ->
                  /\ success' = p.success /\ state' = "ReadingData"
                  /\ data' = SubSeq(Chunk(n), p.found, n)
                  /\ UNCHANGED ended
  BY DEF ReadHeader
<1>2. PICK p : p = parseHeaders(Chunk(n))
  OBVIOUS
<1>3. /\ header' = p.header
      /\ splitAtCR' =
           (splitAtCR \/ (p.found \notin 1..(n + 1) /\ Last(Chunk(n)) = CR))
      /\ CASE p.thrown ->
                ended' = "thrown" /\ UNCHANGED <<state, data, success>>
           [] ~p.thrown /\ p.found = 0 ->
                success' = p.success /\ UNCHANGED <<state, data, ended>>
           [] p.found > n + 1 ->
                success' = FALSE /\ state' = "Done" /\ Return
                  /\ UNCHANGED data
           [] p.found \in 1..(n + 1) ->
                /\ success' = p.success /\ state' = "ReadingData"
                /\ data' = SubSeq(Chunk(n), p.found, n)
                /\ UNCHANGED ended
  BY <1>1, <1>2
<1>4. Parses(p, n)
  BY <1>2, TypeFacts, ChunkParsed
<1>5. p.found \in Nat /\ n \in Nat /\ p.thrown \in BOOLEAN
  <2>1. p.found \in Nat /\ p.thrown \in BOOLEAN
    BY <1>4, Zenon DEF Parses
  <2>2. n \in Nat
    BY TypeFacts
  <2>3. QED
    BY <2>1, <2>2
<1>6. /\ ended = "no" /\ connection = "connected" /\ state = "ReadingHeader"
      /\ received' = received + n /\ elapsed' = 0
      /\ response' = response /\ body' = body /\ connection' = connection
      /\ error' = error /\ unsent' = unsent
  BY <1>1 DEF ReadHeader, Reading, Running, Arrives
<1>7. p.found # 0 /\ ~(p.found > n + 1) => p.found \in 1..(n + 1)
  BY <1>5
<1>8. p.found > n + 1 => p.found # 0 /\ p.found \notin 1..(n + 1)
  BY <1>5
<1>9. p.found = 0 => ~(p.found > n + 1) /\ p.found \notin 1..(n + 1)
  BY <1>5
<1>10. p.found > 0 => ~p.thrown
  BY <1>4, Zenon DEF Parses
<1>t. p.thrown => ~(p.found > n + 1) /\ p.found \notin 1..(n + 1)
  <2>1. p.thrown => ~(p.found > 0)
    BY <1>10
  <2>2. ~(p.found > 0) => p.found = 0
    BY <1>5
  <2>3. QED
    BY <1>9, <2>1, <2>2
<1>11. p.thrown => /\ ended' = "thrown" /\ state' = state /\ data' = data
                   /\ success' = success
  BY <1>3, <1>t
<1>12. ~p.thrown /\ p.found = 0 => /\ success' = p.success /\ state' = state
                                   /\ data' = data /\ ended' = ended
  BY <1>3, <1>9
<1>13. ~p.thrown /\ p.found # 0 /\ p.found > n + 1 =>
       /\ success' = FALSE /\ state' = "Done" /\ ended' = "returned"
       /\ data' = data
  BY <1>3, <1>8 DEF Return
<1>14. ~p.thrown /\ p.found # 0 /\ ~(p.found > n + 1) =>
       /\ success' = p.success /\ state' = "ReadingData" /\ ended' = ended
       /\ data' = SubSeq(Chunk(n), p.found, n)
  BY <1>3, <1>7
<1>15. HeaderStep(n, p)
  BY <1>3, <1>6, <1>11, <1>12, <1>13, <1>14, Zenon DEF HeaderStep
<1>16. QED
  BY <1>2, <1>15

\* What such a step leaves alone, and the numbers it adds up.
LEMMA HeaderFacts ==
  ASSUME IInv, NEW n \in 1..(Len(response) - received), NEW p,
         Parses(p, n), HeaderStep(n, p)
  PROVE  /\ ended = "no" /\ connection = "connected" /\ state = "ReadingHeader"
         /\ error = "ErrorNone" /\ data = <<>>
         /\ received' = received + n /\ response' = response /\ body' = body
         /\ connection' = connection /\ error' = error /\ header' = p.header
         /\ unsent' = unsent /\ elapsed' = 0 /\ H' = H
         /\ n \in Nat /\ n > 0 /\ received \in Nat /\ received + n <= Len(response)
         /\ p.header \in Seq(Text) /\ p.success \in BOOLEAN
         /\ p.thrown \in BOOLEAN /\ p.found \in Nat
         /\ p.found > 0 => /\ ~p.thrown /\ p.found \in 3..(n + 2)
<1>1. /\ ended = "no" /\ connection = "connected" /\ state = "ReadingHeader"
      /\ received' = received + n /\ response' = response /\ body' = body
      /\ connection' = connection /\ error' = error /\ header' = p.header
      /\ unsent' = unsent /\ elapsed' = 0
  BY DEF HeaderStep
<1>2. Phases
  BY DEF IInv
<1>3. error = "ErrorNone" /\ data = <<>>
  BY <1>1, <1>2 DEF Phases
<1>4. H' = H
  BY <1>1 DEF H
<1>5. /\ n \in Nat /\ n > 0 /\ received \in Nat /\ received + n <= Len(response)
  BY TypeFacts, ChunkFacts
<1>6. /\ p.header \in Seq(Text) /\ p.success \in BOOLEAN
      /\ p.thrown \in BOOLEAN /\ p.found \in Nat
      /\ p.found > 0 => /\ ~p.thrown /\ p.found \in 3..(n + 2)
  BY Zenon DEF Parses
<1>7. QED
  BY <1>1, <1>3, <1>4, <1>5, <1>6

\* The four ways it ends.
LEMMA HeaderCases ==
  ASSUME IInv, NEW n \in 1..(Len(response) - received), NEW p,
         Parses(p, n), HeaderStep(n, p)
  PROVE  \/ /\ p.thrown /\ ended' = "thrown" /\ state' = "ReadingHeader"
            /\ data' = <<>> /\ success' = success
         \/ /\ ~p.thrown /\ p.found = 0 /\ ended' = "no"
            /\ state' = "ReadingHeader" /\ data' = <<>> /\ success' = p.success
         \/ /\ ~p.thrown /\ p.found = n + 2 /\ ended' = "returned"
            /\ state' = "Done" /\ data' = <<>> /\ success' = FALSE
         \/ /\ ~p.thrown /\ p.found \in 3..(n + 1) /\ ended' = "no"
            /\ state' = "ReadingData" /\ success' = p.success
            /\ data' = SubSeq(response, received + p.found, received + n)
            /\ data' \in Seq(Text)
<1>1. /\ ended = "no" /\ state = "ReadingHeader" /\ data = <<>>
      /\ n \in Nat /\ p.found \in Nat /\ p.thrown \in BOOLEAN
      /\ p.found > 0 => ~p.thrown /\ p.found \in 3..(n + 2)
  BY HeaderFacts
<1>2. CASE p.thrown
  BY <1>1, <1>2 DEF HeaderStep
<1>3. CASE ~p.thrown /\ p.found = 0
  BY <1>1, <1>3 DEF HeaderStep
<1>4. CASE ~p.thrown /\ p.found # 0 /\ p.found > n + 1
  <2>1. p.found = n + 2
    BY <1>1, <1>4
  <2>2. /\ success' = FALSE /\ state' = "Done" /\ ended' = "returned"
        /\ data' = data
    BY <1>4 DEF HeaderStep
  <2>3. QED
    BY <1>1, <1>4, <2>1, <2>2
<1>5. CASE ~p.thrown /\ p.found # 0 /\ ~(p.found > n + 1)
  <2>1. p.found \in 3..(n + 1) /\ p.found \in 1..(n + 1)
    BY <1>1, <1>5
  <2>2. /\ success' = p.success /\ state' = "ReadingData" /\ ended' = ended
        /\ data' = SubSeq(Chunk(n), p.found, n)
    BY <1>5 DEF HeaderStep
  <2>3. /\ SubSeq(Chunk(n), p.found, n) \in Seq(Text)
        /\ SubSeq(Chunk(n), p.found, n) =
             SubSeq(response, received + p.found, received + n)
    BY <2>1, TypeFacts, RestOfChunk
  <2>4. QED
    BY <1>1, <1>5, <2>1, <2>2, <2>3
<1>6. QED
  BY <1>1, <1>2, <1>3, <1>4, <1>5

LEMMA HeaderTypeOK ==
  ASSUME IInv, NEW n \in 1..(Len(response) - received), NEW p,
         Parses(p, n), HeaderStep(n, p)
  PROVE  TypeOK' /\ Sent' /\ Phases'
<1>1. TypeOK
  BY DEF IInv
<1>2. /\ received' = received + n /\ response' = response /\ body' = body
      /\ connection' = "connected" /\ error' = "ErrorNone" /\ header' = p.header
      /\ unsent' = unsent /\ elapsed' = 0
      /\ received + n <= Len(response) /\ n \in Nat /\ received \in Nat
      /\ p.header \in Seq(Text) /\ p.success \in BOOLEAN
  BY HeaderFacts
<1>3. /\ state' \in {"ReadingHeader", "Done", "ReadingData"}
      /\ ended' \in {"no", "returned", "thrown"}
      /\ state' = "ReadingHeader" => data' = <<>>
      /\ state' = "Done" => ended' = "returned" /\ ~success'
      /\ data' = <<>> \/ data' \in Seq(Text)
      /\ success' \in {success, p.success, FALSE}
  BY HeaderCases
<1>4. /\ unsent' \in 0..OutLen /\ elapsed' \in 0..(TimeOut + 1)
      /\ success' \in BOOLEAN /\ data' \in Seq(Text)
  <2>1. unsent' \in 0..OutLen /\ TimeOut \in Nat
    BY <1>2, TypeFacts
  <2>2. elapsed' \in 0..(TimeOut + 1)
    BY <1>2, <2>1
  <2>3. success \in BOOLEAN
    BY TypeFacts
  <2>4. success' \in BOOLEAN
    BY <1>2, <1>3, <2>3
  <2>5. data' \in Seq(Text)
    <3>1. <<>> \in Seq(Text)
      OBVIOUS
    <3>2. data' = <<>> \/ data' \in Seq(Text)
      BY <1>3
    <3>3. QED
      BY <3>1, <3>2, Zenon
  <2>6. QED
    BY <2>1, <2>2, <2>4, <2>5
<1>5. received' \in 0..Len(response')
  BY <1>2, TypeFacts
<1>6. splitAtCR' \in BOOLEAN
  BY TypeFacts DEF HeaderStep
<1>7. TypeOK'
  BY <1>2, <1>3, <1>4, <1>5, <1>6 DEF TypeOK
<1>8. Sent'
  BY <1>2 DEF IInv, Sent
<1>9. Phases'
  BY <1>2, <1>3 DEF Phases
<1>10. QED
  BY <1>7, <1>8, <1>9

LEMMA HeaderStatusRead ==
  ASSUME IInv, NEW n \in 1..(Len(response) - received), NEW p,
         Parses(p, n), HeaderStep(n, p)
  PROVE  StatusRead' /\ HeaderBegins'
<1>1. /\ received' = received + n /\ response' = response /\ header' = p.header
      /\ n \in Nat /\ received \in Nat
  BY HeaderFacts
<1>2. StatusRead
  BY DEF IInv
<1>3. \A j \in 1..received : j \in 1..(received + n)
  BY <1>1
<1>4. \A i \in 1..n : received + i \in 1..(received + n)
  BY <1>1
<1>5. \A i \in 1..Len(header) : \E j \in 1..(received + n) : header[i] = response[j]
  BY <1>2, <1>3 DEF StatusRead
<1>6. success => Status(received + n)
  <2>1. success => Status(received)
    BY <1>2 DEF StatusRead
  <2>2. QED
    BY <1>3, <2>1 DEF Status
<1>7. p.success => Status(received + n)
  <2>1. p.success => \/ success
                     \/ \E i \in 1..Len(header) : header[i] = "200 OK"
                     \/ \E i \in 1..n : response[received + i] = "200 OK"
    BY Zenon DEF Parses
  <2>2. (\E i \in 1..Len(header) : header[i] = "200 OK") => Status(received + n)
    BY <1>5, Zenon DEF Status
  <2>3. (\E i \in 1..n : response[received + i] = "200 OK") => Status(received + n)
    BY <1>4 DEF Status
  <2>4. QED
    BY <1>6, <2>1, <2>2, <2>3
<1>8. ASSUME NEW i \in 1..Len(p.header)
      PROVE  \E j \in 1..(received + n) : p.header[i] = response[j]
  <2>1. \/ \E l \in 1..Len(header) : p.header[i] = header[l]
        \/ \E l \in 1..n : p.header[i] = response[received + l]
    BY Zenon DEF Parses
  <2>2. QED
    BY <1>4, <1>5, <2>1
<1>9. success' => Status(received + n)
  BY <1>6, <1>7, HeaderCases
<1>10. Status(received)' <=> Status(received + n)
  BY <1>1 DEF Status
<1>11. StatusRead'
  BY <1>1, <1>8, <1>9, <1>10 DEF StatusRead
<1>12. HeaderBegins'
  <2>1. ended' = "no" /\ state' = "ReadingHeader" => ~p.thrown /\ p.found = 0
    BY HeaderCases
  <2>2. ~p.thrown /\ p.found = 0 /\ p.header = <<>> => response[received + n] = LF
    BY Zenon DEF Parses
  <2>3. QED
    BY <1>1, <2>1, <2>2 DEF HeaderBegins
<1>13. QED
  BY <1>11, <1>12

\* An empty line is not in the head.
LEMMA HeaderDataAfter ==
  ASSUME IInv, NEW n \in 1..(Len(response) - received), NEW p,
         Parses(p, n), HeaderStep(n, p)
  PROVE  DataAfter'
<1>1. /\ received' = received + n /\ response' = response /\ H' = H
      /\ n \in Nat /\ received \in Nat /\ received + n <= Len(response)
      /\ ended = "no" /\ state = "ReadingHeader" /\ p.found \in Nat
  BY HeaderFacts
<1>2. H \in Nat /\ Shape
  BY TypeFacts
<1> SUFFICES ASSUME state' = "ReadingData" \/ data' # <<>>
             PROVE  \E k \in (H + 3)..(received + n + 1) :
                      data' = SubSeq(response, k, received + n)
  <2>1. (received + n) + 1 = received + n + 1
    OBVIOUS
  <2>2. QED
    BY <1>1, <2>1 DEF DataAfter
<1>3. /\ p.found \in 3..(n + 1)
      /\ data' = SubSeq(response, received + p.found, received + n)
  BY HeaderCases
<1>4. PICK k \in Nat : k = received + p.found
  BY <1>1
<1>5. /\ response[k - 2] = CR
      /\ p.found = 3 => header = <<>>
      /\ p.found > 3 => response[k - 3] = LF
  <2>1. p.found > 0
    BY <1>3
  <2>2. /\ response[(received + p.found) - 2] = CR
        /\ p.found = 3 => header = <<>>
        /\ p.found > 3 => response[(received + p.found) - 3] = LF
    BY <2>1, Zenon DEF Parses
  <2>3. QED
    BY <1>4, <2>2
<1>6. k >= H + 3
  <2> SUFFICES ASSUME k < H + 3 PROVE FALSE
    BY <1>1, <1>2, <1>4
  <2>1. k - 2 \in 1..H
    <3>1. p.found >= 3
      BY <1>1, <1>3
    <3>2. k >= 3
      BY <1>1, <1>4, <3>1
    <3>3. H \in Nat
      BY <1>2
    <3>4. QED
      BY <3>2, <3>3
  <2>2. PICK i \in 1..H : i = k - 2
    BY <2>1
  <2>3. i > 1 /\ response[i - 1] # LF
    <3>1. response[i] = CR
      BY <1>5, <2>2
    <3>2. QED
      BY <1>2, <3>1 DEF Shape
  <2>4. i - 1 = k - 3
    BY <2>2, <1>4
  <2>5. ~(p.found > 3)
    BY <1>5, <2>3, <2>4
  <2>6. p.found = 3
    BY <1>3, <2>5
  <2>7. header = <<>> /\ i - 1 = received /\ received > 0
    BY <1>1, <1>4, <1>5, <2>2, <2>3, <2>6
  <2>8. response[received] = LF
    BY <1>1, <2>7 DEF IInv, HeaderBegins
  <2>9. QED
    BY <2>3, <2>7, <2>8
<1>7. k \in (H + 3)..(received + n + 1)
  BY <1>1, <1>2, <1>3, <1>4, <1>6
<1>8. QED
  BY <1>3, <1>4, <1>7

\* The line goes on in the next chunk, unless the cut is between CR and LF.
LEMMA HeaderLineKept ==
  ASSUME IInv, NEW n \in 1..(Len(response) - received), NEW p,
         p = parseHeaders(Chunk(n)), Parses(p, n), HeaderStep(n, p)
  PROVE  LineKept'
<1>1. /\ received' = received + n /\ response' = response /\ H' = H
      /\ header' = p.header /\ state = "ReadingHeader"
      /\ n \in Nat /\ n > 0 /\ received \in Nat /\ received + n <= Len(response)
      /\ p.found \in Nat /\ p.thrown \in BOOLEAN
  BY HeaderFacts
<1> SUFFICES ASSUME ~splitAtCR'
             PROVE  LineKept'
  BY DEF LineKept
<1>2. ~splitAtCR /\ (p.found \in 1..(n + 1) \/ Last(Chunk(n)) # CR)
  BY DEF HeaderStep
<1>3. LineKept
  BY DEF IInv
<1>4. received <= H
  BY <1>1, <1>2, <1>3 DEF LineKept
<1>5. PICK s \in 1..(received + 1) :
        /\ LineFrom(s, received) /\ header = SubSeq(response, s, received)
        /\ success <=> Status(s - 1)
  BY <1>1, <1>2, <1>3 DEF LineKept
<1>6. ParsesLines(p, n)
  <2>1. s \in Nat
    BY <1>1
  <2>2. ParsesLines(parseHeaders(Chunk(n)), n)
    BY <1>4, <1>5, <2>1, TypeFacts, ChunkParsesLines
  <2>3. QED
    BY <2>2
<1>7. /\ ~p.thrown
      /\ p.found = 0 =>
           /\ received + n <= H
           /\ \/ response[received + n] = CR
              \/ \E r \in Nat : /\ LineFrom(r, received + n)
                                /\ p.header = SubSeq(response, r, received + n)
                                /\ p.success <=> Status(r - 1)
      /\ p.found # 0 => /\ received + p.found = H + 3 /\ p.found <= n + 2
                        /\ p.success <=> Status(H)
  BY <1>6, Zenon DEF ParsesLines
<1>8. Last(Chunk(n)) = response[received + n]
  <2>1. Len(Chunk(n)) = n /\ \A i \in 1..n : Chunk(n)[i] = response[received + i]
    BY TypeFacts, ChunkFacts
  <2>2. n \in 1..n
    BY <1>1
  <2>3. QED
    BY <2>1, <2>2 DEF Last
<1>9. \/ /\ p.found = 0 /\ ended' = "no"
         /\ state' = "ReadingHeader" /\ success' = p.success
      \/ p.found = n + 2 /\ ended' = "returned" /\ state' = "Done"
      \/ /\ p.found \in 3..(n + 1) /\ ended' = "no"
         /\ state' = "ReadingData" /\ success' = p.success
         /\ data' = SubSeq(response, received + p.found, received + n)
  BY <1>7, HeaderCases
<1>10. CASE p.found = 0
  <2>1. p.found \notin 1..(n + 1)
    BY <1>10
  <2>2. response[received + n] # CR
    BY <1>2, <1>8, <2>1
  <2>3. PICK r \in Nat : /\ LineFrom(r, received + n)
                         /\ p.header = SubSeq(response, r, received + n)
                         /\ p.success <=> Status(r - 1)
    BY <1>7, <1>10, <2>2, Zenon
  <2>4. state' = "ReadingHeader" /\ ended' = "no" /\ success' = p.success
    BY <1>1, <1>9, <1>10
  <2>5. r \in 1..(received' + 1)
    BY <1>1, <2>3 DEF LineFrom
  <2>6. LineFrom(r, received)' <=> LineFrom(r, received + n)
    BY <1>1 DEF LineFrom
  <2>7. Status(r - 1)' <=> Status(r - 1)
    BY <1>1 DEF Status
  <2>8. received' <= H' /\ header' = SubSeq(response', r, received')
    BY <1>1, <1>7, <1>10, <2>3
  <2>9. \E x \in 1..(received' + 1) :
          /\ LineFrom(x, received)'
          /\ header' = SubSeq(response', x, received')
          /\ success' <=> Status(x - 1)'
    BY <2>3, <2>4, <2>5, <2>6, <2>7, <2>8
  <2>10. QED
    BY <2>4, <2>8, <2>9 DEF LineKept
<1>11. CASE p.found = n + 2
  <2>1. ended' = "returned" /\ state' = "Done"
    BY <1>1, <1>9, <1>11
  <2>2. QED
    BY <2>1 DEF LineKept
<1>12. CASE p.found \in 3..(n + 1)
  <2>1. /\ ended' = "no" /\ state' = "ReadingData" /\ success' = p.success
        /\ data' = SubSeq(response, received + p.found, received + n)
    BY <1>1, <1>9, <1>12
  <2>2. received + p.found = H + 3 /\ (p.success <=> Status(H))
    BY <1>1, <1>7, <1>12
  <2>3. H \in Nat
    BY TypeFacts
  <2>4. received' >= H' + 2
    <3>1. p.found <= n + 1
      BY <1>1, <1>12
    <3>2. received + n >= H + 2
      BY <1>1, <2>2, <2>3, <3>1
    <3>3. QED
      BY <1>1, <3>2
  <2>5. data' = SubSeq(response', H' + 3, received')
    BY <1>1, <2>1, <2>2
  <2>6. Status(H)' <=> Status(H)
    BY <1>1 DEF Status
  <2>7. success' <=> Status(H)'
    BY <2>1, <2>2, <2>6
  <2>8. QED
    BY <2>1, <2>4, <2>5, <2>7 DEF LineKept
<1>13. QED
  BY <1>9, <1>10, <1>11, <1>12

LEMMA ReadHeaderKeeps == ASSUME IInv, ReadHeader PROVE IInv'
<1>0. PICK n \in 1..(Len(response) - received) :
        \E p : p = parseHeaders(Chunk(n)) /\ HeaderStep(n, p)
  BY ReadHeaderSteps
<1>1. PICK p : p = parseHeaders(Chunk(n)) /\ HeaderStep(n, p)
  BY <1>0
<1>2. Parses(p, n)
  BY <1>1, TypeFacts, ChunkParsed
<1>3. TypeOK' /\ Sent' /\ Phases'
  BY <1>1, <1>2, HeaderTypeOK
<1>4. StatusRead' /\ HeaderBegins'
  BY <1>1, <1>2, HeaderStatusRead
<1>5. DataAfter'
  BY <1>1, <1>2, HeaderDataAfter
<1>6. LineKept'
  BY <1>1, <1>2, HeaderLineKept
<1>7. QED
  BY <1>3, <1>4, <1>5, <1>6 DEF IInv

LEMMA ReadDataKeeps == ASSUME IInv, ReadData PROVE IInv'
<1>1. PICK n \in 1..(Len(response) - received) :
        Arrives(n) /\ data' = data \o Chunk(n)
  BY DEF ReadData
<1>2. /\ ended = "no" /\ connection = "connected" /\ state = "ReadingData"
      /\ state' = state /\ header' = header /\ success' = success
      /\ ended' = ended /\ splitAtCR' = splitAtCR
      /\ received' = received + n /\ elapsed' = 0
      /\ response' = response /\ body' = body /\ connection' = connection
      /\ error' = error /\ unsent' = unsent
  BY <1>1 DEF ReadData, Reading, Running, Arrives
<1>3. /\ n \in Nat /\ n > 0 /\ received \in Nat /\ received + n <= Len(response)
      /\ Chunk(n) \in Seq(Text)
  BY TypeFacts, ChunkFacts
<1>4. H' = H /\ H \in Nat
  BY <1>2, TypeFacts DEF H
<1>5. TypeOK
  BY DEF IInv
<1>6. TypeOK'
  <2>1. data' \in Seq(Text)
    BY <1>1, <1>3, TypeFacts, ConcatProperties
  <2>2. received' \in 0..Len(response')
    BY <1>2, <1>3, TypeFacts
  <2>3. elapsed' \in 0..(TimeOut + 1)
    BY <1>2, TypeFacts
  <2>4. QED
    BY <1>2, <1>5, <2>1, <2>2, <2>3 DEF TypeOK
<1>7. Sent'
  BY <1>2 DEF IInv, Sent
<1>8. Phases'
  BY <1>2 DEF IInv, Phases
<1>9. StatusRead'
  <2>1. \A j \in 1..received : j \in 1..(received + n)
    BY <1>3
  <2>2. success => Status(received + n)
    <3>1. success => Status(received)
      BY DEF IInv, StatusRead
    <3>2. QED
      BY <2>1, <3>1 DEF Status
  <2>3. \A i \in 1..Len(header) : \E j \in 1..(received + n) : header[i] = response[j]
    BY <2>1 DEF IInv, StatusRead
  <2>4. Status(received)' <=> Status(received + n)
    BY <1>2 DEF Status
  <2>5. QED
    BY <1>2, <2>2, <2>3, <2>4 DEF StatusRead
<1>10. HeaderBegins'
  BY <1>2 DEF HeaderBegins
<1>11. DataAfter'
  <2>1. PICK k \in (H + 3)..(received + 1) : data = SubSeq(response, k, received)
    BY <1>2 DEF IInv, DataAfter
  <2>2. k \in 1..(received + 1) /\ k \in (H + 3)..(received + n + 1)
    BY <1>3, <1>4
  <2>3. data' = SubSeq(response, k, received + n)
    BY <1>1, <2>1, <2>2, TypeFacts, PartsJoin
  <2>4. received' + 1 = received + n + 1
    BY <1>2
  <2>5. QED
    BY <1>2, <1>4, <2>2, <2>3, <2>4 DEF DataAfter
<1>12. LineKept'
  <2> SUFFICES ASSUME ~splitAtCR PROVE LineKept'
    BY <1>2 DEF LineKept
  <2>1. /\ received >= H + 2 /\ data = SubSeq(response, H + 3, received)
        /\ success <=> Status(H)
    BY <1>2 DEF IInv, LineKept
  <2>2. H + 3 \in 1..(received + 1)
    BY <1>3, <1>4, <2>1
  <2>3. data' = SubSeq(response, H + 3, received + n)
    BY <1>1, <2>1, <2>2, TypeFacts, PartsJoin
  <2>4. received' >= H' + 2 /\ data' = SubSeq(response', H' + 3, received')
    BY <1>2, <1>3, <1>4, <2>1, <2>3
  <2>5. Status(H)' <=> Status(H)
    BY <1>2, <1>4 DEF Status
  <2>6. QED
    BY <1>2, <2>1, <2>4, <2>5 DEF LineKept
<1>13. QED
  BY <1>6, <1>7, <1>8, <1>9, <1>10, <1>11, <1>12 DEF IInv

LEMMA StutterKeeps == ASSUME IInv, UNCHANGED vars PROVE IInv'
<1>1. /\ response' = response /\ body' = body /\ connection' = connection
      /\ error' = error /\ unsent' = unsent /\ elapsed' = elapsed
      /\ received' = received /\ state' = state /\ header' = header
      /\ data' = data /\ success' = success /\ ended' = ended
      /\ splitAtCR' = splitAtCR
  BY DEF vars, socket, parse
<1>2. H' = H
  BY <1>1 DEF H
<1>3. TypeOK' /\ Sent' /\ Phases'
  BY <1>1 DEF IInv, TypeOK, Sent, Phases
<1>4. StatusRead' /\ HeaderBegins'
  BY <1>1 DEF IInv, StatusRead, Status, HeaderBegins
<1>5. DataAfter'
  BY <1>1, <1>2 DEF IInv, DataAfter
<1>6. LineKept'
  <2>1. Status(H)' <=> Status(H)
    BY <1>1, <1>2 DEF Status
  <2>2. ASSUME NEW s
        PROVE  /\ LineFrom(s, received)' <=> LineFrom(s, received)
               /\ Status(s - 1)' <=> Status(s - 1)
    BY <1>1 DEF LineFrom, Status
  <2>3. QED
    BY <1>1, <1>2, <2>1, <2>2 DEF IInv, LineKept
<1>7. QED
  BY <1>3, <1>4, <1>5, <1>6 DEF IInv

-----------------------------------------------------------------------------
(***************************************************************************)
(* The theorems.                                                           *)
(***************************************************************************)
\* The invariant the three properties follow from: what the parser keeps in
\* header and data is what it has read since the line, or the body, began.
THEOREM SpecIInv == Spec => []IInv
<1>1. Init => IInv
  BY InitIInv
<1>2. IInv /\ [Next]_vars => IInv'
  <2> SUFFICES ASSUME IInv, [Next]_vars PROVE IInv'
    OBVIOUS
  <2>1. CASE ConnectFails
    BY <2>1, ConnectFailsKeeps
  <2>2. CASE ConnectWaits
    BY <2>2, ConnectWaitsKeeps
  <2>3. CASE Send
    BY <2>3, SendKeeps
  <2>4. CASE SendFails
    BY <2>4, SendFailsKeeps
  <2>5. CASE SendBlocks
    BY <2>5, SendBlocksKeeps
  <2>6. CASE EndOfStream
    BY <2>6, EndOfStreamKeeps
  <2>7. CASE RecvFails \/ RecvBlocks
    BY <2>7, RecvKeeps
  <2>8. CASE ReadHeader
    BY <2>8, ReadHeaderKeeps
  <2>9. CASE ReadData
    BY <2>9, ReadDataKeeps
  <2>10. CASE Clock
    BY <2>10, ClockKeeps
  <2>11. CASE UNCHANGED vars
    BY <2>11, StutterKeeps
  <2>12. QED
    BY <2>1, <2>2, <2>3, <2>4, <2>5, <2>6, <2>7, <2>8, <2>9, <2>10, <2>11
    DEF Next, Think
<1>3. QED
  BY <1>1, <1>2, PTL DEF Spec

LEMMA HeadStatus ==
  ASSUME response \in Seq(Text), NEW m \in Nat, m <= Len(response)
  PROVE  IsStatus(SubSeq(response, 1, m)) <=> \E i \in 1..m : response[i] = "200 OK"
<1>1. PICK o \in Nat : o = 1
  OBVIOUS
<1>2. o > 0 /\ o <= m + 1
  BY <1>1
<1>3. IsStatus(SubSeq(response, o, m)) <=> \E i \in o..m : response[i] = "200 OK"
  BY <1>2, LineStatus
<1>4. QED
  BY <1>1, <1>3

\* A request that succeeds has met no error and has read a 200 OK.
THEOREM SpecSuccessIsMeant == Spec => []SuccessIsMeant
<1>1. IInv => SuccessIsMeant
  <2> SUFFICES ASSUME IInv, ended = "returned", success
               PROVE  /\ error = "ErrorNone"
                      /\ "200 OK" \in ToSet(SubSeq(response, 1, received))
    BY DEF SuccessIsMeant, Accepted
  <2>1. error = "ErrorNone"
    BY DEF IInv, Phases
  <2>2. PICK m \in Nat : m = received /\ m <= Len(response)
    BY TypeFacts
  <2>3. PICK j \in 1..m : response[j] = "200 OK"
    BY <2>2 DEF IInv, StatusRead, Status
  <2>4. IsStatus(SubSeq(response, 1, m)) <=> \E i \in 1..m : response[i] = "200 OK"
    BY <2>2, TypeFacts, HeadStatus
  <2>5. IsStatus(SubSeq(response, 1, received))
    BY <2>2, <2>3, <2>4
  <2>6. QED
    BY <2>1, <2>5 DEF IsStatus
<1>2. QED
  BY <1>1, SpecIInv, PTL

\* A part of the response after the head is a part of the body.
LEMMA PartOfBody ==
  ASSUME response \in Seq(Text), body \in Seq(Text), Shape, NEW m \in Nat,
         m <= Len(response), NEW k \in (H + 3)..(m + 1), NEW d \in Seq(Text),
         d = SubSeq(response, k, m)
  PROVE  /\ Len(d) = m + 1 - k /\ (k - H) - 2 \in 1..((Len(body) - Len(d)) + 1)
         /\ d = SubSeq(body, (k - H) - 2, ((k - H) - 2) + Len(d) - 1)
<1>1. /\ H \in Nat /\ Len(response) = H + 2 + Len(body) /\ Len(body) \in Nat
      /\ \A i \in (H + 3)..Len(response) : response[i] = body[i - H - 2]
  BY DEF Shape
<1>2. k \in Nat \ {0} /\ m \in 0..Len(response)
  BY <1>1
<1>3. /\ Len(d) = IF k <= m THEN m - k + 1 ELSE 0
      /\ \A i \in 1..(m - k + 1) : d[i] = response[k + i - 1]
  BY <1>2, PartFacts
<1>4. Len(d) = m + 1 - k
  BY <1>1, <1>3
<1>5. PICK s \in Nat \ {0}, l \in Nat : s = (k - H) - 2 /\ l = m + 1 - k
  <2>1. (k - H) - 2 \in Nat \ {0} /\ m + 1 - k \in Nat
    BY <1>1
  <2>2. QED
    BY <2>1
<1>6. s + l - 1 <= Len(body) /\ s + l - 1 \in Nat /\ l = Len(d)
  BY <1>1, <1>4, <1>5
<1>7. PICK e \in Nat : e = s + l - 1
  BY <1>6
<1>p. /\ SubSeq(body, s, e) \in Seq(Text)
      /\ Len(SubSeq(body, s, e)) = IF s <= e THEN e - s + 1 ELSE 0
      /\ \A i \in 1..(e - s + 1) : SubSeq(body, s, e)[i] = body[s + i - 1]
  <2>1. \A i \in s..e : body[i] \in Text
    <3>1. \A i \in s..e : i \in 1..Len(body)
      BY <1>1, <1>6, <1>7
    <3>2. QED
      BY <3>1, ElementOfSeq
  <2>2. s \in Int /\ e \in Int
    OBVIOUS
  <2>3. QED
    BY <2>1, <2>2, SubSeqProperties
<1>q. PICK b \in Seq(Text) : b = SubSeq(body, s, e)
  BY <1>p
<1>8. Len(b) = l /\ \A i \in 1..l : b[i] = body[s + i - 1]
  <2>1. /\ Len(b) = IF s <= e THEN e - s + 1 ELSE 0
        /\ \A i \in 1..(e - s + 1) : b[i] = body[s + i - 1]
    BY <1>p, <1>q
  <2>2. e - s + 1 = l /\ (~(s <= e) => l = 0)
    BY <1>7
  <2>3. QED
    BY <2>1, <2>2
<1>9. ASSUME NEW i \in 1..Len(d)
      PROVE  d[i] = b[i]
  <2>1. i \in 1..l /\ i \in 1..(m - k + 1)
    BY <1>4, <1>5, <1>6
  <2>2. d[i] = response[k + i - 1]
    BY <1>3, <2>1
  <2>3. PICK j \in (H + 3)..Len(response) : j = k + i - 1
    BY <1>1, <1>5, <2>1
  <2>4. j - H - 2 = s + i - 1
    BY <1>1, <1>5, <2>1, <2>3
  <2>5. response[j] = body[s + i - 1]
    BY <1>1, <2>3, <2>4
  <2>6. b[i] = body[s + i - 1]
    BY <1>8, <2>1
  <2>7. QED
    BY <2>2, <2>3, <2>5, <2>6
<1>10. d = b
  BY <1>6, <1>8, <1>9, SeqEqual
<1>11. s \in 1..((Len(body) - Len(d)) + 1)
  BY <1>1, <1>6
<1>12. s + l - 1 = ((k - H) - 2) + Len(d) - 1
  BY <1>5, <1>6
<1>13. QED
  BY <1>4, <1>5, <1>7, <1>q, <1>10, <1>11, <1>12

\* The data is one piece of the body, wherever the response was cut.
THEOREM SpecDataIsFromBody == Spec => []DataIsFromBody
<1>1. IInv => DataIsFromBody
  <2> SUFFICES ASSUME IInv PROVE DataIsFromBody
    OBVIOUS
  <2>1. TypeOK
    BY DEF IInv
  <2>2. body \in Seq(Text) /\ Len(body) \in Nat /\ data \in Seq(Text)
    BY TypeFacts, LenProperties
  <2>3. CASE data = <<>>
    <3>1. Len(data) = 0
      BY <2>3
    <3>2. 1 \in 1..(Len(body) - Len(data) + 1)
      BY <2>2, <3>1
    <3>3. data = SubSeq(body, 1, 1 + Len(data) - 1)
      BY <2>3, <3>1, SubSeqEmpty
    <3>4. QED
      BY <2>1, <3>2, <3>3 DEF DataIsFromBody
  <2>4. CASE data # <<>>
    <3>1. PICK k \in (H + 3)..(received + 1) : data = SubSeq(response, k, received)
      BY <2>4 DEF IInv, DataAfter
    <3>2. received \in Nat /\ received <= Len(response)
      BY TypeFacts
    <3>3. /\ (k - H) - 2 \in 1..((Len(body) - Len(data)) + 1)
          /\ data = SubSeq(body, (k - H) - 2, ((k - H) - 2) + Len(data) - 1)
      BY <2>2, <3>1, <3>2, TypeFacts, PartOfBody
    <3>4. QED
      BY <2>1, <3>3 DEF DataIsFromBody
  <2>5. QED
    BY <2>3, <2>4
<1>2. QED
  BY <1>1, SpecIInv, PTL

\* A response that comes whole, with no cut between a CR and its LF, is handed
\* out whole and judged by its head; without such a cut nothing throws.
THEOREM SpecWholeResponseIsDelivered == Spec => []WholeResponseIsDelivered
<1>1. IInv => WholeResponseIsDelivered
  <2> SUFFICES ASSUME IInv PROVE WholeResponseIsDelivered
    OBVIOUS
  <2>1. ended = "thrown" => splitAtCR
    BY DEF IInv, LineKept
  <2>2. ASSUME Whole, ~splitAtCR
        PROVE  ended = "returned" /\ data = body
                 /\ success = ("200 OK" \in ToSet(head))
    <3>1. received = Len(response) /\ connection = "closed"
      BY <2>2 DEF Whole
    <3>2. ended = "returned" /\ state \in {"ReadingHeader", "ReadingData"}
      BY <3>1 DEF IInv, Phases
    <3>3. /\ H \in Nat /\ Len(response) = H + 2 + Len(body) /\ Len(body) \in Nat
          /\ response \in Seq(Text) /\ body \in Seq(Text)
          /\ success \in BOOLEAN /\ data \in Seq(Text)
      BY TypeFacts DEF Shape
    <3>4. state = "ReadingData"
      <4>1. state = "ReadingHeader" => received <= H
        BY <2>2 DEF IInv, LineKept
      <4>2. ~(received <= H)
        BY <3>1, <3>3
      <4>3. QED
        BY <3>2, <4>1, <4>2
    <3>5. data = SubSeq(response, H + 3, received) /\ (success <=> Status(H))
      BY <2>2, <3>4 DEF IInv, LineKept
    <3>6. data = body
      <4>1. PICK m \in Nat : m = received /\ m = Len(response)
        BY <3>1, <3>3
      <4>2. PICK k \in (H + 3)..(m + 1) : k = H + 3
        BY <3>3, <4>1
      <4>3. /\ Len(data) = m + 1 - k
            /\ data = SubSeq(body, (k - H) - 2, ((k - H) - 2) + Len(data) - 1)
        <5>1. data = SubSeq(response, k, m)
          BY <3>5, <4>1, <4>2
        <5>2. m <= Len(response) /\ Shape
          BY <3>3, <4>1, TypeFacts
        <5>3. QED
          BY <3>3, <5>1, <5>2, PartOfBody
      <4>4. Len(data) = Len(body) /\ (k - H) - 2 = 1
        BY <3>3, <4>1, <4>2, <4>3
      <4>5. data = SubSeq(body, 1, Len(body))
        BY <3>3, <4>3, <4>4
      <4>6. QED
        BY <3>3, <4>5, SubSeqFull
    <3>7. success = ("200 OK" \in ToSet(head))
      <4>1. IsStatus(SubSeq(response, 1, H)) <=>
              \E i \in 1..H : response[i] = "200 OK"
        <5>1. H <= Len(response)
          BY <3>3
        <5>2. QED
          BY <3>3, <5>1, HeadStatus
      <4>2. head = SubSeq(response, 1, H)
        BY DEF head, H
      <4>3. success <=> IsStatus(head)
        BY <3>5, <4>1, <4>2 DEF Status
      <4>4. QED
        BY <3>3, <4>3 DEF IsStatus
    <3>8. QED
      BY <3>2, <3>6, <3>7
  <2>3. QED
    BY <2>1, <2>2 DEF WholeResponseIsDelivered
<1>2. QED
  BY <1>1, SpecIInv, PTL
=============================================================================
