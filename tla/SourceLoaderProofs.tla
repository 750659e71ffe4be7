------------------------- MODULE SourceLoaderProofs -------------------------
(***************************************************************************)
(* Proofs about SourceLoader, for any sources, any number of parsers and   *)
(* any size of the batch.                                                  *)
(***************************************************************************)
EXTENDS SourceLoader, SequenceTheorems, FiniteSetTheorems, TLAPS

-----------------------------------------------------------------------------
(* Queues, by what they hold.                                              *)

\* The members of S are at one place of queue at most.
Once(queue, S) ==
    \A i, j \in 1 .. Len(queue): queue[i] \in S /\ queue[i] = queue[j] => i = j

\* Nothing but end markers follows an end marker.
MarkersLast(queue) ==
    \A i, j \in 1 .. Len(queue):
        i < j /\ queue[i] = EndOfQueueMarker => queue[j] = EndOfQueueMarker

EndsWithMarker(queue) == queue = <<>> \/ ~IsItem(queue[Len(queue)])

LEMMA AppendFacts ==
    ASSUME NEW q \in Seq(Int), NEW e \in Int, NEW S
    PROVE  /\ Append(q, e) \in Seq(Int)
           /\ Range(Append(q, e)) = Range(q) \cup {e}
           /\ Once(q, S) /\ (e \in S => e \notin Range(q)) => Once(Append(q, e), S)
           /\ MarkersLast(q) /\ (e = 0 \/ 0 \notin Range(q)) => MarkersLast(Append(q, e))
           /\ e <= 0 => EndsWithMarker(Append(q, e))
<1> DEFINE r == Append(q, e)
<1>1. /\ r \in Seq(Int) /\ Len(r) = Len(q) + 1 /\ Len(q) \in Nat
      /\ \A i \in 1 .. Len(q): r[i] = q[i]
      /\ r[Len(q) + 1] = e
  BY AppendProperties, LenProperties
<1>2. /\ Range(q) = {q[i]: i \in 1 .. Len(q)}
      /\ Range(r) = {r[i]: i \in 1 .. Len(r)}
  BY <1>1, RangeEquality
<1> HIDE DEF r
<1>3. Range(r) = Range(q) \cup {e}
  <2>1. ASSUME NEW x \in Range(r) PROVE x \in Range(q) \cup {e}
    BY <1>1, <1>2
  <2>2. ASSUME NEW x \in Range(q) \cup {e} PROVE x \in Range(r)
    BY <1>1, <1>2
  <2>3. QED
    BY <2>1, <2>2
<1>4. ASSUME Once(q, S), e \in S => e \notin Range(q) PROVE Once(r, S)
  <2> SUFFICES ASSUME NEW i \in 1 .. Len(r), NEW j \in 1 .. Len(r), r[i] \in S, r[i] = r[j]
               PROVE  i = j
    BY DEF Once
  <2>1. \A k \in 1 .. Len(q): q[k] \in Range(q)
    BY <1>2
  <2>2. CASE i \in 1 .. Len(q) /\ j \in 1 .. Len(q)
    BY <1>1, <1>4, <2>2 DEF Once
  <2>3. CASE i = Len(q) + 1 /\ j \in 1 .. Len(q)
    BY <1>1, <1>4, <2>1, <2>3
  <2>4. CASE j = Len(q) + 1 /\ i \in 1 .. Len(q)
    BY <1>1, <1>4, <2>1, <2>4
  <2>5. QED
    BY <1>1, <2>2, <2>3, <2>4
<1>5. ASSUME MarkersLast(q), e = 0 \/ 0 \notin Range(q) PROVE MarkersLast(r)
  <2> SUFFICES ASSUME NEW i \in 1 .. Len(r), NEW j \in 1 .. Len(r), i < j, r[i] = 0
               PROVE  r[j] = 0
    BY DEF MarkersLast, EndOfQueueMarker
  <2>1. i \in 1 .. Len(q) /\ r[i] = q[i] /\ q[i] \in Range(q)
    BY <1>1, <1>2
  <2>2. CASE j \in 1 .. Len(q)
    BY <1>1, <1>5, <2>1, <2>2 DEF MarkersLast, EndOfQueueMarker
  <2>3. CASE j = Len(q) + 1
    BY <1>1, <1>5, <2>1, <2>3
  <2>4. j \in 1 .. Len(q) \/ j = Len(q) + 1
    BY <1>1
  <2>5. QED
    BY <2>2, <2>3, <2>4
<1>6. e <= 0 => EndsWithMarker(r)
  BY <1>1 DEF EndsWithMarker, IsItem
<1>7. QED
  BY <1>1, <1>3, <1>4, <1>5, <1>6 DEF r

LEMMA TailFacts ==
    ASSUME NEW q \in Seq(Int), q # <<>>, NEW S
    PROVE  /\ Head(q) \in Int
           /\ Tail(q) \in Seq(Int)
           /\ Range(q) = {Head(q)} \cup Range(Tail(q))
           /\ Once(q, S) => Once(Tail(q), S) /\ (Head(q) \in S => Head(q) \notin Range(Tail(q)))
           /\ MarkersLast(q) => MarkersLast(Tail(q)) /\ (Head(q) = 0 => Range(q) \subseteq {0})
           /\ EndsWithMarker(q) => EndsWithMarker(Tail(q))
<1> DEFINE r == Tail(q)
<1>1. /\ Head(q) \in Int /\ Head(q) = q[1]
      /\ r \in Seq(Int) /\ Len(r) = Len(q) - 1 /\ Len(q) \in Nat \ {0}
      /\ \A i \in 1 .. Len(r): r[i] = q[i + 1]
  BY HeadTailProperties, LenProperties, EmptySeq
<1>2. /\ Range(q) = {q[i]: i \in 1 .. Len(q)}
      /\ Range(r) = {r[i]: i \in 1 .. Len(r)}
  BY <1>1, RangeEquality
<1>3. \A i \in 1 .. Len(q): i = 1 \/ (i - 1 \in 1 .. Len(r) /\ q[i] = r[i - 1])
  BY <1>1
<1> HIDE DEF r
<1>4. Range(q) = {Head(q)} \cup Range(r)
  <2>1. ASSUME NEW x \in Range(q) PROVE x \in {Head(q)} \cup Range(r)
    <3>1. PICK i \in 1 .. Len(q): x = q[i]
      BY <1>2
    <3>2. x = q[1] \/ (i - 1 \in 1 .. Len(r) /\ x = r[i - 1])
      BY <1>3, <3>1
    <3>3. QED
      BY <1>1, <1>2, <3>2
  <2>2. ASSUME NEW x \in {Head(q)} \cup Range(r) PROVE x \in Range(q)
    BY <1>1, <1>2
  <2>3. QED
    BY <2>1, <2>2
<1>5. ASSUME Once(q, S) PROVE Once(r, S) /\ (Head(q) \in S => Head(q) \notin Range(r))
  <2>1. ASSUME NEW i \in 1 .. Len(r), NEW j \in 1 .. Len(r), r[i] \in S, r[i] = r[j]
        PROVE  i = j
    <3>1. /\ i + 1 \in 1 .. Len(q) /\ q[i + 1] = r[i]
          /\ j + 1 \in 1 .. Len(q) /\ q[j + 1] = r[j]
          /\ i \in Int /\ j \in Int
      BY <1>1
    <3>2. i + 1 = j + 1
      BY <1>5, <2>1, <3>1 DEF Once
    <3>3. QED
      BY <3>1, <3>2
  <2>2. ASSUME Head(q) \in S, NEW i \in 1 .. Len(r), Head(q) = r[i] PROVE FALSE
    <3>1. i + 1 \in 1 .. Len(q) /\ q[i + 1] = r[i] /\ i + 1 # 1 /\ 1 \in 1 .. Len(q)
      BY <1>1
    <3>2. q[1] \in S /\ q[1] = q[i + 1]
      BY <1>1, <2>2, <3>1
    <3>3. QED
      BY <1>5, <3>1, <3>2 DEF Once
  <2>3. QED
    BY <1>2, <2>1, <2>2 DEF Once
<1>6. ASSUME MarkersLast(q) PROVE MarkersLast(r) /\ (Head(q) = 0 => Range(q) \subseteq {0})
  <2>1. ASSUME NEW i \in 1 .. Len(r), NEW j \in 1 .. Len(r), i < j, r[i] = 0 PROVE r[j] = 0
    <3>1. /\ i + 1 \in 1 .. Len(q) /\ q[i + 1] = r[i]
          /\ j + 1 \in 1 .. Len(q) /\ q[j + 1] = r[j]
      BY <1>1
    <3>2. i + 1 < j + 1
      BY <1>1, <2>1
    <3>3. QED
      BY <1>6, <2>1, <3>1, <3>2 DEF MarkersLast, EndOfQueueMarker
  <2>2. ASSUME Head(q) = 0, NEW i \in 1 .. Len(q) PROVE q[i] = 0
    <3>1. CASE i = 1
      BY <1>1, <2>2, <3>1
    <3>2. CASE 1 < i
      <4>1. 1 \in 1 .. Len(q) /\ q[1] = 0
        BY <1>1, <2>2
      <4>2. QED
        BY <1>6, <3>2, <4>1 DEF MarkersLast, EndOfQueueMarker
    <3>3. QED
      BY <1>1, <3>1, <3>2
  <2>3. QED
    BY <1>2, <2>1, <2>2 DEF MarkersLast, EndOfQueueMarker
<1>7. ASSUME EndsWithMarker(q) PROVE EndsWithMarker(r)
  <2>1. CASE Len(r) = 0
    BY <1>1, <2>1, EmptySeq DEF EndsWithMarker
  <2>2. CASE Len(r) # 0
    <3>1. Len(r) \in 1 .. Len(r) /\ Len(r) + 1 = Len(q)
      BY <1>1, <2>2
    <3>2. r[Len(r)] = q[Len(q)] /\ q # <<>>
      BY <1>1, <3>1
    <3>3. QED
      BY <1>7, <3>2 DEF EndsWithMarker
  <2>3. QED
    BY <2>1, <2>2
<1>8. QED
  BY <1>1, <1>4, <1>5, <1>6, <1>7 DEF r

LEMMA ConcatFacts ==
    ASSUME NEW q \in Seq(Int), NEW r \in Seq(Int), NEW S
    PROVE  /\ q \o r \in Seq(Int)
           /\ Range(q \o r) = Range(q) \cup Range(r)
           /\ Once(q, S) /\ Once(r, S) /\ Range(q) \cap Range(r) = {} => Once(q \o r, S)
<1> DEFINE s == q \o r
<1>1. /\ s \in Seq(Int) /\ Len(s) = Len(q) + Len(r) /\ Len(q) \in Nat /\ Len(r) \in Nat
      /\ \A i \in 1 .. Len(s): s[i] = IF i <= Len(q) THEN q[i] ELSE r[i - Len(q)]
  BY ConcatProperties, LenProperties
<1>2. Range(s) = Range(q) \cup Range(r)
  BY RangeConcatenation
<1>3. /\ \A i \in 1 .. Len(q): q[i] \in Range(q)
      /\ \A i \in 1 .. Len(r): r[i] \in Range(r)
  BY RangeEquality
<1> HIDE DEF s
<1>4. ASSUME Once(q, S), Once(r, S), Range(q) \cap Range(r) = {} PROVE Once(s, S)
  <2> SUFFICES ASSUME NEW i \in 1 .. Len(s), NEW j \in 1 .. Len(s), s[i] \in S, s[i] = s[j]
               PROVE  i = j
    BY DEF Once
  <2>1. CASE i <= Len(q) /\ j <= Len(q)
    <3>1. /\ i \in 1 .. Len(q) /\ s[i] = q[i]
          /\ j \in 1 .. Len(q) /\ s[j] = q[j]
      BY <1>1, <2>1
    <3>2. QED
      BY <1>4, <3>1 DEF Once
  <2>2. CASE i > Len(q) /\ j > Len(q)
    <3>1. /\ i - Len(q) \in 1 .. Len(r) /\ j - Len(q) \in 1 .. Len(r)
          /\ s[i] = r[i - Len(q)] /\ s[j] = r[j - Len(q)]
      BY <1>1, <2>2
    <3>2. i - Len(q) = j - Len(q)
      BY <1>4, <3>1 DEF Once
    <3>3. QED
      BY <1>1, <3>2
  <2>3. ASSUME NEW k \in 1 .. Len(s), NEW l \in 1 .. Len(s), k <= Len(q), l > Len(q)
        PROVE  s[k] # s[l]
    <3>1. k \in 1 .. Len(q) /\ s[k] = q[k]
      BY <1>1, <2>3
    <3>2. l - Len(q) \in 1 .. Len(r)
      BY <1>1, <2>3
    <3>3. s[l] = r[l - Len(q)]
      BY <1>1, <2>3
    <3>4. s[k] \in Range(q) /\ s[l] \in Range(r)
      BY <1>3, <3>1, <3>2, <3>3
    <3>5. QED
      BY <1>4, <3>4
  <2>4. i <= Len(q) \/ i > Len(q)
    BY <1>1
  <2>5. j <= Len(q) \/ j > Len(q)
    BY <1>1
  <2>6. QED
    BY <2>1, <2>2, <2>3, <2>4, <2>5
<1>5. QED
  BY <1>1, <1>2, <1>4 DEF s

LEMMA EmptyFacts ==
    /\ <<>> \in Seq(Int)
    /\ Range(<<>>) = {}
    /\ \A S: Once(<<>>, S)
    /\ MarkersLast(<<>>)
    /\ EndsWithMarker(<<>>)
<1>1. <<>> \in Seq(Int) /\ Len(<<>>) = 0
  BY EmptySeq
<1>2. Range(<<>>) = {<<>>[i]: i \in 1 .. Len(<<>>)}
  BY <1>1, RangeEquality
<1>3. QED
  BY <1>1, <1>2 DEF Once, MarkersLast, EndsWithMarker

\* A set of queue members is at most as large as the queue is long.
LEMMA RangeCardinality ==
    ASSUME NEW q \in Seq(Int)
    PROVE  IsFiniteSet(Range(q)) /\ Cardinality(Range(q)) <= Len(q)
<1>1. /\ Len(q) \in Nat /\ q \in [1 .. Len(q) -> Int] /\ Range(q) = {q[i]: i \in 1 .. Len(q)}
  BY LenProperties, RangeEquality
<1>2. q \in Surjection(1 .. Len(q), Range(q))
  BY <1>1 DEF Surjection
<1>3. IsFiniteSet(1 .. Len(q)) /\ Cardinality(1 .. Len(q)) = Len(q)
  BY <1>1, FS_Interval
<1>4. QED
  BY <1>2, <1>3, FS_Surjection

-----------------------------------------------------------------------------
(* The inductive invariant.                                                *)

Holds(p, i) == parser[p] = "parse" /\ hand[p] = i

\* The parsers whose end marker the inserter received.
Received == {p \in Parser: parser[p] = "done" /\ EndItem(p) \notin Range(itemQueue)}

AllDone == \A p \in Parser: parser[p] = "done"

Phases ==
    /\ caller \in {"clear", "execute"} =>
          /\ reader = "unborn" /\ read = 0 /\ marked = 0 /\ lineQueue = <<>>
          /\ parser = [p \in Parser |-> "unborn"] /\ itemQueue = <<>>
          /\ inserter = "unborn" /\ stopped = 0 /\ batch = <<>>
    /\ caller \notin {"clear", "execute"} =>
          /\ reader # "unborn" /\ inserter # "unborn"
          /\ \A p \in Parser: parser[p] # "unborn"
    /\ caller = "clear" => Range(table) \subseteq {Old}
    /\ caller = "execute" => table = <<>>
    /\ caller = "loaded" => inserter = "done"
    /\ caller = "failed" => inserter = "failed"

Counters ==
    /\ reader = "reading" => marked = 0
    /\ reader = "marking" => marked < parserCount
    /\ inserter \in {"take", "insert"} => stopped < parserCount
    /\ inserter = "take" => Len(batch) < INSERT_BATCH_SIZE
    /\ Len(batch) <= INSERT_BATCH_SIZE

\* A marker is behind all lines when a parser takes it, and the last one
\* behind all items when the inserter does.
Markers ==
    /\ MarkersLast(lineQueue)
    /\ EndOfQueueMarker \in Range(lineQueue) => reader \in {"marking", "done"}
    /\ \A p \in Parser: parser[p] = "done" \/ Holds(p, EndOfQueueMarker) =>
          reader \in {"marking", "done"} /\ Range(lineQueue) \subseteq {EndOfQueueMarker}
    /\ \A p \in Parser: EndItem(p) \in Range(itemQueue) => parser[p] = "done"
    /\ stopped = Cardinality(Received)
    /\ AllDone => EndsWithMarker(itemQueue)
    /\ inserter \in {"flush", "done"} => AllDone /\ itemQueue = <<>>
    /\ inserter = "done" => batch = <<>>

\* What was read is at one place: in a queue, in a hand, in the batch or in
\* the table.
OnePlace ==
    /\ Once(lineQueue, Line) /\ Once(itemQueue, Int) /\ Once(batch, Int) /\ Once(table, Int)
    /\ \A p, q \in Parser: \A i \in Line: Holds(p, i) /\ Holds(q, i) => p = q
    /\ \A i \in Line:
          /\ i \in Range(lineQueue) => \A p \in Parser: ~Holds(p, i)
          /\ i \in Range(lineQueue) \/ (\E p \in Parser: Holds(p, i)) =>
                i \notin Range(itemQueue) \cup Range(batch) \cup Range(table)
          /\ i \in Range(itemQueue) => i \notin Range(batch) \cup Range(table)
          /\ i \in Range(batch) => i \notin Range(table)

OnlyRead ==
    /\ \A i \in Line: i \in Range(lineQueue) \/ (\E p \in Parser: Holds(p, i)) => i <= read
    /\ \A i \in Line: i \in Range(itemQueue) \cup Range(batch) \cup Range(table) =>
          i \in Accepted /\ i <= read
    /\ caller # "clear" => Range(table) \subseteq Line

Reached ==
    \A i \in Accepted: i <= read =>
        \/ i \in Range(lineQueue) \cup Range(itemQueue) \cup Range(batch) \cup Range(table)
        \/ \E p \in Parser: Holds(p, i)

Inv ==
    /\ TypeOK
    /\ Phases
    /\ Counters
    /\ Markers
    /\ OnePlace
    /\ OnlyRead
    /\ Reached

USE LoaderAssumption

LEMMA LineFacts ==
    ASSUME source \in Sources
    PROVE  /\ Len(source.lines) \in Nat
           /\ Line \subseteq Nat \ {0}
           /\ \A i: i \in Line <=> i \in Nat /\ 1 <= i /\ i <= Len(source.lines)
           /\ Accepted \subseteq Line
BY LenProperties DEF Line, Accepted

LEMMA SameSource == source' = source => Line' = Line /\ Accepted' = Accepted
BY DEF Line, Accepted, Accepts, ParseHostListItem, ParseAllowListItem

\* All queues hold integers.
LEMMA Queues ==
    ASSUME TypeOK
    PROVE  /\ lineQueue \in Seq(Int) /\ Range(lineQueue) \subseteq Line \cup {0}
           /\ itemQueue \in Seq(Int) /\ Range(itemQueue) \subseteq Line \cup {EndItem(p): p \in Parser}
           /\ batch \in Seq(Int) /\ Range(batch) \subseteq Line
           /\ table \in Seq(Int) /\ Range(table) \subseteq Line \cup {Old}
<1>1. source \in Sources
  BY DEF TypeOK
<1>2. Line \cup {0} \subseteq Int /\ Line \cup {EndItem(p): p \in Parser} \subseteq Int
      /\ Line \cup {Old} \subseteq Int /\ Line \subseteq Int
  BY <1>1, LineFacts DEF EndItem, Parser, Old
<1>3. /\ lineQueue \in Seq(Line \cup {0}) /\ itemQueue \in Seq(Line \cup {EndItem(p): p \in Parser})
      /\ batch \in Seq(Line) /\ table \in Seq(Line \cup {Old})
  BY DEF TypeOK, EndOfQueueMarker
<1>4. /\ lineQueue \in Seq(Int) /\ itemQueue \in Seq(Int) /\ batch \in Seq(Int) /\ table \in Seq(Int)
  BY <1>2, <1>3, SeqMonotonic
<1>5. /\ Range(lineQueue) \subseteq Line \cup {0} /\ Range(batch) \subseteq Line
      /\ Range(itemQueue) \subseteq Line \cup {EndItem(p): p \in Parser}
      /\ Range(table) \subseteq Line \cup {Old}
  BY <1>3, RangeOfSeq
<1>6. QED
  BY <1>4, <1>5

LEMMA ReceivedFacts ==
    /\ IsFiniteSet(Parser) /\ Cardinality(Parser) = parserCount
    /\ IsFiniteSet(Received) /\ Cardinality(Received) \in Nat
    /\ Cardinality(Received) <= parserCount
    /\ Cardinality(Received) = parserCount => Received = Parser
<1>1. IsFiniteSet(Parser) /\ Cardinality(Parser) = parserCount
  BY FS_Interval DEF Parser
<1>2. Received \in SUBSET Parser
  BY DEF Received
<1>3. QED
  BY <1>1, <1>2, FS_Subset, FS_CardinalityType

LEMMA InitInv == Init => Inv
<1> SUFFICES ASSUME Init PROVE Inv
  OBVIOUS
<1>1. source \in Sources /\ Len(source.lines) \in Nat /\ Line \subseteq Nat \ {0} /\ Accepted \subseteq Line
  BY LineFacts DEF Init
<1>2. /\ <<>> \in Seq(Line \cup {0}) /\ <<>> \in Seq(Line) /\ <<>> \in Seq(Line \cup {Old})
      /\ <<>> \in Seq(Line \cup {EndItem(p): p \in Parser}) /\ Len(<<>>) = 0
  BY EmptySeq
<1>3. <<Old>> \in Seq(Line \cup {Old}) /\ Range(<<Old>>) = {Old} /\ Once(<<Old>>, Int)
  BY RangeEquality DEF Once, Old, Range
<1>4. TypeOK
  <2>1. table \in Seq(Line \cup {Old}) /\ hand \in [Parser -> Line \cup {0}]
        /\ parser \in [Parser -> {"unborn", "take", "parse", "done"}]
    BY <1>2, <1>3 DEF Init, EndOfQueueMarker
  <2>2. read \in 0 .. Len(source.lines) /\ marked \in 0 .. parserCount /\ stopped \in 0 .. parserCount
    BY <1>1 DEF Init
  <2>3. QED
    BY <1>1, <1>2, <2>1, <2>2 DEF Init, TypeOK, EndOfQueueMarker
<1>5. /\ Range(table) \subseteq {Old} /\ Once(table, Int)
  BY <1>3, EmptyFacts DEF Init
<1>6. Phases /\ Counters
  BY <1>2, <1>5 DEF Init, Phases, Counters
<1>7. Received = {}
  BY DEF Init, Received
<1>8. Markers
  <2>1. parser = [p \in Parser |-> "unborn"] /\ 1 \in Parser /\ ~AllDone
    BY DEF Init, Parser, AllDone
  <2>2. QED
    BY <1>7, <2>1, EmptyFacts, FS_EmptySet DEF Init, Markers, Holds
<1>9. OnePlace
  BY <1>1, <1>5, EmptyFacts DEF Init, OnePlace, Holds, Old
<1>10. OnlyRead /\ Reached
  BY <1>1, <1>5, EmptyFacts DEF Init, OnlyRead, Reached, Holds, Old
<1>11. QED
  BY <1>4, <1>6, <1>8, <1>9, <1>10 DEF Inv

-----------------------------------------------------------------------------
(* The caller.                                                             *)

LEMMA ClearSourceHostsInv == Inv /\ ClearSourceHosts => Inv'
<1> SUFFICES ASSUME Inv, ClearSourceHosts PROVE Inv'
  OBVIOUS
<1> USE DEF Inv
<1>1. /\ caller = "clear" /\ caller' = "execute" /\ table' = <<>>
      /\ UNCHANGED <<source, reader, read, marked, lineQueue, parser, hand, itemQueue,
                     inserter, stopped, batch>>
  BY DEF ClearSourceHosts, reading, parsing, inserting
<1>2. Line' = Line /\ Accepted' = Accepted /\ Received' = Received /\ (AllDone' <=> AllDone)
  BY <1>1, SameSource DEF Received, AllDone
<1>3. table' \in Seq(Line \cup {Old}) /\ Range(table') = {} /\ Once(table', Int)
  BY <1>1, EmptySeq, EmptyFacts
<1>4. TypeOK'
  BY <1>1, <1>2, <1>3 DEF TypeOK
<1>5. Phases' /\ Counters' /\ Markers'
  BY <1>1, <1>2 DEF Phases, Counters, Markers, Holds
<1>6. OnePlace' /\ OnlyRead'
  BY <1>1, <1>2, <1>3 DEF OnePlace, OnlyRead, Holds
<1>7. Reached'
  <2>1. read = 0 /\ Accepted \subseteq Nat \ {0}
    BY <1>1, LineFacts DEF Phases, TypeOK
  <2>2. QED
    BY <1>1, <1>2, <2>1 DEF Reached
<1>8. QED
  BY <1>4, <1>5, <1>6, <1>7

LEMMA ExecuteInv == Inv /\ Execute => Inv'
<1> SUFFICES ASSUME Inv, Execute PROVE Inv'
  OBVIOUS
<1> USE DEF Inv
<1>1. /\ caller = "execute" /\ caller' = "wait" /\ reader' = "reading" /\ inserter' = "take"
      /\ parser' = [p \in Parser |-> "take"]
      /\ UNCHANGED <<source, read, marked, lineQueue, hand, itemQueue, stopped, batch, table>>
  BY DEF Execute
<1>2. Line' = Line /\ Accepted' = Accepted
  BY <1>1, SameSource
<1>3. /\ lineQueue = <<>> /\ itemQueue = <<>> /\ batch = <<>> /\ stopped = 0 /\ marked = 0 /\ table = <<>>
      /\ read = 0 /\ \A p \in Parser: parser[p] = "unborn"
  BY <1>1 DEF Phases
<1>4. /\ \A p \in Parser: parser'[p] = "take"
      /\ 1 \in Parser
  BY <1>1 DEF Parser
<1>5. TypeOK'
  BY <1>1, <1>2 DEF TypeOK
<1>6. Phases' /\ Counters'
  BY <1>1, <1>3, <1>4, EmptySeq, EmptyFacts DEF Phases, Counters
<1>7. Markers'
  <2>1. Received = {} /\ Received' = {} /\ ~AllDone'
    BY <1>3, <1>4 DEF Received, AllDone
  <2>2. QED
    BY <1>1, <1>3, <1>4, <2>1, EmptyFacts DEF Markers, Holds
<1>8. OnePlace' /\ OnlyRead'
  BY <1>1, <1>2, <1>3, <1>4, EmptyFacts DEF OnePlace, OnlyRead, Holds
<1>9. Reached'
  <2>1. Accepted \subseteq Nat \ {0}
    BY LineFacts DEF TypeOK
  <2>2. QED
    BY <1>1, <1>2, <1>3, <2>1 DEF Reached
<1>10. QED
  BY <1>5, <1>6, <1>7, <1>8, <1>9

LEMMA ReturnInv == Inv /\ Return => Inv'
<1> SUFFICES ASSUME Inv, Return PROVE Inv'
  OBVIOUS
<1> USE DEF Inv
<1>1. /\ caller = "wait"
      /\ \/ inserter = "done" /\ caller' = "loaded"
         \/ inserter = "failed" /\ caller' = "failed"
      /\ UNCHANGED <<source, reader, read, marked, lineQueue, parser, hand, itemQueue,
                     inserter, stopped, batch, table>>
  BY DEF Return, reading, parsing, inserting
<1>2. Line' = Line /\ Accepted' = Accepted /\ Received' = Received /\ (AllDone' <=> AllDone)
  BY <1>1, SameSource DEF Received, AllDone
<1>3. TypeOK' /\ Phases' /\ Counters'
  BY <1>1, <1>2 DEF TypeOK, Phases, Counters
<1>4. Markers' /\ OnePlace' /\ OnlyRead' /\ Reached'
  BY <1>1, <1>2 DEF Markers, OnePlace, OnlyRead, Reached, Holds
<1>5. QED
  BY <1>3, <1>4

-----------------------------------------------------------------------------
(* The reader.                                                             *)

LEMMA ReadLineInv == Inv /\ ReadLine => Inv'
<1> SUFFICES ASSUME Inv, ReadLine PROVE Inv'
  OBVIOUS
<1> USE DEF Inv
<1> DEFINE new == read + 1
<1>1. /\ reader = "reading" /\ read < Len(source.lines) /\ read' = new
      /\ lineQueue' = Append(lineQueue, new)
      /\ UNCHANGED <<source, caller, reader, marked, parser, hand, itemQueue, inserter, stopped,
                     batch, table>>
  BY DEF ReadLine, parsing, inserting
<1>2. Line' = Line /\ Accepted' = Accepted /\ Received' = Received /\ (AllDone' <=> AllDone)
  BY <1>1, SameSource DEF Received, AllDone
<1>3. new \in Line /\ new \in Nat \ {0} /\ read \in Nat /\ Line \subseteq Nat \ {0} /\ Accepted \subseteq Line
  <2>1. /\ Len(source.lines) \in Nat /\ Line \subseteq Nat \ {0} /\ Accepted \subseteq Line
        /\ \A i: i \in Line <=> i \in Nat /\ 1 <= i /\ i <= Len(source.lines)
    BY LineFacts DEF TypeOK
  <2>2. read \in Nat
    BY <2>1 DEF TypeOK
  <2>3. new \in Nat /\ 1 <= new /\ new <= Len(source.lines)
    BY <1>1, <2>1, <2>2
  <2>4. QED
    BY <2>1, <2>2, <2>3
<1> HIDE DEF new
<1>4. new > read /\ \A i \in Nat: i <= new <=> i <= read \/ i = new
  BY <1>3 DEF new
<1>5. /\ new \notin Range(lineQueue) \cup Range(itemQueue) \cup Range(batch) \cup Range(table)
      /\ \A p \in Parser: ~Holds(p, new)
  BY <1>3, <1>4 DEF OnlyRead
<1>6. 0 \notin Range(lineQueue)
  BY <1>1 DEF Markers, EndOfQueueMarker
<1>7. /\ Range(lineQueue') = Range(lineQueue) \cup {new}
      /\ Once(lineQueue', Line) /\ MarkersLast(lineQueue')
  BY <1>1, <1>3, <1>5, <1>6, Queues, AppendFacts DEF OnePlace, Markers
<1>8. TypeOK'
  <2>1. lineQueue' \in Seq(Line \cup {EndOfQueueMarker})
    BY <1>1, <1>3, AppendProperties DEF TypeOK
  <2>2. read' \in 0 .. Len(source.lines)
    BY <1>1, <1>3, LineFacts DEF TypeOK
  <2>3. QED
    BY <1>1, <1>2, <2>1, <2>2 DEF TypeOK
<1>9. Phases' /\ Counters'
  BY <1>1, <1>2 DEF Phases, Counters
<1>10. Markers'
  BY <1>1, <1>2, <1>3, <1>6, <1>7 DEF Markers, Holds, EndOfQueueMarker
<1>11. OnePlace'
  BY <1>1, <1>2, <1>5, <1>7 DEF OnePlace, Holds
<1>12. OnlyRead'
  BY <1>1, <1>2, <1>3, <1>4, <1>7 DEF OnlyRead, Holds
<1>13. Reached'
  BY <1>1, <1>2, <1>3, <1>4, <1>7 DEF Reached, Holds
<1>14. QED
  BY <1>8, <1>9, <1>10, <1>11, <1>12, <1>13

LEMMA StopReadingInv == Inv /\ (EndReading \/ ReadFails) => Inv'
<1> SUFFICES ASSUME Inv, EndReading \/ ReadFails PROVE Inv'
  OBVIOUS
<1> USE DEF Inv
<1>1. /\ reader = "reading" /\ reader' = "marking"
      /\ UNCHANGED <<source, caller, read, marked, lineQueue, parser, hand, itemQueue, inserter,
                     stopped, batch, table>>
  BY DEF EndReading, ReadFails, parsing, inserting
<1>2. Line' = Line /\ Accepted' = Accepted /\ Received' = Received /\ (AllDone' <=> AllDone)
  BY <1>1, SameSource DEF Received, AllDone
<1>3. TypeOK' /\ Phases' /\ Counters'
  BY <1>1, <1>2 DEF TypeOK, Phases, Counters
<1>4. Markers' /\ OnePlace' /\ OnlyRead' /\ Reached'
  BY <1>1, <1>2 DEF Markers, OnePlace, OnlyRead, Reached, Holds
<1>5. QED
  BY <1>3, <1>4

LEMMA SendMarkerInv == Inv /\ SendMarker => Inv'
<1> SUFFICES ASSUME Inv, SendMarker PROVE Inv'
  OBVIOUS
<1> USE DEF Inv
<1>1. /\ reader = "marking" /\ marked' = marked + 1
      /\ reader' = IF marked' < parserCount THEN "marking" ELSE "done"
      /\ lineQueue' = Append(lineQueue, 0)
      /\ UNCHANGED <<source, caller, read, parser, hand, itemQueue, inserter, stopped, batch, table>>
  BY DEF SendMarker, parsing, inserting, EndOfQueueMarker
<1>2. Line' = Line /\ Accepted' = Accepted /\ Received' = Received /\ (AllDone' <=> AllDone)
  BY <1>1, SameSource DEF Received, AllDone
<1>3. Line \subseteq Nat \ {0}
  BY LineFacts DEF TypeOK
<1>4. /\ Range(lineQueue') = Range(lineQueue) \cup {0}
      /\ Once(lineQueue', Line) /\ MarkersLast(lineQueue')
  BY <1>1, <1>3, Queues, AppendFacts DEF OnePlace, Markers
<1>5. TypeOK'
  <2>1. lineQueue' \in Seq(Line \cup {EndOfQueueMarker})
    BY <1>1, AppendProperties DEF TypeOK, EndOfQueueMarker
  <2>2. marked' \in 0 .. parserCount
    BY <1>1 DEF TypeOK, Counters
  <2>3. QED
    BY <1>1, <1>2, <2>1, <2>2 DEF TypeOK
<1>6. Phases' /\ Counters'
  BY <1>1, <1>2 DEF Phases, Counters
<1>7. Markers'
  BY <1>1, <1>2, <1>4 DEF Markers, Holds, EndOfQueueMarker
<1>8. OnePlace' /\ OnlyRead' /\ Reached'
  BY <1>1, <1>2, <1>3, <1>4 DEF OnePlace, OnlyRead, Reached, Holds
<1>9. QED
  BY <1>5, <1>6, <1>7, <1>8

-----------------------------------------------------------------------------
(* A parser.                                                               *)

LEMMA TakeLineInv == ASSUME Inv, NEW p \in Parser, TakeLine(p) PROVE Inv'
<1> USE DEF Inv
<1> DEFINE new == Head(lineQueue)
<1>1. /\ parser[p] = "take" /\ lineQueue # <<>> /\ lineQueue' = Tail(lineQueue)
      /\ hand' = [hand EXCEPT ![p] = new] /\ parser' = [parser EXCEPT ![p] = "parse"]
      /\ UNCHANGED <<source, caller, reader, read, marked, itemQueue, inserter, stopped, batch, table>>
  BY DEF TakeLine, reading, inserting
<1>2. Line' = Line /\ Accepted' = Accepted
  BY <1>1, SameSource
<1>3. Line \subseteq Nat \ {0} /\ Accepted \subseteq Line
  BY LineFacts DEF TypeOK
<1> HIDE DEF new
<1>4. /\ new \in Line \cup {0} /\ Range(lineQueue) = {new} \cup Range(lineQueue')
      /\ Once(lineQueue', Line) /\ (new \in Line => new \notin Range(lineQueue'))
      /\ MarkersLast(lineQueue') /\ (new = 0 => Range(lineQueue) \subseteq {0})
  BY <1>1, Queues, TailFacts DEF OnePlace, Markers, new
<1>5. /\ \A i: Holds(p, i)' <=> i = new
      /\ \A q \in Parser: q # p => parser'[q] = parser[q] /\ \A i: Holds(q, i)' <=> Holds(q, i)
      /\ parser'[p] = "parse" /\ \A i: ~Holds(p, i)
  BY <1>1 DEF TypeOK, Holds
<1>6. Received' = Received /\ ~AllDone /\ ~AllDone'
  BY <1>1, <1>5 DEF Received, AllDone
<1>7. TypeOK'
  <2>1. lineQueue' \in Seq(Line \cup {EndOfQueueMarker})
    BY <1>1, HeadTailProperties DEF TypeOK
  <2>2. hand' \in [Parser -> Line \cup {EndOfQueueMarker}]
        /\ parser' \in [Parser -> {"unborn", "take", "parse", "done"}]
    BY <1>1, <1>4 DEF TypeOK, EndOfQueueMarker
  <2>3. QED
    BY <1>1, <1>2, <2>1, <2>2 DEF TypeOK
<1>8. Phases' /\ Counters'
  <2>1. caller \notin {"clear", "execute"}
    BY <1>1 DEF Phases
  <2>2. QED
    BY <1>1, <1>2, <1>5, <2>1 DEF Phases, Counters
<1>9. Markers'
  <2>1. ASSUME NEW q \in Parser, parser'[q] = "done" \/ Holds(q, 0)'
        PROVE  reader' \in {"marking", "done"} /\ Range(lineQueue') \subseteq {0}
    <3>1. CASE q = p
      <4>1. new = 0
        BY <1>3, <1>5, <2>1, <3>1
      <4>2. QED
        BY <1>1, <1>4, <4>1 DEF Markers, EndOfQueueMarker
    <3>2. CASE q # p
      BY <1>1, <1>4, <1>5, <2>1, <3>2 DEF Markers, EndOfQueueMarker
    <3>3. QED
      BY <3>1, <3>2
  <2>2. 0 \in Range(lineQueue') => reader' \in {"marking", "done"}
    BY <1>1, <1>4 DEF Markers, EndOfQueueMarker
  <2>3. \A q \in Parser: EndItem(q) \in Range(itemQueue') => parser'[q] = "done"
    BY <1>1, <1>5 DEF Markers, EndItem
  <2>4. inserter \notin {"flush", "done"}
    BY <1>6 DEF Markers
  <2>5. QED
    BY <1>1, <1>4, <1>6, <2>1, <2>2, <2>3, <2>4 DEF Markers, EndOfQueueMarker
<1>10. OnePlace'
  BY <1>1, <1>2, <1>4, <1>5 DEF OnePlace
<1>11. OnlyRead'
  BY <1>1, <1>2, <1>4, <1>5 DEF OnlyRead
<1>12. Reached'
  BY <1>1, <1>2, <1>3, <1>4, <1>5 DEF Reached
<1>13. QED
  BY <1>7, <1>8, <1>9, <1>10, <1>11, <1>12

LEMMA ParseLineInv == ASSUME Inv, NEW p \in Parser, ParseLine(p) PROVE Inv'
<1> USE DEF Inv
<1> DEFINE i == hand[p]
           accepted == Accepts(source.lines[hand[p]])
<1>1. /\ parser[p] = "parse" /\ i > 0
      /\ itemQueue' = IF accepted THEN Append(itemQueue, i) ELSE itemQueue
      /\ parser' = [parser EXCEPT ![p] = "take"]
      /\ UNCHANGED <<source, caller, reader, read, marked, lineQueue, hand, inserter, stopped, batch, table>>
  BY DEF ParseLine, reading, inserting, IsItem
<1>2. Line' = Line /\ Accepted' = Accepted
  BY <1>1, SameSource
<1>3. Line \subseteq Nat \ {0} /\ Accepted \subseteq Line
  BY LineFacts DEF TypeOK
<1>4. i \in Line /\ (accepted <=> i \in Accepted)
  BY <1>1 DEF TypeOK, EndOfQueueMarker, Accepted
<1> HIDE DEF i, accepted
<1>5. /\ Holds(p, i) /\ \A k: Holds(p, k) => k = i
      /\ \A q \in Parser: q # p => parser'[q] = parser[q] /\ \A k: Holds(q, k)' <=> Holds(q, k)
      /\ parser'[p] = "take" /\ \A k: ~Holds(p, k)'
  BY <1>1 DEF TypeOK, Holds, i
<1>6. i <= read /\ i \notin Range(lineQueue) \cup Range(itemQueue) \cup Range(batch) \cup Range(table)
      /\ \A q \in Parser: q # p => ~Holds(q, i)
  BY <1>4, <1>5 DEF OnlyRead, OnePlace
<1>7. /\ Range(itemQueue') = IF i \in Accepted THEN Range(itemQueue) \cup {i} ELSE Range(itemQueue)
      /\ Once(itemQueue', Int)
  <2>1. itemQueue \in Seq(Int) /\ i \in Int
    BY <1>3, <1>4, Queues
  <2>2. CASE accepted
    BY <1>1, <1>4, <1>6, <2>1, <2>2, AppendFacts DEF OnePlace
  <2>3. CASE ~accepted
    BY <1>1, <1>4, <2>3 DEF OnePlace
  <2>4. QED
    BY <2>2, <2>3
<1>8. Received' = Received /\ ~AllDone /\ ~AllDone'
  <2>1. \A q \in Parser: EndItem(q) # i
    BY <1>3, <1>4 DEF EndItem, Parser
  <2>2. QED
    BY <1>1, <1>5, <1>7, <2>1 DEF Received, AllDone, EndItem
<1>9. TypeOK'
  <2>1. itemQueue' \in Seq(Line \cup {EndItem(q): q \in Parser})
    BY <1>1, <1>4, AppendProperties DEF TypeOK
  <2>2. parser' \in [Parser -> {"unborn", "take", "parse", "done"}]
    BY <1>1 DEF TypeOK
  <2>3. QED
    BY <1>1, <1>2, <2>1, <2>2 DEF TypeOK, EndItem
<1>10. Phases' /\ Counters'
  <2>1. caller \notin {"clear", "execute"}
    BY <1>1 DEF Phases
  <2>2. QED
    BY <1>1, <1>2, <1>5, <2>1 DEF Phases, Counters
<1>11. Markers'
  <2>1. \A q \in Parser: EndItem(q) \in Range(itemQueue') => EndItem(q) \in Range(itemQueue)
    BY <1>3, <1>4, <1>7 DEF EndItem, Parser
  <2>2. \A q \in Parser: EndItem(q)' = EndItem(q)
    BY DEF EndItem
  <2>3. inserter \notin {"flush", "done"}
    BY <1>8 DEF Markers
  <2>4. \A q \in Parser: EndItem(q) \in Range(itemQueue') => parser'[q] = "done"
    BY <1>1, <1>5, <2>1 DEF Markers
  <2>5. \A q \in Parser: parser'[q] = "done" \/ Holds(q, 0)' => parser[q] = "done" \/ Holds(q, 0)
    BY <1>5
  <2>6. QED
    BY <1>1, <1>8, <2>2, <2>3, <2>4, <2>5 DEF Markers, EndOfQueueMarker
<1>12. OnePlace'
  BY <1>1, <1>2, <1>5, <1>6, <1>7 DEF OnePlace
<1>13. OnlyRead'
  BY <1>1, <1>2, <1>5, <1>6, <1>7 DEF OnlyRead
<1>14. Reached'
  BY <1>1, <1>2, <1>3, <1>4, <1>5, <1>7 DEF Reached
<1>15. QED
  BY <1>9, <1>10, <1>11, <1>12, <1>13, <1>14

\* The marker of a parser is behind all that the parser sent.
LEMMA EndParsingInv == ASSUME Inv, NEW p \in Parser, EndParsing(p) PROVE Inv'
<1> USE DEF Inv
<1>1. /\ parser[p] = "parse" /\ hand[p] = 0
      /\ itemQueue' = Append(itemQueue, EndItem(p))
      /\ parser' = [parser EXCEPT ![p] = "done"]
      /\ UNCHANGED <<source, caller, reader, read, marked, lineQueue, hand, inserter, stopped, batch, table>>
  BY DEF EndParsing, reading, inserting, EndOfQueueMarker
<1>2. Line' = Line /\ Accepted' = Accepted
  BY <1>1, SameSource
<1>3. Line \subseteq Nat \ {0} /\ Accepted \subseteq Line
  BY LineFacts DEF TypeOK
<1>4. /\ EndItem(p) \in Int /\ EndItem(p) < 0 /\ EndItem(p) \notin Line
      /\ \A q \in Parser: EndItem(q)' = EndItem(q) /\ (EndItem(q) = EndItem(p) => q = p)
  BY <1>3 DEF EndItem, Parser
<1>5. /\ Holds(p, 0) /\ \A k: Holds(p, k) => k = 0
      /\ \A q \in Parser: q # p => parser'[q] = parser[q] /\ \A k: Holds(q, k)' <=> Holds(q, k)
      /\ parser'[p] = "done" /\ \A k: ~Holds(p, k)'
  BY <1>1 DEF TypeOK, Holds
<1>6. EndItem(p) \notin Range(itemQueue)
  BY <1>1 DEF Markers
<1>7. /\ Range(itemQueue') = Range(itemQueue) \cup {EndItem(p)}
      /\ Once(itemQueue', Int) /\ EndsWithMarker(itemQueue')
  BY <1>1, <1>4, <1>6, Queues, AppendFacts DEF OnePlace
<1>8. Received' = Received
  <2>1. ASSUME NEW q \in Parser, q # p
        PROVE  EndItem(q) \in Range(itemQueue') <=> EndItem(q) \in Range(itemQueue)
    BY <1>4, <1>7, <2>1
  <2>2. ASSUME NEW q \in Parser PROVE q \in Received' <=> q \in Received
    <3>1. CASE q = p
      BY <1>1, <1>4, <1>7, <3>1 DEF Received
    <3>2. CASE q # p
      BY <1>4, <1>5, <2>1, <3>2 DEF Received
    <3>3. QED
      BY <3>1, <3>2
  <2>3. QED
    BY <2>2 DEF Received
<1>9. ~AllDone
  BY <1>1 DEF AllDone
<1>10. TypeOK'
  <2>1. itemQueue' \in Seq(Line \cup {EndItem(q): q \in Parser})
    BY <1>1, AppendProperties DEF TypeOK
  <2>2. parser' \in [Parser -> {"unborn", "take", "parse", "done"}]
    BY <1>1 DEF TypeOK
  <2>3. QED
    BY <1>1, <1>2, <2>1, <2>2 DEF TypeOK, EndItem
<1>11. Phases' /\ Counters'
  <2>1. caller \notin {"clear", "execute"}
    BY <1>1 DEF Phases
  <2>2. QED
    BY <1>1, <1>2, <1>5, <2>1 DEF Phases, Counters
<1>12. Markers'
  <2>1. \A q \in Parser: EndItem(q)' \in Range(itemQueue') => parser'[q] = "done"
    BY <1>4, <1>5, <1>7 DEF Markers
  <2>2. \A q \in Parser: parser'[q] = "done" \/ Holds(q, 0)' => parser[q] = "done" \/ Holds(q, 0) \/ q = p
    BY <1>5
  <2>3. inserter \notin {"flush", "done"}
    BY <1>9 DEF Markers
  <2>4. QED
    BY <1>1, <1>5, <1>7, <1>8, <2>1, <2>2, <2>3 DEF Markers, EndOfQueueMarker
<1>13. OnePlace'
  BY <1>1, <1>2, <1>4, <1>5, <1>7 DEF OnePlace
<1>14. OnlyRead'
  BY <1>1, <1>2, <1>4, <1>5, <1>7 DEF OnlyRead
<1>15. Reached'
  BY <1>1, <1>2, <1>3, <1>5, <1>7 DEF Reached
<1>16. QED
  BY <1>10, <1>11, <1>12, <1>13, <1>14, <1>15

-----------------------------------------------------------------------------
(* The inserter.                                                           *)

LEMMA TakeItemInv == Inv /\ TakeItem => Inv'
<1> SUFFICES ASSUME Inv, TakeItem PROVE Inv'
  OBVIOUS
<1> USE DEF Inv
<1> DEFINE new == Head(itemQueue)
<1>1. /\ inserter = "take" /\ itemQueue # <<>> /\ new > 0
      /\ itemQueue' = Tail(itemQueue) /\ batch' = Append(batch, new)
      /\ inserter' = IF Len(batch') >= INSERT_BATCH_SIZE THEN "insert" ELSE "take"
      /\ UNCHANGED <<source, caller, reader, read, marked, lineQueue, parser, hand, stopped, table>>
  BY DEF TakeItem, reading, parsing, IsItem
<1>2. Line' = Line /\ Accepted' = Accepted /\ (AllDone' <=> AllDone)
      /\ \A q \in Parser: EndItem(q)' = EndItem(q)
  BY <1>1, SameSource DEF AllDone, EndItem
<1>3. Line \subseteq Nat \ {0} /\ Accepted \subseteq Line
  BY LineFacts DEF TypeOK
<1> HIDE DEF new
<1>4. /\ new \in Int /\ Range(itemQueue) = {new} \cup Range(itemQueue') /\ new \notin Range(itemQueue')
      /\ Once(itemQueue', Int) /\ (EndsWithMarker(itemQueue) => EndsWithMarker(itemQueue'))
  BY <1>1, Queues, TailFacts DEF OnePlace, new
<1>5. new \in Line /\ \A q \in Parser: EndItem(q) # new
  <2>1. \A q \in Parser: EndItem(q) < 0
    BY DEF EndItem, Parser
  <2>2. QED
    BY <1>1, <1>4, <2>1, Queues
<1>6. new \notin Range(batch) \cup Range(table) /\ new \in Accepted /\ new <= read
  BY <1>4, <1>5 DEF OnePlace, OnlyRead
<1>7. /\ Range(batch') = Range(batch) \cup {new} /\ Once(batch', Int)
  BY <1>1, <1>4, <1>6, Queues, AppendFacts DEF OnePlace
<1>8. Received' = Received
  BY <1>1, <1>2, <1>4, <1>5 DEF Received
<1>9. batch' \in Seq(Line) /\ Len(batch') = Len(batch) + 1 /\ Len(batch) \in Nat
  BY <1>1, <1>5, AppendProperties, LenProperties DEF TypeOK
<1>10. TypeOK'
  <2>1. itemQueue' \in Seq(Line \cup {EndItem(q): q \in Parser})
    BY <1>1, HeadTailProperties DEF TypeOK
  <2>2. QED
    BY <1>1, <1>2, <1>9, <2>1 DEF TypeOK, EndItem
<1>11. Phases'
  <2>1. caller \notin {"clear", "execute", "loaded", "failed"}
    BY <1>1 DEF Phases
  <2>2. QED
    BY <1>1, <1>2, <2>1 DEF Phases, TypeOK
<1>12. Counters'
  BY <1>1, <1>9 DEF Counters
<1>13. Markers'
  BY <1>1, <1>2, <1>4, <1>8 DEF Markers, Holds
<1>14. OnePlace'
  BY <1>1, <1>2, <1>4, <1>6, <1>7 DEF OnePlace, Holds
<1>15. OnlyRead'
  BY <1>1, <1>2, <1>4, <1>6, <1>7 DEF OnlyRead, Holds
<1>16. Reached'
  BY <1>1, <1>2, <1>4, <1>7 DEF Reached, Holds
<1>17. QED
  BY <1>10, <1>11, <1>12, <1>13, <1>14, <1>15, <1>16

\* The inserter counts a parser when it takes its marker; when it has counted
\* all of them, the queue has no marker left, thus no item either.
LEMMA TakeMarkerInv == Inv /\ TakeMarker => Inv'
<1> SUFFICES ASSUME Inv, TakeMarker PROVE Inv'
  OBVIOUS
<1> USE DEF Inv
<1> DEFINE new == Head(itemQueue)
<1>1. /\ inserter = "take" /\ itemQueue # <<>> /\ ~(new > 0)
      /\ itemQueue' = Tail(itemQueue) /\ stopped' = stopped + 1
      /\ inserter' = IF stopped' >= parserCount THEN "flush" ELSE "take"
      /\ UNCHANGED <<source, caller, reader, read, marked, lineQueue, parser, hand, batch, table>>
  BY DEF TakeMarker, reading, parsing, IsItem
<1>2. Line' = Line /\ Accepted' = Accepted /\ (AllDone' <=> AllDone)
      /\ \A q \in Parser: EndItem(q)' = EndItem(q)
  BY <1>1, SameSource DEF AllDone, EndItem
<1>3. Line \subseteq Nat \ {0} /\ Accepted \subseteq Line
  BY LineFacts DEF TypeOK
<1> HIDE DEF new
<1>4. /\ new \in Int /\ Range(itemQueue) = {new} \cup Range(itemQueue') /\ new \notin Range(itemQueue')
      /\ Once(itemQueue', Int) /\ (EndsWithMarker(itemQueue) => EndsWithMarker(itemQueue'))
  BY <1>1, Queues, TailFacts DEF OnePlace, new
<1>5. \A x \in Range(itemQueue): ~(x > 0) => \E p \in Parser: x = EndItem(p)
  <2> SUFFICES ASSUME NEW x \in Range(itemQueue), ~(x > 0) PROVE \E p \in Parser: x = EndItem(p)
    OBVIOUS
  <2>1. ASSUME x \in Line PROVE FALSE
    <3>1. x \in Nat /\ x # 0
      BY <1>3, <2>1
    <3>2. QED
      BY <3>1
  <2>2. Range(itemQueue) \subseteq Line \cup {EndItem(p): p \in Parser}
    BY Queues
  <2>3. x \in {EndItem(p): p \in Parser}
    BY <2>1, <2>2
  <2>4. QED
    BY <2>3
<1>55. PICK p \in Parser: new = EndItem(p)
  BY <1>1, <1>4, <1>5
<1>6. parser[p] = "done" /\ \A q \in Parser: EndItem(q) = new => q = p
  BY <1>4, <1>55 DEF Markers, EndItem, Parser
<1>7. p \notin Received /\ Received' = Received \cup {p}
  <2>1. p \notin Received
    BY <1>4, <1>55 DEF Received
  <2>2. ASSUME NEW q \in Parser PROVE q \in Received' <=> q \in Received \cup {p}
    BY <1>1, <1>2, <1>4, <1>55, <1>6 DEF Received
  <2>3. QED
    BY <2>1, <2>2 DEF Received
<1>8. stopped' = Cardinality(Received')
  BY <1>1, <1>7, ReceivedFacts, FS_AddElement DEF Markers
<1>9. stopped < parserCount /\ stopped \in Nat
  BY <1>1 DEF Counters, TypeOK
<1>10. TypeOK'
  <2>1. itemQueue' \in Seq(Line \cup {EndItem(q): q \in Parser})
    BY <1>1, HeadTailProperties DEF TypeOK
  <2>2. stopped' \in 0 .. parserCount
    BY <1>1, <1>9
  <2>3. QED
    BY <1>1, <1>2, <2>1, <2>2 DEF TypeOK, EndItem
<1>11. Phases'
  <2>1. caller \notin {"clear", "execute", "loaded", "failed"}
    BY <1>1 DEF Phases
  <2>2. QED
    BY <1>1, <1>2, <2>1 DEF Phases, TypeOK
<1>12. Counters'
  BY <1>1, <1>9 DEF Counters
<1>13. ASSUME inserter' = "flush" PROVE AllDone' /\ itemQueue' = <<>>
  <2>1. stopped' = parserCount
    BY <1>1, <1>9, <1>13
  <2>2. Received' = Parser
    <3>1. Received' \in SUBSET Parser
      BY <1>7, <1>55 DEF Received
    <3>2. QED
      BY <1>8, <2>1, <3>1, ReceivedFacts, FS_Subset
  <2>3. AllDone'
    BY <2>2 DEF Received, AllDone
  <2>4. EndsWithMarker(itemQueue')
    BY <1>2, <1>4, <2>3 DEF Markers
  <2>5. ASSUME itemQueue' # <<>> PROVE FALSE
    <3>1. itemQueue' \in Seq(Int)
      BY <1>1, Queues, HeadTailProperties
    <3>2. Len(itemQueue') \in 1 .. Len(itemQueue')
      BY <2>5, <3>1, EmptySeq, LenProperties
    <3>3. itemQueue'[Len(itemQueue')] \in Range(itemQueue')
      BY <3>1, <3>2, RangeEquality
    <3>4. ~(itemQueue'[Len(itemQueue')] > 0)
      BY <2>4, <2>5 DEF EndsWithMarker, IsItem
    <3>5. PICK q \in Parser: itemQueue'[Len(itemQueue')] = EndItem(q)
      BY <1>4, <1>5, <3>3, <3>4
    <3>6. q \notin Received'
      BY <1>2, <3>3, <3>5 DEF Received
    <3>7. QED
      BY <2>2, <3>6
  <2>6. QED
    BY <2>3, <2>5
<1>14. Markers'
  BY <1>1, <1>2, <1>4, <1>8, <1>13 DEF Markers, Holds
<1>15. OnePlace'
  BY <1>1, <1>2, <1>4 DEF OnePlace, Holds
<1>16. OnlyRead'
  BY <1>1, <1>2, <1>4 DEF OnlyRead, Holds
<1>17. Reached'
  <2>1. new \notin Accepted
    BY <1>1, <1>3, <1>4
  <2>2. QED
    BY <1>1, <1>2, <1>4, <2>1 DEF Reached, Holds
<1>18. QED
  BY <1>10, <1>11, <1>12, <1>14, <1>15, <1>16, <1>17

LEMMA InsertInv == Inv /\ (InsertBatch \/ Flush) => Inv'
<1> SUFFICES ASSUME Inv, InsertBatch \/ Flush PROVE Inv'
  OBVIOUS
<1> USE DEF Inv
<1>1. /\ table' = table \o batch /\ batch' = <<>>
      /\ \/ inserter = "insert" /\ inserter' = "take"
         \/ inserter = "flush" /\ inserter' = "done"
      /\ UNCHANGED <<source, caller, reader, read, marked, lineQueue, parser, hand, itemQueue, stopped>>
  BY DEF InsertBatch, Flush, reading, parsing
<1>2. Line' = Line /\ Accepted' = Accepted /\ Received' = Received /\ (AllDone' <=> AllDone)
      /\ \A q \in Parser: EndItem(q)' = EndItem(q)
  BY <1>1, SameSource DEF Received, AllDone, EndItem
<1>3. caller = "wait" /\ caller' = "wait"
  BY <1>1 DEF Phases, TypeOK
<1>4. Range(batch) \cap Range(table) = {}
  BY Queues DEF OnePlace
<1>5. /\ Range(table') = Range(table) \cup Range(batch) /\ Once(table', Int)
  BY <1>1, <1>4, Queues, ConcatFacts DEF OnePlace
<1>6. Range(batch') = {} /\ Once(batch', Int) /\ Len(batch') = 0 /\ batch' \in Seq(Line)
  BY <1>1, EmptyFacts, EmptySeq
<1>7. TypeOK'
  <2>1. batch \in Seq(Line \cup {Old})
    BY SeqMonotonic DEF TypeOK
  <2>2. table' \in Seq(Line \cup {Old})
    BY <1>1, <2>1, ConcatProperties DEF TypeOK
  <2>3. QED
    BY <1>1, <1>2, <1>6, <2>2 DEF TypeOK, EndItem
<1>8. Phases' /\ Counters'
  BY <1>1, <1>2, <1>3, <1>6 DEF Phases, Counters
<1>9. Markers'
  BY <1>1, <1>2 DEF Markers, Holds
<1>10. OnePlace' /\ OnlyRead' /\ Reached'
  <2>1. Range(batch) \subseteq Line
    BY Queues
  <2>2. OnePlace'
    BY <1>1, <1>2, <1>5, <1>6 DEF OnePlace, Holds
  <2>3. OnlyRead'
    BY <1>1, <1>2, <1>3, <1>5, <1>6, <2>1 DEF OnlyRead, Holds
  <2>4. Reached'
    BY <1>1, <1>2, <1>5, <1>6 DEF Reached, Holds
  <2>5. QED
    BY <2>2, <2>3, <2>4
<1>11. QED
  BY <1>7, <1>8, <1>9, <1>10

LEMMA InsertFailsInv == Inv /\ InsertFails => Inv'
<1> SUFFICES ASSUME Inv, InsertFails PROVE Inv'
  OBVIOUS
<1> USE DEF Inv
<1>1. /\ inserter \in {"insert", "flush"} /\ inserter' = "failed"
      /\ UNCHANGED <<source, caller, reader, read, marked, lineQueue, parser, hand, itemQueue,
                     stopped, batch, table>>
  BY DEF InsertFails, reading, parsing
<1>2. Line' = Line /\ Accepted' = Accepted /\ Received' = Received /\ (AllDone' <=> AllDone)
      /\ \A q \in Parser: EndItem(q)' = EndItem(q)
  BY <1>1, SameSource DEF Received, AllDone, EndItem
<1>3. TypeOK' /\ Phases' /\ Counters'
  BY <1>1, <1>2 DEF TypeOK, Phases, Counters, EndItem
<1>4. Markers' /\ OnePlace' /\ OnlyRead' /\ Reached'
  BY <1>1, <1>2 DEF Markers, OnePlace, OnlyRead, Reached, Holds
<1>5. QED
  BY <1>3, <1>4

LEMMA NextInv == Inv /\ [Next]_vars => Inv'
<1> SUFFICES ASSUME Inv, [Next]_vars PROVE Inv'
  OBVIOUS
<1>1. CASE Caller
  BY <1>1, ClearSourceHostsInv, ExecuteInv, ReturnInv DEF Caller
<1>2. CASE Reader
  BY <1>2, ReadLineInv, StopReadingInv, SendMarkerInv DEF Reader
<1>3. CASE \E p \in Parser: Parse(p)
  BY <1>3, TakeLineInv, ParseLineInv, EndParsingInv DEF Parse
<1>4. CASE Inserter
  BY <1>4, TakeItemInv, TakeMarkerInv, InsertInv, InsertFailsInv DEF Inserter
<1>5. CASE UNCHANGED vars
  <2>1. UNCHANGED <<source, caller, reader, read, marked, lineQueue, parser, hand, itemQueue,
                    inserter, stopped, batch, table>>
    BY <1>5 DEF vars, reading, parsing, inserting
  <2>2. Line' = Line /\ Accepted' = Accepted /\ Received' = Received /\ (AllDone' <=> AllDone)
        /\ \A q \in Parser: EndItem(q)' = EndItem(q)
    BY <2>1, SameSource DEF Received, AllDone, EndItem
  <2>3. TypeOK' /\ Phases' /\ Counters'
    BY <2>1, <2>2 DEF Inv, TypeOK, Phases, Counters, EndItem
  <2>4. Markers' /\ OnePlace' /\ OnlyRead' /\ Reached'
    BY <2>1, <2>2 DEF Inv, Markers, OnePlace, OnlyRead, Reached, Holds
  <2>5. QED
    BY <2>3, <2>4 DEF Inv
<1>6. QED
  BY <1>1, <1>2, <1>3, <1>4, <1>5 DEF Next

-----------------------------------------------------------------------------
(* The theorems.                                                           *)

LEMMA Invariance == Spec => []Inv
<1>1. Init => Inv
  BY InitInv
<1>2. Inv /\ [Next]_vars => Inv'
  BY NextInv
<1>3. QED
  BY <1>1, <1>2, PTL DEF Spec

\* Queues, counters and threads of SourceLoader.parse stay in their domains.
THEOREM Types == Spec => []TypeOK
<1>1. Inv => TypeOK
  BY DEF Inv
<1>2. QED
  BY <1>1, Invariance, PTL

\* The inserter of SourceLoader inserts no line twice.
THEOREM InsertedOnceTheorem == Spec => []InsertedOnce
<1>1. ASSUME Inv PROVE InsertedOnce
  <2>1. /\ table \in Seq(Int) /\ Once(table, Int)
        /\ DOMAIN table = 1 .. Len(table) /\ \A i \in 1 .. Len(table): table[i] \in Int
    BY <1>1, Queues, LenProperties, ElementOfSeq DEF Inv, OnePlace
  <2>2. QED
    BY <2>1 DEF InsertedOnce, IsInjective, Once
<1>2. QED
  BY <1>1, Invariance, PTL

LEMMA EndedHasAll == Inv => NothingLost
<1> SUFFICES ASSUME Inv, inserter = "done" PROVE Range(table) = {i \in Accepted: i <= read}
  BY DEF NothingLost
<1>1. AllDone /\ itemQueue = <<>> /\ batch = <<>> /\ 1 \in Parser
  BY DEF Inv, Markers, Parser
<1>2. Range(lineQueue) \subseteq {0} /\ \A p \in Parser: \A i: ~Holds(p, i)
  BY <1>1 DEF Inv, Markers, AllDone, Holds, EndOfQueueMarker
<1>3. Line \subseteq Nat \ {0} /\ Accepted \subseteq Line
  BY LineFacts DEF Inv, TypeOK
<1>4. caller # "clear"
  BY DEF Inv, Phases
<1>5. Range(table) \subseteq Line
  BY <1>4 DEF Inv, OnlyRead
<1>6. ASSUME NEW i \in Range(table) PROVE i \in Accepted /\ i <= read
  BY <1>5, <1>6 DEF Inv, OnlyRead
<1>7. ASSUME NEW i \in Accepted, i <= read PROVE i \in Range(table)
  BY <1>1, <1>2, <1>3, <1>7, EmptyFacts DEF Inv, Reached
<1>8. QED
  BY <1>6, <1>7

\* When the inserter of SourceLoader ended, the table holds the items of the
\* lines that were read, and nothing else.
THEOREM NothingLostTheorem == Spec => []NothingLost
BY EndedHasAll, Invariance, PTL

\* Once SourceLoader.parse returned, no thread of it writes.
THEOREM QuietAfterReturnTheorem == Spec => QuietAfterReturn
<1>1. ASSUME Inv, [Next]_vars, caller \in {"loaded", "failed"} PROVE table' = table
  <2>1. inserter \in {"done", "failed"}
    BY <1>1 DEF Inv, Phases
  <2>2. CASE Caller
    BY <1>1, <2>2 DEF Caller, ClearSourceHosts, Execute, Return
  <2>3. CASE Reader
    BY <2>3 DEF Reader, ReadLine, EndReading, ReadFails, SendMarker
  <2>4. CASE \E p \in Parser: Parse(p)
    BY <2>4 DEF Parse, TakeLine, ParseLine, EndParsing
  <2>5. CASE Inserter
    BY <2>1, <2>5 DEF Inserter, TakeItem, TakeMarker, InsertBatch, Flush, InsertFails
  <2>6. QED
    BY <1>1, <2>2, <2>3, <2>4, <2>5 DEF Next, vars
<1>2. Inv /\ [Next]_vars => [(caller \in {"loaded", "failed"}) => UNCHANGED table]_vars
  BY <1>1
<1>3. QED
  BY <1>2, Invariance, PTL DEF Spec, QuietAfterReturn

\* SourceLoader implements SourceLoad: each step of its threads is a step of
\* the load, or none.
THEOREM LoadsTheorem == Spec => Loads
<1>1. ASSUME Init PROVE Load!LoadInit
  BY <1>1 DEF Init, Load!LoadInit
<1>2. ASSUME Inv, [Next]_vars PROVE [Load!LoadNext]_(Load!absVars)
  <2> USE <1>2 DEF Inv
  <2>1. CASE ClearSourceHosts
    <3>1. Range(table') = {} /\ Accepted' = Accepted
      BY <2>1, EmptyFacts, SameSource DEF ClearSourceHosts
    <3>2. Load!LoadClear
      BY <2>1, <3>1 DEF ClearSourceHosts, Load!LoadClear
    <3>3. QED
      BY <3>2 DEF Load!LoadNext
  <2>2. CASE Execute
    <3>1. Accepted' = Accepted /\ table' = table /\ caller = "execute" /\ caller' = "wait"
      BY <2>2, SameSource DEF Execute
    <3>2. QED
      BY <3>1 DEF Load!absVars
  <2>3. CASE Return
    <3>1. Accepted' = Accepted /\ table' = table /\ caller = "wait"
      BY <2>3, SameSource DEF Return
    <3>2. CASE inserter = "done" /\ caller' = "loaded"
      <4>1. Range(table) = {i \in Accepted: i <= read}
        BY <3>2, EndedHasAll DEF NothingLost
      <4>2. /\ Accepted \subseteq Nat \ {0} /\ read \in Nat
        <5>1. source \in Sources /\ Len(source.lines) \in Nat /\ read \in 0 .. Len(source.lines)
          BY LineFacts DEF TypeOK
        <5>2. QED
          BY <5>1, LineFacts
      <4>3. Range(table) \subseteq Accepted /\ Load!NoGap
        <5>1. ASSUME NEW i \in Range(table), NEW j \in Accepted, j < i PROVE j \in Range(table)
          <6>1. i \in Accepted /\ i <= read
            BY <4>1
          <6>2. i \in Nat /\ j \in Nat
            BY <4>2, <6>1
          <6>3. j <= read
            BY <4>2, <5>1, <6>1, <6>2
          <6>4. QED
            BY <4>1, <6>3
        <5>2. QED
          BY <4>1, <5>1 DEF Load!NoGap
      <4>4. Load!LoadReturn
        BY <3>1, <3>2, <4>3 DEF Load!LoadReturn
      <4>5. QED
        BY <4>4 DEF Load!LoadNext
    <3>3. CASE inserter = "failed" /\ caller' = "failed"
      <4>1. Load!LoadFail
        BY <3>1, <3>3 DEF Load!LoadFail
      <4>2. QED
        BY <4>1 DEF Load!LoadNext
    <3>4. QED
      BY <2>3, <3>2, <3>3 DEF Return
  <2>4. CASE InsertBatch \/ Flush
    <3>1. /\ table' = table \o batch /\ caller' = caller /\ source' = source
          /\ inserter \in {"insert", "flush"}
      BY <2>4 DEF InsertBatch, Flush
    <3>2. caller = "wait" /\ Accepted' = Accepted
      BY <3>1, SameSource DEF Phases, TypeOK
    <3>3. Range(table') = Range(table) \cup Range(batch)
      BY <3>1, Queues, ConcatFacts
    <3>4. Range(table) \subseteq Accepted /\ Range(batch) \subseteq Accepted
      BY <3>2, Queues DEF OnlyRead
    <3>5. Cardinality(Range(table') \ Range(table)) <= INSERT_BATCH_SIZE
      <4>1. /\ IsFiniteSet(Range(batch)) /\ Cardinality(Range(batch)) <= Len(batch)
            /\ Len(batch) <= INSERT_BATCH_SIZE /\ Len(batch) \in Nat
        BY Queues, RangeCardinality, LenProperties DEF Counters
      <4>2. Range(table') \ Range(table) \in SUBSET Range(batch)
        BY <3>3
      <4>3. /\ IsFiniteSet(Range(table') \ Range(table))
            /\ Cardinality(Range(table') \ Range(table)) <= Cardinality(Range(batch))
        BY <4>1, <4>2, FS_Subset
      <4>4. QED
        BY <4>1, <4>3, FS_CardinalityType
    <3>6. Load!LoadInsert
      <4>1. Range(table) \subseteq Range(table') /\ Range(table') \subseteq Accepted
        BY <3>3, <3>4
      <4>2. caller = "wait" /\ caller' = "wait"
        BY <3>1, <3>2
      <4> HIDE DEF Inv
      <4>3. Load!Cardinality(Range(table') \ Range(table)) <= INSERT_BATCH_SIZE
        BY <3>5 DEF Cardinality, IsFiniteSet, Load!Cardinality, Load!IsFiniteSet
      <4>4. QED
        BY <3>2, <4>1, <4>2, <4>3 DEF Load!LoadInsert
    <3>7. QED
      BY <3>6 DEF Load!LoadNext
  <2>5. CASE Reader \/ (\E p \in Parser: Parse(p)) \/ TakeItem \/ TakeMarker \/ InsertFails \/ UNCHANGED vars
    <3>1. source' = source /\ caller' = caller /\ table' = table
      BY <2>5 DEF Reader, ReadLine, EndReading, ReadFails, SendMarker, Parse, TakeLine, ParseLine,
                  EndParsing, TakeItem, TakeMarker, InsertFails, vars
    <3>2. Accepted' = Accepted
      BY <3>1, SameSource
    <3>3. QED
      BY <3>1, <3>2 DEF Load!absVars
  <2>6. QED
    BY <2>1, <2>2, <2>3, <2>4, <2>5 DEF Next, Caller, Inserter
<1>3. QED
  BY <1>1, <1>2, Invariance, PTL DEF Spec, Loads, Load!LoadSpec
=============================================================================
