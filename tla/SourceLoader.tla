---------------------------- MODULE SourceLoader ----------------------------
(***************************************************************************)
(* SourceLoader.parse: one thread reads the lines of a hosts source into a *)
(* queue, parserCount threads turn them into items of a second queue, one  *)
(* thread inserts the items into the database by batches, and the caller   *)
(* waits for that one.  End markers travel through both queues.            *)
(*                                                                         *)
(* A line is its number in the source, its text the shape that decides     *)
(* what the parser makes of it.  The DAO is external: an insert is one     *)
(* transaction of Room, which the database may refuse.                     *)
(***************************************************************************)
EXTENDS Integers, Sequences, FiniteSets, Functions

CONSTANTS
    Sources,            \* the sources to load
    parserCount,        \* how many parsers run
    INSERT_BATCH_SIZE   \* how many items the inserter collects

\* What is in a line: nothing, a comment, one word, one word and a comment,
\* one letter and a comment, or two words and perhaps more.
Form == {"empty", "comment", "word", "annotated", "initial", "words"}
Text == [form : Form,
         ip : {"local", "valid", "invalid"},
         host : {"localhost", "name", "wildcard", "invalid"}]

ASSUME LoaderAssumption ==
    /\ Sources \subseteq [lines : Seq(Text), allow : BOOLEAN, redirect : BOOLEAN]
    /\ parserCount \in Nat \ {0}
    /\ INSERT_BATCH_SIZE \in Nat \ {0}

Parser == 1 .. parserCount

VARIABLES
    source,      \* the source to load
    caller,      \* where parse is
    reader,      \* where SourceReader is
    read,        \* how many lines it read
    marked,      \* how many end markers it sent
    lineQueue,   \* lines on the way to the parsers
    parser,      \* where each HostListItemParser is
    hand,        \* the line or marker each parser took
    itemQueue,   \* items on the way to the inserter
    inserter,    \* where ItemInserter is
    stopped,     \* how many end markers it received
    batch,       \* the items it collected
    table        \* the rows of the source in hosts_lists, in the order of insertion

reading == <<reader, read, marked>>
parsing == <<parser, hand>>
inserting == <<inserter, stopped, batch>>
vars == <<source, caller, reading, lineQueue, parsing, itemQueue, inserting, table>>

Line == 1 .. Len(source.lines)
EndOfQueueMarker == 0
Old == -1                 \* a row that an earlier load left
EndItem(p) == -p          \* the object that parser p sends at its end

IsItem(i) == i > 0
Lines(queue) == {i \in Range(queue): IsItem(i)}

(***************************************************************************)
(* The parsers' view of a line: the type of its item, None without item.   *)
(***************************************************************************)
ParseHostListItem(text) ==
    IF text.form # "words" \/ text.host = "localhost" THEN "None"
    ELSE IF text.ip = "local" THEN "BLOCKED"
    ELSE IF source.redirect THEN "REDIRECTED"
    ELSE "None"

\* The end of the line is only cut at a number sign in second position.
ParseAllowListItem(text) == "ALLOWED"

IsRedirectionValid(type, text) == type = "REDIRECTED" => text.ip \in {"local", "valid"}

\* What an allowed item names is the whole line.
IsHostValid(type, text) ==
    CASE type = "BLOCKED" -> text.host = "name"
      [] type = "REDIRECTED" -> text.host \in {"name", "wildcard"}
      [] OTHER -> \/ text.form = "initial"
                  \/ text.form = "word" /\ text.host # "invalid"

Accepts(text) ==
    LET type == IF source.allow THEN ParseAllowListItem(text) ELSE ParseHostListItem(text)
    IN  /\ text.form \notin {"empty", "comment"}
        /\ type # "None"
        /\ IsRedirectionValid(type, text)
        /\ IsHostValid(type, text)

Accepted == {i \in Line: Accepts(source.lines[i])}

-----------------------------------------------------------------------------
TypeOK ==
    /\ source \in Sources
    /\ caller \in {"clear", "execute", "wait", "loaded", "failed"}
    /\ reader \in {"unborn", "reading", "marking", "done"}
    /\ read \in 0 .. Len(source.lines)
    /\ marked \in 0 .. parserCount
    /\ lineQueue \in Seq(Line \cup {EndOfQueueMarker})
    /\ parser \in [Parser -> {"unborn", "take", "parse", "done"}]
    /\ hand \in [Parser -> Line \cup {EndOfQueueMarker}]
    /\ itemQueue \in Seq(Line \cup {EndItem(p): p \in Parser})
    /\ inserter \in {"unborn", "take", "insert", "flush", "done", "failed"}
    /\ stopped \in 0 .. parserCount
    /\ batch \in Seq(Line)
    /\ table \in Seq(Line \cup {Old})

Init ==
    /\ source \in Sources
    /\ caller = "clear"
    /\ reader = "unborn"
    /\ read = 0
    /\ marked = 0
    /\ lineQueue = <<>>
    /\ parser = [p \in Parser |-> "unborn"]
    /\ hand = [p \in Parser |-> EndOfQueueMarker]
    /\ itemQueue = <<>>
    /\ inserter = "unborn"
    /\ stopped = 0
    /\ batch = <<>>
    /\ table \in {<<>>, <<Old>>}

(***************************************************************************)
(* The thread of SourceModel                                               *)
(***************************************************************************)
\* Variant: the rows of the previous load stay.
ClearForgotten ==
    /\ caller = "clear"
    /\ caller' = "execute"
    /\ UNCHANGED <<source, reading, lineQueue, parsing, itemQueue, inserting, table>>

ClearSourceHosts ==
    /\ caller = "clear"
    /\ table' = <<>>
    /\ caller' = "execute"
    /\ UNCHANGED <<source, reading, lineQueue, parsing, itemQueue, inserting>>

\* The pool has a thread for each task.
Execute ==
    /\ caller = "execute"
    /\ reader' = "reading"
    /\ parser' = [p \in Parser |-> "take"]
    /\ inserter' = "take"
    /\ caller' = "wait"
    /\ UNCHANGED <<source, read, marked, lineQueue, hand, itemQueue, stopped, batch, table>>

\* inserterFuture.get() returns, or throws what the inserter threw.
Return ==
    /\ caller = "wait"
    /\ \/ inserter = "done" /\ caller' = "loaded"
       \/ inserter = "failed" /\ caller' = "failed"
    /\ UNCHANGED <<source, reading, lineQueue, parsing, itemQueue, inserting, table>>

Caller == ClearSourceHosts \/ Execute \/ Return

(***************************************************************************)
(* SourceReader                                                            *)
(***************************************************************************)
ReadLine ==
    /\ reader = "reading"
    /\ read < Len(source.lines)
    /\ read' = read + 1
    /\ lineQueue' = Append(lineQueue, read')
    /\ UNCHANGED <<source, caller, reader, marked, parsing, itemQueue, inserting, table>>

EndReading ==
    /\ reader = "reading"
    /\ read = Len(source.lines)
    /\ reader' = "marking"
    /\ UNCHANGED <<source, caller, read, marked, lineQueue, parsing, itemQueue, inserting, table>>

\* The connection breaks, or the caller closed the stream.
ReadFails ==
    /\ reader = "reading"
    /\ reader' = "marking"
    /\ UNCHANGED <<source, caller, read, marked, lineQueue, parsing, itemQueue, inserting, table>>

\* Variant: one marker for all parsers.
SendOneMarker ==
    /\ reader = "marking"
    /\ lineQueue' = Append(lineQueue, EndOfQueueMarker)
    /\ marked' = marked + 1
    /\ reader' = "done"
    /\ UNCHANGED <<source, caller, read, parsing, itemQueue, inserting, table>>

SendMarker ==
    /\ reader = "marking"
    /\ lineQueue' = Append(lineQueue, EndOfQueueMarker)
    /\ marked' = marked + 1
    /\ reader' = IF marked' < parserCount THEN "marking" ELSE "done"
    /\ UNCHANGED <<source, caller, read, parsing, itemQueue, inserting, table>>

Reader == ReadLine \/ EndReading \/ ReadFails \/ SendMarker

(***************************************************************************)
(* HostListItemParser                                                      *)
(***************************************************************************)
TakeLine(p) ==
    /\ parser[p] = "take"
    /\ lineQueue # <<>>
    /\ hand' = [hand EXCEPT ![p] = Head(lineQueue)]
    /\ lineQueue' = Tail(lineQueue)
    /\ parser' = [parser EXCEPT ![p] = "parse"]
    /\ UNCHANGED <<source, caller, reading, itemQueue, inserting, table>>

ParseLine(p) ==
    /\ parser[p] = "parse"
    /\ IsItem(hand[p])
    /\ itemQueue' = IF Accepts(source.lines[hand[p]]) THEN Append(itemQueue, hand[p]) ELSE itemQueue
    /\ parser' = [parser EXCEPT ![p] = "take"]
    /\ UNCHANGED <<source, caller, reading, lineQueue, hand, inserting, table>>

EndParsing(p) ==
    /\ parser[p] = "parse"
    /\ hand[p] = EndOfQueueMarker
    /\ itemQueue' = Append(itemQueue, EndItem(p))
    /\ parser' = [parser EXCEPT ![p] = "done"]
    /\ UNCHANGED <<source, caller, reading, lineQueue, hand, inserting, table>>

Parse(p) == TakeLine(p) \/ ParseLine(p) \/ EndParsing(p)

(***************************************************************************)
(* ItemInserter                                                            *)
(***************************************************************************)
TakeItem ==
    /\ inserter = "take"
    /\ itemQueue # <<>>
    /\ IsItem(Head(itemQueue))
    /\ itemQueue' = Tail(itemQueue)
    /\ batch' = Append(batch, Head(itemQueue))
    /\ inserter' = IF Len(batch') >= INSERT_BATCH_SIZE THEN "insert" ELSE "take"
    /\ UNCHANGED <<source, caller, reading, lineQueue, parsing, stopped, table>>

\* Variant: the first parser to end ends the inserter.
TakeFirstMarker ==
    /\ inserter = "take"
    /\ itemQueue # <<>>
    /\ ~IsItem(Head(itemQueue))
    /\ itemQueue' = Tail(itemQueue)
    /\ stopped' = stopped + 1
    /\ inserter' = "flush"
    /\ UNCHANGED <<source, caller, reading, lineQueue, parsing, batch, table>>

TakeMarker ==
    /\ inserter = "take"
    /\ itemQueue # <<>>
    /\ ~IsItem(Head(itemQueue))
    /\ itemQueue' = Tail(itemQueue)
    /\ stopped' = stopped + 1
    /\ inserter' = IF stopped' >= parserCount THEN "flush" ELSE "take"
    /\ UNCHANGED <<source, caller, reading, lineQueue, parsing, batch, table>>

\* Variant: the batch is not emptied.
InsertKeepsBatch ==
    /\ inserter = "insert"
    /\ table' = table \o batch
    /\ inserter' = "take"
    /\ UNCHANGED <<source, caller, reading, lineQueue, parsing, itemQueue, stopped, batch>>

InsertBatch ==
    /\ inserter = "insert"
    /\ table' = table \o batch
    /\ batch' = <<>>
    /\ inserter' = "take"
    /\ UNCHANGED <<source, caller, reading, lineQueue, parsing, itemQueue, stopped>>

\* The remaining items.
Flush ==
    /\ inserter = "flush"
    /\ table' = table \o batch
    /\ batch' = <<>>
    /\ inserter' = "done"
    /\ UNCHANGED <<source, caller, reading, lineQueue, parsing, itemQueue, stopped>>

\* The source was deleted, or the storage is full.
InsertFails ==
    /\ inserter \in {"insert", "flush"}
    /\ inserter' = "failed"
    /\ UNCHANGED <<source, caller, reading, lineQueue, parsing, itemQueue, stopped, batch, table>>

Inserter == TakeItem \/ TakeMarker \/ InsertBatch \/ Flush \/ InsertFails

-----------------------------------------------------------------------------
Next == Caller \/ Reader \/ (\E p \in Parser: Parse(p)) \/ Inserter

Spec == Init /\ [][Next]_vars

\* The scheduler runs every thread; reads end, by the time out of the HTTP client.
FairSpec ==
    /\ Spec
    /\ WF_vars(Caller)
    /\ WF_vars(Reader)
    /\ \A p \in Parser: WF_vars(Parse(p))
    /\ WF_vars(Inserter)

-----------------------------------------------------------------------------
(***************************************************************************)
(* Properties                                                              *)
(***************************************************************************)
\* The promise of parse to SourceModel, with its rows as a set: cleared first,
\* inserted by batches of new items, and without a gap when it returns.
Load == INSTANCE SourceLoad WITH
            items <- Accepted,
            rows <- Range(table),
            state <- CASE caller = "clear" -> "stale"
                       [] caller \in {"loaded", "failed"} -> caller
                       [] OTHER -> "loading"

Loads == Load!LoadSpec

\* However the threads interleave, no line is inserted twice: the batch is
\* emptied with each insert, and each line is taken by one parser.
InsertedOnce == IsInjective(table)

\* When the inserter ended, nothing that was read is still on its way: the
\* last end marker came behind every item of every parser, and the table holds
\* the items of exactly the lines that were read, without those of earlier loads.
NothingLost == inserter = "done" => Range(table) = {i \in Accepted: i <= read}

\* Once parse returned, with or without warning, its threads write no row: the
\* sizes and dates that SourceModel stores next describe a table at rest.
QuietAfterReturn == [][(caller \in {"loaded", "failed"}) => UNCHANGED table]_vars

\* Whatever fails, parse returns and every thread of its pool ends: a marker for
\* each parser, and parsers that outlive a failed inserter.
ThreadsEnd ==
    <>[](/\ caller \in {"loaded", "failed"}
         /\ reader = "done"
         /\ \A p \in Parser: parser[p] = "done"
         /\ inserter \in {"done", "failed"})
=============================================================================
