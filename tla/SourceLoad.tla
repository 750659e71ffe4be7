----------------------------- MODULE SourceLoad -----------------------------
(***************************************************************************)
(* What SourceLoader.parse promises to SourceModel: the rows of a source   *)
(* are cleared, filled from its lines in small transactions, and when      *)
(* parse returns without a warning they are those of the first lines of    *)
(* the source, without a gap.  Not all of them: an error while reading     *)
(* ends the source early and nobody is told.                               *)
(***************************************************************************)
EXTENDS Integers, FiniteSets

CONSTANT
    INSERT_BATCH_SIZE   \* how many rows one transaction inserts at most

VARIABLES
    items,   \* the numbers of the lines that hold an item, fixed
    rows,    \* the rows of the source in the table, by line number
    state    \* the progress of parse

absVars == <<items, rows, state>>

NoGap == \A i \in rows, j \in items: j < i => j \in rows

LoadInit == state = "stale"

\* parse deletes the rows of the previous load.
LoadClear ==
    /\ state = "stale"
    /\ rows' = {}
    /\ state' = "loading"
    /\ UNCHANGED items

\* One batch of items not inserted before.
LoadInsert ==
    /\ state = "loading"
    /\ rows \subseteq rows'
    /\ rows' \subseteq items
    /\ Cardinality(rows' \ rows) <= INSERT_BATCH_SIZE
    /\ UNCHANGED <<items, state>>

LoadReturn ==
    /\ state = "loading"
    /\ rows \subseteq items
    /\ NoGap
    /\ state' = "loaded"
    /\ UNCHANGED <<items, rows>>

\* The database refused a batch: parse logs a warning and returns as well.
LoadFail ==
    /\ state = "loading"
    /\ state' = "failed"
    /\ UNCHANGED <<items, rows>>

LoadNext == LoadClear \/ LoadInsert \/ LoadReturn \/ LoadFail

LoadSpec == LoadInit /\ [][LoadNext]_absVars
=============================================================================
