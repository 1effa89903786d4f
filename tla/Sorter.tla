------------------------------- MODULE Sorter -------------------------------
(***************************************************************************)
(* What a FileSorter (sql/util/filesort/filesort.go) promises its caller,  *)
(* with no I/O or comparison failure: rows are accepted until the first    *)
(* Output; each Output then returns a least row not yet returned, or the   *)
(* clean end of data when none is left; Close discards what is left.  How  *)
(* the rows are kept (buffer, run files, merge heap) is not visible here.  *)
(***************************************************************************)
EXTENDS Sequences

CONSTANTS
    Rows,       \* the rows a caller can put in
    Less(_, _)  \* the comparator: Less(a, b) means a sorts before b

VARIABLES
    pending,    \* rows accepted and neither returned nor discarded
    out,        \* rows returned, in order
    fetched,    \* Output has been called
    closed      \* Close has been called

vars == <<pending, out, fetched, closed>>

Init ==
    /\ pending = {}
    /\ out = <<>>
    /\ fetched = FALSE
    /\ closed = FALSE

(* Input of a row not seen before, while still in the input phase. *)
Input(r) ==
    /\ ~closed /\ ~fetched
    /\ r \notin pending
    /\ pending' = pending \cup {r}
    /\ UNCHANGED <<out, fetched, closed>>

(* Output: a row no pending row sorts before, or the end of data. *)
Output ==
    /\ ~closed
    /\ fetched' = TRUE
    /\ \/ \E r \in pending :
            /\ \A x \in pending : ~Less(x, r)
            /\ out' = Append(out, r)
            /\ pending' = pending \ {r}
       \/ /\ pending = {}
          /\ UNCHANGED <<pending, out>>
    /\ UNCHANGED closed

(* Close: whatever was not returned is discarded. *)
Close ==
    /\ ~closed
    /\ closed' = TRUE
    /\ pending' = {}
    /\ UNCHANGED <<out, fetched>>

Next == (\E r \in Rows : Input(r)) \/ Output \/ Close

Spec == Init /\ [][Next]_vars

=============================================================================
