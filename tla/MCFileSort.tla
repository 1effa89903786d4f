----------------------------- MODULE MCFileSort -----------------------------
(* Instance of FileSort for TLC: a two-column key, the second column       *)
(* sorted descending, so the lexicographic comparator and the descending  *)
(* flag both decide some orders.                                          *)
EXTENDS FileSort

MCByDesc == <<FALSE, TRUE>>

=============================================================================
