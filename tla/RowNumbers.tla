----------------------------- MODULE RowNumbers -----------------------------
(***************************************************************************)
(* Sequences of rows, which are their numbers.  The definition goes from   *)
(* row to row, as the loop over a rowset does, and is a recursive function *)
(* so that it can be reasoned about.                                       *)
(***************************************************************************)
EXTENDS Naturals, Sequences

\* The rows after a, up to b, without the skipped ones.
RowsBetween(a, b, skipped) ==
  LET upTo[r \in Nat] == IF r <= a THEN <<>>
                         ELSE IF r \in skipped THEN upTo[r - 1]
                         ELSE Append(upTo[r - 1], r)
  IN  upTo[b]
=============================================================================
