----------------------------- MODULE ResultSet -----------------------------
(***************************************************************************)
(* What fetching promises: the calls on a statement deliver the rows of    *)
(* its result set in order, each call those after the ones that the caller *)
(* has seen, none left out and none twice, or they report an error.        *)
(***************************************************************************)
EXTENDS RowNumbers

CONSTANTS
  N,     \* the number of rows of the result set
  Gone   \* rows deleted under a cursor that still has a place for them

VARIABLES
  pos,     \* the rows up to this one are behind the caller
  result   \* what the last call returned

Nothing == [rows |-> <<>>, error |-> FALSE]
Returned(rows) == [rows |-> rows, error |-> FALSE]
Failed == [rows |-> <<>>, error |-> TRUE]

\* The rows after a, up to b.
Rows(a, b) == RowsBetween(a, b, Gone)

Init == pos = 0 /\ result = Nothing

\* The statement is executed again.
Open == Init'

\* At most n rows, fewer only at the end of the result set.
Take(n) ==
  \E last \in pos .. N :
    /\ Len(Rows(pos, last)) <= n
    /\ Len(Rows(pos, last)) = n \/ last = N
    /\ pos' = last
    /\ result' = Returned(Rows(pos, last))

\* A row by its number.
Seek(r) == IF r <= N THEN pos' = r /\ result' = Returned(<<r>>)
                     ELSE pos' = N /\ result' = Nothing

\* An error, that the caller is told about.
Fail ==
  /\ pos' \in pos .. N
  /\ result' = Failed

Next == Open \/ Fail \/ \E n \in 1 .. N + 1 : Take(n) \/ Seek(n)

Spec == Init /\ [][Next]_<<pos, result>>
=============================================================================
