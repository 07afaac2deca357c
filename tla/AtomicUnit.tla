----------------------------- MODULE AtomicUnit -----------------------------
(***************************************************************************)
(* What the documentation of CoordinatedConnection promises: the work done *)
(* on several connections is one unit, committed everywhere or nowhere.    *)
(***************************************************************************)
CONSTANT Branches  \* the connections that take part

VARIABLE work      \* what became of the work on each of them

TypeOK == work \in [Branches -> {"none", "open", "committed", "rolledback"}]

Init == work = [b \in Branches |-> "none"]

Some(s) == \E b \in Branches : work[b] = s

\* A statement is executed on a connection before the unit is committed.
Do(b) ==
  /\ work[b] = "none"
  /\ ~Some("committed")
  /\ work' = [work EXCEPT ![b] = "open"]

\* All open work is committed at once, and only if none was rolled back.
Commit ==
  /\ ~Some("rolledback")
  /\ Some("open")
  /\ work' = [b \in Branches |->
                IF work[b] = "open" THEN "committed" ELSE work[b]]

\* Open work is rolled back, on some connections before others.
RollBack ==
  /\ ~Some("committed")
  /\ \E S \in (SUBSET Branches) \ {{}} :
       /\ \A b \in S : work[b] = "open"
       /\ work' = [b \in Branches |->
                     IF b \in S THEN "rolledback" ELSE work[b]]

Next == Commit \/ RollBack \/ \E b \in Branches : Do(b)

Spec == Init /\ [][Next]_work
=============================================================================
