-------------------------- MODULE CoordinatedProofs --------------------------
(* Proofs about Coordinated, for any number of branches, any failures, calls *)
(* awaited in any order, and cancellation at any point; what is said about a *)
(* commit, for bodies that await the calls they have begun.                  *)
EXTENDS Coordinated, TLAPS

\* What the branches have left to do is nothing in the initial states.
LEMMA InitInvariant == Init => IInv
BY DEF Init, IInv, TypeOK, Undecided, ExecuteOK, CommittedOK, RaisedOK,
       AwaitedOK, Quiet, Ends

-----------------------------------------------------------------------------
(* Types *)

\* Every step keeps the types.
LEMMA TypeStep == TypeOK /\ [Next]_vars => TypeOK'
<1> SUFFICES ASSUME TypeOK, [Next]_vars PROVE TypeOK'
  OBVIOUS
<1> USE DEF TypeOK, Ends
<1>1. ASSUME NEW b \in Branches, Await(b) PROVE TypeOK'
  BY <1>1 DEF Await
<1>2. ASSUME NEW b \in Branches, ConnectCheck(b) PROVE TypeOK'
  BY <1>2 DEF ConnectCheck, Failed, Raise
<1>3. ASSUME NEW b \in Branches, Connected(b) PROVE TypeOK'
  BY <1>3 DEF Connected
<1>4. ASSUME NEW b \in Branches, ConnectFails(b) PROVE TypeOK'
  BY <1>4 DEF ConnectFails, Failed, Raise
<1>5. ASSUME NEW b \in Branches, Executed(b) PROVE TypeOK'
  BY <1>5 DEF Executed
<1>6. ASSUME NEW b \in Branches, ExecuteFails(b) PROVE TypeOK'
  BY <1>6 DEF ExecuteFails, Failed, Raise
<1>7. CASE BodyEnds
  BY <1>7 DEF BodyEnds
<1>8. CASE BodyRaises
  BY <1>8 DEF BodyRaises, Raise
<1>9. CASE Commits
  BY <1>9 DEF Commits, EndTran, Then
<1>10. CASE CommitFails
  BY <1>10 DEF CommitFails, EndTran, Then
<1>11. CASE RollsBack
  BY <1>11 DEF RollsBack, EndTran, Then
<1>12. CASE RollbackFails
  BY <1>12 DEF RollbackFails, Then
<1>13. ASSUME NEW b \in Branches, CloseRollback(b) PROVE TypeOK'
  BY <1>13 DEF CloseRollback
<1>14. CASE CloseDisconnect
  BY <1>14 DEF CloseDisconnect
<1>15. CASE CloseEnds
  BY <1>15 DEF CloseEnds, Then
<1>16. CASE Cancel
  BY <1>16 DEF Cancel, Raise
<1>17. CASE Collect
  BY <1>17 DEF Collect
<1>18. CASE UNCHANGED vars
  BY <1>18 DEF vars
<1> QED
  BY <1>1, <1>2, <1>3, <1>4, <1>5, <1>6, <1>7, <1>8, <1>9, <1>10, <1>11,
     <1>12, <1>13, <1>14, <1>15, <1>16, <1>17, <1>18
     DEF Next, BodyNext, ExitNext

-----------------------------------------------------------------------------
(* The inductive invariant *)

Decisions == Undecided /\ ExecuteOK /\ CommittedOK /\ RaisedOK /\ AwaitedOK

\* A call of the body whose thread still runs: if the body awaits its calls,
\* no commit is under way and nothing is committed.
LEMMA LateThread ==
  ASSUME IInv, ~Abandons, NEW b \in Branches, thread[b] # "none"
  PROVE  /\ job # "commit"
         /\ \A c \in Branches : work[c] # "committed"
         /\ pc \in {"close", "exited"} => raised # "nothing"
BY DEF IInv, AwaitedOK, Quiet

\* What a thread of the body does to the decisions: nothing, also when its
\* exception is raised in the body.
LEMMA ThreadStep ==
  ASSUME IInv, NEW b \in Branches, thread[b] # "none",
         thread'[b] \in {"none", "connecting"},
         \A c \in Branches \ {b} : thread'[c] = thread[c],
         UNCHANGED work,
         Failed \/ UNCHANGED <<pc, job, raised>>
  PROVE  Decisions'
<1>1. ~Abandons =>
        /\ job # "commit"
        /\ \A c \in Branches : work[c] # "committed"
        /\ pc \in {"close", "exited"} => raised # "nothing"
  BY LateThread
<1>2. ExecuteOK'
  BY DEF IInv, ExecuteOK
<1>3. CASE pc = "body" /\ Raise("exception")
  <2>1. \A c \in Branches : work'[c] # "committed" /\ work[c] \in {"none", "open"}
    BY <1>3 DEF IInv, Undecided
  <2>2. pc' = "rollback" /\ job' = "rollback" /\ raised' = "exception"
    BY <1>3 DEF Raise
  <2> QED
    BY <1>2, <2>1, <2>2 DEF Decisions, Undecided, CommittedOK, RaisedOK, AwaitedOK
<1>4. CASE UNCHANGED <<pc, job, raised>>
  <2>1. Undecided' /\ CommittedOK' /\ RaisedOK'
    BY <1>4 DEF IInv, Undecided, CommittedOK, RaisedOK
  <2>2. AwaitedOK'
    BY <1>1, <1>4 DEF AwaitedOK
  <2> QED
    BY <1>2, <2>1, <2>2 DEF Decisions
<1> QED
  BY <1>3, <1>4 DEF Failed

\* Every step keeps the decisions.
LEMMA DecisionStep == IInv /\ [Next]_vars => Decisions'
<1> SUFFICES ASSUME IInv, [Next]_vars PROVE Decisions'
  OBVIOUS
<1> USE DEF Decisions, IInv, Undecided, ExecuteOK, CommittedOK, RaisedOK, AwaitedOK
<1>1. ASSUME NEW b \in Branches, Await(b) PROVE Decisions'
  <2>1. /\ pc = "body" /\ job = "none" /\ raised = "nothing"
        /\ \A c \in Branches : work[c] \in {"none", "open"}
        /\ UNCHANGED <<work, pc, job, raised>>
    BY <1>1 DEF Await
  <2>2. \A c \in Branches : thread'[c] = "execute" => work[c] = "none"
    BY <1>1 DEF Await, TypeOK
  <2> QED
    BY <2>1, <2>2
<1>2. ASSUME NEW b \in Branches,
             ConnectCheck(b) \/ ConnectFails(b) \/ ExecuteFails(b)
      PROVE  Decisions'
  <2>1. /\ thread[b] # "none"
        /\ thread'[b] \in {"none", "connecting"}
        /\ \A c \in Branches \ {b} : thread'[c] = thread[c]
        /\ UNCHANGED work
        /\ Failed \/ UNCHANGED <<pc, job, raised>>
    BY <1>2 DEF ConnectCheck, ConnectFails, ExecuteFails, TypeOK
  <2> QED
    BY <2>1, ThreadStep
<1>3. ASSUME NEW b \in Branches, Connected(b) PROVE Decisions'
  <2>1. /\ thread[b] # "none"
        /\ thread'[b] = "none"
        /\ \A c \in Branches \ {b} : thread'[c] = thread[c]
        /\ UNCHANGED <<work, pc, job, raised>>
    BY <1>3 DEF Connected, TypeOK
  <2> QED
    BY <2>1, ThreadStep
<1>4. ASSUME NEW b \in Branches, Executed(b) PROVE Decisions'
  <2>1. ~Abandons =>
          /\ job # "commit"
          /\ \A c \in Branches : work[c] # "committed"
          /\ pc \in {"close", "exited"} => raised # "nothing"
    BY <1>4, LateThread DEF Executed
  <2>2. /\ \A c \in Branches : work'[c] = IF c = b THEN "open" ELSE work[c]
        /\ \A c \in Branches : thread'[c] = IF c = b THEN "none" ELSE thread[c]
        /\ UNCHANGED <<pc, job, raised>>
    BY <1>4 DEF Executed, TypeOK
  <2>3. Undecided' /\ ExecuteOK' /\ CommittedOK' /\ RaisedOK'
    BY <2>2
  <2>4. AwaitedOK'
    BY <2>1, <2>2
  <2> QED
    BY <2>3, <2>4
<1>5. CASE BodyEnds
  BY <1>5 DEF BodyEnds, Quiet
<1>6. CASE BodyRaises
  BY <1>6 DEF BodyRaises, Raise, Quiet
<1>7. CASE Commits
  BY <1>7 DEF Commits, EndTran, Then, Quiet
<1>8. CASE CommitFails
  BY <1>8 DEF CommitFails, EndTran, Then, Quiet
<1>9. CASE RollsBack
  BY <1>9 DEF RollsBack, EndTran, Then, Quiet
<1>10. CASE RollbackFails
  BY <1>10 DEF RollbackFails, Then, Quiet
<1>11. ASSUME NEW b \in Branches, CloseRollback(b) PROVE Decisions'
  <2>1. /\ job = "close" /\ job' = "disconnect" /\ UNCHANGED <<thread, pc, raised>>
        /\ \A c \in Branches : work'[c] \in {work[c], "rolledback"}
        /\ \A c \in Branches : work'[c] # work[c] => work[c] = "open"
    BY <1>11 DEF CloseRollback, TypeOK
  <2> QED
    BY <2>1 DEF Quiet
<1>12. CASE CloseDisconnect \/ Collect
  BY <1>12 DEF CloseDisconnect, Collect, Quiet
<1>13. CASE CloseEnds
  <2>1. pc \in {"undo", "rollback", "close", "exited"}
    BY <1>13 DEF CloseEnds, TypeOK
  <2> QED
    BY <1>13, <2>1 DEF CloseEnds, Then, Quiet
<1>14. CASE Cancel
  BY <1>14 DEF Cancel, Raise, Quiet
<1>15. CASE UNCHANGED vars
  BY <1>15 DEF vars, Quiet
<1> QED
  BY <1>1, <1>2, <1>3, <1>4, <1>5, <1>6, <1>7, <1>8, <1>9, <1>10, <1>11,
     <1>12, <1>13, <1>14, <1>15
     DEF Next, BodyNext, ExitNext

\* The inductive invariant holds in every reachable state.
THEOREM Invariant == Spec => []IInv
<1>1. IInv /\ [Next]_vars => IInv'
  BY TypeStep, DecisionStep DEF IInv, Decisions
<1> QED
  BY <1>1, InitInvariant, PTL DEF Spec

\* The handles, threads and the task are in the states the code has for them,
\* and each connection's work in one of those that AtomicUnit speaks of.
THEOREM TypeCorrect == Spec => []TypeOK
BY Invariant, PTL DEF IInv

\* A block that ends with an exception has committed nothing, whatever fails,
\* is late or is abandoned by the body.
THEOREM ExceptionsUndo == Spec => []ExceptionalEnd
<1>1. IInv => ExceptionalEnd
  BY DEF IInv, RaisedOK, ExceptionalEnd
<1> QED
  BY <1>1, Invariant, PTL

\* If the body awaits the calls it has begun, or leaves the block with the
\* exception of one, the block also ends without an exception only if all work
\* is committed, whatever fails, is late or is cancelled.
THEOREM TruthfulEnds ==
  ASSUME ~Abandons
  PROVE  Spec => []TruthfulEnd
<1>1. IInv => TruthfulEnd
  BY DEF IInv, RaisedOK, AwaitedOK, TruthfulEnd, NormalEnd, ExceptionalEnd
<1> QED
  BY <1>1, Invariant, PTL

-----------------------------------------------------------------------------
(* Coordinated implements AtomicUnit *)

\* The refinement on states is the identity: the work on each branch.
LEMMA InitRefines == Init => Unit!Init
BY DEF Init, Unit!Init

\* A change from open to rolled back, of any number of branches, is a step of
\* the abstract specification as long as nothing is committed.
LEMMA RollBackRefines ==
  ASSUME TypeOK, \A b \in Branches : work[b] # "committed",
         NEW S \in SUBSET Branches, \A b \in S : work[b] = "open",
         work' = [b \in Branches |-> IF b \in S THEN "rolledback" ELSE work[b]]
  PROVE  [Unit!Next]_work
<1>1. CASE S = {}
  BY <1>1 DEF TypeOK
<1>2. CASE S # {}
  <2>1. ~Unit!Some("committed")
    BY DEF Unit!Some
  <2>2. Unit!RollBack
    BY <1>2, <2>1, Zenon DEF Unit!RollBack
  <2> QED
    BY <2>2 DEF Unit!Next
<1> QED
  BY <1>1, <1>2

\* SQLEndTran with SQL_ROLLBACK, or one with SQL_COMMIT that fails.
LEMMA EndTranRefines ==
  ASSUME TypeOK, \A b \in Branches : work[b] # "committed",
         EndTran("rolledback")
  PROVE  [Unit!Next]_work
<1> DEFINE S == {b \in Branches : work[b] = "open"}
<1>1. /\ S \in SUBSET Branches
      /\ \A b \in S : work[b] = "open"
      /\ work' = [b \in Branches |-> IF b \in S THEN "rolledback" ELSE work[b]]
  BY DEF EndTran
<1> HIDE DEF S
<1> QED
  BY <1>1, RollBackRefines

\* Every step is a step of AtomicUnit or leaves the work alone.
LEMMA StepRefines ==
  ASSUME ~Abandons
  PROVE  IInv /\ [Next]_vars => [Unit!Next]_work
<1> SUFFICES ASSUME IInv, [Next]_vars PROVE [Unit!Next]_work
  OBVIOUS
<1>t. TypeOK
  BY DEF IInv
<1>1. ASSUME NEW b \in Branches, Executed(b) PROVE Unit!Do(b)
  BY <1>1, LateThread DEF Executed, IInv, ExecuteOK, Unit!Do, Unit!Some
<1>2. CASE Commits
  <2>1. \A b \in Branches : work[b] \in {"none", "open"}
    BY <1>2 DEF Commits, IInv, Undecided
  <2>2. work' = [b \in Branches |-> IF work[b] = "open" THEN "committed" ELSE work[b]]
    BY <1>2 DEF Commits, EndTran
  <2>3. CASE \E b \in Branches : work[b] = "open"
    BY <2>1, <2>2, <2>3 DEF Unit!Next, Unit!Commit, Unit!Some
  <2>4. CASE ~\E b \in Branches : work[b] = "open"
    BY <2>2, <2>4, <1>t DEF TypeOK
  <2> QED
    BY <2>3, <2>4
<1>3. CASE CommitFails
  <2>1. \A b \in Branches : work[b] # "committed"
    BY <1>3 DEF CommitFails, IInv, Undecided
  <2> QED
    BY <1>3, <1>t, <2>1, EndTranRefines DEF CommitFails
<1>4. CASE RollsBack
  <2>1. \A b \in Branches : work[b] # "committed"
    BY <1>4 DEF RollsBack, IInv, CommittedOK
  <2> QED
    BY <1>4, <1>t, <2>1, EndTranRefines DEF RollsBack
<1>5. ASSUME NEW b \in Branches, CloseRollback(b) PROVE [Unit!Next]_work
  <2>1. CASE work[b] = "open"
    <3>1. \A c \in Branches : work[c] # "committed"
      BY <2>1 DEF IInv, AwaitedOK
    <3>2. \/ work' = [c \in Branches |-> IF c \in {b} THEN "rolledback" ELSE work[c]]
          \/ UNCHANGED work
      BY <1>5, <2>1, <1>t DEF CloseRollback, TypeOK
    <3> QED
      BY <2>1, <3>1, <3>2, <1>t, RollBackRefines
  <2>2. CASE work[b] # "open"
    BY <1>5, <2>2, <1>t DEF CloseRollback, TypeOK
  <2> QED
    BY <2>1, <2>2
<1>6. ASSUME NEW b \in Branches,
             \/ Await(b) \/ ConnectCheck(b) \/ Connected(b)
             \/ ConnectFails(b) \/ ExecuteFails(b)
      PROVE  UNCHANGED work
  BY <1>6 DEF Await, ConnectCheck, Connected, ConnectFails, ExecuteFails
<1>7. CASE \/ BodyEnds \/ BodyRaises \/ RollbackFails \/ CloseDisconnect
           \/ CloseEnds \/ Cancel \/ Collect \/ UNCHANGED vars
  BY <1>7 DEF BodyEnds, BodyRaises, RollbackFails, CloseDisconnect, CloseEnds,
              Cancel, Collect, vars
<1> QED
  BY <1>1, <1>2, <1>3, <1>4, <1>5, <1>6, <1>7
     DEF Next, BodyNext, ExitNext, Unit!Next

\* The work of a block is one unit, if the body awaits the calls it has begun
\* or leaves the block with the exception of one: committed on every
\* connection that has work or on none, whatever fails, is late or is cancelled
\* ("committed or rolled back atomically").
THEOREM BlocksAtomic ==
  ASSUME ~Abandons
  PROVE  Spec => AllOrNothing
<1>1. IInv /\ [Next]_vars => [Unit!Next]_work
  BY StepRefines
<1> QED
  BY <1>1, InitRefines, Invariant, PTL DEF Spec, AllOrNothing, Unit!Spec
=============================================================================
