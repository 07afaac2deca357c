----------------------------- MODULE Coordinated -----------------------------
(***************************************************************************)
(* CoordinatedConnection and AsyncCoordinatedConnection: a block           *)
(*                                                                         *)
(*     async with AsyncCoordinatedConnection() as cc: ...                  *)
(*                                                                         *)
(* whose body connects to several databases on a shared environment handle *)
(* and executes statements, and whose __aexit__ commits or rolls back      *)
(* everything with SQLEndTran on that handle.  Each awaited call runs in a *)
(* thread of its own (asyncio.to_thread), which goes on when the await is  *)
(* over: after an exception of another call of the same asyncio.gather,    *)
(* after a cancellation.  The body may catch what a call raises and go on. *)
(* With Concurrent, Abandons and Cancels FALSE the calls run one after     *)
(* another, as with the synchronous CoordinatedConnection.                 *)
(*                                                                         *)
(* External: the CLI.  SQLEndTran on the environment handle is atomic over *)
(* its connections; an error of SQL_COMMIT leaves the work open or rolled  *)
(* back.  Whether SQLEndTran on one coordinated connection is honoured is  *)
(* left open.  SQLDisconnect refuses a connection with open work, and      *)
(* SQLFreeHandle an environment with connections.                          *)
(***************************************************************************)
EXTENDS FiniteSets

CONSTANTS
  Branches,    \* the connections of the block, one cursor each
  Concurrent,  \* the body awaits several calls at once (asyncio.gather)
  Abandons,    \* the body may end while a call runs that it no longer awaits
               \* (a gather or wait_for whose exception it caught)
  Cancels,     \* the task may be cancelled
  Faults       \* the calls that may fail, of FaultKinds

FaultKinds == {"connect", "execute", "commit", "rollback"}

ASSUME ConstantsAssumption ==
  /\ Concurrent \in BOOLEAN
  /\ Abandons \in BOOLEAN
  /\ Cancels \in BOOLEAN
  /\ Faults \subseteq FaultKinds

VARIABLES
  env,      \* the shared environment handle: handle_active
  closed,   \* _closed
  listed,   \* _connections
  visited,  \* the connections that the loop of close has closed
  dbc,      \* the connection handles
  work,     \* the work on each connection, as in AtomicUnit
  thread,   \* the call that a thread runs for the body, on each connection
  job,      \* the call that a thread runs for __aexit__
  pc,       \* where the task is: in the body, or what __aexit__ awaits
  raised    \* how the block ends, see Ends

vars == <<env, closed, listed, visited, dbc, work, thread, job, pc, raised>>

Ends == {"nothing", "exception", "cancelled"}

TypeOK ==
  /\ env \in BOOLEAN
  /\ closed \in BOOLEAN
  /\ listed \in SUBSET Branches
  /\ visited \in SUBSET Branches
  /\ dbc \in [Branches -> {"none", "conn", "freed"}]
  /\ work \in [Branches -> {"none", "open", "committed", "rolledback"}]
  /\ thread \in [Branches -> {"none", "connect", "connecting", "execute"}]
  /\ job \in {"none", "commit", "rollback", "close", "disconnect"}
  /\ pc \in {"body", "commit", "undo", "rollback", "close", "exited"}
  /\ raised \in Ends

Init ==
  /\ env = TRUE
  /\ closed = FALSE
  /\ listed = {}
  /\ visited = {}
  /\ dbc = [b \in Branches |-> "none"]
  /\ work = [b \in Branches |-> "none"]
  /\ thread = [b \in Branches |-> "none"]
  /\ job = "none"
  /\ pc = "body"
  /\ raised = "nothing"

CanFail(what) == what \in Faults
Quiet == \A b \in Branches : thread[b] = "none"

-----------------------------------------------------------------------------
(* The body *)

\* The body awaits cc.connect or cursor.execute on connection b, alone or
\* next to other calls.
Await(b) ==
  /\ pc = "body"
  /\ thread[b] = "none"
  /\ Concurrent \/ Quiet
  /\ \/ dbc[b] = "none" /\ thread' = [thread EXCEPT ![b] = "connect"]
     \/ /\ dbc[b] = "conn" /\ work[b] = "none"
        /\ thread' = [thread EXCEPT ![b] = "execute"]
  /\ UNCHANGED <<env, closed, listed, visited, dbc, work, job, pc, raised>>

\* An exception reaches the body: it leaves the block, and __aexit__ awaits
\* the rollback.  Calls of other threads go on.
Raise(how) ==
  /\ raised' = how
  /\ pc' = "rollback"
  /\ job' = "rollback"

\* A call of the body raises an exception, which only the body can notice: it
\* leaves the block or is caught.
Failed ==
  \/ pc = "body" /\ Raise("exception")
  \/ UNCHANGED <<pc, job, raised>>

\* CoordinatedConnection.connect, to the check of _closed and of the
\* environment handle.
ConnectCheck(b) ==
  /\ thread[b] = "connect"
  /\ IF closed \/ ~env
     THEN thread' = [thread EXCEPT ![b] = "none"] /\ Failed
     ELSE /\ thread' = [thread EXCEPT ![b] = "connecting"]
          /\ UNCHANGED <<pc, job, raised>>
  /\ UNCHANGED <<env, closed, listed, visited, dbc, work>>

\* The DBC handle is allocated and connected, the Connection appended to
\* _connections; an environment freed meanwhile is an error of SQLAllocHandle.
Connected(b) ==
  /\ thread[b] = "connecting"
  /\ env
  /\ dbc' = [dbc EXCEPT ![b] = "conn"]
  /\ listed' = listed \cup {b}
  /\ thread' = [thread EXCEPT ![b] = "none"]
  /\ UNCHANGED <<env, closed, visited, work, job, pc, raised>>

ConnectFails(b) ==
  /\ thread[b] = "connecting"
  /\ CanFail("connect") \/ ~env
  /\ thread' = [thread EXCEPT ![b] = "none"]
  /\ Failed
  /\ UNCHANGED <<env, closed, listed, visited, dbc, work>>

\* cursor.execute: autocommit is off, so the work stays open.
Executed(b) ==
  /\ thread[b] = "execute"
  /\ dbc[b] = "conn"
  /\ work' = [work EXCEPT ![b] = "open"]
  /\ thread' = [thread EXCEPT ![b] = "none"]
  /\ UNCHANGED <<env, closed, listed, visited, dbc, job, pc, raised>>

ExecuteFails(b) ==
  /\ thread[b] = "execute"
  /\ CanFail("execute") \/ dbc[b] # "conn"
  /\ thread' = [thread EXCEPT ![b] = "none"]
  /\ Failed
  /\ UNCHANGED <<env, closed, listed, visited, dbc, work>>

\* The body comes to its end: __aexit__ awaits the commit.
BodyEnds ==
  /\ pc = "body"
  /\ Abandons \/ Quiet
  /\ pc' = "commit"
  /\ job' = "commit"
  /\ UNCHANGED <<env, closed, listed, visited, dbc, work, thread, raised>>

\* The body's own code raises an exception (a timeout of wait_for, too).
BodyRaises ==
  /\ pc = "body"
  /\ Concurrent \/ Abandons \/ Quiet
  /\ Raise("exception")
  /\ UNCHANGED <<env, closed, listed, visited, dbc, work, thread>>

-----------------------------------------------------------------------------
(* __aexit__ *)

\* MUTANT: SQLEndTran on one connection after the other.
EndTran_OneByOne(outcome) ==
  IF \E b \in Branches : work[b] = "open"
  THEN \E b \in Branches : /\ work[b] = "open"
                          /\ work' = [work EXCEPT ![b] = outcome]
  ELSE UNCHANGED work

\* SQLEndTran on the environment handle.
EndTran(outcome) ==
  work' = [b \in Branches |-> IF work[b] = "open" THEN outcome ELSE work[b]]

\* MUTANT: the two arguments are confused.
Then_Swapped(next, nextJob) ==
  IF pc = "exited" THEN job' = "none" /\ UNCHANGED pc
  ELSE pc' = nextJob /\ job' = next

\* The call that __aexit__ awaits is over and the next one starts, unless the
\* task has left the block meanwhile.
Then(next, nextJob) ==
  IF pc = "exited" THEN job' = "none" /\ UNCHANGED pc
  ELSE pc' = next /\ job' = nextJob

Commits ==
  /\ job = "commit"
  /\ EndTran("committed")
  /\ Then("close", "close")
  /\ UNCHANGED <<env, closed, listed, visited, dbc, thread, raised>>

\* MUTANT: the exception of commit is not raised again.
CommitFails_Swallowed ==
  /\ job = "commit"
  /\ CanFail("commit")
  /\ EndTran("rolledback") \/ UNCHANGED work
  /\ Then("undo", "rollback")
  /\ UNCHANGED <<env, closed, listed, visited, dbc, thread, raised>>

\* commit raises an exception: roll back, close, and raise it again.
CommitFails ==
  /\ job = "commit"
  /\ CanFail("commit")
  /\ EndTran("rolledback") \/ UNCHANGED work
  /\ Then("undo", "rollback")
  /\ raised' = IF pc = "exited" THEN raised ELSE "exception"
  /\ UNCHANGED <<env, closed, listed, visited, dbc, thread>>

RollsBack ==
  /\ job = "rollback"
  /\ EndTran("rolledback")
  /\ Then("close", "close")
  /\ UNCHANGED <<env, closed, listed, visited, dbc, thread, raised>>

\* An exception of rollback is ignored in the branch for an exception of the
\* body; after a failed commit it leaves __aexit__ without close.
RollbackFails ==
  /\ job = "rollback"
  /\ CanFail("rollback")
  /\ IF pc = "undo" THEN Then("exited", "none") ELSE Then("close", "close")
  /\ UNCHANGED <<env, closed, listed, visited, dbc, work, thread, raised>>

\* close, for the next connection of the list: Connection.close first rolls
\* the connection back, an error of which ibm_db.rollback returns as False.
CloseRollback(b) ==
  /\ job = "close"
  /\ b \in listed \ visited
  /\ \/ work' = [work EXCEPT ![b] = IF @ = "open" THEN "rolledback" ELSE @]
     \/ UNCHANGED work
  /\ visited' = visited \cup {b}
  /\ job' = "disconnect"
  /\ UNCHANGED <<env, closed, listed, dbc, thread, pc, raised>>

\* ... then ibm_db.close disconnects it, without a rollback of its own for a
\* coordinated connection; close ignores the exception.
CloseDisconnect ==
  /\ job = "disconnect"
  /\ dbc' = [b \in Branches |->
               IF b \in visited /\ dbc[b] = "conn" /\ work[b] # "open"
               THEN "freed" ELSE dbc[b]]
  /\ job' = "close"
  /\ UNCHANGED <<env, closed, listed, visited, work, thread, pc, raised>>

\* The end of close: the environment handle is freed unless a connection
\* remains (an exception that close ignores), and the block is left.
CloseEnds ==
  /\ job = "close"
  /\ listed \subseteq visited
  /\ listed' = {}
  /\ env' = (env /\ \E b \in Branches : dbc[b] = "conn")
  /\ closed' = TRUE
  /\ Then("exited", "none")
  /\ UNCHANGED <<visited, dbc, work, thread, raised>>

\* The task is cancelled.  In the body that is an exception like others; in
\* __aexit__, except Exception does not catch it and the block is left.  The
\* call that was awaited never starts, or goes on in its thread.
Cancel ==
  /\ Cancels
  /\ IF pc = "body" THEN Raise("cancelled")
     ELSE /\ pc # "exited"
          /\ pc' = "exited"
          /\ raised' = "cancelled"
          /\ job' \in {job, "none"}
  /\ UNCHANGED <<env, closed, listed, visited, dbc, work, thread>>

\* MUTANT: the destructor of a connection does not disconnect it.
Collect_EnvOnly ==
  /\ pc = "exited" /\ job = "none" /\ Quiet
  /\ env
  /\ env' = \E b \in Branches : dbc[b] = "conn"
  /\ env' # env
  /\ UNCHANGED <<closed, listed, visited, dbc, work, thread, job, pc, raised>>

\* After the block, the destructors: a connection is disconnected unless its
\* work is open, the environment handle freed unless a connection remains.
Collect ==
  /\ pc = "exited" /\ job = "none" /\ Quiet
  /\ env
  /\ dbc' = [b \in Branches |->
               IF dbc[b] = "conn" /\ work[b] # "open" THEN "freed" ELSE dbc[b]]
  /\ env' = \E b \in Branches : dbc'[b] = "conn"
  /\ <<env', dbc'>> # <<env, dbc>>
  /\ UNCHANGED <<closed, listed, visited, work, thread, job, pc, raised>>

-----------------------------------------------------------------------------

BodyNext ==
  \/ \E b \in Branches :
       \/ Await(b) \/ ConnectCheck(b) \/ Connected(b) \/ ConnectFails(b)
       \/ Executed(b) \/ ExecuteFails(b)
  \/ BodyEnds \/ BodyRaises

ExitNext ==
  \/ Commits \/ CommitFails \/ RollsBack \/ RollbackFails
  \/ \E b \in Branches : CloseRollback(b)
  \/ CloseDisconnect \/ CloseEnds \/ Collect

Next == BodyNext \/ ExitNext \/ Cancel

\* Threads run the calls they were given and the event loop resumes the task;
\* the body awaits nothing for ever, and does not try again for ever.
Spec == /\ Init /\ [][Next]_vars
        /\ WF_vars(BodyNext) /\ WF_vars(ExitNext) /\ SF_vars(BodyEnds \/ BodyRaises)

-----------------------------------------------------------------------------
(* Properties *)

Left == pc = "exited" /\ job = "none" /\ Quiet

\* Work is committed on all connections or on none, whatever fails or is
\* cancelled ("committed or rolled back atomically").  (Holds if the body awaits
\* every call it has begun before it ends: see the README.)
Unit == INSTANCE AtomicUnit
AllOrNothing == Unit!Spec

\* The block tells the truth: it ends without an exception only if all work
\* is committed (as above), and with an exception only if none is.
NormalEnd ==
  pc = "exited" /\ raised = "nothing" =>
    \A b \in Branches : work[b] \in {"none", "committed"}
ExceptionalEnd ==
  pc = "exited" /\ raised = "exception" => \A b \in Branches : work[b] # "committed"
TruthfulEnd == NormalEnd /\ ExceptionalEnd

\* "If an exception occurs, pending work is rolled back."
RolledBackOnException ==
  Left /\ raised = "exception" => \A b \in Branches : work[b] # "open"

\* The block is left in the end, and every connection and the environment
\* handle are released, by close or by the destructors, unless a connection
\* is left with open work, which SQLDisconnect refuses.
Released ==
  \/ <>[](~env /\ \A b \in Branches : dbc[b] # "conn")
  \/ <>(pc = "exited" /\ \E b \in Branches : work[b] = "open")

-----------------------------------------------------------------------------
(* The inductive invariant behind AllOrNothing and TruthfulEnd *)

\* In the body, and until its commit, nothing has been decided.
Undecided ==
  /\ pc = "body" => job = "none" /\ raised = "nothing"
  /\ pc = "body" \/ job = "commit" => \A b \in Branches : work[b] \in {"none", "open"}

\* A statement runs on a connection that has no work yet.
ExecuteOK == \A b \in Branches : thread[b] = "execute" => work[b] = "none"

\* After the commit nothing is rolled back or committed any more.
CommittedOK ==
  (\E b \in Branches : work[b] = "committed") =>
    job \in {"close", "disconnect", "none"}

\* How the block ends is known from what __aexit__ has tried.
RaisedOK ==
  /\ pc = "commit" => raised = "nothing" /\ job = "commit"
  /\ job = "commit" => pc = "commit" \/ raised = "cancelled"
  /\ job = "rollback" \/ pc \in {"undo", "rollback"} => raised # "nothing"
  /\ raised = "exception" => \A b \in Branches : work[b] # "committed"

\* When the work is committed no thread is late: the body awaited them all.
AwaitedOK ==
  ~Abandons =>
    /\ job = "commit" => Quiet
    /\ (\E b \in Branches : work[b] = "committed") =>
         Quiet /\ \A b \in Branches : work[b] \in {"none", "committed"}
    /\ pc \in {"close", "exited"} /\ raised = "nothing" =>
         Quiet /\ \A b \in Branches : work[b] \in {"none", "committed"}

IInv == TypeOK /\ Undecided /\ ExecuteOK /\ CommittedOK /\ RaisedOK /\ AwaitedOK
=============================================================================
