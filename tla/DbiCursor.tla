----------------------------- MODULE DbiCursor -----------------------------
(***************************************************************************)
(* Connection and Cursor of ibm_db_dbi: one connection, whose cursors are  *)
(* used by threads, each by one at a time, as with asyncio.gather.  A call *)
(* of a cursor makes several calls of ibm_db; other threads' steps come    *)
(* between.  In question is the transaction: executemany switches          *)
(* autocommit off for its batch, which is the connection's autocommit, and *)
(* so that of all other cursors.                                           *)
(*                                                                         *)
(* The autocommit mode is kept twice: by the driver, and in the field      *)
(* auto_commit of the handle, which ibm_db.autocommit reads and compares,  *)
(* and assigns after the driver has answered.                              *)
(*                                                                         *)
(* External: the CLI, as in ConnPool; switching autocommit on commits.     *)
(* Left out: row counts, descriptions, messages, rows (RowsetFetch),       *)
(* parameters (StmtParams) and calls that change nothing here.             *)
(***************************************************************************)
EXTENDS Naturals

CONSTANTS
  Cursors,
  Overlap,  \* whether batches, and calls on the connection, come while a
            \* batch is in progress
  Faults    \* what may fail, of FaultKinds

FaultKinds == {"free", "prepare", "execute", "describe", "attr", "batch", "commit", "count"}

ASSUME ConstantsAssumption == Overlap \in BOOLEAN /\ Faults \subseteq FaultKinds

VARIABLES
  open,     \* Connection.conn_handler is there
  auto,     \* the driver is in autocommit mode
  field,    \* conn_handle.auto_commit
  want,     \* the mode that the caller has chosen
  spoiled,  \* a batch was left, or a switch failed, before the mode was right
            \* again; until set_autocommit(True)
  cursor,   \* conn_handler, stmt_handler and _result_set_produced
  work,     \* by cursor, its uncommitted work at the server: open, told if a
            \* call has reported it as done in autocommit mode, undone if it
            \* was rolled back after that
  call      \* the call that each cursor is in

vars == <<open, auto, field, want, spoiled, cursor, work, call>>
mode == <<open, auto, field, want, spoiled>>

\* Calls of ibm_db to come; autocommit(conn, to) is three of them: compare
\* with the field, SQLSetConnectAttr, assign the field.
Stages == {"none", "prepare", "execute", "end", "mode", "compare", "attr", "field",
           "batch", "commit", "count", "handler"}

NoCall == [op |-> "none", at |-> "none", saved |-> FALSE, to |-> FALSE, failed |-> FALSE]
Idle(c) == call[c] = NoCall
At(c, stage) == call[c].at = stage

Unused == [conn |-> FALSE, stmt |-> "none", produced |-> FALSE]
NoWork == [c \in Cursors |-> "none"]
RolledBack == [c \in Cursors |-> IF work[c] = "told" THEN "undone" ELSE "none"]

CursorState == [conn : BOOLEAN, produced : BOOLEAN,
                stmt : {"none", "freed", "prepared", "results", "done"}]
CallState == [op : {"none", "execute", "prepare", "executemany"}, at : Stages,
              saved : BOOLEAN, to : BOOLEAN, failed : BOOLEAN]

TypeOK ==
  /\ open \in BOOLEAN /\ auto \in BOOLEAN /\ field \in BOOLEAN
  /\ want \in BOOLEAN /\ spoiled \in BOOLEAN
  /\ cursor \in [Cursors -> CursorState]
  /\ work \in [Cursors -> {"none", "open", "told", "undone"}]
  /\ call \in [Cursors -> CallState]
  /\ \A c \in Cursors : /\ call[c].op = "none" <=> At(c, "none")
                        /\ cursor[c].conn => open

\* connect switches autocommit off unless its options say otherwise.
Init ==
  /\ open = TRUE
  /\ auto \in BOOLEAN /\ field = auto /\ want = auto
  /\ spoiled = FALSE
  /\ cursor = [c \in Cursors |-> Unused]
  /\ work = NoWork
  /\ call = [c \in Cursors |-> NoCall]

Batching == \E c \in Cursors : call[c].op = "executemany"
Free(c) == Idle(c) /\ cursor[c].conn

Goto(c, stage) == call' = [call EXCEPT ![c].at = stage]
Return(c) == call' = [call EXCEPT ![c] = NoCall]

\* What the server makes of a statement.
Works(c, state) == work' = IF auto THEN work ELSE [work EXCEPT ![c] = state]

\* The call returns: in autocommit mode the caller takes its work for committed.
Told(c) == work' = IF want /\ work[c] = "open" THEN [work EXCEPT ![c] = "told"] ELSE work

-----------------------------------------------------------------------------
(* execute and prepare *)

\* Check of the connection and entry into its list at once: no cursor is made
\* while the connection is being closed.
NewCursor(c) ==
  /\ open /\ Idle(c) /\ ~cursor[c].conn
  /\ cursor' = [cursor EXCEPT ![c] = [Unused EXCEPT !.conn = TRUE]]
  /\ UNCHANGED <<mode, work, call>>

\* _prepare_helper: the old statement is freed, or not; nobody is told.
Begin(c, op) ==
  /\ Free(c)
  /\ op = "executemany" => Overlap \/ ~Batching
  /\ \/ cursor' = [cursor EXCEPT ![c].stmt = IF @ = "none" THEN @ ELSE "freed"]
     \/ "free" \in Faults /\ UNCHANGED cursor
  /\ call' = [call EXCEPT ![c] = [NoCall EXCEPT !.op = op, !.at = "prepare"]]
  /\ UNCHANGED <<mode, work>>

Prepare(c) ==
  /\ At(c, "prepare")
  /\ cursor' = [cursor EXCEPT ![c].stmt = "prepared"]
  /\ CASE call[c].op = "prepare" -> Return(c)
       [] call[c].op = "execute" -> Goto(c, "execute")
       [] OTHER -> Goto(c, "mode")
  /\ UNCHANGED <<mode, work>>

\* The statement that was freed stays with the cursor.
PrepareFails(c) ==
  /\ At(c, "prepare") /\ "prepare" \in Faults
  /\ Return(c)
  /\ UNCHANGED <<mode, cursor, work>>

\* execute without an operation, after prepare.
ExecutePrepared(c) ==
  /\ Free(c)
  /\ cursor[c].stmt \notin {"none", "freed"}
  /\ call' = [call EXCEPT ![c] = [NoCall EXCEPT !.op = "execute", !.at = "execute"]]
  /\ UNCHANGED <<mode, cursor, work>>

Execute(c, stmt) ==
  /\ At(c, "execute")
  /\ cursor' = [cursor EXCEPT ![c].stmt = stmt]
  /\ Works(c, "open")
  /\ Goto(c, "end")
  /\ UNCHANGED mode

ExecuteFails(c) ==
  /\ At(c, "execute") /\ "execute" \in Faults
  /\ Return(c)
  /\ UNCHANGED <<mode, cursor, work>>

\* _set_cursor_helper and _set_rowcount.
ExecuteEnds(c) ==
  /\ At(c, "end")
  /\ cursor' = [cursor EXCEPT ![c].produced = (cursor[c].stmt = "results")]
  /\ Told(c)
  /\ Return(c)
  /\ UNCHANGED mode

\* get_option, num_fields, num_rows or get_num_result raises, when all is done.
ExecuteEndFails(c) ==
  /\ At(c, "end") /\ "describe" \in Faults
  /\ \E produced \in {cursor[c].produced, FALSE, cursor[c].stmt = "results"} :
       cursor' = [cursor EXCEPT ![c].produced = produced]
  /\ Return(c)
  /\ UNCHANGED <<mode, work>>

-----------------------------------------------------------------------------
(* executemany *)

\* autocommit(conn): off is next if it is on.
GetMode(c) ==
  /\ At(c, "mode")
  /\ call' = [call EXCEPT ![c].saved = field, ![c].to = FALSE,
                          ![c].at = IF field THEN "compare" ELSE "batch"]
  /\ UNCHANGED <<mode, cursor, work>>

AfterSwitch(c) == IF call[c].to THEN "count" ELSE "batch"

\* autocommit(conn, to)
Compare(c) ==
  /\ At(c, "compare")
  /\ Goto(c, IF field = call[c].to THEN AfterSwitch(c) ELSE "attr")
  /\ UNCHANGED <<mode, cursor, work>>

SetAttr(c) ==
  /\ At(c, "attr")
  /\ auto' = call[c].to
  /\ work' = IF call[c].to THEN NoWork ELSE work
  /\ Goto(c, "field")
  /\ UNCHANGED <<open, field, want, spoiled, cursor>>

SetAttrFails(c) ==
  /\ At(c, "attr") /\ "attr" \in Faults
  /\ spoiled' = TRUE
  /\ call' = [call EXCEPT ![c].at = "field", ![c].failed = TRUE]
  /\ UNCHANGED <<open, auto, field, want, cursor, work>>

\* The field is assigned in any case.
SetField(c) ==
  /\ At(c, "field")
  /\ field' = call[c].to
  /\ Goto(c, IF call[c].failed THEN "handler" ELSE AfterSwitch(c))
  /\ UNCHANGED <<open, auto, want, spoiled, cursor, work>>

\* MUTANT: the batch is committed whatever the mode was.
BatchExecutes_Commits(c) ==
  /\ At(c, "batch")
  /\ cursor' = [cursor EXCEPT ![c].stmt = "done"]
  /\ Works(c, "open")
  /\ Goto(c, "commit")
  /\ UNCHANGED mode

BatchExecutes(c) ==
  /\ At(c, "batch")
  /\ cursor' = [cursor EXCEPT ![c].stmt = "done"]
  /\ Works(c, "open")
  /\ Goto(c, IF call[c].saved THEN "commit" ELSE "count")
  /\ UNCHANGED mode

\* Some rows may have been executed.
BatchFails(c) ==
  /\ At(c, "batch") /\ "batch" \in Faults
  /\ Works(c, "open") \/ UNCHANGED work
  /\ spoiled' = (spoiled \/ call[c].saved)
  /\ Goto(c, "handler")
  /\ UNCHANGED <<open, auto, field, want, cursor>>

\* MUTANT: the mode is not restored.
BatchCommits_Leaves(c) ==
  /\ At(c, "commit")
  /\ work' = NoWork
  /\ Goto(c, "count")
  /\ UNCHANGED <<mode, cursor>>

BatchCommits(c) ==
  /\ At(c, "commit")
  /\ work' = NoWork
  /\ call' = [call EXCEPT ![c].at = "compare", ![c].to = TRUE]
  /\ UNCHANGED <<mode, cursor>>

BatchCommitFails(c) ==
  /\ At(c, "commit") /\ "commit" \in Faults
  /\ work' \in {work, RolledBack}
  /\ spoiled' = TRUE
  /\ Goto(c, "handler")
  /\ UNCHANGED <<open, auto, field, want, cursor>>

BatchEnds(c) ==
  /\ At(c, "count")
  /\ Told(c)
  /\ Return(c)
  /\ UNCHANGED <<mode, cursor>>

\* A count of -1 is an exception.
BatchNotCounted(c) ==
  /\ At(c, "count") /\ "count" \in Faults
  /\ Goto(c, "handler")
  /\ UNCHANGED <<mode, cursor, work>>

\* _set_rowcount, then the exception.
BatchRaises(c) ==
  /\ At(c, "handler")
  /\ Return(c)
  /\ UNCHANGED <<mode, cursor, work>>

-----------------------------------------------------------------------------
(* callproc, nextset and close of a cursor *)

Callproc(c, stmt) ==
  /\ Free(c)
  /\ cursor' = [cursor EXCEPT ![c].stmt = stmt, ![c].produced = TRUE]
  /\ Works(c, IF want THEN "told" ELSE "open")
  /\ UNCHANGED <<mode, call>>

\* After the last result set the cursor has no statement.
NextSet(c) ==
  /\ Free(c)
  /\ cursor[c].produced /\ cursor[c].stmt \notin {"none", "freed"}
  /\ \E stmt \in {"none"} \cup ({"results"} \cap {cursor[c].stmt}) :
       cursor' = [cursor EXCEPT ![c].stmt = stmt]
  /\ UNCHANGED <<mode, work, call>>

CursorClose(c) ==
  /\ Free(c)
  /\ cursor' = [cursor EXCEPT ![c].conn = FALSE, ![c].stmt = "none"]
  /\ UNCHANGED <<mode, work, call>>

-----------------------------------------------------------------------------
(* Connection *)

Apart == open /\ (Overlap \/ ~Batching)

Commit ==
  /\ Apart
  /\ work' = NoWork
  /\ UNCHANGED <<mode, cursor, call>>

\* Also that of a close which then fails, or of a commit that fails.  A rollback
\* that fails says so in its answer only.
Rollback ==
  /\ Apart
  /\ work' = RolledBack
  /\ UNCHANGED <<mode, cursor, call>>

SetAutocommit(on) ==
  /\ Apart
  /\ auto' = on /\ field' = on /\ want' = on
  /\ work' = IF on THEN NoWork ELSE work
  /\ spoiled' = (spoiled /\ ~on)
  /\ UNCHANGED <<open, cursor, call>>

\* The field is assigned first.
SetAutocommitFails(on) ==
  /\ Apart
  /\ "attr" \in Faults
  /\ field' = on
  /\ spoiled' = TRUE
  /\ UNCHANGED <<open, auto, want, cursor, work, call>>

\* MUTANT: the cursors keep the connection.
Close_Keeps ==
  /\ Apart
  /\ \A c \in Cursors : Idle(c)
  /\ open' = FALSE
  /\ work' = RolledBack
  /\ UNCHANGED <<auto, field, want, spoiled, cursor, call>>

\* close begins with a Rollback; this is ibm_db.close, which rolls back what was
\* done since and disconnects, and then each cursor letting go of the connection.
\* The code waits for nobody; a close while a cursor is in a call is left out.
Close ==
  /\ Apart
  /\ \A c \in Cursors : Idle(c)
  /\ open' = FALSE
  /\ work' = RolledBack
  /\ cursor' = [c \in Cursors |->
                  IF cursor[c].conn THEN [cursor[c] EXCEPT !.conn = FALSE, !.stmt = "none"]
                  ELSE cursor[c]]
  /\ UNCHANGED <<auto, field, want, spoiled, call>>

-----------------------------------------------------------------------------

ExecuteStep(c) ==
  \/ \E op \in {"execute", "prepare", "executemany"} : Begin(c, op)
  \/ Prepare(c) \/ PrepareFails(c) \/ ExecutePrepared(c)
  \/ \E stmt \in {"results", "done"} : Execute(c, stmt)
  \/ ExecuteFails(c) \/ ExecuteEnds(c) \/ ExecuteEndFails(c)

BatchStep(c) ==
  \/ GetMode(c) \/ Compare(c) \/ SetAttr(c) \/ SetAttrFails(c) \/ SetField(c)
  \/ BatchExecutes(c) \/ BatchFails(c) \/ BatchCommits(c) \/ BatchCommitFails(c)
  \/ BatchEnds(c) \/ BatchNotCounted(c) \/ BatchRaises(c)

CursorStep(c) ==
  \/ NewCursor(c) \/ ExecuteStep(c) \/ BatchStep(c)
  \/ \E stmt \in {"results", "done"} : Callproc(c, stmt)
  \/ NextSet(c) \/ CursorClose(c)

ConnectionStep ==
  \/ Commit \/ Rollback \/ Close
  \/ \E on \in BOOLEAN : SetAutocommit(on) \/ SetAutocommitFails(on)

Next == ConnectionStep \/ \E c \in Cursors : CursorStep(c)

Spec == Init /\ [][Next]_vars

-----------------------------------------------------------------------------
(* Properties *)

\* Between batches the driver is in the mode that the caller has chosen, and
\* in manual mode always, unless a batch or a switch has failed: what
\* executemany switches off for itself it switches on again.
ModeRestored ==
  ~spoiled => /\ ~Batching => auto = want
              /\ ~want => ~auto

\* In autocommit mode a rollback, also that of close, undoes nothing that a
\* call has reported as done, not even by a cursor whose call came while
\* another one was executing a batch, unless a batch or a switch has failed.
NothingUndone == ~spoiled => \A c \in Cursors : work[c] # "undone"

\* In manual mode no call of a cursor commits.
OnlyCommitCommits ==
  [][~want /\ ~spoiled /\ (\E c \in Cursors : CursorStep(c)) =>
       \A c \in Cursors : work[c] # "none" => work'[c] # "none"]_vars

-----------------------------------------------------------------------------
(* What the documentation says and the code does not do (see the README) *)

\* "rollback() normally has no effect unless AUTOCOMMIT has been turned off".
NoEffect == \A c \in Cursors : work[c] # "undone"

\* "The last call to execute did not produce any result set" is said of a
\* cursor before anything is fetched from its statement.
ProducedResults ==
  \A c \in Cursors : Free(c) /\ cursor[c].produced => cursor[c].stmt \in {"none", "results"}
=============================================================================
