---------------------------- MODULE StmtHandles ----------------------------
(***************************************************************************)
(* Statement handles: the Python objects that exec, prepare, next_result   *)
(* and the ten catalog functions return, and the CLI statements behind     *)
(* them.  An object keeps the number of its statement (hstmt); the number  *)
(* is freed by free_stmt, by the destructor, by a call that fails, or with *)
(* the connection.                                                         *)
(*                                                                         *)
(* Each CLI call releases the GIL: what a function does is cut there, and  *)
(* other threads' steps come between.  External: the CLI.  It gives a free *)
(* number to a new statement, answers SQL_INVALID_HANDLE for a number that *)
(* it does not know, and a disconnect frees the statements of the          *)
(* connection.                                                             *)
(*                                                                         *)
(* What a statement was given to do, its errors (ErrorInfo) and its rows   *)
(* (RowsetFetch) are left out.  A call that ends before it has changed     *)
(* anything is no step.                                                    *)
(***************************************************************************)
EXTENDS Naturals, Sequences

CONSTANTS
  Threads, Conns, Objects,
  Handles,    \* the numbers that CLI statements may have
  NoConn,
  Invalid,    \* a number that no statement ever has: not set by the CLI
  Freed,      \* hstmt = -1
  Unset,      \* what hstmt may be if the CLI has not set it
  Faults,     \* of FaultKinds
  Shared,     \* whether threads use the same object at the same time
  Misuse,     \* whether a connection, or `unique', may be of a wrong type
  Recycles    \* whether numbers freed by a disconnect are given out again

\* free: SQLFreeHandle for a statement answers SQL_ERROR.
FaultKinds == {"alloc", "options", "cli", "columns", "describe", "disconnect", "free"}

ASSUME ConstantsAssumption ==
  /\ NoConn \notin Conns
  /\ Invalid \notin Handles /\ Freed \notin Handles /\ Invalid # Freed
  /\ Unset \subseteq Handles \cup {Invalid}
  /\ Faults \subseteq FaultKinds
  /\ Shared \in BOOLEAN /\ Misuse \in BOOLEAN /\ Recycles \in BOOLEAN

VARIABLES
  connected,  \* the connections that the CLI has
  active,     \* those whose handle_active is set
  cli,        \* the CLI's statements, by number
  obj,        \* the statement objects
  call,       \* the function that each thread is in
  lost        \* arguments with a reference that no return gave back, or gave
              \* back without taking it

vars == <<connected, active, cli, obj, call, lost>>

NoStmt == [conn |-> NoConn, has |-> "nothing"]
GoneStmt == [conn |-> NoConn, has |-> "gone"]
NewStmt(c) == [conn |-> c, has |-> "new"]

Absent == [conn |-> NoConn, hstmt |-> Invalid, info |-> "none"]
Object(c, h) == [conn |-> c, hstmt |-> h, info |-> "none"]
Live(o) == obj[o] # Absent

NewCall(op, stage, c, objs) ==
  [op |-> op, at |-> stage, conn |-> c, obj |-> objs, hstmt |-> Invalid]
NoCall == NewCall("none", "none", NoConn, {})
Idle(t) == call[t] = NoCall

Creating == {"exec", "prepare", "catalog", "next_result"}

\* Where a call may be: before or after a CLI call, by function.
StagesOf ==
  [ none |-> {"none"},
    exec |-> {"alloc", "cli", "free", "return"},
    prepare |-> {"alloc", "cli", "return"},
    catalog |-> {"alloc", "cli", "return"},
    next_result |-> {"alloc", "cli", "free", "return"},
    free_stmt |-> {"end"}, free_result |-> {"end"}, field |-> {"end"}, close |-> {"end"} ]
MaxArgs == 6
Stages == UNION {StagesOf[op] : op \in DOMAIN StagesOf}

TypeOK ==
  /\ connected \subseteq Conns /\ active \subseteq Conns
  /\ cli \in [Handles -> [conn : Conns \cup {NoConn},
                          has : {"nothing", "gone", "new", "prepared", "results"}]]
  /\ obj \in [Objects -> [conn : Conns \cup {NoConn}, hstmt : Handles \cup {Invalid, Freed},
                          info : {"none", "half", "full"}]]
  /\ call \in [Threads -> [op : DOMAIN StagesOf, at : Stages, conn : Conns \cup {NoConn},
                           obj : SUBSET Objects, hstmt : Handles \cup {Invalid}]]
  /\ \A t \in Threads : call[t].at \in StagesOf[call[t].op]
  /\ lost \subseteq 1 .. MaxArgs

Init ==
  /\ connected = Conns
  /\ active = Conns
  /\ cli = [h \in Handles |-> NoStmt]
  /\ obj = [o \in Objects |-> Absent]
  /\ call = [t \in Threads |-> NoCall]
  /\ lost = {}

\* The CLI knows the number.
Known(h) == h \in Handles /\ cli[h].conn # NoConn

\* The objects that the call of a thread works on.
Using(t) == call[t].obj

Return(t) == call' = [call EXCEPT ![t] = NoCall]
Goto(t, stage) == call' = [call EXCEPT ![t].at = stage]

-----------------------------------------------------------------------------
(* The arguments of a function: converting a string takes a reference.     *)
(* Which references each return gives back:                                *)

\* A return for an argument of a wrong type those of the arguments before it,
\* one for a connection that is none of its type nothing, any other return all.
Regular(args) ==
  [ args |-> args,
    wrong |-> [i \in DOMAIN args |-> 1 .. i - 1],
    connection |-> {},
    rest |-> DOMAIN args ]

ColumnPrivileges == Regular(<<"qualifier", "owner", "table_name", "column_name">>)
Columns == Regular(<<"qualifier", "owner", "table_name", "column_name">>)
ForeignKeys == Regular(<<"pk_qualifier", "pk_owner", "pk_table_name",
                         "fk_qualifier", "fk_owner", "fk_table_name">>)
PrimaryKeys == Regular(<<"qualifier", "owner", "table_name">>)
ProcedureColumns == Regular(<<"qualifier", "owner", "proc_name", "column_name">>)
Procedures == Regular(<<"qualifier", "owner", "proc_name">>)
TablePrivileges == Regular(<<"qualifier", "owner", "table_name">>)
Tables == Regular(<<"qualifier", "owner", "table_name", "table_type">>)

\* The scope is looked at first and is no string.
SpecialColumns ==
  [ args |-> <<"scope", "qualifier", "owner", "table_name">>,
    wrong |-> <<{}, {}, {2}, {2, 3}>>,
    connection |-> {},
    rest |-> {2, 3, 4} ]

\* MUTANT: a wrong table name does not give back the owner.
Statistics_Keeps ==
  [ args |-> <<"qualifier", "owner", "table_name", "unique">>,
    wrong |-> <<{}, {1}, {1}, {}>>,
    connection |-> {},
    rest |-> {1, 2, 3} ]

\* unique is looked at last; if it is no bool, nothing is given back.
Statistics ==
  [ args |-> <<"qualifier", "owner", "table_name", "unique">>,
    wrong |-> <<{}, {1}, {1, 2}, {}>>,
    connection |-> {},
    rest |-> {1, 2, 3} ]

CatalogFunctions ==
  {ColumnPrivileges, Columns, ForeignKeys, PrimaryKeys, ProcedureColumns, Procedures,
   SpecialColumns, Statistics, TablePrivileges, Tables}

\* The references taken where a return is: the one for argument i, the one for
\* the connection (Len + 1) or any later one (Len + 2).  None is left out: no
\* reference is taken for it.
Strings(f) == {i \in DOMAIN f.args : f.args[i] \notin {"scope", "unique"}}
Taken(f, i) == {j \in Strings(f) : j < i}
Returns(f) == 1 .. Len(f.args) + 2
GivenBack(f, i) == CASE i \in DOMAIN f.args -> f.wrong[i]
                     [] i = Len(f.args) + 1 -> f.connection
                     [] OTHER -> f.rest
Unmatched(f, i) == (Taken(f, i) \ GivenBack(f, i)) \cup (GivenBack(f, i) \ Taken(f, i))

\* The returns because an argument is not of its type; those for a connection or
\* for `unique' only if there is Misuse.
Refusals(f) == {i \in 1 .. Len(f.args) + 1 :
                  Misuse \/ ~(i = Len(f.args) + 1 \/ f.args[i] = "unique")}

\* What the refusals, and the returns after the call of the CLI, leave unmatched.
RefusalsLose == UNION {{Unmatched(f, i) : i \in Refusals(f)} : f \in CatalogFunctions}
CallsLose == {Unmatched(f, Len(f.args) + 2) : f \in CatalogFunctions}

-----------------------------------------------------------------------------
(* exec, prepare and the catalog functions *)

\* The arguments are there and the connection is active.
Begin(t, op, c) ==
  /\ Idle(t)
  /\ c \in active
  /\ call' = [call EXCEPT ![t] = NewCall(op, "alloc", c, {})]
  /\ UNCHANGED <<connected, active, cli, obj>>

Exec(t, c) == Begin(t, "exec", c) /\ UNCHANGED lost
Prepare(t, c) == Begin(t, "prepare", c) /\ UNCHANGED lost

\* Each of CatalogFunctions; its references are counted here, all its further
\* returns give back the same.
Catalog(t, c) ==
  /\ Begin(t, "catalog", c)
  /\ \E args \in CallsLose : lost' = lost \cup args

CatalogRefused(t) ==
  /\ Idle(t)
  /\ \E args \in RefusalsLose : lost' = lost \cup args
  /\ UNCHANGED <<connected, active, cli, obj, call>>

InStage(t, stage, ops) == call[t].at = stage /\ call[t].op \in ops

\* SQLAllocHandle: a new statement.
AllocStmt(t, h) ==
  /\ InStage(t, "alloc", Creating)
  /\ call[t].conn \in connected
  /\ cli[h] = NoStmt \/ (Recycles /\ cli[h] = GoneStmt)
  /\ cli' = [cli EXCEPT ![h] = NewStmt(call[t].conn)]
  /\ call' = [call EXCEPT ![t].at = "cli", ![t].hstmt = h]
  /\ UNCHANGED <<connected, active, obj, lost>>

\* SQL_ERROR: the call ends, the struct it made is given up.
AllocError(t) ==
  /\ InStage(t, "alloc", Creating)
  /\ "alloc" \in Faults \/ call[t].conn \notin connected
  /\ Return(t)
  /\ UNCHANGED <<connected, active, cli, obj, lost>>

\* SQL_INVALID_HANDLE, if the connection was freed meanwhile: prepare and
\* next_result end; exec and the catalog functions, which look for SQL_ERROR
\* only, go on with whatever is in hstmt.
AllocInvalid(t) ==
  /\ InStage(t, "alloc", Creating)
  /\ call[t].conn \notin connected
  /\ IF call[t].op \in {"exec", "catalog"}
     THEN \E h \in Unset : call' = [call EXCEPT ![t].at = "cli", ![t].hstmt = h]
     ELSE Return(t)
  /\ UNCHANGED <<connected, active, cli, obj, lost>>

\* An option that exec or prepare cannot set: the statement is left behind.
OptionsError(t) ==
  /\ InStage(t, "cli", {"exec", "prepare"})
  /\ "options" \in Faults
  /\ Return(t)
  /\ UNCHANGED <<connected, active, cli, obj, lost>>

\* SQLExecDirect, SQLPrepare, SQLColumns and so on succeed.
CliCall(t) ==
  /\ InStage(t, "cli", {"exec", "prepare", "catalog"})
  /\ Known(call[t].hstmt)
  /\ cli' = [cli EXCEPT ![call[t].hstmt].has = IF call[t].op = "prepare" THEN "prepared"
                                              ELSE "results"]
  /\ Goto(t, "return")
  /\ UNCHANGED <<connected, active, obj, lost>>

\* MUTANT: every function frees the statement of a call that failed.
CliError_Frees(t) ==
  /\ InStage(t, "cli", {"exec", "prepare", "catalog"})
  /\ "cli" \in Faults /\ Known(call[t].hstmt)
  /\ Goto(t, "free")
  /\ UNCHANGED <<connected, active, cli, obj, lost>>

\* SQL_ERROR.  exec frees its statement; prepare and the catalog functions
\* leave it behind.
CliError(t) ==
  /\ InStage(t, "cli", {"exec", "prepare", "catalog"})
  /\ "cli" \in Faults /\ Known(call[t].hstmt)
  /\ IF call[t].op = "exec" THEN Goto(t, "free") ELSE Return(t)
  /\ UNCHANGED <<connected, active, cli, obj, lost>>

\* SQL_INVALID_HANDLE is an error for exec and prepare, which compare with
\* SQL_SUCCESS, and none for the catalog functions.
CliInvalid(t) ==
  /\ InStage(t, "cli", {"exec", "prepare", "catalog"})
  /\ ~Known(call[t].hstmt)
  /\ CASE call[t].op = "exec" -> Goto(t, "free")
       [] call[t].op = "prepare" -> Return(t)
       [] OTHER -> Goto(t, "return")
  /\ UNCHANGED <<connected, active, cli, obj, lost>>

\* The CLI statement of a call of exec or next_result that failed is freed.
FreeFailed(t) ==
  /\ InStage(t, "free", {"exec", "next_result"})
  /\ cli' = IF Known(call[t].hstmt) THEN [cli EXCEPT ![call[t].hstmt] = NoStmt] ELSE cli
  /\ Return(t)
  /\ UNCHANGED <<connected, active, obj, lost>>

\* SQL_ERROR: nothing looks at it.
FreeFailedRefused(t) ==
  /\ InStage(t, "free", {"exec", "next_result"})
  /\ "free" \in Faults /\ Known(call[t].hstmt)
  /\ Return(t)
  /\ UNCHANGED <<connected, active, cli, obj, lost>>

\* MUTANT: next_result gives its object the statement of the old one.
ReturnStmt_Old(t, o) ==
  /\ InStage(t, "return", Creating)
  /\ ~Live(o)
  /\ \E h \in IF Using(t) = {} THEN {call[t].hstmt} ELSE {obj[p].hstmt : p \in Using(t)} :
       obj' = [obj EXCEPT ![o] = Object(call[t].conn, h)]
  /\ Return(t)
  /\ UNCHANGED <<connected, active, cli, lost>>

\* The object is returned to the caller.
ReturnStmt(t, o) ==
  /\ InStage(t, "return", Creating)
  /\ ~Live(o)
  /\ obj' = [obj EXCEPT ![o] = Object(call[t].conn, call[t].hstmt)]
  /\ Return(t)
  /\ UNCHANGED <<connected, active, cli, lost>>

-----------------------------------------------------------------------------
(* Functions on a statement object *)

\* A thread may be given an object that another one is using only if Shared.
Takes(t, o) == Idle(t) /\ Live(o) /\ (Shared \/ \A u \in Threads : o \notin Using(u))

CallOn(t, op, stage, o) ==
  call' = [call EXCEPT ![t] = NewCall(op, stage, NoConn, {o})]

\* next_result: a new statement on the connection of the object, whether it
\* is active or not.
NextResult(t, o) ==
  /\ Takes(t, o)
  /\ call' = [call EXCEPT ![t] = NewCall("next_result", "alloc", obj[o].conn, {o})]
  /\ UNCHANGED <<connected, active, cli, obj, lost>>

\* SQLNextResult: the new statement has the next result set.
MoreResults(t, o) ==
  /\ InStage(t, "cli", {"next_result"}) /\ o \in Using(t)
  /\ Known(obj[o].hstmt) /\ Known(call[t].hstmt)
  /\ cli[obj[o].hstmt].has = "results"
  /\ cli' = [cli EXCEPT ![call[t].hstmt].has = "results"]
  /\ Goto(t, "return")
  /\ UNCHANGED <<connected, active, obj, lost>>

\* MUTANT: the new statement is left behind.
NoMoreResults_Keeps(t) ==
  /\ InStage(t, "cli", {"next_result"})
  /\ Return(t)
  /\ UNCHANGED <<connected, active, cli, obj, lost>>

\* Anything but SQL_SUCCESS: the new statement is freed, even when it has got
\* the result set (SQL_SUCCESS_WITH_INFO).
NoMoreResults(t) ==
  /\ InStage(t, "cli", {"next_result"})
  /\ Goto(t, "free")
  /\ UNCHANGED <<connected, active, cli, obj, lost>>

\* SQLFreeHandle, whose answer SQL_INVALID_HANDLE counts as success.  After
\* SQL_ERROR free_stmt has changed nothing: the object keeps its statement.
FreeHandle(h) == cli' = IF Known(h) THEN [cli EXCEPT ![h] = NoStmt] ELSE cli

FreeStmt(t, o) ==
  /\ Takes(t, o)
  /\ obj[o].hstmt # Freed
  /\ FreeHandle(obj[o].hstmt)
  /\ CallOn(t, "free_stmt", "end", o)
  /\ UNCHANGED <<connected, active, obj, lost>>

\* MUTANT: the number is kept.
FreeStmtEnd_Keeps(t, o) ==
  /\ InStage(t, "end", {"free_stmt"}) /\ o \in Using(t)
  /\ obj' = [obj EXCEPT ![o].info = "none"]
  /\ Return(t)
  /\ UNCHANGED <<connected, active, cli, lost>>

FreeStmtEnd(t, o) ==
  /\ InStage(t, "end", {"free_stmt"}) /\ o \in Using(t)
  /\ obj' = [obj EXCEPT ![o].info = "none", ![o].hstmt = Freed]
  /\ Return(t)
  /\ UNCHANGED <<connected, active, cli, lost>>

\* SQLFreeStmt with SQL_CLOSE; then the column information is freed.
FreeResult(t, o) ==
  /\ Takes(t, o)
  /\ cli' = IF Known(obj[o].hstmt) /\ cli[obj[o].hstmt].has = "results"
            THEN [cli EXCEPT ![obj[o].hstmt].has = "new"] ELSE cli
  /\ CallOn(t, "free_result", "end", o)
  /\ UNCHANGED <<connected, active, obj, lost>>

FreeResultEnd(t, o) ==
  /\ InStage(t, "end", {"free_result"}) /\ o \in Using(t)
  /\ obj' = [obj EXCEPT ![o].info = "none"]
  /\ Return(t)
  /\ UNCHANGED <<connected, active, cli, lost>>

\* Nobody has the object any more.
Unused(o) == Live(o) /\ \A u \in Threads : o \notin Using(u)

\* The destructor.
Drop(t, o) ==
  /\ Idle(t) /\ Unused(o)
  /\ IF obj[o].hstmt # Freed THEN FreeHandle(obj[o].hstmt) ELSE UNCHANGED cli
  /\ obj' = [obj EXCEPT ![o] = Absent]
  /\ UNCHANGED <<connected, active, call, lost>>

\* SQL_ERROR: nothing looks at it, the object is gone.
DropRefused(t, o) ==
  /\ Idle(t) /\ Unused(o)
  /\ "free" \in Faults /\ Known(obj[o].hstmt)
  /\ obj' = [obj EXCEPT ![o] = Absent]
  /\ UNCHANGED <<connected, active, cli, call, lost>>

-----------------------------------------------------------------------------
(* Column information *)

Describable(o) == Known(obj[o].hstmt) /\ cli[obj[o].hstmt].has \in {"prepared", "results"}

\* _python_ibm_db_get_result_set_info: no columns or an error, an error after
\* column_info was allocated, or all columns.
ResultSetInfo(o, info) ==
  \/ (~Describable(o) \/ "columns" \in Faults) /\ info = obj[o].info
  \/ Describable(o) /\ "describe" \in Faults /\ info = "half"
  \/ Describable(o) /\ info = "full"

\* The functions field_... use column information that is there, half filled or
\* not.  Without it get_column_by_name describes the columns, does not look at
\* the result,
FieldDescribe(t, o, info) ==
  /\ Takes(t, o)
  /\ obj[o].info = "none"
  /\ ResultSetInfo(o, info)
  /\ obj' = [obj EXCEPT ![o].info = info]
  /\ CallOn(t, "field", "end", o)
  /\ UNCHANGED <<connected, active, cli, lost>>

\* and describes them once more.
FieldDescribeAgain(t, o, info) ==
  /\ InStage(t, "end", {"field"}) /\ o \in Using(t)
  /\ ResultSetInfo(o, info)
  /\ obj' = [obj EXCEPT ![o].info = info]
  /\ Return(t)
  /\ UNCHANGED <<connected, active, cli, lost>>

-----------------------------------------------------------------------------
(* close *)

\* SQLDisconnect frees the statements of the connection.
Close(t, c) ==
  /\ Idle(t)
  /\ c \in active \cap connected
  /\ connected' = connected \ {c}
  /\ cli' = [h \in Handles |-> IF cli[h].conn = c THEN GoneStmt ELSE cli[h]]
  /\ call' = [call EXCEPT ![t] = NewCall("close", "end", c, {})]
  /\ UNCHANGED <<active, obj, lost>>

\* handle_active is reset last, not at all if SQLFreeHandle fails.
CloseEnd(t) ==
  /\ InStage(t, "end", {"close"})
  /\ \/ active' = active \ {call[t].conn}
     \/ "disconnect" \in Faults /\ UNCHANGED active
  /\ Return(t)
  /\ UNCHANGED <<connected, cli, obj, lost>>

-----------------------------------------------------------------------------

Creation(t) ==
  \/ \E c \in Conns : Exec(t, c) \/ Prepare(t, c) \/ Catalog(t, c) \/ Close(t, c)
  \/ CatalogRefused(t)
  \/ \E h \in Handles : AllocStmt(t, h)
  \/ AllocError(t) \/ AllocInvalid(t) \/ OptionsError(t)
  \/ CliCall(t) \/ CliError(t) \/ CliInvalid(t)
  \/ FreeFailed(t) \/ FreeFailedRefused(t)
  \/ \E o \in Objects : ReturnStmt(t, o)
  \/ NoMoreResults(t) \/ CloseEnd(t)

Use(t, o) ==
  \/ NextResult(t, o) \/ MoreResults(t, o)
  \/ FreeStmt(t, o) \/ FreeStmtEnd(t, o)
  \/ FreeResult(t, o) \/ FreeResultEnd(t, o)
  \/ Drop(t, o) \/ DropRefused(t, o)
  \/ \E info \in {"none", "half", "full"} :
       FieldDescribe(t, o, info) \/ FieldDescribeAgain(t, o, info)

Next ==
  \E t \in Threads : Creation(t) \/ \E o \in Objects : Use(t, o)

Spec == Init /\ [][Next]_vars

-----------------------------------------------------------------------------
(* Properties *)

\* The CLI statements that an object or a call in progress answers for.
FreesAlready(o) == \E t \in Threads : call[t].op = "free_stmt" /\ o \in Using(t)
OfObject(o) == IF Live(o) /\ obj[o].conn \in connected /\ ~FreesAlready(o)
               THEN {obj[o].hstmt} \ {Freed} ELSE {}
OfCall(t) == IF call[t].conn \in connected /\ call[t].at \in {"cli", "free", "return"}
             THEN {call[t].hstmt} ELSE {}

\* As long as its connection is there, an object that was not freed has a
\* statement of that connection: no other thread, no destructor of another
\* object and no failed call has freed it.
KeepsItsStatement ==
  \A o \in Objects : \A h \in OfObject(o) : Known(h) /\ cli[h].conn = obj[o].conn

\* No two objects or calls answer for the same statement.
OneOwner ==
  /\ \A o, p \in Objects : o # p => OfObject(o) \cap OfObject(p) = {}
  /\ \A t, u \in Threads : t # u => OfCall(t) \cap OfCall(u) = {}
  /\ \A o \in Objects, t \in Threads : OfObject(o) \cap OfCall(t) = {}

\* The errors after which a statement stays behind: in prepare or in a catalog
\* function, in the options of exec, and of SQLFreeHandle where nothing looks.
Excused ==
  \E t \in Threads :
    \/ OptionsError(t) \/ (CliError(t) /\ call[t].op # "exec")
    \/ FreeFailedRefused(t) \/ \E o \in Objects : DropRefused(t, o)

Owned(h) == \/ \E o \in Objects : h \in OfObject(o)
            \/ \E t \in Threads : h \in OfCall(t)
LeftBehind(h) == Known(h) /\ Owned(h) /\ Known(h)' /\ ~Owned(h)'

\* A statement that nobody answers for any more is freed, but for these errors.
NoneLeftBehind == [][\A h \in Handles : LeftBehind(h) => Excused]_vars

\* The returns of a catalog function give back the references to its converted
\* arguments that the function has taken until there, and no other.  False with
\* Misuse: the returns for a connection or a `unique' of a wrong type lose them.
ReferencesGivenBack == lost = {}

-----------------------------------------------------------------------------
(* What the documentation says and the code does not do (see the README) *)

\* "Initialize the result set information of each column": an object has the
\* columns of its statement or none, not a part of them.
ColumnsWhole == \A o \in Objects : obj[o].info # "half"
=============================================================================
