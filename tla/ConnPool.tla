------------------------------ MODULE ConnPool ------------------------------
(***************************************************************************)
(* Connection handles of the C extension: ibm_db.connect, ibm_db.pconnect, *)
(* the process-wide dictionary persistent_list that pconnect reuses, and   *)
(* the calls that end a handle's life or its transaction (close, commit,   *)
(* rollback, autocommit, deallocation of the Python object).               *)
(*                                                                         *)
(* A call holds Python's global lock except inside the CLI calls that      *)
(* Py_BEGIN_ALLOW_THREADS brackets.  connect_helper, autocommit and close  *)
(* read and set fields between such calls, so each is a sequence of steps   *)
(* between which other threads run; a function with one CLI call that       *)
(* changes no field is one step.                                           *)
(*                                                                         *)
(* The CLI driver is external: a DBC handle is "unused", "alloc"           *)
(* (allocated, not connected), "conn", "dead" (the server went away and    *)
(* rolled the open transaction back), "closed" (disconnected) or "freed".  *)
(* SQLDisconnect refuses a connection with an open transaction (SQLSTATE   *)
(* 25000) and SQLFreeHandle a connected DBC; SQL_ATTR_AUTOCOMMIT ON commits *)
(* the open transaction.                                                   *)
(*                                                                         *)
(* Addresses and DBC handles are not used twice, and a run ends where a    *)
(* deleted conn_handle would be dereferenced (what C does then has no      *)
(* definition): HandlesLive says when that cannot be reached.              *)
(***************************************************************************)
EXTENDS Naturals, FiniteSets, Sequences

CONSTANTS
  Threads,   \* Python threads; PyThread_get_thread_ident() tells them apart
  Creds,     \* connection requests: records uid, database, password
  Handles,   \* conn_handle objects
  Dbcs,      \* CLI connection (DBC) handles
  NoHandle,  \* the NULL of a conn_handle pointer, no entry of the dictionary
  NoDbc,     \* no DBC handle: the structure does not exist
  Overlap,   \* whether two threads may be in calls on one handle at once
  Faults     \* the CLI failures considered, see FaultKinds

FaultKinds == {"alloc", "connect", "options", "info", "attr", "free"}

ASSUME ConstantsAssumption ==
  /\ NoHandle \notin Handles
  /\ NoDbc \notin Dbcs
  /\ Creds # {}
  /\ Overlap \in BOOLEAN
  /\ Faults \subseteq FaultKinds

VARIABLES
  pool,      \* persistent_list: thread and credentials -> conn_handle
  conn,      \* the conn_handle structures
  dbc,       \* the CLI's DBC handles
  call,      \* the call in progress in each thread
  holds,     \* the handles each thread's Python code has a reference to
  passed,    \* history: handles that code handed from one thread to another
  foreign    \* history: handles not passed on, over which a thread's work was
             \* committed by a call of another thread

vars == <<pool, conn, dbc, call, holds, passed, foreign>>

\* Mutant: hKey without the thread id.
Key_NoThread(t, c) == <<c.uid \o c.database \o c.password, 0>>

\* hKey: uid, database and password joined without a separator, then the
\* process id (one process here) and the thread id.
Key(t, c) == <<c.uid \o c.database \o c.password, t>>
Keys == {Key(t, c) : t \in Threads, c \in Creds}

\* Before a CLI call that sets autocommit ("reset", "option", "switch"), after
\* it ("defaults", "refused", "assign"), before the other calls named.
ConnectSteps == {"reset", "defaults", "refused", "option", "connect", "finish"}
AutocommitSteps == {"switch", "assign"}
CloseSteps == {"disconnect", "free_dbc", "free_env"}
Steps == {"idle"} \cup ConnectSteps \cup AutocommitSteps \cup CloseSteps

NoCred == CHOOSE c \in Creds : TRUE
Idle == [step |-> "idle", h |-> NoHandle, cred |-> NoCred, reused |-> FALSE,
         on |-> FALSE]

ConnHandles == [mem : {"unused", "live", "deleted"}, active : BOOLEAN,
                pconnect : BOOLEAN, auto : BOOLEAN, dbc : Dbcs \cup {NoDbc},
                cred : Creds]
DbcHandles == [st : {"unused", "alloc", "conn", "dead", "closed", "freed"},
               auto : BOOLEAN, work : SUBSET Threads]
Begun(step, h, c, reused) ==
  [Idle EXCEPT !.step = step, !.h = h, !.cred = c, !.reused = reused]
Calls == [step : Steps, h : Handles \cup {NoHandle}, cred : Creds,
          reused : BOOLEAN, on : BOOLEAN]

TypeOK ==
  /\ pool \in [Keys -> Handles \cup {NoHandle}]
  /\ conn \in [Handles -> ConnHandles]
  /\ \A h \in Handles : conn[h].mem = "live" => conn[h].dbc \in Dbcs
  /\ dbc \in [Dbcs -> DbcHandles]
  /\ call \in [Threads -> Calls]
  /\ holds \in [Threads -> SUBSET Handles]
  /\ passed \in SUBSET Handles
  /\ foreign \in SUBSET Handles

\* Memory that is no conn_handle: not yet, or no more.
NoConn(mem) == [mem |-> mem, active |-> FALSE, pconnect |-> FALSE,
                auto |-> TRUE, dbc |-> NoDbc, cred |-> NoCred]

Init ==
  /\ pool = [k \in Keys |-> NoHandle]
  /\ conn = [h \in Handles |-> NoConn("unused")]
  /\ dbc = [d \in Dbcs |-> [st |-> "unused", auto |-> TRUE, work |-> {}]]
  /\ call = [t \in Threads |-> Idle]
  /\ holds = [t \in Threads |-> {}]
  /\ passed = {}
  /\ foreign = {}

-----------------------------------------------------------------------------
(* Handles *)

Live(h) == conn[h].mem = "live"
DbcOf(h) == dbc[conn[h].dbc]

FreshDbc == [st |-> "alloc", auto |-> TRUE, work |-> {}]
FreedDbc == [st |-> "freed", auto |-> TRUE, work |-> {}]

\* SQLFreeHandle(SQL_HANDLE_DBC) without SQLDisconnect.
FreeHandle(d) == IF d.st \in {"alloc", "closed"} THEN FreedDbc ELSE d

\* Thread t's call commits the work open on handle h's connection.
NoteForeign(t, h) ==
  foreign' = IF DbcOf(h).work \ {t} # {} /\ h \notin passed
             THEN foreign \cup {h} ELSE foreign

\* Thread t may begin a call that works on handle h.
NotBusy(h) == Overlap \/ \A u \in Threads : call[u].h # h

\* An idle thread has a handle; it calls a function of the extension on it.
Has(t, h) == call[t] = Idle /\ h \in holds[t] /\ Live(h)
Active(t, h) == Has(t, h) /\ NotBusy(h) /\ conn[h].active

\* The call in progress goes on with another step, or ends.
GoOn(t, step) == call' = [call EXCEPT ![t].step = step]
End(t) == call' = [call EXCEPT ![t] = Idle]

-----------------------------------------------------------------------------
(* connect_helper *)

\* PyObject_NEW and SQLAllocHandle: a new conn_handle with a new DBC, and the
\* field auto_commit ON.
StartNew(t, c, isPersistent) ==
  /\ call[t] = Idle
  /\ isPersistent => pool[Key(t, c)] = NoHandle
  /\ \E h \in Handles, d \in Dbcs :
       /\ conn[h].mem = "unused"
       /\ dbc[d].st = "unused"
       /\ conn' = [conn EXCEPT ![h] =
            [mem |-> "live", active |-> FALSE, pconnect |-> isPersistent,
             auto |-> TRUE, dbc |-> d, cred |-> c]]
       /\ dbc' = [dbc EXCEPT ![d] = FreshDbc]
       /\ call' = [call EXCEPT ![t] = Begun("reset", h, c, FALSE)]
  /\ UNCHANGED <<pool, holds, passed, foreign>>

\* The entry of the dictionary for a request, of which the caller has the only
\* use, unless calls may overlap.
Entry(t, c, h) ==
  call[t] = Idle /\ pool[Key(t, c)] = h /\ Live(h) /\ NotBusy(h)

\* The dictionary has an entry and SQL_ATTR_PING_DB finds it alive: the field
\* auto_commit becomes ON.
StartReuse(t, c) ==
  /\ \E h \in Handles :
       /\ Entry(t, c, h)
       /\ DbcOf(h).st = "conn"
       /\ conn' = [conn EXCEPT ![h].auto = TRUE]
       /\ call' = [call EXCEPT ![t] = Begun("reset", h, c, TRUE)]
  /\ UNCHANGED <<pool, dbc, holds, passed, foreign>>

\* Mutant: the field that names the new DBC handle is cleared.
StartReconnect_Cleared(t, c) ==
  /\ \E h \in Handles, d \in Dbcs :
       /\ Entry(t, c, h)
       /\ DbcOf(h).st # "conn"
       /\ dbc[d].st = "unused"
       /\ conn' = [conn EXCEPT ![h] = [@ EXCEPT !.dbc = NoDbc, !.cred = c]]
       /\ dbc' = [dbc EXCEPT ![d] = FreshDbc]
       /\ call' = [call EXCEPT ![t] = Begun("reset", h, c, FALSE)]
  /\ UNCHANGED <<pool, holds, passed, foreign>>

\* The ping fails: a new DBC handle is allocated over the old one, and the
\* field auto_commit becomes ON.
StartReconnect(t, c) ==
  /\ \E h \in Handles, d \in Dbcs :
       /\ Entry(t, c, h)
       /\ DbcOf(h).st # "conn"
       /\ dbc[d].st = "unused"
       /\ conn' = [conn EXCEPT ![h] =
            [@ EXCEPT !.dbc = d, !.cred = c, !.auto = TRUE]]
       /\ dbc' = [dbc EXCEPT ![d] = FreshDbc]
       /\ call' = [call EXCEPT ![t] = Begun("reset", h, c, FALSE)]
  /\ UNCHANGED <<pool, holds, passed, foreign>>

\* SQLAllocHandle fails, for a new structure (ENV or DBC) or for the one of a
\* dead connection (DBC): the structure is deleted.
StartFails(t, c) ==
  /\ "alloc" \in Faults
  /\ call[t] = Idle
  /\ \E h \in Handles :
       /\ \/ conn[h].mem = "unused"
          \/ Entry(t, c, h) /\ DbcOf(h).st # "conn"
       /\ conn' = [conn EXCEPT ![h] = NoConn("deleted")]
  /\ UNCHANGED <<pool, dbc, call, holds, passed, foreign>>

\* The common failure path: free what the CLI allows to be freed and delete
\* the structure.  persistent_list is not touched.
FailConnect(t) ==
  LET h == call[t].h IN
  /\ dbc' = [dbc EXCEPT ![conn[h].dbc] = FreeHandle(@)]
  /\ conn' = [conn EXCEPT ![h] = NoConn("deleted")]
  /\ End(t)
  /\ UNCHANGED <<pool, holds, passed, foreign>>

\* SQL_ATTR_AUTOCOMMIT is accepted.
WithAutocommit(d, on) ==
  [st |-> d.st, auto |-> on, work |-> IF on THEN {} ELSE d.work]

\* Thread t's call of SQLSetConnectAttr(SQL_ATTR_AUTOCOMMIT), which the driver
\* accepts or refuses.  No field changes while it runs.
AutocommitAttr(t, h, on, accepted) ==
  /\ Live(h)
  /\ IF accepted
     THEN /\ DbcOf(h).st # "freed"
          /\ dbc' = [dbc EXCEPT ![conn[h].dbc] = WithAutocommit(@, on)]
          /\ IF on THEN NoteForeign(t, h) ELSE UNCHANGED foreign
     ELSE /\ "attr" \in Faults \/ DbcOf(h).st \in {"dead", "freed"}
          /\ UNCHANGED <<dbc, foreign>>
  /\ UNCHANGED <<pool, conn, holds, passed>>

\* Mutant: only a new connection has its driver's autocommit set.
Reset_NewOnly(t, accepted) ==
  /\ call[t].step = "reset"
  /\ IF call[t].reused THEN UNCHANGED <<pool, conn, dbc, holds, passed, foreign>>
     ELSE AutocommitAttr(t, call[t].h, TRUE, accepted)
  /\ GoOn(t, IF accepted THEN "defaults" ELSE "refused")

\* The default, ON, goes to the driver, also for a connection that is reused.
Reset(t, accepted) ==
  /\ call[t].step = "reset"
  /\ AutocommitAttr(t, call[t].h, TRUE, accepted)
  /\ GoOn(t, IF accepted THEN "defaults" ELSE "refused")

\* What the driver answered is not looked at, except that without options it
\* is the result for a handle that is reused.
ResetFail(t) ==
  /\ call[t].step = "refused"
  /\ call[t].reused
  /\ FailConnect(t)

AfterOptions(t) == IF call[t].reused THEN "finish" ELSE "connect"
SettingDefaults(t) == call[t].step \in {"defaults", "refused"}

\* The other defaults: the handle is not active as of yet.
Defaults(t) ==
  /\ SettingDefaults(t)
  /\ conn' = [conn EXCEPT ![call[t].h].active = FALSE]
  /\ GoOn(t, AfterOptions(t))
  /\ UNCHANGED <<pool, dbc, holds, passed, foreign>>

\* ... and the caller's options have SQL_ATTR_AUTOCOMMIT: the field first,
OptionAutocommit(t, on) ==
  /\ SettingDefaults(t)
  /\ conn' = [conn EXCEPT ![call[t].h] = [@ EXCEPT !.active = FALSE, !.auto = on]]
  /\ call' = [call EXCEPT ![t] = [@ EXCEPT !.step = "option", !.on = on]]
  /\ UNCHANGED <<pool, dbc, holds, passed, foreign>>

\* then the driver; an error is recorded and parse_options succeeds.
Option(t, accepted) ==
  /\ call[t].step = "option"
  /\ AutocommitAttr(t, call[t].h, call[t].on, accepted)
  /\ call' = [call EXCEPT ![t] = [@ EXCEPT !.step = AfterOptions(t), !.on = FALSE]]

\* parse_options fails: an attribute that is not accepted (before the one for
\* autocommit, if both are given).
OptionsFail(t) ==
  /\ "options" \in Faults
  /\ SettingDefaults(t)
  /\ FailConnect(t)

\* The options are not a dictionary: connect_helper returns at once, with the
\* handle inactive.
OptionsInvalid(t) ==
  /\ "options" \in Faults
  /\ SettingDefaults(t)
  /\ conn' = [conn EXCEPT ![call[t].h].active = FALSE]
  /\ End(t)
  /\ UNCHANGED <<pool, dbc, holds, passed, foreign>>

Connect(t) ==
  /\ call[t].step = "connect"
  /\ dbc' = [dbc EXCEPT ![conn[call[t].h].dbc].st = "conn"]
  /\ GoOn(t, "finish")
  /\ UNCHANGED <<pool, conn, holds, passed, foreign>>

\* SQLConnect or SQLDriverConnect returns SQL_ERROR.
ConnectFail(t) ==
  /\ "connect" \in Faults
  /\ call[t].step = "connect"
  /\ FailConnect(t)

\* The handle becomes active; a persistent one that was not reused enters the
\* dictionary; the caller gets a reference.
Finish(t) ==
  /\ call[t].step = "finish"
  /\ LET h == call[t].h IN
       /\ conn' = [conn EXCEPT ![h].active = TRUE]
       /\ pool' = IF conn[h].pconnect /\ ~call[t].reused
                  THEN [pool EXCEPT ![Key(t, call[t].cred)] = h] ELSE pool
       /\ holds' = [holds EXCEPT ![t] = @ \cup {h}]
  /\ End(t)
  /\ UNCHANGED <<dbc, passed, foreign>>

\* A call after SQLConnect (SQLGetInfo, the literal replacement attribute)
\* does not return SQL_SUCCESS, and that return code decides.
FinishFail(t) ==
  /\ "info" \in Faults
  /\ call[t].step = "finish"
  /\ ~call[t].reused
  /\ FailConnect(t)

-----------------------------------------------------------------------------
(* Calls on a handle; one that raises an exception changes nothing, unless  *)
(* an action says so.                                                       *)

\* SQLExecDirect of a statement that writes, in a transaction.
Exec(t, h) ==
  /\ Active(t, h)
  /\ DbcOf(h).st = "conn"
  /\ ~DbcOf(h).auto
  /\ dbc' = [dbc EXCEPT ![conn[h].dbc].work = @ \cup {t}]
  /\ UNCHANGED <<pool, conn, call, holds, passed, foreign>>

Commit(t, h) ==
  /\ Active(t, h)
  /\ DbcOf(h).st = "conn"
  /\ dbc' = [dbc EXCEPT ![conn[h].dbc].work = {}]
  /\ NoteForeign(t, h)
  /\ UNCHANGED <<pool, conn, call, holds, passed>>

Rollback(t, h) ==
  /\ Active(t, h)
  /\ DbcOf(h).st = "conn"
  /\ dbc' = [dbc EXCEPT ![conn[h].dbc].work = {}]
  /\ UNCHANGED <<pool, conn, call, holds, passed, foreign>>

\* ibm_db.autocommit(conn, on), with on other than the field says:
SetAutocommit(t, h, on) ==
  /\ Active(t, h)
  /\ conn[h].auto # on
  /\ call' = [call EXCEPT ![t] = [Begun("switch", h, NoCred, FALSE) EXCEPT !.on = on]]
  /\ UNCHANGED <<pool, conn, dbc, holds, passed, foreign>>

\* the driver first,
Switch(t, accepted) ==
  /\ call[t].step = "switch"
  /\ AutocommitAttr(t, call[t].h, call[t].on, accepted)
  /\ GoOn(t, "assign")

\* then the field, whether or not the driver accepted it.
Assign(t) ==
  /\ call[t].step = "assign"
  /\ LET h == call[t].h IN
       /\ Live(h)
       /\ conn' = [conn EXCEPT ![h].auto = call[t].on]
  /\ End(t)
  /\ UNCHANGED <<pool, dbc, holds, passed, foreign>>

\* Mutant: close and the destructor do not roll back.
RolledBack_Not(h) == DbcOf(h)

\* The ROLLBACK that close and the destructor send when auto_commit is off.
RolledBack(h) ==
  IF conn[h].auto THEN DbcOf(h) ELSE [DbcOf(h) EXCEPT !.work = {}]

\* close of a handle that is not persistent; an error of SQLEndTran ends it.
CloseRollback(t, h) ==
  /\ Active(t, h)
  /\ ~conn[h].pconnect
  /\ conn[h].auto \/ DbcOf(h).st \notin {"dead", "alloc", "closed"}
  /\ dbc' = [dbc EXCEPT ![conn[h].dbc] = RolledBack(h)]
  /\ call' = [call EXCEPT ![t] = Begun("disconnect", h, NoCred, FALSE)]
  /\ UNCHANGED <<pool, conn, holds, passed, foreign>>

\* SQLDisconnect.  It fails with a transaction open, without a connection
\* (another thread closed it meanwhile) and, perhaps, when the server is gone:
\* then close ends, and the handle stays active.  A freed handle (closed by
\* another thread) is no error here.
Disconnects(d) ==
  (IF d.st \in {"conn", "dead"} /\ d.work = {} THEN {[d EXCEPT !.st = "closed"]} ELSE {})
    \cup (IF d.st = "freed" THEN {d} ELSE {})
DisconnectFails(d) == d.work # {} \/ d.st \in {"alloc", "closed", "dead"}

CloseDisconnect(t) ==
  /\ call[t].step = "disconnect"
  /\ LET h == call[t].h IN
       \/ /\ \E d \in Disconnects(DbcOf(h)) : dbc' = [dbc EXCEPT ![conn[h].dbc] = d]
          /\ GoOn(t, "free_dbc")
       \/ DisconnectFails(DbcOf(h)) /\ UNCHANGED dbc /\ End(t)
  /\ UNCHANGED <<pool, conn, holds, passed, foreign>>

\* SQLFreeHandle of the DBC; an error ends close.
CloseDbc(t) ==
  /\ call[t].step = "free_dbc"
  /\ LET h == call[t].h IN
       \/ /\ DbcOf(h).st \in {"closed", "freed"}
          /\ dbc' = [dbc EXCEPT ![conn[h].dbc] = FreeHandle(@)]
          /\ GoOn(t, "free_env")
       \/ "free" \in Faults /\ UNCHANGED dbc /\ End(t)
  /\ UNCHANGED <<pool, conn, holds, passed, foreign>>

\* Mutant: close leaves the handle active.
CloseEnv_Active(t) ==
  /\ call[t].step = "free_env"
  /\ End(t)
  /\ UNCHANGED <<pool, conn, dbc, holds, passed, foreign>>

\* SQLFreeHandle of the environment; after an error the handle stays active.
CloseEnv(t) ==
  /\ call[t].step = "free_env"
  /\ \/ conn' = [conn EXCEPT ![call[t].h].active = FALSE]
     \/ "free" \in Faults /\ UNCHANGED conn
  /\ End(t)
  /\ UNCHANGED <<pool, dbc, holds, passed, foreign>>

\* What SQLDisconnect and SQLFreeHandle leave of a DBC when their results are
\* not looked at.
Discarded(d) ==
  LET left == Disconnects(d) \cup IF DisconnectFails(d) THEN {d} ELSE {} IN
  {FreeHandle(e) : e \in left} \cup IF "free" \in Faults THEN left ELSE {}

References(h) == {t \in Threads : h \in holds[t]}
InPool(h) == \E k \in Keys : pool[k] = h

\* Thread t's code gives up its reference.  The last reference runs the
\* destructor, which ignores every return code.
Drop(t, h) ==
  /\ Has(t, h)
  /\ holds' = [holds EXCEPT ![t] = @ \ {h}]
  /\ IF References(h) = {t} /\ ~InPool(h)
     THEN /\ conn' = [conn EXCEPT ![h] = NoConn("deleted")]
          /\ IF conn[h].active /\ ~conn[h].pconnect
             THEN \E d \in Discarded(RolledBack(h)) :
                    dbc' = [dbc EXCEPT ![conn[h].dbc] = d]
             ELSE UNCHANGED dbc
     ELSE UNCHANGED <<conn, dbc>>
  /\ UNCHANGED <<pool, call, passed, foreign>>

-----------------------------------------------------------------------------
(* The environment *)

\* Python code hands a handle to another thread (asyncio.to_thread does).
Pass(t, u, h) ==
  /\ Has(t, h)
  /\ h \notin holds[u]
  /\ holds' = [holds EXCEPT ![u] = @ \cup {h}]
  /\ passed' = passed \cup {h}
  /\ UNCHANGED <<pool, conn, dbc, call, foreign>>

ServerDies(d) ==
  /\ dbc[d].st = "conn"
  /\ dbc' = [dbc EXCEPT ![d] = [@ EXCEPT !.st = "dead", !.work = {}]]
  /\ UNCHANGED <<pool, conn, call, holds, passed, foreign>>

-----------------------------------------------------------------------------

Next ==
  \/ \E t \in Threads, c \in Creds :
       \/ \E isPersistent \in BOOLEAN : StartNew(t, c, isPersistent)
       \/ StartReuse(t, c) \/ StartReconnect(t, c) \/ StartFails(t, c)
  \/ \E t \in Threads, accepted \in BOOLEAN :
       Reset(t, accepted) \/ Option(t, accepted) \/ Switch(t, accepted)
  \/ \E t \in Threads, on \in BOOLEAN : OptionAutocommit(t, on)
  \/ \E t \in Threads :
       \/ ResetFail(t) \/ Defaults(t) \/ OptionsFail(t) \/ OptionsInvalid(t)
       \/ Connect(t) \/ ConnectFail(t) \/ Finish(t) \/ FinishFail(t)
       \/ Assign(t)
       \/ CloseDisconnect(t) \/ CloseDbc(t) \/ CloseEnv(t)
  \/ \E t \in Threads, h \in Handles :
       \/ Exec(t, h) \/ Commit(t, h) \/ Rollback(t, h)
       \/ \E on \in BOOLEAN : SetAutocommit(t, h, on)
       \/ CloseRollback(t, h) \/ Drop(t, h)
       \/ \E u \in Threads \ {t} : Pass(t, u, h)
  \/ \E d \in Dbcs : ServerDies(d)

Spec == Init /\ [][Next]_vars

-----------------------------------------------------------------------------
(* Properties *)

\* The handles that thread t's calls can come to use.
Reach(t) ==
  {h \in Handles : \/ h \in holds[t]
                   \/ h = call[t].h
                   \/ \E c \in Creds : pool[Key(t, c)] = h}

\* pconnect never makes two threads share a connection: a handle within reach
\* of two threads is one that Python code handed over (the thread id in hKey;
\* test_6793_PconnectThreadIsolation).
ThreadIsolation ==
  \A t, u \in Threads : t # u => Reach(t) \cap Reach(u) \subseteq passed

\* Work a thread left uncommitted, also on a persistent connection it has
\* closed or dropped, is committed by no other thread's call: not by its
\* commit, not by its autocommit(True), not by the AUTOCOMMIT ON of its
\* pconnect.
NoForeignCommit == foreign = {}

\* A thread is in close of handle h, past SQLDisconnect.
Closing(h) ==
  \E t \in Threads : call[t].step \in {"free_dbc", "free_env"} /\ call[t].h = h

\* The DBC handle of an active handle is allocated, and no other handle that
\* exists has it, unless a close is under way: after any number of closes, of
\* two threads at once too, no call of an active handle reaches a freed DBC.
\* (Holds as long as SQLFreeHandle does not fail: see the README.)
ActiveHasDbc ==
  \A h \in Handles :
    Live(h) /\ conn[h].active /\ ~Closing(h) =>
      /\ DbcOf(h).st \in {"alloc", "conn", "dead"}
      /\ \A g \in Handles \ {h} :
           Live(g) => conn[g].dbc # conn[h].dbc

\* A connection to the server belongs to a handle that some thread or
\* persistent_list can still reach: close and the destructor roll back before
\* SQLDisconnect, so that it is never refused and the connection lost with its
\* locks.  (Holds if a handle is used by one thread at a time, and only
\* allocating, connecting and freeing handles fails.)
NoOrphan ==
  \A d \in Dbcs : dbc[d].st = "conn" =>
    \E h \in Handles :
      /\ Live(h) /\ conn[h].dbc = d
      /\ InPool(h) \/ \E t \in Threads : h \in Reach(t)

\* A call of thread t is setting field and driver of handle h.
Setting(h) ==
  \E t \in Threads :
    call[t].step \in {"reset", "option", "assign"} /\ call[t].h = h

\* The auto_commit field, which autocommit(conn) returns and which decides
\* whether close rolls back, is what the driver does on that connection,
\* unless a call is just setting both.  (As for NoOrphan.)
AutocommitTruth ==
  \A h \in Handles :
    Live(h) /\ conn[h].active /\ DbcOf(h).st = "conn" /\ ~Setting(h) =>
      conn[h].auto = DbcOf(h).auto

-----------------------------------------------------------------------------
(* What the documentation says and the code does not do (see the README) *)

\* What persistent_list or Python code refers to exists: "the underlying DB2
\* client connection remains open and waiting to serve the next matching
\* ibm_db.pconnect() request".
HandlesLive ==
  \A h \in Handles :
    InPool(h) \/ (\E t \in Threads : h \in holds[t]) => Live(h)

\* A persistent connection for these credentials that no code holds.
Available(c) ==
  \E h \in Handles :
    /\ InPool(h) /\ Live(h) /\ References(h) = {}
    /\ conn[h].cred = c /\ conn[h].active /\ DbcOf(h).st = "conn"

\* A closed persistent connection serves the next caller: pconnect opens no
\* new connection while one is available.
NextCallerServed ==
  [][\A t \in Threads, c \in Creds : StartNew(t, c, TRUE) => ~Available(c)]_vars

\* pconnect reuses a connection only if it was made for the same database,
\* uid and password.
ReuseMatches ==
  [][\A t \in Threads, c \in Creds :
       StartReuse(t, c) => conn[pool[Key(t, c)]].cred = c]_vars

-----------------------------------------------------------------------------
(* The inductive invariant behind ThreadIsolation and NoForeignCommit *)

InPoolOf(t, h) == \E c \in Creds : pool[Key(t, c)] = h

CallShape ==
  \A t \in Threads :
    /\ call[t].step = "idle" => call[t] = Idle
    /\ call[t].step # "idle" => call[t].h \in Handles

\* A thread in a call works on a handle that exists, unless other code got it
\* too: in close and autocommit on one that it still holds, in pconnect on one
\* that is its own entry of persistent_list or has no open transaction.
CallOK ==
  \A t \in Threads :
    LET h == call[t].h IN
    call[t].step # "idle" /\ h \notin passed =>
      /\ Live(h)
      /\ \/ h \in holds[t] \/ InPoolOf(t, h)
         \/ DbcOf(h).work = {}

\* The slot of persistent_list that a call will fill is free or its own.
SlotOK ==
  \A t \in Threads :
    LET h == call[t].h IN
    call[t].step \in ConnectSteps /\ ~call[t].reused /\ conn[h].pconnect =>
        pool[Key(t, call[t].cred)] \in {NoHandle, h}

\* Nothing refers to memory that is not allocated yet.
FreshOK ==
  \A t \in Threads : \A h \in Reach(t) : conn[h].mem # "unused"

\* Live handles have DBC handles of their own, which are not unused.
DbcOK ==
  \A h \in Handles : Live(h) =>
    /\ DbcOf(h).st # "unused"
    /\ \A g \in Handles \ {h} : Live(g) => conn[g].dbc # conn[h].dbc

\* Who has work open on a connection can still reach its handle.
WorkOK ==
  \A h \in Handles : Live(h) /\ h \notin passed =>
    \A t \in DbcOf(h).work : h \in Reach(t)

IInv == /\ TypeOK /\ CallShape /\ CallOK /\ SlotOK /\ FreshOK /\ DbcOK /\ WorkOK
        /\ ThreadIsolation /\ NoForeignCommit

-----------------------------------------------------------------------------
(* The inductive invariants behind ActiveHasDbc, AutocommitTruth, NoOrphan *)

\* connect_helper runs in thread t.
Connecting(t) == call[t].step \in ConnectSteps

\* What a thread's connect_helper works on, or can find in persistent_list,
\* is out of the reach of every other thread's connect_helper.
Mine(t) ==
  {h \in Handles : InPoolOf(t, h) \/ (Connecting(t) /\ call[t].h = h)}
OwnerOK == \A t, u \in Threads : t # u => Mine(t) \cap Mine(u) = {}

\* No call but thread t's, and no code, knows the handle.
NewTo(t, h) ==
  /\ ~InPool(h)
  /\ \A u \in Threads : h \notin holds[u] /\ (u # t => call[u].h # h)

\* connect_helper works on a structure that exists, with a DBC that was not
\* closed: a new one, or the thread's own entry of persistent_list.
ConnectingOK ==
  \A t \in Threads : Connecting(t) =>
    LET h == call[t].h IN
    /\ Live(h) /\ DbcOf(h).st \notin {"closed", "freed"}
    /\ NewTo(t, h) \/ (conn[h].pconnect /\ InPoolOf(t, h))

\* Only persistent connections are in persistent_list, and only others are
\* disconnected by close.
PersistentOK ==
  /\ \A h \in Handles : InPool(h) /\ Live(h) => conn[h].pconnect
  /\ \A t \in Threads : LET h == call[t].h IN
       call[t].step \in CloseSteps /\ Live(h) => ~conn[h].pconnect

\* An active handle's DBC was not freed, unless close is about to say so;
\* memory that is no handle has none.
FreedOK ==
  \A h \in Handles :
    IF Live(h)
    THEN "free" \notin Faults /\ conn[h].active /\ ~Closing(h)
         => DbcOf(h).st \notin {"closed", "freed"}
    ELSE conn[h].dbc = NoDbc

LinkInv == IInv /\ OwnerOK /\ ConnectingOK /\ PersistentOK /\ FreedOK

\* Until SQLConnect the DBC of a connection that is not reused is new.
NewDbcOK ==
  \A t \in Threads :
    /\ call[t].step = "connect" => ~call[t].reused
    /\ Connecting(t) /\ call[t].step # "finish" /\ ~call[t].reused =>
         DbcOf(call[t].h).st = "alloc"

\* No two calls are on one handle.
ExclusiveOK ==
  ~Overlap => \A t, u \in Threads :
                t # u /\ call[t].step # "idle" => call[u].h # call[t].h

\* Who sets field and driver has set the first of them, and nobody else has
\* changed it since.  Only a connection that is lost refuses the default.
Connectable(h) == Live(h) /\ DbcOf(h).st \in {"alloc", "conn"}
SettingOK ==
  \A t \in Threads :
    LET h == call[t].h IN
    /\ call[t].step = "reset" => conn[h].auto
    /\ call[t].step = "option" => conn[h].auto = call[t].on
    /\ call[t].step = "assign" /\ Connectable(h) => DbcOf(h).auto = call[t].on
    /\ call[t].step = "refused" => ~Connectable(h)

\* Otherwise field and driver agree.
AgreeOK ==
  \A h \in Handles : Connectable(h) => conn[h].auto = DbcOf(h).auto \/ Setting(h)

AutoInv == LinkInv /\ NewDbcOK /\ ExclusiveOK /\ SettingOK /\ AgreeOK

\* With autocommit on, no work stays open.
AutoWorkOK == \A d \in Dbcs : dbc[d].auto => dbc[d].work = {}

\* What code holds is also in persistent_list if it is persistent, and is
\* active until it is disconnected if it is not; close and autocommit hold
\* their handle, and a handle that is reused is in persistent_list.
Disconnected(h) == DbcOf(h).st \in {"closed", "freed"}
HeldOK ==
  \A t \in Threads :
    /\ \A h \in holds[t] : Live(h) =>
         IF conn[h].pconnect THEN InPool(h)
         ELSE conn[h].active \/ Disconnected(h)
    /\ call[t].step \in {"free_dbc", "free_env"} /\ Live(call[t].h) =>
         Disconnected(call[t].h)
    /\ call[t].step \in AutocommitSteps \cup CloseSteps => call[t].h \in holds[t]
    /\ Connecting(t) /\ call[t].reused => InPoolOf(t, call[t].h)

OrphanInv == AutoInv /\ AutoWorkOK /\ HeldOK /\ NoOrphan
=============================================================================
