--------------------------- MODULE ConnPoolProofs ---------------------------
(* Proofs about ConnPool, for any threads, requests, handles and DBC handles, *)
(* whichever CLI failures occur, and also when calls on one handle overlap.   *)
EXTENDS ConnPool, TLAPS

\* The types of the values that actions store.
LEMMA ValueTypes ==
  /\ NoCred \in Creds
  /\ Idle \in Calls /\ Idle.step = "idle" /\ Idle.h = NoHandle
  /\ \A t \in Threads, c \in Creds : Key(t, c) \in Keys
  /\ \A t, u \in Threads, c, e \in Creds :
       Key(t, c) = Key(u, e) => t = u
  /\ FreshDbc \in DbcHandles
  /\ FreedDbc \in DbcHandles
  /\ \A mem \in {"unused", "deleted"} : NoConn(mem) \in ConnHandles
<1>1. NoCred \in Creds
  BY ConstantsAssumption DEF NoCred
<1>2. Idle \in Calls /\ Idle.step = "idle" /\ Idle.h = NoHandle
  BY <1>1 DEF Idle, Steps, Calls
<1>3. \A t \in Threads, c \in Creds : Key(t, c) \in Keys
  BY DEF Keys
<1>4. \A t, u \in Threads, c, e \in Creds :
        Key(t, c) = Key(u, e) => t = u
  BY DEF Key
<1> QED
  BY <1>1, <1>2, <1>3, <1>4
     DEF FreshDbc, FreedDbc, NoConn, DbcHandles, ConnHandles

\* The initial states satisfy the inductive invariant.
LEMMA InitInvariant == Init => IInv
<1> SUFFICES ASSUME Init PROVE IInv
  OBVIOUS
<1>1. TypeOK
  BY ValueTypes DEF Init, TypeOK, NoConn, DbcHandles
<1>2. \A t \in Threads : call[t].step = "idle" /\ call[t].h = NoHandle
                           /\ call[t] = Idle
  BY DEF Init, Idle
<1>3. \A t \in Threads : Reach(t) = {}
  BY <1>2, ConstantsAssumption, ValueTypes DEF Init, Reach
<1>4. \A h \in Handles : ~Live(h)
  BY DEF Init, Live, NoConn
<1>5. \A t \in Threads : call[t].step \notin ConnectSteps
  BY <1>2 DEF ConnectSteps
<1> QED
  BY <1>1, <1>2, <1>3, <1>4, <1>5
     DEF IInv, CallShape, CallOK, SlotOK, FreshOK, DbcOK, WorkOK, ThreadIsolation,
         NoForeignCommit, Init

-----------------------------------------------------------------------------
(* The steps of a thread, by what they do to the conn_handle structures *)

\* A CLI call that sets SQL_ATTR_AUTOCOMMIT.
AttributeStep(t) ==
  \E accepted \in BOOLEAN :
    Reset(t, accepted) \/ Option(t, accepted) \/ Switch(t, accepted)

\* Steps that set at most the fields auto_commit and handle_active.
FieldStep(t) ==
  \/ \E c \in Creds : StartReuse(t, c)
  \/ Defaults(t) \/ \E on \in BOOLEAN : OptionAutocommit(t, on)
  \/ OptionsInvalid(t) \/ Finish(t) \/ Assign(t) \/ CloseEnv(t)

\* Steps that leave the structures alone.
SilentStep(t) ==
  \/ AttributeStep(t)
  \/ Connect(t) \/ CloseDisconnect(t) \/ CloseDbc(t)
  \/ \E h \in Handles :
       \/ Commit(t, h) \/ Rollback(t, h)
       \/ \E on \in BOOLEAN : SetAutocommit(t, h, on)
       \/ CloseRollback(t, h)
       \/ \E u \in Threads \ {t} : Pass(t, u, h)

\* Steps that may delete one.
Fails(t) == ResetFail(t) \/ OptionsFail(t) \/ ConnectFail(t) \/ FinishFail(t)
DeathStep(t) ==
  \/ Fails(t)
  \/ \E c \in Creds : StartFails(t, c)
  \/ \E h \in Handles : Drop(t, h)

\* Steps that may open no transaction and create no handle.
KeptStep(t) == FieldStep(t) \/ SilentStep(t) \/ DeathStep(t)

Step(t) ==
  \/ \E c \in Creds, p \in BOOLEAN : StartNew(t, c, p)
  \/ \E c \in Creds : StartReconnect(t, c)
  \/ \E h \in Handles : Exec(t, h)
  \/ KeptStep(t)

LEMMA NextCases ==
  ASSUME [Next]_vars
  PROVE  \/ \E t \in Threads : Step(t)
         \/ \E d \in Dbcs : ServerDies(d)
         \/ UNCHANGED vars
BY DEF Next, Step, KeptStep, FieldStep, SilentStep, AttributeStep, DeathStep, Fails

LEMMA StepIsNext ==
  ASSUME NEW t \in Threads, Step(t)
  PROVE  [Next]_vars
BY DEF Next, Step, KeptStep, FieldStep, SilentStep, AttributeStep, DeathStep, Fails

LEMMA FailsConnect ==
  ASSUME NEW t \in Threads, Fails(t)
  PROVE  FailConnect(t) /\ call[t].step \in ConnectSteps
BY DEF Fails, ResetFail, OptionsFail, ConnectFail, FinishFail, SettingDefaults,
       ConnectSteps

\* A structure keeps its memory, its DBC and its kind.
Fields ==
  \A h \in Handles : /\ conn'[h].mem = conn[h].mem
                     /\ conn'[h].dbc = conn[h].dbc
                     /\ conn'[h].pconnect = conn[h].pconnect

LEMMA ConnAuto ==
  ASSUME TypeOK, NEW h \in Handles, NEW auto \in BOOLEAN,
         conn' = [conn EXCEPT ![h].auto = auto]
  PROVE  /\ Fields
         /\ conn' \in [Handles -> ConnHandles]
         /\ \A g \in Handles : conn'[g].mem = "live" => conn'[g].dbc \in Dbcs
BY DEF TypeOK, ConnHandles, Fields

LEMMA ConnActive ==
  ASSUME TypeOK, NEW h \in Handles, NEW active \in BOOLEAN,
         conn' = [conn EXCEPT ![h].active = active]
  PROVE  /\ Fields
         /\ conn' \in [Handles -> ConnHandles]
         /\ \A g \in Handles : conn'[g].mem = "live" => conn'[g].dbc \in Dbcs
BY DEF TypeOK, ConnHandles, Fields

LEMMA ConnBoth ==
  ASSUME TypeOK, NEW h \in Handles, NEW active \in BOOLEAN, NEW auto \in BOOLEAN,
         conn' = [conn EXCEPT ![h] = [@ EXCEPT !.active = active, !.auto = auto]]
  PROVE  /\ Fields
         /\ conn' \in [Handles -> ConnHandles]
         /\ \A g \in Handles : conn'[g].mem = "live" => conn'[g].dbc \in Dbcs
<1> DEFINE v == [conn[h] EXCEPT !.active = active, !.auto = auto]
<1>1. conn[h] \in ConnHandles
  BY DEF TypeOK
<1>2. /\ v \in ConnHandles /\ v.mem = conn[h].mem /\ v.dbc = conn[h].dbc
      /\ v.pconnect = conn[h].pconnect
  BY <1>1 DEF ConnHandles
<1>3. conn' = [conn EXCEPT ![h] = v]
  OBVIOUS
<1> HIDE DEF v
<1> QED
  BY <1>2, <1>3 DEF TypeOK, Fields

LEMMA FieldStepFields ==
  ASSUME TypeOK, CallShape, NEW t \in Threads, FieldStep(t) \/ UNCHANGED conn
  PROVE  /\ Fields
         /\ conn' \in [Handles -> ConnHandles]
         /\ \A g \in Handles : conn'[g].mem = "live" => conn'[g].dbc \in Dbcs
<1> DEFINE Goal ==
      /\ Fields
      /\ conn' \in [Handles -> ConnHandles]
      /\ \A g \in Handles : conn'[g].mem = "live" => conn'[g].dbc \in Dbcs
<1> HIDE DEF Goal
<1>2. CASE \E c \in Creds : StartReuse(t, c)
  <2> PICK h \in Handles : conn' = [conn EXCEPT ![h].auto = TRUE]
    BY <1>2 DEF StartReuse
  <2> QED
    BY ConnAuto DEF Goal
<1>3. ASSUME call[t].step # "idle" PROVE call[t].h \in Handles
  BY <1>3 DEF CallShape
<1>4. call[t].on \in BOOLEAN
  BY DEF TypeOK, Calls
<1>5. CASE Defaults(t) \/ OptionsInvalid(t)
  <2>1. call[t].h \in Handles
    BY <1>3, <1>5 DEF Defaults, OptionsInvalid, SettingDefaults
  <2>2. conn' = [conn EXCEPT ![call[t].h].active = FALSE]
    BY <1>5 DEF Defaults, OptionsInvalid
  <2> QED
    BY <2>1, <2>2, ConnActive DEF Goal
<1>6. CASE \E on \in BOOLEAN : OptionAutocommit(t, on)
  <2> PICK on \in BOOLEAN : OptionAutocommit(t, on)
    BY <1>6
  <2>1. call[t].h \in Handles
    BY <1>3 DEF OptionAutocommit, SettingDefaults
  <2>2. conn' = [conn EXCEPT ![call[t].h] = [@ EXCEPT !.active = FALSE, !.auto = on]]
    BY DEF OptionAutocommit
  <2> QED
    BY <2>1, <2>2, ConnBoth DEF Goal
<1>7. CASE Finish(t)
  <2>1. call[t].h \in Handles
    BY <1>3, <1>7 DEF Finish
  <2>2. conn' = [conn EXCEPT ![call[t].h].active = TRUE]
    BY <1>7 DEF Finish
  <2> QED
    BY <2>1, <2>2, ConnActive DEF Goal
<1>8. CASE Assign(t)
  <2>1. call[t].h \in Handles
    BY <1>3, <1>8 DEF Assign
  <2>2. conn' = [conn EXCEPT ![call[t].h].auto = call[t].on]
    BY <1>8 DEF Assign
  <2> QED
    BY <1>4, <2>1, <2>2, ConnAuto DEF Goal
<1>9. CASE UNCHANGED conn
  BY <1>9 DEF Goal, Fields, TypeOK
<1>10. CASE CloseEnv(t)
  <2>1. call[t].h \in Handles
    BY <1>3, <1>10 DEF CloseEnv
  <2>2. conn' = [conn EXCEPT ![call[t].h].active = FALSE] \/ UNCHANGED conn
    BY <1>10 DEF CloseEnv
  <2> QED
    BY <1>9, <2>1, <2>2, ConnActive DEF Goal
<1> QED
  BY <1>2, <1>5, <1>6, <1>7, <1>8, <1>9, <1>10 DEF FieldStep, Goal

LEMMA SilentFields ==
  ASSUME NEW t \in Threads, SilentStep(t)
  PROVE  UNCHANGED conn
BY DEF SilentStep, AttributeStep, Reset, Option, Switch, AutocommitAttr, Connect,
       CloseDisconnect, CloseDbc, Commit, Rollback, SetAutocommit, CloseRollback,
       Pass

\* A step that deletes a structure deletes one: a new one, or one that is
\* within the thread's reach.
LEMMA DeathFields ==
  ASSUME TypeOK, CallShape, NEW t \in Threads, DeathStep(t)
  PROVE  /\ UNCHANGED pool
         /\ \/ UNCHANGED conn
            \/ \E h \in Handles :
                 /\ conn' = [conn EXCEPT ![h] = NoConn("deleted")]
                 /\ conn[h].mem = "unused" \/ h \in Reach(t)
         /\ conn' \in [Handles -> ConnHandles]
         /\ \A g \in Handles :
              \/ conn'[g] = conn[g]
              \/ conn'[g].mem = "deleted"
<1>1. CASE Fails(t)
  <2>1. call[t].h \in Handles
    BY <1>1, FailsConnect DEF CallShape, ConnectSteps
  <2>2. /\ UNCHANGED pool
        /\ conn' = [conn EXCEPT ![call[t].h] = NoConn("deleted")]
    BY <1>1, FailsConnect DEF FailConnect
  <2> QED
    BY <2>1, <2>2, ValueTypes DEF Reach, TypeOK, NoConn
<1>2. CASE \E c \in Creds : StartFails(t, c)
  <2> PICK c \in Creds, h \in Handles :
         /\ UNCHANGED pool
         /\ conn[h].mem = "unused" \/ Entry(t, c, h)
         /\ conn' = [conn EXCEPT ![h] = NoConn("deleted")]
    BY <1>2 DEF StartFails
  <2>1. conn[h].mem = "unused" \/ h \in Reach(t)
    BY DEF Entry, Reach
  <2> QED
    BY <2>1, ValueTypes DEF TypeOK, NoConn
<1>3. CASE \E h \in Handles : Drop(t, h)
  <2> PICK h \in Handles : Drop(t, h)
    BY <1>3
  <2>1. UNCHANGED pool /\ h \in Reach(t)
    BY DEF Drop, Has, Reach
  <2>2. CASE UNCHANGED conn
    BY <2>1, <2>2 DEF TypeOK
  <2>3. CASE conn' = [conn EXCEPT ![h] = NoConn("deleted")]
    BY <2>1, <2>3, ValueTypes DEF TypeOK, NoConn
  <2> QED
    BY <2>2, <2>3 DEF Drop
<1> QED
  BY <1>1, <1>2, <1>3 DEF DeathStep

\* What a thread's step does to the calls in progress: nothing to those of the
\* other threads; its own call is none before or after it, or is the same.
Kind(step, next) ==
  \/ step \in ConnectSteps /\ next \in ConnectSteps
  \/ step \in AutocommitSteps /\ next \in AutocommitSteps
  \/ step \in CloseSteps /\ next \in CloseSteps
Same(t) ==
  /\ call'[t].h = call[t].h
  /\ call'[t].cred = call[t].cred
  /\ call'[t].reused = call[t].reused
  /\ Kind(call[t].step, call'[t].step)
Starts(t) ==
  /\ call[t] = Idle
  /\ call'[t].step # "idle" /\ call'[t].h \in Handles

LEMMA Kinds ==
  /\ ConnectSteps \cup AutocommitSteps \cup CloseSteps = Steps \ {"idle"}
  /\ ConnectSteps \cap AutocommitSteps = {}
  /\ ConnectSteps \cap CloseSteps = {}
  /\ AutocommitSteps \cap CloseSteps = {}
BY DEF Steps, ConnectSteps, AutocommitSteps, CloseSteps

LEMMA CallUpdate ==
  ASSUME TypeOK, CallShape, NEW t \in Threads, NEW v, v \in Calls,
         v = Idle \/ (v.step # "idle" /\ v.h \in Handles),
         call' = [call EXCEPT ![t] = v]
  PROVE  /\ call' \in [Threads -> Calls] /\ CallShape'
         /\ call'[t] = v
         /\ \A u \in Threads \ {t} : call'[u] = call[u]
<1>1. call' \in [Threads -> Calls]
  BY DEF TypeOK
<1>2. /\ v.step = "idle" => v = Idle
      /\ v.step # "idle" => v.h \in Handles
  BY DEF Idle
<1>3. \A u \in Threads : call'[u] = IF u = t THEN v ELSE call[u]
  BY DEF TypeOK
<1> QED
  BY <1>1, <1>2, <1>3 DEF CallShape
LEMMA GoOnUpdate ==
  ASSUME TypeOK, CallShape, NEW t \in Threads, NEW s \in Steps \ {"idle"},
         NEW on \in BOOLEAN, call[t].step # "idle", Kind(call[t].step, s),
         \/ call' = [call EXCEPT ![t].step = s]
         \/ call' = [call EXCEPT ![t] = [@ EXCEPT !.step = s, !.on = on]]
  PROVE  /\ call' \in [Threads -> Calls] /\ CallShape'
         /\ \A u \in Threads \ {t} : call'[u] = call[u]
         /\ Same(t)
<1>1. call[t] \in Calls /\ call[t].h \in Handles
  BY DEF TypeOK, CallShape
<1>2. \A u \in Threads \ {t} : call'[u] = call[u]
  BY DEF TypeOK
<1>3. /\ call'[t].h = call[t].h /\ call'[t].cred = call[t].cred
      /\ call'[t].reused = call[t].reused /\ call'[t].step = s
      /\ call'[t] \in Calls
  <2>1. CASE call' = [call EXCEPT ![t].step = s]
    BY <1>1, <2>1 DEF TypeOK, Calls
  <2>2. CASE call' = [call EXCEPT ![t] = [@ EXCEPT !.step = s, !.on = on]]
    <3> DEFINE v == [call[t] EXCEPT !.step = s, !.on = on]
    <3>1. v \in Calls /\ v.h = call[t].h /\ v.cred = call[t].cred
          /\ v.reused = call[t].reused /\ v.step = s
      BY <1>1 DEF Calls
    <3>2. call'[t] = v
      BY <2>2 DEF TypeOK
    <3> QED
      BY <3>1, <3>2
  <2> QED
    BY <2>1, <2>2
<1>4. call' \in [Threads -> Calls]
  BY <1>2, <1>3 DEF TypeOK
<1>5. CallShape'
  BY <1>1, <1>2, <1>3 DEF CallShape
<1> QED
  BY <1>2, <1>3, <1>4, <1>5 DEF Same

LEMMA CallCases ==
  ASSUME TypeOK, CallShape, NEW t \in Threads, Step(t)
  PROVE  /\ call' \in [Threads -> Calls] /\ CallShape'
         /\ \A u \in Threads \ {t} : call'[u] = call[u]
         /\ \/ call'[t] = call[t] \/ call'[t] = Idle
            \/ (Same(t) \/ Starts(t)) /\ UNCHANGED <<pool, holds, passed>>
<1> DEFINE Goal ==
      /\ call' \in [Threads -> Calls] /\ CallShape'
      /\ \A u \in Threads \ {t} : call'[u] = call[u]
      /\ \/ call'[t] = call[t] \/ call'[t] = Idle
         \/ (Same(t) \/ Starts(t)) /\ UNCHANGED <<pool, holds, passed>>
<1>u. ASSUME UNCHANGED call PROVE Goal
  BY <1>u DEF TypeOK, CallShape
<1>e. ASSUME End(t) PROVE Goal
  <2>1. call' = [call EXCEPT ![t] = Idle]
    BY <1>e DEF End
  <2> QED
    BY <2>1, ValueTypes, CallUpdate
<1>g. ASSUME UNCHANGED <<pool, holds, passed>>, NEW s, NEW on \in BOOLEAN,
             Kind(call[t].step, s),
             GoOn(t, s) \/ call' = [call EXCEPT ![t] = [@ EXCEPT !.step = s, !.on = on]]
      PROVE  Goal
  <2>1. call[t].step # "idle" /\ s \in Steps \ {"idle"}
    BY <1>g, Kinds DEF Kind
  <2> QED
    BY <1>g, <2>1, GoOnUpdate DEF GoOn
<1>b. ASSUME call[t] = Idle, UNCHANGED <<pool, holds, passed>>,
             NEW step \in Steps \ {"idle"}, NEW h \in Handles, NEW c \in Creds,
             NEW r \in BOOLEAN, NEW on \in BOOLEAN,
             \/ call' = [call EXCEPT ![t] = Begun(step, h, c, r)]
             \/ call' = [call EXCEPT ![t] = [Begun(step, h, c, r) EXCEPT !.on = on]]
      PROVE  Goal
  <2>1. CASE call' = [call EXCEPT ![t] = Begun(step, h, c, r)]
    <3> DEFINE v == Begun(step, h, c, r)
    <3>1. v \in Calls /\ v.step = step /\ v.h = h
      BY ValueTypes DEF Begun, Idle, Calls
    <3> HIDE DEF v
    <3>2. call' = [call EXCEPT ![t] = v]
      BY <2>1 DEF v
    <3> QED
      BY <1>b, <3>1, <3>2, CallUpdate DEF Starts
  <2>2. CASE call' = [call EXCEPT ![t] = [Begun(step, h, c, r) EXCEPT !.on = on]]
    <3> DEFINE v == [Begun(step, h, c, r) EXCEPT !.on = on]
    <3>1. v \in Calls /\ v.step = step /\ v.h = h
      BY ValueTypes DEF Begun, Idle, Calls
    <3> HIDE DEF v
    <3>2. call' = [call EXCEPT ![t] = v]
      BY <2>2 DEF v
    <3> QED
      BY <1>b, <3>1, <3>2, CallUpdate DEF Starts
  <2> QED
    BY <1>b, <2>1, <2>2
<1> SUFFICES Goal
  OBVIOUS
<1> HIDE DEF Goal
<1>s. /\ {"reset", "defaults", "refused", "option", "connect", "finish"} = ConnectSteps
      /\ {"switch", "assign"} = AutocommitSteps
      /\ {"disconnect", "free_dbc", "free_env"} = CloseSteps
      /\ ConnectSteps \cup AutocommitSteps \cup CloseSteps = Steps \ {"idle"}
  BY Kinds DEF ConnectSteps, AutocommitSteps, CloseSteps
<1>o. call[t].on \in BOOLEAN /\ AfterOptions(t) \in {"connect", "finish"}
  BY DEF TypeOK, Calls, AfterOptions
<1>1. CASE \E c \in Creds, p \in BOOLEAN : StartNew(t, c, p)
  <2> PICK c \in Creds, h \in Handles :
         /\ call[t] = Idle /\ UNCHANGED <<pool, holds, passed>>
         /\ call' = [call EXCEPT ![t] = Begun("reset", h, c, FALSE)]
    BY <1>1 DEF StartNew
  <2> QED
    BY <1>b, <1>s
<1>2. CASE \E c \in Creds : StartReconnect(t, c)
  <2> PICK c \in Creds, h \in Handles :
         /\ call[t] = Idle /\ UNCHANGED <<pool, holds, passed>>
         /\ call' = [call EXCEPT ![t] = Begun("reset", h, c, FALSE)]
    BY <1>2 DEF StartReconnect, Entry
  <2> QED
    BY <1>b, <1>s
<1>3. CASE \E c \in Creds : StartReuse(t, c)
  <2> PICK c \in Creds, h \in Handles :
         /\ call[t] = Idle /\ UNCHANGED <<pool, holds, passed>>
         /\ call' = [call EXCEPT ![t] = Begun("reset", h, c, TRUE)]
    BY <1>3 DEF StartReuse, Entry
  <2> QED
    BY <1>b, <1>s
<1>4. CASE \E c \in Creds : StartFails(t, c)
  BY <1>4, <1>u DEF StartFails
<1>5. CASE Fails(t)
  BY <1>5, <1>e, FailsConnect DEF FailConnect
<1>6. CASE OptionsInvalid(t) \/ Finish(t) \/ Assign(t) \/ CloseEnv(t)
  BY <1>6, <1>e DEF OptionsInvalid, Finish, Assign, CloseEnv
<1>7. CASE \E accepted \in BOOLEAN : Reset(t, accepted)
  <2> PICK accepted \in BOOLEAN : Reset(t, accepted)
    BY <1>7
  <2>1. /\ call[t].step = "reset" /\ UNCHANGED <<pool, holds, passed>>
        /\ GoOn(t, "defaults") \/ GoOn(t, "refused")
    BY DEF Reset, AutocommitAttr
  <2>2. Kind(call[t].step, "defaults") /\ Kind(call[t].step, "refused")
    BY <2>1, <1>s DEF Kind
  <2> QED
    BY <2>1, <2>2, <1>g
<1>8. CASE Defaults(t)
  <2>1. /\ call[t].step \in ConnectSteps /\ UNCHANGED <<pool, holds, passed>>
        /\ GoOn(t, AfterOptions(t))
    BY <1>8 DEF Defaults, SettingDefaults, ConnectSteps
  <2>2. Kind(call[t].step, AfterOptions(t))
    BY <2>1, <1>s, <1>o DEF Kind
  <2> QED
    BY <2>1, <2>2, <1>g
<1>9. CASE \E on \in BOOLEAN : OptionAutocommit(t, on)
  <2> PICK on \in BOOLEAN : OptionAutocommit(t, on)
    BY <1>9
  <2>1. /\ call[t].step \in ConnectSteps /\ UNCHANGED <<pool, holds, passed>>
        /\ call' = [call EXCEPT ![t] = [@ EXCEPT !.step = "option", !.on = on]]
    BY DEF OptionAutocommit, SettingDefaults, ConnectSteps
  <2>2. Kind(call[t].step, "option")
    BY <2>1, <1>s DEF Kind
  <2> QED
    BY <2>1, <2>2, <1>g
<1>10. CASE \E accepted \in BOOLEAN : Option(t, accepted)
  <2> PICK accepted \in BOOLEAN : Option(t, accepted)
    BY <1>10
  <2> DEFINE s == AfterOptions(t)
  <2>1. /\ call[t].step = "option" /\ UNCHANGED <<pool, holds, passed>>
        /\ call' = [call EXCEPT ![t] = [@ EXCEPT !.step = s, !.on = FALSE]]
    BY DEF Option, AutocommitAttr
  <2>2. Kind(call[t].step, s)
    BY <2>1, <1>s, <1>o DEF Kind
  <2> HIDE DEF s
  <2> QED
    BY <2>1, <2>2, <1>g
<1>11. CASE Connect(t)
  <2>1. /\ call[t].step = "connect" /\ UNCHANGED <<pool, holds, passed>>
        /\ GoOn(t, "finish")
    BY <1>11 DEF Connect
  <2>2. Kind(call[t].step, "finish")
    BY <2>1, <1>s DEF Kind
  <2> QED
    BY <2>1, <2>2, <1>g
<1>12. CASE \E accepted \in BOOLEAN : Switch(t, accepted)
  <2>1. /\ call[t].step = "switch" /\ UNCHANGED <<pool, holds, passed>>
        /\ GoOn(t, "assign")
    BY <1>12 DEF Switch, AutocommitAttr
  <2>2. Kind(call[t].step, "assign")
    BY <2>1, <1>s DEF Kind
  <2> QED
    BY <2>1, <2>2, <1>g
<1>13. CASE CloseDisconnect(t) \/ CloseDbc(t)
  <2>1. /\ call[t].step \in {"disconnect", "free_dbc"}
        /\ UNCHANGED <<pool, holds, passed>>
        /\ GoOn(t, "free_dbc") \/ GoOn(t, "free_env") \/ End(t)
    BY <1>13 DEF CloseDisconnect, CloseDbc
  <2>2. Kind(call[t].step, "free_dbc") /\ Kind(call[t].step, "free_env")
    BY <2>1, <1>s DEF Kind
  <2> QED
    BY <2>1, <2>2, <1>g, <1>e
<1>14. CASE \E h \in Handles, on \in BOOLEAN : SetAutocommit(t, h, on)
  <2> PICK h \in Handles, on \in BOOLEAN : SetAutocommit(t, h, on)
    BY <1>14
  <2>1. /\ call[t] = Idle /\ UNCHANGED <<pool, holds, passed>>
        /\ call' = [call EXCEPT ![t] = [Begun("switch", h, NoCred, FALSE) EXCEPT !.on = on]]
    BY DEF SetAutocommit, Active, Has
  <2> QED
    BY <2>1, <1>b, <1>s, ValueTypes
<1>15. CASE \E h \in Handles : CloseRollback(t, h)
  <2> PICK h \in Handles : CloseRollback(t, h)
    BY <1>15
  <2>1. /\ call[t] = Idle /\ UNCHANGED <<pool, holds, passed>>
        /\ call' = [call EXCEPT ![t] = Begun("disconnect", h, NoCred, FALSE)]
    BY DEF CloseRollback, Active, Has
  <2> QED
    BY <2>1, <1>b, <1>s, ValueTypes
<1>16. CASE \E h \in Handles :
              \/ Exec(t, h) \/ Commit(t, h) \/ Rollback(t, h) \/ Drop(t, h)
              \/ \E u \in Threads \ {t} : Pass(t, u, h)
  BY <1>16, <1>u DEF Exec, Commit, Rollback, Drop, Pass
<1> QED
  BY <1>1, <1>2, <1>3, <1>4, <1>5, <1>6, <1>7, <1>8, <1>9, <1>10, <1>11, <1>12,
     <1>13, <1>14, <1>15, <1>16
     DEF Step, KeptStep, FieldStep, SilentStep, AttributeStep, DeathStep

-----------------------------------------------------------------------------
(* Types *)

LEMMA DbcUpdate ==
  ASSUME TypeOK, NEW d, NEW v, d \in Dbcs => v \in DbcHandles,
         dbc' = [dbc EXCEPT ![d] = v]
  PROVE  dbc' \in [Dbcs -> DbcHandles]
BY DEF TypeOK

\* What SQLDisconnect and SQLFreeHandle do to a DBC: it does not become unused
\* and no transaction gains work.
LEMMA Discards ==
  ASSUME NEW d \in DbcHandles
  PROVE  /\ \A e \in Disconnects(d) \cup Discarded(d) \cup {FreeHandle(d)} :
              /\ e \in DbcHandles /\ e.work \subseteq d.work
              /\ d.st # "unused" => e.st # "unused"
         /\ \A e \in Disconnects(d) : e.work = d.work
<1>1. /\ FreeHandle(d) \in DbcHandles /\ FreeHandle(d).work \subseteq d.work
      /\ d.st # "unused" => FreeHandle(d).st # "unused"
  BY DEF FreeHandle, FreedDbc, DbcHandles
<1>2. \A e \in Disconnects(d) : /\ e \in DbcHandles /\ e.work = d.work
                                /\ d.st # "unused" => e.st # "unused"
  BY DEF Disconnects, DbcHandles
<1>3. ASSUME NEW e \in DbcHandles, e.work \subseteq d.work,
             d.st # "unused" => e.st # "unused"
      PROVE  /\ FreeHandle(e) \in DbcHandles /\ FreeHandle(e).work \subseteq d.work
             /\ d.st # "unused" => FreeHandle(e).st # "unused"
  BY <1>3 DEF FreeHandle, FreedDbc, DbcHandles
<1>4. ASSUME NEW f \in Discarded(d)
      PROVE  /\ f \in DbcHandles /\ f.work \subseteq d.work
             /\ d.st # "unused" => f.st # "unused"
  <2>1. \E e \in Disconnects(d) \cup {d} : f = FreeHandle(e) \/ f = e
    BY <1>4 DEF Discarded
  <2> QED
    BY <2>1, <1>2, <1>3
<1> QED
  BY <1>1, <1>2, <1>4

LEMMA RollsBack ==
  ASSUME TypeOK, NEW h \in Handles, Live(h)
  PROVE  /\ conn[h].dbc \in Dbcs /\ DbcOf(h) \in DbcHandles
         /\ RolledBack(h) \in DbcHandles
         /\ RolledBack(h).st = DbcOf(h).st
         /\ RolledBack(h).work \subseteq DbcOf(h).work
BY DEF TypeOK, Live, DbcOf, RolledBack, DbcHandles

\* A step that keeps the structures, or deletes one, opens no transaction and
\* makes no DBC unused.
Lessens ==
  /\ dbc' \in [Dbcs -> DbcHandles]
  /\ \A d \in Dbcs : dbc[d].st # "unused" => dbc'[d].st # "unused"
  /\ \A d \in Dbcs : dbc'[d].work \subseteq dbc[d].work

LEMMA LessensUpdate ==
  ASSUME TypeOK, NEW d, NEW v,
         dbc' = [dbc EXCEPT ![d] = v],
         d \in Dbcs => /\ v \in DbcHandles
                       /\ dbc[d].st # "unused" => v.st # "unused"
                       /\ v.work \subseteq dbc[d].work
  PROVE  Lessens
<1>1. dbc \in [Dbcs -> DbcHandles]
  BY DEF TypeOK
<1>2. CASE d \notin Dbcs
  <2>1. dbc' = dbc
    BY <1>1, <1>2
  <2> QED
    BY <1>1, <2>1 DEF Lessens
<1>3. CASE d \in Dbcs
  <2>1. /\ v \in DbcHandles
        /\ dbc[d].st # "unused" => v.st # "unused"
        /\ v.work \subseteq dbc[d].work
    BY <1>3
  <2>2. \A e \in Dbcs : dbc'[e] = IF e = d THEN v ELSE dbc[e]
    BY <1>1
  <2>3. dbc' \in [Dbcs -> DbcHandles]
    BY <1>1, <2>1
  <2> QED
    BY <2>1, <2>2, <2>3 DEF Lessens
<1> QED
  BY <1>2, <1>3

LEMMA LessensStep ==
  ASSUME TypeOK, CallShape, NEW t \in Threads, KeptStep(t)
  PROVE  Lessens
<1>u. ASSUME UNCHANGED dbc PROVE Lessens
  BY <1>u DEF TypeOK, Lessens
<1>d. \A d \in Dbcs : dbc[d] \in DbcHandles
  BY DEF TypeOK
<1>a. ASSUME NEW h, NEW on \in BOOLEAN, NEW accepted \in BOOLEAN,
             AutocommitAttr(t, h, on, accepted)
      PROVE  Lessens
  <2>1. CASE UNCHANGED dbc
    BY <2>1, <1>u
  <2>2. CASE dbc' = [dbc EXCEPT ![conn[h].dbc] = WithAutocommit(@, on)]
    <3> DEFINE d == conn[h].dbc
               v == WithAutocommit(dbc[d], on)
    <3>1. dbc' = [dbc EXCEPT ![d] = v]
      BY <2>2
    <3>2. d \in Dbcs => /\ v \in DbcHandles
                        /\ v.st = dbc[d].st /\ v.work \subseteq dbc[d].work
      BY <1>d DEF WithAutocommit, DbcHandles
    <3> HIDE DEF d, v
    <3> QED
      BY <3>1, <3>2, LessensUpdate
  <2> QED
    BY <1>a, <2>1, <2>2 DEF AutocommitAttr
<1>w. ASSUME NEW h, dbc' = [dbc EXCEPT ![conn[h].dbc].work = {}]
      PROVE  Lessens
  <2> DEFINE d == conn[h].dbc
             v == [dbc[d] EXCEPT !.work = {}]
  <2>1. dbc' = [dbc EXCEPT ![d] = v]
    BY <1>w
  <2>2. d \in Dbcs => /\ v \in DbcHandles
                      /\ v.st = dbc[d].st /\ v.work \subseteq dbc[d].work
    BY <1>d DEF DbcHandles
  <2> HIDE DEF d, v
  <2> QED
    BY <2>1, <2>2, LessensUpdate
<1>1. CASE FieldStep(t)
  BY <1>1, <1>u DEF FieldStep, StartReuse, Defaults, OptionAutocommit,
                    OptionsInvalid, Finish, Assign, CloseEnv
<1>2. CASE AttributeStep(t)
  <2>1. CASE \E accepted \in BOOLEAN : Reset(t, accepted)
    BY <2>1, <1>a DEF Reset
  <2>2. CASE \E accepted \in BOOLEAN : Option(t, accepted) \/ Switch(t, accepted)
    <3>1. call[t].on \in BOOLEAN
      BY DEF TypeOK, Calls
    <3>2. \E accepted \in BOOLEAN : AutocommitAttr(t, call[t].h, call[t].on, accepted)
      BY <2>2 DEF Option, Switch
    <3> QED
      BY <3>1, <3>2, <1>a
  <2> QED
    BY <1>2, <2>1, <2>2 DEF AttributeStep
<1>3. CASE Connect(t)
  <2>1. dbc' = [dbc EXCEPT ![conn[call[t].h].dbc] = [@ EXCEPT !.st = "conn"]]
    BY <1>3 DEF Connect
  <2> QED
    BY <2>1, <1>d DEF TypeOK, DbcHandles, Lessens
<1>4. CASE CloseDisconnect(t)
  <2> DEFINE d == conn[call[t].h].dbc
  <2>1. \/ UNCHANGED dbc
        \/ \E e \in Disconnects(dbc[d]) : dbc' = [dbc EXCEPT ![d] = e]
    BY <1>4 DEF CloseDisconnect, DbcOf
  <2> HIDE DEF d
  <2>2. ASSUME NEW e \in Disconnects(dbc[d]), dbc' = [dbc EXCEPT ![d] = e]
        PROVE  Lessens
    <3>1. d \in Dbcs => /\ e \in DbcHandles
                        /\ dbc[d].st # "unused" => e.st # "unused"
                        /\ e.work \subseteq dbc[d].work
      BY <1>d, <2>2, Discards
    <3> QED
      BY <2>2, <3>1, LessensUpdate
  <2> QED
    BY <2>1, <2>2, <1>u
<1>5. CASE CloseDbc(t) \/ Fails(t)
  <2> DEFINE d == conn[call[t].h].dbc
             v == FreeHandle(dbc[d])
  <2>1. UNCHANGED dbc \/ dbc' = [dbc EXCEPT ![d] = v]
    BY <1>5, FailsConnect DEF CloseDbc, FailConnect
  <2>2. d \in Dbcs => /\ v \in DbcHandles
                      /\ dbc[d].st # "unused" => v.st # "unused"
                      /\ v.work \subseteq dbc[d].work
    BY <1>d, Discards
  <2> HIDE DEF d, v
  <2> QED
    BY <2>1, <2>2, <1>u, LessensUpdate
<1>6. ASSUME NEW h \in Handles, Commit(t, h) \/ Rollback(t, h)
      PROVE  Lessens
  BY <1>6, <1>w DEF Commit, Rollback
<1>7. ASSUME NEW h \in Handles, NEW on \in BOOLEAN, SetAutocommit(t, h, on)
      PROVE  Lessens
  BY <1>7, <1>u DEF SetAutocommit
<1>8. ASSUME NEW h \in Handles, CloseRollback(t, h)
      PROVE  Lessens
  <2>1. Live(h) /\ dbc' = [dbc EXCEPT ![conn[h].dbc] = RolledBack(h)]
    BY <1>8 DEF CloseRollback, Active, Has
  <2> QED
    BY <2>1, RollsBack, LessensUpdate DEF DbcOf
<1>9. ASSUME NEW h \in Handles, Drop(t, h)
      PROVE  Lessens
  <2>1. ASSUME NEW e \in Discarded(RolledBack(h)),
               dbc' = [dbc EXCEPT ![conn[h].dbc] = e]
        PROVE  Lessens
    <3>1. Live(h)
      BY <1>9 DEF Drop, Has
    <3>2. /\ e \in DbcHandles /\ e.work \subseteq DbcOf(h).work
          /\ DbcOf(h).st # "unused" => e.st # "unused"
      BY <3>1, <2>1, RollsBack, Discards
    <3> QED
      BY <3>2, <2>1, LessensUpdate DEF DbcOf
  <2> QED
    BY <1>9, <2>1, <1>u DEF Drop
<1>10. ASSUME NEW h \in Handles, NEW u \in Threads, Pass(t, u, h)
       PROVE  Lessens
  BY <1>10, <1>u DEF Pass
<1>11. ASSUME NEW c \in Creds, StartFails(t, c)
       PROVE  Lessens
  BY <1>11, <1>u DEF StartFails
<1> QED
  BY <1>1, <1>2, <1>3, <1>4, <1>5, <1>6, <1>7, <1>8, <1>9, <1>10, <1>11
     DEF KeptStep, SilentStep, DeathStep

\* What a thread's step does to the other variables.
LEMMA OtherTypes ==
  ASSUME TypeOK, CallShape, NEW t \in Threads, Step(t)
  PROVE  /\ pool' \in [Keys -> Handles \cup {NoHandle}]
         /\ holds' \in [Threads -> SUBSET Handles]
         /\ passed' \in SUBSET Handles
         /\ foreign' \in SUBSET Handles
<1>s. UNCHANGED <<pool, holds, passed, foreign>>
        => /\ pool' \in [Keys -> Handles \cup {NoHandle}]
           /\ holds' \in [Threads -> SUBSET Handles]
           /\ passed' \in SUBSET Handles
           /\ foreign' \in SUBSET Handles
  BY DEF TypeOK
<1>a. ASSUME NEW h \in Handles, NEW on, NEW accepted, AutocommitAttr(t, h, on, accepted)
      PROVE  UNCHANGED <<pool, holds, passed>> /\ foreign' \in SUBSET Handles
  BY <1>a DEF AutocommitAttr, NoteForeign, TypeOK
<1>1. CASE Finish(t)
  <2>1. call[t].h \in Handles /\ call[t].cred \in Creds
    BY <1>1 DEF Finish, CallShape, TypeOK, Calls
  <2> QED
    BY <1>1, <2>1, ValueTypes DEF Finish, TypeOK
<1>2. CASE AttributeStep(t)
  <2>1. /\ call[t].h \in Handles
        /\ \E on, accepted : AutocommitAttr(t, call[t].h, on, accepted)
    BY <1>2 DEF AttributeStep, Reset, Option, Switch, CallShape
  <2> QED
    BY <2>1, <1>a DEF TypeOK
<1>3. CASE \E h \in Handles : Commit(t, h)
  BY <1>3 DEF Commit, NoteForeign, TypeOK
<1>4. CASE \E h \in Handles : Drop(t, h)
  BY <1>4 DEF Drop, TypeOK
<1>5. CASE \E h \in Handles, u \in Threads \ {t} : Pass(t, u, h)
  BY <1>5 DEF Pass, TypeOK
<1>6. CASE Fails(t)
  BY <1>s, <1>6, FailsConnect DEF FailConnect
<1> QED
  BY <1>s, <1>1, <1>2, <1>3, <1>4, <1>5, <1>6
     DEF Step, KeptStep, FieldStep, SilentStep, DeathStep, StartNew, StartReconnect,
         StartReuse, StartFails, Defaults, OptionAutocommit, OptionsInvalid, Assign,
         CloseEnv, Connect, CloseDisconnect, CloseDbc, Exec, Rollback,
         SetAutocommit, CloseRollback

\* Every step keeps the types and the shape of call.
LEMMA TypeStep ==
  ASSUME TypeOK, CallShape, [Next]_vars
  PROVE  TypeOK' /\ CallShape'
<1> DEFINE ConnTypes ==
      /\ conn' \in [Handles -> ConnHandles]
      /\ \A g \in Handles : conn'[g].mem = "live" => conn'[g].dbc \in Dbcs
<1>1. ASSUME NEW t \in Threads, KeptStep(t)
      PROVE  ConnTypes /\ dbc' \in [Dbcs -> DbcHandles]
  <2>1. CASE FieldStep(t) \/ SilentStep(t)
    BY <1>1, <2>1, FieldStepFields, SilentFields, LessensStep DEF Lessens
  <2>2. CASE DeathStep(t)
    <3>1. ConnTypes
      BY <2>2, DeathFields DEF TypeOK
    <3> QED
      BY <3>1, <1>1, LessensStep DEF Lessens
  <2> QED
    BY <1>1, <2>1, <2>2 DEF KeptStep
<1>2. ASSUME NEW t \in Threads, NEW c \in Creds, NEW p \in BOOLEAN,
             StartNew(t, c, p)
      PROVE  ConnTypes /\ dbc' \in [Dbcs -> DbcHandles]
  <2> PICK h \in Handles, d \in Dbcs :
        /\ conn' = [conn EXCEPT ![h] =
             [mem |-> "live", active |-> FALSE, pconnect |-> p,
              auto |-> TRUE, dbc |-> d, cred |-> c]]
        /\ dbc' = [dbc EXCEPT ![d] = FreshDbc]
    BY <1>2 DEF StartNew
  <2>1. ConnTypes
    BY DEF ConnHandles, TypeOK
  <2> QED
    BY <2>1, ValueTypes, DbcUpdate
<1>3. ASSUME NEW t \in Threads, NEW c \in Creds, StartReconnect(t, c)
      PROVE  ConnTypes /\ dbc' \in [Dbcs -> DbcHandles]
  <2> PICK h \in Handles, d \in Dbcs :
        /\ conn' = [conn EXCEPT ![h] =
             [@ EXCEPT !.dbc = d, !.cred = c, !.auto = TRUE]]
        /\ dbc' = [dbc EXCEPT ![d] = FreshDbc]
    BY <1>3 DEF StartReconnect
  <2> DEFINE v == [conn[h] EXCEPT !.dbc = d, !.cred = c, !.auto = TRUE]
  <2>0. v \in ConnHandles /\ v.dbc = d
    BY DEF TypeOK, ConnHandles
  <2>1. ConnTypes
    <3>1. conn' = [conn EXCEPT ![h] = v]
      OBVIOUS
    <3> HIDE DEF v
    <3> QED
      BY <2>0, <3>1 DEF TypeOK
  <2> QED
    BY <2>1, ValueTypes, DbcUpdate
<1>4. ASSUME NEW t \in Threads, NEW h \in Handles, Exec(t, h)
      PROVE  ConnTypes /\ dbc' \in [Dbcs -> DbcHandles]
  BY <1>4 DEF Exec, TypeOK, DbcHandles
<1>5. ASSUME NEW t \in Threads, Step(t)
      PROVE  TypeOK' /\ CallShape'
  <2>1. ConnTypes /\ dbc' \in [Dbcs -> DbcHandles]
    BY <1>1, <1>2, <1>3, <1>4, <1>5 DEF Step
  <2> HIDE DEF ConnTypes
  <2>2. TypeOK'
    BY <1>5, <2>1, OtherTypes, CallCases DEF TypeOK, ConnTypes
  <2> QED
    BY <1>5, <2>2, CallCases
<1>6. ASSUME NEW d \in Dbcs, ServerDies(d)
      PROVE  TypeOK' /\ CallShape'
  <2>1. dbc' \in [Dbcs -> DbcHandles]
    BY <1>6 DEF ServerDies, TypeOK, DbcHandles
  <2> QED
    BY <1>6, <2>1 DEF ServerDies, TypeOK, CallShape
<1>7. ASSUME UNCHANGED vars
      PROVE  TypeOK' /\ CallShape'
  BY <1>7 DEF vars, TypeOK, CallShape
<1> QED
  BY <1>5, <1>6, <1>7, NextCases

-----------------------------------------------------------------------------
(* Isolation *)

\* What a thread's step does to references and to persistent_list: other
\* threads lose nothing, and only Finish and Pass add something.
LEMMA FrameStep ==
  ASSUME TypeOK, CallShape, NEW t \in Threads, Step(t)
  PROVE  /\ \A u \in Threads \ {t} :
              /\ call'[u] = call[u]
              /\ holds[u] \subseteq holds'[u]
              /\ \A c \in Creds : pool'[Key(u, c)] = pool[Key(u, c)]
         /\ \A u \in Threads : holds'[u] \subseteq holds[u] \cup passed'
                                 \cup IF u = t THEN {call[t].h} ELSE {}
         /\ \A u \in Threads : \A h \in holds'[u] \ holds[u] :
              h \in Reach(t) /\ (u # t => h \in passed')
         /\ \A c \in Creds : pool'[Key(t, c)] \in {pool[Key(t, c)], call[t].h}
         /\ passed \subseteq passed'
<1>1. \A u \in Threads \ {t} : call'[u] = call[u]
  BY CallCases
<1>2. CASE Finish(t)
  <2>1. /\ \A u \in Threads \ {t} : holds'[u] = holds[u]
        /\ holds'[t] = holds[t] \cup {call[t].h}
    BY <1>2 DEF Finish, TypeOK
  <2>2. call[t].cred \in Creds /\ call[t].h \in Handles /\ call[t].h \in Reach(t)
    BY <1>2 DEF Finish, TypeOK, Calls, CallShape, Reach
  <2>3. /\ \A k \in Keys \ {Key(t, call[t].cred)} : pool'[k] = pool[k]
        /\ pool'[Key(t, call[t].cred)] \in {pool[Key(t, call[t].cred)], call[t].h}
    BY <1>2, <2>2, ValueTypes DEF Finish, TypeOK
  <2>4. \A u \in Threads \ {t}, c \in Creds : Key(u, c) # Key(t, call[t].cred)
    BY <2>2, ValueTypes
  <2> QED
    BY <1>1, <1>2, <2>1, <2>2, <2>3, <2>4, ValueTypes DEF Finish
<1>3. CASE \E h \in Handles : Drop(t, h)
  BY <1>1, <1>3 DEF Drop, TypeOK
<1>4. CASE \E h \in Handles, u \in Threads \ {t} : Pass(t, u, h)
  <2> PICK h \in Handles, u \in Threads \ {t} : Pass(t, u, h)
    BY <1>4
  <2>1. /\ holds'[u] = holds[u] \cup {h} /\ passed' = passed \cup {h}
        /\ \A v \in Threads \ {u} : holds'[v] = holds[v]
        /\ UNCHANGED pool /\ h \in Reach(t)
    BY DEF Pass, Has, Reach, TypeOK
  <2> QED
    BY <1>1, <2>1
<1>5. CASE UNCHANGED <<pool, holds, passed>>
  BY <1>1, <1>5
<1> QED
  BY <1>2, <1>3, <1>4, <1>5, FailsConnect
     DEF Step, KeptStep, FieldStep, SilentStep, DeathStep, AttributeStep, Reset, Option,
         Switch, AutocommitAttr, StartNew, StartReconnect, FailConnect,
         StartReuse, StartFails, Defaults, OptionAutocommit, OptionsInvalid, Assign,
         CloseEnv, Connect, CloseDisconnect, CloseDbc, Exec, Commit, Rollback,
         SetAutocommit, CloseRollback

\* A call that begins works on a new conn_handle or on one within reach.
LEMMA StartsOn ==
  ASSUME TypeOK, CallShape, NEW t \in Threads, Step(t), Starts(t)
  PROVE  \/ call'[t].h \in Reach(t)
         \/ /\ \E c \in Creds, p \in BOOLEAN : StartNew(t, c, p)
            /\ conn[call'[t].h].mem = "unused"
            /\ conn'[call'[t].h].mem = "live"
            /\ UNCHANGED <<pool, holds, passed>>
<1>1. CASE \E c \in Creds, p \in BOOLEAN : StartNew(t, c, p)
  <2> PICK c \in Creds, p \in BOOLEAN : StartNew(t, c, p)
    BY <1>1
  <2> PICK h \in Handles, d \in Dbcs :
        /\ conn[h].mem = "unused"
        /\ conn' = [conn EXCEPT ![h] =
             [mem |-> "live", active |-> FALSE, pconnect |-> p,
              auto |-> TRUE, dbc |-> d, cred |-> c]]
        /\ call' = [call EXCEPT ![t] = Begun("reset", h, c, FALSE)]
        /\ UNCHANGED <<pool, holds, passed>>
    BY DEF StartNew
  <2>1. call'[t].h = h
    BY DEF TypeOK, Begun, Idle
  <2>2. conn'[h].mem = "live"
    BY DEF TypeOK
  <2> QED
    BY <1>1, <2>1, <2>2
<1>2. CASE \E c \in Creds : StartReconnect(t, c)
  BY <1>2 DEF StartReconnect, Entry, Begun, Idle, TypeOK, Reach
<1>3. CASE \E c \in Creds : StartReuse(t, c)
  BY <1>3 DEF StartReuse, Entry, Begun, Idle, TypeOK, Reach
<1>4. CASE \E h \in Handles, on \in BOOLEAN : SetAutocommit(t, h, on)
  BY <1>4 DEF SetAutocommit, Active, Has, Begun, Idle, TypeOK, Reach
<1>5. CASE \E h \in Handles : CloseRollback(t, h)
  BY <1>5 DEF CloseRollback, Active, Has, Begun, Idle, TypeOK, Reach
<1>6. call[t].step = "idle" /\ call'[t].step # "idle"
  BY ValueTypes DEF Starts
<1>7. CASE call' = call \/ End(t)
  BY <1>6, <1>7, ValueTypes DEF End, TypeOK
<1>8. ASSUME SettingDefaults(t) PROVE FALSE
  BY <1>6, <1>8 DEF SettingDefaults
<1> QED
  BY <1>1, <1>2, <1>3, <1>4, <1>5, <1>6, <1>7, <1>8, FailsConnect
     DEF Step, KeptStep, FieldStep, SilentStep, DeathStep, AttributeStep, Reset, Option,
         Switch, FailConnect, StartFails, Defaults, OptionAutocommit, OptionsInvalid,
         Finish, Assign, CloseEnv, Connect, CloseDisconnect, CloseDbc, Exec, Commit,
         Rollback, Drop, Pass

\* A step of thread t never makes memory "unused", and deletes only handles
\* within t's reach.
LEMMA MemStep ==
  ASSUME TypeOK, CallShape, NEW t \in Threads, Step(t)
  PROVE  /\ \A h \in Handles : conn[h].mem # "unused" => conn'[h].mem # "unused"
         /\ \A h \in Handles : Live(h) /\ ~Live(h)' => h \in Reach(t)
<1>1. CASE \E c \in Creds, p \in BOOLEAN : StartNew(t, c, p)
  BY <1>1 DEF StartNew, TypeOK, Live
<1>2. CASE \E c \in Creds : StartReconnect(t, c)
  <2>1. \A h \in Handles : conn'[h].mem = conn[h].mem
    BY <1>2 DEF StartReconnect, TypeOK, ConnHandles
  <2> QED
    BY <2>1 DEF Live
<1>3. CASE FieldStep(t) \/ UNCHANGED conn
  BY <1>3, FieldStepFields DEF Fields, Live
<1>4. CASE DeathStep(t)
  BY <1>4, DeathFields DEF Live, TypeOK
<1> QED
  BY <1>1, <1>2, <1>3, <1>4, SilentFields DEF Step, KeptStep, Exec

\* Memory that was allocated once is never "unused" again, and only a new
\* conn_handle and a handle that is passed on come within a thread's reach.
LEMMA ReachStep ==
  ASSUME IInv, [Next]_vars
  PROVE  /\ \A h \in Handles : conn[h].mem # "unused" => conn'[h].mem # "unused"
         /\ \A t \in Threads : \A h \in Reach(t)' \ Reach(t) :
              \/ conn[h].mem = "unused" /\ conn'[h].mem # "unused"
                 /\ \A u \in Threads \ {t} : Reach(u)' \subseteq Reach(u)
              \/ h \in passed' /\ conn[h].mem # "unused"
         /\ passed \subseteq passed'
<1> DEFINE Goal ==
      /\ \A h \in Handles : conn[h].mem # "unused" => conn'[h].mem # "unused"
      /\ \A t \in Threads : \A h \in Reach(t)' \ Reach(t) :
           \/ conn[h].mem = "unused" /\ conn'[h].mem # "unused"
              /\ \A u \in Threads \ {t} : Reach(u)' \subseteq Reach(u)
           \/ h \in passed' /\ conn[h].mem # "unused"
      /\ passed \subseteq passed'
<1>t. TypeOK /\ CallShape /\ FreshOK
  BY DEF IInv
<1>1. ASSUME NEW t \in Threads, Step(t)
      PROVE  Goal
  <2>m. /\ \A h \in Handles : conn[h].mem # "unused" => conn'[h].mem # "unused"
        /\ passed \subseteq passed'
    BY <1>1, <1>t, MemStep, FrameStep
  <2>1. ASSUME NEW u \in Threads \ {t}, NEW h \in Reach(u)' \ Reach(u)
        PROVE  h \in passed' /\ conn[h].mem # "unused"
    <3>1. /\ call'[u] = call[u]
          /\ \A c \in Creds : pool'[Key(u, c)] = pool[Key(u, c)]
      BY <1>1, <1>t, FrameStep
    <3>2. h \in holds'[u] \ holds[u]
      BY <2>1, <3>1 DEF Reach
    <3> QED
      BY <3>2, <1>1, <1>t, FrameStep DEF FreshOK
  <2>2. ASSUME NEW h \in Reach(t)' \ Reach(t)
        PROVE  /\ Starts(t) /\ h = call'[t].h
    <3>1. ASSUME NEW c \in Creds, pool'[Key(t, c)] = h PROVE FALSE
      <4>1. h \in {pool[Key(t, c)], call[t].h}
        BY <1>1, <1>t, <3>1, FrameStep
      <4> QED
        BY <2>2, <3>1, <4>1 DEF Reach
    <3>2. h \notin holds'[t]
      BY <1>1, <1>t, <2>2, FrameStep DEF Reach
    <3>3. h = call'[t].h /\ h # call[t].h /\ h \in Handles
      BY <2>2, <3>1, <3>2 DEF Reach
    <3>4. call'[t] # call[t] /\ call'[t] # Idle /\ ~Same(t)
      BY <3>3, ValueTypes, ConstantsAssumption DEF Same
    <3> QED
      BY <1>1, <1>t, <3>3, <3>4, CallCases
  <2>3. ASSUME NEW h \in Reach(t)' \ Reach(t)
        PROVE  /\ conn[h].mem = "unused" /\ conn'[h].mem # "unused"
               /\ \A u \in Threads \ {t} : Reach(u)' \subseteq Reach(u)
    <3>1. /\ conn[h].mem = "unused" /\ conn'[h].mem # "unused"
          /\ UNCHANGED <<pool, holds, passed>>
      BY <1>1, <1>t, <2>2, <2>3, StartsOn
    <3>2. \A u \in Threads \ {t} : call'[u] = call[u]
      BY <1>1, <1>t, FrameStep
    <3> QED
      BY <3>1, <3>2 DEF Reach
  <2> QED
    BY <2>m, <2>1, <2>3
<1>2. ASSUME NEW d \in Dbcs, ServerDies(d)
      PROVE  Goal
  BY <1>2 DEF ServerDies, Reach
<1>3. ASSUME UNCHANGED vars
      PROVE  Goal
  BY <1>3 DEF vars, Reach
<1> QED
  BY <1>1, <1>2, <1>3, NextCases

LEMMA IsolationStep ==
  ASSUME IInv, [Next]_vars
  PROVE  ThreadIsolation' /\ FreshOK'
BY ReachStep DEF IInv, ThreadIsolation, FreshOK, Reach

-----------------------------------------------------------------------------
(* DBC handles and the work open on them *)

\* What every step but three does to the structures: no handle comes to life
\* or changes its DBC, no DBC becomes unused, no transaction gains work.
Kept ==
  /\ \A h \in Handles : Live(h)' => Live(h) /\ conn'[h].dbc = conn[h].dbc
  /\ \A d \in Dbcs : dbc[d].st # "unused" => dbc'[d].st # "unused"
  /\ \A d \in Dbcs : dbc'[d].work \subseteq dbc[d].work

LEMMA ThreadKeeps ==
  ASSUME IInv, NEW t \in Threads, KeptStep(t)
  PROVE  Kept
<1>t. TypeOK /\ CallShape
  BY DEF IInv
<1>1. Lessens
  BY <1>t, LessensStep
<1>2. \A h \in Handles : Live(h)' => Live(h) /\ conn'[h].dbc = conn[h].dbc
  <2>1. CASE FieldStep(t) \/ SilentStep(t)
    BY <2>1, <1>t, FieldStepFields, SilentFields DEF Fields, Live
  <2>2. CASE DeathStep(t)
    BY <2>2, <1>t, DeathFields DEF Live
  <2> QED
    BY <2>1, <2>2 DEF KeptStep
<1> QED
  BY <1>1, <1>2 DEF Kept, Lessens

LEMMA ServerKeeps ==
  ASSUME IInv, NEW d \in Dbcs, ServerDies(d)
  PROVE  Kept
<1>1. dbc' = [dbc EXCEPT ![d] = [@ EXCEPT !.st = "dead", !.work = {}]]
  BY DEF ServerDies
<1>2. /\ \A e \in Dbcs : dbc[e].st # "unused" => dbc'[e].st # "unused"
      /\ \A e \in Dbcs : dbc'[e].work \subseteq dbc[e].work
  BY <1>1 DEF IInv, TypeOK, DbcHandles
<1> QED
  BY <1>2 DEF ServerDies, Kept, Live

\* A dead connection's handle gets a new DBC.
LEMMA Reconnected ==
  ASSUME TypeOK, NEW t \in Threads, NEW c \in Creds, StartReconnect(t, c)
  PROVE  \E g \in Handles, d \in Dbcs :
           /\ pool[Key(t, c)] = g /\ Live(g) /\ dbc[d].st = "unused"
           /\ \A h \in Handles : /\ Live(h)' <=> Live(h)
                                 /\ conn'[h].dbc = IF h = g THEN d ELSE conn[h].dbc
           /\ \A e \in Dbcs : dbc'[e] = IF e = d THEN FreshDbc ELSE dbc[e]
<1> PICK g \in Handles, d \in Dbcs :
      /\ pool[Key(t, c)] = g /\ Live(g) /\ dbc[d].st = "unused"
      /\ conn' = [conn EXCEPT ![g] =
           [@ EXCEPT !.dbc = d, !.cred = c, !.auto = TRUE]]
      /\ dbc' = [dbc EXCEPT ![d] = FreshDbc]
  BY DEF StartReconnect, Entry
<1>1. \A h \in Handles : /\ Live(h)' <=> Live(h)
                         /\ conn'[h].dbc = IF h = g THEN d ELSE conn[h].dbc
  <2> DEFINE v == [conn[g] EXCEPT !.dbc = d, !.cred = c, !.auto = TRUE]
  <2>1. v.mem = conn[g].mem /\ v.dbc = d
    BY DEF TypeOK, ConnHandles
  <2>2. conn' = [conn EXCEPT ![g] = v]
    OBVIOUS
  <2> HIDE DEF v
  <2> QED
    BY <2>1, <2>2 DEF TypeOK, Live
<1>2. \A e \in Dbcs : dbc'[e] = IF e = d THEN FreshDbc ELSE dbc[e]
  BY DEF TypeOK
<1> QED
  BY <1>1, <1>2

LEMMA DbcStep ==
  ASSUME IInv, [Next]_vars
  PROVE  DbcOK'
<1>t. TypeOK
  BY DEF IInv
<1>1. ASSUME Kept
      PROVE  DbcOK'
  BY <1>1, <1>t DEF Kept, IInv, DbcOK, TypeOK, DbcOf, Live
<1>2. ASSUME NEW t \in Threads, NEW c \in Creds, NEW p \in BOOLEAN,
             StartNew(t, c, p)
      PROVE  DbcOK'
  BY <1>2, <1>t DEF StartNew, FreshDbc, IInv, DbcOK, TypeOK, DbcOf, Live
<1>3. ASSUME NEW t \in Threads, NEW c \in Creds, StartReconnect(t, c)
      PROVE  DbcOK'
  BY <1>3, <1>t, Reconnected DEF FreshDbc, IInv, DbcOK, TypeOK, DbcOf, Live
<1>4. ASSUME NEW t \in Threads, NEW h \in Handles, Exec(t, h)
      PROVE  DbcOK'
  <2>1. \A d \in Dbcs : dbc'[d].st = dbc[d].st
    BY <1>4, <1>t DEF Exec, TypeOK, DbcHandles
  <2> QED
    BY <1>4, <2>1, <1>t DEF Exec, IInv, DbcOK, TypeOK, DbcOf, Live
<1>5. ASSUME UNCHANGED vars
      PROVE  DbcOK'
  BY <1>5 DEF vars, IInv, DbcOK, DbcOf, Live
<1> QED
  BY <1>1, <1>2, <1>3, <1>4, <1>5, ThreadKeeps, ServerKeeps, NextCases DEF Step

-----------------------------------------------------------------------------
(* What a thread's step leaves alone, and when a handle is lost *)

LEMMA Quiet ==
  ASSUME TypeOK, NEW t \in Threads, Step(t), ~Finish(t)
  PROVE  /\ UNCHANGED pool
         /\ holds[t] \subseteq holds'[t] \/ \E h \in Handles : Drop(t, h)
<1>1. CASE \E h \in Handles : Drop(t, h)
  BY <1>1 DEF Drop
<1>2. CASE \E h \in Handles, u \in Threads \ {t} : Pass(t, u, h)
  BY <1>2 DEF Pass, TypeOK
<1>3. CASE UNCHANGED <<pool, holds>>
  BY <1>3
<1> QED
  BY <1>1, <1>2, <1>3, FailsConnect
     DEF Step, KeptStep, FieldStep, SilentStep, DeathStep, AttributeStep, Reset, Option,
         Switch, AutocommitAttr, StartNew, StartReconnect, FailConnect,
         StartReuse, StartFails, Defaults, OptionAutocommit, OptionsInvalid, Assign,
         CloseEnv, Connect, CloseDisconnect, CloseDbc, Exec, Commit, Rollback,
         SetAutocommit, CloseRollback

\* A thread that is in a call goes on with it.
LEMMA Busy ==
  ASSUME TypeOK, NEW t \in Threads, Step(t), call[t].step # "idle"
  PROVE  /\ FieldStep(t) \/ SilentStep(t) \/ Fails(t)
         /\ UNCHANGED <<pool, holds>> \/ Finish(t)
         /\ UNCHANGED passed
<1>i. call[t] # Idle
  BY ValueTypes
<1>1. /\ ~\E c \in Creds, p \in BOOLEAN : StartNew(t, c, p)
      /\ ~\E c \in Creds : \/ StartReconnect(t, c) \/ StartReuse(t, c)
                           \/ StartFails(t, c)
      /\ ~\E h \in Handles :
             \/ Exec(t, h) \/ Commit(t, h) \/ Rollback(t, h) \/ Drop(t, h)
             \/ CloseRollback(t, h) \/ \E on \in BOOLEAN : SetAutocommit(t, h, on)
             \/ \E u \in Threads \ {t} : Pass(t, u, h)
  BY <1>i DEF StartNew, StartReconnect, StartReuse, StartFails, Entry, Exec, Commit,
              Rollback, Drop, CloseRollback, SetAutocommit, Pass, Active, Has
<1>2. FieldStep(t) \/ SilentStep(t) \/ Fails(t)
  BY <1>1 DEF Step, KeptStep, DeathStep
<1>3. UNCHANGED <<pool, holds, passed>> \/ (Finish(t) /\ UNCHANGED passed)
  BY <1>1, <1>2, FailsConnect
     DEF FieldStep, SilentStep, AttributeStep, Reset, Option, Switch, AutocommitAttr,
         FailConnect, Defaults, OptionAutocommit, OptionsInvalid, Assign, CloseEnv,
         Connect, CloseDisconnect, CloseDbc, Finish
<1> QED
  BY <1>2, <1>3

\* A handle leaves a thread's reach only when it is deleted, passed on or has
\* no open transaction.
LEMMA ReachLoss ==
  ASSUME IInv, NEW t \in Threads, Step(t),
         NEW u \in Threads, NEW h \in Reach(u), h \notin passed, Live(h)'
  PROVE  h \in Reach(u)' \/ DbcOf(h).work = {}
<1>t. TypeOK /\ CallShape /\ CallOK /\ SlotOK
  BY DEF IInv
<1>1. CASE u # t
  BY <1>1, <1>t, FrameStep DEF Reach
<1> SUFFICES ASSUME u = t PROVE h \in Reach(t)' \/ DbcOf(h).work = {}
  BY <1>1
<1>2. CASE Finish(t)
  <2> DEFINE g == call[t].h
  <2>1. g \in Handles /\ call[t].cred \in Creds /\ call[t].step \in ConnectSteps
    BY <1>2, <1>t DEF Finish, TypeOK, CallShape, Calls, ConnectSteps
  <2>2. holds'[t] = holds[t] \cup {g}
    BY <1>2, <1>t DEF Finish, TypeOK
  <2>3. \A k \in Keys : pool'[k] # pool[k] => pool[k] \in {NoHandle, g}
    BY <1>2, <1>t, <2>1 DEF Finish, TypeOK, SlotOK
  <2> QED
    BY <2>1, <2>2, <2>3, ValueTypes, ConstantsAssumption DEF Reach
<1>3. CASE \E g \in Handles : Drop(t, g)
  <2> PICK g \in Handles : Drop(t, g)
    BY <1>3
  <2>1. CASE g # h
    BY <2>1, <1>t DEF Drop, Reach, TypeOK
  <2>2. CASE g = h
    <3>1. References(h) # {t} \/ InPool(h)
      BY <2>2, <1>t DEF Drop, NoConn, Live, TypeOK
    <3>2. h \in holds[t]
      BY <2>2 DEF Drop, Has
    <3>3. CASE \E v \in Threads \ {t} : h \in holds[v]
      BY <3>2, <3>3 DEF IInv, ThreadIsolation, Reach
    <3>4. CASE InPool(h)
      <4>1. PICK v \in Threads, c \in Creds : pool[Key(v, c)] = h
        BY <3>4 DEF InPool, Keys
      <4>2. v = t
        BY <3>2, <4>1 DEF IInv, ThreadIsolation, Reach
      <4> QED
        BY <4>1, <4>2 DEF Drop, Reach
    <3> QED
      BY <3>1, <3>2, <3>3, <3>4 DEF References
  <2> QED
    BY <2>1, <2>2
<1>4. CASE ~Finish(t) /\ ~\E g \in Handles : Drop(t, g)
  <2>1. UNCHANGED pool /\ holds[t] \subseteq holds'[t]
    BY <1>4, <1>t, Quiet
  <2>2. CASE h # call[t].h \/ h = call'[t].h
    BY <2>1, <2>2 DEF Reach
  <2>3. CASE h = call[t].h /\ h # call'[t].h
    <3>1. call[t].step # "idle" /\ h \in Handles
      BY <1>t, <2>3, ValueTypes, ConstantsAssumption DEF CallShape, Reach
    <3>2. h \in holds[t] \/ InPoolOf(t, h) \/ DbcOf(h).work = {}
      BY <1>t, <2>3, <3>1 DEF CallOK
    <3> QED
      BY <2>1, <3>1, <3>2 DEF Reach, InPoolOf
  <2> QED
    BY <2>2, <2>3
<1> QED
  BY <1>2, <1>3, <1>4

\* Who has work open keeps the handle within reach.
LEMMA WorkStep ==
  ASSUME IInv, [Next]_vars
  PROVE  WorkOK'
<1>t. TypeOK /\ CallShape /\ DbcOK /\ WorkOK
  BY DEF IInv
<1>p. passed \subseteq passed'
  BY ReachStep
<1>1. ASSUME NEW t \in Threads, KeptStep(t)
      PROVE  WorkOK'
  <2> SUFFICES ASSUME NEW h \in Handles, Live(h)', h \notin passed',
                      NEW u \in DbcOf(h)'.work
               PROVE  h \in Reach(u)'
    BY DEF WorkOK
  <2>1. Live(h) /\ conn'[h].dbc = conn[h].dbc /\ conn[h].dbc \in Dbcs
    BY <1>1, <1>t, ThreadKeeps DEF Kept, TypeOK, Live
  <2>2. u \in DbcOf(h).work /\ u \in Threads
    BY <1>1, <1>t, <2>1, ThreadKeeps DEF Kept, DbcOf, TypeOK, DbcHandles
  <2>3. h \in Reach(u) /\ h \notin passed
    BY <1>p, <1>t, <2>1, <2>2 DEF WorkOK
  <2> QED
    BY <1>1, <2>2, <2>3, ReachLoss DEF Step
<1>2. ASSUME NEW t \in Threads, NEW c \in Creds, NEW p \in BOOLEAN,
             StartNew(t, c, p)
      PROVE  WorkOK'
  <2> PICK g \in Handles, d \in Dbcs :
        /\ conn[g].mem = "unused" /\ dbc[d].st = "unused"
        /\ conn' = [conn EXCEPT ![g] =
             [mem |-> "live", active |-> FALSE, pconnect |-> p,
              auto |-> TRUE, dbc |-> d, cred |-> c]]
        /\ dbc' = [dbc EXCEPT ![d] = FreshDbc]
        /\ UNCHANGED <<pool, holds, passed>>
    BY <1>2 DEF StartNew
  <2> SUFFICES ASSUME NEW h \in Handles, Live(h)', h \notin passed',
                      NEW u \in DbcOf(h)'.work
               PROVE  h \in Reach(u)'
    BY DEF WorkOK
  <2>1. h # g
    BY <1>t DEF TypeOK, DbcOf, FreshDbc
  <2>2. Live(h) /\ conn'[h] = conn[h] /\ conn[h].dbc \in Dbcs \ {d}
    BY <1>t, <2>1 DEF TypeOK, Live, DbcOK, DbcOf
  <2>3. u \in DbcOf(h).work /\ u \in Threads
    BY <1>t, <2>2 DEF DbcOf, TypeOK, DbcHandles
  <2>4. h \in Reach(u) /\ h \notin passed
    BY <1>t, <2>2, <2>3 DEF WorkOK
  <2> QED
    BY <1>2, <2>3, <2>4, ReachLoss DEF Step
<1>3. ASSUME NEW t \in Threads, NEW c \in Creds, StartReconnect(t, c)
      PROVE  WorkOK'
  <2> PICK g \in Handles, d \in Dbcs :
        /\ Live(g) /\ dbc[d].st = "unused"
        /\ \A h \in Handles : /\ Live(h)' <=> Live(h)
                              /\ conn'[h].dbc = IF h = g THEN d ELSE conn[h].dbc
        /\ \A e \in Dbcs : dbc'[e] = IF e = d THEN FreshDbc ELSE dbc[e]
    BY <1>3, <1>t, Reconnected
  <2> SUFFICES ASSUME NEW h \in Handles, Live(h)', h \notin passed',
                      NEW u \in DbcOf(h)'.work
               PROVE  h \in Reach(u)'
    BY DEF WorkOK
  <2>1. h # g
    BY DEF DbcOf, FreshDbc
  <2>2. Live(h) /\ conn'[h].dbc = conn[h].dbc /\ conn[h].dbc \in Dbcs \ {d}
    BY <1>t, <2>1 DEF TypeOK, Live, DbcOK, DbcOf
  <2>3. u \in DbcOf(h).work /\ u \in Threads
    BY <1>t, <2>2 DEF DbcOf, TypeOK, DbcHandles
  <2>4. h \in Reach(u) /\ h \notin passed
    BY <1>p, <1>t, <2>2, <2>3 DEF WorkOK
  <2> QED
    BY <1>3, <2>3, <2>4, ReachLoss DEF Step
<1>4. ASSUME NEW t \in Threads, NEW g \in Handles, Exec(t, g)
      PROVE  WorkOK'
  <2> SUFFICES ASSUME NEW h \in Handles, Live(h)', h \notin passed',
                      NEW u \in DbcOf(h)'.work
               PROVE  h \in Reach(u)'
    BY DEF WorkOK
  <2>1. UNCHANGED <<pool, conn, call, holds, passed>> /\ g \in holds[t]
        /\ dbc' = [dbc EXCEPT ![conn[g].dbc].work = @ \cup {t}]
    BY <1>4 DEF Exec, Active, Has
  <2>2. CASE u \in DbcOf(h).work
    BY <2>1, <2>2, <1>t DEF WorkOK, Live, Reach, TypeOK, DbcHandles, DbcOf
  <2>3. CASE u \notin DbcOf(h).work
    <3>1. Live(h) /\ Live(g)
      BY <2>1, <1>4 DEF Exec, Active, Has, Live
    <3>2. conn[h].dbc = conn[g].dbc /\ u = t
      BY <2>1, <2>3, <3>1, <1>t DEF TypeOK, DbcHandles, DbcOf, Live
    <3>3. h = g
      BY <3>1, <3>2, <1>t DEF DbcOK
    <3> QED
      BY <2>1, <3>2, <3>3 DEF Reach
  <2> QED
    BY <2>2, <2>3
<1>5. ASSUME NEW d \in Dbcs, ServerDies(d)
      PROVE  WorkOK'
  <2> SUFFICES ASSUME NEW h \in Handles, Live(h)', h \notin passed',
                      NEW u \in DbcOf(h)'.work
               PROVE  h \in Reach(u)'
    BY DEF WorkOK
  <2>1. UNCHANGED <<pool, conn, call, holds, passed>>
    BY <1>5 DEF ServerDies
  <2>2. Live(h) /\ u \in DbcOf(h).work
    BY <1>5, <1>t, <2>1, ServerKeeps DEF Kept, DbcOf, TypeOK, Live
  <2> QED
    BY <1>t, <2>1, <2>2 DEF WorkOK, Reach, TypeOK, DbcOf, DbcHandles
<1>6. ASSUME UNCHANGED vars
      PROVE  WorkOK'
  BY <1>6, <1>t DEF vars, WorkOK, Live, DbcOf, Reach
<1> QED
  BY <1>1, <1>2, <1>3, <1>4, <1>5, <1>6, NextCases DEF Step

\* A commit closes over other threads' work only on a handle that was passed on.
LEMMA ForeignStep ==
  ASSUME IInv, [Next]_vars
  PROVE  NoForeignCommit'
<1>t. TypeOK /\ CallShape /\ WorkOK /\ foreign = {}
  BY DEF IInv, NoForeignCommit
<1>1. ASSUME NEW t \in Threads, NEW h \in Handles, h \in Reach(t),
             Live(h), NoteForeign(t, h)
      PROVE  foreign' = {}
  <2>1. CASE h \notin passed /\ DbcOf(h).work \ {t} # {}
    <3>1. PICK u \in DbcOf(h).work : u # t
      BY <2>1
    <3>2. u \in Threads
      BY <1>1, <2>1, <1>t DEF TypeOK, DbcOf, Live, DbcHandles
    <3>3. h \in Reach(u)
      BY <1>1, <3>1, <3>2, <2>1, <1>t DEF WorkOK
    <3> QED
      BY <3>1, <3>2, <3>3, <1>1, <2>1 DEF IInv, ThreadIsolation
  <2> QED
    BY <1>1, <1>t, <2>1 DEF NoteForeign
<1>2. ASSUME NEW t \in Threads, AttributeStep(t)
      PROVE  foreign' = {}
  <2>1. /\ call[t].step # "idle"
        /\ \E on, accepted : AutocommitAttr(t, call[t].h, on, accepted)
    BY <1>2 DEF AttributeStep, Reset, Option, Switch
  <2>2. call[t].h \in Handles /\ call[t].h \in Reach(t)
    BY <2>1, <1>t DEF CallShape, Reach
  <2>3. Live(call[t].h) /\ (NoteForeign(t, call[t].h) \/ UNCHANGED foreign)
    BY <2>1 DEF AutocommitAttr
  <2> QED
    BY <2>2, <2>3, <1>1, <1>t
<1>3. ASSUME NEW t \in Threads, NEW h \in Handles, Commit(t, h)
      PROVE  foreign' = {}
  <2>1. Live(h) /\ h \in Reach(t) /\ NoteForeign(t, h)
    BY <1>3 DEF Commit, Active, Has, Reach
  <2> QED
    BY <1>1, <2>1
<1>4. ASSUME UNCHANGED foreign PROVE foreign' = {}
  BY <1>4, <1>t
<1>5. foreign' = {}
  BY <1>2, <1>3, <1>4
     DEF Next, vars, AttributeStep, StartNew, StartReuse, StartReconnect, StartFails,
         ResetFail, Defaults, OptionAutocommit, OptionsFail, OptionsInvalid, Connect,
         ConnectFail, Finish, FinishFail, FailConnect, Assign, CloseDisconnect,
         CloseDbc, CloseEnv, Exec, Rollback, SetAutocommit, CloseRollback, Drop,
         Pass, ServerDies
<1> QED
  BY <1>5 DEF NoForeignCommit

-----------------------------------------------------------------------------
(* Calls in progress *)

\* What other threads' calls work on stays as it was.
LEMMA OtherCalls ==
  ASSUME IInv, NEW t \in Threads, Step(t), NEW u \in Threads \ {t},
         NEW h, h = call[u].h, call[u].step # "idle", h \notin passed'
  PROVE  /\ call'[u] = call[u]
         /\ Live(h)'
         /\ h \in holds'[u] \/ InPoolOf(u, h)' \/ DbcOf(h)'.work = {}
<1>t. TypeOK /\ CallShape /\ CallOK /\ DbcOK
  BY DEF IInv
<1>1. /\ call'[u] = call[u]
      /\ holds[u] \subseteq holds'[u]
      /\ \A c \in Creds : pool'[Key(u, c)] = pool[Key(u, c)]
  BY FrameStep, <1>t
<1>2. h \in Handles /\ h \in Reach(u) /\ h \notin passed
  BY <1>t, FrameStep DEF CallShape, Reach
<1>3. Live(h) /\ conn[h].dbc \in Dbcs
  BY <1>2, <1>t DEF CallOK, TypeOK, Live
<1>4. h \notin Reach(t)
  BY <1>2 DEF IInv, ThreadIsolation
<1>5. Live(h)'
  BY <1>2, <1>3, <1>4, <1>t, MemStep
<1>6. h \in holds[u] \/ InPoolOf(u, h) \/ DbcOf(h).work = {}
  BY <1>2, <1>t DEF CallOK
<1>7. ASSUME DbcOf(h).work = {}
      PROVE  DbcOf(h)'.work = {}
  <2>1. CASE KeptStep(t)
    BY <2>1, <1>2, <1>3, <1>5, <1>7, ThreadKeeps DEF Kept, DbcOf
  <2>2. CASE \E c \in Creds, p \in BOOLEAN : StartNew(t, c, p)
    BY <2>2, <1>2, <1>3, <1>7, <1>t DEF StartNew, TypeOK, Live, DbcOf, DbcOK
  <2>3. CASE \E c \in Creds : StartReconnect(t, c)
    <3> PICK c \in Creds : StartReconnect(t, c)
      BY <2>3
    <3> PICK g \in Handles, d \in Dbcs :
          /\ pool[Key(t, c)] = g /\ dbc[d].st = "unused"
          /\ \A f \in Handles : conn'[f].dbc = IF f = g THEN d ELSE conn[f].dbc
          /\ \A e \in Dbcs : dbc'[e] = IF e = d THEN FreshDbc ELSE dbc[e]
      BY <1>t, Reconnected
    <3>1. g # h
      BY <1>4 DEF Reach
    <3>2. conn'[h].dbc = conn[h].dbc /\ conn[h].dbc # d
      BY <3>1, <1>2, <1>3, <1>t DEF DbcOK, DbcOf
    <3> QED
      BY <3>2, <1>3, <1>7 DEF DbcOf
  <2>4. CASE \E g \in Handles : Exec(t, g)
    <3> PICK g \in Handles : Exec(t, g)
      BY <2>4
    <3>1. g # h /\ Live(g)
      BY <1>4 DEF Exec, Active, Has, Reach
    <3>2. conn[g].dbc # conn[h].dbc
      BY <3>1, <1>2, <1>3, <1>t DEF DbcOK
    <3> QED
      BY <3>2, <1>3, <1>7, <1>t DEF Exec, DbcOf, TypeOK
  <2> QED
    BY <2>1, <2>2, <2>3, <2>4 DEF Step
<1> QED
  BY <1>1, <1>5, <1>6, <1>7 DEF InPoolOf

\* The call that a thread begins.
LEMMA NewCall ==
  ASSUME IInv, NEW t \in Threads, Step(t), Starts(t), NEW h, h = call'[t].h
  PROVE  /\ Live(h)'
         /\ h \in holds'[t] \/ InPoolOf(t, h)' \/ DbcOf(h)'.work = {}
<1>t. TypeOK /\ CallShape
  BY DEF IInv
<1>1. CASE \E c \in Creds, p \in BOOLEAN : StartNew(t, c, p)
  <2> PICK c \in Creds, p \in BOOLEAN : StartNew(t, c, p)
    BY <1>1
  <2> PICK g \in Handles, d \in Dbcs :
        /\ conn' = [conn EXCEPT ![g] =
             [mem |-> "live", active |-> FALSE, pconnect |-> p,
              auto |-> TRUE, dbc |-> d, cred |-> c]]
        /\ dbc' = [dbc EXCEPT ![d] = FreshDbc]
        /\ call' = [call EXCEPT ![t] = Begun("reset", g, c, FALSE)]
    BY DEF StartNew
  <2>1. h = g
    BY <1>t DEF TypeOK, Begun, Idle
  <2>2. Live(g)' /\ conn'[g].dbc = d
    BY <1>t DEF TypeOK, Live
  <2> QED
    BY <1>t, <2>1, <2>2 DEF TypeOK, DbcOf, FreshDbc
<1>2. CASE \E c \in Creds : StartReconnect(t, c)
  <2> PICK c \in Creds : StartReconnect(t, c)
    BY <1>2
  <2>1. h = pool[Key(t, c)] /\ UNCHANGED pool /\ h \in Handles
    BY <1>t DEF StartReconnect, Entry, TypeOK, Begun, Idle
  <2>2. Live(h)'
    BY <1>t, <2>1, Reconnected
  <2> QED
    BY <2>1, <2>2 DEF InPoolOf
<1>3. CASE \E c \in Creds : StartReuse(t, c)
  <2> PICK c \in Creds : StartReuse(t, c)
    BY <1>3
  <2>1. h = pool[Key(t, c)] /\ UNCHANGED pool /\ h \in Handles /\ Live(h)
    BY <1>t DEF StartReuse, Entry, TypeOK, Begun, Idle
  <2>2. Live(h)'
    BY <1>t, <1>3, <2>1, FieldStepFields DEF FieldStep, Fields, Live
  <2> QED
    BY <2>1, <2>2 DEF InPoolOf
<1>4. ASSUME NEW g \in Handles,
             CloseRollback(t, g) \/ \E on \in BOOLEAN : SetAutocommit(t, g, on)
      PROVE  Live(h)' /\ h \in holds'[t]
  <2>1. /\ g \in holds[t] /\ Live(g) /\ UNCHANGED <<conn, holds>>
        /\ \/ call' = [call EXCEPT ![t] = Begun("disconnect", g, NoCred, FALSE)]
           \/ \E on : call' = [call EXCEPT ![t] =
                                [Begun("switch", g, NoCred, FALSE) EXCEPT !.on = on]]
    BY <1>4 DEF CloseRollback, SetAutocommit, Active, Has
  <2>2. \/ call'[t] = Begun("disconnect", g, NoCred, FALSE)
        \/ \E on : call'[t] = [Begun("switch", g, NoCred, FALSE) EXCEPT !.on = on]
    BY <1>t, <2>1 DEF TypeOK
  <2>3. h = g
    BY <2>2 DEF Begun, Idle
  <2> QED
    BY <2>1, <2>3 DEF Live
<1>5. call[t].step = "idle" /\ call'[t].step # "idle"
  BY ValueTypes DEF Starts
<1>6. CASE call' = call \/ End(t)
  BY <1>5, <1>6, <1>t, ValueTypes DEF End, TypeOK
<1>7. ASSUME SettingDefaults(t) PROVE FALSE
  BY <1>5, <1>7 DEF SettingDefaults
<1> QED
  BY <1>1, <1>2, <1>3, <1>4, <1>5, <1>6, <1>7, FailsConnect
     DEF Step, KeptStep, FieldStep, SilentStep, DeathStep, AttributeStep, Reset, Option,
         Switch, FailConnect, StartFails, Defaults, OptionAutocommit, OptionsInvalid,
         Finish, Assign, CloseEnv, Connect, CloseDisconnect, CloseDbc, Exec, Commit,
         Rollback, Drop, Pass

\* The thread's own call.
LEMMA OwnCall ==
  ASSUME IInv, NEW t \in Threads, Step(t), NEW h,
         h = call'[t].h, call'[t].step # "idle", h \notin passed'
  PROVE  /\ Live(h)'
         /\ h \in holds'[t] \/ InPoolOf(t, h)' \/ DbcOf(h)'.work = {}
<1>t. TypeOK /\ CallShape /\ CallOK
  BY DEF IInv
<1>1. CASE Starts(t)
  BY <1>1, NewCall
<1>2. CASE ~Starts(t)
  <2>1. call[t].step # "idle" /\ call'[t].h = call[t].h
    BY <1>2, <1>t, CallCases, ValueTypes DEF Same, Starts, CallShape
  <2>2. /\ ~Finish(t) /\ ~Fails(t)
    <3>1. call'[t] # Idle
      BY ValueTypes
    <3> QED
      BY <1>t, <3>1, FailsConnect DEF Finish, FailConnect, End, TypeOK
  <2>3. (FieldStep(t) \/ SilentStep(t)) /\ UNCHANGED <<pool, holds, passed>>
    BY <1>t, <2>1, <2>2, Busy
  <2>4. h \in Handles /\ Live(h)
        /\ (h \in holds[t] \/ InPoolOf(t, h) \/ DbcOf(h).work = {})
    BY <2>1, <2>3, <1>t DEF CallOK, CallShape
  <2>5. conn[h].dbc \in Dbcs
    BY <2>4, <1>t DEF TypeOK, Live
  <2>6. conn'[h].mem = conn[h].mem /\ conn'[h].dbc = conn[h].dbc
    BY <1>t, <2>3, <2>4, FieldStepFields, SilentFields DEF Fields
  <2>7. DbcOf(h).work = {} => DbcOf(h)'.work = {}
    BY <2>3, <2>5, <2>6, ThreadKeeps DEF KeptStep, Kept, DbcOf
  <2> QED
    BY <2>3, <2>4, <2>6, <2>7 DEF Live, InPoolOf
<1> QED
  BY <1>1, <1>2

LEMMA CallStep ==
  ASSUME IInv, [Next]_vars
  PROVE  CallOK'
<1>t. TypeOK /\ CallOK /\ CallShape
  BY DEF IInv
<1>1. ASSUME NEW t \in Threads, Step(t)
      PROVE  CallOK'
  <2>1. ASSUME NEW u \in Threads, NEW h, h = call'[u].h,
               call'[u].step # "idle", h \notin passed'
        PROVE  /\ Live(h)'
               /\ h \in holds'[u] \/ InPoolOf(u, h)' \/ DbcOf(h)'.work = {}
    <3>1. CASE u = t
      BY <3>1, <2>1, <1>1, OwnCall
    <3>2. CASE u # t
      <4>1. call'[u] = call[u]
        BY <3>2, <1>1, <1>t, FrameStep
      <4> QED
        BY <4>1, <3>2, <2>1, <1>1, OtherCalls
    <3> QED
      BY <3>1, <3>2
  <2> QED
    BY <2>1 DEF CallOK
<1>2. ASSUME NEW d \in Dbcs, ServerDies(d)
      PROVE  CallOK'
  <2>1. UNCHANGED <<pool, conn, call, holds, passed>>
    BY <1>2 DEF ServerDies
  <2>2. \A h \in Handles : Live(h) /\ DbcOf(h).work = {} => DbcOf(h)'.work = {}
    BY <1>2, <2>1, <1>t, ServerKeeps DEF Kept, DbcOf, TypeOK, Live
  <2> QED
    BY <2>1, <2>2, <1>t DEF CallOK, Live, InPoolOf, CallShape
<1>3. ASSUME UNCHANGED vars
      PROVE  CallOK'
  BY <1>3, <1>t DEF vars, CallOK, Live, InPoolOf, DbcOf
<1> QED
  BY <1>1, <1>2, <1>3, NextCases

\* Nothing becomes persistent but a new connection.
LEMMA PconnectStep ==
  ASSUME TypeOK, CallShape, NEW t \in Threads, Step(t),
         NEW h \in Handles, conn[h].mem # "unused", conn'[h].pconnect
  PROVE  conn[h].pconnect
<1>1. CASE \E c \in Creds, p \in BOOLEAN : StartNew(t, c, p)
  BY <1>1 DEF StartNew, TypeOK
<1>2. CASE \E c \in Creds : StartReconnect(t, c)
  BY <1>2 DEF StartReconnect, TypeOK, ConnHandles
<1>3. CASE FieldStep(t) \/ UNCHANGED conn
  BY <1>3, FieldStepFields DEF Fields
<1>4. CASE DeathStep(t)
  <2>1. \/ conn' = conn
        \/ \E g \in Handles : conn' = [conn EXCEPT ![g] = NoConn("deleted")]
    BY <1>4, DeathFields
  <2> QED
    BY <2>1 DEF TypeOK, NoConn
<1> QED
  BY <1>1, <1>2, <1>3, <1>4, SilentFields DEF Step, KeptStep, Exec

LEMMA SlotStep ==
  ASSUME IInv, [Next]_vars
  PROVE  SlotOK'
<1>t. TypeOK /\ CallShape /\ SlotOK
  BY DEF IInv
<1> DEFINE Slot(u) ==
      call[u].step \in ConnectSteps /\ ~call[u].reused /\ conn[call[u].h].pconnect =>
        pool[Key(u, call[u].cred)] \in {NoHandle, call[u].h}
<1>i. "idle" \notin ConnectSteps
  BY DEF ConnectSteps
<1>1. ASSUME NEW t \in Threads, Step(t), NEW u \in Threads,
             call'[u].step \in ConnectSteps => call[u].step \in ConnectSteps,
             call'[u].h = call[u].h, call'[u].cred = call[u].cred,
             call'[u].reused = call[u].reused,
             \A c \in Creds : pool'[Key(u, c)] = pool[Key(u, c)]
      PROVE  Slot(u)'
  <2> SUFFICES ASSUME call'[u].step \in ConnectSteps, ~call'[u].reused,
                      conn'[call[u].h].pconnect
               PROVE  pool'[Key(u, call[u].cred)] \in {NoHandle, call[u].h}
    BY <1>1
  <2>1. /\ call[u].h \in Handles /\ call[u].h \in Reach(u) /\ call[u].cred \in Creds
        /\ call[u].step \in ConnectSteps
    BY <1>1, <1>t, <1>i DEF CallShape, Reach, TypeOK, Calls
  <2>2. conn[call[u].h].pconnect
    BY <1>1, <1>t, <2>1, PconnectStep DEF IInv, FreshOK
  <2> QED
    BY <1>1, <1>t, <2>1, <2>2 DEF SlotOK
<1>2. ASSUME NEW t \in Threads, Step(t), Starts(t)
      PROVE  Slot(t)'
  <2>1. CASE \E c \in Creds, p \in BOOLEAN : StartNew(t, c, p)
    <3> PICK c \in Creds, p \in BOOLEAN : StartNew(t, c, p)
      BY <2>1
    <3>1. /\ p => pool[Key(t, c)] = NoHandle
          /\ UNCHANGED pool
      BY DEF StartNew
    <3> PICK g \in Handles, d \in Dbcs :
          /\ conn' = [conn EXCEPT ![g] =
               [mem |-> "live", active |-> FALSE, pconnect |-> p,
                auto |-> TRUE, dbc |-> d, cred |-> c]]
          /\ call' = [call EXCEPT ![t] = Begun("reset", g, c, FALSE)]
      BY DEF StartNew
    <3>2. conn'[g].pconnect = p
      BY <1>t DEF TypeOK
    <3>3. call'[t].h = g /\ call'[t].cred = c
      <4>1. call'[t] = Begun("reset", g, c, FALSE)
        BY <1>t DEF TypeOK
      <4> QED
        BY <4>1 DEF Begun, Idle
    <3> QED
      BY <3>1, <3>2, <3>3
  <2>2. CASE \E c \in Creds : StartReconnect(t, c)
    BY <2>2, <1>t DEF StartReconnect, Entry, TypeOK, Begun, Idle
  <2>3. CASE \E c \in Creds : StartReuse(t, c)
    BY <2>3, <1>t DEF StartReuse, TypeOK, Begun, Idle
  <2>4. CASE \E h \in Handles :
               CloseRollback(t, h) \/ \E on \in BOOLEAN : SetAutocommit(t, h, on)
    <3>1. \/ \E h : call' = [call EXCEPT ![t] = Begun("disconnect", h, NoCred, FALSE)]
          \/ \E h, on : call' = [call EXCEPT ![t] =
                                 [Begun("switch", h, NoCred, FALSE) EXCEPT !.on = on]]
      BY <2>4 DEF CloseRollback, SetAutocommit
    <3>2. \/ \E h : call'[t] = Begun("disconnect", h, NoCred, FALSE)
          \/ \E h, on : call'[t] = [Begun("switch", h, NoCred, FALSE) EXCEPT !.on = on]
      BY <1>t, <3>1 DEF TypeOK
    <3>3. call'[t].step \in {"disconnect", "switch"}
      BY <3>2 DEF Begun, Idle
    <3> QED
      BY <3>3 DEF ConnectSteps
  <2>5. call[t].step = "idle" /\ call'[t].step # "idle"
    BY <1>2, ValueTypes DEF Starts
  <2>6. CASE call' = call \/ End(t)
    BY <2>5, <2>6, <1>t, ValueTypes DEF End, TypeOK
  <2>7. ASSUME SettingDefaults(t) PROVE FALSE
    BY <2>5, <2>7 DEF SettingDefaults
  <2> HIDE DEF Slot
  <2> QED
    BY <1>2, <2>1, <2>2, <2>3, <2>4, <2>5, <2>6, <2>7, FailsConnect
       DEF Step, KeptStep, FieldStep, SilentStep, DeathStep, AttributeStep, Reset, Option,
           Switch, FailConnect, StartFails, Defaults, OptionAutocommit, OptionsInvalid,
           Finish, Assign, CloseEnv, Connect, CloseDisconnect, CloseDbc, Exec, Commit,
           Rollback, Drop, Pass
<1>3. ASSUME NEW t \in Threads, Step(t)
      PROVE  SlotOK'
  <2>1. ASSUME NEW u \in Threads \ {t}
        PROVE  Slot(u)'
    BY <1>1, <1>3, <1>t, <2>1, FrameStep
  <2>2. Slot(t)'
    <3>1. CASE Starts(t)
      BY <1>2, <1>3, <3>1
    <3>2. CASE call'[t] = Idle
      BY <1>i, <3>2, ValueTypes
    <3>3. CASE Same(t) /\ UNCHANGED <<pool, holds, passed>>
      <4>1. call'[t].step \in ConnectSteps => call[t].step \in ConnectSteps
        BY <3>3, Kinds DEF Same, Kind
      <4> QED
        BY <1>1, <1>3, <3>3, <4>1 DEF Same
    <3>4. CASE call'[t] = call[t] /\ call[t] # Idle
      <4>1. ~Finish(t)
        BY <1>t, <3>4 DEF Finish, End, TypeOK
      <4>2. UNCHANGED pool
        BY <1>3, <1>t, <4>1, Quiet
      <4> QED
        BY <1>1, <1>3, <3>4, <4>2
    <3> HIDE DEF Slot
    <3> QED
      BY <1>3, <1>t, <3>1, <3>2, <3>3, <3>4, CallCases
  <2> QED
    BY <2>1, <2>2 DEF SlotOK
<1>4. ASSUME UNCHANGED <<pool, call, conn>>
      PROVE  SlotOK'
  BY <1>4, <1>t DEF SlotOK
<1> QED
  BY <1>3, <1>4, NextCases DEF ServerDies, vars

\* IInv is inductive.
LEMMA InvariantStep ==
  ASSUME IInv, [Next]_vars
  PROVE  IInv'
BY TypeStep, CallStep, SlotStep, IsolationStep, DbcStep, WorkStep, ForeignStep
   DEF IInv

LEMMA Invariance == Spec => []IInv
<1>1. Init => IInv
  BY InitInvariant
<1>2. IInv /\ [Next]_vars => IInv'
  BY InvariantStep
<1> QED
  BY <1>1, <1>2, PTL DEF Spec

-----------------------------------------------------------------------------
(* The results *)

\* The variables keep their types, and a conn_handle that exists has a DBC.
THEOREM TypeCorrect == Spec => []TypeOK
BY Invariance, PTL DEF IInv

\* The thread id in hKey keeps threads apart, whatever fails and whichever
\* calls overlap: a handle within reach of two threads was handed over by
\* Python code.
THEOREM ThreadsIsolated == Spec => []ThreadIsolation
BY Invariance, PTL DEF IInv

\* Uncommitted work is committed by no other thread's call, also when it was
\* left on a persistent connection: not by the AUTOCOMMIT ON with which
\* pconnect resets a connection, not by commit or autocommit.
THEOREM NoForeignCommits == Spec => []NoForeignCommit
BY Invariance, PTL DEF IInv
=============================================================================
