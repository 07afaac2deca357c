------------------------ MODULE ConnPoolLinkProofs ------------------------
(* Proofs about how conn_handles, DBC handles and calls in progress fit      *)
(* together in ConnPool: an active handle's DBC is allocated and its own,     *)
(* the autocommit field is what the driver does, and no connection is lost.   *)
EXTENDS ConnPoolProofs

\* What is in a thread's hands is within its reach.
LEMMA MineReach == \A t \in Threads : Mine(t) \subseteq Reach(t)
BY DEF Mine, Reach, InPoolOf

\* A handle is in persistent_list if it is there for some thread.
LEMMA PoolOf ==
  \A h : InPool(h) <=> \E t \in Threads : InPoolOf(t, h)
<1>1. \A k \in Keys : \E t \in Threads, c \in Creds : k = Key(t, c)
  BY DEF Keys
<1> QED
  BY <1>1, ValueTypes DEF InPool, InPoolOf

LEMMA InitLink == Init => LinkInv
<1> SUFFICES ASSUME Init PROVE LinkInv
  OBVIOUS
<1>1. \A t \in Threads : call[t].step = "idle" /\ call[t].h = NoHandle
  BY DEF Init, Idle
<1>2. \A h \in Handles : ~Live(h) /\ conn[h].dbc = NoDbc
  BY DEF Init, Live, NoConn
<1>3. \A h \in Handles : ~InPool(h)
  BY ConstantsAssumption DEF Init, InPool
<1>4. \A t \in Threads : ~Connecting(t) /\ call[t].step \notin CloseSteps
  BY <1>1 DEF Connecting, ConnectSteps, CloseSteps
<1> QED
  BY <1>1, <1>2, <1>3, <1>4, InitInvariant, PoolOf
     DEF LinkInv, OwnerOK, ConnectingOK, PersistentOK, FreedOK, Mine

-----------------------------------------------------------------------------
(* What the steps that begin a connect_helper do *)

\* Thread t's call is at the default for autocommit of handle g.
AtReset(t, g) == call'[t].step = "reset" /\ call'[t].h = g

\* DBC d was new, and is now allocated.
Allocated(d) ==
  /\ dbc[d].st = "unused"
  /\ \A e \in Dbcs : dbc'[e] = IF e = d THEN FreshDbc ELSE dbc[e]

LEMMA NewEffect ==
  ASSUME TypeOK, NEW t \in Threads, NEW c \in Creds, NEW p \in BOOLEAN,
         StartNew(t, c, p)
  PROVE  \E g \in Handles, d \in Dbcs :
           /\ conn[g].mem = "unused" /\ Allocated(d) /\ AtReset(t, g) /\ ~call'[t].reused
           /\ Live(g)' /\ ~conn'[g].active /\ conn'[g].pconnect = p
           /\ conn'[g].auto /\ conn'[g].dbc = d
           /\ \A h \in Handles \ {g} : conn'[h] = conn[h]
<1> PICK g \in Handles, d \in Dbcs :
      /\ conn[g].mem = "unused" /\ dbc[d].st = "unused"
      /\ conn' = [conn EXCEPT ![g] =
           [mem |-> "live", active |-> FALSE, pconnect |-> p,
            auto |-> TRUE, dbc |-> d, cred |-> c]]
      /\ dbc' = [dbc EXCEPT ![d] = FreshDbc]
      /\ call' = [call EXCEPT ![t] = Begun("reset", g, c, FALSE)]
  BY DEF StartNew
<1>1. call'[t] = Begun("reset", g, c, FALSE)
  BY DEF TypeOK
<1>2. AtReset(t, g) /\ ~call'[t].reused
  BY <1>1 DEF AtReset, Begun, Idle
<1>3. Allocated(d)
  BY DEF Allocated, TypeOK
<1> QED
  BY <1>2, <1>3 DEF TypeOK, Live

LEMMA RenewEffect ==
  ASSUME TypeOK, NEW t \in Threads, NEW c \in Creds, StartReconnect(t, c)
  PROVE  \E g \in Handles, d \in Dbcs :
           /\ Entry(t, c, g) /\ DbcOf(g).st # "conn"
           /\ Allocated(d) /\ AtReset(t, g) /\ ~call'[t].reused
           /\ conn'[g].mem = conn[g].mem /\ conn'[g].active = conn[g].active
           /\ conn'[g].pconnect = conn[g].pconnect
           /\ conn'[g].auto /\ conn'[g].dbc = d
           /\ \A h \in Handles \ {g} : conn'[h] = conn[h]
<1> PICK g \in Handles, d \in Dbcs :
      /\ Entry(t, c, g) /\ DbcOf(g).st # "conn" /\ dbc[d].st = "unused"
      /\ conn' = [conn EXCEPT ![g] =
           [@ EXCEPT !.dbc = d, !.cred = c, !.auto = TRUE]]
      /\ dbc' = [dbc EXCEPT ![d] = FreshDbc]
      /\ call' = [call EXCEPT ![t] = Begun("reset", g, c, FALSE)]
  BY DEF StartReconnect
<1> DEFINE v == [conn[g] EXCEPT !.dbc = d, !.cred = c, !.auto = TRUE]
<1>1. call'[t] = Begun("reset", g, c, FALSE)
  BY DEF TypeOK
<1>2. AtReset(t, g) /\ ~call'[t].reused
  BY <1>1 DEF AtReset, Begun, Idle
<1>3. Allocated(d)
  BY DEF Allocated, TypeOK
<1>4. /\ v.mem = conn[g].mem /\ v.active = conn[g].active
      /\ v.pconnect = conn[g].pconnect /\ v.auto /\ v.dbc = d
  BY DEF TypeOK, ConnHandles
<1>5. conn' = [conn EXCEPT ![g] = v]
  OBVIOUS
<1> HIDE DEF v
<1> QED
  BY <1>2, <1>3, <1>4, <1>5 DEF TypeOK

LEMMA ReuseEffect ==
  ASSUME TypeOK, NEW t \in Threads, NEW c \in Creds, StartReuse(t, c)
  PROVE  \E g \in Handles :
           /\ Entry(t, c, g) /\ DbcOf(g).st = "conn" /\ UNCHANGED dbc
           /\ AtReset(t, g) /\ call'[t].reused
           /\ conn'[g].active = conn[g].active /\ conn'[g].auto
           /\ \A h \in Handles \ {g} : conn'[h] = conn[h]
<1>r. \A g : LET v == Begun("reset", g, c, TRUE) IN
             v.step = "reset" /\ v.h = g /\ v.reused
  BY DEF Begun, Idle
<1> PICK g \in Handles :
      /\ Entry(t, c, g) /\ DbcOf(g).st = "conn" /\ UNCHANGED dbc
      /\ conn' = [conn EXCEPT ![g].auto = TRUE]
      /\ call' = [call EXCEPT ![t] = Begun("reset", g, c, TRUE)]
  BY DEF StartReuse
<1>1. call'[t] = Begun("reset", g, c, TRUE)
  BY DEF TypeOK
<1>2. AtReset(t, g) /\ call'[t].reused
  BY <1>1, <1>r DEF AtReset
<1>3. /\ conn'[g].active = conn[g].active /\ conn'[g].auto
      /\ \A h \in Handles \ {g} : conn'[h] = conn[h]
  BY DEF TypeOK, ConnHandles
<1> QED
  BY <1>2, <1>3

-----------------------------------------------------------------------------
(* Who deletes a handle, closes its DBC, makes it active or knows it *)

\* The other fields of a structure stay as they are while it exists, and only
\* a new connection comes to life.
LEMMA KeepsFields ==
  ASSUME IInv, NEW t \in Threads, Step(t), NEW h \in Handles, Live(h)'
  PROVE  \/ /\ Live(h) /\ conn'[h].pconnect = conn[h].pconnect
         \/ /\ conn[h].mem = "unused" /\ ~conn'[h].active
            /\ \E c \in Creds, p \in BOOLEAN : StartNew(t, c, p)
<1>t. TypeOK /\ CallShape
  BY DEF IInv
<1>1. CASE \E c \in Creds, p \in BOOLEAN : StartNew(t, c, p)
  BY <1>1, <1>t, NewEffect DEF Live
<1>2. CASE \E c \in Creds : StartReconnect(t, c)
  BY <1>2, <1>t, RenewEffect DEF Live
<1>3. CASE FieldStep(t) \/ UNCHANGED conn
  BY <1>3, <1>t, FieldStepFields DEF Fields, Live
<1>4. CASE DeathStep(t)
  <2>1. conn'[h] = conn[h]
    BY <1>4, <1>t, DeathFields DEF Live
  <2> QED
    BY <2>1 DEF Live
<1> QED
  BY <1>1, <1>2, <1>3, <1>4, SilentFields DEF Step, KeptStep, Exec

\* A deletion ends the call of connect_helper, or is the last reference's.
LEMMA DeletedBy ==
  ASSUME IInv, NEW t \in Threads, Step(t), NEW h \in Handles, Live(h), ~Live(h)'
  PROVE  /\ call'[t] = Idle
         /\ \/ h \in Mine(t)
            \/ h \in holds[t] /\ ~InPool(h) /\ References(h) = {t}
<1>t. TypeOK /\ CallShape
  BY DEF IInv
<1>1. CASE Fails(t)
  <2>1. /\ call'[t] = Idle /\ Connecting(t)
        /\ conn' = [conn EXCEPT ![call[t].h] = NoConn("deleted")]
    BY <1>1, <1>t, FailsConnect DEF FailConnect, End, TypeOK, Connecting
  <2>2. h = call[t].h
    BY <2>1, <1>t DEF TypeOK, Live
  <2> QED
    BY <2>1, <2>2 DEF Mine
<1>2. CASE \E c \in Creds : StartFails(t, c)
  <2> PICK c \in Creds, g \in Handles :
        /\ call[t] = Idle /\ UNCHANGED call
        /\ conn[g].mem = "unused" \/ Entry(t, c, g)
        /\ conn' = [conn EXCEPT ![g] = NoConn("deleted")]
    BY <1>2 DEF StartFails
  <2>1. h = g
    BY <1>t DEF TypeOK, Live
  <2> QED
    BY <2>1 DEF Entry, Mine, InPoolOf, Live
<1>3. CASE \E g \in Handles : Drop(t, g)
  <2> PICK g \in Handles : Drop(t, g)
    BY <1>3
  <2>1. h = g
    BY <1>t DEF Drop, TypeOK, Live
  <2>2. ~UNCHANGED conn
    BY DEF Live
  <2> QED
    BY <2>1, <2>2 DEF Drop, Has
<1>4. CASE \/ \E c \in Creds, p \in BOOLEAN : StartNew(t, c, p)
           \/ \E c \in Creds : StartReconnect(t, c)
           \/ FieldStep(t) \/ UNCHANGED conn
  <2>1. CASE \E c \in Creds, p \in BOOLEAN : StartNew(t, c, p)
    BY <2>1, <1>t, NewEffect DEF Live
  <2>2. CASE \E c \in Creds : StartReconnect(t, c)
    BY <2>2, <1>t, RenewEffect DEF Live
  <2>3. CASE FieldStep(t) \/ UNCHANGED conn
    BY <2>3, <1>t, FieldStepFields DEF Fields, Live
  <2> QED
    BY <1>4, <2>1, <2>2, <2>3
<1> QED
  BY <1>1, <1>2, <1>3, <1>4, SilentFields DEF Step, KeptStep, DeathStep, Exec

\* Only connect_helper makes a handle active, as its last step.
LEMMA ActiveBy ==
  ASSUME IInv, NEW t \in Threads, Step(t), NEW h \in Handles,
         ~conn[h].active, conn'[h].active
  PROVE  Finish(t) /\ h = call[t].h
<1>t. TypeOK /\ CallShape
  BY DEF IInv
<1>1. CASE \E c \in Creds, p \in BOOLEAN : StartNew(t, c, p)
  BY <1>1, <1>t, NewEffect
<1>2. CASE \E c \in Creds : StartReconnect(t, c) \/ StartReuse(t, c)
  BY <1>2, <1>t, RenewEffect, ReuseEffect
<1>3. CASE Defaults(t) \/ OptionsInvalid(t) \/ CloseEnv(t) \/ Assign(t) \/ Finish(t)
  BY <1>3, <1>t DEF Defaults, OptionsInvalid, CloseEnv, Assign, Finish, TypeOK,
                    ConnHandles
<1>4. CASE \E on \in BOOLEAN : OptionAutocommit(t, on)
  <2> PICK on \in BOOLEAN :
        conn' = [conn EXCEPT ![call[t].h] = [@ EXCEPT !.active = FALSE, !.auto = on]]
    BY <1>4 DEF OptionAutocommit
  <2> QED
    BY <1>t DEF TypeOK, ConnHandles
<1>5. CASE DeathStep(t)
  <2>1. \/ UNCHANGED conn
        \/ \E g \in Handles : conn' = [conn EXCEPT ![g] = NoConn("deleted")]
    BY <1>5, <1>t, DeathFields
  <2> QED
    BY <2>1, <1>t DEF TypeOK, NoConn
<1> QED
  BY <1>1, <1>2, <1>3, <1>4, <1>5, SilentFields DEF Step, KeptStep, FieldStep, Exec

-----------------------------------------------------------------------------
(* What steps do to DBC handles *)

\* A call on one handle does not touch the DBC of another.
LEMMA Elsewhere ==
  ASSUME LinkInv, NEW g, NEW h \in Handles, Live(h), g \in Handles \ {h}, NEW v,
         dbc' = [dbc EXCEPT ![conn[g].dbc] = v]
  PROVE  dbc'[conn[h].dbc] = dbc[conn[h].dbc]
<1>1. conn[g].dbc # conn[h].dbc
  <2>1. CASE Live(g)
    BY <2>1 DEF LinkInv, IInv, DbcOK
  <2>2. CASE ~Live(g)
    BY <2>2, ConstantsAssumption DEF LinkInv, IInv, TypeOK, FreedOK, Live
  <2> QED
    BY <2>1, <2>2
<1> QED
  BY <1>1 DEF LinkInv, IInv, TypeOK

\* The steps that leave the state of every DBC as it is.
SteadyStep(t) ==
  \/ FieldStep(t) \/ AttributeStep(t) \/ \E c \in Creds : StartFails(t, c)
  \/ \E h \in Handles :
       \/ Exec(t, h) \/ Commit(t, h) \/ Rollback(t, h) \/ CloseRollback(t, h)
       \/ \E on \in BOOLEAN : SetAutocommit(t, h, on)
       \/ \E u \in Threads \ {t} : Pass(t, u, h)

LEMMA Steady ==
  ASSUME TypeOK, NEW t \in Threads, SteadyStep(t)
  PROVE  \A d \in Dbcs : dbc'[d].st = dbc[d].st
<1> DEFINE Goal == \A d \in Dbcs : dbc'[d].st = dbc[d].st
<1> SUFFICES Goal
  OBVIOUS
<1>u. ASSUME UNCHANGED dbc PROVE Goal
  BY <1>u
<1>w. ASSUME NEW d, NEW v, dbc' = [dbc EXCEPT ![d] = v], v.st = dbc[d].st
      PROVE  Goal
  BY <1>w DEF TypeOK
<1> HIDE DEF Goal
<1>1. ASSUME NEW h, NEW on, NEW accepted, AutocommitAttr(t, h, on, accepted)
      PROVE  Goal
  <2> DEFINE v == WithAutocommit(dbc[conn[h].dbc], on)
  <2>1. UNCHANGED dbc \/ dbc' = [dbc EXCEPT ![conn[h].dbc] = v]
    BY <1>1 DEF AutocommitAttr
  <2>2. v.st = dbc[conn[h].dbc].st
    BY DEF WithAutocommit
  <2> HIDE DEF v
  <2> QED
    BY <2>1, <2>2, <1>u, <1>w
<1>2. CASE AttributeStep(t)
  BY <1>1, <1>2 DEF AttributeStep, Reset, Option, Switch
<1>3. ASSUME NEW h \in Handles, CloseRollback(t, h)
      PROVE  Goal
  <2>1. Live(h) /\ dbc' = [dbc EXCEPT ![conn[h].dbc] = RolledBack(h)]
    BY <1>3 DEF CloseRollback, Active, Has
  <2> QED
    BY <2>1, <1>w, RollsBack DEF DbcOf
<1>4. ASSUME NEW h \in Handles, Exec(t, h) \/ Commit(t, h) \/ Rollback(t, h)
      PROVE  Goal
  <2>1. Live(h) /\ \E w : dbc' = [dbc EXCEPT ![conn[h].dbc].work = w]
    BY <1>4 DEF Exec, Commit, Rollback, Active, Has
  <2> PICK w : dbc' = [dbc EXCEPT ![conn[h].dbc].work = w]
    BY <2>1
  <2>2. [dbc[conn[h].dbc] EXCEPT !.work = w].st = dbc[conn[h].dbc].st
    BY <2>1, RollsBack DEF DbcOf, DbcHandles
  <2> QED
    BY <2>2, <1>w
<1> QED
  BY <1>2, <1>3, <1>4, <1>u
     DEF SteadyStep, FieldStep, StartReuse, Defaults, OptionAutocommit, OptionsInvalid,
         Finish, Assign, CloseEnv, StartFails, SetAutocommit, Pass

\* The steps that change the state of a DBC, or give a handle a new one.
LEMMA UnsteadySteps ==
  ASSUME NEW t \in Threads, Step(t), ~SteadyStep(t)
  PROVE  \/ \E c \in Creds, p \in BOOLEAN : StartNew(t, c, p)
         \/ \E c \in Creds : StartReconnect(t, c)
         \/ Connect(t) \/ CloseDisconnect(t) \/ CloseDbc(t) \/ Fails(t)
         \/ \E h \in Handles : Drop(t, h)
BY DEF SteadyStep, Step, KeptStep, SilentStep, DeathStep

\* Only close disconnects and frees the DBC of a handle that lives on.
Closes(t, h) ==
  /\ call[t].step \in {"disconnect", "free_dbc"} /\ call[t].h = h
  /\ call'[t].step \in {"free_dbc", "free_env"} /\ call'[t].h = h

LEMMA ClosedBy ==
  ASSUME LinkInv, NEW t \in Threads, Step(t), NEW h \in Handles, Live(h), Live(h)',
         DbcOf(h)'.st \in {"closed", "freed"}
  PROVE  DbcOf(h).st \in {"closed", "freed"} \/ Closes(t, h)
<1>t. TypeOK /\ CallShape /\ DbcOK
  BY DEF LinkInv, IInv
<1> DEFINE d == conn[h].dbc
           Old == DbcOf(h).st \in {"closed", "freed"}
<1>d. d \in Dbcs /\ dbc[d].st # "unused" /\ dbc[d] \in DbcHandles
  BY <1>t DEF TypeOK, Live, DbcOK, DbcOf
<1>1. CASE \E c \in Creds, p \in BOOLEAN : StartNew(t, c, p)
  <2> PICK g \in Handles, e \in Dbcs :
         /\ conn[g].mem = "unused" /\ Allocated(e)
         /\ \A f \in Handles \ {g} : conn'[f] = conn[f]
    BY <1>1, <1>t, NewEffect
  <2>1. conn'[h].dbc = d /\ dbc'[d] = dbc[d]
    BY <1>d DEF Live, Allocated
  <2> QED
    BY <2>1 DEF DbcOf
<1>2. CASE \E c \in Creds : StartReconnect(t, c)
  <2> PICK c \in Creds, g \in Handles, e \in Dbcs :
         /\ Allocated(e) /\ conn'[g].dbc = e
         /\ \A f \in Handles \ {g} : conn'[f] = conn[f]
    BY <1>2, <1>t, RenewEffect
  <2>1. CASE g = h
    BY <2>1 DEF DbcOf, FreshDbc, Allocated
  <2>2. CASE g # h
    BY <2>2, <1>d DEF DbcOf, Allocated
  <2> QED
    BY <2>1, <2>2
<1>3. ASSUME NEW g \in Handles, g # h, conn'[h].dbc = d,
             UNCHANGED dbc \/ \E v : dbc' = [dbc EXCEPT ![conn[g].dbc] = v]
      PROVE  Old
  BY <1>3, Elsewhere DEF DbcOf
<1>4. CASE Fails(t)
  <2>1. /\ call[t].h \in Handles
        /\ conn' = [conn EXCEPT ![call[t].h] = NoConn("deleted")]
        /\ \E v : dbc' = [dbc EXCEPT ![conn[call[t].h].dbc] = v]
    BY <1>4, <1>t, FailsConnect DEF FailConnect, ConnectSteps, CallShape
  <2>2. call[t].h # h /\ conn'[h].dbc = d
    BY <2>1, <1>t DEF TypeOK, Live, NoConn
  <2> QED
    BY <2>1, <2>2, <1>3
<1>5. CASE \E g \in Handles : Drop(t, g)
  <2> PICK g \in Handles : Drop(t, g)
    BY <1>5
  <2>1. CASE UNCHANGED conn
    BY <2>1, <1>t DEF Drop, DbcOf, Live, TypeOK, NoConn
  <2>2. CASE conn' = [conn EXCEPT ![g] = NoConn("deleted")]
    <3>1. g # h /\ conn'[h].dbc = d
      BY <2>2, <1>t DEF TypeOK, Live, NoConn
    <3>2. UNCHANGED dbc \/ \E v : dbc' = [dbc EXCEPT ![conn[g].dbc] = v]
      BY DEF Drop
    <3> QED
      BY <3>1, <3>2, <1>3
  <2> QED
    BY <2>1, <2>2 DEF Drop
<1>6. CASE SteadyStep(t)
  <2>1. conn'[h].dbc = d
    <3>1. CASE FieldStep(t) \/ UNCHANGED conn
      BY <3>1, <1>t, FieldStepFields DEF Fields
    <3>2. CASE \E c \in Creds : StartFails(t, c)
      BY <3>2, <1>t DEF StartFails, TypeOK, Live, NoConn
    <3> QED
      BY <1>6, <3>1, <3>2, SilentFields DEF SteadyStep, SilentStep, Exec
  <2> QED
    BY <2>1, <1>6, <1>t, <1>d, Steady DEF DbcOf
<1>7. CASE Connect(t) \/ CloseDisconnect(t) \/ CloseDbc(t)
  <2>1. /\ call[t].step \in {"connect", "disconnect", "free_dbc"}
        /\ call[t].h \in Handles /\ UNCHANGED conn
    BY <1>7, <1>t DEF Connect, CloseDisconnect, CloseDbc, CallShape
  <2>2. CASE call[t].h # h
    <3>1. UNCHANGED dbc \/ \E v : dbc' = [dbc EXCEPT ![conn[call[t].h].dbc] = v]
      BY <1>7 DEF Connect, CloseDisconnect, CloseDbc
    <3> QED
      BY <2>1, <2>2, <3>1, <1>3
  <2>3. CASE UNCHANGED dbc
    BY <2>1, <2>3 DEF DbcOf
  <2>4. CASE Connect(t) /\ call[t].h = h
    <3>1. dbc'[d].st = "conn"
      BY <2>4, <1>d, <1>t DEF Connect, TypeOK, DbcHandles
    <3> QED
      BY <3>1, <2>1 DEF DbcOf
  <2>5. CASE ~UNCHANGED dbc /\ ~Connect(t) /\ call[t].h = h
    <3>1. /\ call[t].step \in {"disconnect", "free_dbc"}
          /\ \E s \in {"free_dbc", "free_env"} : call' = [call EXCEPT ![t].step = s]
      BY <2>5, <1>7 DEF CloseDisconnect, CloseDbc, GoOn
    <3> QED
      BY <3>1, <2>5, <1>t DEF Closes, TypeOK, Calls
  <2> QED
    BY <1>7, <2>2, <2>3, <2>4, <2>5
<1> QED
  BY <1>1, <1>2, <1>4, <1>5, <1>6, <1>7, UnsteadySteps

-----------------------------------------------------------------------------
(* Who knows a handle *)

\* A call of connect_helper begins on a new handle or on the thread's own
\* entry of persistent_list; the other calls on a handle that is held.
LEMMA BeginsOn ==
  ASSUME IInv, NEW t \in Threads, Step(t), Starts(t)
  PROVE  \E h \in Handles :
         /\ call'[t].h = h /\ UNCHANGED <<pool, holds, passed>>
         /\ \/ /\ conn[h].mem = "unused" /\ AtReset(t, h) /\ Live(h)'
               /\ DbcOf(h)' = FreshDbc /\ ~call'[t].reused
            \/ /\ \E c \in Creds : Entry(t, c, h)
               /\ AtReset(t, h) /\ Live(h)'
               /\ DbcOf(h)'.st \in {"alloc", "conn"}
            \/ /\ h \in holds[t] /\ Live(h) /\ UNCHANGED conn
               /\ call'[t].step \notin {"free_dbc", "free_env"}
               /\ \/ call'[t].step \in AutocommitSteps
                  \/ call'[t].step \in CloseSteps /\ ~conn[h].pconnect
<1>t. TypeOK /\ CallShape
  BY DEF IInv
<1>i. call[t].step = "idle" /\ call'[t].step # "idle" /\ call'[t].h \in Handles
  BY ValueTypes DEF Starts
<1>1. CASE \E c \in Creds, p \in BOOLEAN : StartNew(t, c, p)
  <2>1. UNCHANGED <<pool, holds, passed>>
    BY <1>1 DEF StartNew
  <2> PICK g \in Handles, d \in Dbcs :
         /\ conn[g].mem = "unused" /\ Allocated(d) /\ AtReset(t, g)
         /\ Live(g)' /\ conn'[g].dbc = d /\ ~call'[t].reused
    BY <1>1, <1>t, NewEffect
  <2>2. DbcOf(g)' = FreshDbc /\ call'[t].h = g
    BY DEF Allocated, DbcOf, AtReset
  <2> QED
    BY <2>1, <2>2
<1>2. CASE \E c \in Creds : StartReconnect(t, c)
  <2>1. UNCHANGED <<pool, holds, passed>>
    BY <1>2 DEF StartReconnect
  <2> PICK c \in Creds, g \in Handles, d \in Dbcs :
         /\ Entry(t, c, g) /\ Allocated(d) /\ AtReset(t, g)
         /\ conn'[g].mem = conn[g].mem /\ conn'[g].dbc = d
    BY <1>2, <1>t, RenewEffect
  <2>2. DbcOf(g)'.st = "alloc" /\ call'[t].h = g /\ Live(g)'
    BY DEF Allocated, DbcOf, AtReset, Entry, Live, FreshDbc
  <2> QED
    BY <2>1, <2>2
<1>3. CASE \E c \in Creds : StartReuse(t, c)
  <2>1. UNCHANGED <<pool, holds, passed>> /\ FieldStep(t)
    BY <1>3 DEF StartReuse, FieldStep
  <2> PICK c \in Creds, g \in Handles :
         /\ Entry(t, c, g) /\ DbcOf(g).st = "conn" /\ UNCHANGED dbc /\ AtReset(t, g)
    BY <1>3, <1>t, ReuseEffect
  <2>2. Live(g)' /\ conn'[g].dbc = conn[g].dbc
    BY <2>1, <1>t, FieldStepFields DEF Fields, Entry, Live
  <2>3. DbcOf(g)'.st = "conn" /\ call'[t].h = g
    BY <2>2 DEF AtReset, DbcOf
  <2> QED
    BY <2>1, <2>2, <2>3
<1>4. CASE \E g \in Handles, on \in BOOLEAN : SetAutocommit(t, g, on)
  <2> PICK g \in Handles, on \in BOOLEAN : SetAutocommit(t, g, on)
    BY <1>4
  <2>1. call'[t] = [Begun("switch", g, NoCred, FALSE) EXCEPT !.on = on]
    BY <1>t DEF SetAutocommit, TypeOK
  <2>2. call'[t].step = "switch" /\ call'[t].h = g
    BY <2>1 DEF Begun, Idle
  <2> QED
    BY <2>2 DEF SetAutocommit, Active, Has, AutocommitSteps
<1>5. CASE \E g \in Handles : CloseRollback(t, g)
  <2> PICK g \in Handles : CloseRollback(t, g)
    BY <1>5
  <2>1. call'[t] = Begun("disconnect", g, NoCred, FALSE)
    BY <1>t DEF CloseRollback, TypeOK
  <2>2. call'[t].step = "disconnect" /\ call'[t].h = g
    BY <2>1 DEF Begun, Idle
  <2> QED
    BY <2>2 DEF CloseRollback, Active, Has, CloseSteps
<1>7. CASE call' = call \/ End(t)
  BY <1>i, <1>7, <1>t, ValueTypes DEF End, TypeOK
<1>8. ~SettingDefaults(t)
  BY <1>i DEF SettingDefaults
<1> QED
  BY <1>1, <1>2, <1>3, <1>4, <1>5, <1>i, <1>7, <1>8, FailsConnect
     DEF Step, KeptStep, FieldStep, SilentStep, DeathStep, AttributeStep, Reset, Option,
         Switch, FailConnect, StartFails, Defaults, OptionAutocommit, OptionsInvalid,
         Finish, Assign, CloseEnv, Connect, CloseDisconnect, CloseDbc, Exec, Commit,
         Rollback, Drop, Pass

\* A thread's hands get only new handles.
LEMMA MineStep ==
  ASSUME IInv, NEW t \in Threads, Step(t)
  PROVE  /\ \A u \in Threads \ {t} : Mine(u)' = Mine(u)
         /\ \A h \in Mine(t)' : h \in Mine(t) \/ conn[h].mem = "unused"
<1>t. TypeOK /\ CallShape
  BY DEF IInv
<1>1. ASSUME NEW u \in Threads \ {t}
      PROVE  Mine(u)' = Mine(u)
  <2>1. call'[u] = call[u] /\ \A c \in Creds : pool'[Key(u, c)] = pool[Key(u, c)]
    BY <1>t, FrameStep
  <2> QED
    BY <2>1 DEF Mine, InPoolOf, Connecting
<1>2. ASSUME NEW h \in Mine(t)'
      PROVE  h \in Mine(t) \/ conn[h].mem = "unused"
  <2>h. h \in Handles
    BY DEF Mine
  <2>1. CASE InPoolOf(t, h)'
    <3>1. InPoolOf(t, h) \/ UNCHANGED pool \/ (Finish(t) /\ h = call[t].h)
      BY <2>1, <1>t, FrameStep, Quiet DEF InPoolOf
    <3> QED
      BY <2>1, <2>h, <3>1 DEF Mine, Finish, Connecting, ConnectSteps, InPoolOf
  <2>2. CASE Connecting(t)' /\ call'[t].h = h
    <3>1. call'[t] # Idle
      BY <2>2, ValueTypes DEF Connecting, ConnectSteps
    <3>2. CASE call'[t] = call[t]
      BY <2>2, <2>h, <3>2 DEF Mine, Connecting
    <3>3. CASE Same(t)
      BY <2>2, <2>h, <3>3, Kinds DEF Same, Kind, Mine, Connecting
    <3>4. CASE Starts(t)
      <4>1. call'[t].step \notin AutocommitSteps \cup CloseSteps
        BY <2>2, Kinds DEF Connecting
      <4> QED
        BY <2>2, <2>h, <3>4, <4>1, BeginsOn DEF Mine, Entry, InPoolOf
    <3> QED
      BY <1>t, <3>1, <3>2, <3>3, <3>4, CallCases
  <2> QED
    BY <2>1, <2>2 DEF Mine
<1> QED
  BY <1>1, <1>2

LEMMA OwnerStep ==
  ASSUME LinkInv, NEW t \in Threads, Step(t)
  PROVE  OwnerOK'
<1>1. \A u \in Threads : \A h \in Mine(u) : conn[h].mem # "unused"
  BY MineReach DEF LinkInv, IInv, FreshOK
<1>2. IInv /\ OwnerOK
  BY DEF LinkInv
<1> QED
  BY <1>1, <1>2, MineStep DEF OwnerOK

\* A thread that does not know a handle does not get to know it by itself, and
\* makes it known to nobody.
LEMMA StaysUnknown ==
  ASSUME IInv, NEW t \in Threads, Step(t), NEW h \in Handles,
         conn[h].mem # "unused", h \notin Reach(t)
  PROVE  \A u \in Threads :
           /\ h \in Reach(u)' => h \in Reach(u)
           /\ h \in holds'[u] => h \in holds[u]
           /\ InPoolOf(u, h)' <=> InPoolOf(u, h)
<1>t. TypeOK /\ CallShape
  BY DEF IInv
<1>1. \A u \in Threads : h \in holds'[u] => h \in holds[u]
  BY <1>t, FrameStep
<1>2. \A u \in Threads : InPoolOf(u, h)' <=> InPoolOf(u, h)
  <2>1. \A u \in Threads \ {t} : InPoolOf(u, h)' <=> InPoolOf(u, h)
    BY <1>t, FrameStep DEF InPoolOf
  <2>2. InPoolOf(t, h)' <=> InPoolOf(t, h)
    BY <1>t, FrameStep DEF InPoolOf, Reach
  <2> QED
    BY <2>1, <2>2
<1>3. call'[t].h # h
  <2>1. CASE Starts(t)
    BY <2>1, <1>t, StartsOn
  <2>2. CASE ~Starts(t)
    <3>1. call'[t].h \in {call[t].h, NoHandle}
      BY <2>2, <1>t, CallCases, ValueTypes DEF Same
    <3> QED
      BY <3>1, ConstantsAssumption DEF Reach
  <2> QED
    BY <2>1, <2>2
<1>4. \A u \in Threads \ {t} : call'[u] = call[u]
  BY <1>t, FrameStep
<1>5. \A u \in Threads :
        /\ h \in Reach(u)' <=> h \in holds'[u] \/ h = call'[u].h \/ InPoolOf(u, h)'
        /\ h \in Reach(u) <=> h \in holds[u] \/ h = call[u].h \/ InPoolOf(u, h)
  BY DEF Reach, InPoolOf
<1> QED
  BY <1>1, <1>2, <1>3, <1>4, <1>5

-----------------------------------------------------------------------------
(* Handles that connect_helper works on, and persistent connections *)

\* What ConnectingOK says of one thread.
Sound(u) ==
  LET h == call[u].h IN
  /\ Live(h) /\ DbcOf(h).st \notin {"closed", "freed"}
  /\ NewTo(u, h) \/ (conn[h].pconnect /\ InPoolOf(u, h))

\* It stays so while the call goes on, whoever takes the step.
LEMMA SoundKept ==
  ASSUME LinkInv, NEW t \in Threads, Step(t), NEW u \in Threads,
         Connecting(u), call'[u].step # "idle", call'[u].h = call[u].h,
         u = t => UNCHANGED <<pool, holds>>
  PROVE  Sound(u)'
<1>t. IInv /\ TypeOK /\ CallShape /\ FreshOK /\ OwnerOK /\ PersistentOK
  BY DEF LinkInv, IInv
<1>h. call[u].h \in Handles
  BY <1>t DEF CallShape, Connecting, ConnectSteps
<1> PICK h \in Handles : h = call[u].h
  BY <1>h
<1>c. /\ Live(h) /\ DbcOf(h).st \notin {"closed", "freed"}
      /\ NewTo(u, h) \/ (conn[h].pconnect /\ InPoolOf(u, h))
      /\ h \in Mine(u)
  BY <1>t DEF LinkInv, ConnectingOK, Connecting, CallShape, Mine, ConnectSteps
<1>m. conn[h].mem # "unused"
  BY <1>c DEF Live
<1>1. Live(h)'
  <2> SUFFICES ASSUME ~Live(h)' PROVE FALSE
    OBVIOUS
  <2>1. /\ call'[t] = Idle
        /\ \/ h \in Mine(t)
           \/ h \in holds[t] /\ ~InPool(h)
    BY <1>c, <1>t, DeletedBy
  <2>2. u # t
    BY <2>1, ValueTypes
  <2>3. h \notin Mine(t)
    BY <2>2, <1>c, <1>t DEF OwnerOK
  <2> QED
    BY <2>1, <2>3, <1>c, PoolOf DEF NewTo
<1>2. NewTo(u, h) => NewTo(u, h)'
  <2> SUFFICES ASSUME NewTo(u, h) PROVE NewTo(u, h)'
    OBVIOUS
  <2>1. CASE u = t
    <3>1. \A v \in Threads \ {t} : call'[v] = call[v]
      BY <1>t, FrameStep
    <3> QED
      BY <2>1, <3>1 DEF NewTo, InPool
  <2>2. CASE u # t
    <3>1. h \notin Reach(t)
      BY <2>2, PoolOf DEF NewTo, Reach, InPoolOf
    <3>2. \A v \in Threads :
            /\ h \in Reach(v)' => h \in Reach(v)
            /\ h \in holds'[v] => h \in holds[v]
            /\ InPoolOf(v, h)' <=> InPoolOf(v, h)
      BY <1>c, <1>m, <1>t, <3>1, StaysUnknown
    <3>3. InPool(h)' => \E v \in Threads : InPoolOf(v, h)'
      BY DEF InPool, InPoolOf, Keys
    <3>4. \A v \in Threads \ {u} : h \notin Reach(v)
      BY PoolOf DEF NewTo, Reach, InPoolOf
    <3>5. \A v \in Threads \ {u} : call'[v].h # h
      BY <3>2, <3>4, <1>c DEF Reach
    <3> QED
      BY <3>2, <3>3, <3>5, PoolOf DEF NewTo
  <2> QED
    BY <2>1, <2>2
<1>3. conn[h].pconnect /\ InPoolOf(u, h) => conn'[h].pconnect /\ InPoolOf(u, h)'
  <2>1. conn'[h].pconnect = conn[h].pconnect
    BY <1>1, <1>c, <1>m, <1>t, KeepsFields
  <2>2. \A c \in Creds : pool'[Key(u, c)] = pool[Key(u, c)]
    BY <1>t, FrameStep
  <2> QED
    BY <2>1, <2>2 DEF InPoolOf
<1>4. DbcOf(h)'.st \notin {"closed", "freed"}
  <2> SUFFICES ASSUME Closes(t, h) PROVE FALSE
    BY <1>1, <1>c, ClosedBy
  <2>1. call[t].step \in CloseSteps /\ call[t].h = h
    BY DEF Closes, CloseSteps
  <2>2. u # t
    BY <2>1, Kinds DEF Connecting
  <2>3. ~conn[h].pconnect
    BY <2>1, <1>c, <1>t DEF PersistentOK
  <2> QED
    BY <2>1, <2>2, <2>3, <1>c DEF NewTo
<1>5. call'[u].h = h
  OBVIOUS
<1>6. NewTo(u, h)' \/ (conn'[h].pconnect /\ InPoolOf(u, h)')
  BY <1>2, <1>3, <1>c
<1> QED
  BY <1>1, <1>4, <1>5, <1>6 DEF Sound, NewTo, InPool, InPoolOf, Live, DbcOf

LEMMA ConnectingStep ==
  ASSUME LinkInv, NEW t \in Threads, Step(t)
  PROVE  ConnectingOK'
<1>t. IInv /\ TypeOK /\ CallShape /\ FreshOK /\ OwnerOK /\ PersistentOK
  BY DEF LinkInv, IInv
<1>1. ASSUME NEW u \in Threads, Connecting(u)'
      PROVE  Sound(u)'
  <2>i. call'[u].step # "idle"
    BY <1>1 DEF Connecting, ConnectSteps
  <2>1. CASE u # t
    <3>1. call'[u] = call[u]
      BY <2>1, <1>t, FrameStep
    <3> QED
      BY <2>1, <2>i, <3>1, <1>1, SoundKept DEF Connecting
  <2>2. CASE u = t /\ Starts(t)
    <3> PICK h \in Handles :
          /\ call'[t].h = h /\ UNCHANGED <<pool, holds, passed>> /\ Live(h)'
          /\ \/ conn[h].mem = "unused" /\ DbcOf(h)' = FreshDbc
             \/ /\ \E c \in Creds : Entry(t, c, h)
                /\ DbcOf(h)'.st \in {"alloc", "conn"}
      BY <2>2, <1>1, <1>t, BeginsOn, Kinds DEF Connecting
    <3>1. CASE conn[h].mem = "unused"
      <4>1. \A v \in Threads : h \notin Reach(v)
        BY <3>1, <1>t DEF FreshOK
      <4>2. \A v \in Threads \ {t} : call'[v] = call[v]
        BY <1>t, FrameStep
      <4>3. NewTo(t, h)'
        BY <4>1, <4>2, PoolOf DEF NewTo, Reach, InPoolOf, InPool
      <4>4. DbcOf(h)'.st = "alloc"
        BY <3>1 DEF FreshDbc, Entry, Live
      <4> QED
        BY <2>2, <4>3, <4>4 DEF Sound, NewTo, InPool, Live, DbcOf
    <3>2. CASE conn[h].mem # "unused"
      <4>1. Live(h) /\ InPoolOf(t, h) /\ DbcOf(h)'.st \in {"alloc", "conn"}
        BY <3>2 DEF Entry, InPoolOf
      <4>2. conn[h].pconnect
        BY <4>1, <1>t, PoolOf DEF PersistentOK
      <4>3. conn'[h].pconnect
        BY <3>2, <4>2, <1>t, KeepsFields
      <4>4. InPoolOf(t, h)'
        BY <4>1 DEF InPoolOf
      <4> QED
        BY <2>2, <4>1, <4>3, <4>4 DEF Sound, InPoolOf, Live, DbcOf
    <3> QED
      BY <3>1, <3>2
  <2>3. CASE u = t /\ ~Starts(t)
    <3>1. call'[t] # Idle
      BY <2>3, <2>i, ValueTypes
    <3>2. CASE Same(t) /\ UNCHANGED <<pool, holds>>
      <4>1. Connecting(t) /\ call'[t].h = call[t].h
        BY <2>3, <3>2, <1>1, Kinds DEF Same, Kind, Connecting
      <4> QED
        BY <2>3, <2>i, <3>2, <4>1, SoundKept
    <3>3. CASE call'[t] = call[t]
      <4>1. Connecting(t) /\ call[t].step # "idle"
        BY <2>3, <2>i, <3>3, <1>1 DEF Connecting
      <4>2. ~Finish(t)
        BY <3>1, <1>t DEF Finish, End, TypeOK
      <4>3. UNCHANGED <<pool, holds>>
        BY <4>1, <4>2, <1>t, Busy
      <4> QED
        BY <2>3, <2>i, <3>3, <4>1, <4>3, SoundKept
    <3> QED
      BY <2>3, <3>1, <3>2, <3>3, <1>t, CallCases
  <2> QED
    BY <2>1, <2>2, <2>3
<1> QED
  BY <1>1 DEF ConnectingOK, Sound

LEMMA PersistentStep ==
  ASSUME LinkInv, NEW t \in Threads, Step(t)
  PROVE  PersistentOK'
<1>t. IInv /\ TypeOK /\ CallShape /\ FreshOK /\ PersistentOK
  BY DEF LinkInv, IInv
<1>k. ASSUME NEW h \in Handles, Live(h)', conn[h].mem # "unused"
      PROVE  Live(h) /\ conn'[h].pconnect = conn[h].pconnect
  BY <1>k, <1>t, KeepsFields
<1>1. ASSUME NEW h \in Handles, InPool(h)', Live(h)'
      PROVE  conn'[h].pconnect
  <2>1. CASE InPool(h)
    <3>1. conn[h].mem # "unused"
      BY <2>1, <1>t, PoolOf DEF FreshOK, Reach, InPoolOf
    <3> QED
      BY <2>1, <3>1, <1>1, <1>k, <1>t DEF PersistentOK
  <2>2. CASE ~InPool(h)
    <3>1. Finish(t)
      BY <1>1, <2>2, <1>t, Quiet DEF InPool
    <3>2. call[t].h \in Handles /\ UNCHANGED dbc
      BY <3>1, <1>t DEF Finish, CallShape
    <3>3. h = call[t].h /\ conn[h].pconnect
      BY <1>1, <2>2, <3>1, <1>t DEF Finish, InPool, TypeOK
    <3>4. conn[h].mem # "unused"
      BY <3>3, <1>t DEF FreshOK, Reach
    <3> QED
      BY <3>3, <3>4, <1>1, <1>k
  <2> QED
    BY <2>1, <2>2
<1>2. ASSUME NEW u \in Threads, call[u].step \in CloseSteps, call'[u].h = call[u].h,
             Live(call[u].h)'
      PROVE  ~conn'[call[u].h].pconnect
  <2>1. call[u].h \in Handles
    BY <1>2, <1>t, Kinds DEF CallShape
  <2>2. conn[call[u].h].mem # "unused"
    BY <2>1, <1>t DEF FreshOK, Reach
  <2> QED
    BY <2>1, <2>2, <1>2, <1>k, <1>t DEF PersistentOK
<1>3. ASSUME NEW u \in Threads, NEW h, call'[u].h = h, call'[u].step \in CloseSteps, Live(h)'
      PROVE  ~conn'[h].pconnect
  <2>i. call'[u].step # "idle" /\ call'[u].step \notin ConnectSteps \cup AutocommitSteps
    BY <1>3, Kinds
  <2>1. CASE call'[u] = call[u]
    BY <2>1, <1>2, <1>3
  <2>2. CASE u = t /\ Same(t)
    <3>1. call[u].step \in CloseSteps /\ call'[u].h = call[u].h
      BY <2>2, <1>3, Kinds DEF Same, Kind
    <3> QED
      BY <3>1, <1>2, <1>3
  <2>3. CASE u = t /\ Starts(t)
    <3>1. ~conn[h].pconnect /\ UNCHANGED conn
      BY <2>3, <2>i, <1>3, <1>t, BeginsOn DEF AtReset, ConnectSteps
    <3> QED
      BY <3>1
  <2>4. call'[u] # Idle
    BY <2>i, ValueTypes
  <2> QED
    BY <2>1, <2>2, <2>3, <2>4, <1>t, CallCases
<1> QED
  BY <1>1, <1>3 DEF PersistentOK, Live

\* A close past SQLDisconnect goes on, fails to free something, or has told
\* the handle that it is not active.
LEMMA ClosingEnds ==
  ASSUME IInv, "free" \notin Faults, NEW t \in Threads, Step(t),
         NEW h \in Handles, Closing(h)
  PROVE  Closing(h)' \/ ~conn'[h].active
<1>t. TypeOK /\ CallShape
  BY DEF IInv
<1> PICK u \in Threads : call[u].step \in {"free_dbc", "free_env"} /\ call[u].h = h
  BY DEF Closing
<1>1. CASE u # t
  <2>1. call'[u] = call[u]
    BY <1>1, <1>t, FrameStep
  <2> QED
    BY <2>1 DEF Closing
<1>2. CASE u = t
  <2>i. call[t].step # "idle" /\ ~SettingDefaults(t) /\ call[t].step \notin ConnectSteps
    BY <1>2 DEF SettingDefaults, ConnectSteps
  <2>1. CASE CloseDbc(t)
    <3>1. call' = [call EXCEPT ![t].step = "free_env"]
      BY <2>1 DEF CloseDbc, GoOn
    <3>2. call'[t].step = "free_env" /\ call'[t].h = h
      BY <1>2, <3>1, <1>t DEF TypeOK, Calls
    <3> QED
      BY <3>2 DEF Closing
  <2>2. CASE CloseEnv(t)
    BY <1>2, <2>2, <1>t DEF CloseEnv, TypeOK, ConnHandles
  <2>3. call[t] # Idle
    BY <2>i, ValueTypes
  <2>4. FieldStep(t) \/ SilentStep(t)
    BY <2>i, <1>t, Busy, FailsConnect
  <2>5. FieldStep(t) => CloseEnv(t)
    BY <1>2, <2>i, <2>3 DEF FieldStep, StartReuse, Entry, Defaults, OptionAutocommit,
                            OptionsInvalid, Finish, Assign
  <2>6. SilentStep(t) => CloseDbc(t)
    BY <1>2, <2>i, <2>3 DEF SilentStep, AttributeStep, Reset, Option, Switch, Connect,
                            CloseDisconnect, Commit, Rollback, SetAutocommit,
                            CloseRollback, Pass, Active, Has
  <2> QED
    BY <2>1, <2>2, <2>4, <2>5, <2>6
<1> QED
  BY <1>1, <1>2

LEMMA FreedStep ==
  ASSUME LinkInv, NEW t \in Threads, Step(t)
  PROVE  FreedOK'
<1>t. IInv /\ TypeOK /\ CallShape /\ FreshOK /\ FreedOK /\ ConnectingOK
  BY DEF LinkInv, IInv
<1>1. ASSUME NEW h \in Handles, ~Live(h)'
      PROVE  conn'[h].dbc = NoDbc
  <2>1. CASE \E c \in Creds, p \in BOOLEAN : StartNew(t, c, p)
    BY <1>1, <2>1, <1>t, NewEffect DEF Live, FreedOK
  <2>2. CASE \E c \in Creds : StartReconnect(t, c)
    <3> PICK g \in Handles :
          /\ Live(g) /\ conn'[g].mem = conn[g].mem
          /\ \A f \in Handles \ {g} : conn'[f] = conn[f]
      BY <2>2, <1>t, RenewEffect DEF Entry
    <3>1. h # g /\ conn'[h] = conn[h]
      BY <1>1 DEF Live
    <3> QED
      BY <3>1, <1>1, <1>t DEF Live, FreedOK
  <2>3. CASE FieldStep(t) \/ UNCHANGED conn
    BY <1>1, <2>3, <1>t, FieldStepFields DEF Fields, Live, FreedOK
  <2>4. CASE DeathStep(t)
    <3>1. \/ UNCHANGED conn
          \/ \E g \in Handles : conn' = [conn EXCEPT ![g] = NoConn("deleted")]
      BY <2>4, <1>t, DeathFields
    <3> QED
      BY <1>1, <3>1, <1>t DEF TypeOK, NoConn, Live, FreedOK
  <2> QED
    BY <2>1, <2>2, <2>3, <2>4, SilentFields DEF Step, KeptStep, Exec
<1>2. ASSUME NEW h \in Handles, Live(h)', "free" \notin Faults, conn'[h].active,
             ~Closing(h)', DbcOf(h)'.st \in {"closed", "freed"}
      PROVE  FALSE
  <2>1. Live(h)
    BY <1>2, <1>t, KeepsFields
  <2>2. DbcOf(h).st \in {"closed", "freed"}
    BY <1>2, <2>1, ClosedBy DEF Closes, Closing
  <2>3. CASE conn[h].active
    BY <1>2, <2>1, <2>2, <2>3, <1>t, ClosingEnds DEF FreedOK
  <2>4. CASE ~conn[h].active
    <3>1. Finish(t) /\ h = call[t].h
      BY <1>2, <2>4, <1>t, ActiveBy
    <3>2. Connecting(t)
      BY <3>1 DEF Finish, Connecting, ConnectSteps
    <3> QED
      BY <2>2, <3>1, <3>2, <1>t DEF ConnectingOK
  <2> QED
    BY <2>3, <2>4
<1> QED
  BY <1>1, <1>2 DEF FreedOK, Live, DbcOf

\* LinkInv is inductive.
LEMMA LinkStep ==
  ASSUME LinkInv, [Next]_vars
  PROVE  LinkInv'
<1>i. IInv'
  BY InvariantStep DEF LinkInv
<1>1. ASSUME NEW t \in Threads, Step(t)
      PROVE  LinkInv'
  BY <1>1, <1>i, OwnerStep, ConnectingStep, PersistentStep, FreedStep DEF LinkInv
<1>2. ASSUME NEW d \in Dbcs, ServerDies(d)
      PROVE  LinkInv'
  <2>1. UNCHANGED <<pool, conn, call, holds>>
    BY <1>2 DEF ServerDies
  <2>2. \A e \in Dbcs : dbc'[e].st = dbc[e].st \/ dbc'[e].st = "dead"
    BY <1>2 DEF ServerDies, LinkInv, IInv, TypeOK, DbcHandles
  <2>3. \A h \in Handles : Live(h) =>
          /\ DbcOf(h)'.st = DbcOf(h).st \/ DbcOf(h)'.st = "dead"
    BY <2>1, <2>2 DEF LinkInv, IInv, TypeOK, DbcOf, Live
  <2>4. \A t \in Threads : Connecting(t) => call[t].h \in Handles
    BY DEF LinkInv, IInv, CallShape, Connecting, ConnectSteps
  <2>5. ConnectingOK'
    BY <2>1, <2>3, <2>4 DEF LinkInv, ConnectingOK, Connecting, NewTo, InPool, InPoolOf,
                            Live, DbcOf
  <2>6. FreedOK'
    BY <2>1, <2>3 DEF LinkInv, FreedOK, Closing, Live, DbcOf
  <2>7. OwnerOK' /\ PersistentOK'
    BY <2>1 DEF LinkInv, OwnerOK, PersistentOK, Mine, InPoolOf, Connecting, InPool, Live
  <2> QED
    BY <1>i, <2>5, <2>6, <2>7 DEF LinkInv
<1>3. ASSUME UNCHANGED vars
      PROVE  LinkInv'
  BY <1>3, <1>i DEF vars, LinkInv, OwnerOK, PersistentOK, ConnectingOK, FreedOK, Mine,
                    InPoolOf, Connecting, InPool, Live, DbcOf, NewTo, Closing
<1> QED
  BY <1>1, <1>2, <1>3, NextCases

LEMMA Links == Spec => []LinkInv
<1>1. LinkInv /\ [Next]_vars => LinkInv'
  BY LinkStep
<1> QED
  BY <1>1, InitLink, PTL DEF Spec

\* As long as SQLFreeHandle does not fail, an active handle's DBC is allocated
\* and no other handle's, unless a close of it is between SQLDisconnect and its
\* last step: whatever else fails, and also when calls on a handle overlap.
THEOREM ActiveHandlesHaveDbc ==
  ASSUME "free" \notin Faults
  PROVE  Spec => []ActiveHasDbc
<1>1. LinkInv => ActiveHasDbc
  <2> SUFFICES ASSUME LinkInv, NEW h \in Handles, Live(h), conn[h].active, ~Closing(h)
               PROVE  /\ DbcOf(h).st \in {"alloc", "conn", "dead"}
                      /\ \A g \in Handles \ {h} : Live(g) => conn[g].dbc # conn[h].dbc
    BY DEF ActiveHasDbc
  <2>1. DbcOf(h).st \notin {"closed", "freed", "unused"}
    BY DEF LinkInv, IInv, DbcOK, FreedOK
  <2>2. DbcOf(h) \in DbcHandles
    BY DEF LinkInv, IInv, TypeOK, Live, DbcOf
  <2> QED
    BY <2>1, <2>2 DEF DbcHandles, LinkInv, IInv, DbcOK
<1> QED
  BY <1>1, Links, PTL

-----------------------------------------------------------------------------
(* Field and driver *)

\* Thread t's step works on handle h.
ActsOn(t, h) ==
  \/ call[t].step # "idle" /\ call[t].h = h
  \/ \E c \in Creds : (StartReuse(t, c) \/ StartReconnect(t, c)) /\ Entry(t, c, h)
  \/ Exec(t, h) \/ Commit(t, h) \/ Rollback(t, h) \/ CloseRollback(t, h)

\* The structure and the DBC of a handle that lives on are as they were.
Untouched(h) == conn'[h] = conn[h] /\ dbc'[conn[h].dbc] = dbc[conn[h].dbc]

\* A step in a call changes the structure of its handle only, and its DBC.
OnlyOn(g) ==
  /\ \A h \in Handles \ {g} : conn'[h] = conn[h]
  /\ UNCHANGED dbc \/ \E v : dbc' = [dbc EXCEPT ![conn[g].dbc] = v]

LEMMA BusyEffect ==
  ASSUME TypeOK, CallShape, NEW t \in Threads, Step(t), call[t].step # "idle"
  PROVE  OnlyOn(call[t].h)
<1> DEFINE g == call[t].h
<1>i. call[t] # Idle /\ g \in Handles
  BY ValueTypes DEF CallShape
<1>b. FieldStep(t) \/ SilentStep(t) \/ Fails(t)
  BY Busy
<1>1. CASE FieldStep(t)
  <2>1. ~\E c \in Creds : StartReuse(t, c)
    BY <1>i DEF StartReuse, Entry
  <2>2. UNCHANGED dbc
    BY <1>1, <2>1 DEF FieldStep, Defaults, OptionAutocommit, OptionsInvalid, Finish,
                      Assign, CloseEnv
  <2>3. UNCHANGED conn \/ \E v : conn' = [conn EXCEPT ![g] = v]
    <3>1. CASE Defaults(t) \/ OptionsInvalid(t)
      BY <3>1 DEF Defaults, OptionsInvalid
    <3>2. CASE Finish(t) \/ Assign(t) \/ CloseEnv(t)
      BY <3>2 DEF Finish, Assign, CloseEnv
    <3>3. CASE \E on \in BOOLEAN : OptionAutocommit(t, on)
      BY <3>3 DEF OptionAutocommit
    <3> QED
      BY <1>1, <2>1, <3>1, <3>2, <3>3 DEF FieldStep
  <2> QED
    BY <2>2, <2>3 DEF OnlyOn, TypeOK
<1>2. CASE SilentStep(t)
  <2>1. UNCHANGED dbc \/ \E v : dbc' = [dbc EXCEPT ![conn[g].dbc] = v]
    BY <1>2, <1>i DEF SilentStep, AttributeStep, Reset, Option, Switch, AutocommitAttr,
         Connect, CloseDisconnect, CloseDbc, Commit, Rollback, SetAutocommit,
         CloseRollback, Pass, Active, Has
  <2> QED
    BY <1>2, <2>1, SilentFields DEF OnlyOn
<1>3. CASE Fails(t)
  BY <1>3, FailsConnect DEF FailConnect, OnlyOn, TypeOK
<1> QED
  BY <1>b, <1>1, <1>2, <1>3

LEMMA UntouchedBy ==
  ASSUME LinkInv, NEW t \in Threads, Step(t), NEW h \in Handles, Live(h), Live(h)',
         ~ActsOn(t, h)
  PROVE  Untouched(h)
<1>t. TypeOK /\ CallShape /\ DbcOK
  BY DEF LinkInv, IInv
<1>d. conn[h].dbc \in Dbcs /\ DbcOf(h).st # "unused"
  BY <1>t DEF TypeOK, Live, DbcOK
<1>1. ASSUME NEW g \in Handles, g # h, OnlyOn(g)
      PROVE  Untouched(h)
  <2>1. UNCHANGED dbc \/ dbc'[conn[h].dbc] = dbc[conn[h].dbc]
    BY <1>1, Elsewhere DEF OnlyOn
  <2> QED
    BY <1>1, <2>1 DEF OnlyOn, Untouched
<1>2. CASE call[t].step # "idle"
  <2>1. call[t].h \in Handles /\ call[t].h # h
    BY <1>2, <1>t DEF CallShape, ActsOn
  <2> QED
    BY <1>1, <1>2, <2>1, <1>t, BusyEffect
<1>3. CASE \/ \E c \in Creds, p \in BOOLEAN : StartNew(t, c, p)
           \/ \E c \in Creds : StartReconnect(t, c)
  <2> PICK g \in Handles, d \in Dbcs :
         /\ conn[g].mem = "unused" \/ \E c \in Creds : StartReconnect(t, c) /\ Entry(t, c, g)
         /\ Allocated(d)
         /\ \A f \in Handles \ {g} : conn'[f] = conn[f]
    BY <1>3, <1>t, NewEffect, RenewEffect
  <2>1. g # h
    BY DEF Live, ActsOn
  <2> QED
    BY <2>1, <1>d DEF Untouched, Allocated, DbcOf
<1>4. CASE \E c \in Creds : StartReuse(t, c)
  <2> PICK g \in Handles :
         /\ \E c \in Creds : StartReuse(t, c) /\ Entry(t, c, g)
         /\ UNCHANGED dbc
         /\ \A f \in Handles \ {g} : conn'[f] = conn[f]
    BY <1>4, <1>t, ReuseEffect
  <2>1. g # h
    BY DEF ActsOn
  <2> QED
    BY <2>1 DEF Untouched
<1>5. CASE \E c \in Creds : StartFails(t, c)
  BY <1>5, <1>t DEF StartFails, TypeOK, Live, NoConn, Untouched
<1>6. CASE \E g \in Handles : Drop(t, g)
  <2> PICK g \in Handles : Drop(t, g)
    BY <1>6
  <2>1. CASE UNCHANGED <<conn, dbc>>
    BY <2>1 DEF Untouched
  <2>2. CASE ~UNCHANGED <<conn, dbc>>
    <3>1. conn' = [conn EXCEPT ![g] = NoConn("deleted")] /\ OnlyOn(g)
      BY <2>2, <1>t DEF Drop, OnlyOn, TypeOK
    <3>2. g # h
      BY <3>1, <1>t DEF TypeOK, Live, NoConn
    <3> QED
      BY <3>1, <3>2, <1>1
  <2> QED
    BY <2>1, <2>2
<1>7. ASSUME NEW g \in Handles,
             Exec(t, g) \/ Commit(t, g) \/ Rollback(t, g) \/ CloseRollback(t, g)
      PROVE  Untouched(h)
  <2>1. g # h
    BY <1>7 DEF ActsOn
  <2>2. OnlyOn(g)
    BY <1>7 DEF Exec, Commit, Rollback, CloseRollback, OnlyOn
  <2> QED
    BY <2>1, <2>2, <1>1
<1>8. ASSUME NEW g \in Handles,
             \/ \E on \in BOOLEAN : SetAutocommit(t, g, on)
             \/ \E u \in Threads \ {t} : Pass(t, u, g)
      PROVE  Untouched(h)
  BY <1>8 DEF SetAutocommit, Pass, Untouched
<1>9. call[t].step = "idle" =>
        /\ ~Fails(t) /\ ~AttributeStep(t)
        /\ ~Defaults(t) /\ ~\E on \in BOOLEAN : OptionAutocommit(t, on)
        /\ ~OptionsInvalid(t) /\ ~Finish(t) /\ ~Assign(t) /\ ~CloseEnv(t)
        /\ ~Connect(t) /\ ~CloseDisconnect(t) /\ ~CloseDbc(t)
  BY FailsConnect DEF ConnectSteps, AttributeStep, Reset, Option, Switch, Defaults,
       OptionAutocommit, OptionsInvalid, Finish, Assign, CloseEnv, Connect,
       CloseDisconnect, CloseDbc, SettingDefaults
<1> QED
  BY <1>2, <1>3, <1>4, <1>5, <1>6, <1>7, <1>8, <1>9
     DEF Step, KeptStep, FieldStep, SilentStep, DeathStep

\* With calls on a handle one at a time, a step leaves the handles of the other
\* calls alone.
LEMMA OthersUntouched ==
  ASSUME LinkInv, ExclusiveOK, ~Overlap, NEW t \in Threads, Step(t),
         NEW u \in Threads \ {t}, call[u].step # "idle", Live(call[u].h)'
  PROVE  Live(call[u].h) /\ Untouched(call[u].h)
<1> PICK h \in Handles : h = call[u].h
  BY DEF LinkInv, IInv, CallShape
<1>u. call'[u] = call[u]
  BY FrameStep DEF LinkInv, IInv
<1>1. Live(h)'
  BY <1>u DEF Live
<1>2. conn[h].mem # "unused"
  BY DEF LinkInv, IInv, FreshOK, Reach
<1>3. Live(h)
  BY <1>1, <1>2, KeepsFields DEF LinkInv
<1>4. ~ActsOn(t, h)
  BY DEF ActsOn, ExclusiveOK, Entry, NotBusy, Exec, Commit, Rollback, CloseRollback,
         Active
<1> QED
  BY <1>1, <1>3, <1>4, UntouchedBy

LEMMA ExclusiveStep ==
  ASSUME LinkInv, ExclusiveOK, ~Overlap, NEW t \in Threads, Step(t)
  PROVE  ExclusiveOK'
<1>t. IInv /\ TypeOK /\ CallShape /\ FreshOK
  BY DEF LinkInv, IInv
<1>1. \A u \in Threads \ {t} : call'[u] = call[u]
  BY <1>t, FrameStep
<1>2. ASSUME NEW u \in Threads \ {t}, call'[t].step # "idle" \/ call'[u].step # "idle"
      PROVE  call'[t].h # call'[u].h
  <2>1. CASE Starts(t)
    <3> PICK h \in Handles :
          /\ call'[t].h = h
          /\ \/ conn[h].mem = "unused"
             \/ \E c \in Creds : Entry(t, c, h)
             \/ h \in holds[t] /\ ~AtReset(t, h)
                /\ call'[t].step \in AutocommitSteps \cup CloseSteps
      <4>1. "reset" \notin AutocommitSteps \cup CloseSteps
        BY DEF AutocommitSteps, CloseSteps
      <4> QED
        BY <2>1, <4>1, <1>t, BeginsOn DEF AtReset
    <3>1. CASE conn[h].mem = "unused"
      <4>1. h \notin Reach(u)
        BY <3>1, <1>t DEF FreshOK
      <4> QED
        BY <4>1, <1>1 DEF Reach
    <3>2. CASE \E c \in Creds : Entry(t, c, h)
      BY <3>2, <1>1 DEF Entry, NotBusy
    <3>3. CASE call'[t].step \in AutocommitSteps \cup CloseSteps
      <4>1. \/ \E g \in Handles, on \in BOOLEAN : SetAutocommit(t, g, on)
            \/ \E g \in Handles : CloseRollback(t, g)
        <5>1. call[t].step = "idle" /\ call'[t].step # "idle" /\ ~AtReset(t, h)
          BY <2>1, <3>3, ValueTypes DEF Starts, AtReset, AutocommitSteps, CloseSteps
        <5>2. CASE call' = call \/ End(t)
          BY <5>1, <5>2, <1>t, ValueTypes DEF End, TypeOK
        <5>3. ~SettingDefaults(t)
          BY <5>1 DEF SettingDefaults
        <5>4. CASE \/ \E c \in Creds, p \in BOOLEAN : StartNew(t, c, p)
                   \/ \E c \in Creds : StartReconnect(t, c) \/ StartReuse(t, c)
          BY <5>1, <5>4, <1>t, NewEffect, RenewEffect, ReuseEffect DEF AtReset
        <5> QED
          BY <5>1, <5>2, <5>3, <5>4, FailsConnect
             DEF Step, KeptStep, FieldStep, SilentStep, DeathStep, AttributeStep, Reset,
                 Option, Switch, FailConnect, StartFails, Defaults, OptionAutocommit,
                 OptionsInvalid, Finish, Assign, CloseEnv, Connect, CloseDisconnect,
                 CloseDbc, Exec, Commit, Rollback, Drop, Pass
      <4> PICK g \in Handles :
             \/ \E on \in BOOLEAN : SetAutocommit(t, g, on)
             \/ CloseRollback(t, g)
        BY <4>1
      <4>2. NotBusy(g)
        BY DEF SetAutocommit, CloseRollback, Active
      <4>3. \/ call'[t] = Begun("disconnect", g, NoCred, FALSE)
            \/ \E on \in BOOLEAN :
                 call'[t] = [Begun("switch", g, NoCred, FALSE) EXCEPT !.on = on]
        BY <1>t DEF SetAutocommit, CloseRollback, TypeOK
      <4>4. call'[t].h = g
        BY <4>3 DEF Begun, Idle
      <4> QED
        BY <4>2, <4>4, <1>1 DEF NotBusy
    <3> QED
      BY <3>1, <3>2, <3>3
  <2>2. CASE ~Starts(t) /\ call'[t] # Idle
    <3>1. call'[t].h = call[t].h /\ (call[t].step # "idle" \/ call'[t] = call[t])
      BY <2>2, <1>t, CallCases, Kinds DEF Same, Kind
    <3> QED
      BY <3>1, <1>1, <1>2 DEF ExclusiveOK
  <2>3. CASE call'[t] = Idle
    BY <2>3, <1>1, <1>2, <1>t, ValueTypes, ConstantsAssumption DEF CallShape
  <2> QED
    BY <2>1, <2>2, <2>3
<1> QED
  BY <1>1, <1>2 DEF ExclusiveOK

LEMMA GoOnFields ==
  ASSUME TypeOK, NEW t \in Threads, NEW s, GoOn(t, s)
  PROVE  /\ call'[t].step = s /\ call'[t].h = call[t].h
         /\ call'[t].reused = call[t].reused /\ call'[t].on = call[t].on
         /\ \A u \in Threads \ {t} : call'[u] = call[u]
BY DEF GoOn, TypeOK, Calls

LEMMA AttrFields ==
  ASSUME TypeOK, "attr" \notin Faults, NEW t \in Threads, NEW h \in Handles,
         NEW on \in BOOLEAN, NEW accepted, AutocommitAttr(t, h, on, accepted)
  PROVE  /\ Live(h) /\ UNCHANGED conn
         /\ accepted => /\ DbcOf(h)'.auto = on
                        /\ DbcOf(h)'.st = DbcOf(h).st
         /\ ~accepted => /\ DbcOf(h)' = DbcOf(h)
                         /\ DbcOf(h).st \in {"dead", "freed"}
<1>1. Live(h) /\ UNCHANGED conn /\ conn[h].dbc \in Dbcs
  BY DEF AutocommitAttr, Live, TypeOK
<1>2. ASSUME accepted
      PROVE  DbcOf(h)'.auto = on /\ DbcOf(h)'.st = DbcOf(h).st
  <2> DEFINE v == WithAutocommit(DbcOf(h), on)
  <2>1. v.auto = on /\ v.st = DbcOf(h).st
    BY DEF WithAutocommit
  <2>2. DbcOf(h)' = v
    BY <1>1, <1>2 DEF AutocommitAttr, DbcOf, TypeOK
  <2> HIDE DEF v
  <2> QED
    BY <2>1, <2>2
<1>3. ASSUME ~accepted
      PROVE  DbcOf(h)' = DbcOf(h) /\ DbcOf(h).st \in {"dead", "freed"}
  BY <1>1, <1>3 DEF AutocommitAttr, DbcOf
<1> QED
  BY <1>1, <1>2, <1>3

\* What NewDbcOK and SettingOK say of one thread, AgreeOK of one handle.
Fits(u) ==
  LET h == call[u].h IN
  /\ call[u].step = "connect" => ~call[u].reused
  /\ Connecting(u) /\ call[u].step # "finish" /\ ~call[u].reused =>
       DbcOf(h).st = "alloc"
  /\ call[u].step = "reset" => conn[h].auto
  /\ call[u].step = "option" => conn[h].auto = call[u].on
  /\ call[u].step = "assign" /\ Connectable(h) => DbcOf(h).auto = call[u].on
  /\ call[u].step = "refused" => ~Connectable(h)
Agree(h) == Connectable(h) => conn[h].auto = DbcOf(h).auto \/ Setting(h)

LEMMA AutoParts ==
  AutoInv <=> /\ LinkInv /\ ExclusiveOK
              /\ \A u \in Threads : Fits(u)
              /\ \A h \in Handles : Agree(h)
BY DEF AutoInv, NewDbcOK, SettingOK, AgreeOK, Fits, Agree

\* Nobody but thread t is in a call on the handle of t's call.
LEMMA AloneOn ==
  ASSUME AutoInv, ~Overlap, NEW t \in Threads, call[t].step # "idle",
         NEW h \in Handles, h = call[t].h
  PROVE  /\ Setting(h) => call[t].step \in {"reset", "option", "assign"}
         /\ ~Connectable(h) \/ Setting(h) \/ conn[h].auto = DbcOf(h).auto
         /\ TypeOK /\ CallShape /\ Fits(t) /\ LinkInv
         /\ Connecting(t) => Live(h) /\ DbcOf(h).st \notin {"closed", "freed"}
         /\ conn[h].mem # "unused"
<1>1. LinkInv /\ ExclusiveOK /\ Fits(t) /\ Agree(h)
  BY AutoParts
<1>2. Setting(h) => call[t].step \in {"reset", "option", "assign"}
  BY <1>1 DEF ExclusiveOK, Setting
<1>3. conn[h].mem # "unused"
  BY <1>1 DEF LinkInv, IInv, FreshOK, Reach
<1> QED
  BY <1>1, <1>2, <1>3 DEF Agree, LinkInv, IInv, ConnectingOK

LEMMA ResetAgrees ==
  ASSUME AutoInv, ~Overlap, "attr" \notin Faults, NEW t \in Threads,
         NEW accepted \in BOOLEAN, Reset(t, accepted), NEW h \in Handles, h = call[t].h
  PROVE  Fits(t)' /\ Agree(h)'
<1>1. /\ call[t].step = "reset" /\ Connecting(t)
      /\ AutocommitAttr(t, h, TRUE, accepted)
      /\ GoOn(t, IF accepted THEN "defaults" ELSE "refused")
  BY DEF Reset, Connecting, ConnectSteps
<1>t. TypeOK /\ Fits(t)
  BY <1>1, AloneOn
<1>2. /\ call'[t].step = IF accepted THEN "defaults" ELSE "refused"
      /\ call'[t].h = h /\ call'[t].reused = call[t].reused
  BY <1>1, <1>t, GoOnFields
<1>3. /\ Live(h) /\ UNCHANGED conn
      /\ accepted => DbcOf(h)'.auto = TRUE /\ DbcOf(h)'.st = DbcOf(h).st
      /\ ~accepted => /\ DbcOf(h)' = DbcOf(h)
                      /\ DbcOf(h).st \in {"dead", "freed"}
  BY <1>1, <1>t, AttrFields
<1>4. /\ conn[h].auto
      /\ ~call[t].reused => DbcOf(h).st = "alloc"
  BY <1>1, <1>t DEF Fits
<1>5. accepted => Agree(h)' /\ DbcOf(h)'.st = DbcOf(h).st
  BY <1>3, <1>4, <1>t DEF Agree, Connectable, Live, TypeOK, ConnHandles
<1>6. ~accepted => ~Connectable(h)' /\ DbcOf(h)'.st = DbcOf(h).st
  BY <1>3 DEF Connectable
<1>7. Agree(h)' /\ DbcOf(h)'.st = DbcOf(h).st
  BY <1>5, <1>6 DEF Agree
<1>8. Fits(t)'
  BY <1>2, <1>4, <1>6, <1>7 DEF Fits, DbcOf, Connectable, Live
<1> QED
  BY <1>7, <1>8

LEMMA OptionAgrees ==
  ASSUME AutoInv, ~Overlap, "attr" \notin Faults, NEW t \in Threads,
         NEW accepted \in BOOLEAN, Option(t, accepted), NEW h \in Handles, h = call[t].h
  PROVE  Fits(t)' /\ Agree(h)'
<1>1. /\ call[t].step = "option" /\ Connecting(t) /\ call[t].step # "idle"
      /\ AutocommitAttr(t, h, call[t].on, accepted)
      /\ call' = [call EXCEPT ![t] = [@ EXCEPT !.step = AfterOptions(t), !.on = FALSE]]
  BY DEF Option, Connecting, ConnectSteps
<1>t. TypeOK /\ Fits(t) /\ call[t].on \in BOOLEAN
  BY <1>1, AloneOn DEF TypeOK, Calls
<1>2. /\ call'[t].step = AfterOptions(t)
      /\ call'[t].h = h /\ call'[t].reused = call[t].reused
  <2> DEFINE v == [call[t] EXCEPT !.step = AfterOptions(t), !.on = FALSE]
  <2>1. v.step = AfterOptions(t) /\ v.h = h /\ v.reused = call[t].reused
    BY <1>t DEF TypeOK, Calls
  <2>2. call'[t] = v
    BY <1>1, <1>t DEF TypeOK
  <2> HIDE DEF v
  <2> QED
    BY <2>1, <2>2
<1>3. /\ Live(h) /\ UNCHANGED conn
      /\ accepted => DbcOf(h)'.auto = call[t].on /\ DbcOf(h)'.st = DbcOf(h).st
      /\ ~accepted => /\ DbcOf(h)' = DbcOf(h)
                      /\ DbcOf(h).st \in {"dead", "freed"}
  BY <1>1, <1>t, AttrFields
<1>4. /\ conn[h].auto = call[t].on
      /\ ~call[t].reused => DbcOf(h).st = "alloc"
  BY <1>1, <1>t DEF Fits
<1>5. DbcOf(h)'.st = DbcOf(h).st /\ Agree(h)'
  BY <1>3, <1>4 DEF Agree, Connectable
<1>6. Fits(t)'
  BY <1>2, <1>4, <1>5 DEF Fits, DbcOf, AfterOptions
<1> QED
  BY <1>5, <1>6

LEMMA SwitchAgrees ==
  ASSUME AutoInv, ~Overlap, "attr" \notin Faults, NEW t \in Threads,
         NEW accepted \in BOOLEAN, Switch(t, accepted), NEW h \in Handles, h = call[t].h
  PROVE  Fits(t)' /\ Agree(h)'
<1>1. /\ call[t].step = "switch" /\ call[t].step # "idle"
      /\ AutocommitAttr(t, h, call[t].on, accepted) /\ GoOn(t, "assign")
  BY DEF Switch
<1>t. TypeOK /\ call[t].on \in BOOLEAN
  BY <1>1, AloneOn DEF TypeOK, Calls
<1>2. /\ call'[t].step = "assign" /\ call'[t].h = h /\ call'[t].on = call[t].on
  BY <1>1, <1>t, GoOnFields
<1>3. /\ Live(h) /\ UNCHANGED conn
      /\ accepted => DbcOf(h)'.auto = call[t].on /\ DbcOf(h)'.st = DbcOf(h).st
      /\ ~accepted => /\ DbcOf(h)' = DbcOf(h)
                      /\ DbcOf(h).st \in {"dead", "freed"}
  BY <1>1, <1>t, AttrFields
<1>4. Connectable(h)' => DbcOf(h)'.auto = call[t].on
  BY <1>3 DEF Connectable
<1>5. Fits(t)'
  BY <1>2, <1>4 DEF Fits, DbcOf, Connecting, ConnectSteps, Connectable, Live
<1>6. Setting(h)'
  BY <1>2 DEF Setting
<1> QED
  BY <1>5, <1>6 DEF Agree

LEMMA IdleFits ==
  ASSUME NEW t \in Threads, call'[t].step \notin ConnectSteps \cup {"assign"}
  PROVE  Fits(t)'
BY DEF Fits, Connecting, ConnectSteps

LEMMA EndFits ==
  ASSUME TypeOK, NEW t \in Threads, End(t)
  PROVE  Fits(t)' /\ call'[t] = Idle
<1>1. call'[t] = Idle
  BY DEF End, TypeOK
<1>2. call'[t].step \notin ConnectSteps \cup {"assign"}
  BY <1>1, ValueTypes DEF ConnectSteps
<1> QED
  BY <1>1, <1>2, IdleFits

\* The steps of connect_helper and close that leave auto_commit alone.
LEMMA FieldsAgree ==
  ASSUME AutoInv, ~Overlap, NEW t \in Threads, NEW h \in Handles, h = call[t].h,
         \/ Defaults(t) \/ OptionsInvalid(t) \/ Finish(t) \/ CloseEnv(t)
  PROVE  Fits(t)' /\ Agree(h)'
<1>1. /\ call[t].step \in {"defaults", "refused", "finish", "free_env"}
      /\ call[t].step # "idle" /\ UNCHANGED dbc
      /\ \/ UNCHANGED conn
         \/ \E active \in BOOLEAN : conn' = [conn EXCEPT ![h].active = active]
  BY DEF Defaults, OptionsInvalid, SettingDefaults, Finish, CloseEnv
<1>t. TypeOK /\ CallShape /\ Fits(t)
  BY <1>1, AloneOn
<1>2. /\ conn'[h].auto = conn[h].auto /\ conn'[h].mem = conn[h].mem
      /\ conn'[h].dbc = conn[h].dbc
  <2>1. ASSUME NEW active \in BOOLEAN, conn' = [conn EXCEPT ![h].active = active]
        PROVE  /\ conn'[h].auto = conn[h].auto /\ conn'[h].mem = conn[h].mem
               /\ conn'[h].dbc = conn[h].dbc
    BY <2>1, <1>t DEF TypeOK, ConnHandles
  <2> QED
    BY <1>1, <2>1
<1>3. DbcOf(h)' = DbcOf(h) /\ (Connectable(h)' <=> Connectable(h))
  BY <1>1, <1>2 DEF DbcOf, Connectable, Live
<1>4. Agree(h)'
  BY <1>1, <1>2, <1>3, AloneOn DEF Agree
<1>5. CASE Defaults(t)
  <2>1. /\ call[t].step \in {"defaults", "refused"} /\ GoOn(t, AfterOptions(t))
        /\ Connecting(t)
    BY <1>5 DEF Defaults, SettingDefaults, Connecting, ConnectSteps
  <2>2. /\ call'[t].step = AfterOptions(t) /\ call'[t].h = h
        /\ call'[t].reused = call[t].reused
    BY <2>1, <1>t, GoOnFields
  <2>3. ~call[t].reused => DbcOf(h)'.st = "alloc"
    BY <2>1, <1>3, <1>t DEF Fits
  <2> QED
    BY <1>4, <2>2, <2>3 DEF Fits, AfterOptions, DbcOf
<1>6. CASE OptionsInvalid(t) \/ Finish(t) \/ CloseEnv(t)
  <2>1. End(t)
    BY <1>6 DEF OptionsInvalid, Finish, CloseEnv
  <2> QED
    BY <2>1, <1>4, <1>t, EndFits
<1> QED
  BY <1>5, <1>6

LEMMA OptionAutocommitAgrees ==
  ASSUME AutoInv, ~Overlap, NEW t \in Threads, NEW on \in BOOLEAN,
         OptionAutocommit(t, on), NEW h \in Handles, h = call[t].h
  PROVE  Fits(t)' /\ Agree(h)'
<1>1. /\ call[t].step \in {"defaults", "refused"} /\ call[t].step # "idle"
      /\ Connecting(t) /\ UNCHANGED dbc
      /\ conn' = [conn EXCEPT ![h] = [@ EXCEPT !.active = FALSE, !.auto = on]]
      /\ call' = [call EXCEPT ![t] = [@ EXCEPT !.step = "option", !.on = on]]
  BY DEF OptionAutocommit, SettingDefaults, Connecting, ConnectSteps
<1>t. TypeOK /\ Fits(t)
  BY <1>1, AloneOn
<1>2. /\ call'[t].step = "option" /\ call'[t].h = h /\ call'[t].on = on
      /\ call'[t].reused = call[t].reused
  <2> DEFINE v == [call[t] EXCEPT !.step = "option", !.on = on]
  <2>1. v.step = "option" /\ v.h = h /\ v.on = on /\ v.reused = call[t].reused
    BY <1>t DEF TypeOK, Calls
  <2>2. call'[t] = v
    BY <1>1, <1>t DEF TypeOK
  <2> HIDE DEF v
  <2> QED
    BY <2>1, <2>2
<1>3. conn'[h].auto = on /\ conn'[h].dbc = conn[h].dbc
  <2> DEFINE v == [conn[h] EXCEPT !.active = FALSE, !.auto = on]
  <2>1. v.auto = on /\ v.dbc = conn[h].dbc
    BY <1>t DEF TypeOK, ConnHandles
  <2>2. conn'[h] = v
    BY <1>1, <1>t DEF TypeOK
  <2> HIDE DEF v
  <2> QED
    BY <2>1, <2>2
<1>4. ~call[t].reused => DbcOf(h)'.st = "alloc"
  BY <1>1, <1>3, <1>t DEF Fits, DbcOf
<1>5. Fits(t)'
  BY <1>2, <1>3, <1>4 DEF Fits, DbcOf
<1>6. Setting(h)'
  BY <1>2 DEF Setting
<1> QED
  BY <1>5, <1>6 DEF Agree

LEMMA AssignAgrees ==
  ASSUME AutoInv, ~Overlap, NEW t \in Threads, Assign(t),
         NEW h \in Handles, h = call[t].h
  PROVE  Fits(t)' /\ Agree(h)'
<1>1. /\ call[t].step = "assign" /\ call[t].step # "idle"
      /\ conn' = [conn EXCEPT ![h].auto = call[t].on] /\ UNCHANGED dbc /\ End(t)
  BY DEF Assign
<1>t. TypeOK /\ Fits(t) /\ call[t].on \in BOOLEAN
  BY <1>1, AloneOn DEF TypeOK, Calls
<1>2. /\ conn'[h].auto = call[t].on /\ conn'[h].mem = conn[h].mem
      /\ conn'[h].dbc = conn[h].dbc
  <2> DEFINE v == [conn[h] EXCEPT !.auto = call[t].on]
  <2>1. v.auto = call[t].on /\ v.mem = conn[h].mem /\ v.dbc = conn[h].dbc
    BY <1>t DEF TypeOK, ConnHandles
  <2>2. conn'[h] = v
    BY <1>1, <1>t DEF TypeOK
  <2> HIDE DEF v
  <2> QED
    BY <2>1, <2>2
<1>3. DbcOf(h)' = DbcOf(h) /\ (Connectable(h)' <=> Connectable(h))
  BY <1>1, <1>2 DEF DbcOf, Connectable, Live
<1>4. Connectable(h) => DbcOf(h).auto = call[t].on
  BY <1>1, <1>t DEF Fits
<1> QED
  BY <1>1, <1>2, <1>3, <1>4, <1>t, EndFits DEF Agree

LEMMA ConnectAgrees ==
  ASSUME AutoInv, ~Overlap, NEW t \in Threads, Connect(t),
         NEW h \in Handles, h = call[t].h
  PROVE  Fits(t)' /\ Agree(h)'
<1>1. /\ call[t].step = "connect" /\ call[t].step # "idle" /\ Connecting(t)
      /\ dbc' = [dbc EXCEPT ![conn[h].dbc].st = "conn"]
      /\ GoOn(t, "finish") /\ UNCHANGED conn
  BY DEF Connect, Connecting, ConnectSteps
<1>t. TypeOK /\ Fits(t) /\ Live(h)
  BY <1>1, AloneOn
<1>2. /\ call'[t].step = "finish" /\ call'[t].h = h
  BY <1>1, <1>t, GoOnFields
<1>3. DbcOf(h)'.auto = DbcOf(h).auto
  BY <1>1, <1>t DEF DbcOf, TypeOK, Live, DbcHandles
<1>4. Connectable(h)
  BY <1>1, <1>t DEF Fits, Connectable
<1>5. Agree(h)'
  BY <1>1, <1>3, <1>4, AloneOn DEF Agree
<1>6. Fits(t)'
  BY <1>2 DEF Fits
<1> QED
  BY <1>5, <1>6

LEMMA CloseAgrees ==
  ASSUME AutoInv, ~Overlap, NEW t \in Threads, CloseDisconnect(t) \/ CloseDbc(t),
         NEW h \in Handles, h = call[t].h
  PROVE  Fits(t)' /\ Agree(h)'
<1>1. /\ call[t].step \in {"disconnect", "free_dbc"} /\ call[t].step # "idle"
      /\ UNCHANGED conn
  BY DEF CloseDisconnect, CloseDbc
<1>t. TypeOK /\ Fits(t)
  BY <1>1, AloneOn
<1>2. Fits(t)'
  <2>1. CASE End(t)
    BY <2>1, <1>t, EndFits
  <2>2. CASE GoOn(t, "free_dbc") \/ GoOn(t, "free_env")
    <3>1. call'[t].step \in {"free_dbc", "free_env"}
      BY <2>2, <1>t, GoOnFields
    <3> QED
      BY <3>1, IdleFits DEF ConnectSteps
  <2> QED
    BY <2>1, <2>2 DEF CloseDisconnect, CloseDbc
<1>3. Agree(h)'
  <2>1. CASE UNCHANGED dbc
    <3>1. DbcOf(h)' = DbcOf(h) /\ (Connectable(h)' <=> Connectable(h))
      BY <1>1, <2>1 DEF DbcOf, Connectable, Live
    <3> QED
      BY <1>1, <3>1, AloneOn DEF Agree
  <2>2. CASE ~UNCHANGED dbc /\ Live(h)
    <3>1. \E v : dbc' = [dbc EXCEPT ![conn[h].dbc] = v] /\ v.st \in {"closed", "freed"}
      <4>1. \A d \in Disconnects(DbcOf(h)) : d.st \in {"closed", "freed"}
        BY <2>2, <1>t, RollsBack DEF Disconnects, DbcHandles
      <4>2. CASE CloseDisconnect(t)
        BY <2>2, <4>1, <4>2 DEF CloseDisconnect
      <4>3. CASE CloseDbc(t)
        <5>1. FreeHandle(DbcOf(h)).st = "freed" /\ DbcOf(h).st \in {"closed", "freed"}
          BY <2>2, <4>3 DEF CloseDbc, FreeHandle, FreedDbc
        <5>2. dbc' = [dbc EXCEPT ![conn[h].dbc] = FreeHandle(DbcOf(h))]
          BY <2>2, <4>3 DEF CloseDbc, DbcOf
        <5> QED
          BY <5>1, <5>2
      <4> QED
        BY <4>2, <4>3
    <3>2. DbcOf(h)'.st \in {"closed", "freed"}
      BY <1>1, <2>2, <3>1, <1>t DEF DbcOf, TypeOK, Live
    <3> QED
      BY <3>2 DEF Agree, Connectable
  <2>3. CASE ~Live(h)
    BY <1>1, <2>3 DEF Agree, Connectable, Live
  <2> QED
    BY <2>1, <2>2, <2>3
<1> QED
  BY <1>2, <1>3

LEMMA FailsAgrees ==
  ASSUME AutoInv, ~Overlap, NEW t \in Threads, Fails(t), NEW h \in Handles, h = call[t].h
  PROVE  Fits(t)' /\ Agree(h)'
<1>1. TypeOK
  BY DEF AutoInv, LinkInv, IInv
<1>2. End(t) /\ conn' = [conn EXCEPT ![h] = NoConn("deleted")]
  BY FailsConnect DEF FailConnect
<1>3. ~Live(h)'
  BY <1>1, <1>2 DEF Live, TypeOK, NoConn
<1> QED
  BY <1>1, <1>2, <1>3, EndFits DEF Agree, Connectable

LEMMA BusyAgrees ==
  ASSUME AutoInv, ~Overlap, "attr" \notin Faults, NEW t \in Threads, Step(t),
         call[t].step # "idle", NEW h \in Handles, h = call[t].h
  PROVE  Fits(t)' /\ Agree(h)'
<1>t. TypeOK /\ CallShape
  BY AloneOn
<1>1. FieldStep(t) \/ SilentStep(t) \/ Fails(t)
  BY <1>t, Busy
<1>2. CASE FieldStep(t)
  <2>1. ~\E c \in Creds : StartReuse(t, c)
    BY ValueTypes DEF StartReuse, Entry
  <2> QED
    BY <1>2, <2>1, FieldsAgree, OptionAutocommitAgrees, AssignAgrees DEF FieldStep
<1>3. CASE SilentStep(t)
  <2>1. ~\E g \in Handles :
           \/ Commit(t, g) \/ Rollback(t, g) \/ CloseRollback(t, g)
           \/ \E on \in BOOLEAN : SetAutocommit(t, g, on)
           \/ \E u \in Threads \ {t} : Pass(t, u, g)
    BY ValueTypes DEF Commit, Rollback, CloseRollback, SetAutocommit, Pass, Active, Has
  <2> QED
    BY <1>3, <2>1, ResetAgrees, OptionAgrees, SwitchAgrees, ConnectAgrees, CloseAgrees
       DEF SilentStep, AttributeStep
<1> QED
  BY <1>1, <1>2, <1>3, FailsAgrees

\* A thread that begins a call, or makes one of a single step.
LEMMA IdleAgrees ==
  ASSUME AutoInv, ~Overlap, NEW t \in Threads, Step(t), call[t].step = "idle",
         NEW h \in Handles, Live(h)',
         ActsOn(t, h) \/ conn[h].mem = "unused"
  PROVE  Agree(h)'
<1>t. TypeOK /\ CallShape /\ LinkInv
  BY DEF AutoInv, LinkInv, IInv
<1>1. CASE AtReset(t, h)
  BY <1>1 DEF AtReset, Agree, Setting
<1>2. CASE conn[h].mem = "unused"
  <2>1. \E c \in Creds, p \in BOOLEAN : StartNew(t, c, p)
    BY <1>2, <1>t, KeepsFields DEF Live, LinkInv
  <2>2. AtReset(t, h)
    BY <1>2, <2>1, <1>t, NewEffect DEF Live
  <2> QED
    BY <2>2, <1>1
<1>3. ASSUME NEW c \in Creds, StartReuse(t, c) \/ StartReconnect(t, c), Entry(t, c, h)
      PROVE  Agree(h)'
  <2> PICK g \in Handles, e \in Creds : Entry(t, e, g) /\ AtReset(t, g)
         /\ (StartReuse(t, e) \/ StartReconnect(t, e)) /\ e = c
    BY <1>3, <1>t, RenewEffect, ReuseEffect
  <2>1. g = h
    BY <1>3 DEF Entry
  <2> QED
    BY <2>1, <1>1
<1>4. CASE Exec(t, h) \/ Commit(t, h) \/ Rollback(t, h) \/ CloseRollback(t, h)
  <2>1. Live(h) /\ ~Setting(h) /\ UNCHANGED conn
    BY <1>4 DEF Exec, Commit, Rollback, CloseRollback, Active, Has, NotBusy, Setting
  <2>2. Connectable(h) => conn[h].auto = DbcOf(h).auto
    BY <2>1, AutoParts DEF Agree
  <2>3. DbcOf(h)'.auto = DbcOf(h).auto /\ DbcOf(h)'.st = DbcOf(h).st
    <3>1. CASE CloseRollback(t, h)
      <4>1. RolledBack(h).auto = DbcOf(h).auto /\ RolledBack(h).st = DbcOf(h).st
        BY <2>1, <1>t, RollsBack DEF RolledBack, DbcHandles
      <4>2. DbcOf(h)' = RolledBack(h)
        BY <3>1, <2>1, <1>t DEF CloseRollback, DbcOf, TypeOK, Live
      <4> QED
        BY <4>1, <4>2
    <3>2. CASE Exec(t, h) \/ Commit(t, h) \/ Rollback(t, h)
      <4> PICK w : dbc' = [dbc EXCEPT ![conn[h].dbc].work = w]
        BY <3>2 DEF Exec, Commit, Rollback
      <4> QED
        BY <2>1, <1>t DEF DbcOf, TypeOK, Live, DbcHandles
    <3> QED
      BY <1>4, <3>1, <3>2
  <2> QED
    BY <2>1, <2>2, <2>3 DEF Agree, Connectable, Live
<1>5. call[t].step = "idle"
  OBVIOUS
<1> QED
  BY <1>2, <1>3, <1>4, <1>5 DEF ActsOn

LEMMA IdleBegins ==
  ASSUME AutoInv, NEW t \in Threads, Step(t), call[t].step = "idle"
  PROVE  Fits(t)'
<1>t. TypeOK /\ CallShape /\ LinkInv /\ call[t] = Idle
  BY DEF AutoInv, LinkInv, IInv, CallShape
<1>1. CASE \E c \in Creds, p \in BOOLEAN : StartNew(t, c, p)
  <2> PICK g \in Handles, d \in Dbcs :
         /\ Allocated(d) /\ AtReset(t, g) /\ ~call'[t].reused
         /\ conn'[g].auto /\ conn'[g].dbc = d
    BY <1>1, <1>t, NewEffect
  <2> QED
    BY DEF Fits, AtReset, Allocated, FreshDbc, DbcOf
<1>2. CASE \E c \in Creds : StartReconnect(t, c)
  <2> PICK g \in Handles, d \in Dbcs :
         /\ Allocated(d) /\ AtReset(t, g) /\ ~call'[t].reused
         /\ conn'[g].auto /\ conn'[g].dbc = d
    BY <1>2, <1>t, RenewEffect
  <2> QED
    BY DEF Fits, AtReset, Allocated, FreshDbc, DbcOf
<1>3. CASE \E c \in Creds : StartReuse(t, c)
  <2> PICK g \in Handles : AtReset(t, g) /\ call'[t].reused /\ conn'[g].auto
    BY <1>3, <1>t, ReuseEffect
  <2> QED
    BY DEF Fits, AtReset
<1>4. CASE \/ \E g \in Handles, on \in BOOLEAN : SetAutocommit(t, g, on)
           \/ \E g \in Handles : CloseRollback(t, g)
  <2> PICK g \in Handles :
         \/ call'[t] = Begun("disconnect", g, NoCred, FALSE)
         \/ \E on \in BOOLEAN :
              call'[t] = [Begun("switch", g, NoCred, FALSE) EXCEPT !.on = on]
    BY <1>4, <1>t DEF SetAutocommit, CloseRollback, TypeOK
  <2>1. call'[t].step \in {"disconnect", "switch"}
    BY DEF Begun, Idle
  <2> QED
    BY <2>1, IdleFits DEF ConnectSteps
<1>5. CASE UNCHANGED call
  <2>1. call'[t].step \notin ConnectSteps \cup {"assign"}
    BY <1>5 DEF ConnectSteps
  <2> QED
    BY <2>1, IdleFits
<1>6. ~SettingDefaults(t)
  BY DEF SettingDefaults
<1> QED
  BY <1>1, <1>2, <1>3, <1>4, <1>5, <1>6, FailsConnect
     DEF Step, KeptStep, FieldStep, SilentStep, DeathStep, AttributeStep, Reset, Option,
         Switch, StartFails, Defaults, OptionAutocommit, OptionsInvalid, Finish, Assign,
         CloseEnv, Connect, CloseDisconnect, CloseDbc, Exec, Commit, Rollback, Drop, Pass,
         ConnectSteps

LEMMA AutoStep ==
  ASSUME AutoInv, ~Overlap, "attr" \notin Faults, NEW t \in Threads, Step(t)
  PROVE  AutoInv'
<1>t. LinkInv /\ IInv /\ TypeOK /\ CallShape /\ ExclusiveOK
  BY DEF AutoInv, LinkInv, IInv
<1>1. LinkInv' /\ ExclusiveOK'
  BY <1>t, LinkStep, StepIsNext, ExclusiveStep
<1>2. Fits(t)'
  BY <1>t, BusyAgrees, IdleBegins DEF CallShape
<1>3. ASSUME NEW u \in Threads \ {t}
      PROVE  Fits(u)'
  <2>1. call'[u] = call[u] /\ Fits(u)
    BY <1>t, FrameStep, AutoParts
  <2> PICK h : h = call[u].h
    OBVIOUS
  <2>2. CASE Live(h)' /\ call[u].step # "idle"
    <3>1. h \in Handles
      BY <2>2, <1>t DEF CallShape
    <3>2. Live(h) /\ Untouched(h)
      BY <2>1, <2>2, <1>t, OthersUntouched DEF Live
    <3>3. /\ conn'[h] = conn[h] /\ DbcOf(h)' = DbcOf(h)
          /\ Connectable(h)' <=> Connectable(h)
      BY <3>2 DEF Untouched, DbcOf, Connectable, Live
    <3> QED
      BY <2>1, <3>3 DEF Fits, Connecting, DbcOf
  <2>3. CASE ~Live(h)' \/ call[u].step = "idle"
    <3>1. ~Connecting(u)
      BY <2>1, <2>3, <1>1 DEF LinkInv, ConnectingOK, Connecting, ConnectSteps, Live
    <3>2. call'[u].step = "assign" => ~Connectable(h)'
      BY <2>1, <2>3 DEF Connectable
    <3> QED
      BY <2>1, <3>1, <3>2 DEF Fits, Connecting, ConnectSteps, Connectable, Live, DbcOf
  <2> QED
    BY <2>2, <2>3
<1>4. ASSUME NEW h \in Handles
      PROVE  Agree(h)'
  <2>1. CASE ~Live(h)'
    BY <2>1 DEF Agree, Connectable
  <2>2. CASE Live(h)' /\ (ActsOn(t, h) \/ conn[h].mem = "unused")
    <3>1. CASE call[t].step = "idle"
      BY <2>2, <3>1, IdleAgrees
    <3>2. CASE call[t].step # "idle"
      <4>1. ~\E c \in Creds, p \in BOOLEAN : StartNew(t, c, p)
        BY <3>2, ValueTypes DEF StartNew
      <4>2. ActsOn(t, h)
        BY <2>2, <4>1, <1>t, KeepsFields DEF Live
      <4>3. call[t].h = h
        BY <3>2, <4>2, ValueTypes
           DEF ActsOn, Entry, Exec, Commit, Rollback, CloseRollback, Active, Has
      <4> QED
        BY <3>2, <4>3, BusyAgrees
    <3> QED
      BY <3>1, <3>2
  <2>3. CASE Live(h)' /\ ~ActsOn(t, h) /\ conn[h].mem # "unused"
    <3>1. Live(h) /\ Untouched(h) /\ Agree(h)
      BY <2>3, <1>t, KeepsFields, UntouchedBy, AutoParts
    <3>2. /\ conn'[h] = conn[h] /\ DbcOf(h)' = DbcOf(h)
          /\ Connectable(h)' <=> Connectable(h)
      BY <3>1 DEF Untouched, DbcOf, Connectable, Live
    <3>3. Setting(h) => Setting(h)'
      <4>1. ASSUME NEW u \in Threads, call[u].step \in {"reset", "option", "assign"},
                   call[u].h = h
            PROVE  call'[u] = call[u]
        BY <4>1, <2>3, <1>t, FrameStep DEF ActsOn
      <4> QED
        BY <4>1 DEF Setting
    <3> QED
      BY <3>1, <3>2, <3>3 DEF Agree
  <2> QED
    BY <2>1, <2>2, <2>3
<1> QED
  BY <1>1, <1>2, <1>3, <1>4
     DEF AutoInv, NewDbcOK, SettingOK, AgreeOK, Fits, Agree, Connecting, Connectable,
         Live, DbcOf

LEMMA InitAuto == Init => AutoInv
<1> SUFFICES ASSUME Init PROVE AutoInv
  OBVIOUS
<1>1. LinkInv
  BY InitLink
<1>2. \A t \in Threads : call[t].step = "idle" /\ call[t].h = NoHandle
  BY DEF Init, Idle
<1>3. \A h \in Handles : ~Live(h)
  BY DEF Init, Live, NoConn
<1> QED
  BY <1>1, <1>2, <1>3
     DEF AutoInv, NewDbcOK, SettingOK, AgreeOK, ExclusiveOK, Connecting, Connectable,
         ConnectSteps

\* AutoInv is inductive.
LEMMA AutoInductive ==
  ASSUME ~Overlap, "attr" \notin Faults, AutoInv, [Next]_vars
  PROVE  AutoInv'
<1>1. ASSUME NEW d \in Dbcs, ServerDies(d)
      PROVE  AutoInv'
  <2>1. UNCHANGED <<pool, conn, call, holds>> /\ LinkInv'
    BY <1>1, LinkStep DEF ServerDies, AutoInv
  <2>2. dbc[d].st = "conn" /\ \A e \in Dbcs : e = d \/ dbc'[e] = dbc[e]
    BY <1>1 DEF ServerDies, AutoInv, LinkInv, IInv, TypeOK
  <2>3. dbc'[d].st = "dead"
    BY <1>1 DEF ServerDies, AutoInv, LinkInv, IInv, TypeOK, DbcHandles
  <2>4. \A h \in Handles : Live(h) =>
          /\ Connectable(h)' => Connectable(h) /\ DbcOf(h)' = DbcOf(h)
          /\ DbcOf(h).st = "alloc" => DbcOf(h)'.st = "alloc"
    <3> SUFFICES ASSUME NEW h \in Handles, Live(h)
                 PROVE  /\ Connectable(h)' => Connectable(h) /\ DbcOf(h)' = DbcOf(h)
                        /\ DbcOf(h).st = "alloc" => DbcOf(h)'.st = "alloc"
      OBVIOUS
    <3>1. conn[h].dbc \in Dbcs /\ DbcOf(h)' = dbc'[conn[h].dbc]
      BY <2>1 DEF AutoInv, LinkInv, IInv, TypeOK, Live, DbcOf
    <3>2. CASE conn[h].dbc = d
      BY <2>2, <2>3, <3>1, <3>2 DEF Connectable, DbcOf
    <3>3. CASE conn[h].dbc # d
      <4>1. DbcOf(h)' = DbcOf(h)
        BY <2>2, <3>1, <3>3 DEF DbcOf
      <4> QED
        BY <2>1, <4>1 DEF Connectable, Live
    <3> QED
      BY <3>2, <3>3
  <2>5. \A t \in Threads : Connecting(t) => call[t].h \in Handles /\ Live(call[t].h)
    BY DEF AutoInv, LinkInv, IInv, CallShape, ConnectingOK, Connecting, ConnectSteps
  <2>6. NewDbcOK'
    BY <2>1, <2>4, <2>5 DEF AutoInv, NewDbcOK, Connecting, DbcOf
  <2>7. \A h : Connectable(h)' => Live(h)
    BY <2>1 DEF Connectable, Live
  <2>8. SettingOK'
    <3> SUFFICES ASSUME NEW t \in Threads
                 PROVE  /\ call[t].step = "reset" => conn[call[t].h].auto
                        /\ call[t].step = "option" => conn[call[t].h].auto = call[t].on
                        /\ call[t].step = "assign" /\ Connectable(call[t].h)' =>
                             DbcOf(call[t].h)'.auto = call[t].on
                        /\ call[t].step = "refused" => ~Connectable(call[t].h)'
      BY <2>1 DEF SettingOK, Connectable, Live, DbcOf
    <3>1. call[t].step \in {"assign", "refused"} => call[t].h \in Handles
      BY DEF AutoInv, LinkInv, IInv, CallShape
    <3>2. call[t].step \in {"assign", "refused"} /\ Connectable(call[t].h)' =>
            Connectable(call[t].h) /\ DbcOf(call[t].h)' = DbcOf(call[t].h)
      <4>1. PICK h : h = call[t].h
        OBVIOUS
      <4>2. Connectable(call[t].h)' => Connectable(h)' /\ DbcOf(call[t].h)' = DbcOf(h)'
        BY <2>1, <4>1 DEF Connectable, DbcOf, Live
      <4> QED
        BY <2>4, <2>7, <3>1, <4>1, <4>2
    <3> QED
      BY <3>2 DEF AutoInv, SettingOK
  <2>9. AgreeOK' /\ ExclusiveOK'
    BY <2>1, <2>4, <2>7 DEF AutoInv, AgreeOK, ExclusiveOK, Setting, Connectable
  <2> QED
    BY <2>1, <2>6, <2>8, <2>9 DEF AutoInv
<1>2. ASSUME UNCHANGED vars
      PROVE  AutoInv'
  <2>1. LinkInv'
    BY LinkStep DEF AutoInv
  <2> QED
    BY <1>2, <2>1 DEF vars, AutoInv, NewDbcOK, ExclusiveOK, SettingOK, AgreeOK, Setting,
                      Connecting, Connectable, Live, DbcOf
<1> QED
  BY <1>1, <1>2, AutoStep, NextCases

LEMMA Autos ==
  ASSUME ~Overlap, "attr" \notin Faults
  PROVE  Spec => []AutoInv
<1>1. AutoInv /\ [Next]_vars => AutoInv'
  BY AutoInductive
<1> QED
  BY <1>1, InitAuto, PTL DEF Spec

\* If calls on a handle do not overlap and SQLSetConnectAttr fails only on a
\* connection that is lost, the auto_commit field is what the driver does,
\* except while a call is setting the two.
THEOREM AutocommitTrue ==
  ASSUME ~Overlap, "attr" \notin Faults
  PROVE  Spec => []AutocommitTruth
<1>1. AutoInv => AutocommitTruth
  BY DEF AutoInv, AgreeOK, AutocommitTruth, Connectable
<1> QED
  BY <1>1, Autos, PTL

-----------------------------------------------------------------------------
(* No connection is lost *)

LEMMA WorkUpdate ==
  ASSUME TypeOK, AutoWorkOK, NEW d, NEW v, dbc' = [dbc EXCEPT ![d] = v],
         d \in Dbcs => (v.auto => v.work = {})
  PROVE  AutoWorkOK'
BY DEF TypeOK, AutoWorkOK

\* What SQLDisconnect and SQLFreeHandle leave has no more work open.
LEMMA DiscardsWork ==
  ASSUME NEW d \in DbcHandles, d.auto => d.work = {}
  PROVE  \A e \in Disconnects(d) \cup Discarded(d) \cup {FreeHandle(d)} :
            e.auto => e.work = {}
<1>1. \A e \in Disconnects(d) \cup {d} : e.auto => e.work = {}
  BY DEF Disconnects, DbcHandles
<1>2. ASSUME NEW e, e.auto => e.work = {}
      PROVE  FreeHandle(e).auto => FreeHandle(e).work = {}
  BY <1>2 DEF FreeHandle, FreedDbc
<1>3. \A f \in Discarded(d) : \E e \in Disconnects(d) \cup {d} : f = FreeHandle(e) \/ f = e
  BY DEF Discarded
<1> QED
  BY <1>1, <1>2, <1>3

LEMMA RollsBackWork ==
  ASSUME TypeOK, AutoWorkOK, NEW h \in Handles, Live(h)
  PROVE  RolledBack(h).auto => RolledBack(h).work = {}
BY DEF TypeOK, AutoWorkOK, RolledBack, Live, DbcOf, DbcHandles

LEMMA AutoWorkStep ==
  ASSUME LinkInv, AutoWorkOK, [Next]_vars
  PROVE  AutoWorkOK'
<1>t. TypeOK /\ CallShape
  BY DEF LinkInv, IInv
<1>d. \A d \in Dbcs : dbc[d] \in DbcHandles /\ (dbc[d].auto => dbc[d].work = {})
  BY <1>t DEF TypeOK, AutoWorkOK
<1>u. ASSUME UNCHANGED dbc PROVE AutoWorkOK'
  BY <1>u DEF AutoWorkOK
<1>a. ASSUME NEW t, NEW h, NEW on, NEW accepted, AutocommitAttr(t, h, on, accepted)
      PROVE  AutoWorkOK'
  <2> DEFINE v == WithAutocommit(dbc[conn[h].dbc], on)
  <2>1. UNCHANGED dbc \/ dbc' = [dbc EXCEPT ![conn[h].dbc] = v]
    BY <1>a DEF AutocommitAttr
  <2>2. v.auto => v.work = {}
    BY DEF WithAutocommit
  <2> HIDE DEF v
  <2> QED
    BY <2>1, <2>2, <1>t, <1>u, WorkUpdate
<1>1. ASSUME NEW t \in Threads, AttributeStep(t)
      PROVE  AutoWorkOK'
  BY <1>1, <1>a DEF AttributeStep, Reset, Option, Switch
<1>2. ASSUME NEW t \in Threads, Connect(t)
      PROVE  AutoWorkOK'
  BY <1>2, <1>d, <1>t DEF Connect, AutoWorkOK, TypeOK, DbcHandles
<1>3. ASSUME NEW t \in Threads, CloseDisconnect(t)
      PROVE  AutoWorkOK'
  <2> DEFINE d == conn[call[t].h].dbc
  <2>1. UNCHANGED dbc \/ \E e \in Disconnects(dbc[d]) : dbc' = [dbc EXCEPT ![d] = e]
    BY <1>3 DEF CloseDisconnect, DbcOf
  <2>2. d \in Dbcs => \A e \in Disconnects(dbc[d]) : e.auto => e.work = {}
    BY <1>d, DiscardsWork
  <2> HIDE DEF d
  <2> QED
    BY <2>1, <2>2, <1>t, <1>u, WorkUpdate
<1>4. ASSUME NEW t \in Threads, CloseDbc(t) \/ Fails(t)
      PROVE  AutoWorkOK'
  <2> DEFINE d == conn[call[t].h].dbc
  <2>1. UNCHANGED dbc \/ dbc' = [dbc EXCEPT ![d] = FreeHandle(dbc[d])]
    BY <1>4, FailsConnect DEF CloseDbc, FailConnect
  <2>2. d \in Dbcs => (FreeHandle(dbc[d]).auto => FreeHandle(dbc[d]).work = {})
    BY <1>d, DiscardsWork
  <2> HIDE DEF d
  <2> QED
    BY <2>1, <2>2, <1>t, <1>u, WorkUpdate
<1>5. ASSUME NEW t \in Threads, NEW h \in Handles, CloseRollback(t, h)
      PROVE  AutoWorkOK'
  <2>1. Live(h) /\ dbc' = [dbc EXCEPT ![conn[h].dbc] = RolledBack(h)]
    BY <1>5 DEF CloseRollback, Active, Has
  <2> QED
    BY <2>1, <1>t, RollsBackWork, WorkUpdate
<1>6. ASSUME NEW t \in Threads, NEW h \in Handles, Exec(t, h) \/ Commit(t, h) \/ Rollback(t, h)
      PROVE  AutoWorkOK'
  <2>1. /\ Live(h) /\ conn[h].dbc \in Dbcs
        /\ \E w : /\ dbc' = [dbc EXCEPT ![conn[h].dbc] = [@ EXCEPT !.work = w]]
                  /\ w = {} \/ ~DbcOf(h).auto
    BY <1>6, <1>t DEF Exec, Commit, Rollback, Active, Has, Live, TypeOK
  <2> PICK w : /\ dbc' = [dbc EXCEPT ![conn[h].dbc] = [@ EXCEPT !.work = w]]
               /\ w = {} \/ ~DbcOf(h).auto
    BY <2>1
  <2> DEFINE v == [DbcOf(h) EXCEPT !.work = w]
  <2>2. v.auto => v.work = {}
    BY <2>1, <1>d DEF DbcOf, DbcHandles
  <2>3. dbc' = [dbc EXCEPT ![conn[h].dbc] = v]
    BY DEF DbcOf
  <2> HIDE DEF v
  <2> QED
    BY <2>2, <2>3, <1>t, WorkUpdate
<1>7. ASSUME NEW t \in Threads, NEW h \in Handles, Drop(t, h)
      PROVE  AutoWorkOK'
  <2>1. /\ Live(h)
        /\ \/ UNCHANGED dbc
           \/ \E e \in Discarded(RolledBack(h)) : dbc' = [dbc EXCEPT ![conn[h].dbc] = e]
    BY <1>7 DEF Drop, Has
  <2>2. \A e \in Discarded(RolledBack(h)) : e.auto => e.work = {}
    BY <2>1, <1>t, RollsBack, RollsBackWork, DiscardsWork
  <2> QED
    BY <2>1, <2>2, <1>t, <1>u, WorkUpdate
<1>8. ASSUME NEW t \in Threads,
             \/ \E c \in Creds, p \in BOOLEAN : StartNew(t, c, p)
             \/ \E c \in Creds : StartReconnect(t, c)
      PROVE  AutoWorkOK'
  <2> PICK d \in Dbcs : Allocated(d)
    BY <1>8, <1>t, NewEffect, RenewEffect
  <2> QED
    BY DEF Allocated, AutoWorkOK, FreshDbc
<1>9. ASSUME NEW d \in Dbcs, ServerDies(d)
      PROVE  AutoWorkOK'
  <2> DEFINE v == [dbc[d] EXCEPT !.st = "dead", !.work = {}]
  <2>1. v.work = {}
    BY <1>d DEF DbcHandles
  <2>2. dbc' = [dbc EXCEPT ![d] = v]
    BY <1>9 DEF ServerDies
  <2> HIDE DEF v
  <2> QED
    BY <2>1, <2>2, <1>t, WorkUpdate
<1>10. ASSUME NEW t \in Threads,
              \/ FieldStep(t)
              \/ \E c \in Creds : StartFails(t, c)
              \/ \E h \in Handles : \/ \E on \in BOOLEAN : SetAutocommit(t, h, on)
                                    \/ \E u \in Threads \ {t} : Pass(t, u, h)
       PROVE  AutoWorkOK'
  BY <1>10, <1>u DEF FieldStep, StartReuse, Defaults, OptionAutocommit, OptionsInvalid,
                     Finish, Assign, CloseEnv, StartFails, SetAutocommit, Pass
<1> QED
  BY <1>u, <1>1, <1>2, <1>3, <1>4, <1>5, <1>6, <1>7, <1>8, <1>9, <1>10, NextCases
     DEF Step, KeptStep, SilentStep, DeathStep, vars

\* Nobody's entry of persistent_list is lost.
LEMMA PoolKept ==
  ASSUME IInv, NEW t \in Threads, Step(t), NEW u \in Threads, NEW h \in Handles,
         InPoolOf(u, h)
  PROVE  InPoolOf(u, h)' /\ InPool(h)'
<1>t. TypeOK /\ CallShape /\ SlotOK
  BY DEF IInv
<1>1. CASE ~Finish(t)
  <2>1. UNCHANGED pool
    BY <1>1, <1>t, Quiet
  <2> QED
    BY <2>1, ValueTypes DEF InPoolOf, InPool
<1>2. CASE Finish(t)
  <2> DEFINE g == call[t].h
             k == Key(t, call[t].cred)
  <2>1. g \in Handles /\ k \in Keys
    BY <1>2, <1>t, ValueTypes DEF Finish, TypeOK, CallShape, Calls
  <2>2. UNCHANGED pool \/ (pool' = [pool EXCEPT ![k] = g] /\ pool[k] \in {NoHandle, g})
    BY <1>2, <1>t DEF Finish, SlotOK, ConnectSteps
  <2> HIDE DEF g, k
  <2>3. \A l \in Keys : pool[l] = h => pool'[l] = h
    BY <2>1, <2>2, <1>t, ConstantsAssumption DEF TypeOK
  <2> QED
    BY <2>3, ValueTypes DEF InPoolOf, InPool
<1> QED
  BY <1>1, <1>2

\* What is disconnected stays so, unless pconnect renews it.
LEMMA StaysClosed ==
  ASSUME LinkInv, NEW t \in Threads, Step(t), NEW h \in Handles, Live(h), Live(h)',
         Disconnected(h), ~conn[h].pconnect
  PROVE  Disconnected(h)'
<1>t. IInv /\ TypeOK /\ CallShape
  BY DEF LinkInv, IInv
<1>p. \A c \in Creds : ~Entry(t, c, h)
  BY PoolOf DEF LinkInv, PersistentOK, Entry, InPoolOf
<1>d. conn[h].dbc \in Dbcs /\ DbcOf(h) \in DbcHandles
  BY <1>t, RollsBack
<1>c. ~(Connecting(t) /\ call[t].h = h)
  BY DEF LinkInv, ConnectingOK, Disconnected
<1>1. CASE ~ActsOn(t, h)
  BY <1>1, UntouchedBy DEF Untouched, Disconnected, DbcOf
<1>2. CASE SteadyStep(t)
  <2>1. KeptStep(t) \/ UNCHANGED conn
    BY <1>2 DEF SteadyStep, KeptStep, SilentStep, DeathStep, Exec
  <2>2. conn'[h].dbc = conn[h].dbc
    BY <2>1, <1>t, ThreadKeeps DEF Kept
  <2>3. dbc'[conn[h].dbc].st = dbc[conn[h].dbc].st
    BY <1>2, <1>t, <1>d, Steady
  <2> QED
    BY <2>2, <2>3 DEF Disconnected, DbcOf
<1>3. CASE ActsOn(t, h) /\ ~SteadyStep(t)
  <2>1. call[t].step # "idle" /\ call[t].h = h
    BY <1>3, <1>p DEF ActsOn, SteadyStep, FieldStep
  <2>2. CloseDisconnect(t) \/ CloseDbc(t)
    <3>1. /\ ~\E c \in Creds, p \in BOOLEAN : StartNew(t, c, p)
          /\ ~\E c \in Creds : StartReconnect(t, c)
          /\ ~\E g \in Handles : Drop(t, g)
      BY <2>1, ValueTypes DEF StartNew, StartReconnect, Entry, Drop, Has
    <3>2. ~Connect(t) /\ ~Fails(t)
      BY <2>1, <1>c, FailsConnect DEF Connect, Connecting, ConnectSteps
    <3> QED
      BY <1>3, <3>1, <3>2, UnsteadySteps
  <2>3. UNCHANGED conn
    BY <2>2 DEF CloseDisconnect, CloseDbc
  <2>4. CASE UNCHANGED dbc
    BY <2>3, <2>4 DEF Disconnected, DbcOf
  <2>5. CASE \E e : dbc' = [dbc EXCEPT ![conn[h].dbc] = e] /\ e.st \in {"closed", "freed"}
    BY <2>3, <2>5, <1>d, <1>t DEF Disconnected, DbcOf, TypeOK
  <2>6. \A e \in Disconnects(DbcOf(h)) : e.st \in {"closed", "freed"}
    BY <1>d DEF Disconnects, DbcHandles
  <2>7. FreeHandle(DbcOf(h)).st \in {"closed", "freed"}
    BY DEF FreeHandle, FreedDbc, Disconnected
  <2> QED
    BY <2>1, <2>2, <2>4, <2>5, <2>6, <2>7 DEF CloseDisconnect, CloseDbc, DbcOf
<1> QED
  BY <1>1, <1>2, <1>3

\* Who makes a handle inactive that lives on: connect_helper, and close.
LEMMA InactiveBy ==
  ASSUME IInv, NEW t \in Threads, Step(t), NEW h \in Handles, Live(h)',
         conn[h].active, ~conn'[h].active, Live(h)
  PROVE  call[t].h = h /\ (Connecting(t) \/ CloseEnv(t))
<1>t. TypeOK /\ CallShape
  BY DEF IInv
<1>1. CASE \E c \in Creds, p \in BOOLEAN : StartNew(t, c, p)
  BY <1>1, <1>t, NewEffect DEF Live
<1>2. CASE \E c \in Creds : StartReconnect(t, c) \/ StartReuse(t, c)
  BY <1>2, <1>t, RenewEffect, ReuseEffect
<1>3. CASE Defaults(t) \/ OptionsInvalid(t) \/ CloseEnv(t) \/ Assign(t) \/ Finish(t)
  BY <1>3, <1>t DEF Defaults, OptionsInvalid, CloseEnv, Assign, Finish, TypeOK,
                    ConnHandles, SettingDefaults, Connecting, ConnectSteps
<1>4. CASE \E on \in BOOLEAN : OptionAutocommit(t, on)
  <2> PICK on \in BOOLEAN :
        /\ SettingDefaults(t)
        /\ conn' = [conn EXCEPT ![call[t].h] = [@ EXCEPT !.active = FALSE, !.auto = on]]
    BY <1>4 DEF OptionAutocommit
  <2>1. Connecting(t)
    BY DEF SettingDefaults, Connecting, ConnectSteps
  <2> QED
    BY <2>1, <1>t DEF TypeOK
<1>5. CASE DeathStep(t)
  <2>1. conn'[h] = conn[h]
    BY <1>5, <1>t, DeathFields DEF Live
  <2> QED
    BY <2>1
<1> QED
  BY <1>1, <1>2, <1>3, <1>4, <1>5, SilentFields DEF Step, KeptStep, FieldStep, Exec

\* What HeldOK says of a handle that is held, and of a thread's call.
Keeps(h) ==
  Live(h) => IF conn[h].pconnect THEN InPool(h) ELSE conn[h].active \/ Disconnected(h)
Bound(u) ==
  /\ call[u].step \in {"free_dbc", "free_env"} /\ Live(call[u].h) =>
       Disconnected(call[u].h)
  /\ call[u].step \in AutocommitSteps \cup CloseSteps => call[u].h \in holds[u]
  /\ Connecting(u) /\ call[u].reused => InPoolOf(u, call[u].h)

LEMMA HeldParts ==
  HeldOK <=> \A u \in Threads : Bound(u) /\ \A h \in holds[u] : Keeps(h)
BY DEF HeldOK, Bound, Keeps

LEMMA KeepsStep ==
  ASSUME LinkInv, HeldOK, NEW t \in Threads, Step(t),
         NEW u \in Threads, NEW h \in holds[u]
  PROVE  Keeps(h)'
<1> SUFFICES ASSUME Live(h)'
             PROVE  IF conn'[h].pconnect THEN InPool(h)'
                    ELSE conn'[h].active \/ Disconnected(h)'
  BY DEF Keeps
<1>t. IInv /\ TypeOK /\ CallShape /\ FreshOK /\ h \in Handles
  BY DEF LinkInv, IInv, TypeOK
<1>1. conn[h].mem # "unused"
  BY <1>t DEF FreshOK, Reach
<1>2. Live(h) /\ conn'[h].pconnect = conn[h].pconnect
  BY <1>1, <1>t, KeepsFields
<1>3. Keeps(h)
  BY HeldParts
<1>4. CASE conn[h].pconnect
  BY <1>2, <1>3, <1>4, <1>t, PoolOf, PoolKept DEF Keeps
<1>5. CASE ~conn[h].pconnect /\ Disconnected(h)
  BY <1>2, <1>5, <1>t, StaysClosed
<1>6. CASE ~conn[h].pconnect /\ ~Disconnected(h) /\ ~conn'[h].active
  <2>1. conn[h].active
    BY <1>2, <1>3, <1>6 DEF Keeps
  <2>2. call[t].h = h /\ (Connecting(t) \/ CloseEnv(t))
    BY <2>1, <1>2, <1>6, <1>t, InactiveBy
  <2>3. ~Connecting(t)
    BY <2>2, <1>6 DEF LinkInv, ConnectingOK, NewTo
  <2>4. ~CloseEnv(t)
    BY <2>2, <1>2, <1>6, HeldParts DEF CloseEnv, Bound
  <2> QED
    BY <2>2, <2>3, <2>4
<1> QED
  BY <1>2, <1>4, <1>5, <1>6

\* New references are to what pconnect or connect returns or was passed on.
LEMMA HoldsFrom ==
  ASSUME TypeOK, NEW t \in Threads, Step(t), NEW u \in Threads, NEW h \in holds'[u]
  PROVE  h \in holds[u] \/ h \in holds[t] \/ (Finish(t) /\ h = call[t].h)
<1>1. CASE Finish(t)
  BY <1>1 DEF Finish, TypeOK
<1>2. CASE \E g \in Handles : Drop(t, g)
  BY <1>2 DEF Drop, TypeOK
<1>3. CASE \E g \in Handles, v \in Threads \ {t} : Pass(t, v, g)
  BY <1>3 DEF Pass, Has, TypeOK
<1>4. CASE UNCHANGED holds
  BY <1>4
<1> QED
  BY <1>1, <1>2, <1>3, <1>4, FailsConnect
     DEF Step, KeptStep, FieldStep, SilentStep, DeathStep, AttributeStep, Reset, Option,
         Switch, AutocommitAttr, StartNew, StartReconnect, FailConnect,
         StartReuse, StartFails, Defaults, OptionAutocommit, OptionsInvalid, Assign,
         CloseEnv, Connect, CloseDisconnect, CloseDbc, Exec, Commit, Rollback,
         SetAutocommit, CloseRollback

\* A handle that connect_helper returns is in persistent_list, or not for it.
LEMMA FinishKeeps ==
  ASSUME LinkInv, HeldOK, NEW t \in Threads, Finish(t), NEW h, h = call[t].h
  PROVE  Keeps(h)'
<1>t. IInv /\ TypeOK /\ CallShape /\ Step(t)
  BY DEF LinkInv, IInv, Step, KeptStep, FieldStep
<1>1. h \in Handles /\ Connecting(t) /\ call[t].cred \in Creds
  BY <1>t DEF Finish, CallShape, Connecting, ConnectSteps, TypeOK, Calls
<1>2. conn'[h].active /\ conn'[h].pconnect = conn[h].pconnect
  BY <1>1, <1>t DEF Finish, TypeOK, ConnHandles
<1>3. CASE conn[h].pconnect /\ call[t].reused
  <2>1. InPoolOf(t, h)
    BY <1>1, <1>3, HeldParts DEF Bound
  <2> QED
    BY <2>1, <1>1, <1>2, <1>3, <1>t, PoolKept DEF Keeps
<1>4. CASE conn[h].pconnect /\ ~call[t].reused
  <2>1. Key(t, call[t].cred) \in Keys /\ pool'[Key(t, call[t].cred)] = h
    BY <1>1, <1>4, <1>t, ValueTypes DEF Finish, TypeOK
  <2>2. InPool(h)'
    BY <2>1 DEF InPool
  <2> QED
    BY <2>2, <1>2, <1>4 DEF Keeps
<1> QED
  BY <1>2, <1>3, <1>4 DEF Keeps

\* The steps of close after SQLDisconnect.
LEMMA CloseGoes ==
  ASSUME TypeOK, CallShape, NEW t \in Threads, Step(t), call[t].step \in CloseSteps,
         call'[t].step \in {"free_dbc", "free_env"}, call'[t] # call[t],
         NEW h \in Handles, h = call[t].h, Live(h)
  PROVE  Disconnected(h)'
<1>i. call[t].step # "idle" /\ call[t].step \notin ConnectSteps \cup AutocommitSteps
  BY Kinds
<1>n. call'[t] # Idle
  BY ValueTypes
<1>1. FieldStep(t) \/ SilentStep(t)
  BY <1>i, Busy, FailsConnect
<1>2. ~FieldStep(t)
  <2>1. ~SettingDefaults(t) /\ call[t].step \notin {"finish", "assign"} /\ call[t] # Idle
    BY <1>i, ValueTypes DEF SettingDefaults, ConnectSteps, AutocommitSteps
  <2>2. ~CloseEnv(t)
    BY <1>n DEF CloseEnv, End, TypeOK
  <2> QED
    BY <2>1, <2>2 DEF FieldStep, StartReuse, Entry, Defaults, OptionAutocommit,
                      OptionsInvalid, Finish, Assign
<1>3. CloseDisconnect(t) \/ CloseDbc(t)
  <2>1. call[t].step \notin {"reset", "option", "switch", "connect"} /\ call[t] # Idle
    BY <1>i, ValueTypes DEF ConnectSteps, AutocommitSteps
  <2> QED
    BY <2>1, <1>1, <1>2
       DEF SilentStep, AttributeStep, Reset, Option, Switch, Connect, Commit, Rollback,
           SetAutocommit, CloseRollback, Pass, Active, Has
<1>4. UNCHANGED conn /\ conn[h].dbc \in Dbcs /\ DbcOf(h) \in DbcHandles
  BY <1>3, RollsBack DEF CloseDisconnect, CloseDbc
<1>5. \A e \in Disconnects(DbcOf(h)) : e.st \in {"closed", "freed"}
  BY <1>4 DEF Disconnects, DbcHandles
<1>6. ~End(t)
  BY <1>n DEF End, TypeOK
<1>7. \E e : dbc' = [dbc EXCEPT ![conn[h].dbc] = e] /\ e.st \in {"closed", "freed"}
  <2>1. CASE CloseDisconnect(t)
    BY <2>1, <1>5, <1>6 DEF CloseDisconnect
  <2>2. CASE CloseDbc(t)
    <3>1. FreeHandle(DbcOf(h)).st \in {"closed", "freed"}
      BY <2>2, <1>6 DEF CloseDbc, FreeHandle, FreedDbc
    <3> QED
      BY <2>2, <3>1, <1>6 DEF CloseDbc, DbcOf
  <2> QED
    BY <1>3, <2>1, <2>2
<1> QED
  BY <1>4, <1>7 DEF Disconnected, DbcOf, TypeOK

\* A call that goes on keeps what HeldOK says of it.
LEMMA BoundGoes ==
  ASSUME LinkInv, HeldOK, NEW t \in Threads, Step(t), NEW u \in Threads,
         call'[u] = call[u] \/ (u = t /\ Same(t)),
         u = t => UNCHANGED <<pool, holds>>
  PROVE  Bound(u)'
<1>t. IInv /\ TypeOK /\ CallShape /\ FreshOK /\ Bound(u)
  BY HeldParts DEF LinkInv, IInv
<1> PICK h : h = call[u].h
  OBVIOUS
<1>0. /\ call'[u].h = h /\ call'[u].reused = call[u].reused
      /\ call'[u] = call[u] \/ Kind(call[u].step, call'[u].step)
  BY DEF Same
<1>1. ASSUME call'[u].step \in {"free_dbc", "free_env"}, Live(h)'
      PROVE  Disconnected(h)'
  <2>1. call[u].step \in CloseSteps /\ h \in Handles
    <3>1. call[u].step \in CloseSteps
      BY <1>0, <1>1, Kinds DEF Kind, CloseSteps
    <3> QED
      BY <3>1, <1>t, Kinds DEF CallShape
  <2>2. conn[h].mem # "unused"
    BY <2>1, <1>t DEF FreshOK, Reach
  <2>3. Live(h)
    BY <2>1, <2>2, <1>1, <1>t, KeepsFields
  <2>4. ~conn[h].pconnect
    BY <2>1, <2>3 DEF LinkInv, PersistentOK
  <2>5. CASE call'[u] = call[u]
    BY <2>1, <2>3, <2>4, <2>5, <1>1, <1>t, StaysClosed DEF Bound
  <2>6. CASE call'[u] # call[u]
    BY <2>1, <2>3, <2>6, <1>1, <1>t, CloseGoes
  <2> QED
    BY <2>5, <2>6
<1>2. ASSUME call'[u].step \in AutocommitSteps \cup CloseSteps
      PROVE  h \in holds'[u]
  <2>1. call[u].step \in AutocommitSteps \cup CloseSteps
    BY <1>0, <1>2, Kinds DEF Kind
  <2> QED
    BY <2>1, <1>t, FrameStep DEF Bound
<1>3. ASSUME Connecting(u)', call'[u].reused
      PROVE  InPoolOf(u, h)'
  <2>1. Connecting(u) /\ call[u].reused
    BY <1>0, <1>3, Kinds DEF Kind, Connecting
  <2>2. h \in Handles
    BY <2>1, <1>t DEF CallShape, Connecting, ConnectSteps
  <2> QED
    BY <2>1, <2>2, <1>t, PoolKept DEF Bound
<1> QED
  BY <1>0, <1>1, <1>2, <1>3 DEF Bound, Live, Disconnected, DbcOf, InPoolOf, Connecting

LEMMA BoundStep ==
  ASSUME LinkInv, HeldOK, NEW t \in Threads, Step(t), NEW u \in Threads
  PROVE  Bound(u)'
<1>t. IInv /\ TypeOK /\ CallShape
  BY DEF LinkInv, IInv
<1>n. ASSUME call'[u].step = "idle" PROVE Bound(u)'
  BY <1>n, Kinds DEF Bound, Connecting
<1>1. CASE u # t
  BY <1>1, <1>t, FrameStep, BoundGoes
<1>2. CASE u = t /\ Starts(t)
  <2> PICK h \in Handles :
        /\ call'[t].h = h /\ UNCHANGED <<pool, holds>>
        /\ call'[t].step \notin {"free_dbc", "free_env"}
        /\ \/ ~call'[t].reused /\ call'[t].step = "reset"
           \/ (\E c \in Creds : Entry(t, c, h)) /\ call'[t].step = "reset"
           \/ h \in holds[t] /\ call'[t].step \in AutocommitSteps \cup CloseSteps
    BY <1>2, <1>t, BeginsOn DEF AtReset
  <2>1. "reset" \in ConnectSteps
    BY DEF ConnectSteps
  <2>2. Connecting(t)' /\ call'[t].reused => InPoolOf(t, h)'
    BY <2>1, Kinds DEF Connecting, Entry, InPoolOf
  <2>3. call'[t].step \in AutocommitSteps \cup CloseSteps => h \in holds'[t]
    BY <2>1, Kinds
  <2> QED
    BY <1>2, <2>2, <2>3 DEF Bound, Connecting, InPoolOf
<1>3. CASE u = t /\ ~Starts(t) /\ call'[t].step # "idle"
  <2>1. call'[t] # Idle
    BY <1>3, ValueTypes
  <2>2. CASE call'[t] = call[t]
    <3>1. ~Finish(t)
      BY <2>1, <1>t DEF Finish, End, TypeOK
    <3>2. UNCHANGED <<pool, holds>>
      BY <1>3, <2>2, <3>1, <1>t, Busy
    <3> QED
      BY <1>3, <2>2, <3>2, BoundGoes
  <2>3. CASE Same(t) /\ UNCHANGED <<pool, holds>>
    BY <1>3, <2>3, BoundGoes
  <2> QED
    BY <1>3, <2>1, <2>2, <2>3, <1>t, CallCases
<1> QED
  BY <1>1, <1>2, <1>3, <1>n

LEMMA HeldStep ==
  ASSUME LinkInv, HeldOK, NEW t \in Threads, Step(t)
  PROVE  HeldOK'
<1>t. TypeOK
  BY DEF LinkInv, IInv
<1>1. ASSUME NEW u \in Threads, NEW h \in holds'[u]
      PROVE  Keeps(h)'
  BY <1>1, <1>t, HoldsFrom, KeepsStep, FinishKeeps
<1>2. \A u \in Threads : Bound(u)'
  BY BoundStep
<1> QED
  BY <1>1, <1>2 DEF HeldOK, Keeps, Bound, Live, InPool, InPoolOf, Disconnected, DbcOf,
                    Connecting

\* Some thread or persistent_list knows the handle.
Known(h) == \E u \in Threads : h \in Reach(u)

\* Without invalid options, connect_helper ends by returning or deleting.
LEMMA EndsBy ==
  ASSUME TypeOK, "options" \notin Faults, NEW t \in Threads, Step(t), Connecting(t),
         call'[t] = Idle
  PROVE  Finish(t) \/ Fails(t)
<1>i. /\ call[t].step # "idle" /\ call[t] # Idle /\ call'[t].step = "idle"
      /\ call[t].step \notin AutocommitSteps \cup CloseSteps
  BY Kinds, ValueTypes DEF Connecting
<1>1. FieldStep(t) \/ SilentStep(t) \/ Fails(t)
  BY <1>i, Busy
<1>g. ASSUME NEW s, GoOn(t, s), s # "idle" PROVE FALSE
  BY <1>i, <1>g DEF GoOn, TypeOK, Calls
<1>o. AfterOptions(t) # "idle"
  BY DEF AfterOptions
<1>2. CASE FieldStep(t)
  <2>1. ~\E on \in BOOLEAN : OptionAutocommit(t, on)
    <3>1. ASSUME NEW on, call' = [call EXCEPT ![t] = [@ EXCEPT !.step = "option", !.on = on]]
          PROVE  FALSE
      <4>1. call'[t] = [call[t] EXCEPT !.step = "option", !.on = on]
        BY <3>1 DEF TypeOK
      <4>2. call'[t].step = "option"
        BY <4>1 DEF TypeOK, Calls
      <4> QED
        BY <1>i, <4>2
    <3> QED
      BY <3>1 DEF OptionAutocommit
  <2>2. ~Defaults(t)
    BY <1>g, <1>o DEF Defaults
  <2>3. ~Assign(t) /\ ~CloseEnv(t) /\ ~OptionsInvalid(t)
    BY <1>i DEF Assign, CloseEnv, OptionsInvalid, AutocommitSteps, CloseSteps
  <2> QED
    BY <1>2, <1>i, <2>1, <2>2, <2>3 DEF FieldStep, StartReuse, Entry
<1>3. CASE SilentStep(t)
  <2>1. ASSUME NEW accepted PROVE ~Reset(t, accepted) /\ ~Switch(t, accepted)
    BY <1>g DEF Reset, Switch
  <2>2. ASSUME NEW accepted, Option(t, accepted) PROVE FALSE
    <3> DEFINE v == [call[t] EXCEPT !.step = AfterOptions(t), !.on = FALSE]
    <3>1. v.step = AfterOptions(t)
      BY DEF TypeOK, Calls
    <3>2. call'[t] = v
      BY <2>2 DEF Option, TypeOK
    <3> HIDE DEF v
    <3> QED
      BY <3>1, <3>2, <1>i, <1>o
  <2>3. ~Connect(t) /\ ~CloseDisconnect(t) /\ ~CloseDbc(t)
    BY <1>g, <1>i DEF Connect, CloseDisconnect, CloseDbc, CloseSteps
  <2> QED
    BY <1>3, <1>i, <2>1, <2>2, <2>3
       DEF SilentStep, AttributeStep, Commit, Rollback, SetAutocommit, CloseRollback,
           Pass, Active, Has
<1> QED
  BY <1>1, <1>2, <1>3

\* A handle that lives on stays known.
LEMMA StaysHeld ==
  ASSUME LinkInv, NEW t \in Threads, Step(t), NEW u \in Threads,
         NEW h \in holds[u], Live(h)'
  PROVE  Known(h)'
<1>t. IInv /\ TypeOK /\ CallShape /\ h \in Handles
  BY DEF LinkInv, IInv, TypeOK
<1>1. CASE \E v \in Threads : h \in holds'[v]
  BY <1>1, <1>t DEF Known, Reach
<1>2. CASE h \notin holds'[u]
  <2>1. u = t
    BY <1>2, <1>t, FrameStep
  <2>2. CASE Finish(t)
    BY <1>2, <2>2, <1>t DEF Finish, TypeOK
  <2>3. CASE ~Finish(t)
    <3> PICK g \in Handles : Drop(t, g)
      BY <1>2, <2>1, <2>3, <1>t, Quiet
    <3>1. h = g
      BY <1>2, <2>1, <1>t DEF Drop, TypeOK
    <3>2. References(h) # {t} \/ InPool(h)
      BY <3>1, <1>t DEF Drop, NoConn, Live, TypeOK
    <3>3. CASE InPool(h)
      <4> PICK v \in Threads : InPoolOf(v, h)
        BY <3>3, PoolOf
      <4>1. InPoolOf(v, h)'
        BY <1>t, PoolKept
      <4> QED
        BY <4>1, <1>t DEF Known, Reach, InPoolOf
    <3>4. CASE References(h) # {t}
      <4> PICK v \in Threads \ {t} : h \in holds[v]
        BY <2>1, <3>4 DEF References
      <4> QED
        BY <1>1, <1>t, FrameStep
    <3> QED
      BY <3>2, <3>3, <3>4
  <2> QED
    BY <2>2, <2>3
<1> QED
  BY <1>1, <1>2

LEMMA StaysKnown ==
  ASSUME LinkInv, HeldOK, "options" \notin Faults, NEW t \in Threads, Step(t),
         NEW h \in Handles, Live(h)', Live(h), Known(h)
  PROVE  Known(h)'
<1>t. IInv /\ TypeOK /\ CallShape
  BY DEF LinkInv, IInv
<1> PICK u \in Threads : h \in Reach(u)
  BY DEF Known
<1>1. ASSUME NEW v \in Threads, InPoolOf(v, h)
      PROVE  Known(h)'
  <2>1. InPoolOf(v, h)'
    BY <1>1, <1>t, PoolKept
  <2> QED
    BY <2>1 DEF Known, Reach, InPoolOf
<1>2. CASE h = call[u].h
  <2>1. call[u].step # "idle"
    BY <1>2, <1>t, ValueTypes, ConstantsAssumption DEF CallShape
  <2>2. CASE call'[u].h = h
    BY <2>2 DEF Known, Reach
  <2>3. CASE call'[u].h # h
    <3>1. u = t /\ call'[t] = Idle
      BY <1>2, <2>1, <2>3, <1>t, CallCases, ValueTypes DEF Same, Starts
    <3>2. Bound(t)
      BY HeldParts
    <3>3. CASE ~Connecting(t)
      <4>1. call[t].step \in AutocommitSteps \cup CloseSteps
        <5>1. call[t].step \in Steps
          BY <1>t DEF TypeOK, Calls
        <5> QED
          BY <5>1, <2>1, <3>1, <3>3, Kinds DEF Connecting
      <4> QED
        BY <1>2, <3>1, <3>2, <4>1, StaysHeld DEF Bound
    <3>4. CASE Connecting(t)
      <4>1. Finish(t) \/ Fails(t)
        BY <3>1, <3>4, <1>t, EndsBy
      <4>2. ~Fails(t)
        BY <1>2, <3>1, <1>t, FailsConnect DEF FailConnect, TypeOK, Live, NoConn
      <4>3. h \in holds'[t]
        BY <1>2, <3>1, <4>1, <4>2, <1>t DEF Finish, TypeOK
      <4> QED
        BY <4>3 DEF Known, Reach
    <3> QED
      BY <3>3, <3>4
  <2> QED
    BY <2>2, <2>3
<1> QED
  BY <1>1, <1>2, StaysHeld DEF Reach, InPoolOf

\* The last reference to a connected handle that is not persistent closes it.
LEMMA DropCloses ==
  ASSUME AutoInv, AutoWorkOK, HeldOK, NEW t \in Threads, NEW h \in Handles,
         Drop(t, h), ~Live(h)', DbcOf(h).st = "conn"
  PROVE  dbc'[conn[h].dbc].st # "conn"
<1>t. LinkInv /\ TypeOK /\ CallShape
  BY DEF AutoInv, LinkInv, IInv
<1>1. /\ h \in holds[t] /\ Live(h) /\ call[t] = Idle
      /\ References(h) = {t} /\ ~InPool(h)
  BY DEF Drop, Has, Live
<1>2. ~conn[h].pconnect /\ conn[h].active
  BY <1>1, HeldParts DEF Keeps, Disconnected
<1>3. \E d \in Discarded(RolledBack(h)) : dbc' = [dbc EXCEPT ![conn[h].dbc] = d]
  BY <1>1, <1>2 DEF Drop
<1>4. ~Setting(h)
  <2> SUFFICES ASSUME NEW u \in Threads, call[u].h = h,
                      call[u].step \in {"reset", "option", "assign"}
               PROVE  FALSE
    BY DEF Setting
  <2>1. call[u].step # "idle"
    OBVIOUS
  <2>2. u # t
    BY <1>1, <2>1, ValueTypes
  <2>3. CASE call[u].step = "assign"
    <3>1. h \in holds[u]
      BY <2>3, HeldParts DEF Bound, AutocommitSteps
    <3> QED
      BY <3>1, <2>2, <1>1 DEF References
  <2>4. CASE call[u].step \in {"reset", "option"}
    <3>1. Connecting(u)
      BY <2>4 DEF Connecting, ConnectSteps
    <3> QED
      BY <3>1, <1>1, <1>2, <1>t DEF LinkInv, ConnectingOK, NewTo
  <2> QED
    BY <2>3, <2>4
<1>5. conn[h].dbc \in Dbcs /\ DbcOf(h) \in DbcHandles /\ RolledBack(h) \in DbcHandles
      /\ RolledBack(h).st = "conn"
  BY <1>1, <1>t, RollsBack
<1>6. RolledBack(h).work = {}
  <2>1. CASE conn[h].auto
    <3>1. DbcOf(h).auto
      BY <1>1, <1>4, <2>1 DEF AutoInv, AgreeOK, Connectable
    <3> QED
      BY <3>1, <2>1, <1>5 DEF AutoWorkOK, RolledBack, DbcOf
  <2>2. CASE ~conn[h].auto
    BY <2>2, <1>5 DEF RolledBack, DbcHandles
  <2> QED
    BY <2>1, <2>2
<1>7. \A d \in Discarded(RolledBack(h)) : d.st # "conn"
  <2> DEFINE r == RolledBack(h)
  <2>1. /\ \A e \in Disconnects(r) : e.st = "closed"
        /\ ~DisconnectFails(r)
    BY <1>5, <1>6 DEF Disconnects, DisconnectFails, DbcHandles
  <2>2. \A d \in Discarded(r) : \E e \in Disconnects(r) : d = FreeHandle(e) \/ d = e
    BY <2>1 DEF Discarded
  <2>3. \A e : e.st = "closed" => FreeHandle(e).st = "freed"
    BY DEF FreeHandle, FreedDbc
  <2> QED
    BY <2>1, <2>2, <2>3
<1> QED
  BY <1>3, <1>5, <1>7, <1>t DEF TypeOK

\* No step deletes the handle of a connection and leaves it open.
LEMMA DeletesClosed ==
  ASSUME AutoInv, AutoWorkOK, HeldOK, {"options", "info"} \cap Faults = {},
         NEW t \in Threads, Step(t), NEW h \in Handles, Live(h), ~Live(h)',
         DbcOf(h).st = "conn"
  PROVE  dbc'[conn[h].dbc].st # "conn"
<1>t. LinkInv /\ IInv /\ TypeOK /\ CallShape
  BY DEF AutoInv, LinkInv, IInv
<1>1. ~(Fails(t) /\ call[t].h = h)
  <2>1. CASE ResetFail(t)
    BY <2>1 DEF ResetFail, AutoInv, SettingOK, Connectable
  <2>2. CASE ConnectFail(t)
    BY <2>2 DEF ConnectFail, AutoInv, NewDbcOK, Connecting, ConnectSteps
  <2> QED
    BY <2>1, <2>2 DEF Fails, OptionsFail, FinishFail
<1>2. ~Fails(t)
  <2>1. ASSUME Fails(t) PROVE call[t].h = h
    BY <2>1, <1>t, FailsConnect DEF FailConnect, TypeOK, Live
  <2> QED
    BY <2>1, <1>1
<1>3. ~\E c \in Creds : StartFails(t, c)
  <2> SUFFICES ASSUME NEW c \in Creds, StartFails(t, c) PROVE FALSE
    OBVIOUS
  <2> PICK g \in Handles :
         /\ conn[g].mem = "unused" \/ (Entry(t, c, g) /\ DbcOf(g).st # "conn")
         /\ conn' = [conn EXCEPT ![g] = NoConn("deleted")]
    BY DEF StartFails
  <2>1. g = h
    BY <1>t DEF TypeOK, Live
  <2> QED
    BY <2>1 DEF Live
<1>4. DeathStep(t)
  <2>1. \/ \E c \in Creds, p \in BOOLEAN : StartNew(t, c, p)
        \/ \E c \in Creds : StartReconnect(t, c)
        \/ \E g \in Handles : Exec(t, g)
        \/ FieldStep(t) \/ SilentStep(t)
        => Live(h)'
    <3>1. CASE \E c \in Creds, p \in BOOLEAN : StartNew(t, c, p)
      BY <3>1, <1>t, NewEffect DEF Live
    <3>2. CASE \E c \in Creds : StartReconnect(t, c)
      BY <3>2, <1>t, RenewEffect DEF Live
    <3>3. CASE FieldStep(t) \/ UNCHANGED conn
      BY <3>3, <1>t, FieldStepFields DEF Fields, Live
    <3> QED
      BY <3>1, <3>2, <3>3, SilentFields DEF Exec
  <2> QED
    BY <2>1 DEF Step, KeptStep
<1>5. \E g \in Handles : Drop(t, g)
  BY <1>2, <1>3, <1>4 DEF DeathStep
<1> PICK g \in Handles : Drop(t, g)
  BY <1>5
<1>6. g = h
  BY <1>t DEF Drop, TypeOK, Live
<1> QED
  BY <1>6, DropCloses

\* A DBC becomes connected by connect_helper only.
LEMMA ConnectedBy ==
  ASSUME LinkInv, NEW t \in Threads, Step(t), NEW d \in Dbcs,
         dbc[d].st # "conn", dbc'[d].st = "conn"
  PROVE  Connect(t) /\ conn[call[t].h].dbc = d
<1>t. TypeOK /\ CallShape
  BY DEF LinkInv, IInv
<1>w. ASSUME NEW e, NEW v, dbc' = [dbc EXCEPT ![e] = v],
             v.st = "conn" => e \in Dbcs /\ dbc[e].st = "conn"
      PROVE  FALSE
  BY <1>w, <1>t DEF TypeOK
<1>f. \A v : FreeHandle(v).st = "conn" => v.st = "conn" /\ FreeHandle(v) = v
  BY DEF FreeHandle, FreedDbc
<1>1. ~SteadyStep(t)
  BY <1>t, Steady
<1>2. ~\E c \in Creds, p \in BOOLEAN : StartNew(t, c, p)
  BY <1>t, NewEffect DEF Allocated, FreshDbc
<1>3. ~\E c \in Creds : StartReconnect(t, c)
  BY <1>t, RenewEffect DEF Allocated, FreshDbc
<1>4. CASE CloseDisconnect(t) \/ CloseDbc(t) \/ Fails(t)
  <2> DEFINE e == conn[call[t].h].dbc
  <2>1. \/ UNCHANGED dbc
        \/ \E v \in Disconnects(dbc[e]) : dbc' = [dbc EXCEPT ![e] = v]
        \/ dbc' = [dbc EXCEPT ![e] = FreeHandle(dbc[e])]
    BY <1>4, FailsConnect DEF CloseDisconnect, CloseDbc, FailConnect, DbcOf
  <2>2. e \in Dbcs
    <3>1. e \in Dbcs \/ dbc' = dbc
      BY <2>1, <1>t DEF TypeOK
    <3> QED
      BY <3>1
  <2>3. \A v \in Disconnects(dbc[e]) : v.st # "conn"
    BY <2>2, <1>t DEF Disconnects, TypeOK, DbcHandles
  <2> HIDE DEF e
  <2> QED
    BY <2>1, <2>2, <2>3, <1>w, <1>f
<1>5. CASE \E h \in Handles : Drop(t, h)
  <2> PICK h \in Handles : Drop(t, h)
    BY <1>5
  <2>1. Live(h)
    BY DEF Drop, Has
  <2>2. conn[h].dbc \in Dbcs /\ RolledBack(h) \in DbcHandles
        /\ RolledBack(h).st = dbc[conn[h].dbc].st
    BY <2>1, <1>t, RollsBack DEF DbcOf
  <2>3. \A v \in Disconnects(RolledBack(h)) : v.st # "conn"
    BY <2>2 DEF Disconnects, DbcHandles
  <2>4. \A v \in Discarded(RolledBack(h)) :
          \E e \in Disconnects(RolledBack(h)) \cup {RolledBack(h)} : v = FreeHandle(e) \/ v = e
    BY DEF Discarded
  <2>5. \A v \in Discarded(RolledBack(h)) : v.st = "conn" => dbc[conn[h].dbc].st = "conn"
    BY <2>2, <2>3, <2>4, <1>f
  <2>6. ~UNCHANGED dbc
    OBVIOUS
  <2>7. \E v \in Discarded(RolledBack(h)) : dbc' = [dbc EXCEPT ![conn[h].dbc] = v]
    BY <2>6 DEF Drop
  <2> QED
    BY <2>2, <2>5, <2>7, <1>w
<1>6. CASE Connect(t)
  BY <1>6, <1>t DEF Connect, TypeOK
<1> QED
  BY <1>1, <1>2, <1>3, <1>4, <1>5, <1>6, UnsteadySteps

LEMMA OrphanStep ==
  ASSUME OrphanInv, ~Overlap, Faults \subseteq {"alloc", "connect", "free"},
         NEW t \in Threads, Step(t)
  PROVE  NoOrphan'
<1>t. LinkInv /\ IInv /\ TypeOK /\ CallShape /\ AutoInv /\ AutoWorkOK /\ HeldOK
  BY DEF OrphanInv, AutoInv, LinkInv, IInv
<1> SUFFICES ASSUME NEW d \in Dbcs, dbc'[d].st = "conn"
             PROVE  \E h \in Handles : Live(h)' /\ conn'[h].dbc = d /\ Known(h)'
  BY DEF NoOrphan, Known, InPool, Reach
<1>1. CASE dbc[d].st = "conn"
  <2> PICK h \in Handles : /\ Live(h) /\ conn[h].dbc = d
                           /\ InPool(h) \/ \E u \in Threads : h \in Reach(u)
    BY <1>1 DEF OrphanInv, NoOrphan
  <2>1. Known(h)
    BY PoolOf DEF Known, Reach, InPoolOf
  <2>2. Live(h)'
    BY <1>1, <1>t, DeletesClosed DEF DbcOf
  <2>3. Known(h)'
    BY <2>1, <2>2, <1>t, StaysKnown
  <2>4. conn'[h].dbc = d
    <3>1. CASE \E c \in Creds : StartReconnect(t, c)
      <4> PICK g \in Handles : /\ DbcOf(g).st # "conn"
                               /\ \A f \in Handles \ {g} : conn'[f] = conn[f]
        BY <3>1, <1>t, RenewEffect
      <4> QED
        BY <1>1 DEF DbcOf
    <3>2. CASE \E c \in Creds, p \in BOOLEAN : StartNew(t, c, p)
      BY <3>2, <1>t, NewEffect DEF Live
    <3>3. CASE KeptStep(t)
      BY <2>2, <3>3, <1>t, ThreadKeeps DEF Kept
    <3>4. CASE \E g \in Handles : Exec(t, g)
      BY <3>4 DEF Exec
    <3> QED
      BY <3>1, <3>2, <3>3, <3>4 DEF Step
  <2> QED
    BY <2>2, <2>3, <2>4
<1>2. CASE dbc[d].st # "conn"
  <2>1. Connect(t) /\ conn[call[t].h].dbc = d
    BY <1>2, <1>t, ConnectedBy
  <2> PICK h \in Handles : h = call[t].h
    BY <2>1, <1>t DEF Connect, CallShape
  <2>2. Live(h) /\ UNCHANGED conn
    BY <2>1, <1>t DEF Connect, LinkInv, ConnectingOK, Connecting, ConnectSteps
  <2>3. call'[t].h = h
    BY <2>1, <1>t, GoOnFields DEF Connect
  <2> QED
    BY <2>1, <2>2, <2>3 DEF Live, Known, Reach
<1> QED
  BY <1>1, <1>2

\* OrphanInv is inductive.
LEMMA OrphanInductive ==
  ASSUME ~Overlap, Faults \subseteq {"alloc", "connect", "free"}, OrphanInv, [Next]_vars
  PROVE  OrphanInv'
<1>t. AutoInv /\ LinkInv /\ TypeOK /\ AutoWorkOK /\ HeldOK /\ NoOrphan
  BY DEF OrphanInv, AutoInv, LinkInv, IInv
<1>1. AutoInv' /\ AutoWorkOK'
  BY <1>t, AutoInductive, AutoWorkStep
<1>2. ASSUME NEW t \in Threads, Step(t)
      PROVE  HeldOK' /\ NoOrphan'
  BY <1>2, <1>t, HeldStep, OrphanStep
<1>3. ASSUME NEW d \in Dbcs, ServerDies(d)
      PROVE  HeldOK' /\ NoOrphan'
  <2>1. UNCHANGED <<pool, conn, call, holds>>
    BY <1>3 DEF ServerDies
  <2>2. \A e \in Dbcs : dbc'[e] = dbc[e]
                        \/ (dbc[e].st = "conn" /\ dbc'[e].st = "dead")
    BY <1>3, <1>t DEF ServerDies, TypeOK, DbcHandles
  <2>3. \A h \in Handles : Live(h) /\ Disconnected(h) => Disconnected(h)'
    BY <2>1, <2>2, <1>t DEF Disconnected, DbcOf, TypeOK, Live
  <2>4. \A u \in Threads : call[u].step \in {"free_dbc", "free_env"} => call[u].h \in Handles
    BY DEF OrphanInv, AutoInv, LinkInv, IInv, CallShape
  <2>5. \A u \in Threads : holds[u] \subseteq Handles
    BY <1>t DEF TypeOK
  <2>6. HeldOK'
    <3>1. \A u \in Threads : Bound(u)'
      BY <2>1, <2>3, <2>4, HeldParts, <1>t DEF Bound, Live, InPoolOf, Connecting,
                                               Disconnected, DbcOf
    <3>2. \A u \in Threads : \A h \in holds'[u] : Keeps(h)'
      BY <2>1, <2>3, <2>5, HeldParts, <1>t DEF Keeps, Live, InPool, Disconnected, DbcOf
    <3> QED
      BY <3>1, <3>2 DEF HeldOK, Keeps, Bound, Live, InPool, InPoolOf, Disconnected, DbcOf,
                        Connecting
  <2>7. NoOrphan'
    BY <2>1, <2>2, <1>t DEF NoOrphan, Live, InPool, Reach
  <2> QED
    BY <2>6, <2>7
<1>4. ASSUME UNCHANGED vars
      PROVE  HeldOK' /\ NoOrphan'
  BY <1>4, <1>t DEF vars, HeldOK, NoOrphan, Live, InPool, InPoolOf, Reach, Disconnected,
                    DbcOf, Connecting
<1> QED
  BY <1>1, <1>2, <1>3, <1>4, NextCases DEF OrphanInv

LEMMA InitOrphan == Init => OrphanInv
<1> SUFFICES ASSUME Init PROVE OrphanInv
  OBVIOUS
<1>1. \A t \in Threads : call[t].step = "idle"
  BY DEF Init, Idle
<1>2. HeldOK
  BY <1>1 DEF Init, HeldOK, Connecting, ConnectSteps, AutocommitSteps, CloseSteps
<1> QED
  BY <1>2, InitAuto DEF OrphanInv, Init, AutoWorkOK, NoOrphan

\* If calls on a handle do not overlap and only allocating, connecting and
\* freeing handles fails, no connection to the server loses its last handle:
\* close and the destructor leave no transaction that SQLDisconnect refuses.
THEOREM NoOrphans ==
  ASSUME ~Overlap, Faults \subseteq {"alloc", "connect", "free"}
  PROVE  Spec => []NoOrphan
<1>1. OrphanInv /\ [Next]_vars => OrphanInv'
  BY OrphanInductive
<1>2. OrphanInv => NoOrphan
  BY DEF OrphanInv
<1> QED
  BY <1>1, <1>2, InitOrphan, PTL DEF Spec
=============================================================================
