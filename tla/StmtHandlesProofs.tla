------------------------- MODULE StmtHandlesProofs -------------------------
(***************************************************************************)
(* Proofs about StmtHandles, for all threads, connections, objects and     *)
(* numbers.  Separate are the conditions under which its statements stay   *)
(* apart; Inductive says which statement of the CLI each object and each   *)
(* call in progress has.                                                   *)
(***************************************************************************)
EXTENDS StmtHandles, TLAPS

\* No object is used by two threads at the same time, the CLI gives no number
\* of a disconnected statement out again, and memory that it has not written
\* holds no number of a statement.
Separate == ~Shared /\ ~Recycles /\ Unset \subseteq {Invalid}

\* A statement h of connection c: while c is connected, it is a statement of c;
\* then its number is known to nobody.
Holds(c, h) ==
  IF c \in connected THEN Known(h) /\ cli[h].conn = c
  ELSE h = Invalid \/ cli[h] = GoneStmt

\* The objects and the calls that answer for a statement.
Mine(o) == Live(o) /\ obj[o].hstmt # Freed /\ ~FreesAlready(o)
Busy(t) == call[t].at \in {"cli", "free", "return"}

Owners == ({"object"} \X Objects) \cup ({"call"} \X Threads)
Owns(x) == IF x[1] = "object" THEN Mine(x[2]) ELSE Busy(x[2])
ConnOf(x) == IF x[1] = "object" THEN obj[x[2]].conn ELSE call[x[2]].conn
StmtOf(x) == IF x[1] = "object" THEN obj[x[2]].hstmt ELSE call[x[2]].hstmt

\* Each of them has one, and different ones.
OwnersHold == \A x \in Owners : Owns(x) => Holds(ConnOf(x), StmtOf(x))
OwnersApart ==
  \A x, y \in Owners :
    /\ Owns(x) /\ ConnOf(x) \in connected
    /\ Owns(y) /\ ConnOf(y) \in connected
    /\ StmtOf(x) = StmtOf(y)
    => x = y

\* An object in use is there, one at a time, and by one thread.
InUse ==
  /\ \A t \in Threads : \A o, p \in Using(t) : Live(o) /\ o = p
  /\ \A t, u \in Threads : Using(t) \cap Using(u) # {} => t = u
  /\ \A o \in Objects : Live(o) => obj[o].conn \in Conns
  /\ \A t \in Threads : call[t].op \in Creating => call[t].conn \in Conns

Inductive == TypeOK /\ InUse /\ OwnersHold /\ OwnersApart

-----------------------------------------------------------------------------
(* Types *)

CliRecord ==
  [conn : Conns \cup {NoConn}, has : {"nothing", "gone", "new", "prepared", "results"}]
ObjectRecord ==
  [conn : Conns \cup {NoConn}, hstmt : Handles \cup {Invalid, Freed},
   info : {"none", "half", "full"}]
CallRecord ==
  [op : DOMAIN StagesOf, at : Stages, conn : Conns \cup {NoConn},
   obj : SUBSET Objects, hstmt : Handles \cup {Invalid}]

\* A record that a call may be.
Shaped(r) == r \in CallRecord /\ r.at \in StagesOf[r.op]

LEMMA StageNames ==
  /\ DOMAIN StagesOf = {"none", "exec", "prepare", "catalog", "next_result",
                        "free_stmt", "free_result", "field", "close"}
  /\ \A op \in DOMAIN StagesOf : StagesOf[op] \subseteq Stages
  /\ StagesOf["none"] = {"none"}
  /\ StagesOf["exec"] = {"alloc", "cli", "free", "return"}
  /\ StagesOf["next_result"] = {"alloc", "cli", "free", "return"}
  /\ StagesOf["prepare"] = {"alloc", "cli", "return"}
  /\ StagesOf["catalog"] = {"alloc", "cli", "return"}
  /\ \A op \in {"free_stmt", "free_result", "field", "close"} : StagesOf[op] = {"end"}
  BY DEF StagesOf, Stages

LEMMA CallTyped ==
  ASSUME TypeOK, NEW t \in Threads
  PROVE  Shaped(call[t])
  BY DEF TypeOK, CallRecord, Shaped

LEMMA NoCallShaped == Shaped(NoCall)
  BY StageNames DEF Shaped, NoCall, NewCall, CallRecord

\* The call of thread t becomes this one, those of the others stay.
Moves(t, op, at, conn, objs, h) ==
  /\ call' \in [Threads -> CallRecord]
  /\ \A u \in Threads : call'[u].at \in StagesOf[call'[u].op]
  /\ call'[t].op = op /\ call'[t].at = at /\ call'[t].conn = conn
  /\ call'[t].obj = objs /\ call'[t].hstmt = h
  /\ \A u \in Threads \ {t} : call'[u] = call[u]

LEMMA CallStep ==
  ASSUME TypeOK, NEW t \in Threads, NEW r, Shaped(r), call' = [call EXCEPT ![t] = r]
  PROVE  Moves(t, r.op, r.at, r.conn, r.obj, r.hstmt)
  BY DEF TypeOK, CallRecord, Shaped, Moves

LEMMA ReturnMoves ==
  ASSUME TypeOK, NEW t \in Threads, Return(t)
  PROVE  Moves(t, "none", "none", NoConn, {}, Invalid)
  <1>1. Moves(t, NoCall.op, NoCall.at, NoCall.conn, NoCall.obj, NoCall.hstmt)
    BY CallStep, NoCallShaped DEF Return
  <1> QED BY <1>1 DEF NoCall, NewCall

\* A call that begins.
LEMMA NewCallMoves ==
  ASSUME TypeOK, NEW t \in Threads, NEW op \in DOMAIN StagesOf, NEW stage \in StagesOf[op],
         NEW c \in Conns \cup {NoConn}, NEW objs \in SUBSET Objects,
         call' = [call EXCEPT ![t] = NewCall(op, stage, c, objs)]
  PROVE  Moves(t, op, stage, c, objs, Invalid)
  <1> DEFINE r == NewCall(op, stage, c, objs)
  <1>1. Shaped(r)
    BY StageNames DEF Shaped, CallRecord, NewCall
  <1>2. Moves(t, r.op, r.at, r.conn, r.obj, r.hstmt)
    BY <1>1, CallStep
  <1> QED BY <1>2 DEF NewCall

LEMMA BeginMoves ==
  ASSUME TypeOK, NEW t \in Threads, NEW op \in {"exec", "prepare", "catalog"}, NEW c \in Conns,
         Begin(t, op, c)
  PROVE  Moves(t, op, "alloc", c, {}, Invalid)
  BY NewCallMoves, StageNames DEF Begin

LEMMA CloseMoves ==
  ASSUME TypeOK, NEW t \in Threads, NEW c \in Conns, Close(t, c)
  PROVE  Moves(t, "close", "end", c, {}, Invalid)
  BY NewCallMoves, StageNames DEF Close

LEMMA CallOnMoves ==
  ASSUME TypeOK, NEW t \in Threads, NEW o \in Objects,
         NEW op \in {"free_stmt", "free_result", "field"}, CallOn(t, op, "end", o)
  PROVE  Moves(t, op, "end", NoConn, {o}, Invalid)
  BY NewCallMoves, StageNames DEF CallOn

LEMMA NextResultMoves ==
  ASSUME TypeOK, NEW t \in Threads, NEW o \in Objects, NextResult(t, o)
  PROVE  Moves(t, "next_result", "alloc", obj[o].conn, {o}, Invalid)
  <1>1. obj[o].conn \in Conns \cup {NoConn}
    BY DEF TypeOK
  <1> QED BY <1>1, NewCallMoves, StageNames DEF NextResult

\* A call that goes on at another stage, with a new statement or with the one it has.
LEMMA StageMoves ==
  ASSUME TypeOK, NEW t \in Threads, NEW stage \in StagesOf[call[t].op],
         NEW h \in Handles \cup {Invalid},
         call' = [call EXCEPT ![t].at = stage, ![t].hstmt = h]
  PROVE  Moves(t, call[t].op, stage, call[t].conn, call[t].obj, h)
  <1>1. call \in [Threads -> CallRecord] /\ \A u \in Threads : call[u].at \in StagesOf[call[u].op]
    BY DEF TypeOK, CallRecord
  <1>2. stage \in Stages
    BY <1>1, StageNames DEF CallRecord
  <1> QED BY <1>1, <1>2 DEF Moves, CallRecord

LEMMA GotoMoves ==
  ASSUME TypeOK, NEW t \in Threads, NEW stage \in StagesOf[call[t].op], Goto(t, stage)
  PROVE  Moves(t, call[t].op, stage, call[t].conn, call[t].obj, call[t].hstmt)
  <1>1. call \in [Threads -> CallRecord] /\ \A u \in Threads : call[u].at \in StagesOf[call[u].op]
    BY DEF TypeOK, CallRecord
  <1>2. stage \in Stages
    BY <1>1, StageNames DEF CallRecord
  <1> QED BY <1>1, <1>2 DEF Moves, CallRecord, Goto

-----------------------------------------------------------------------------
(* What a step keeps *)

LEMMA InUseKept ==
  ASSUME InUse, NEW t \in Threads, NEW op, NEW at, NEW c, NEW objs, NEW h,
         Moves(t, op, at, c, objs, h),
         \/ objs = {} \/ objs = call[t].obj
         \/ \E o \in Objects : objs = {o} /\ Live(o) /\ \A u \in Threads : o \notin Using(u),
         op \in Creating => c \in Conns,
         \A o \in Objects : Live(o) => Live(o)',
         \A o \in Objects : Live(o)' => obj'[o].conn \in Conns,
         TypeOK
  PROVE  InUse'
  <1>1. \A u \in Threads : call[u].obj \subseteq Objects /\ (u # t => call'[u] = call[u])
    BY DEF TypeOK, Moves
  <1>2. call'[t].obj = objs /\ call'[t].op = op /\ call'[t].conn = c
    BY DEF Moves
  <1>3. ASSUME NEW u \in Threads, NEW o \in call'[u].obj, NEW p \in call'[u].obj
        PROVE  Live(o)' /\ o = p
    BY <1>1, <1>2, <1>3 DEF InUse, Using
  <1>4. ASSUME NEW u \in Threads, NEW v \in Threads, call'[u].obj \cap call'[v].obj # {}
        PROVE  u = v
    BY <1>1, <1>2, <1>4 DEF InUse, Using
  <1>5. \A u \in Threads : call'[u].op \in Creating => call'[u].conn \in Conns
    BY <1>1, <1>2 DEF InUse
  <1> QED BY <1>3, <1>4, <1>5 DEF InUse, Using

\* Which owners there may be after a step of thread t that frees no object.
LEMMA MineBefore ==
  ASSUME NEW t \in Threads, NEW op, NEW at, NEW c, NEW objs, NEW h,
         Moves(t, op, at, c, objs, h), call[t].op # "free_stmt",
         NEW o \in Objects, Live(o), obj'[o].hstmt = obj[o].hstmt, Mine(o)'
  PROVE  Mine(o)
  BY DEF Mine, FreesAlready, Using, Moves

LEMMA BusyBefore ==
  ASSUME NEW t \in Threads, NEW op, NEW at, NEW c, NEW objs, NEW h,
         Moves(t, op, at, c, objs, h),
         at \in {"cli", "free", "return"} => Busy(t) /\ c = call[t].conn /\ h = call[t].hstmt,
         NEW u \in Threads, Busy(u)'
  PROVE  Busy(u) /\ call'[u].conn = call[u].conn /\ call'[u].hstmt = call[u].hstmt
  BY DEF Busy, Moves

\* The owners that are left keep their statements, and no owner is new.
NoneNew ==
  /\ \A o \in Objects : Mine(o)' =>
       Mine(o) /\ obj'[o].conn = obj[o].conn /\ obj'[o].hstmt = obj[o].hstmt
  /\ \A u \in Threads : Busy(u)' =>
       Busy(u) /\ call'[u].conn = call[u].conn /\ call'[u].hstmt = call[u].hstmt

LEMMA OwnersBefore ==
  ASSUME NoneNew, NEW x \in Owners, Owns(x)'
  PROVE  Owns(x) /\ ConnOf(x)' = ConnOf(x) /\ StmtOf(x)' = StmtOf(x)
  <1>1. CASE x[1] = "object"
    <2>1. x[2] \in Objects
      BY <1>1 DEF Owners
    <2> QED BY <1>1, <2>1 DEF Owns, ConnOf, StmtOf, NoneNew
  <1>2. CASE x[1] # "object"
    <2>1. x[2] \in Threads
      BY <1>2 DEF Owners
    <2> QED BY <1>2, <2>1 DEF Owns, ConnOf, StmtOf, NoneNew
  <1> QED BY <1>1, <1>2

LEMMA OwnedType ==
  ASSUME TypeOK, NEW x \in Owners, Owns(x)
  PROVE  StmtOf(x) \in Handles \cup {Invalid}
  BY DEF TypeOK, Owners, Owns, StmtOf, Mine

\* If no statement of a connected owner is freed either, each has its own.
LEMMA OwnersKept ==
  ASSUME TypeOK, OwnersHold, OwnersApart, NoneNew, connected' = connected,
         \A h \in Handles :
           \/ cli'[h] = cli[h]
           \/ Known(h) /\ cli'[h].conn = cli[h].conn
           \/ ~\E x \in Owners : Owns(x)' /\ StmtOf(x) = h
  PROVE  OwnersHold' /\ OwnersApart'
  <1>1. ASSUME NEW x \in Owners, Owns(x)'
        PROVE  /\ Owns(x) /\ ConnOf(x)' = ConnOf(x) /\ StmtOf(x)' = StmtOf(x)
               /\ Holds(ConnOf(x), StmtOf(x))'
    <2>1. Owns(x) /\ ConnOf(x)' = ConnOf(x) /\ StmtOf(x)' = StmtOf(x)
      BY <1>1, OwnersBefore
    <2>2. Holds(ConnOf(x), StmtOf(x)) /\ StmtOf(x) \in Handles \cup {Invalid}
      BY <2>1, OwnedType DEF OwnersHold
    <2>3. StmtOf(x) \in Handles =>
            \/ cli'[StmtOf(x)] = cli[StmtOf(x)]
            \/ Known(StmtOf(x)) /\ cli'[StmtOf(x)].conn = cli[StmtOf(x)].conn
      BY <1>1
    <2> QED BY <2>1, <2>2, <2>3, ConstantsAssumption DEF Holds, Known, GoneStmt
  <1>2. OwnersHold'
    BY <1>1 DEF OwnersHold, Owners
  <1>3. OwnersApart'
    BY <1>1 DEF OwnersApart, Owners
  <1> QED BY <1>2, <1>3

-----------------------------------------------------------------------------
(* The references to the arguments of the catalog functions *)

Names ==
  {"qualifier", "owner", "table_name", "column_name", "proc_name", "table_type",
   "pk_qualifier", "pk_owner", "pk_table_name", "fk_qualifier", "fk_owner", "fk_table_name"}

LEMMA RegularMatched ==
  ASSUME NEW args \in Seq(Names), NEW i \in 1 .. Len(args) + 2, i # Len(args) + 1
  PROVE  Unmatched(Regular(args), i) = {}
  <1> DEFINE f == Regular(args)
  <1>1. f.args = args /\ DOMAIN args = 1 .. Len(args) /\ Len(args) \in Nat
    BY DEF Regular
  <1>2. Strings(f) = 1 .. Len(args)
    BY <1>1 DEF Strings, Names
  <1>3. CASE i \in DOMAIN args
    <2>1. GivenBack(f, i) = 1 .. i - 1
      BY <1>1, <1>3 DEF GivenBack, Regular
    <2>2. Taken(f, i) = 1 .. i - 1
      BY <1>1, <1>2, <1>3 DEF Taken
    <2> QED BY <2>1, <2>2 DEF Unmatched
  <1>4. CASE i = Len(args) + 2
    <2>1. GivenBack(f, i) = 1 .. Len(args)
      BY <1>1, <1>4 DEF GivenBack, Regular
    <2>2. Taken(f, i) = 1 .. Len(args)
      BY <1>1, <1>2, <1>4 DEF Taken
    <2> QED BY <2>1, <2>2 DEF Unmatched
  <1> QED BY <1>1, <1>3, <1>4

\* The returns because the connection, or `unique', is not of its type.
Misused(f, i) == i = Len(f.args) + 1 \/ (i \in DOMAIN f.args /\ f.args[i] = "unique")

Matched(f) ==
  \A i \in Returns(f) : i = Len(f.args) + 1 \/ Misused(f, i) \/ Unmatched(f, i) = {}

LEMMA AllMatched == \A f \in CatalogFunctions : Matched(f)
  <1>1. ASSUME NEW args \in Seq(Names) PROVE Matched(Regular(args))
    BY RegularMatched DEF Matched, Returns, Regular
  <1>2. /\ <<"qualifier", "owner", "table_name", "column_name">> \in Seq(Names)
        /\ <<"qualifier", "owner", "proc_name", "column_name">> \in Seq(Names)
        /\ <<"qualifier", "owner", "table_name", "table_type">> \in Seq(Names)
        /\ <<"qualifier", "owner", "table_name">> \in Seq(Names)
        /\ <<"qualifier", "owner", "proc_name">> \in Seq(Names)
        /\ <<"pk_qualifier", "pk_owner", "pk_table_name",
             "fk_qualifier", "fk_owner", "fk_table_name">> \in Seq(Names)
    BY DEF Names
  <1>3. Matched(SpecialColumns)
    <2> DEFINE f == SpecialColumns
    <2>1. f.args = <<"scope", "qualifier", "owner", "table_name">> /\ Len(f.args) = 4
          /\ DOMAIN f.args = 1 .. 4
      BY DEF SpecialColumns
    <2>2. Strings(f) = {2, 3, 4}
      BY <2>1 DEF Strings
    <2>3. Taken(f, 1) = {} /\ Taken(f, 2) = {} /\ Taken(f, 3) = {2} /\ Taken(f, 4) = {2, 3}
          /\ Taken(f, 6) = {2, 3, 4}
      BY <2>2 DEF Taken
    <2>4. GivenBack(f, 1) = {} /\ GivenBack(f, 2) = {} /\ GivenBack(f, 3) = {2}
          /\ GivenBack(f, 4) = {2, 3} /\ GivenBack(f, 6) = {2, 3, 4}
      BY DEF GivenBack, SpecialColumns
    <2>5. \A i \in {1, 2, 3, 4, 6} : Unmatched(f, i) = {}
      BY <2>3, <2>4 DEF Unmatched
    <2> QED BY <2>1, <2>5 DEF Matched, Returns
  <1>4. Matched(Statistics)
    <2> DEFINE f == Statistics
    <2>1. f.args = <<"qualifier", "owner", "table_name", "unique">> /\ Len(f.args) = 4
          /\ DOMAIN f.args = 1 .. 4
      BY DEF Statistics
    <2>2. Strings(f) = {1, 2, 3}
      BY <2>1 DEF Strings
    <2>3. Taken(f, 1) = {} /\ Taken(f, 2) = {1} /\ Taken(f, 3) = {1, 2}
          /\ Taken(f, 6) = {1, 2, 3}
      BY <2>2 DEF Taken
    <2>4. GivenBack(f, 1) = {} /\ GivenBack(f, 2) = {1} /\ GivenBack(f, 3) = {1, 2}
          /\ GivenBack(f, 6) = {1, 2, 3}
      BY DEF GivenBack, Statistics
    <2>5. Misused(f, 4)
      BY <2>1 DEF Misused
    <2>6. \A i \in {1, 2, 3, 6} : Unmatched(f, i) = {}
      BY <2>3, <2>4 DEF Unmatched
    <2> QED BY <2>1, <2>5, <2>6 DEF Matched, Returns
  <1> QED
    BY <1>1, <1>2, <1>3, <1>4
    DEF CatalogFunctions, ColumnPrivileges, Columns, ForeignKeys, PrimaryKeys, ProcedureColumns,
        Procedures, TablePrivileges, Tables

LEMMA ArgsOf ==
  ASSUME NEW f \in CatalogFunctions
  PROVE  /\ Len(f.args) \in 3 .. MaxArgs /\ DOMAIN f.args = 1 .. Len(f.args)
         /\ \A i \in Nat : GivenBack(f, i) \subseteq 1 .. MaxArgs
  <1>1. \E n \in {3, 4, 6} : DOMAIN f.args = 1 .. n /\ Len(f.args) = n
    BY SMTT(60) DEF CatalogFunctions, ColumnPrivileges, Columns, ForeignKeys, PrimaryKeys,
           ProcedureColumns, Procedures, TablePrivileges, Tables, Regular, SpecialColumns,
           Statistics
  <1>2. ASSUME NEW args, f = Regular(args), NEW i \in Nat
        PROVE  GivenBack(f, i) \subseteq 1 .. MaxArgs
    BY <1>1, <1>2 DEF GivenBack, Regular, MaxArgs
  <1>3. ASSUME f = SpecialColumns \/ f = Statistics, NEW i \in Nat
        PROVE  GivenBack(f, i) \subseteq 1 .. MaxArgs
    BY <1>1, <1>3 DEF GivenBack, SpecialColumns, Statistics, MaxArgs
  <1>4. f = SpecialColumns \/ f = Statistics \/ \E args : f = Regular(args)
    BY Zenon DEF CatalogFunctions, ColumnPrivileges, Columns, ForeignKeys, PrimaryKeys,
       ProcedureColumns, Procedures, TablePrivileges, Tables
  <1>5. \A i \in Nat : GivenBack(f, i) \subseteq 1 .. MaxArgs
    BY <1>2, <1>3, <1>4
  <1> QED BY <1>1, <1>5 DEF MaxArgs

\* The references lost are those of arguments.
LEMMA LostTyped ==
  /\ \A args \in RefusalsLose : args \subseteq 1 .. MaxArgs
  /\ \A args \in CallsLose : args \subseteq 1 .. MaxArgs
  <1>1. ASSUME NEW f \in CatalogFunctions, NEW i \in 1 .. Len(f.args) + 2
        PROVE  Unmatched(f, i) \subseteq 1 .. MaxArgs
    <2>1. i \in Nat /\ Strings(f) \subseteq 1 .. MaxArgs
      BY ArgsOf DEF Strings, MaxArgs
    <2> QED BY <2>1, ArgsOf DEF Unmatched, Taken
  <1>2. ASSUME NEW f \in CatalogFunctions
        PROVE  /\ \A i \in Refusals(f) : Unmatched(f, i) \subseteq 1 .. MaxArgs
               /\ Unmatched(f, Len(f.args) + 2) \subseteq 1 .. MaxArgs
    <2>1. Refusals(f) \subseteq 1 .. Len(f.args) + 2 /\ Len(f.args) + 2 \in 1 .. Len(f.args) + 2
      BY ArgsOf DEF Refusals, MaxArgs
    <2> QED BY <1>1, <2>1
  <1> QED BY <1>2 DEF RefusalsLose, CallsLose

LEMMA NothingLost ==
  ASSUME ~Misuse
  PROVE  /\ \A args \in RefusalsLose : args = {}
         /\ \A args \in CallsLose : args = {}
  <1>1. ASSUME NEW f \in CatalogFunctions
        PROVE  /\ \A i \in Refusals(f) : Unmatched(f, i) = {}
               /\ Unmatched(f, Len(f.args) + 2) = {}
    <2>1. Len(f.args) \in Nat /\ DOMAIN f.args = 1 .. Len(f.args)
      BY ArgsOf DEF MaxArgs
    <2>2. ~Misused(f, Len(f.args) + 2)
      BY <2>1 DEF Misused
    <2>3. \A i \in Refusals(f) : i \in DOMAIN f.args /\ ~Misused(f, i)
      BY <2>1 DEF Refusals, Misused
    <2> QED BY <2>1, <2>2, <2>3, AllMatched DEF Matched, Returns
  <1> QED BY <1>1 DEF RefusalsLose, CallsLose

-----------------------------------------------------------------------------
(* Kinds of steps *)

\* An owner is new, or it has another statement, which nobody else has.
LEMMA OwnerNew ==
  ASSUME TypeOK, OwnersHold, OwnersApart, connected' = connected, NEW x \in Owners,
         \A y \in Owners \ {x} : Owns(y)' =>
           /\ Owns(y) /\ ConnOf(y)' = ConnOf(y) /\ StmtOf(y)' = StmtOf(y)
           /\ ConnOf(y) \in connected /\ ConnOf(x)' \in connected => StmtOf(y) # StmtOf(x)',
         Owns(x)' => Holds(ConnOf(x), StmtOf(x))',
         \A h \in Handles :
           \/ cli'[h] = cli[h]
           \/ ~\E y \in Owners \ {x} : Owns(y)' /\ StmtOf(y) = h
  PROVE  OwnersHold' /\ OwnersApart'
  <1>1. ASSUME NEW y \in Owners, y # x, Owns(y)'
        PROVE  Holds(ConnOf(y), StmtOf(y))'
    <2>1. Owns(y) /\ ConnOf(y)' = ConnOf(y) /\ StmtOf(y)' = StmtOf(y)
      BY <1>1
    <2>2. Holds(ConnOf(y), StmtOf(y)) /\ StmtOf(y) \in Handles \cup {Invalid}
      BY <2>1, OwnedType DEF OwnersHold
    <2>3. StmtOf(y) \in Handles => cli'[StmtOf(y)] = cli[StmtOf(y)]
      BY <1>1
    <2> QED BY <2>1, <2>2, <2>3, ConstantsAssumption DEF Holds, Known
  <1>2. OwnersHold'
    BY <1>1 DEF OwnersHold, Owners
  <1>3. OwnersApart'
    BY <1>1 DEF OwnersApart, Owners
  <1> QED BY <1>2, <1>3

\* Nobody else answers for a statement that the CLI has.
LEMMA SoleOwner ==
  ASSUME TypeOK, OwnersHold, OwnersApart, NEW x \in Owners, Owns(x), Known(StmtOf(x)),
         NEW y \in Owners, Owns(y), StmtOf(y) = StmtOf(x)
  PROVE  x = y
  <1>1. Holds(ConnOf(x), StmtOf(x)) /\ Holds(ConnOf(y), StmtOf(y))
    BY DEF OwnersHold
  <1>2. ConnOf(x) \in connected /\ ConnOf(y) \in connected
    BY <1>1, ConstantsAssumption DEF Holds, Known, GoneStmt
  <1> QED BY <1>2 DEF OwnersApart

\* The step of a call that neither takes nor gives up an object's statement.
LEMMA QuietStep ==
  ASSUME Inductive, NEW t \in Threads, NEW op, NEW at, NEW c, NEW objs, NEW h,
         Moves(t, op, at, c, objs, h), call[t].op # "free_stmt",
         at \in {"cli", "free", "return"} => Busy(t) /\ c = call[t].conn /\ h = call[t].hstmt,
         \/ objs = {} \/ objs = call[t].obj
         \/ \E o \in Objects : objs = {o} /\ Live(o) /\ \A u \in Threads : o \notin Using(u),
         op \in Creating => c \in Conns,
         connected' = connected, active' \subseteq Conns,
         lost' = lost \/ lost' \subseteq 1 .. MaxArgs,
         cli' \in [Handles -> CliRecord],
         \A g \in Handles : cli'[g] = cli[g] \/ (Known(g) /\ cli'[g].conn = cli[g].conn),
         obj' \in [Objects -> ObjectRecord],
         \A o \in Objects : /\ Live(o)' <=> Live(o)
                            /\ obj'[o].conn = obj[o].conn /\ obj'[o].hstmt = obj[o].hstmt
  PROVE  Inductive'
  <1>1. TypeOK'
    BY DEF Inductive, TypeOK, Moves, CallRecord, CliRecord, ObjectRecord
  <1>2. InUse'
    BY InUseKept DEF Inductive, InUse
  <1>3. NoneNew
    <2>1. \A o \in Objects : Mine(o)' => Mine(o)
      BY MineBefore DEF Mine
    <2>2. \A u \in Threads :
            Busy(u)' => Busy(u) /\ call'[u].conn = call[u].conn /\ call'[u].hstmt = call[u].hstmt
      BY BusyBefore
    <2> QED BY <2>1, <2>2 DEF NoneNew
  <1>4. OwnersHold' /\ OwnersApart'
    BY <1>3, OwnersKept DEF Inductive
  <1> QED BY <1>1, <1>2, <1>4 DEF Inductive

-----------------------------------------------------------------------------
(* The steps *)

LEMMA Typed ==
  ASSUME TypeOK
  PROVE  /\ connected \subseteq Conns /\ active \subseteq Conns
         /\ cli \in [Handles -> CliRecord] /\ obj \in [Objects -> ObjectRecord]
         /\ call \in [Threads -> CallRecord]
         /\ \A t \in Threads : call[t].at \in StagesOf[call[t].op]
  BY DEF TypeOK, CliRecord, ObjectRecord, CallRecord

\* Steps that change `call' only, or the state of a statement that the CLI has.
LEMMA BeginStep ==
  ASSUME Inductive, NEW t \in Threads, NEW c \in Conns,
         Exec(t, c) \/ Prepare(t, c) \/ Catalog(t, c)
  PROVE  Inductive'
  <1>1. PICK op \in {"exec", "prepare", "catalog"} : Begin(t, op, c)
    BY DEF Exec, Prepare, Catalog
  <1>2. Moves(t, op, "alloc", c, {}, Invalid)
    BY <1>1, BeginMoves DEF Inductive
  <1>3. lost' = lost \/ lost' \subseteq 1 .. MaxArgs
    BY LostTyped DEF Exec, Prepare, Catalog, Inductive, TypeOK
  <1>4. UNCHANGED <<connected, active, cli, obj>>
    BY <1>1 DEF Begin
  <1>5. call[t].op # "free_stmt"
    BY <1>1 DEF Begin, Idle, NoCall, NewCall
  <1> QED
    BY <1>2, <1>3, <1>4, <1>5, QuietStep, Typed DEF Inductive, Live

LEMMA CatalogRefusedStep ==
  ASSUME Inductive, NEW t \in Threads, CatalogRefused(t)
  PROVE  Inductive'
  <1>1. UNCHANGED <<connected, active, cli, obj, call>> /\ lost' \subseteq 1 .. MaxArgs
    BY LostTyped DEF CatalogRefused, Inductive, TypeOK
  <1>2. TypeOK'
    BY <1>1 DEF Inductive, TypeOK
  <1>3. InUse'
    BY <1>1 DEF Inductive, InUse, Live, Using
  <1>4. NoneNew
    BY <1>1 DEF NoneNew, Mine, Live, FreesAlready, Using, Busy
  <1>5. OwnersHold' /\ OwnersApart'
    BY <1>1, <1>4, OwnersKept DEF Inductive
  <1> QED BY <1>2, <1>3, <1>5 DEF Inductive

\* A call ends.
LEMMA ReturnStep ==
  ASSUME Inductive, NEW t \in Threads, Return(t), call[t].op # "free_stmt",
         UNCHANGED <<connected, cli, lost>>, active' \subseteq Conns,
         obj' \in [Objects -> ObjectRecord],
         \A o \in Objects : /\ Live(o)' <=> Live(o)
                            /\ obj'[o].conn = obj[o].conn /\ obj'[o].hstmt = obj[o].hstmt
  PROVE  Inductive'
  <1>1. Moves(t, "none", "none", NoConn, {}, Invalid)
    BY ReturnMoves DEF Inductive
  <1> QED
    BY <1>1, QuietStep, Typed DEF Inductive, Creating

\* A call goes on.
LEMMA GotoStep ==
  ASSUME Inductive, NEW t \in Threads, NEW stage \in StagesOf[call[t].op],
         Goto(t, stage), Busy(t), call[t].op # "free_stmt",
         UNCHANGED <<connected, active, obj, lost>>,
         cli' \in [Handles -> CliRecord],
         \A g \in Handles : cli'[g] = cli[g] \/ (Known(g) /\ cli'[g].conn = cli[g].conn)
  PROVE  Inductive'
  <1>1. Moves(t, call[t].op, stage, call[t].conn, call[t].obj, call[t].hstmt)
    BY GotoMoves DEF Inductive
  <1>2. call[t].op \in Creating => call[t].conn \in Conns
    BY DEF Inductive, InUse
  <1> QED
    BY <1>1, <1>2, QuietStep, Typed DEF Inductive, Live

\* The steps of a call that creates a statement, but for its allocation, its
\* end after a failure and the return of its object.
LEMMA CreatingStep ==
  ASSUME Inductive, NEW t \in Threads,
         \/ AllocError(t) \/ OptionsError(t) \/ CliCall(t) \/ CliError(t) \/ CliInvalid(t)
         \/ NoMoreResults(t) \/ FreeFailedRefused(t)
  PROVE  Inductive'
  <1>1. ASSUME Return(t), call[t].op # "free_stmt",
               UNCHANGED <<connected, active, cli, obj, lost>>
        PROVE  Inductive'
    BY <1>1, ReturnStep, Typed DEF Inductive, Live
  <1>2. ASSUME NEW stage \in StagesOf[call[t].op], Goto(t, stage), Busy(t),
               call[t].op # "free_stmt", UNCHANGED <<connected, active, cli, obj, lost>>
        PROVE  Inductive'
    BY <1>2, GotoStep, Typed DEF Inductive
  <1>3. CASE AllocError(t)
    BY <1>1, <1>3 DEF AllocError, InStage, Creating
  <1>4. CASE OptionsError(t)
    BY <1>1, <1>4 DEF OptionsError, InStage
  <1>5. CASE CliCall(t)
    <2>1. "return" \in StagesOf[call[t].op] /\ Busy(t) /\ call[t].op # "free_stmt"
      BY <1>5, StageNames DEF CliCall, InStage, Busy
    <2>2. cli' \in [Handles -> CliRecord]
      BY <1>5, Typed DEF CliCall, Inductive, CliRecord
    <2>3. \A g \in Handles : cli'[g] = cli[g] \/ (Known(g) /\ cli'[g].conn = cli[g].conn)
      BY <1>5, Typed DEF CliCall, Inductive, CliRecord
    <2> QED BY <1>5, <2>1, <2>2, <2>3, GotoStep DEF CliCall
  <1>6. CASE CliError(t)
    <2>1. CASE call[t].op = "exec"
      BY <1>2, <1>6, <2>1, StageNames DEF CliError, InStage, Busy
    <2>2. CASE call[t].op # "exec"
      BY <1>1, <1>6, <2>2 DEF CliError, InStage
    <2> QED BY <2>1, <2>2
  <1>7. CASE CliInvalid(t)
    <2>1. CASE call[t].op = "exec"
      BY <1>2, <1>7, <2>1, StageNames DEF CliInvalid, InStage, Busy
    <2>2. CASE call[t].op = "prepare"
      BY <1>1, <1>7, <2>2 DEF CliInvalid, InStage
    <2>3. CASE call[t].op = "catalog"
      BY <1>2, <1>7, <2>3, StageNames DEF CliInvalid, InStage, Busy
    <2> QED BY <1>7, <2>1, <2>2, <2>3 DEF CliInvalid, InStage
  <1>8. CASE NoMoreResults(t)
    BY <1>2, <1>8, StageNames DEF NoMoreResults, InStage, Busy
  <1>9. CASE FreeFailedRefused(t)
    BY <1>1, <1>9 DEF FreeFailedRefused, InStage
  <1> QED BY <1>3, <1>4, <1>5, <1>6, <1>7, <1>8, <1>9

LEMMA CloseEndStep ==
  ASSUME Inductive, NEW t \in Threads, CloseEnd(t)
  PROVE  Inductive'
  <1>1. active' \subseteq Conns
    BY Typed DEF CloseEnd, Inductive
  <1> QED BY <1>1, ReturnStep, Typed DEF CloseEnd, InStage, Inductive, Live

\* The steps that use an object and leave its statement to it.
LEMMA UseStep ==
  ASSUME Inductive, Separate, NEW t \in Threads, NEW o \in Objects,
         NextResult(t, o) \/ MoreResults(t, o) \/ FreeResult(t, o)
  PROVE  Inductive'
  <1>1. CASE NextResult(t, o)
    <2>1. Moves(t, "next_result", "alloc", obj[o].conn, {o}, Invalid)
      BY <1>1, NextResultMoves DEF Inductive
    <2>2. Live(o) /\ (\A u \in Threads : o \notin Using(u)) /\ call[t].op # "free_stmt"
      BY <1>1 DEF NextResult, Takes, Separate, Idle, NoCall, NewCall
    <2>3. obj[o].conn \in Conns
      BY <2>2 DEF Inductive, InUse
    <2> QED
      BY <1>1, <2>1, <2>2, <2>3, QuietStep, Typed DEF NextResult, Inductive, Live
  <1>2. CASE MoreResults(t, o)
    <2>1. "return" \in StagesOf[call[t].op] /\ Busy(t) /\ call[t].op # "free_stmt"
      BY <1>2, StageNames DEF MoreResults, InStage, Busy
    <2>2. cli' \in [Handles -> CliRecord]
      BY <1>2, Typed DEF MoreResults, Inductive, CliRecord
    <2>3. \A g \in Handles : cli'[g] = cli[g] \/ (Known(g) /\ cli'[g].conn = cli[g].conn)
      BY <1>2, Typed DEF MoreResults, Inductive, CliRecord
    <2> QED BY <1>2, <2>1, <2>2, <2>3, GotoStep DEF MoreResults
  <1>3. CASE FreeResult(t, o)
    <2>1. Moves(t, "free_result", "end", NoConn, {o}, Invalid)
      BY <1>3, CallOnMoves DEF FreeResult, Inductive
    <2>2. Live(o) /\ (\A u \in Threads : o \notin Using(u)) /\ call[t].op # "free_stmt"
      BY <1>3 DEF FreeResult, Takes, Separate, Idle, NoCall, NewCall
    <2>3. cli' \in [Handles -> CliRecord]
      BY <1>3, Typed DEF FreeResult, Inductive, CliRecord
    <2>4. \A g \in Handles : cli'[g] = cli[g] \/ (Known(g) /\ cli'[g].conn = cli[g].conn)
      BY <1>3, Typed DEF FreeResult, Inductive, CliRecord
    <2> QED
      BY <1>3, <2>1, <2>2, <2>3, <2>4, QuietStep, Typed
      DEF FreeResult, Inductive, Live, Creating
  <1> QED BY <1>1, <1>2, <1>3

\* The column information of an object changes.
LEMMA InfoChanged ==
  ASSUME Inductive, NEW o \in Objects, Live(o), NEW info \in {"none", "half", "full"},
         obj' = [obj EXCEPT ![o].info = info]
  PROVE  /\ obj' \in [Objects -> ObjectRecord]
         /\ \A p \in Objects : /\ Live(p)' <=> Live(p)
                               /\ obj'[p].conn = obj[p].conn /\ obj'[p].hstmt = obj[p].hstmt
  <1>1. obj[o].conn \in Conns
    BY DEF Inductive, InUse
  <1>2. obj' \in [Objects -> ObjectRecord]
    BY Typed DEF Inductive, ObjectRecord
  <1>3. \A p \in Objects : obj'[p].conn = obj[p].conn /\ obj'[p].hstmt = obj[p].hstmt
    BY Typed DEF Inductive, ObjectRecord
  <1>4. \A p \in Objects : Live(p)' <=> Live(p)
    <2>1. Live(o)'
      BY <1>1, <1>3, ConstantsAssumption DEF Live, Absent
    <2>2. \A p \in Objects \ {o} : obj'[p] = obj[p]
      BY Typed DEF Inductive
    <2> QED BY <2>1, <2>2 DEF Live
  <1> QED BY <1>2, <1>3, <1>4

LEMMA InfoStep ==
  ASSUME Inductive, Separate, NEW t \in Threads, NEW o \in Objects,
         NEW info \in {"none", "half", "full"},
         FreeResultEnd(t, o) \/ FieldDescribe(t, o, info) \/ FieldDescribeAgain(t, o, info)
  PROVE  Inductive'
  <1>1. CASE FieldDescribe(t, o, info)
    <2>1. Moves(t, "field", "end", NoConn, {o}, Invalid)
      BY <1>1, CallOnMoves DEF FieldDescribe, Inductive
    <2>2. Live(o) /\ (\A u \in Threads : o \notin Using(u)) /\ call[t].op # "free_stmt"
      BY <1>1 DEF FieldDescribe, Takes, Separate, Idle, NoCall, NewCall
    <2> QED
      BY <1>1, <2>1, <2>2, InfoChanged, QuietStep, Typed DEF FieldDescribe, Inductive, Creating
  <1>2. CASE FreeResultEnd(t, o) \/ FieldDescribeAgain(t, o, info)
    <2>1. Live(o) /\ call[t].op # "free_stmt"
      BY <1>2 DEF FreeResultEnd, FieldDescribeAgain, InStage, Inductive, InUse
    <2>2. PICK new \in {"none", "half", "full"} : obj' = [obj EXCEPT ![o].info = new]
      BY <1>2 DEF FreeResultEnd, FieldDescribeAgain
    <2> QED
      BY <1>2, <2>1, <2>2, InfoChanged, ReturnStep, Typed
      DEF FreeResultEnd, FieldDescribeAgain, Inductive
  <1> QED BY <1>1, <1>2

\* The owner that a call or an object is.
LEMMA OwnerOf ==
  /\ \A t \in Threads :
       LET x == <<"call", t>> IN
       /\ x \in Owners /\ (Owns(x) <=> Busy(t))
       /\ ConnOf(x) = call[t].conn /\ StmtOf(x) = call[t].hstmt
       /\ ConnOf(x)' = call'[t].conn /\ StmtOf(x)' = call'[t].hstmt /\ (Owns(x)' <=> Busy(t)')
  /\ \A o \in Objects :
       LET x == <<"object", o>> IN
       /\ x \in Owners /\ (Owns(x) <=> Mine(o))
       /\ ConnOf(x) = obj[o].conn /\ StmtOf(x) = obj[o].hstmt
       /\ ConnOf(x)' = obj'[o].conn /\ StmtOf(x)' = obj'[o].hstmt /\ (Owns(x)' <=> Mine(o)')
  BY DEF Owners, Owns, ConnOf, StmtOf

\* A call gets a statement: the others are owners as before.
LEMMA OthersOwn ==
  ASSUME NEW t \in Threads, NEW op, NEW at, NEW c, NEW objs, NEW h,
         Moves(t, op, at, c, objs, h), call[t].op # "free_stmt", obj' = obj,
         NEW y \in Owners, y # <<"call", t>>, Owns(y)'
  PROVE  Owns(y) /\ ConnOf(y)' = ConnOf(y) /\ StmtOf(y)' = StmtOf(y)
  <1>1. CASE y[1] = "object"
    <2>1. y[2] \in Objects
      BY <1>1 DEF Owners
    <2>2. Mine(y[2])' => Mine(y[2])
      BY <2>1, MineBefore DEF Mine, Live
    <2> QED BY <1>1, <2>1, <2>2 DEF Owns, ConnOf, StmtOf
  <1>2. CASE y[1] # "object"
    <2>1. y[2] \in Threads /\ y[2] # t
      BY <1>2 DEF Owners
    <2> QED BY <1>2, <2>1 DEF Owns, ConnOf, StmtOf, Busy, Moves
  <1> QED BY <1>1, <1>2

LEMMA AllocStmtStep ==
  ASSUME Inductive, Separate, NEW t \in Threads, NEW h \in Handles, AllocStmt(t, h)
  PROVE  Inductive'
  <1> DEFINE x == <<"call", t>>
             c == call[t].conn
  <1>1. "cli" \in StagesOf[call[t].op] /\ call[t].op \in Creating /\ call[t].op # "free_stmt"
    BY StageNames DEF AllocStmt, InStage, Creating
  <1>2. Moves(t, call[t].op, "cli", c, call[t].obj, h)
    BY <1>1, StageMoves DEF AllocStmt, Inductive
  <1>3. c \in Conns /\ c \in connected /\ cli[h] = NoStmt
    BY <1>1 DEF AllocStmt, Separate, Inductive, InUse
  <1>4. /\ cli' \in [Handles -> CliRecord] /\ cli'[h].conn = c
        /\ \A g \in Handles \ {h} : cli'[g] = cli[g]
    BY <1>3, Typed DEF AllocStmt, NewStmt, Inductive, CliRecord
  <1>5. UNCHANGED <<connected, active, obj, lost>>
    BY DEF AllocStmt
  <1>6. TypeOK'
    BY <1>2, <1>4, <1>5 DEF Inductive, TypeOK, Moves, CallRecord, CliRecord
  <1>7. InUse'
    BY <1>2, <1>3, <1>5, InUseKept DEF Inductive, InUse, Live
  <1>8. \A y \in Owners : Owns(y) => StmtOf(y) # h
    BY <1>3, ConstantsAssumption DEF Inductive, OwnersHold, Holds, Known, NoStmt, GoneStmt
  <1>9. x \in Owners /\ StmtOf(x)' = h /\ ConnOf(x)' = c
    BY <1>2, OwnerOf DEF Moves
  <1>10. \A y \in Owners \ {x} :
           Owns(y)' => Owns(y) /\ ConnOf(y)' = ConnOf(y) /\ StmtOf(y)' = StmtOf(y)
    BY <1>1, <1>2, <1>5, OthersOwn
  <1>11. Holds(ConnOf(x), StmtOf(x))'
    BY <1>3, <1>4, <1>5, <1>9, ConstantsAssumption DEF Holds, Known
  <1>12. OwnersHold' /\ OwnersApart'
    BY <1>4, <1>5, <1>8, <1>9, <1>10, <1>11, OwnerNew DEF Inductive
  <1> QED BY <1>6, <1>7, <1>12 DEF Inductive

LEMMA AllocInvalidStep ==
  ASSUME Inductive, Separate, NEW t \in Threads, AllocInvalid(t)
  PROVE  Inductive'
  <1> DEFINE x == <<"call", t>>
             c == call[t].conn
  <1>1. "cli" \in StagesOf[call[t].op] /\ call[t].op \in Creating /\ call[t].op # "free_stmt"
    BY StageNames DEF AllocInvalid, InStage, Creating
  <1>2. UNCHANGED <<connected, active, cli, obj, lost>>
    BY DEF AllocInvalid
  <1>3. CASE Return(t)
    BY <1>1, <1>2, <1>3, ReturnStep, Typed DEF Inductive, Live
  <1>4. CASE ~Return(t)
    <2>1. call' = [call EXCEPT ![t].at = "cli", ![t].hstmt = Invalid]
      BY <1>4 DEF AllocInvalid, Separate
    <2>2. Moves(t, call[t].op, "cli", c, call[t].obj, Invalid)
      BY <1>1, <2>1, StageMoves DEF Inductive
    <2>3. c \in Conns /\ c \notin connected
      BY <1>1 DEF AllocInvalid, Inductive, InUse
    <2>4. TypeOK'
      BY <1>2, <2>2 DEF Inductive, TypeOK, Moves, CallRecord
    <2>5. InUse'
      BY <1>2, <2>2, <2>3, InUseKept DEF Inductive, InUse, Live
    <2>6. x \in Owners /\ StmtOf(x)' = Invalid /\ ConnOf(x)' = c
      BY <2>2, OwnerOf DEF Moves
    <2>7. \A y \in Owners \ {x} :
            Owns(y)' => Owns(y) /\ ConnOf(y)' = ConnOf(y) /\ StmtOf(y)' = StmtOf(y)
      BY <1>1, <1>2, <2>2, OthersOwn
    <2>8. Holds(ConnOf(x), StmtOf(x))'
      BY <1>2, <2>3, <2>6 DEF Holds
    <2>9. OwnersHold' /\ OwnersApart'
      BY <1>2, <2>3, <2>6, <2>7, <2>8, OwnerNew DEF Inductive
    <2> QED BY <2>4, <2>5, <2>9 DEF Inductive
  <1> QED BY <1>3, <1>4

\* The object gets the statement of its call.
LEMMA ReturnStmtStep ==
  ASSUME Inductive, NEW t \in Threads, NEW o \in Objects, ReturnStmt(t, o)
  PROVE  Inductive'
  <1> DEFINE x == <<"object", o>>
             z == <<"call", t>>
             c == call[t].conn
             h == call[t].hstmt
  <1>1. call[t].op \in Creating /\ call[t].op # "free_stmt" /\ Busy(t) /\ ~Live(o)
    BY DEF ReturnStmt, InStage, Creating, Busy
  <1>2. Moves(t, "none", "none", NoConn, {}, Invalid)
    BY ReturnMoves DEF ReturnStmt, Inductive
  <1>3. c \in Conns /\ h \in Handles \cup {Invalid}
    BY <1>1, Typed DEF Inductive, InUse, CallRecord
  <1>4. UNCHANGED <<connected, active, cli, lost>>
    BY DEF ReturnStmt
  <1>5. /\ obj' \in [Objects -> ObjectRecord]
        /\ obj'[o].conn = c /\ obj'[o].hstmt = h
        /\ \A p \in Objects \ {o} : obj'[p] = obj[p]
    BY <1>3, Typed DEF ReturnStmt, Object, Inductive, ObjectRecord
  <1>6. TypeOK'
    BY <1>2, <1>4, <1>5 DEF Inductive, TypeOK, Moves, CallRecord, ObjectRecord
  <1>7. InUse'
    <2>1. \A p \in Objects : Live(p) => Live(p)'
      BY <1>1, <1>5 DEF Live
    <2>2. \A p \in Objects : Live(p)' => obj'[p].conn \in Conns
      BY <1>3, <1>5 DEF Live, Inductive, InUse
    <2> QED BY <1>2, <2>1, <2>2, InUseKept DEF Inductive, Creating
  <1>8. x \in Owners /\ StmtOf(x)' = h /\ ConnOf(x)' = c
    BY <1>5, OwnerOf
  <1>9. z \in Owners /\ Owns(z) /\ StmtOf(z) = h /\ ConnOf(z) = c /\ ~Owns(z)'
    BY <1>1, <1>2, OwnerOf DEF Moves, Busy
  <1>10. ASSUME NEW y \in Owners, y # x, Owns(y)'
         PROVE  Owns(y) /\ ConnOf(y)' = ConnOf(y) /\ StmtOf(y)' = StmtOf(y)
    <2>1. CASE y[1] = "object"
      <3>1. y[2] \in Objects /\ y[2] # o
        BY <1>10, <2>1 DEF Owners
      <3>2. Mine(y[2])' => Mine(y[2])
        BY <1>1, <1>2, <1>5, <3>1, MineBefore DEF Mine, Live
      <3> QED BY <1>5, <1>10, <2>1, <3>1, <3>2 DEF Owns, ConnOf, StmtOf
    <2>2. CASE y[1] # "object"
      <3>1. y[2] \in Threads /\ y[2] # t
        BY <1>9, <1>10, <2>2 DEF Owners
      <3> QED BY <1>2, <1>10, <2>2, <3>1 DEF Owns, ConnOf, StmtOf, Busy, Moves
    <2> QED BY <2>1, <2>2
  <1>11. \A y \in Owners \ {x} :
           Owns(y)' /\ ConnOf(y) \in connected /\ ConnOf(x)' \in connected => StmtOf(y) # h
    BY <1>8, <1>9, <1>10 DEF Inductive, OwnersApart
  <1>12. Holds(ConnOf(x), StmtOf(x))'
    BY <1>4, <1>8, <1>9 DEF Inductive, OwnersHold, Holds, Known
  <1>13. OwnersHold' /\ OwnersApart'
    BY <1>4, <1>8, <1>10, <1>11, <1>12, OwnerNew DEF Inductive
  <1> QED BY <1>6, <1>7, <1>13 DEF Inductive

\* Freeing the statement of an owner x that is none afterwards.
LEMMA OwnerFrees ==
  ASSUME TypeOK, OwnersHold, OwnersApart, NoneNew, connected' = connected,
         NEW x \in Owners, Owns(x), ~Owns(x)', FreeHandle(StmtOf(x))
  PROVE  /\ cli' \in [Handles -> CliRecord]
         /\ OwnersHold' /\ OwnersApart'
  <1> DEFINE h == StmtOf(x)
  <1>1. NoStmt \in CliRecord
    BY DEF NoStmt, CliRecord
  <1>2. cli' \in [Handles -> CliRecord]
    BY <1>1, Typed DEF FreeHandle
  <1>3. \A g \in Handles : cli'[g] = cli[g] \/ (g = h /\ Known(h))
    BY Typed DEF FreeHandle
  <1>4. Known(h) => ~\E y \in Owners : Owns(y)' /\ StmtOf(y) = h
    BY SoleOwner, OwnersBefore
  <1>5. OwnersHold' /\ OwnersApart'
    BY <1>3, <1>4, OwnersKept
  <1> QED BY <1>2, <1>5

LEMMA FreeFailedStep ==
  ASSUME Inductive, NEW t \in Threads, FreeFailed(t)
  PROVE  Inductive'
  <1> DEFINE z == <<"call", t>>
  <1>1. call[t].op # "free_stmt" /\ Busy(t)
    BY DEF FreeFailed, InStage, Busy
  <1>2. Moves(t, "none", "none", NoConn, {}, Invalid)
    BY ReturnMoves DEF FreeFailed, Inductive
  <1>3. UNCHANGED <<connected, active, obj, lost>>
    BY DEF FreeFailed
  <1>4. NoneNew
    <2>1. \A o \in Objects : Mine(o)' => Mine(o)
      BY <1>1, <1>2, <1>3, MineBefore DEF Mine, Live
    <2>2. \A u \in Threads :
            Busy(u)' => Busy(u) /\ call'[u].conn = call[u].conn /\ call'[u].hstmt = call[u].hstmt
      BY <1>2, BusyBefore
    <2> QED BY <1>3, <2>1, <2>2 DEF NoneNew
  <1>5. z \in Owners /\ Owns(z) /\ StmtOf(z) = call[t].hstmt /\ ~Owns(z)'
    BY <1>1, <1>2, OwnerOf DEF Moves, Busy
  <1>6. cli' \in [Handles -> CliRecord] /\ OwnersHold' /\ OwnersApart'
    BY <1>3, <1>4, <1>5, OwnerFrees DEF FreeFailed, FreeHandle, Inductive
  <1>7. TypeOK'
    BY <1>2, <1>3, <1>6 DEF Inductive, TypeOK, Moves, CallRecord, CliRecord
  <1>8. InUse'
    BY <1>2, <1>3, InUseKept DEF Inductive, InUse, Live, Creating
  <1> QED BY <1>6, <1>7, <1>8 DEF Inductive

LEMMA FreeStmtStep ==
  ASSUME Inductive, Separate, NEW t \in Threads, NEW o \in Objects, FreeStmt(t, o)
  PROVE  Inductive'
  <1> DEFINE x == <<"object", o>>
  <1>1. Live(o) /\ (\A u \in Threads : o \notin Using(u)) /\ call[t].op # "free_stmt"
    BY DEF FreeStmt, Takes, Separate, Idle, NoCall, NewCall
  <1>2. Moves(t, "free_stmt", "end", NoConn, {o}, Invalid)
    BY CallOnMoves DEF FreeStmt, Inductive
  <1>3. UNCHANGED <<connected, active, obj, lost>>
    BY DEF FreeStmt
  <1>4. NoneNew
    <2>1. \A p \in Objects : Mine(p)' => Mine(p)
      BY <1>1, <1>2, <1>3, MineBefore DEF Mine, Live
    <2>2. \A u \in Threads :
            Busy(u)' => Busy(u) /\ call'[u].conn = call[u].conn /\ call'[u].hstmt = call[u].hstmt
      BY <1>2, BusyBefore
    <2> QED BY <1>3, <2>1, <2>2 DEF NoneNew
  <1>5. Mine(o) /\ ~Mine(o)'
    <2>1. ~FreesAlready(o) /\ FreesAlready(o)'
      BY <1>1, <1>2 DEF FreesAlready, Using, Moves
    <2> QED BY <1>1, <2>1 DEF Mine, FreeStmt
  <1>6. x \in Owners /\ Owns(x) /\ StmtOf(x) = obj[o].hstmt /\ ~Owns(x)'
    BY <1>5, OwnerOf
  <1>7. cli' \in [Handles -> CliRecord] /\ OwnersHold' /\ OwnersApart'
    BY <1>3, <1>4, <1>6, OwnerFrees DEF FreeStmt, Inductive
  <1>8. TypeOK'
    BY <1>2, <1>3, <1>7 DEF Inductive, TypeOK, Moves, CallRecord, CliRecord
  <1>9. InUse'
    BY <1>1, <1>2, <1>3, InUseKept DEF Inductive, InUse, Live, Creating
  <1> QED BY <1>7, <1>8, <1>9 DEF Inductive

LEMMA FreeStmtEndStep ==
  ASSUME Inductive, NEW t \in Threads, NEW o \in Objects, FreeStmtEnd(t, o)
  PROVE  Inductive'
  <1>1. call[t].op = "free_stmt" /\ Live(o) /\ \A p \in Using(t) : p = o
    BY DEF FreeStmtEnd, InStage, Inductive, InUse
  <1>2. Moves(t, "none", "none", NoConn, {}, Invalid)
    BY ReturnMoves DEF FreeStmtEnd, Inductive
  <1>3. UNCHANGED <<connected, active, cli, lost>>
    BY DEF FreeStmtEnd
  <1>4. /\ obj' \in [Objects -> ObjectRecord]
        /\ obj'[o].hstmt = Freed /\ obj'[o].conn = obj[o].conn
        /\ \A p \in Objects \ {o} : obj'[p] = obj[p]
    BY Typed DEF FreeStmtEnd, Inductive, ObjectRecord
  <1>5. Live(o)' /\ ~Mine(o)'
    BY <1>4, ConstantsAssumption DEF Live, Absent, Mine
  <1>6. NoneNew
    <2>1. ASSUME NEW p \in Objects, Mine(p)'
          PROVE  Mine(p) /\ obj'[p] = obj[p]
      <3>1. p # o /\ obj'[p] = obj[p]
        BY <1>4, <1>5, <2>1
      <3>2. ~FreesAlready(p)
        BY <1>1, <1>2, <2>1, <3>1 DEF Mine, FreesAlready, Using, Moves
      <3> QED BY <2>1, <3>1, <3>2 DEF Mine, Live
    <2>2. \A u \in Threads :
            Busy(u)' => Busy(u) /\ call'[u].conn = call[u].conn /\ call'[u].hstmt = call[u].hstmt
      BY <1>2, BusyBefore
    <2> QED BY <2>1, <2>2 DEF NoneNew
  <1>7. OwnersHold' /\ OwnersApart'
    BY <1>3, <1>6, OwnersKept DEF Inductive
  <1>8. TypeOK'
    BY <1>2, <1>3, <1>4 DEF Inductive, TypeOK, Moves, CallRecord, ObjectRecord
  <1>9. InUse'
    <2>1. \A p \in Objects : (Live(p)' <=> Live(p)) /\ obj'[p].conn = obj[p].conn
      BY <1>1, <1>4, <1>5 DEF Live
    <2> QED BY <1>2, <2>1, InUseKept DEF Inductive, InUse, Creating
  <1> QED BY <1>7, <1>8, <1>9 DEF Inductive

LEMMA DropsUnused ==
  ASSUME Inductive, NEW o \in Objects, \A u \in Threads : o \notin Using(u), UNCHANGED call,
         ~Live(o)', \A p \in Objects \ {o} : obj'[p] = obj[p]
  PROVE  InUse'
  <1>1. \A u \in Threads : Using(u)' = Using(u)
    BY DEF Using
  <1>2. \A u \in Threads : \A p \in Using(u) : Live(p)'
    BY <1>1, Typed DEF Inductive, InUse, Live, Using, CallRecord
  <1>3. \A p \in Objects : Live(p)' => obj'[p].conn \in Conns
    BY DEF Inductive, InUse, Live
  <1> QED BY <1>1, <1>2, <1>3 DEF Inductive, InUse

LEMMA DropStep ==
  ASSUME Inductive, NEW t \in Threads, NEW o \in Objects, Drop(t, o)
  PROVE  Inductive'
  <1> DEFINE x == <<"object", o>>
  <1>1. Live(o) /\ \A u \in Threads : o \notin Using(u)
    BY DEF Drop, Unused
  <1>2. UNCHANGED <<connected, active, call, lost>>
    BY DEF Drop
  <1>3. /\ obj' \in [Objects -> ObjectRecord] /\ ~Live(o)'
        /\ \A p \in Objects \ {o} : obj'[p] = obj[p]
    BY Typed DEF Drop, Inductive, ObjectRecord, Absent, Live
  <1>4. NoneNew
    BY <1>2, <1>3 DEF NoneNew, Mine, Live, FreesAlready, Using, Busy
  <1>5. cli' \in [Handles -> CliRecord] /\ OwnersHold' /\ OwnersApart'
    <2>1. CASE obj[o].hstmt = Freed
      <3>1. cli' = cli
        BY <2>1 DEF Drop
      <3> QED BY <1>2, <1>4, <3>1, OwnersKept, Typed DEF Inductive
    <2>2. CASE obj[o].hstmt # Freed
      <3>1. Mine(o) /\ ~Mine(o)'
        BY <1>1, <1>3, <2>2 DEF Mine, FreesAlready
      <3>2. x \in Owners /\ Owns(x) /\ StmtOf(x) = obj[o].hstmt /\ ~Owns(x)'
        BY <3>1, OwnerOf
      <3>3. FreeHandle(StmtOf(x))
        BY <2>2, <3>2 DEF Drop
      <3> QED BY <1>2, <1>4, <3>2, <3>3, OwnerFrees DEF Inductive
    <2> QED BY <2>1, <2>2
  <1>6. TypeOK'
    BY <1>2, <1>3, <1>5 DEF Inductive, TypeOK, ObjectRecord, CliRecord
  <1>7. InUse'
    BY <1>1, <1>2, <1>3, DropsUnused
  <1> QED BY <1>5, <1>6, <1>7 DEF Inductive

LEMMA DropRefusedStep ==
  ASSUME Inductive, NEW t \in Threads, NEW o \in Objects, DropRefused(t, o)
  PROVE  Inductive'
  <1>1. Live(o) /\ \A u \in Threads : o \notin Using(u)
    BY DEF DropRefused, Unused
  <1>2. UNCHANGED <<connected, active, cli, call, lost>>
    BY DEF DropRefused
  <1>3. /\ obj' \in [Objects -> ObjectRecord] /\ ~Live(o)'
        /\ \A p \in Objects \ {o} : obj'[p] = obj[p]
    BY Typed DEF DropRefused, Inductive, ObjectRecord, Absent, Live
  <1>4. NoneNew
    BY <1>2, <1>3 DEF NoneNew, Mine, Live, FreesAlready, Using, Busy
  <1>5. OwnersHold' /\ OwnersApart'
    BY <1>2, <1>4, OwnersKept, Typed DEF Inductive
  <1>6. TypeOK'
    BY <1>2, <1>3 DEF Inductive, TypeOK, ObjectRecord
  <1>7. InUse'
    BY <1>1, <1>2, <1>3, DropsUnused
  <1> QED BY <1>5, <1>6, <1>7 DEF Inductive

LEMMA CloseStep ==
  ASSUME Inductive, NEW t \in Threads, NEW c \in Conns, Close(t, c)
  PROVE  Inductive'
  <1>1. Moves(t, "close", "end", c, {}, Invalid)
    BY CloseMoves DEF Inductive
  <1>2. call[t].op # "free_stmt"
    BY DEF Close, Idle, NoCall, NewCall
  <1>3. UNCHANGED <<active, obj, lost>> /\ connected' = connected \ {c}
    BY DEF Close
  <1>4. /\ cli' \in [Handles -> CliRecord]
        /\ \A h \in Handles : cli'[h] = IF cli[h].conn = c THEN GoneStmt ELSE cli[h]
    BY Typed DEF Close, Inductive, GoneStmt, CliRecord
  <1>5. TypeOK'
    BY <1>1, <1>3, <1>4 DEF Inductive, TypeOK, Moves, CallRecord, CliRecord
  <1>6. InUse'
    BY <1>1, <1>3, InUseKept DEF Inductive, InUse, Live, Creating
  <1>7. NoneNew
    <2>1. \A o \in Objects : Mine(o)' => Mine(o)
      BY <1>1, <1>2, <1>3, MineBefore DEF Mine, Live
    <2>2. \A u \in Threads :
            Busy(u)' => Busy(u) /\ call'[u].conn = call[u].conn /\ call'[u].hstmt = call[u].hstmt
      BY <1>1, BusyBefore
    <2> QED BY <1>3, <2>1, <2>2 DEF NoneNew
  <1>8. ASSUME NEW x \in Owners, Owns(x)'
        PROVE  /\ Owns(x) /\ ConnOf(x)' = ConnOf(x) /\ StmtOf(x)' = StmtOf(x)
               /\ Holds(ConnOf(x), StmtOf(x))'
    <2>1. Owns(x) /\ ConnOf(x)' = ConnOf(x) /\ StmtOf(x)' = StmtOf(x)
      BY <1>7, <1>8, OwnersBefore
    <2>2. Holds(ConnOf(x), StmtOf(x)) /\ StmtOf(x) \in Handles \cup {Invalid}
      BY <2>1, OwnedType DEF Inductive, OwnersHold
    <2> QED BY <1>3, <1>4, <2>1, <2>2, ConstantsAssumption DEF Holds, Known, GoneStmt
  <1>9. OwnersHold'
    BY <1>8 DEF OwnersHold, Owners
  <1>10. OwnersApart'
    BY <1>3, <1>8 DEF Inductive, OwnersApart, Owners
  <1> QED BY <1>5, <1>6, <1>9, <1>10 DEF Inductive

-----------------------------------------------------------------------------

LEMMA Initially ==
  ASSUME Init
  PROVE  Inductive
  <1>1. TypeOK
    BY StageNames DEF Init, TypeOK, NoStmt, Absent, NoCall, NewCall
  <1>2. \A t \in Threads : Using(t) = {} /\ ~Busy(t) /\ call[t].op \notin Creating
    BY DEF Init, Using, NoCall, NewCall, Busy, Creating
  <1>3. \A o \in Objects : ~Live(o)
    BY DEF Init, Live
  <1>4. \A x \in Owners : ~Owns(x)
    BY <1>2, <1>3 DEF Owners, Owns, Mine
  <1> QED BY <1>1, <1>2, <1>3, <1>4 DEF Inductive, InUse, OwnersHold, OwnersApart

LEMMA Stays ==
  ASSUME Inductive, Separate, [Next]_vars
  PROVE  Inductive'
  <1>1. CASE UNCHANGED vars
    <2>1. UNCHANGED <<connected, active, cli, obj, call, lost>>
      BY <1>1 DEF vars
    <2> QED
      BY <2>1
      DEF Inductive, TypeOK, InUse, OwnersHold, OwnersApart, Owns, ConnOf, StmtOf, Mine, Busy,
          Live, FreesAlready, Using, Holds, Known
  <1>2. ASSUME NEW t \in Threads, Creation(t)
        PROVE  Inductive'
    BY <1>1, <1>2, BeginStep, CloseStep, CatalogRefusedStep, AllocStmtStep, AllocInvalidStep,
       CreatingStep, FreeFailedStep, ReturnStmtStep, CloseEndStep
    DEF Creation
  <1>3. ASSUME NEW t \in Threads, NEW o \in Objects, Use(t, o)
        PROVE  Inductive'
    BY <1>3, UseStep, InfoStep, FreeStmtStep, FreeStmtEndStep, DropStep,
       DropRefusedStep
    DEF Use
  <1> QED BY <1>1, <1>2, <1>3 DEF Next

\* What OwnersHold and OwnersApart say in the terms of the properties.
LEMMA OwnersOf ==
  ASSUME Inductive
  PROVE  KeepsItsStatement /\ OneOwner
  <1>1. ASSUME NEW o \in Objects, NEW h \in OfObject(o)
        PROVE  LET x == <<"object", o>> IN
               x \in Owners /\ Owns(x) /\ ConnOf(x) \in connected /\ StmtOf(x) = h
                 /\ ConnOf(x) = obj[o].conn
    BY <1>1, OwnerOf DEF OfObject, Mine
  <1>2. ASSUME NEW t \in Threads, NEW h \in OfCall(t)
        PROVE  LET x == <<"call", t>> IN
               x \in Owners /\ Owns(x) /\ ConnOf(x) \in connected /\ StmtOf(x) = h
    BY <1>2, OwnerOf DEF OfCall, Busy
  <1>3. KeepsItsStatement
    BY <1>1 DEF KeepsItsStatement, Inductive, OwnersHold, Holds
  <1>4. OneOwner
    <2>1. ASSUME NEW o \in Objects, NEW p \in Objects, o # p
          PROVE  OfObject(o) \cap OfObject(p) = {}
      BY <1>1, <2>1 DEF Inductive, OwnersApart
    <2>2. ASSUME NEW t \in Threads, NEW u \in Threads, t # u
          PROVE  OfCall(t) \cap OfCall(u) = {}
      BY <1>2, <2>2 DEF Inductive, OwnersApart
    <2>3. ASSUME NEW o \in Objects, NEW t \in Threads
          PROVE  OfObject(o) \cap OfCall(t) = {}
      BY <1>1, <1>2 DEF Inductive, OwnersApart
    <2> QED BY <2>1, <2>2, <2>3 DEF OneOwner
  <1> QED BY <1>3, <1>4

LEMMA AlwaysInductive ==
  ASSUME Separate
  PROVE  Spec => []Inductive
  <1>1. Init => Inductive
    BY Initially
  <1>2. Inductive /\ [Next]_vars => Inductive'
    BY Stays
  <1> QED BY <1>1, <1>2, PTL DEF Spec

-----------------------------------------------------------------------------
(* What is left behind *)

\* A step that leaves the connections and the objects alone, and does not begin
\* to free one, takes a statement at most from the call that makes it.
LEMMA StillOwned ==
  ASSUME TypeOK, NEW t \in Threads, NEW op, NEW at, NEW c, NEW objs, NEW h,
         Moves(t, op, at, c, objs, h), op # "free_stmt", connected' = connected,
         \A o \in Objects : Live(o) =>
           Live(o)' /\ obj'[o].conn = obj[o].conn /\ obj'[o].hstmt = obj[o].hstmt,
         NEW g \in Handles, Owned(g),
         Busy(t) /\ call[t].hstmt = g =>
           at \in {"cli", "free", "return"} /\ c = call[t].conn /\ h = g
  PROVE  Owned(g)'
  <1>1. ASSUME NEW o \in Objects, g \in OfObject(o)
        PROVE  g \in OfObject(o)'
    BY <1>1 DEF OfObject, FreesAlready, Using, Moves
  <1>2. ASSUME NEW u \in Threads, g \in OfCall(u)
        PROVE  g \in OfCall(u)'
    BY <1>2 DEF OfCall, Busy, Moves
  <1> QED BY <1>1, <1>2 DEF Owned

LEMMA SameObjects ==
  ASSUME UNCHANGED obj
  PROVE  \A o \in Objects : Live(o) =>
           Live(o)' /\ obj'[o].conn = obj[o].conn /\ obj'[o].hstmt = obj[o].hstmt
  BY DEF Live

\* A freed statement is not left behind.
LEMMA FreedUnknown ==
  ASSUME TypeOK, NEW g \in Handles, FreeHandle(g), Known(g)'
  PROVE  FALSE
  BY Typed DEF FreeHandle, Known, NoStmt

LEMMA CreationLeaves ==
  ASSUME Inductive, Separate, NEW t \in Threads, Creation(t), NEW g \in Handles, LeftBehind(g)
  PROVE  Excused
  <1>1. Known(g) /\ Owned(g) /\ Known(g)' /\ ~Owned(g)'
    BY DEF LeftBehind
  <1>2. ASSUME NEW c \in Conns, Exec(t, c) \/ Prepare(t, c) \/ Catalog(t, c)
        PROVE  FALSE
    <2>1. PICK op \in {"exec", "prepare", "catalog"} : Begin(t, op, c)
      BY <1>2 DEF Exec, Prepare, Catalog
    <2>2. Moves(t, op, "alloc", c, {}, Invalid)
      BY <2>1, BeginMoves DEF Inductive
    <2>3. ~Busy(t) /\ UNCHANGED <<connected, obj>>
      BY <2>1 DEF Begin, Idle, NoCall, NewCall, Busy
    <2> QED BY <1>1, <2>2, <2>3, StillOwned, SameObjects DEF Inductive
  <1>3. ASSUME NEW c \in Conns, Close(t, c)
        PROVE  FALSE
    <2>1. Moves(t, "close", "end", c, {}, Invalid)
      BY <1>3, CloseMoves DEF Inductive
    <2>2. UNCHANGED obj /\ connected' = connected \ {c} /\ ~Busy(t)
      BY <1>3 DEF Close, Idle, NoCall, NewCall, Busy
    <2>3. cli'[g] = (IF cli[g].conn = c THEN GoneStmt ELSE cli[g])
      BY <1>3 DEF Close
    <2>4. cli[g].conn # c
      BY <1>1, <2>3 DEF Known, GoneStmt
    <2>5. ASSUME NEW o \in Objects, g \in OfObject(o)
          PROVE  g \in OfObject(o)'
      <3>1. cli[g].conn = obj[o].conn
        BY <2>5, OwnersOf DEF KeepsItsStatement
      <3> QED BY <2>1, <2>2, <2>4, <2>5, <3>1 DEF OfObject, Live, FreesAlready, Using, Moves
    <2>6. ASSUME NEW u \in Threads, g \in OfCall(u)
          PROVE  g \in OfCall(u)'
      <3>1. Busy(u) /\ call[u].hstmt = g /\ call[u].conn \in connected
        BY <2>6 DEF OfCall, Busy
      <3>2. cli[g].conn = call[u].conn
        BY <3>1, OwnerOf DEF Inductive, OwnersHold, Holds
      <3> QED BY <2>1, <2>2, <2>4, <3>1, <3>2 DEF OfCall, Busy, Moves
    <2> QED BY <1>1, <2>5, <2>6 DEF Owned
  <1>4. ASSUME CatalogRefused(t)
        PROVE  FALSE
    BY <1>1, <1>4
    DEF CatalogRefused, Owned, OfObject, OfCall, Live, FreesAlready, Using
  <1>5. ASSUME NEW h \in Handles, AllocStmt(t, h)
        PROVE  FALSE
    <2>1. "cli" \in StagesOf[call[t].op] /\ call[t].op # "free_stmt" /\ ~Busy(t)
      BY <1>5, StageNames DEF AllocStmt, InStage, Creating, Busy
    <2>2. Moves(t, call[t].op, "cli", call[t].conn, call[t].obj, h)
      BY <1>5, <2>1, StageMoves DEF AllocStmt, Inductive
    <2>3. UNCHANGED <<connected, obj>>
      BY <1>5 DEF AllocStmt
    <2> QED BY <1>1, <2>1, <2>2, <2>3, StillOwned, SameObjects DEF Inductive
  <1>6. ASSUME Return(t), UNCHANGED <<connected, obj>>, ~(Busy(t) /\ call[t].hstmt = g)
        PROVE  FALSE
    <2>1. Moves(t, "none", "none", NoConn, {}, Invalid)
      BY <1>6, ReturnMoves DEF Inductive
    <2> QED BY <1>1, <1>6, <2>1, StillOwned, SameObjects DEF Inductive
  <1>7. ASSUME NEW stage \in {"free", "return"}, stage \in StagesOf[call[t].op], Goto(t, stage),
               call[t].op # "free_stmt", UNCHANGED <<connected, obj>>
        PROVE  FALSE
    <2>1. Moves(t, call[t].op, stage, call[t].conn, call[t].obj, call[t].hstmt)
      BY <1>7, GotoMoves DEF Inductive
    <2> QED BY <1>1, <1>7, <2>1, StillOwned, SameObjects DEF Inductive
  <1>8. ASSUME AllocError(t) \/ CloseEnd(t)
        PROVE  FALSE
    BY <1>6, <1>8 DEF AllocError, CloseEnd, InStage, Busy
  <1>9. ASSUME AllocInvalid(t)
        PROVE  FALSE
    <2>1. ~Busy(t) /\ UNCHANGED <<connected, obj>>
      BY <1>9 DEF AllocInvalid, InStage, Busy
    <2>2. CASE Return(t)
      BY <1>6, <2>1, <2>2
    <2>3. CASE ~Return(t)
      <3>1. call' = [call EXCEPT ![t].at = "cli", ![t].hstmt = Invalid]
        BY <1>9, <2>3 DEF AllocInvalid, Separate
      <3>2. "cli" \in StagesOf[call[t].op] /\ call[t].op # "free_stmt"
        BY <1>9, StageNames DEF AllocInvalid, InStage, Creating
      <3>3. Moves(t, call[t].op, "cli", call[t].conn, call[t].obj, Invalid)
        BY <3>1, <3>2, StageMoves DEF Inductive
      <3> QED BY <1>1, <2>1, <3>2, <3>3, StillOwned, SameObjects DEF Inductive
    <2> QED BY <2>2, <2>3
  <1>10. ASSUME CliCall(t) \/ NoMoreResults(t)
         PROVE  FALSE
    BY <1>7, <1>10, StageNames DEF CliCall, NoMoreResults, InStage
  <1>11. ASSUME CliError(t)
         PROVE  Excused
    BY <1>7, <1>11, StageNames DEF CliError, InStage, Excused
  <1>12. ASSUME CliInvalid(t)
         PROVE  FALSE
    <2>1. call[t].hstmt # g
      BY <1>1, <1>12 DEF CliInvalid
    <2>2. CASE call[t].op = "exec"
      BY <1>7, <1>12, <2>2, StageNames DEF CliInvalid, InStage
    <2>3. CASE call[t].op = "prepare"
      BY <1>6, <1>12, <2>1, <2>3 DEF CliInvalid, InStage
    <2>4. CASE call[t].op = "catalog"
      BY <1>7, <1>12, <2>4, StageNames DEF CliInvalid, InStage
    <2> QED BY <1>12, <2>2, <2>3, <2>4 DEF CliInvalid, InStage
  <1>13. ASSUME FreeFailed(t)
         PROVE  FALSE
    <2>1. UNCHANGED <<connected, obj>> /\ Return(t)
      BY <1>13 DEF FreeFailed
    <2>2. CASE call[t].hstmt = g
      BY <1>1, <1>13, <2>2, FreedUnknown DEF FreeFailed, FreeHandle, Inductive
    <2>3. CASE call[t].hstmt # g
      BY <1>6, <2>1, <2>3
    <2> QED BY <2>2, <2>3
  <1>14. ASSUME NEW o \in Objects, ReturnStmt(t, o)
         PROVE  FALSE
    <2>1. Moves(t, "none", "none", NoConn, {}, Invalid)
      BY <1>14, ReturnMoves DEF ReturnStmt, Inductive
    <2>2. connected' = connected /\ ~Live(o) /\ Busy(t) /\ call[t].op \in Creating
      BY <1>14 DEF ReturnStmt, InStage, Busy
    <2>3. /\ obj'[o].conn = call[t].conn /\ obj'[o].hstmt = call[t].hstmt
          /\ \A p \in Objects \ {o} : obj'[p] = obj[p]
      BY <1>14, Typed DEF ReturnStmt, Object, Inductive, ObjectRecord
    <2>4. CASE call[t].hstmt = g
      <3>1. g \notin OfObject(o)' /\ \A u \in Threads : u # t => (g \in OfCall(u) => g \in OfCall(u)')
        BY <1>1, <2>1, <2>2 DEF Owned, OfCall, Moves
      <3>2. call[t].conn \in Conns /\ ~FreesAlready(o)'
        <4>1. \A u \in Threads : o \notin Using(u)'
          BY <2>1, <2>2 DEF Inductive, InUse, Using, Moves
        <4> QED BY <2>2, <4>1 DEF FreesAlready, Inductive, InUse
      <3>3. Live(o)' /\ g # Freed
        BY <2>3, <3>2, ConstantsAssumption DEF Live, Absent
      <3>4. call[t].conn \notin connected
        BY <2>2, <2>3, <2>4, <3>1, <3>2, <3>3 DEF OfObject
      <3>5. Holds(call[t].conn, g)
        BY <2>2, <2>4, OwnerOf DEF Inductive, OwnersHold
      <3>6. ~Known(g)
        BY <3>4, <3>5, ConstantsAssumption DEF Holds, Known, GoneStmt
      <3> QED BY <1>1, <3>6
    <2>5. CASE call[t].hstmt # g
      BY <1>1, <2>1, <2>2, <2>3, <2>5, StillOwned DEF Live, Inductive
    <2> QED BY <2>4, <2>5
  <1>15. ASSUME OptionsError(t) \/ FreeFailedRefused(t)
         PROVE  Excused
    BY <1>15 DEF Excused
  <1> QED
    BY <1>2, <1>3, <1>4, <1>5, <1>8, <1>9, <1>10, <1>11, <1>12, <1>13, <1>14, <1>15 DEF Creation

LEMMA UseLeaves ==
  ASSUME Inductive, Separate, NEW t \in Threads, NEW o \in Objects, Use(t, o),
         NEW g \in Handles, LeftBehind(g)
  PROVE  Excused
  <1>1. Known(g) /\ Owned(g) /\ Known(g)' /\ ~Owned(g)'
    BY DEF LeftBehind
  <1>2. ASSUME Takes(t, o)
        PROVE  Live(o) /\ (\A u \in Threads : o \notin Using(u)) /\ ~Busy(t)
    BY <1>2 DEF Takes, Separate, Idle, NoCall, NewCall, Busy
  <1>3. ASSUME NextResult(t, o)
        PROVE  FALSE
    <2>1. Moves(t, "next_result", "alloc", obj[o].conn, {o}, Invalid)
      BY <1>3, NextResultMoves DEF Inductive
    <2> QED BY <1>1, <1>2, <1>3, <2>1, StillOwned, SameObjects DEF NextResult, Inductive
  <1>4. ASSUME MoreResults(t, o)
        PROVE  FALSE
    <2>1. "return" \in StagesOf[call[t].op] /\ call[t].op # "free_stmt"
      BY <1>4, StageNames DEF MoreResults, InStage
    <2>2. Moves(t, call[t].op, "return", call[t].conn, call[t].obj, call[t].hstmt)
      BY <1>4, <2>1, GotoMoves DEF MoreResults, Inductive
    <2> QED BY <1>1, <1>4, <2>1, <2>2, StillOwned, SameObjects DEF MoreResults, Inductive
  <1>5. ASSUME FreeResult(t, o)
        PROVE  FALSE
    <2>1. Moves(t, "free_result", "end", NoConn, {o}, Invalid)
      BY <1>5, CallOnMoves DEF FreeResult, Inductive
    <2> QED BY <1>1, <1>2, <1>5, <2>1, StillOwned, SameObjects DEF FreeResult, Inductive
  <1>6. ASSUME NEW info \in {"none", "half", "full"},
               \/ FieldDescribe(t, o, info) \/ FieldDescribeAgain(t, o, info)
               \/ FreeResultEnd(t, o)
        PROVE  FALSE
    <2>1. Live(o) /\ ~Busy(t) /\ connected' = connected
      BY <1>2, <1>6
      DEF FieldDescribe, FieldDescribeAgain, FreeResultEnd, InStage, Inductive, InUse, Busy
    <2>2. PICK new \in {"none", "half", "full"} : obj' = [obj EXCEPT ![o].info = new]
      BY <1>6 DEF FieldDescribe, FieldDescribeAgain, FreeResultEnd
    <2>3. \A p \in Objects : Live(p) =>
            Live(p)' /\ obj'[p].conn = obj[p].conn /\ obj'[p].hstmt = obj[p].hstmt
      BY <2>1, <2>2, InfoChanged
    <2>4. CASE FieldDescribe(t, o, info)
      <3>1. Moves(t, "field", "end", NoConn, {o}, Invalid)
        BY <2>4, CallOnMoves DEF FieldDescribe, Inductive
      <3> QED BY <1>1, <2>1, <2>3, <3>1, StillOwned DEF Inductive
    <2>5. CASE Return(t)
      <3>1. Moves(t, "none", "none", NoConn, {}, Invalid)
        BY <2>5, ReturnMoves DEF Inductive
      <3> QED BY <1>1, <2>1, <2>3, <3>1, StillOwned DEF Inductive
    <2> QED BY <1>6, <2>4, <2>5 DEF FieldDescribeAgain, FreeResultEnd
  <1>7. ASSUME FreeStmt(t, o)
        PROVE  FALSE
    <2>1. Moves(t, "free_stmt", "end", NoConn, {o}, Invalid)
      BY <1>7, CallOnMoves DEF FreeStmt, Inductive
    <2>2. obj[o].hstmt # g
      BY <1>1, <1>7, FreedUnknown DEF FreeStmt, Inductive
    <2>3. UNCHANGED <<connected, obj>> /\ ~Busy(t)
      BY <1>2, <1>7 DEF FreeStmt
    <2>4. ASSUME NEW p \in Objects, g \in OfObject(p)
          PROVE  g \in OfObject(p)'
      BY <2>1, <2>2, <2>3, <2>4 DEF OfObject, Live, FreesAlready, Using, Moves
    <2>5. ASSUME NEW u \in Threads, g \in OfCall(u)
          PROVE  g \in OfCall(u)'
      BY <2>1, <2>3, <2>5 DEF OfCall, Busy, Moves
    <2> QED BY <1>1, <2>4, <2>5 DEF Owned
  <1>8. ASSUME FreeStmtEnd(t, o)
        PROVE  FALSE
    <2>1. Moves(t, "none", "none", NoConn, {}, Invalid)
      BY <1>8, ReturnMoves DEF FreeStmtEnd, Inductive
    <2>2. ~Busy(t) /\ connected' = connected /\ o \in Using(t) /\ call[t].op = "free_stmt"
      BY <1>8 DEF FreeStmtEnd, InStage, Busy
    <2>3. \A p \in Objects \ {o} : obj'[p] = obj[p]
      BY <1>8, Typed DEF FreeStmtEnd, Inductive
    <2>4. ASSUME NEW p \in Objects, g \in OfObject(p)
          PROVE  g \in OfObject(p)'
      <3>1. p # o
        BY <2>2, <2>4 DEF OfObject, FreesAlready
      <3> QED BY <2>1, <2>2, <2>3, <2>4, <3>1 DEF OfObject, Live, FreesAlready, Using, Moves
    <2>5. ASSUME NEW u \in Threads, g \in OfCall(u)
          PROVE  g \in OfCall(u)'
      BY <2>1, <2>2, <2>5 DEF OfCall, Busy, Moves
    <2> QED BY <1>1, <2>4, <2>5 DEF Owned
  <1>9. ASSUME Drop(t, o)
        PROVE  FALSE
    <2>1. UNCHANGED <<connected, call>>
      BY <1>9 DEF Drop
    <2>2. \A p \in Objects \ {o} : obj'[p] = obj[p]
      BY <1>9, Typed DEF Drop, Inductive
    <2>3. g \notin OfObject(o)
      <3>1. CASE obj[o].hstmt = g
        <4>1. g # Freed
          BY ConstantsAssumption
        <4> QED BY <1>1, <1>9, <3>1, <4>1, FreedUnknown DEF Drop, Inductive
      <3>2. CASE obj[o].hstmt # g
        BY <3>2 DEF OfObject
      <3> QED BY <3>1, <3>2
    <2>4. \A p \in Objects : g \in OfObject(p) => g \in OfObject(p)'
      BY <2>1, <2>2, <2>3 DEF OfObject, Live, FreesAlready, Using
    <2>5. \A u \in Threads : g \in OfCall(u) => g \in OfCall(u)'
      BY <2>1 DEF OfCall
    <2> QED BY <1>1, <2>4, <2>5 DEF Owned
  <1>10. ASSUME DropRefused(t, o)
         PROVE  Excused
    BY <1>10 DEF Excused
  <1> QED BY <1>3, <1>4, <1>5, <1>6, <1>7, <1>8, <1>9, <1>10 DEF Use

\* Every reachable state is well-formed.
THEOREM TypeCorrect ==
  ASSUME Separate
  PROVE  Spec => []TypeOK
  <1>1. Inductive => TypeOK
    BY DEF Inductive
  <1> QED BY <1>1, AlwaysInductive, PTL

\* An object that was not freed keeps its statement as long as its connection
\* lives, for any threads, connections and objects, in any order of the CLI
\* calls of all functions (free_stmt, the destructor, close and the rest).
THEOREM StatementsKept ==
  ASSUME Separate
  PROVE  Spec => []KeepsItsStatement
  <1>1. Inductive => KeepsItsStatement
    BY OwnersOf
  <1> QED BY <1>1, AlwaysInductive, PTL

\* No two objects or calls in progress answer for the same statement, so none is
\* freed twice and none is freed by someone else.
THEOREM OneOwnerEach ==
  ASSUME Separate
  PROVE  Spec => []OneOwner
  <1>1. Inductive => OneOwner
    BY OwnersOf
  <1> QED BY <1>1, AlwaysInductive, PTL

\* No statement is left behind by any step but the errors named in Excused,
\* those of SQLFreeHandle among them.
THEOREM NothingLeft ==
  ASSUME Separate
  PROVE  Spec => NoneLeftBehind
  <1> DEFINE Kept == \A h \in Handles : LeftBehind(h) => Excused
  <1>1. Inductive /\ [Next]_vars => [Kept]_vars
    BY CreationLeaves, UseLeaves DEF Next
  <1> QED BY <1>1, AlwaysInductive, PTL DEF Spec, NoneLeftBehind

\* The returns of the ten catalog functions give back the references that the
\* function has taken, whatever the threads do, if the connection is one and
\* `unique' a bool: the returns that refuse those lose references.
THEOREM ReferencesKept ==
  ASSUME ~Misuse
  PROVE  Spec => []ReferencesGivenBack
  <1>1. Init => ReferencesGivenBack
    BY DEF Init, ReferencesGivenBack
  <1>2. ReferencesGivenBack /\ [Next]_vars => ReferencesGivenBack'
    <2> SUFFICES ASSUME lost = {}, [Next]_vars
                 PROVE  lost' = lost
      BY DEF ReferencesGivenBack
    <2>1. ASSUME NEW t \in Threads, Creation(t)
          PROVE  lost' = lost
      <3>1. \A c \in Conns : Exec(t, c) \/ Prepare(t, c) \/ Catalog(t, c) \/ Close(t, c)
                               => lost' = lost
        BY NothingLost DEF Exec, Prepare, Catalog, Close
      <3>2. CatalogRefused(t) => lost' = lost
        BY NothingLost DEF CatalogRefused
      <3> QED
        BY <2>1, <3>1, <3>2
        DEF Creation, AllocStmt, AllocError, AllocInvalid, OptionsError, CliCall, CliError,
            CliInvalid, FreeFailed, FreeFailedRefused, ReturnStmt, NoMoreResults, CloseEnd
    <2>2. ASSUME NEW t \in Threads, NEW o \in Objects, Use(t, o)
          PROVE  lost' = lost
      BY <2>2
      DEF Use, NextResult, MoreResults, FreeStmt, FreeStmtEnd, FreeResult, FreeResultEnd, Drop,
          DropRefused, FieldDescribe, FieldDescribeAgain
    <2> QED BY <2>1, <2>2 DEF Next, vars
  <1> QED BY <1>1, <1>2, PTL DEF Spec
=============================================================================
