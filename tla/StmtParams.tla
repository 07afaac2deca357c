----------------------------- MODULE StmtParams -----------------------------
(***************************************************************************)
(* The parameters of a prepared statement in the C extension: bind_param,  *)
(* execute with and without a tuple of values, execute_many.  A stmt_handle *)
(* caches the parameters in a list (head_cache_list); execute binds their  *)
(* values with the CLI, which reads the bound buffers in SQLExecute.       *)
(*                                                                         *)
(* External: the CLI statement.  It keeps the address of a buffer for each *)
(* parameter until another is bound: nothing in the code resets them.      *)
(* SQLExecute fails when a marker has none.  The statement has M markers;  *)
(* input parameters only.                                                  *)
(***************************************************************************)
EXTENDS Naturals, Sequences

CONSTANTS
  M,          \* the parameter markers of the statement
  Values,     \* values that can be bound
  BadValues,  \* values of a type that cannot
  Lengths,    \* the lengths of the tuples that callers pass
  RowLengths, \* those of the rows of a batch
  MaxRows,    \* the rows of a batch, at most
  MaxParams,  \* a bound for num_params, which can grow without end
  Ops,        \* the functions called, of OpKinds
  Faults      \* the CLI calls that may fail, of FaultKinds

OpKinds == {"bind_param", "execute", "tuple", "many", "free"}
FaultKinds == {"describe", "execute", "chain", "put_data", "param_data",
               "num_params"}

NULL == "NULL"
Unbound == "Unbound"
Freed == "Freed"          \* the buffer was freed: whatever is there now
Given == Values \cup BadValues

ASSUME ConstantsAssumption ==
  /\ M \in Nat \ {0}
  /\ Values \cap BadValues = {}
  /\ {NULL, Unbound, Freed} \cap Given = {}
  /\ Lengths \subseteq Nat /\ RowLengths \subseteq Nat
  /\ MaxRows \in Nat /\ MaxParams \in Nat
  /\ Ops \subseteq OpKinds
  /\ Faults \subseteq FaultKinds

VARIABLES
  cache,       \* head_cache_list: nodes with param_num and var_pyvalue
  num_params,  \* stmt_res->num_params
  cli,         \* what the CLI finds in the buffer bound for each parameter
  call,        \* the function in progress
  sent,        \* what each SQLExecute of the last call has sent, in order
  given,       \* the tuples of values that the last call was given so far
  declared,    \* the value of each marker's last bind_param, or NULL when a
               \* tuple, a batch or free_result has replaced the list since
  answer       \* what the last call returned

vars == <<cache, num_params, cli, call, sent, given, declared, answer>>

\* Parameter numbers: bind_param may be given one that no marker has.
Params == 1 .. M + 1
Markers == 1 .. M

OfLengths(lengths) == UNION {[1 .. n -> Given] : n \in lengths}

NoCall == [at |-> "idle", values |-> <<>>, next |-> 0, count |-> 0,
           dynamic |-> FALSE, warned |-> FALSE, chaining |-> FALSE, errors |-> 0]
Idle == call = NoCall /\ answer \notin {"crash", "hang"}
Stages == {"idle", "bind_list", "bind_tuple", "execute", "describe", "rows"}

Node(p, v) == [param |-> p, var |-> v]

TypeOK ==
  /\ cache \in Seq([param : Params, var : Given \cup {NULL}])
  /\ num_params \in Nat
  /\ cli \in [Params -> Values \cup {Unbound, Freed}]
  /\ call \in [at : Stages, values : Seq(Given), next : Nat, count : Nat,
               dynamic : BOOLEAN, warned : BOOLEAN, chaining : BOOLEAN, errors : Nat]
  /\ sent \in Seq([Markers -> Values \cup {Freed}])
  /\ given \in Seq(Seq(Given))
  /\ declared \in [Markers -> Given \cup {NULL}]
  /\ answer \in {"none", "true", "error", "count", "crash", "hang"}

Init ==
  /\ cache = <<>>
  /\ num_params = 0
  /\ cli = [p \in Params |-> Unbound]
  /\ call = NoCall
  /\ sent = <<>>
  /\ given = <<>>
  /\ declared = [p \in Markers |-> NULL]
  /\ answer = "none"

Calling(op) == op \in Ops /\ Idle

\* What a call finds in num after SQLNumParams, whose result is not looked at.
Counts == {M} \cup IF "num_params" \in Faults THEN {0} ELSE {}

Begin(new, tuples) ==
  /\ call' = [new EXCEPT !.next = 1]
  /\ sent' = <<>>
  /\ given' = tuples
  /\ UNCHANGED answer

\* The call ends; what it has left in the statement stays there.
Return(a) == call' = NoCall /\ answer' = a

\* A call that ends before it has changed anything.
ReturnAtOnce(a) == Return(a) /\ sent' = <<>> /\ given' = <<>>

-----------------------------------------------------------------------------
(* bind_param *)

\* The place of parameter p in the list: after those with a smaller number.
Smaller(p) == {i \in DOMAIN cache : \A j \in 1 .. i : cache[j].param < p}
Place(p) == IF Smaller(p) = {} THEN 1
            ELSE 1 + CHOOSE i \in Smaller(p) : \A j \in Smaller(p) : j <= i
IsCached(p) == Place(p) \in DOMAIN cache /\ cache[Place(p)].param = p

\* A number below the head's: prev is the head when the node is linked, so the
\* node follows the head, and the head follows the node.  The other nodes are
\* lost, and from then on the list is the head and that node, in a circle.
BeforeHead(p) == cache # <<>> /\ p < cache[1].param
Circular == Len(cache) > 1 /\ cache[2].param < cache[1].param

\* MUTANT: a new parameter goes to the end of the list.
AddParamCache_Append(p, v) ==
  IF IsCached(p)
  THEN /\ cache' = [cache EXCEPT ![Place(p)] = Node(p, v)]
       /\ UNCHANGED num_params
  ELSE /\ cache' = Append(cache, Node(p, v))
       /\ num_params' = num_params + 1

\* MUTANT: a parameter that is there keeps its value.
AddParamCache_Keeps(p, v) ==
  IF IsCached(p)
  THEN UNCHANGED <<cache, num_params>>
  ELSE /\ num_params' = num_params + 1
       /\ cache' = IF BeforeHead(p) THEN <<cache[1], Node(p, v)>>
                   ELSE SubSeq(cache, 1, Place(p) - 1) \o <<Node(p, v)>>
                          \o SubSeq(cache, Place(p), Len(cache))

\* A new parameter goes to its place, if that is not before the head; one that
\* is there gets the new value.
AddParamCache(p, v) ==
  IF IsCached(p)
  THEN /\ cache' = [cache EXCEPT ![Place(p)] = Node(p, v)]
       /\ UNCHANGED num_params
  ELSE /\ num_params' = num_params + 1
       /\ cache' = IF BeforeHead(p) THEN <<cache[1], Node(p, v)>>
                   ELSE SubSeq(cache, 1, Place(p) - 1) \o <<Node(p, v)>>
                          \o SubSeq(cache, Place(p), Len(cache))

\* The search for a place goes round for ever.
Searches(p) == Circular /\ p > cache[1].param

\* With three to six arguments the parameter is described first, with more
\* the caller gives its type.
BindParam(p, v) ==
  /\ Calling("bind_param")
  /\ ~Searches(p)
  /\ IsCached(p) => cache[Place(p)].var # NULL
  /\ AddParamCache(p, v)
  /\ num_params' <= MaxParams
  /\ declared' = [q \in Markers |-> IF q = p THEN v ELSE declared[q]]
  /\ ReturnAtOnce("true")
  /\ UNCHANGED cli

BindParamFails(p) ==
  /\ Calling("bind_param")
  /\ p \notin Markers \/ "describe" \in Faults
  /\ ReturnAtOnce("error")
  /\ UNCHANGED <<cache, num_params, cli, declared>>

\* Py_DECREF of the value that the node does not have.
BindParamCrashes(p) ==
  /\ Calling("bind_param")
  /\ ~Searches(p)
  /\ IsCached(p) /\ cache[Place(p)].var = NULL
  /\ Return("crash")
  /\ UNCHANGED <<cache, num_params, cli, sent, given, declared>>

BindParamHangs(p) ==
  /\ Calling("bind_param")
  /\ Searches(p)
  /\ Return("hang")
  /\ UNCHANGED <<cache, num_params, cli, sent, given, declared>>

-----------------------------------------------------------------------------
(* execute without a tuple *)

\* More markers than parameters: the exception is set and the call goes on.
\* If no marker was counted, nothing is bound.
Execute(num) ==
  /\ Calling("execute")
  /\ IF num = 0 THEN Begin([NoCall EXCEPT !.at = "execute"], <<>>)
     ELSE IF num < num_params \/ cache = <<>>
     THEN ReturnAtOnce("error")
     ELSE Begin([NoCall EXCEPT !.at = "bind_list", !.count = Len(cache),
                               !.warned = num > num_params], <<>>)
  /\ UNCHANGED <<cache, num_params, cli, declared>>

\* The last value is bound: SQLExecute is next.  In a circle there is no last.
Bound == IF call.next >= call.count THEN "execute" ELSE call.at
NextValue == [call EXCEPT !.at = Bound, !.next = @ + 1]
NextNode ==
  IF Circular THEN [call EXCEPT !.next = IF @ = 1 THEN 2 ELSE 1] ELSE NextValue

\* One iteration of the loop over the complete list.
BindCached ==
  /\ call.at = "bind_list"
  /\ LET node == cache[call.next] IN
       IF node.var \in Values
       THEN /\ cli' = [cli EXCEPT ![node.param] = node.var]
            /\ call' = NextNode
            /\ UNCHANGED answer
       ELSE Return("error") /\ UNCHANGED cli
  /\ UNCHANGED <<cache, num_params, sent, given, declared>>

-----------------------------------------------------------------------------
(* execute with a tuple *)

ExecuteTuple(values, num) ==
  /\ Calling("tuple")
  /\ LET opts == IF Len(values) > num THEN num_params ELSE Len(values) IN
       IF num = 0 THEN Begin([NoCall EXCEPT !.at = "execute"], <<values>>)
       ELSE IF Len(values) < num
       THEN ReturnAtOnce("error")
       ELSE Begin([NoCall EXCEPT
                     !.at = IF opts = 0 THEN "execute" ELSE "bind_tuple",
                     !.values = values, !.count = opts,
                     !.dynamic = (cache = <<>>), !.warned = Len(values) > num],
                  <<values>>)
  /\ declared' = [p \in Markers |-> NULL]
  /\ UNCHANGED <<cache, num_params, cli>>

BindingTuple(dynamic) ==
  /\ call.at = "bind_tuple"
  /\ call.dynamic = dynamic
  /\ UNCHANGED <<sent, given, declared>>

\* There is no item of the tuple left: nothing is bound.
NoItem ==
  /\ \E dynamic \in BOOLEAN : BindingTuple(dynamic)
  /\ call.next > Len(call.values)
  /\ call' = NextValue
  /\ UNCHANGED <<cache, num_params, cli, answer>>

\* No parameters were cached: the next one is described, cached and bound.
BindDescribed ==
  LET p == num_params + 1
      v == call.values[call.next] IN
  /\ BindingTuple(TRUE)
  /\ call.next <= Len(call.values)
  /\ p \in Markers
  /\ num_params' = p
  /\ cache' = Append(cache, Node(p, NULL))
  /\ IF v \in Values
     THEN /\ cli' = [cli EXCEPT ![p] = v]
          /\ call' = NextValue
          /\ UNCHANGED answer
     ELSE Return("error") /\ UNCHANGED cli

\* SQLDescribeParam fails; the number of parameters is counted already.
DescribeFails ==
  /\ BindingTuple(TRUE)
  /\ call.next <= Len(call.values)
  /\ num_params + 1 \notin Markers \/ "describe" \in Faults
  /\ num_params < MaxParams
  /\ num_params' = num_params + 1
  /\ Return("error")
  /\ UNCHANGED <<cache, cli>>

\* stmt_res->current_node, as the place of a node of the list.
CurrentNode == IF Circular THEN 2 - (call.next % 2) ELSE call.next

\* Parameters were cached: the next node takes the value, and if there is no
\* node any more nothing does.
BindCurrent ==
  /\ BindingTuple(FALSE)
  /\ call.next <= Len(call.values)
  /\ LET v == call.values[call.next] IN
       IF CurrentNode > Len(cache)
       THEN call' = NextValue /\ UNCHANGED <<cli, answer>>
       ELSE IF v \in Values
       THEN /\ cli' = [cli EXCEPT ![cache[CurrentNode].param] = v]
            /\ call' = NextValue
            /\ UNCHANGED answer
       ELSE Return("error") /\ UNCHANGED cli
  /\ UNCHANGED <<cache, num_params>>

-----------------------------------------------------------------------------
(* SQLExecute *)

AllBound(buffers) == \A p \in Markers : buffers[p] # Unbound
Sends(buffers) == sent' = Append(sent, [p \in Markers |-> buffers[p]])

\* _python_ibm_db_clear_param_cache: the bound buffers go with the nodes.
ClearParamCache ==
  /\ cache' = <<>>
  /\ num_params' = 0
  /\ cli' = [p \in Params |->
               IF \E i \in DOMAIN cache : cache[i].param = p /\ cli[p] # Unbound
               THEN Freed ELSE cli[p]]

\* free_result clears the cache of parameters as well.
FreeResult ==
  /\ Calling("free")
  /\ ~Circular
  /\ ClearParamCache
  /\ ReturnAtOnce("true")
  /\ declared' = [p \in Markers |-> NULL]

\* In a circle the head is freed a second time.
FreeResultCrashes ==
  /\ Calling("free")
  /\ Circular
  /\ Return("crash")
  /\ UNCHANGED <<cache, num_params, cli, sent, given, declared>>

\* The statement is executed; data at execution goes with it.  A True that is
\* returned with the exception set is an error to the caller.
SqlExecute ==
  /\ call.at = "execute"
  /\ AllBound(cli)
  /\ Sends(cli)
  /\ IF call.dynamic THEN ClearParamCache
     ELSE UNCHANGED <<cache, num_params, cli>>
  /\ Return(IF call.warned THEN "error" ELSE "true")
  /\ UNCHANGED <<given, declared>>

SqlExecuteFails ==
  /\ call.at = "execute"
  /\ ~AllBound(cli) \/ "execute" \in Faults
  /\ Return("error")
  /\ UNCHANGED <<cache, num_params, cli, sent, given, declared>>

-----------------------------------------------------------------------------
(* execute_many *)

\* The list is dropped, not freed: what the CLI has bound stays there.
\* numOfRows is n, the rows are chosen as they come.
ExecuteMany(n, num) ==
  /\ Calling("many")
  /\ cache' = <<>>
  /\ IF num = 0 /\ n = 0 THEN ReturnAtOnce("count")
     ELSE Begin([NoCall EXCEPT !.at = IF num = 0 THEN "rows" ELSE "describe",
                               !.count = n], <<>>)
  /\ declared' = [p \in Markers |-> NULL]
  /\ UNCHANGED <<num_params, cli>>

\* A marker is described and cached; num_params does not count it.
DescribeMarker ==
  /\ call.at = "describe"
  /\ cache' = Append(cache, Node(call.next, NULL))
  /\ IF call.next < M THEN /\ call' = [call EXCEPT !.next = @ + 1]
                           /\ UNCHANGED answer
     ELSE IF call.count = 0 THEN Return("count")
     ELSE /\ call' = [call EXCEPT !.at = "rows", !.next = 1]
          /\ UNCHANGED answer
  /\ UNCHANGED <<num_params, cli, sent, given, declared>>

DescribeMarkerFails ==
  /\ call.at = "describe"
  /\ "describe" \in Faults
  /\ Return("error")
  /\ UNCHANGED <<cache, num_params, cli, sent, given, declared>>

\* A row is looked at: it goes to the end of those given.
Row(values) ==
  /\ call.at = "rows" /\ call.next <= call.count
  /\ given' = Append(given, values)
  /\ UNCHANGED <<cache, num_params, declared>>

\* MUTANT: a value of an unknown type is bound as it is.
BoundRow_Any(values) ==
  [p \in Params |-> IF p \in DOMAIN values THEN values[p] ELSE cli[p]]

\* The values before the first that cannot be bound are bound.
BoundRow(values) ==
  [p \in Params |-> IF p \in DOMAIN values /\ \A q \in 1 .. p : values[q] \in Values
                    THEN values[p] ELSE cli[p]]

\* The list has a node for each marker that was counted.
FitsMarkers(values) == Len(values) = Len(cache)

CanBind(values) == \A p \in DOMAIN values : values[p] \in Values

\* MUTANT: the error of the client is not counted.
RowRefused_Silent(values) ==
  /\ Row(values)
  /\ ~(FitsMarkers(values) /\ CanBind(values))
  /\ cli' = IF FitsMarkers(values) THEN BoundRow(values) ELSE cli
  /\ call' = [call EXCEPT !.next = @ + 1]
  /\ UNCHANGED <<sent, answer>>

\* An error of the client is noted, and the loop goes on with the next row.
RowRefused(values) ==
  /\ Row(values)
  /\ ~(FitsMarkers(values) /\ CanBind(values))
  /\ cli' = IF FitsMarkers(values) THEN BoundRow(values) ELSE cli
  /\ call' = [call EXCEPT !.next = @ + 1, !.errors = @ + 1]
  /\ UNCHANGED <<sent, answer>>

RowBinds(values) ==
  /\ Row(values)
  /\ FitsMarkers(values) /\ CanBind(values)
  /\ cli' = BoundRow(values)

\* The row is bound, the chain begun with the first, and SQLExecute sends it.
RowSent(values) ==
  /\ RowBinds(values)
  /\ AllBound(cli')
  /\ Sends(cli')
  /\ call' = [call EXCEPT !.next = @ + 1, !.chaining = TRUE]
  /\ UNCHANGED answer

\* SQL_ATTR_CHAINING_BEGIN fails.
ChainNotBegun(values) ==
  /\ RowBinds(values)
  /\ ~call.chaining /\ "chain" \in Faults
  /\ Return("error")
  /\ UNCHANGED sent

\* SQLExecute fails: the error is noted, and the loop is left.
RowFails(values) ==
  /\ RowBinds(values)
  /\ ~AllBound(cli') \/ "execute" \in Faults
  /\ call' = [call EXCEPT !.next = call.count + 1, !.chaining = TRUE, !.errors = @ + 1]
  /\ UNCHANGED <<sent, answer>>

\* Data at execution: an error of SQLPutData is noted, one that SQLParamData
\* returns is not looked at.
RowDataFails(values) ==
  /\ RowBinds(values)
  /\ AllBound(cli')
  /\ \E fault \in {"put_data", "param_data"} \cap Faults :
       call' = [call EXCEPT !.next = @ + 1, !.chaining = TRUE,
                  !.errors = IF fault = "put_data" THEN @ + 1 ELSE @]
  /\ UNCHANGED <<sent, answer>>

BatchOver == call.at = "rows" /\ call.next > call.count

\* MUTANT: the errors of the client do not count.
BatchEnds_ServerOnly(chained) ==
  /\ BatchOver
  /\ ~chained => "chain" \in Faults
  /\ Return(IF chained THEN "count" ELSE "error")
  /\ UNCHANGED <<cache, num_params, cli, sent, given, declared>>

\* SQL_ATTR_CHAINING_END, which fails also for the rows that the server
\* refused, and SQLRowCount.
BatchEnds(chained) ==
  /\ BatchOver
  /\ ~chained => "chain" \in Faults
  /\ Return(IF chained /\ call.errors = 0 THEN "count" ELSE "error")
  /\ UNCHANGED <<cache, num_params, cli, sent, given, declared>>

-----------------------------------------------------------------------------

RowStep(values) ==
  \/ RowRefused(values) \/ RowSent(values) \/ ChainNotBegun(values)
  \/ RowFails(values) \/ RowDataFails(values)

Next ==
  \/ \E p \in Params : \/ BindParamFails(p) \/ BindParamCrashes(p)
                       \/ BindParamHangs(p)
                       \/ \E v \in Given : BindParam(p, v)
  \/ \E num \in Counts : Execute(num)
  \/ BindCached
  \/ \E values \in OfLengths(Lengths), num \in Counts : ExecuteTuple(values, num)
  \/ NoItem \/ BindDescribed \/ DescribeFails \/ BindCurrent
  \/ SqlExecute \/ SqlExecuteFails
  \/ FreeResult \/ FreeResultCrashes
  \/ \E n \in 0 .. MaxRows, num \in Counts : ExecuteMany(n, num)
  \/ DescribeMarker \/ DescribeMarkerFails
  \/ \E values \in OfLengths(RowLengths) : RowStep(values)
  \/ \E chained \in BOOLEAN : BatchEnds(chained)

Spec == Init /\ [][Next]_vars

-----------------------------------------------------------------------------
(* Properties *)

\* Whatever came before, as long as no parameter is cached, or each marker is
\* (one after another: the list is no circle), and the markers are counted: the
\* values go to the markers in order.
EachCached == ~Circular /\ \A p \in Markers : \E i \in DOMAIN cache : cache[i].param = p
SendsIfComplete ==
  [][SqlExecute /\ given # <<>> /\ Len(given[1]) = M /\ (call.dynamic \/ EachCached) =>
       sent'[1] = given[1]]_vars

\* If execute without a tuple comes to SQLExecute (with a circle it never does),
\* and the markers were counted, it sends to each marker the value that its last
\* successful bind_param gave it, whatever tuples, batches and failed calls came
\* before that.
SendsDeclared ==
  [][SqlExecute /\ given = <<>> /\ (\A p \in Markers : declared[p] # NULL) =>
       \A p \in Markers : sent'[1][p] = declared[p]]_vars

\* execute_many answers with a count only if each row of the batch was sent
\* as it was given; otherwise the caller gets an error.
CountMeansAll ==
  [][call # NoCall /\ call' = NoCall /\ answer' = "count" =>
       sent' = given' /\ Len(given') = call.count]_vars

\* Each row that was looked at has been sent or has its error in the list.
RowsAccounted ==
  call.at = "rows" => Len(given) = Len(sent) + call.errors

-----------------------------------------------------------------------------
(* What the documentation says and the code does not do (see the README) *)

\* The i-th value of the tuple goes to the i-th marker: what SQLExecute sends
\* is what this call was given, whatever calls, failed ones too, came before.
SendsTuple ==
  [][SqlExecute /\ given # <<>> => sent'[1] = SubSeq(given[1], 1, M)]_vars

\* "All the rows executed except for which error occurs": when the batch is
\* over, each of its rows was sent or has an error of its own.
OnlyFailedRowsLeftOut ==
  [][BatchOver => call.count = Len(sent) + call.errors]_vars

\* More values than markers: the first ones are used.
MaxNumberUsed ==
  [][SqlExecute /\ given # <<>> /\ Len(given[1]) > M =>
       sent'[1] = SubSeq(given[1], 1, M)]_vars

\* The parameters may be declared in any order ("the 1-indexed position of the
\* parameter in the prepared statement"): each stays in the list, from which
\* execute takes the values.
DeclaredListed ==
  \A p \in Markers : declared[p] # NULL =>
    \E i \in DOMAIN cache : cache[i] = Node(p, declared[p])

\* execute without a tuple, once it has begun to bind the list, has an end.
BindingEnds ==
  [][call.at = "bind_list" /\ call'.at = "bind_list" => call'.next > call.next]_vars

\* bind_param returns: with True or an exception.
BindParamReturns == answer \notin {"crash", "hang"}

-----------------------------------------------------------------------------
(* The inductive invariants behind these properties *)

\* The list is sorted and has no parameter twice, or is a circle of two nodes.
NodesOK ==
  IF Circular THEN Len(cache) = 2
  ELSE \A i, j \in DOMAIN cache : i < j => cache[i].param < cache[j].param

\* The value of a declared marker is in its node, but in a circle.
DeclaredOK == ~Circular => DeclaredListed

\* Nothing is sent before SQLExecute; a loop over values has one to bind; with
\* a tuple for which parameters are described none is declared.
StageOK ==
  /\ call.at = "idle" => call = NoCall
  /\ call.at \notin {"idle", "rows"} => sent = <<>>
  /\ call.at \in {"bind_list", "bind_tuple"} => call.next \in 1 .. call.count
  /\ call.dynamic => \A p \in Markers : declared[p] = NULL

Counted == "num_params" \notin Faults

\* execute without a tuple has bound the first nodes.
BindingList ==
  call.at = "bind_list" \/ (call.at = "execute" /\ Counted /\ given = <<>>)
ListOK ==
  BindingList =>
    /\ given = <<>> /\ ~call.dynamic /\ call.count = Len(cache)
    /\ call.next \in 1 .. call.count + 1
    /\ call.at = "execute" => ~Circular /\ call.next = call.count + 1
    /\ ~Circular =>
         \A i \in 1 .. call.next - 1 : cli[cache[i].param] = cache[i].var

\* execute with a tuple has bound the first values to the first nodes, or to
\* the parameters it has described last.
InTuple ==
  call.at = "bind_tuple" \/ (call.at = "execute" /\ Counted /\ given # <<>>)
Exact == Len(call.values) = M
TupleOK ==
  InTuple =>
    /\ given = <<call.values>>
    /\ call.next \in 1 .. call.count + 1
    /\ call.at = "execute" => call.next = call.count + 1
    /\ Exact => call.count = M
    /\ IF call.dynamic
       THEN /\ ~Circular /\ \A i \in DOMAIN cache : cache[i].param <= num_params
            /\ Exact =>
                 /\ call.next - 1 <= num_params
                 /\ call.next > 1 => num_params <= M
                 /\ \A i \in 1 .. call.next - 1 :
                      cli[(num_params + i + 1) - call.next] = call.values[i]
       ELSE ~Circular => \A i \in 1 .. call.next - 1 :
              i <= Len(cache) /\ i <= Len(call.values) =>
                cli[cache[i].param] = call.values[i]

\* execute_many has described the first markers.
DescribeOK ==
  call.at = "describe" =>
    /\ given = <<>> /\ call.errors = 0
    /\ call.next = Len(cache) + 1 /\ call.next <= M
    /\ \A i \in DOMAIN cache : cache[i].param = i
DescribedOK == Counted /\ call.at = "rows" => Len(cache) = M

ParamsInv ==
  /\ TypeOK /\ NodesOK /\ DeclaredOK /\ StageOK /\ ListOK /\ TupleOK /\ DescribeOK
  /\ DescribedOK

\* Without an error each row looked at was sent, one for each iteration.
RowsOK ==
  call.at = "rows" =>
    /\ call.next \in 1 .. call.count + 1
    /\ Counted /\ call.errors = 0 => sent = given /\ Len(given) = call.next - 1

BatchInv == ParamsInv /\ RowsAccounted /\ RowsOK
=============================================================================
