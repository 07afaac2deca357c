---------------------------- MODULE RowsetFetch ----------------------------
(***************************************************************************)
(* Fetching in the C extension.  fetchmany and fetchall read rowsets: they *)
(* set SQL_ATTR_ROW_ARRAY_SIZE, bind arrays and call SQLFetchScroll in a   *)
(* loop, then restore single-row mode; fetchone, fetch_tuple, fetch_assoc, *)
(* fetch_both and fetch_row read one row with SQLFetch or, by its number,  *)
(* SQLFetchScroll.  A statement's calls may be mixed at will.              *)
(*                                                                         *)
(* External: the CLI cursor.  A fetch reads the next SQL_ATTR_ROW_ARRAY_   *)
(* SIZE rows into the bound buffers.  Rows in Bad cannot be read: a fetch  *)
(* of several rows marks them SQL_ROW_ERROR and returns                    *)
(* SQL_SUCCESS_WITH_INFO, one of such rows only returns SQL_ERROR.  Rows   *)
(* in Gone have the status SQL_ROW_DELETED.  The rows are their numbers.   *)
(*                                                                         *)
(* A behaviour ends where SQLFetch would write to buffers that are freed   *)
(* but not unbound (Dangling), and where a fetch of one row (SQLFetch)     *)
(* meets one of Gone; a fetch on a closed cursor is an error that changes  *)
(* nothing.                                                                *)
(***************************************************************************)
EXTENDS RowNumbers

CONSTANTS
  N,         \* the number of rows of the result set
  Bad, Gone, \* see above
  Lobs,      \* whether the result set may have LOB columns: a set of BOOLEAN
  Default,   \* DEFAULT_ROWSET_SIZE
  SafeMax,   \* the rows that MAX_ROWSET_BUFFER_BYTES leaves room for
  Sizes,     \* the arguments of fetchmany and of the option
  Ops,       \* the operations considered, of OpKinds
  Faults     \* the CLI calls that may fail, of FaultKinds

OpKinds == {"many", "all", "one", "position", "tuple_position", "row",
            "row_position", "option", "free", "execute"}

\* attr: setting up the attributes or arrays of a rowset; resize: the later
\* SQLSetStmtAttr of the loop; restore: the SQLFreeStmt and SQLSetStmtAttr of
\* cleanup_attrs; bind: a column of the single-row helper; data: SQLGetData.
\* Nothing looks at the results of resize and restore.
FaultKinds == {"attr", "resize", "restore", "bind", "data"}

ASSUME ConstantsAssumption ==
  /\ N \in Nat
  /\ Bad \subseteq 1 .. N
  /\ Gone \subseteq 1 .. N
  /\ Lobs \subseteq BOOLEAN
  /\ Default \in Nat \ {0}
  /\ SafeMax \in Nat
  /\ Sizes \subseteq Nat \ {0}
  /\ Ops \subseteq OpKinds
  /\ Faults \subseteq FaultKinds

VARIABLES
  lob,          \* the result set has LOB columns
  open,         \* the cursor is open
  pos,          \* the CLI cursor: the last row it has read
  array_size,   \* the CLI's SQL_ATTR_ROW_ARRAY_SIZE
  bound,        \* the buffers that the CLI has: those of row_data, those of
                \* some columns only (half), arrays of a rowset or, for some
                \* columns, buffers that are freed
  row_data,     \* stmt_res->row_data is allocated
  rowset_size,  \* stmt_res->rowset_size
  call,         \* the progress of _python_ibm_db_bind_fetch_rowset_helper
  result        \* what the last call returned, as in ResultSet

vars == <<lob, open, pos, array_size, bound, row_data, rowset_size, call, result>>

NoCall == [max |-> 0, array |-> 0, from |-> 0, got |-> <<>>]
Idle == call = NoCall

Nothing == [rows |-> <<>>, error |-> FALSE]
Returned(rows) == [rows |-> rows, error |-> FALSE]
Failed == [rows |-> <<>>, error |-> TRUE]

TypeOK ==
  /\ lob \in BOOLEAN /\ open \in BOOLEAN /\ row_data \in BOOLEAN
  /\ pos \in 0 .. N
  /\ array_size \in Nat \ {0}
  /\ bound \in {"none", "single", "half", "rowset", "freed"}
  /\ rowset_size \in Nat
  /\ call \in [max : Nat, array : Nat, from : 0 .. N, got : Seq(1 .. N)]
  /\ result \in [rows : Seq(0 .. N), error : BOOLEAN]

Init ==
  /\ lob \in Lobs
  /\ open = TRUE
  /\ pos = 0
  /\ array_size = 1
  /\ bound = "none"
  /\ row_data = FALSE
  /\ rowset_size = 0
  /\ call = NoCall
  /\ result = Nothing

Lesser(a, b) == IF a <= b THEN a ELSE b

-----------------------------------------------------------------------------
(* The CLI cursor *)

\* Where a fetch of a rowset ends: it reads the rows from pos + 1 up to there
\* into the bound buffers.
LastOf(size) == Lesser(pos + size, N)
NoData(size) == LastOf(size) = pos
FetchError(size) == \A r \in pos + 1 .. LastOf(size) : r \in Bad

-----------------------------------------------------------------------------
(* fetchmany and fetchall *)

Calling(op) == op \in Ops /\ Idle /\ open

\* MUTANT: the -1 of fetchall is taken for a number of rows.
ArraySize_NoAll(max) ==
  LET wanted == IF rowset_size > 0 THEN rowset_size ELSE Default IN
  IF lob THEN 1 ELSE Lesser(max, wanted)

\* row_array_size: the option or the default, not more than what is asked
\* for, one with LOB columns, and within the memory cap.
ArraySize(max) ==
  LET wanted == IF rowset_size > 0 THEN rowset_size ELSE Default
      useful == IF max > 0 THEN Lesser(max, wanted) ELSE wanted
      room   == IF SafeMax < 1 THEN 1 ELSE SafeMax
  IN  IF lob THEN 1 ELSE Lesser(useful, room)

\* Unbind, set the array size (not with LOB columns) and bind the arrays.
RowsetBegin(max) ==
  /\ call' = [max |-> max, array |-> ArraySize(max), from |-> pos, got |-> <<>>]
  /\ array_size' = IF lob THEN array_size ELSE ArraySize(max)
  /\ bound' = "rowset"
  /\ UNCHANGED <<lob, open, pos, row_data, rowset_size, result>>

FetchMany == Calling("many") /\ \E max \in Sizes : RowsetBegin(max)
FetchAll == Calling("all") /\ RowsetBegin(0)

InLoop == ~Idle

Fallible(kind, value) == IF kind \in Faults THEN {value} ELSE {}

\* MUTANT: the array size is not restored.
Cleanup_KeepSize(size, answer) ==
  /\ call' = NoCall
  /\ bound' \in {"none"} \cup Fallible("restore", "rowset")
  /\ row_data' = FALSE
  /\ array_size' = size
  /\ result' = answer
  /\ UNCHANGED <<lob, open, rowset_size>>

\* cleanup_attrs, with the CLI's array size at size: unbind, single-row mode,
\* row_data to be bound again; the arrays are freed.  A CLI call that fails
\* leaves what it should change.
Cleanup(size, answer) ==
  /\ call' = NoCall
  /\ bound' \in {"none"} \cup Fallible("restore", "rowset")
  /\ array_size' \in IF lob THEN {size} ELSE {1} \cup Fallible("restore", size)
  /\ row_data' = FALSE
  /\ result' = answer
  /\ UNCHANGED <<lob, open, rowset_size>>

\* MUTANT: always the whole array.
EffectiveSize_Whole == array_size

\* The array size of this iteration: not more rows than remain to be asked for.
EffectiveSize ==
  LET remaining == call.max - Len(call.got) IN
  IF ~lob /\ call.max > 0 /\ remaining < call.array THEN remaining
  ELSE array_size

\* What the CLI has for it: a resize that fails leaves the size it had.
FetchSizes == {EffectiveSize} \cup Fallible("resize", array_size)

\* The rows of a rowset that the loop appends: a LOB row counts as one row
\* fetched, rows with an error or deleted are skipped, at most max in all.
Appended(size) ==
  LET good == IF lob THEN <<pos + 1>>
              ELSE RowsBetween(pos, LastOf(size), Bad \cup Gone)
      all  == call.got \o good
  IN  IF call.max > 0 THEN SubSeq(all, 1, Lesser(call.max, Len(all))) ELSE all

\* MUTANT: fetchmany goes on until it has its rows.
RowsetEnd_All(size) ==
  /\ NoData(size)
  /\ call.max = 0
  /\ Cleanup(size, Returned(call.got))
  /\ UNCHANGED pos

\* SQL_NO_DATA_FOUND ends the loop.
RowsetEnd(size) ==
  /\ NoData(size)
  /\ Cleanup(size, Returned(call.got))
  /\ UNCHANGED pos

\* A rowset is read; the loop goes on unless max rows are there.
RowsetRead(size) ==
  /\ ~NoData(size) /\ ~FetchError(size)
  /\ lob => pos + 1 \notin Gone
  /\ pos' = LastOf(size)
  /\ IF call.max > 0 /\ Len(Appended(size)) >= call.max
     THEN Cleanup(size, Returned(Appended(size)))
     ELSE /\ call' = [call EXCEPT !.got = Appended(size)]
          /\ array_size' = size
          /\ UNCHANGED <<lob, open, bound, row_data, rowset_size, result>>

\* SQL_ERROR of the fetch, or a row that cannot be built: an exception, the
\* rows already there are given up.
RowsetFails(size) ==
  /\ ~NoData(size)
  /\ FetchError(size) \/ "data" \in Faults
  /\ pos' = LastOf(size)
  /\ Cleanup(size, Failed)

\* The attributes or the arrays cannot be set up.
RowsetNotBegun ==
  /\ InLoop
  /\ "attr" \in Faults
  /\ pos = call.from
  /\ Cleanup(array_size, Failed)
  /\ UNCHANGED pos

-----------------------------------------------------------------------------
(* One row *)

\* A fetch of one row would write to buffers that are freed.
Dangling ==
  \/ bound \in {"rowset", "freed"}
  \/ bound \in {"single", "half"} /\ ~row_data

\* What a column leaves that cannot be bound: its buffer of before, if any.
Unfinished == IF Dangling THEN "freed" ELSE "half"

\* _python_ibm_db_bind_column_helper, unless row_data is there.  It answers
\* what SQLBindCol said of the last column only.
BindSingle ==
  /\ bound' \in IF row_data THEN {bound}
                ELSE {"single"} \cup Fallible("bind", Unfinished)
  /\ row_data' = TRUE
  /\ UNCHANGED <<lob, open, array_size, rowset_size, call>>

\* The last column cannot be bound: an exception.  row_data stays, so that
\* the next call does not bind again.
BindFails ==
  /\ Calling("one") \/ Calling("position") \/ Calling("tuple_position")
  /\ "bind" \in Faults /\ ~row_data
  /\ bound' = Unfinished
  /\ row_data' = TRUE
  /\ result' = Failed
  /\ UNCHANGED <<lob, open, pos, array_size, rowset_size, call>>

\* What the caller finds in row_data after row r was read into the buffers
\* that the CLI has: 0 stands for anything that is no row.
InRowData(r) == IF bound' = "single" THEN r ELSE 0

\* SQLFetch: a whole rowset is read, the first row of it is returned.
ReadNext(row) ==
  /\ ~Dangling'
  /\ ~NoData(array_size) => pos + 1 \notin Gone
  /\ pos' = LastOf(array_size)
  /\ result' = IF NoData(array_size) THEN Nothing
               ELSE IF pos + 1 \in Bad THEN Failed
               ELSE Returned(<<row>>)

\* SQLFetchScroll with SQL_FETCH_ABSOLUTE.
ReadPosition(r, row) ==
  /\ ~Dangling'
  /\ r \notin Gone
  /\ pos' = Lesser(r, N)
  /\ result' = IF r > N THEN Nothing
               ELSE IF r \in Bad THEN Failed
               ELSE Returned(<<row>>)

\* fetchone, fetch_tuple, fetch_assoc, fetch_both.
FetchOne ==
  /\ Calling("one")
  /\ BindSingle
  /\ ReadNext(InRowData(pos + 1))

\* fetch_assoc, fetch_both with a row number.
FetchPosition(r) ==
  /\ Calling("position")
  /\ BindSingle
  /\ ReadPosition(r, InRowData(r))

\* fetch_tuple with a row number: FETCH_INDEX takes it as 0, the next row.
FetchTuplePosition(r) ==
  /\ Calling("tuple_position")
  /\ r > 0
  /\ BindSingle
  /\ ReadNext(InRowData(pos + 1))

\* fetch_row binds nothing; the row is read column by column with result.
\* An error is cleared and FALSE returned as at the end.
FetchRow ==
  /\ Calling("row")
  /\ UNCHANGED <<lob, open, array_size, bound, row_data, rowset_size, call>>
  /\ \/ pos + 1 \notin Bad /\ ReadNext(pos + 1)
     \/ /\ ~Dangling
        /\ pos + 1 \in Bad
        /\ pos' = LastOf(array_size)
        /\ result' = Nothing

FetchRowPosition(r) ==
  /\ Calling("row_position")
  /\ UNCHANGED <<lob, open, array_size, bound, row_data, rowset_size, call>>
  /\ r \notin Bad
  /\ ReadPosition(r, r)

-----------------------------------------------------------------------------
(* Other calls on the statement *)

\* set_option, or the options of prepare, with SQL_ATTR_ROW_ARRAY_SIZE.
SetOption(size) ==
  /\ "option" \in Ops /\ Idle
  /\ array_size' = size
  /\ rowset_size' = size
  /\ UNCHANGED <<lob, open, pos, bound, row_data, call, result>>

\* free_result: closes the cursor and frees row_data without SQL_UNBIND.
FreeResult ==
  /\ "free" \in Ops /\ Idle
  /\ open' = FALSE
  /\ row_data' = FALSE
  /\ rowset_size' = 0
  /\ UNCHANGED <<lob, pos, array_size, bound, call, result>>

\* execute: SQL_CLOSE and SQLExecute, on the same columns.
Execute ==
  /\ "execute" \in Ops /\ Idle
  /\ open' = TRUE
  /\ pos' = 0
  /\ result' = Nothing
  /\ UNCHANGED <<lob, array_size, bound, row_data, rowset_size, call>>

-----------------------------------------------------------------------------

RowsetNext ==
  \/ \E size \in FetchSizes :
       /\ InLoop
       /\ RowsetEnd(size) \/ RowsetRead(size) \/ RowsetFails(size)
  \/ RowsetNotBegun

Next ==
  \/ FetchMany \/ FetchAll \/ RowsetNext
  \/ FetchOne \/ FetchRow \/ BindFails
  \/ \E r \in 1 .. N + 1 :
       FetchPosition(r) \/ FetchTuplePosition(r) \/ FetchRowPosition(r)
  \/ \E size \in Sizes : SetOption(size)
  \/ FreeResult \/ Execute

Spec == Init /\ [][Next]_vars /\ WF_vars(RowsetNext)

-----------------------------------------------------------------------------
(* Properties *)

\* The caller sees the rows up to where the call in progress started.
Set == INSTANCE ResultSet WITH pos <- IF Idle THEN pos ELSE call.from

\* However fetchmany, fetchall and the calls for one row are mixed, they
\* deliver the rows in order, none left out and none twice ("causing
\* subsequent fetchmany() calls to miss rows" is what the code guards
\* against), or raise an exception.
RowsInOrder == Set!Spec

\* Between calls the CLI has no buffers of a rowset, which are freed, and
\* reads one row at a time.
SingleRowMode == Idle => bound # "rowset" /\ array_size = 1

\* A call for rows comes to its end.
CallsEnd == []<>Idle

-----------------------------------------------------------------------------
(* What the documentation says and the code does not do (see the README) *)

\* "Fetch all remaining rows": when fetchall is over and reports no error,
\* every row after the place where it began is among those it delivered.
AllRemaining ==
  [][InLoop /\ RowsetEnd(EffectiveSize) /\ call.max = 0 =>
       \A r \in call.from + 1 .. N : r \in Gone \/ \E i \in DOMAIN result'.rows :
                                                result'.rows[i] = r]_vars

\* The next row: fetchone and fetch_tuple deliver the row after the one that
\* the call before delivered.
NextRow ==
  [][FetchOne /\ result.rows # <<>> /\ result'.rows # <<>> =>
       result'.rows[1] = result.rows[Len(result.rows)] + 1]_vars

\* fetch_tuple with a row number delivers that row, if there is one.
RequestedRow ==
  [][\A r \in 1 .. N : FetchTuplePosition(r) => result'.rows = <<r>>]_vars

\* fetch_row returns FALSE only if there is no further row.
FalseMeansNoRow ==
  [][FetchRow /\ result'.rows = <<>> => pos = N]_vars

-----------------------------------------------------------------------------
(* The inductive invariants behind these properties *)

\* The loop reads at least one row at a time and has rows to ask for.
LoopOK ==
  ~Idle =>
    /\ call.array > 0
    /\ call.max > 0 => Len(call.got) < call.max

FetchInv == TypeOK /\ LoopOK

\* Without the option a rowset is never larger than the arrays of its call.
SizeOK ==
  /\ rowset_size = 0
  /\ lob => array_size = 1
  /\ ~Idle => array_size <= call.array

SizeInv == FetchInv /\ SizeOK /\ SingleRowMode

\* The rows delivered so far are those from the place where the call began.
OrderOK ==
  ~Idle => /\ call.from <= pos
           /\ call.got = RowsBetween(call.from, pos, Gone)

\* row_data stands for buffers that are bound.
BoundOK == Idle /\ row_data => bound = "single"

OrderInv == SizeInv /\ BoundOK /\ OrderOK
=============================================================================
