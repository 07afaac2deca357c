# Verification of python-ibmdb

TLA+ models of the IBM Db2 driver for Python: the C extension `ibm_db`
(`src/ibm_db.c`), the DB-API module on top of it (`src/ibm_db_dbi.py`) and its
asyncio classes. The models are checked with TLC on small instances. Proved with
TLAPS, for every instance, are the isolation of pooled connections and that none
is lost, the atomicity of coordinated transactions, the order of the rows
fetched, the values sent for parameters, the ownership of statement handles,
what executemany leaves of the transaction, and what becomes of an error: each
safety property that a passing run checks is also a theorem.

Many of these properties hold under a condition only: that calls on one handle do
not overlap, say, or that a CLI call whose result the code ignores does not fail.
The models have the other cases too, behind a constant. Section 4 has the
condition's counterexample for each, section 5 the hypotheses of each theorem.

## 1. The system

`ibm_db.c` wraps the Db2 CLI (ODBC) library. It exports about ninety functions
(method table, `src/ibm_db.c:21368`), and its state is in a few structures:

| structure | where | state |
| --- | --- | --- |
| `conn_handle` | ibm_db.c:184 | CLI environment and connection (DBC) handle, `auto_commit`, `handle_active`, `flag_pconnect`, attributes for LOBs and case |
| `persistent_list` | ibm_db.c:3293 | process-wide dictionary from a key (credentials, process, thread) to a `conn_handle` |
| `stmt_handle` | ibm_db.c:347 | CLI statement handle, list of cached parameters, `num_params`, bound columns, rowset attributes |
| global error buffers | ibm_db.c:1008 | texts of the last connection error and of the last statement error, for the whole process |
| `error_recno_tracker`, `errormsg_recno_tracker` | ibm_db.c:184, 347 | by connection and statement, the number of the error record that is read next |
| `is_systemi`, `is_informix` | ibm_db.c:3586 | the kind of server that was last found |

`ibm_db_dbi.py` keeps Python objects: `Connection`, `Cursor`,
`CoordinatedConnection` with a list of connections, and one asyncio class for
each, whose methods run the blocking method in a thread (`asyncio.to_thread`).

### How the parts interact

* Python code calls a function of the extension. The function holds Python's
  global lock, except around CLI calls (`Py_BEGIN_ALLOW_THREADS`). There other
  threads run, with the same handles if they have them.
* A `conn_handle` ends with `close`, with the destructor
  (`_python_ibm_db_free_conn_struct`) when the last reference goes, or with a
  failed connect. A persistent one stays in `persistent_list`.
* A `stmt_handle` is used by many calls in an order which the caller chooses:
  `prepare`, `bind_param`, `execute`, `execute_many`, the fetch functions,
  `free_result`, `set_option`. What one call leaves in the structure, or in
  the CLI statement behind it, the next one finds.
* A coordinated connection shares one environment handle: `SQLEndTran` on it
  commits or rolls back all its connections.
* In asyncio code an await can end before the thread it waits for: after a
  cancellation, or when another call of an `asyncio.gather` has raised.

### Components, what is hard about them, what makes them correct

| component | operations | hard behaviour | correct when |
| --- | --- | --- | --- |
| Connection handles and pool | connect, pconnect, close, commit, rollback, autocommit, exec, destructor | threads between CLI calls, failing calls half-way, reconnects, servers that go away | threads do not share transactions; nothing refers to freed structures; no connection is lost |
| Coordinated transactions | connect, commit, rollback, close, context managers | failing commits, late threads, cancellation | all or nothing; the outcome reported is the outcome |
| Fetching rows | fetchone, fetchmany, fetchall, fetch_tuple, fetch_assoc, fetch_both, fetch_row | rowset attributes and buffers left by one call for the next; last rowset; deleted rows; errors | the rows in order, none lost, none twice |
| Statement parameters | bind_param, execute, execute_many | list and `num_params` after calls that failed; buffers freed while bound; batches that fail in part | the values that are sent are those given |
| Statement handles | exec, prepare, next_result, catalog functions, free_stmt, free_result, destructor, close | CLI calls of other threads between allocation and return; disconnects; numbers freed twice; fourteen cleanup paths | each object keeps a statement of its own; none is left behind; references are given back |
| Sequence of result sets | next_result, nextset | new handle from an old one | results in order, each handle freed once |
| Error information | check_sql_errors, conn_error, stmt_error, conn_errormsg, stmt_errormsg | process-wide buffers, record trackers, checks that every function repeats in its own way | no failure is taken for success; the text belongs to the call; records are read in order |
| DB-API cursor and connection | execute, executemany, prepare, callproc, nextset, close, commit, set_autocommit | autocommit switched off and on by executemany while other cursors run | the connection's mode is restored; work reported as done stays done |
| Stored procedures | callproc, fetch_callproc | output parameters in the same list | outputs are the procedure's |
| asyncio wrappers | all of the above in threads | cancellation, concurrent use of a connection | one call at a time for each handle |
| ZLOAD | zload_begin, zload_put_data, zload_end | protocol of three calls | no data outside a load |
| Catalog, columns, server information, options, database administration | one or a few CLI calls each | cleanup and error paths | a new handle, a value or an error for each call |
| `Db2connect` timeout context manager | connect and close around a block | none besides connect | closes what it opened |
| Logging, conversion, build, tests | | | not part of the models |

The components and the hazards found in them, line by line, are in
`PROJECT.json`.

## 2. Modules

| module | models | lines of code it follows |
| --- | --- | --- |
| `ConnPool` | connection handles and `persistent_list` | ibm_db.c 692-738, 1521-1629, 3201-3690, 5031-5116, 5624-5758, 8371-8742, 14177-14235 |
| `MCConnPool` | values for TLC: requests, symmetry | |
| `ConnPoolProofs` | theorems about `ConnPool`: threads are isolated | |
| `ConnPoolLinkProofs` | theorems about `ConnPool`: handles, DBCs and autocommit fit together | |
| `AtomicUnit` | what coordinated transactions promise (abstract) | |
| `Coordinated` | `CoordinatedConnection`, `AsyncCoordinatedConnection` | ibm_db_dbi.py 942-971, 1808-1846, 2698-2853, ibm_db.c 5681-5770, 21118-21365 |
| `CoordinatedProofs` | theorems about `Coordinated` | |
| `RowNumbers` | sequences of rows | ibm_db.c 3096-3107 |
| `ResultSet` | what fetching promises (abstract) | |
| `RowsetFetch` | the fetch functions | ibm_db.c 1417-1460, 1767-1916, 2286-2680, 2851-3189, 14993-15390, 15700-16006 |
| `RowsetFetchProofs` | theorems about `RowsetFetch` | |
| `StmtParams`, `MCStmtParams` | parameters: bind_param, execute, execute_many | ibm_db.c 747-794, 5131-5385, 8763-8825, 9032-9219, 11476-11945, 18491-19088 |
| `StmtParamsProofs` | theorems about `StmtParams` | |
| `StmtHandles`, `MCStmtHandles` | statement objects and CLI statements | ibm_db.c 918-989, 1625-1690, 5624-5770, 5827-8344, 8446-9028, 12613-12744, 14257-14304 |
| `StmtHandlesProofs` | theorems about `StmtHandles` | |
| `ErrorInfo` | error records, buffers, exceptions, trackers | ibm_db.c 1008-1176, 11968-12588 |
| `ErrorFunctions` | the exported functions, as `ErrorInfo` sees them | the error paths of each function, ibm_db.c 1303-19593 (2850-3189 and others) and 20903-21365 |
| `ErrorInfoProofs` | theorems about `ErrorInfo` | |
| `DbiCursor` | `Connection` and `Cursor` | ibm_db_dbi.py 912-1070, 1493-1718, 1808-1918, 2020-2066; ibm_db.c 5087-5117 |
| `DbiCursorProofs` | theorems about `DbiCursor` | |

`Coordinated` INSTANCEs `AtomicUnit`, and `RowsetFetch` INSTANCEs `ResultSet`;
`AllOrNothing` and `RowsInOrder` are these refinements. Both modules of fetching
extend `RowNumbers`. The definition `vars` of each module lists its state. `PROJECT.json` maps every definition that
models code to its lines.

### ConnPool

State: `pool` is `persistent_list`; `conn[h]` the structure of a handle, which
is unused, live or deleted (`mem`); `dbc[d]` a CLI connection with its
autocommit mode and the threads that have uncommitted work on it; `call[t]`
where thread t is inside `connect_helper`, `autocommit` or `close`; `holds[t]`
the references that t's Python code has. `passed` and `foreign` are history: handles that code
gave to another thread, and handles over which a call committed the work of
another thread.

The lock is released around CLI calls, so a function that works on fields between
them is a sequence of steps, and other threads run between any two:

* `connect_helper`: `StartNew`, `StartReuse` or `StartReconnect` (the dictionary is
  looked up, SQL_ATTR_PING_DB decides, and the field `auto_commit` is set),
  `Reset` (SQL_ATTR_AUTOCOMMIT goes to the driver), `Defaults` (`handle_active`
  is cleared) or, with autocommit among the caller's options, `OptionAutocommit`
  (the field) and `Option` (the driver), `Connect`, and `Finish` (SQLGetInfo, then
  the dictionary is filled); `StartFails`, `ResetFail`, `OptionsFail`,
  `OptionsInvalid`, `ConnectFail` and `FinishFail` are its error paths;
* `autocommit`: `SetAutocommit` compares with the field, `Switch` is
  SQLSetConnectAttr, `Assign` the assignment, which does not ask whether the
  driver has refused;
* `close`: `CloseRollback` (SQLEndTran), `CloseDisconnect` (SQLDisconnect), `CloseDbc`
  and `CloseEnv` (SQLFreeHandle, after which `handle_active` is cleared). An error
  in the last two ends close with the handle still active.

`exec`, `commit` and `rollback` are one step, as they make one CLI call and change
no field. The destructor (`Drop`) is one step: it runs when the last reference is
gone, so no other thread has the handle. `Pass` gives a handle to another thread,
as `asyncio.to_thread` does. `ServerDies` ends a connection at the server.

`Overlap` says whether two threads may be inside calls on one handle at once.
`ibm_db_dbi` declares `threadsafety = 0` (ibm_db_dbi.py:142), so code that keeps
to it has `Overlap = FALSE`, and still passes handles from thread to thread; the
isolation of threads is checked and proved with `Overlap = TRUE`.

### Coordinated

State: `env` the environment handle, `listed` is `_connections`, `closed` is
`_closed`, `visited` how far the loop of `close` is, `dbc` and `work` what the
CLI has for each branch, `thread[b]` the call that runs for the body on branch
b, `job` the call that runs for `__aexit__`, `pc` and `raised` the task. The
body awaits `connect` and `execute` on any branch. When a call raises, the body
lets the exception leave the block or catches it (`Failed`) and goes on, perhaps
with the same call again. It ends (`BodyEnds`) or raises by itself
(`BodyRaises`); `__aexit__` awaits commit or rollback at once, then close.
`Cancel` may come at any point. The thread of a call goes on after its await has
ended. `Abandons` says whether the body may end normally while a call runs that it
has given up, by catching the exception of a gather or a wait_for. The sequential
`CoordinatedConnection` has a subset of these behaviours (`Concurrent`, `Abandons`
and `Cancels` are FALSE).

### RowsetFetch

State: the CLI's cursor (`open`, `pos`, `array_size`), the buffers bound
(`bound`), `row_data` and `rowset_size` of the `stmt_handle`, the progress of
`_python_ibm_db_bind_fetch_rowset_helper` (`call`), and what the last call
returned (`result`). `FetchMany` and `FetchAll` set up the arrays, each
`RowsetRead` is one iteration of the loop, and `RowsetEnd`, `RowsetFails`,
`RowsetNotBegun` end it through `Cleanup`. The calls for one row are one
action each, next to `SetOption`, `FreeResult` and `Execute`. Rows are their
numbers.

Two groups of calls have results that nothing looks at. The array of the last
rowset is made smaller so that it reads no more than is asked for
(ibm_db.c:3065, the fault `"resize"`), and `cleanup_attrs` unbinds and sets back
the size (ibm_db.c:3141, `"restore"`), after which the arrays are freed in any
case. What stays bound is then `"freed"`, and a behaviour ends where SQLFetch
would write there (`Dangling`). `"bind"` is an error in the middle of
`_python_ibm_db_bind_column_helper`, which leaves some columns bound (`"half"`).

### StmtParams

State: `cache` is the list `head_cache_list` with the number and the Python
value of each node, `num_params`; `cli[p]` what the CLI finds in the buffer
bound for parameter p, which may be freed; `call` the function in progress;
`sent` and `given` what SQLExecute sent and what the caller gave; `declared`
what `bind_param` gave last. The loops over the list, over the tuple and over
the rows are one action per iteration with their error returns. `SqlExecute`
is SQLExecute and the cleanup after it. `FreeResult` clears the list too.

The list is sorted as long as the numbers that are declared do not go below the
head's. `bind_param` of a smaller one links the new node behind the head and
the head behind the new node (ibm_db.c:5142-5190): the list is a circle of these
two (`Circular`), and other nodes are lost. What follows goes round: `execute`
never comes to SQLExecute, `bind_param` of a number above the head's never
returns (`answer = "hang"`), and freeing the list frees the head twice (`"crash"`).
The number of markers comes from SQLNumParams, whose result is ignored: `Counts`
has 0 if it may fail, and then SQLExecute runs with nothing bound.

### StmtHandles

State: `connected` and `active`, the connections that the CLI has and those
whose `handle_active` is set; `cli[h]`, what the CLI knows of the statement with
number h; `obj[o]`, a `stmt_handle` with its connection, `hstmt` and how far
`column_info` is filled; `call[t]`, where thread t is between the CLI calls of a
function; `lost`, the arguments whose references a return did not match.

exec, prepare, next_result and the catalog functions allocate a number
(`AllocStmt`, `AllocError`, `AllocInvalid`), set options, make their call
(`CliCall`, `CliError`, `CliInvalid`), free the number if exec has failed
(`FreeFailed`; `FreeFailedRefused` is an error of SQLFreeHandle, which is ignored)
and return an object (`ReturnStmt`). free_stmt, free_result and
the field functions are a CLI call and what is assigned after it; `Drop` and, when
SQLFreeHandle fails there, `DropRefused` are the destructor; `Close` and `CloseEnd` are the disconnect, which frees the
statements of the connection, and the end of close. The ten catalog functions
differ in the references to their converted arguments: a record of each says
which ones each of its returns gives back, by where the return is. `lost` has the
numbers of the arguments for which a return gave back too few or too many.
`Misuse` says whether a call may pass an object that is no connection, or a
`unique` that is no bool: the returns for these lose references.

### ErrorInfo and ErrorFunctions

A function of `ibm_db` is data: the sequence of its CLI calls, and for each the
results after which `_python_ibm_db_check_sql_errors` is asked for the record,
the results that end the function, what it does with the exception (keep it,
build it again from the buffer, clear it, or use words of its own) and what it
returns. A call whose result the code does not look at is marked `ignored`, as
SQLFreeStmt and SQLNumParams of execute (ibm_db.c:11616, 11623). `ErrorFunctions`
has these records for the functions exported.
`ErrorInfo` executes any set of them: `Begin`, `CliReturns` (the GIL is taken
again after it, so `OtherFails` and `OtherCalls` of other threads may come
between), `Fails`, `Continues` or `Succeeds`. An answer is a value, FALSE, an
exception, or a SystemError: the interpreter's own, for a NULL without an
exception or a value with one. `ReadState` and `ReadMessage` are the readers
conn_error, stmt_error, conn_errormsg and stmt_errormsg with an object, with the
trackers.

### DbiCursor

State: `open` (`Connection.conn_handler`), `auto` the mode of the driver and
`field` the field `auto_commit` of the handle, `want` the mode that the caller
has chosen, `cursor[c]` what a cursor keeps, `work[c]` its uncommitted work at
the server, and `call[c]` where its call is. `spoiled` is history: a batch or a
switch has failed, and the caller has not set the mode since.

execute is `Begin`, `Prepare`, `Execute` and `ExecuteEnds`, each with its
failure. executemany reads the mode (`GetMode`), switches it off
(`Compare`, `SetAttr`, `SetField` are ibm_db.autocommit, which compares with the
field, calls the driver without the GIL and assigns the field), executes and
commits the batch, and switches the mode on by the same three steps. callproc,
nextset, close and the functions of the connection are one step each: the check
that the connection is open and the entry in its list of cursors (`NewCursor`),
and the disconnect and the loop over the cursors (`Close`, after a `Rollback`). In
the code another thread may run between these, and close waits for no cursor. The
model leaves that out: no cursor is made in the middle of a close, and no close
comes while a cursor is in a call.

## 3. What is checked

Every property has a comment in its module. The runs, with their bounds:

| run | instance | states | properties |
| --- | --- | --- | --- |
| clean | 2 threads, 2 handles, 3 DBCs, 1 request, each handle in one call at a time; allocating, connecting, freeing and servers fail | 380 992 | TypeOK, NoOrphan, AutocommitTruth |
| faults | 2 threads, 2 handles, 2 DBCs, 1 request, calls on one handle overlap; every CLI call but SQLFreeHandle may fail | 1 081 517 | ThreadIsolation, NoForeignCommit, ActiveHasDbc |
| coordinated | 3 branches, concurrent calls, exceptions caught or not, cancellation, every failure; the body ends normally when its calls are over | 13 665 | TypeOK, TruthfulEnd, AllOrNothing, Released |
| fetch_rows | 6 rows, one of them deleted, array of 4, room for 3, requests of 1, 2, 4, with and without LOBs; setting up a rowset and reading a column may fail | 478 | SingleRowMode, RowsInOrder |
| fetch_calls | 5 rows, 2 unreadable, room for 1 row, the option, all calls and failures | 4 433 | TypeOK, CallsEnd |
| params_mixed | 2 markers, 2 values and one that cannot be bound, tuples of 2 and 3, batches of at most 2 rows of 1 or 2 values, free_result; every failure but those of SQLNumParams and SQLParamData | 1 402 598 | TypeOK, RowsAccounted, CountMeansAll, SendsIfComplete, SendsDeclared |
| statements | 2 threads, 2 connections, 2 objects, 3 numbers, every failure; no `Misuse` | 971 210 | TypeOK, KeepsItsStatement, OneOwner, ReferencesGivenBack, NoneLeftBehind |
| errors | the functions of `AllFunctions`, the environment shared with other threads, the records of a statement, 2 of them | 337 070 | TypeOK, OwnText, Noticed, Shown, Paired |
| cursors | 2 cursors, one batch at a time, every failure | 235 252 | TypeOK, ModeRestored, NothingUndone, OnlyCommitCommits |

What they show:

* **clean**. If each handle is in one call at a time, a connection at the server
  always belongs to a handle that a thread or the pool can still reach
  (`NoOrphan`): `close` and the destructor roll back before SQLDisconnect, which
  refuses open work. The field `auto_commit` is what the driver does
  (`AutocommitTruth`) whenever no call is between setting one and the other, also
  when pconnect reuses a handle whose last user had switched it. Neither holds
  when two threads are in `autocommit` or `close` of one handle, when
  SQLSetConnectAttr fails, or when SQLGetInfo fails after the connect: section 4.
* **faults**. With calls that overlap on one handle: a handle within reach of two
  threads was handed over by Python code; no call commits work of another thread
  unless the handle was handed over. An active handle that no thread is closing
  has an allocated DBC of its own (`ActiveHasDbc`). In the middle of close the
  DBC is freed before `handle_active` is cleared, and another thread can use it;
  and if SQLFreeHandle fails, the handle stays active for good: section 4.
* **coordinated**. `AllOrNothing`: every behaviour is one of `AtomicUnit`.
  `TruthfulEnd`: a block that ends without exception has committed, and one
  that ends with an exception has not; a cancellation says neither. A body that
  raises may leave calls running, and the rollback does not wait for them. One
  that ends normally may not: if it has caught the exception of a gather and left
  the rest running, work can come after the commit, and both are false (section
  4). What remains then is that an exception means nothing was committed.
  `Released`: the block is left, and every connection and the environment are
  released, unless work is left open on a connection.
* **fetch_rows**. Any mix of calls delivers the rows in order, none lost by a
  last rowset that is too large, none twice, or fails. Between calls the CLI
  reads single rows and has no freed arrays bound. Failures are those of setting
  up a rowset and of SQLGetData; a failure of the calls that resize the array,
  restore single-row mode, or bind the columns of a single row breaks this
  (section 4).
* **fetch_calls**. The loop over rowsets ends although rows that are skipped
  do not count, with every failure.
* **params_mixed**. The values of a tuple reach the markers in order, whatever
  was called before, as long as no parameter is cached, or each marker is and the
  list is no circle (`SendsIfComplete`). If `execute` without a tuple comes to
  SQLExecute, it sends what `bind_param` declared last, also after calls that failed
  half-way (`SendsDeclared`). After declarations that make the list a circle it
  does not come there, but binds for ever. execute_many returns a count only if each row was sent as
  given (`CountMeansAll`); each row looked at has been sent or has an error in
  the list (`RowsAccounted`).
* **statements**. While two threads create, use, free and drop objects and
  close connections, and every CLI call may fail or find its number gone: an
  object that was not freed has a statement of its connection
  (`KeepsItsStatement`), no two objects or creating calls answer for the same
  one (`OneOwner`), and one that nobody answers for any more is freed, but after
  an error in prepare, in a catalog function or in the options of exec, or of
  SQLFreeHandle after a failed exec and in the destructor, which leave it to the
  disconnect (`NoneLeftBehind`). The catalog functions give back the references
  taken, at the returns for an argument that is no string and at those after the
  CLI call (`ReferencesGivenBack`). The returns for an object that is no connection
  and for a `unique` that is no bool lose them: section 4.
* **errors**. With every result of each CLI call that is listed for a function, and
  other threads' errors in the buffers at any point: no function answers as if
  none of its CLI calls had failed when one did (`Noticed`), except for calls whose
  result the code does not look at; the exception has the text of the
  call that failed, although texts go through buffers of the process
  (`OwnText`); the buffers tell of the last failure or of another thread's, not
  of an older one (`Shown`); a SQLSTATE and the message read next are of the
  same record (`Paired`).
* **cursors**. Cursors of one connection execute while another one is in the
  middle of a batch. executemany leaves the connection in the mode that the
  caller has chosen (`ModeRestored`), in manual mode no cursor commits
  (`OnlyCommitCommits`), and in autocommit mode no rollback takes back what a
  call has reported as done, also in the middle of the batch
  (`NothingUndone`) - until a batch or a switch fails.

### Bounds, and why they are enough

* `ConnPool`: isolation is about two threads; two handles are one pooled and
  one other, or the pooled handles of both threads; three DBCs allow a
  reconnect (which replaces the DBC) while the other handle lives. Handles and
  DBCs are not used twice, so a run ends when they are used up. Theorems cover
  the rest.
* `Coordinated`: with three branches one can be late, one failing and one done.
  A branch has work once, after any number of calls that fail; a second
  statement on a branch that has open work adds nothing to `work`. Theorems cover
  more branches.
* `RowsetFetch`: six rows are more than a rowset, and not a multiple of all the
  sizes; the requests are below, at and above the array's size; the deleted
  row is at the beginning, in the middle or at the end of a rowset, depending
  on the calls before. Theorems cover all sizes and any deleted rows.
* `StmtParams`: `MaxParams` bounds `num_params`, which the code can increase
  without end; it is larger than the longest tuple. Two markers are enough to
  tell a list that is complete, partial, a circle or empty. `MaxRows` is 2: the
  chain begins with the first row and is kept by the second. Theorems cover any
  numbers.
* `StmtHandles`: two threads on two connections, so that one disconnects while
  the other creates or uses a statement; two objects for the question of whose a
  number is; a third number, so that one freed may be given out while both
  others are in use. Objects are not shared by threads at the same time, numbers
  of a disconnected connection are not given out again, and memory that the CLI
  has not written holds no number: `Shared`, `Recycles` and `Unset` change that,
  with the results in section 4. The theorems cover more of everything, under
  the same conditions.
* `ErrorInfo`: each function is executed with each sequence of results. What a
  function finds of earlier ones is texts and trackers only, and these are kept
  between functions. Two records are enough for trackers that are equal or one
  behind the other. The statement is the thread's own, the environment is not.
  Readers of a connection use the same code and the same two trackers.
* `DbiCursor`: two cursors are one in a batch and one that comes in between;
  both may also be executing. Theorems cover more. Batches and calls on the
  connection come one at a time; `Overlap` changes that, see section 4.

### Deadlock and fairness

`CHECK_DEADLOCK FALSE` in all configurations: the models do stop, when handles
are used up, a block is left, or a behaviour has reached something undefined.

`Coordinated` has weak fairness of `BodyNext` and of `ExitNext`: threads run the
calls given to them, CLI calls return, the event loop resumes the task, and the
body awaits nothing for ever. `BodyEnds \/ BodyRaises` has strong fairness: a body
that catches the exception of a call and calls again does not do so for ever.
There is no fairness for `Cancel` and none for a particular outcome. `RowsetFetch` has weak fairness of `RowsetNext`: a call in
progress executes its loop. The other modules have no liveness properties.

## 4. Where the code and its documentation differ

Three runs check a statement of the documentation that TLC refutes:

| run | property | what happens |
| --- | --- | --- |
| serve | HandlesLive | a reconnect of a pooled handle fails, and `connect_helper` deletes the structure (ibm_db.c:3672-3675) that `persistent_list` and the caller still refer to |
| coord_gather | RolledBackOnException | a statement of `asyncio.gather` is still running when the exception of another leaves the block; it executes after the rollback and stays open |
| params_retry | SendsTuple | a value that cannot be bound fails `execute`; the list keeps what was described, and the next `execute` with a tuple sends a freed buffer (ibm_db.c:11620) |

Other statements of the same kind are in the modules, under the heading *What
the documentation says and the code does not do*, and properties of the passing
runs are false without the conditions of section 3. They have no configuration of
their own; these values of the constants refute them. The other constants are as
in serve for `ConnPool`, in params_retry for `StmtParams`, in fetch_rows for
`RowsetFetch`, and as in the module's passing run for the others:

| property | constants | what happens |
| --- | --- | --- |
| ConnPool!AutocommitTruth, NoOrphan | two threads, `Overlap = TRUE`, no faults | two threads in `autocommit` of one handle: both compare with the field before either assigns it, and the assignments come in another order than the CLI calls (ibm_db.c:5089-5109). The destructor believes the field, skips the rollback, SQLDisconnect is refused, and the connection is lost with its locks |
| ConnPool!AutocommitTruth, NoOrphan | `Faults = {"attr"}` | SQLSetConnectAttr fails, and the field is assigned all the same (ibm_db.c:5109) |
| ConnPool!NoOrphan | `Faults = {"info"}` | SQLGetInfo fails after the connect, and `connect_helper` deletes the structure with its connection open (ibm_db.c:3554-3636, 3672) |
| ConnPool!ActiveHasDbc | `Faults = {"free"}` | SQLFreeHandle fails in close, which returns with `handle_active` set: an error for the DBC (ibm_db.c:5716-5726), or for the environment, when the DBC is freed already (ibm_db.c:5744-5747) |
| ConnPool!NextCallerServed | two threads, no faults | the key has the thread (ibm_db.c:3293), so a closed persistent connection serves no other thread, although ASYNC_APIs_WIKI.md:105 calls the pool process-wide |
| ConnPool!ReuseMatches | `Creds <- TwoRequests` | uid, database and password are joined without a separator (ibm_db.c:3270) |
| Coordinated!TruthfulEnd, AllOrNothing | `Abandons = TRUE`, two branches, no failures, no cancellation | the body has left a statement running and ends normally; `__aexit__` commits at once, and the statement executes after the commit (ibm_db_dbi.py:2839) |
| RowsetFetch!RowsInOrder | `Faults = {"resize"}` | the array is not made smaller for the last rowset, and the rows that it reads too many are lost (ibm_db.c:3065) |
| RowsetFetch!RowsInOrder, SingleRowMode | `Faults = {"restore"}` | the statement keeps its array size, or the arrays that are freed, and the next SQLFetch reads a rowset for one row (ibm_db.c:3141-3146) |
| RowsetFetch!RowsInOrder | `Faults = {"bind"}` | a column of a single row cannot be bound; `row_data` stays, so the next call fetches with some columns bound (ibm_db.c:1767-1916, 15068) |
| RowsetFetch!AllRemaining | `Bad = {2}`, `Ops = {"all"}` | a row with SQL_ROW_ERROR is skipped without an exception (ibm_db.c:3100) |
| RowsetFetch!RequestedRow | `Ops = {"tuple_position"}` | FETCH_INDEX turns a row number into 0 (ibm_db.c:15049) |
| RowsetFetch!FalseMeansNoRow | `Bad = {1}`, `Ops = {"row"}` | an error of SQLFetch is cleared and FALSE returned (ibm_db.c:15857) |
| RowsetFetch!NextRow | `N = 3`, `Default = 3`, `SafeMax = 3`, `Sizes = {2}`, `Lobs = {FALSE}`, `Ops = {"one", "option"}`, no failures | after `set_option` with SQL_ATTR_ROW_ARRAY_SIZE, SQLFetch reads a whole rowset and `fetch_tuple` returns the first row of it (ibm_db.c:1439) |
| StmtParams!DeclaredListed, BindParamReturns | `Ops = {"bind_param"}` | `bind_param` of 2 and then of 1: the new node is linked behind the head and the head behind it, a circle in which other declarations are lost and the search for a place can go round for ever (ibm_db.c:5142, 5183-5187), although the argument "Specifies the 1-indexed position of the parameter in the prepared statement" (ibm_db.c:5452), with no order |
| StmtParams!BindingEnds | `Ops = {"bind_param", "execute"}` | `execute` binds the two nodes of the circle again and again |
| StmtParams!BindParamReturns | `Ops = {"bind_param", "free"}` | freeing the circle frees its head twice (ibm_db.c:747-788) |
| StmtParams!SendsDeclared | `Ops = {"bind_param", "execute"}`, `Faults = {"num_params"}` | SQLNumParams fails, `num` stays 0, and SQLExecute sends what an earlier call has bound (ibm_db.c:11623) |
| StmtParams!SendsIfComplete | `Ops = {"bind_param", "tuple"}`, `Faults = {"num_params"}` | the same with a tuple, which is not looked at |
| StmtParams!CountMeansAll | `Ops = {"tuple", "many"}`, `RowLengths = {0, 2}`, `Faults = {"num_params"}` | execute_many describes no marker, takes rows without values and sends what an earlier call has bound (ibm_db.c:18695) |
| StmtParams!MaxNumberUsed | `Ops = {"tuple"}`, `Lengths = {2, 3}` | the number of values that are bound is `num_params`, 0 when nothing is cached (ibm_db.c:11658) |
| StmtParams!BindParamReturns | `Ops = {"tuple", "bind_param"}`, `Faults = {"execute"}` | Py_DECREF of a node's NULL value (ibm_db.c:5221) |
| StmtParams!OnlyFailedRowsLeftOut | `Ops = {"many"}`, `Faults = {"execute"}` | an SQL_ERROR ends the batch (ibm_db.c:19068) |
| StmtParams!CountMeansAll, RowsAccounted | `Ops = {"many"}`, `Faults = {"param_data"}` | an error of SQLParamData is not looked at (ibm_db.c:19047) |
| StmtHandles!KeepsItsStatement, OneOwner, NoneLeftBehind | `Shared = TRUE` | free_stmt of one thread comes between two CLI calls of another one on the same object (ibm_db.c:14278) |
| StmtHandles!KeepsItsStatement, OneOwner | `Recycles = TRUE` | the destructor frees the number that its object has kept after a disconnect, which is another statement's by then (ibm_db.c:973) |
| StmtHandles!KeepsItsStatement, OneOwner | `Unset = {h1, h2, h3, Invalid}` | SQLAllocHandle answers SQL_INVALID_HANDLE, which exec does not look for, and `hstmt` is what was in the memory of the structure (ibm_db.c:8661) |
| StmtHandles!ReferencesGivenBack | `Misuse = TRUE` | the returns of the catalog functions for an object that is no connection, and of statistics for a `unique` that is no bool, do not give back the converted strings (ibm_db.c:5932, 6200, 6520, 6758, 7027, 7253, 7517, 7783, 7792, 8010, 8247) |
| StmtHandles!ColumnsWhole | `Faults = {"describe"}` | a failing SQLDescribeCol leaves `column_info` half filled, and the next call takes it for whole (ibm_db.c:1656) |
| ErrorInfo!AnyOwnText | as in errors | the text of another thread's error: commit and rollback of two phases ask the shared environment (ibm_db.c:21265), and a missing record leaves the buffer as it was (ibm_db.c:12811) |
| ErrorInfo!OwnText | `Shared = {"env", "stmt"}` | between a failing call and the question for its record another thread's call on the same statement replaces it |
| ErrorInfo!Noticed | `Shared = {"env", "dbc"}` | the same for a connection: there is no record any more, and no exception is raised |
| ErrorInfo!Noticed | `Functions <- AllFunctions \cup SetConnOption` | an attribute of a connection that cannot be set is looked up as one of a statement, at the offset of `hstmt` in another structure (ibm_db.c:1515, 1554) |
| ErrorInfo!Noticed | `Functions <- NoneIgnored` | the result of a CLI call is not looked at, and the function answers True: SQLFreeStmt and SQLNumParams (ibm_db.c:11616, 11623, 18684, 18695), SQLParamData (19047), the calls that resize and restore a rowset (3065, 3141), attributes set in connecting (3427, 3577, 3608, 21197). The documentation says "Returns TRUE on success or FALSE on failure" |
| ErrorInfo!Shown | `Functions <- AllFunctions \cup CheckFunctionSupport` | the error of SQLGetFunctions is not looked up (ibm_db.c:19573) |
| ErrorInfo!NoPending | as in errors | a function returns False, or goes on, with an exception set; the interpreter raises SystemError, where the documentation says FALSE (ibm_db.c:5029, 5106) |
| ErrorInfo!FirstRecordNext | as in errors | the trackers are not set back by a new error, so the second error of a statement is read from its second record on (ibm_db.c:12332) |
| ErrorInfo!TrackersSet | as in errors | next_result sets the trackers of the old statement (ibm_db.c:12725) |
| DbiCursor!NoEffect | `Cursors = {c1}`, `Faults = {"batch"}` | execute_many fails, autocommit stays off, and what the cursors execute then is undone by the rollback of close, although the caller is in autocommit mode and "rollback() normally has no effect" there (ibm_db.c:14159, ibm_db_dbi.py:1896) |
| DbiCursor!ModeRestored, NothingUndone, OnlyCommitCommits | two cursors, `Overlap = TRUE`, no failures | the second batch reads and compares the mode that the first one has switched, and each restores what it has found (ibm_db_dbi.py:1893, ibm_db.c:5089) |
| DbiCursor!ProducedResults | `Cursors = {c1}`, no failures | callproc, prepare and executemany leave `_result_set_produced` as it was or set it always, so fetching after them is not refused (ibm_db_dbi.py:1590, 1933) |

## 5. What is proved

`ConnPoolProofs` proves, for any sets of threads, requests, handles and DBCs
any CLI failures, also with calls that overlap on one handle, with
`ConstantsAssumption` (the two "no handle" values are no handles, there is a
request, `Faults` are of the known kinds):

* `TypeCorrect`: `Spec => []TypeOK`;
* `ThreadsIsolated`: `Spec => []ThreadIsolation`;
* `NoForeignCommits`: `Spec => []NoForeignCommit`.

Isolation is not inductive as it stands. A step may fill the thread's slot of
the dictionary with the handle of its call, or commit what is open on a DBC,
and the property says nothing of either. `IInv` adds

* `CallShape`, `CallOK`: a call in progress works on a live handle, which its
  thread holds (close, autocommit), which is in the thread's own slot, or on which
  nothing is open;
* `SlotOK`: the slot that a pconnect will fill is empty or its own, so filling
  it drops no handle;
* `FreshOK`: nothing refers to memory that is not allocated yet, so a new
  handle is in nobody's reach;
* `DbcOK`: live handles have different DBCs, so a CLI call on one changes the
  work of no other;
* `WorkOK`: whoever has work open on a handle can reach it. With
  `ThreadIsolation` that makes a commit of the work of others a commit on a
  handle that was passed.

`Passed` handles are left out of `CallOK` and `WorkOK`: after Python code has
handed a handle over, two threads may close it at once. The proof has one
step per action: `TypeStep` for the types, then lemmas on how each action
changes `Reach` (an action gives a thread at most a fresh handle or one it
reached before) and one lemma per conjunct. The keys of different threads
differ, which is the fact about the code everything rests on
(`ValueTypes`). Before the proofs, `IInv` was checked by TLC on the instances of
clean and faults.

`ConnPoolLinkProofs` goes on from `IInv` to what concerns a handle, its DBC and
the driver's mode. Each of three invariants extends the one before:

* `ActiveHandlesHaveDbc`: `Spec => []ActiveHasDbc` if `"free" \notin Faults`, with
  every other failure and calls that overlap. Two threads may be inside `close`, or
  one in `close` and one in `connect_helper`, of the same handle. `LinkInv` says why
  neither frees the other's DBC: what one `connect_helper` works on is out of the
  reach of every other one (`OwnerOK`); it is new, or a persistent handle in the
  thread's own slot (`ConnectingOK`); and `close` never disconnects a persistent
  handle (`PersistentOK`). From SQLDisconnect on the DBC of an active handle is
  closed or freed only while a close is under way, which ends by clearing
  `handle_active` (`FreedOK`).
* `AutocommitTrue`: `Spec => []AutocommitTruth` if `~Overlap` and
  `"attr" \notin Faults`; section 4 has the counterexamples without either.
  `AutoInv` says that no two calls are on one handle (`ExclusiveOK`); that a call
  which has set the first of field and driver finds it so when it sets the second
  (`SettingOK`); that the two agree otherwise (`AgreeOK`); and that a new DBC is
  not connected before its defaults are set (`NewDbcOK`).
* `NoOrphans`: `Spec => []NoOrphan` if `~Overlap` and
  `Faults \subseteq {"alloc", "connect", "free"}`, as in the run clean: a handle
  deleted after its connect has succeeded leaves its connection. SQLDisconnect
  refuses a connection with open work, so `OrphanInv` needs `AgreeOK`, for whoever
  does not roll back believes to be in autocommit mode; that no work is open in
  that mode (`AutoWorkOK`); and that what code holds is in `persistent_list`, active
  or disconnected (`HeldOK`).

`CoordinatedProofs` proves, for any branches, failures, interleavings and
cancellations (again with `ConstantsAssumption`):

* `TypeCorrect`: `Spec => []TypeOK`.
* `ExceptionsUndo`: a block that ends with an exception has committed nothing. This
  one holds whatever the body leaves running (for any `Abandons`).
* `BlocksAtomic`: `Spec => AllOrNothing` if `~Abandons`, that is, `Coordinated`
  implements `AtomicUnit` if the body ends normally only when its calls are over.
  The refinement mapping is the identity on `work`: `Executed` is `Do`, `Commits` is
  `Commit`; rollbacks, and a commit that the CLI turns into a rollback, are
  `RollBack`; all other steps leave `work` alone.
* `TruthfulEnds`: `Spec => []TruthfulEnd`, if `~Abandons` again. The code has no
  such condition, it is the caller's to see to: section 4 has what happens without.

The danger is a thread that is late: it executes a statement when the outcome
is decided already. `IInv` of `Coordinated` says why it comes too late only for
a rollback. With `~Abandons` the commit starts when every call of the body is
over, and none starts after the body (`CommitOK`), so no work is added to committed work; a
statement in flight finds its branch untouched (`ExecuteOK`); until the commit
work is open at most (`Undecided`); after it nothing is rolled back
(`CommittedOK`); and `raised` says which of commit and rollback was tried
(`RaisedOK`). TLC checked `IInv` on the instance of the run coordinated.

`RowsetFetchProofs` proves, for result sets, arguments and buffers of any size:

* `TypeCorrect`: `Spec => []TypeOK`, with every operation and failure;
* `SingleRows`: `Spec => []SingleRowMode`, with every failure but those of the
  calls that restore this mode (`"restore" \notin Faults`), if the caller
  does not set the array size (`"option" \notin Ops`; set_option does what the
  property excludes);
* `RowsDelivered`: `Spec => RowsInOrder`, that is, `RowsetFetch` implements
  `ResultSet`, if in addition every row can be read (`Bad = {}`), and resizing and
  binding a column do not fail either (`"resize"`, `"bind"`). TLC refutes the
  refinement without any of these, see section 4 (`AllRemaining` and `NextRow` for
  unreadable rows and the option). Any rows may be deleted.

In the refinement mapping the position of `ResultSet` is `pos`, but for a call in
progress the position where it began. So the whole loop of a call is one `Take`,
of which the last step is the visible one, or `Fail`, and each iteration but the
last is a stutter. What the loop has gathered is therefore an invariant:
`OrderOK` says that it is the rows from `call.from` to `pos`. For that no
iteration may read more than it can deliver. `LoopOK` says that the loop goes on
only below the maximum, and `SizeOK` that between calls and in them the CLI reads
no more rows at once than the arrays of the call hold, and one at a time with
LOBs. `BoundOK` says that between calls a statement that has `row_data` has all
its columns bound to it. `RowsBetween` is a recursive function. `Recursion` and `RowByRow` prove that
its equation has a solution, `RowsType` what it returns, and `RowsJoin` that the
rows to b and those after b are the rows, which is what an iteration uses.

`StmtParamsProofs` proves, for any number of markers, lengths of tuples and
batches, and bounds:

* `TypeCorrect`: `Spec => []TypeOK`, with every failure;
* `DeclaredValuesSent`: `Spec => SendsDeclared`, and
* `CompleteTuplesSent`: `Spec => SendsIfComplete`, if `"num_params" \notin Faults`;
* `RowsAreAccounted`: `Spec => []RowsAccounted`, if `"param_data" \notin Faults`, and
* `CountsMeanAll`: `Spec => CountMeansAll`, if SQLNumParams does not fail either.

The results of SQLNumParams and SQLParamData are not looked at, and section 4 refutes
the properties where they fail.

`ParamsInv` says how far each loop is. The list is sorted and has no number twice,
or is a circle of two nodes (`NodesOK`). So the node of a parameter is found at one
place, or SQLExecute is not reached without a tuple. Outside the circle, a declared marker's
node has its value (`DeclaredOK`): what fails half-way in a later call adds nodes
or binds buffers, and changes no declared value. The loop of `execute` without a
tuple has bound the first nodes (`ListOK`), and with a tuple the first values to
the first nodes, or, if it describes them, to the numbers given out last, which
are the first ones as long as the tuple has one value for each marker (`TupleOK`).
At SQLExecute the loops are at their ends. `Complete` turns "each marker has a
node" into "the first M nodes are those of the markers, in order", which is where
the values of a tuple belong. `AddEffect` says what a node added to the list
changes. `RowsOK` adds for a batch that as long as no row has failed the rows sent
are those looked at.

`StmtHandlesProofs` proves, for any threads, connections, objects, numbers and
failures, under `Separate` (objects are not shared, numbers of a disconnected
connection are not given out again, unwritten memory holds no number; without
any of these, section 4 refutes the properties):

* `TypeCorrect`, `StatementsKept`: `Spec => []KeepsItsStatement`,
  `OneOwnerEach`: `Spec => []OneOwner`, `NothingLeft`: `Spec => NoneLeftBehind`. The
  last one names the errors that leave a statement behind, those of SQLFreeHandle
  in `FreeFailedRefused` and `DropRefused` among them;
* `ReferencesKept`: `Spec => []ReferencesGivenBack`, without `Separate`, if `~Misuse`:
  it is a statement about ten records, of which each return but those for a wrong
  connection and a wrong `unique` is right.

`Inductive` treats objects and calls alike, as owners. Each owner has its
statement as long as its connection is there, and after that a number that is
invalid or gone (`OwnersHold`); two owners have different ones (`OwnersApart`);
an object in use is there and is used by one thread (`InUse`). There is a lemma
for each kind of step: one that touches no statement (`QuietStep`), one that
gives an owner a new statement (`OwnerNew`), and one by which an owner frees its
own (`OwnerFrees`); a disconnect is on its own. `NothingLeft` goes through the
steps once more and shows for every owner that gives a statement up who has it
next (`CreationLeaves`, `UseLeaves`).

`ErrorInfoProofs` proves for every set of functions, every set of handles that
are shared and every number of records: `TypeCorrect`, and `RecordsPaired`
(`Spec => []Paired`). The other three have a hypothesis about the functions,
which is what a function's error path has to do:

* `FailuresNoticed`, if `Watches(Functions)`: unless the result of the call is
  ignored, every error ends the function or its record, which no other thread can
  have replaced, is asked for. It says nothing of the calls that are ignored;
* `ErrorsShown`, if `Tells(Functions)`: every error that leaves a record is
  asked for;
* `TextsOwn`, if `Explains(Functions)`: a function that ends on an error makes
  its exception from that record or of words of its own.

`CarefulAssumption` of `ErrorFunctions` says that `AllFunctions` do this, and
TLC evaluates it in errors; `SetConnOption` and `CheckFunctionSupport` do not.
`Inductive` says what is known between the return of a CLI call and the check of
its result: the record is still there (`Recorded`), and nothing is answered yet;
`Marked` adds for `Noticed` that a failure is on its way to the check or has
left an exception.

`DbiCursorProofs` proves for any set of cursors and any failures `TypeCorrect`,
and if batches do not overlap (`~Overlap`) `ModesRestored`, `NothingTakenBack`
and `OnlyCommitsCommit`, of the three properties of cursors. In `Inductive` the
stage of the one batch in progress says what driver and field are: in autocommit
mode they are off exactly if the batch has switched them (`Automatic`), in
manual mode no batch switches (`Manual`), and while the driver is in autocommit
mode no work is open. `SameMode` covers all steps that switch nothing;
`Switched`, `Noted` and `ConnectionSteps` the others.

Each of the invariants named above was checked by TLC first, under the hypotheses
of its theorem. Induction over numbers, for `RowsBetween` and for sorted lists,
goes through the least element of a set of numbers (`WFMin` of the library's
well-founded induction), a theorem without an operator parameter.

Only model-checked: the liveness properties `Released` and `CallsEnd`, which are
out of the prover's reach (fairness, ENABLED), and that the properties of
section 4 are refuted.

## 6. Assumptions, and what is not modelled

The CLI is external. It is modelled from the way the code uses it:

* SQLDisconnect refuses a connection with open work (SQLSTATE 25000), and
  SQLFreeHandle a connected DBC or an environment with connections.
* SQL_ATTR_AUTOCOMMIT ON commits the open work.
* An error of SQLEndTran leaves the work open, or rolled back on all
  connections of the environment; it is atomic over them.
* The CLI keeps the address that SQLBindParameter was given, and SQLExecute
  fails if a marker has none.
* SQLFetchScroll with several rows marks rows that cannot be read and returns
  SQL_SUCCESS_WITH_INFO unless there is no other row.
* A CLI statement is a number. The CLI answers SQL_INVALID_HANDLE for one that
  it does not know, gives a free number to a new statement, and SQLDisconnect
  frees the statements of the connection.
* SQLGetDiagRec gives the records of the latest call on a handle; a call that
  succeeds leaves none, SQLGetFunctions and a NULL from the driver none either.
* Switching SQL_ATTR_AUTOCOMMIT off leaves committed work alone; what is
  executed then is open until it is committed or rolled back.

Behaviours end where C leaves the outcome undefined (a deleted structure is
dereferenced, a NULL is decremented, SQLFetch writes to freed memory): what
follows is not predicted. A freed buffer that SQLExecute reads is the value
`Freed`. Addresses and DBCs are not used again.

Not modelled:

* the types of values and their conversion, output parameters, PARAM_FILE and
  arrays of `execute`, and so the outputs of procedures;
* options besides autocommit and the array size, of which only errors are
  modelled; what the information, catalog and column functions return;
* what databases or loads exist on the server (createdb, zload_begin and the
  like are modelled by their CLI calls and errors);
* warning buffers, the code of get_sqlcode, and the readers without an
  argument, which return a buffer;
* of the cursor: metadata, messages, row counts, identity values, the list of
  earlier handles of nextset, the rows (these are in `RowsetFetch`);
* a coordinated connection whose autocommit could not be switched off
  (ibm_db.c:21197, the result is ignored): its statements would be committed one by
  one. `ErrorFunctions` has the call, `Coordinated` takes it to succeed;
* `Connection.close` while a cursor of it is in a call, or one is being made;
* threads that end, so that an identifier is used again, and servers of two
  kinds at once (`is_systemi`);
* logging, the timeout context manager (25 lines around connect and close), the
  build.

## 7. Plan

Order, with the most important behaviour first; 1 to 7 are done.

1. `ConnPool` and its proofs: isolation of pooled connections.
2. `AtomicUnit`, `Coordinated` and its proofs: distributed transactions.
3. `ResultSet`, `RowsetFetch` and its proofs: no row is lost.
4. `StmtParams` and its proofs: the values sent are those given.
5. `StmtHandles` and its proofs: CLI statements and their owners.
6. `ErrorInfo`, `ErrorFunctions` and proofs: errors of all functions.
7. `DbiCursor` and its proofs: the transaction of a connection's cursors.
8. The handles of nextset; output parameters of callproc in the list of
   `StmtParams`.
9. `ZLoad`: the protocol of the load functions.
10. `ConnPool` with threads that end and identifiers that are used again;
    `RowsetFetch` with two servers for `is_systemi`.

Theorems to come are those of 8 to 10: that nextset frees each handle once, that
no data is put outside a load, and what remains of `ThreadIsolation` when
identifiers are used again. `RowsDelivered` could admit unreadable rows with a
`ResultSet` that may skip them, which is what the code does and not what its
documentation says.
