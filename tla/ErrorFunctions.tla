--------------------------- MODULE ErrorFunctions ---------------------------
(***************************************************************************)
(* The functions of ibm_db for ErrorInfo: by function, the CLI calls that  *)
(* it makes, after which results it asks for the error record, which       *)
(* results end it, and how.  A function with calls it may leave out is a   *)
(* set of alternatives.                                                    *)
(***************************************************************************)
EXTENDS ErrorInfo

E == {"error"}
EI == {"error", "info"}
EV == {"error", "invalid"}
EVI == {"error", "invalid", "info"}
NotOk == {"error", "invalid", "info", "nodata"}

\* How a function ends: with the exception of the error or without it.
Raises(on, looks, fails) == CliCall(on, looks, fails, "keep", "NULL")
RaisesFalse(on, looks, fails) == CliCall(on, looks, fails, "keep", "FALSE")
SaysFalse(on, looks, fails) == CliCall(on, looks, fails, "clear", "FALSE")
InOwnWords(on, looks, fails) == CliCall(on, looks, fails, "client", "NULL")

\* With its own words and the text in the buffer.
Rebuilds(looks) == CliCall("stmt", looks, E, "rebuild", "NULL")
OnNew(c) == [c EXCEPT !.on = "new"]

\* The function itself may answer SQL_ERROR where no CLI call has failed.
OrDriver(c) == [c EXCEPT !.driver = TRUE]
Quiet(c) == [c EXCEPT !.quiet = TRUE]

\* A CLI call whose result nothing looks at.
Ignored(on) == [CliCall(on, {}, {}, "keep", "NULL") EXCEPT !.ignored = TRUE]

\* If one result is treated in its own way.
Only(c, code) == [c EXCEPT !.only = {code}]
Except(c, code) == [c EXCEPT !.only = @ \ {code}]

-----------------------------------------------------------------------------
(* Statements *)

\* Most statement attributes that cannot be set leave an exception and let the
\* function go on; some end it.
AttributeError == {Raises("new", E, {}), Raises("new", E, E)}

ExecDirect == Raises("new", EVI, EV)
Exec == {Creator(<<Raises("dbc", E, E), ExecDirect>>)}
          \cup {Creator(<<Raises("dbc", E, E), a, ExecDirect>>) : a \in AttributeError}

\* An invalid handle is given words of its own.
PrepareAlloc == {Except(Raises("dbc", E, E), "invalid"), Only(InOwnWords("dbc", EV, EV), "invalid")}
SQLPrepare == Raises("new", E, EV)
Prepare == {Creator(<<a, SQLPrepare>>) : a \in PrepareAlloc}
             \cup {Creator(<<a, o, SQLPrepare>>) : a \in PrepareAlloc, o \in AttributeError}

CatalogFunction(c) == [Function(<<RaisesFalse("dbc", E, E), c>>) EXCEPT !.creates = "set"]
Catalog == {CatalogFunction(RaisesFalse("new", E, E))}
ForeignKeys == {CatalogFunction(SaysFalse("new", E, E))}

\* A result set that comes with a warning is given up.
NextResult ==
  { [Creator(<<RaisesFalse("dbc", EV, EV), RaisesFalse("stmt", EVI, NotOk)>>)
       EXCEPT !.creates = "unset"] }

BindParam == {Function(<<OrDriver(Rebuilds(EI))>>)}

\* SQLFreeStmt and SQLNumParams, then the parameters; an array asks for its
\* descriptors between two of them.
Execute ==
  LET start == Ignored("stmt")
      bind == OrDriver(Rebuilds(EI))
  IN {Function(c) : c \in {<<start, bind>>, <<start, bind, Ignored("stmt"), bind>>}}

\* The same; SQLParamData comes after each value sent at execution.
ExecuteMany == {[f EXCEPT !.clears = {"stmt"}] : f \in Execute}
Callproc ==
  {Creator(<<a, SQLPrepare, OnNew(Rebuilds(EI)), OnNew(OrDriver(Rebuilds(EI)))>>) :
     a \in PrepareAlloc}

FreeResult == {Function(<<SaysFalse("stmt", EI, E)>>)}
FreeStmt == {Function(<<RaisesFalse("stmt", EI, E)>>)}

-----------------------------------------------------------------------------
(* Columns and rows *)

Fetch ==
  LET fetch == Rebuilds(EI)
      columns == OrDriver(Rebuilds(EI))
  IN {[Function(c) EXCEPT !.resets = TRUE] : c \in {<<fetch>>, <<columns, fetch>>}}

\* fetchone, fetchmany and fetchall.  SQLFreeStmt with SQL_UNBIND; the rowset's
\* size and its other attributes; SQLFetchScroll, again with the size of the
\* last rowset; the attributes are set back.
FetchRowset ==
  LET describe == OrDriver(Rebuilds(EI))
      attributes == <<Ignored("stmt"), Rebuilds(EI), Raises("stmt", EI, E)>>
      fetch == CliCall("stmt", EVI, EV, "rebuild", "NULL")
      again == <<fetch, Ignored("stmt"), fetch>>
  IN {[Function(before \o attributes \o rows \o <<Ignored("stmt")>>) EXCEPT !.resets = TRUE] :
        before \in {<<>>, <<describe>>}, rows \in {<<fetch>>, again}}

NumFields == {Function(<<Rebuilds(EI)>>)}

NumRows == {Function(<<Rebuilds(E)>>)}

\* SQLGetDiagField, which leaves no record.
GetNumResult == {Function(<<Quiet(Rebuilds(EI))>>)}

\* get_column_by_name describes the columns twice unless that was done before;
\* it looks at the second result only.  nodata: there are no columns.
GetColumnByName == <<RaisesFalse("stmt", EI, {}), RaisesFalse("stmt", EI, {"error", "nodata"})>>
AndThen(c) == {Function(<<c>>), Function(GetColumnByName \o <<c>>)}

FieldName == {Function(GetColumnByName)}   \* and num, precision, scale and type
FieldDisplaySize == AndThen(RaisesFalse("stmt", EVI, EV))
FieldNullable == AndThen(RaisesFalse("stmt", EVI, EVI))
FieldWidth == AndThen(SaysFalse("stmt", NotOk, NotOk))

-----------------------------------------------------------------------------
(* Connections and environments *)

Connecting(calls) == [Function(calls) EXCEPT !.clears = {"dbc"}]

\* Ignored: autocommit, which is set first, and the name of the server or the
\* replacement of literals, if there is a later call for it.
Connect ==
  LET connect == Raises("dbc", EI, E) IN
  {Connecting(c) : c \in {<<Ignored("dbc"), connect>>,
                          <<Ignored("dbc"), connect, Ignored("dbc"), connect>>}}

Commit == {Function(<<RaisesFalse("dbc", E, E)>>)}
Rollback == {Function(<<SaysFalse("dbc", E, E)>>)}
Autocommit == {Function(<<RaisesFalse("dbc", E, {})>>)}
Active == {Function(<<SaysFalse("dbc", E, EV)>>)}

\* Rollback; disconnect, free the connection, free its environment.
Close ==
  LET end == <<Raises("dbc", EI, E), Raises("dbc", EI, E), Raises("henv", EI, E)>> IN
  {Function(end), Function(<<Raises("dbc", E, E)>> \o end)}

\* Everything but success is a failure; a database that is there already, or
\* not there for recreatedb, counts as success.
DropDb == Raises("dbc", NotOk, NotOk)
CreateDb == Raises("dbc", NotOk, NotOk)
CreateDatabase == {Function(<<CreateDb>>), Function(<<DropDb>>), Function(<<DropDb, CreateDb>>)}

\* Without a handle there is no record to ask for.
AllocEnv == {Function(<<CliCall("env", {}, NotOk, "clear", "NULL"), InOwnWords("env", EV, EV)>>)}
SetEnvAttr == {Function(<<InOwnWords("env", EV, EV)>>)}
ConnectInEnv ==
  {Function(<<InOwnWords("env", NotOk, NotOk),
              Ignored("dbc"),
              Raises("dbc", {"error", "invalid", "nodata"}, {"error", "invalid", "nodata"})>>)}
FreeEnv == {Function(<<InOwnWords("env", E, E)>>)}
EndTwoPhase == {Function(<<InOwnWords("env", E, E)>>)}

-----------------------------------------------------------------------------
(* Information and options *)

GetDbInfo == {Function(<<SaysFalse("dbc", EI, E)>>)}

\* The name of the product, the others and the name of the database, the only
\* one whose exception stays.
ServerInfo ==
  {Function(<<SaysFalse("dbc", E, E), SaysFalse("dbc", EI, E), RaisesFalse("dbc", EI, E)>>)}
ClientInfo == {Function(<<SaysFalse("dbc", EI, E)>>)}
GetOption == {Function(<<SaysFalse(h, E, E)>>) : h \in {"dbc", "stmt"}}

\* As for a new statement; the text is replaced.
SetStmtOption == {Function(<<RaisesFalse("stmt", E, {})>>), Function(<<InOwnWords("stmt", E, E)>>)}

ZloadAttribute == SaysFalse("stmt", E, E)
ZloadBegin == {Function(<<ZloadAttribute, ZloadAttribute>>)}
ZloadPutData == {Function(<<SaysFalse("stmt", EI, E)>>)}
ZloadEnd == {Function(<<ZloadAttribute>>)}

\* Not asked for after an error: the record of a connection whose option is
\* set (that of a statement is), or of a function that is not supported.
SetConnOption == {Function(<<RaisesFalse("dbc", {}, {})>>)}
CheckFunctionSupport == {Function(<<RaisesFalse("dbc", {}, E)>>)}

AllFunctions ==
  UNION {Exec, Prepare, Catalog, ForeignKeys, NextResult, BindParam, Execute, ExecuteMany,
         Callproc, FreeResult, FreeStmt, Fetch, FetchRowset, NumFields, NumRows, GetNumResult,
         FieldName, FieldDisplaySize, FieldNullable, FieldWidth,
         Connect, Commit, Rollback, Autocommit, Active, Close, CreateDatabase,
         AllocEnv, SetEnvAttr, ConnectInEnv, FreeEnv, EndTwoPhase,
         GetDbInfo, ServerInfo, ClientInfo, GetOption, SetStmtOption,
         ZloadBegin, ZloadPutData, ZloadEnd}

\* "Returns TRUE on success or FALSE on failure" (see the README): with these
\* functions Noticed is false.
NoneIgnored ==
  LET Seen(c) == [c EXCEPT !.ignored = FALSE]
  IN {[f EXCEPT !.calls = [i \in DOMAIN f.calls |-> Seen(f.calls[i])]] : f \in AllFunctions}

\* With handles of its own a thread's calls do what the theorems about
\* ErrorInfo ask for.
ASSUME CarefulAssumption ==
  Shared \subseteq {"env"} =>
    Watches(AllFunctions) /\ Tells(AllFunctions) /\ Explains(AllFunctions)
=============================================================================
