----------------------------- MODULE ErrorInfo -----------------------------
(***************************************************************************)
(* What becomes of an error: the records that the CLI keeps for a handle,  *)
(* the exception that a function of ibm_db raises from them, the error     *)
(* buffers of the process that conn_errormsg() and stmt_errormsg() show,   *)
(* and the number of the record that conn_error(c), stmt_errormsg(s) and   *)
(* so on will read next.                                                   *)
(*                                                                         *)
(* One thread calls functions on its connection and its statement.  Every  *)
(* CLI call releases the GIL; then other threads may write the buffers     *)
(* (OtherFails) and, if they use the same handle, its records              *)
(* (OtherCalls).  A function is given by its CLI calls and by what it does *)
(* after each result; CLI calls that are treated alike are one call.  Left *)
(* out are the calls that free what a function has made that fails.        *)
(*                                                                         *)
(* Of a text only the call is kept that it comes from.  Warnings (with     *)
(* buffers of their own) and err_code, which are written in the same       *)
(* places, are left out.  External: the CLI, which keeps the records of    *)
(* the latest call on a handle.                                            *)
(***************************************************************************)
EXTENDS Naturals, Sequences

CONSTANTS
  Functions,  \* a set of functions as below
  Shared,     \* the handles that other threads use too
  Objects,    \* the handles of Python objects whose records are read
  MaxRecord   \* records are read up to this one

\* env: the environment of coordinated connections, henv: the one that every
\* other connection has for itself, new: the statement being created.
Handles == {"env", "henv", "dbc", "stmt", "new"}
Environments == {"env", "henv"}
Buffers == {"dbc", "stmt"}

\* Where a text is from: the thread's latest CLI call, an earlier one, another
\* thread's, the driver's own words, or an error buffer with nothing in it.
Texts == {"latest", "earlier", "other", "client", "empty"}
Records == {"none", "latest", "earlier", "other"}

Codes == {"ok", "info", "error", "invalid", "nodata"}

(* A CLI call is on a handle.  After a result in `looks' the record is looked *)
(* up, one in `fails' ends the function, which then does `text' with the      *)
(* exception and returns `answer' (NULL or FALSE).  `driver': the function    *)
(* may take the failure of something else for one of the call; `quiet': the   *)
(* call leaves no record; `ignored': its result is not looked at; `only': the *)
(* results that it stands for.                                                *)
CliCall(on, looks, fails, text, answer) ==
  [ on |-> on, looks |-> looks, fails |-> fails, text |-> text, answer |-> answer,
    driver |-> FALSE, quiet |-> FALSE, ignored |-> FALSE, only |-> Codes ]

(* A function begins with an empty buffer `clears' or with the trackers set   *)
(* back; it may return a new statement, with its trackers set or not.         *)
Function(calls) == [calls |-> calls, clears |-> {}, resets |-> FALSE, creates |-> "no"]
Creator(calls) == [Function(calls) EXCEPT !.clears = {"stmt"}, !.creates = "set"]

CliCalls ==
  [ on : Handles, looks : SUBSET Codes, fails : SUBSET Codes,
    text : {"keep", "rebuild", "clear", "client"}, answer : {"NULL", "FALSE"},
    driver : BOOLEAN, quiet : BOOLEAN, ignored : BOOLEAN, only : SUBSET Codes ]
Creates == {"no", "set", "unset"}

ASSUME FunctionsAssumption ==
  /\ MaxRecord \in Nat
  /\ Shared \subseteq Handles
  /\ Objects \subseteq {"dbc", "stmt"}
  /\ \A f \in Functions :
       /\ f.calls \in Seq(CliCalls) /\ f.calls # <<>>
       /\ f.clears \subseteq Buffers /\ f.resets \in BOOLEAN /\ f.creates \in Creates

CallsOf(F) == UNION {{f.calls[i] : i \in DOMAIN f.calls} : f \in F}
AllCalls == CallsOf(Functions)

VARIABLES
  diag,     \* by handle: the text of the first record, if there is one
  err,      \* the error buffers
  tracker,  \* by object: the next record for its SQLSTATE and for its message
  open,     \* the last record of which one of the two was read
  call,     \* the function that the thread is in: the CLI calls that are left
  answer    \* what the last function answered

vars == <<diag, err, tracker, open, call, answer>>

NoCall == [calls |-> <<>>, creates |-> "no", code |-> "none", raised |-> "none", failed |-> FALSE]
Idle == call.calls = <<>>
Current == Head(call.calls)

NoAnswer == [kind |-> "none", text |-> "none", failed |-> FALSE, on |-> "none"]
Nothing == [kind |-> "none", record |-> 0]

Numbers == 0 .. MaxRecord + 1

\* 0 stands for whatever an uninitialized number is.
NotSet == [state |-> 0, message |-> 0]

TypeOK ==
  /\ diag \in [Handles -> Records]
  /\ err \in [Buffers -> Records]
  /\ tracker \in [Objects -> [state : Numbers, message : Numbers]]
  /\ open \in [Objects -> [kind : {"none", "state", "message", "unset"}, record : Numbers]]
  /\ call \in [calls : Seq(AllCalls), creates : Creates, code : Codes \cup {"none", "driver"},
               raised : Records, failed : BOOLEAN]
  /\ answer \in [kind : {"none", "value", "FALSE", "exception", "SystemError"},
                 text : Texts \cup {"none"}, failed : BOOLEAN, on : Handles \cup {"none"}]
  /\ answer.kind = "exception" <=> answer.text # "none"

Init ==
  /\ diag = [h \in Handles |-> "none"]
  /\ err = [b \in Buffers |-> "none"]
  /\ tracker = [h \in Objects |-> [state |-> 1, message |-> 1]]
  /\ open = [h \in Objects |-> Nothing]
  /\ call = NoCall
  /\ answer = NoAnswer

-----------------------------------------------------------------------------
(* A function *)

Begin(f) ==
  /\ Idle
  /\ call' = [NoCall EXCEPT !.calls = f.calls, !.creates = f.creates]
  /\ err' = [b \in Buffers |-> IF b \in f.clears THEN "none" ELSE err[b]]
  /\ IF f.resets
     THEN /\ tracker' = [tracker EXCEPT !["stmt"] = [state |-> 1, message |-> 1]]
          /\ open' = [open EXCEPT !["stmt"] = Nothing]
     ELSE UNCHANGED <<tracker, open>>
  /\ answer' = NoAnswer
  /\ UNCHANGED diag

\* The text of the latest call is that of an earlier one from now on.
Older(texts) == [x \in DOMAIN texts |-> IF texts[x] = "latest" THEN "earlier" ELSE texts[x]]

\* The CLI call returns; the thread waits for the GIL.
CliReturns(code) ==
  /\ ~Idle
  /\ call.code = "none"
  /\ IF code = "driver" THEN Current.driver ELSE code \in Current.only
  /\ diag' = IF code = "driver" \/ Current.quiet THEN Older(diag)
             ELSE [Older(diag) EXCEPT ![Current.on] =
                     IF code \in {"error", "info"} THEN "latest" ELSE "none"]
  /\ err' = Older(err)
  /\ call' = [call EXCEPT !.code = code,
                          !.failed = @ \/ (code = "error" /\ ~Current.ignored),
                          !.raised = IF @ = "latest" THEN "earlier" ELSE @]
  /\ UNCHANGED <<tracker, open, answer>>

Result == IF call.code = "driver" THEN "error" ELSE call.code

\* _python_ibm_db_check_sql_errors: a warning is no exception, and only the
\* text of an error goes to the buffer.
Looked == Result \in Current.looks /\ diag[Current.on] # "none"
BufferOf(h) == IF h = "dbc" THEN "dbc" ELSE "stmt"

\* MUTANT: every record is an exception only if it is a warning.
Raised_Info == IF Looked /\ Result = "info" THEN diag[Current.on] ELSE call.raised

Raised == IF Looked /\ Result # "info" THEN diag[Current.on] ELSE call.raised

\* MUTANT: the text of a statement's error is copied to the connection's buffer.
Cached_Connection ==
  IF Looked /\ Result = "error" THEN [err EXCEPT !["dbc"] = diag[Current.on]] ELSE err

Cached == IF Looked /\ Result = "error" /\ Current.on \notin Environments
          THEN [err EXCEPT ![BufferOf(Current.on)] = diag[Current.on]] ELSE err

\* MUTANT: the buffer is read before the record is copied to it.
ErrorText_Before ==
  [ keep |-> Raised,
    clear |-> "none",
    client |-> "client",
    rebuild |-> IF err["stmt"] = "none" THEN "empty" ELSE err["stmt"] ][Current.text]

\* What a function that fails makes of the exception.
ErrorText ==
  [ keep |-> Raised,
    clear |-> "none",
    client |-> "client",
    rebuild |-> IF Cached["stmt"] = "none" THEN "empty" ELSE Cached["stmt"] ][Current.text]

\* The handle with the record of an error that the function looks at.
On == IF call.code = "error" /\ ~Current.quiet /\ ~Current.ignored THEN Current.on ELSE "none"

\* MUTANT: NULL is an exception, whether one was raised or not.
Answer_Null(result, text) ==
  [ kind |-> IF result = "NULL" THEN "exception" ELSE result,
    text |-> text, failed |-> call.failed, on |-> On ]

\* The interpreter: NULL needs an exception, anything else must have none.
Answer(result, text) ==
  [ kind |-> IF (result = "NULL") = (text = "none") THEN "SystemError"
             ELSE IF result = "NULL" THEN "exception" ELSE result,
    text |-> IF result = "NULL" THEN text ELSE "none",
    failed |-> call.failed, on |-> On ]

\* The records of a statement that was not returned and of an environment
\* that is freed are not asked for any more.
Kept(records) ==
  [h \in Handles |-> IF h \in {"henv", "new"} THEN "none" ELSE records[h]]

Fails ==
  /\ ~Idle
  /\ Result \in Current.fails
  /\ answer' = Answer(Current.answer, ErrorText)
  /\ err' = Cached
  /\ diag' = Kept(diag)
  /\ call' = NoCall
  /\ UNCHANGED <<tracker, open>>

Continues ==
  /\ ~Idle
  /\ call.code # "none" /\ Result \notin Current.fails
  /\ Tail(call.calls) # <<>>
  /\ call' = [call EXCEPT !.calls = Tail(@), !.code = "none", !.raised = Raised]
  /\ err' = Cached
  /\ UNCHANGED <<diag, tracker, open, answer>>

\* A new statement object.  next_result sets the trackers of the old object:
\* those of the new one keep what was in its memory.
NewTrackers ==
  \/ call.creates = "no" /\ UNCHANGED <<tracker, open>>
  \/ /\ call.creates = "set"
     /\ tracker' = [tracker EXCEPT !["stmt"] = [state |-> 1, message |-> 1]]
     /\ open' = [open EXCEPT !["stmt"] = Nothing]
  \/ /\ call.creates = "unset"
     /\ tracker' = [tracker EXCEPT !["stmt"] = NotSet]
     /\ open' = [open EXCEPT !["stmt"] = [kind |-> "unset", record |-> 0]]

Succeeds ==
  /\ ~Idle
  /\ call.code # "none" /\ Result \notin Current.fails
  /\ Tail(call.calls) = <<>>
  /\ answer' = Answer("value", Raised)
  /\ err' = Cached
  /\ call' = NoCall
  /\ NewTrackers
  /\ diag' = Kept(IF call.creates = "no" THEN diag ELSE [diag EXCEPT !["stmt"] = diag["new"]])

-----------------------------------------------------------------------------
(* Reading the records of an object *)

\* Reading one number of the two: the other one follows up to this record, so
\* that it reads the same one next, if it was behind.
Ahead(mine, other) == IF mine > other THEN mine ELSE other

\* A message after a SQLSTATE, or the other way round, closes the record.
NowOpen(h, kind, record) ==
  IF open[h].kind = "unset" THEN open[h]
  ELSE IF open[h].kind \in {"none", kind} THEN [kind |-> kind, record |-> record]
  ELSE Nothing

ReadStep(h, kind, record, track) ==
  /\ Idle
  /\ record \in 1 .. MaxRecord
  /\ tracker' = [tracker EXCEPT ![h] = track]
  /\ open' = [open EXCEPT ![h] = NowOpen(h, kind, record)]
  /\ UNCHANGED <<diag, err, call, answer>>

\* MUTANT: the number for the message does not follow.
ReadState_Alone(h) ==
  LET s == tracker[h].state IN
  ReadStep(h, "state", s, [state |-> s + 1, message |-> tracker[h].message])

\* conn_error, stmt_error and conn_warn with an object.
ReadState(h) ==
  LET s == tracker[h].state IN
  ReadStep(h, "state", s, [state |-> s + 1, message |-> Ahead(s, tracker[h].message)])

\* conn_errormsg, stmt_errormsg and stmt_warn with an object.
ReadMessage(h) ==
  LET m == tracker[h].message IN
  ReadStep(h, "message", m, [message |-> m + 1, state |-> Ahead(m, tracker[h].state)])

-----------------------------------------------------------------------------
(* Other threads *)

OtherFails(b) ==
  /\ err' = [err EXCEPT ![b] = "other"]
  /\ UNCHANGED <<diag, tracker, open, call, answer>>

OtherCalls(h) ==
  /\ h \in Shared
  /\ \E text \in {"none", "other"} : diag' = [diag EXCEPT ![h] = text]
  /\ UNCHANGED <<err, tracker, open, call, answer>>

-----------------------------------------------------------------------------

Next ==
  \/ \E f \in Functions : Begin(f)
  \/ \E code \in Codes \cup {"driver"} : CliReturns(code)
  \/ Fails \/ Continues \/ Succeeds
  \/ \E h \in Objects : ReadState(h) \/ ReadMessage(h)
  \/ \E b \in Buffers : OtherFails(b)
  \/ \E h \in Handles : OtherCalls(h)

Spec == Init /\ [][Next]_vars

-----------------------------------------------------------------------------
(* Properties *)

\* The exception for a CLI call that left a record has the text of this
\* record, not of an earlier call or another thread's, or the driver's words.
OwnText ==
  answer.kind = "exception" /\ answer.on # "none" => answer.text \in {"latest", "client"}

\* A function of which a CLI call failed does not answer as if none had, unless
\* it ignores what this call returns.
Noticed == answer.kind = "value" => ~answer.failed

\* After a CLI call that is not ignored has failed on a handle, the buffer for
\* the handles of its type has the text, unless another thread has written
\* there: conn_errormsg() or stmt_errormsg() without an argument show it.
Shown ==
  answer.on \notin Environments \cup {"none"} => err[BufferOf(answer.on)] \in {"latest", "other"}

\* A SQLSTATE and the message that is read next, or the other way round, are of
\* the same record.
Paired ==
  \A h \in Objects :
    /\ open[h].kind = "none" => tracker[h].state = tracker[h].message
    /\ open[h].kind = "state" => tracker[h].message = open[h].record
    /\ open[h].kind = "message" => tracker[h].state = open[h].record

(* What the documentation says and the code does not do (see the README) *)

\* "The driver returns the error message associated with the last attempt to
\* return a statement resource": the text is never that of another call.
AnyOwnText == answer.kind = "exception" => answer.text \in {"latest", "client"}

\* "Returns TRUE on success or FALSE on failure": no function returns a value
\* with an exception pending.
NoPending == answer.kind # "SystemError"

\* "The error message and SQLCODE value for the last error that occurred": after
\* a failing call the first record is read next.
FirstRecordNext ==
  [][\A h \in Objects : answer.on # h /\ answer'.on = h => tracker'[h].message = 1]_vars

\* "This needs to match _ibm_db_new_stmt_struct", which sets the trackers.
TrackersSet == \A h \in Objects : open[h].kind # "unset"

-----------------------------------------------------------------------------
(* What the calls of a set of functions F must do for OwnText, Noticed and *)
(* Shown to hold.                                                          *)

\* After an error the record is looked up, and no other thread can have
\* replaced it.
Asks(c) == "error" \in c.looks /\ c.on \notin Shared

\* Every error that is not ignored ends the function or leaves an exception.
Watches(F) == \A c \in CallsOf(F) :
  c.ignored \/ "error" \in c.fails \/ (Asks(c) /\ ~c.quiet)

\* Every error that is not ignored and has a record goes to the buffers.
Tells(F) == \A c \in CallsOf(F) :
  c.ignored \/ c.quiet \/ c.on \in Environments \/ Asks(c)

\* An exception is made from the record of the call that ends the function.
Explains(F) == \A c \in CallsOf(F) :
  "error" \in c.fails /\ ~c.quiet =>
    \/ c.text \in {"clear", "client"}
    \/ Asks(c) /\ (c.text = "rebuild" => c.on \in {"stmt", "new"})
=============================================================================
