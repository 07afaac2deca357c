-------------------------- MODULE ErrorInfoProofs --------------------------
(***************************************************************************)
(* Proofs about ErrorInfo, for every set of functions and every number of  *)
(* records.  Inductive is the invariant: besides the types it says what is *)
(* known while a function is under way, between the return of a CLI call   *)
(* and the check of its result.                                            *)
(***************************************************************************)
EXTENDS ErrorInfo, SequenceTheorems, TLAPS

\* A function has answered nothing while it is under way.
Unanswered == ~Idle => answer = NoAnswer

\* The record of the call that has just failed is still there.
Recorded ==
  ~Idle /\ call.code = "error" /\ ~Current.quiet /\ Current.on \notin Shared
    => diag[Current.on] = "latest"

\* A failure is on the way to the check, or it has left an exception.
Marked ==
  ~Idle /\ call.failed => (call.code = "error" /\ ~Current.ignored) \/ call.raised # "none"

Inductive == TypeOK /\ Unanswered /\ Recorded

-----------------------------------------------------------------------------

LEMMA CallsTyped ==
  /\ AllCalls \subseteq CliCalls
  /\ \A f \in Functions : f.calls \in Seq(AllCalls)
  <1>1. ASSUME NEW f \in Functions
        PROVE  /\ \A i \in DOMAIN f.calls : f.calls[i] \in CliCalls
               /\ f.calls \in Seq(AllCalls)
    <2>1. f.calls \in Seq(CliCalls)
      BY FunctionsAssumption
    <2>2. \A i \in DOMAIN f.calls : f.calls[i] \in AllCalls
      BY DEF AllCalls, CallsOf
    <2> QED BY <2>1, <2>2
  <1>2. ASSUME NEW c \in AllCalls PROVE c \in CliCalls
    <2>1. PICK f \in Functions : \E i \in DOMAIN f.calls : c = f.calls[i]
      BY DEF AllCalls, CallsOf
    <2> QED BY <1>1, <2>1
  <1> QED BY <1>1, <1>2

\* Under way, the current call is one of a function.
LEMMA CurrentCall ==
  ASSUME TypeOK, ~Idle
  PROVE  /\ Current \in AllCalls /\ Tail(call.calls) \in Seq(AllCalls)
         /\ Current.on \in Handles
         /\ Current.text \in {"keep", "rebuild", "clear", "client"}
         /\ Current.answer \in {"NULL", "FALSE"}
         /\ Current.fails \subseteq Codes /\ Current.looks \subseteq Codes
         /\ Current.quiet \in BOOLEAN /\ Current.ignored \in BOOLEAN
  <1>1. call.calls \in Seq(AllCalls) /\ call.calls # <<>>
    BY DEF TypeOK, Idle
  <1>2. Current \in AllCalls /\ Tail(call.calls) \in Seq(AllCalls)
    BY <1>1, HeadTailProperties DEF Current
  <1>3. Current \in CliCalls
    BY <1>2, CallsTyped
  <1> QED BY <1>2, <1>3 DEF CliCalls

\* The type of `call'.
CallRecord ==
  [calls : Seq(AllCalls), creates : Creates, code : Codes \cup {"none", "driver"},
   raised : Records, failed : BOOLEAN]

LEMMA NoCallType == NoCall \in CallRecord /\ NoCall.calls = <<>>
  <1>1. <<>> \in Seq(AllCalls)
    BY EmptySeq
  <1> QED BY <1>1 DEF NoCall, CallRecord, Creates, Records

LEMMA KeptType ==
  ASSUME NEW records \in [Handles -> Records]
  PROVE  Kept(records) \in [Handles -> Records]
  BY DEF Kept, Records

LEMMA OlderType ==
  ASSUME NEW D, NEW texts \in [D -> Records]
  PROVE  /\ Older(texts) \in [D -> Records]
         /\ \A x \in D : Older(texts)[x] # "none" <=> texts[x] # "none"
  BY DEF Older, Records

\* The exception and the buffers after a check.
LEMMA RaisedType ==
  ASSUME TypeOK, ~Idle
  PROVE  Raised \in Records /\ Cached \in [Buffers -> Records]
  <1>1. Current.on \in Handles
    BY CurrentCall
  <1>2. diag[Current.on] \in Records /\ call.raised \in Records
    BY <1>1 DEF TypeOK
  <1>3. Raised \in Records
    BY <1>2 DEF Raised
  <1>4. err \in [Buffers -> Records]
    BY DEF TypeOK
  <1>5. Cached \in [Buffers -> Records]
    BY <1>2, <1>4 DEF Cached
  <1> QED BY <1>3, <1>5

LEMMA ErrorTextType ==
  ASSUME TypeOK, ~Idle
  PROVE  ErrorText \in Texts \cup {"none"}
  <1>1. Raised \in Records /\ Cached \in [Buffers -> Records]
    BY RaisedType
  <1>2. Cached["stmt"] \in Records
    BY <1>1 DEF Buffers
  <1>3. Current.text \in {"keep", "rebuild", "clear", "client"}
    BY CurrentCall
  <1> QED BY <1>1, <1>2, <1>3 DEF ErrorText, Records, Texts

AnswerRecord ==
  [kind : {"none", "value", "FALSE", "exception", "SystemError"},
   text : Texts \cup {"none"}, failed : BOOLEAN, on : Handles \cup {"none"}]

LEMMA AnswerType ==
  ASSUME TypeOK, ~Idle, NEW result \in {"NULL", "FALSE", "value"},
         NEW text \in Texts \cup {"none"}
  PROVE  /\ Answer(result, text) \in AnswerRecord
         /\ Answer(result, text).kind = "exception" <=> Answer(result, text).text # "none"
  <1>1. Current.on \in Handles /\ call.failed \in BOOLEAN
    BY CurrentCall DEF TypeOK
  <1> On \in Handles \cup {"none"}
    BY <1>1 DEF On
  <1>2. CASE result = "NULL"
    BY <1>1, <1>2 DEF Answer, AnswerRecord
  <1>3. CASE result # "NULL"
    BY <1>1, <1>3 DEF Answer, AnswerRecord
  <1> QED BY <1>2, <1>3

-----------------------------------------------------------------------------

\* Replacing the value of one object, or of none.
LEMMA ReplaceOne ==
  ASSUME NEW S, NEW f \in [Objects -> S], NEW h, NEW v \in S
  PROVE  [f EXCEPT ![h] = v] \in [Objects -> S]
  OBVIOUS

TrackerRecord == [state : Numbers, message : Numbers]
OpenRecord == [kind : {"none", "state", "message", "unset"}, record : Numbers]

LEMMA RecordTypes ==
  /\ [state |-> 1, message |-> 1] \in TrackerRecord /\ NotSet \in TrackerRecord
  /\ Nothing \in OpenRecord /\ [kind |-> "unset", record |-> 0] \in OpenRecord
  BY FunctionsAssumption DEF TrackerRecord, OpenRecord, NotSet, Nothing, Numbers

LEMMA TrackersReplaced ==
  ASSUME TypeOK, NEW t \in TrackerRecord, NEW o \in OpenRecord
  PROVE  /\ tracker \in [Objects -> TrackerRecord] /\ open \in [Objects -> OpenRecord]
         /\ [tracker EXCEPT !["stmt"] = t] \in [Objects -> TrackerRecord]
         /\ [open EXCEPT !["stmt"] = o] \in [Objects -> OpenRecord]
  <1>1. tracker \in [Objects -> TrackerRecord] /\ open \in [Objects -> OpenRecord]
    BY DEF TypeOK, TrackerRecord, OpenRecord
  <1> QED BY <1>1, ReplaceOne

LEMMA InitInductive == Init => Inductive
  <1> SUFFICES ASSUME Init PROVE Inductive
    OBVIOUS
  <1>1. MaxRecord \in Nat
    BY FunctionsAssumption
  <1>2. TypeOK
    BY <1>1, NoCallType DEF Init, TypeOK, Records, CallRecord, NoAnswer, Nothing, Numbers, Texts
  <1> QED BY <1>2 DEF Init, Inductive, Unanswered, Recorded, NoCall, Idle

\* A function begins: nothing is raised, no result is there.
LEMMA BeginInductive ==
  ASSUME Inductive, NEW f \in Functions, Begin(f)
  PROVE  Inductive'
  <1> USE DEF Inductive
  <1>1. f.calls \in Seq(AllCalls) /\ f.calls # <<>> /\ f.creates \in Creates
    BY CallsTyped, FunctionsAssumption
  <1>2. call' \in CallRecord
    BY <1>1 DEF Begin, NoCall, Records, CallRecord
  <1>3. call'.code = "none"
    BY DEF Begin, NoCall
  <1>4. err' \in [Buffers -> Records]
    BY DEF Begin, TypeOK, Records
  <1>5. tracker' \in [Objects -> TrackerRecord] /\ open' \in [Objects -> OpenRecord]
    BY TrackersReplaced, RecordTypes DEF Begin
  <1>6. TypeOK'
    BY <1>1, <1>2, <1>3, <1>4, <1>5
       DEF Begin, TypeOK, NoAnswer, Texts, TrackerRecord, OpenRecord, CallRecord
  <1> QED BY <1>3, <1>6 DEF Begin, Unanswered, Recorded

\* A CLI call returns: if it failed, its record is the latest.
LEMMA ReturnsInductive ==
  ASSUME Inductive, NEW code \in Codes \cup {"driver"}, CliReturns(code)
  PROVE  Inductive'
  <1> USE DEF Inductive
  <1>1. ~Idle /\ Current.on \in Handles
    BY CurrentCall DEF CliReturns
  <1>2. /\ call' = [call EXCEPT !.code = code,
                               !.failed = @ \/ (code = "error" /\ ~Current.ignored),
                               !.raised = IF @ = "latest" THEN "earlier" ELSE @]
        /\ call'.calls = call.calls /\ call'.code = code
        /\ Current' = Current
    BY DEF CliReturns, TypeOK, Current
  <1>3. call' \in CallRecord
    BY <1>2 DEF TypeOK, Records, CallRecord
  <1>4. Older(diag) \in [Handles -> Records] /\ Older(err) \in [Buffers -> Records]
    BY OlderType DEF TypeOK
  <1>5. diag' \in [Handles -> Records] /\ err' \in [Buffers -> Records]
    BY <1>4 DEF CliReturns, Records
  <1>6. TypeOK'
    BY <1>1, <1>2, <1>3, <1>5 DEF CliReturns, TypeOK, Idle, CallRecord
  <1>7. Recorded'
    <2> SUFFICES ASSUME code = "error", ~Current.quiet PROVE diag'[Current.on] = "latest"
      BY <1>2 DEF Recorded
    <2> QED BY <1>1, <1>4 DEF CliReturns
  <1>9. Unanswered'
    BY <1>1, <1>2 DEF CliReturns, Unanswered
  <1> QED BY <1>6, <1>7, <1>9

\* The result is checked and the function ends.
LEMMA FailsInductive ==
  ASSUME Inductive, Fails
  PROVE  Inductive'
  <1> USE DEF Inductive
  <1>1. ~Idle
    BY DEF Fails
  <1>2. err' \in [Buffers -> Records]
    BY <1>1, RaisedType DEF Fails
  <1>3. answer' \in AnswerRecord /\ (answer'.kind = "exception" <=> answer'.text # "none")
    BY <1>1, CurrentCall, ErrorTextType, AnswerType DEF Fails
  <1>4. call' = NoCall
    BY DEF Fails
  <1>5. TypeOK'
    BY <1>2, <1>3, <1>4, KeptType, NoCallType DEF Fails, TypeOK, CallRecord, AnswerRecord
  <1> QED BY <1>4, <1>5 DEF Unanswered, Recorded, NoCall, Idle

LEMMA ContinuesInductive ==
  ASSUME Inductive, Continues
  PROVE  Inductive'
  <1> USE DEF Inductive
  <1>1. ~Idle /\ Tail(call.calls) \in Seq(AllCalls)
    BY CurrentCall DEF Continues
  <1>2. Raised \in Records /\ Cached \in [Buffers -> Records]
    BY <1>1, RaisedType
  <1>3. call' = [call EXCEPT !.calls = Tail(@), !.code = "none", !.raised = Raised]
    BY DEF Continues
  <1>5. call' \in CallRecord
    BY <1>1, <1>2, <1>3 DEF TypeOK, CallRecord
  <1>6. call'.code = "none"
    BY <1>3 DEF TypeOK
  <1>7. TypeOK'
    BY <1>1, <1>2, <1>5 DEF Continues, TypeOK, CallRecord
  <1>8. Recorded'
    BY <1>6 DEF Recorded
  <1> QED BY <1>1, <1>7, <1>8 DEF Continues, Unanswered

LEMMA SucceedsInductive ==
  ASSUME Inductive, Succeeds
  PROVE  Inductive'
  <1> USE DEF Inductive
  <1>1. ~Idle /\ MaxRecord \in Nat
    BY FunctionsAssumption DEF Succeeds
  <1>2. Raised \in Records /\ err' \in [Buffers -> Records]
    BY <1>1, RaisedType DEF Succeeds
  <1>3. answer' \in AnswerRecord /\ (answer'.kind = "exception" <=> answer'.text # "none")
    BY <1>1, <1>2, AnswerType DEF Succeeds, Records, Texts
  <1>4. call' = NoCall
    BY DEF Succeeds
  <1>5. diag' \in [Handles -> Records]
    <2>1. diag \in [Handles -> Records] /\ [diag EXCEPT !["stmt"] = diag["new"]] \in [Handles -> Records]
      BY DEF TypeOK, Handles
    <2> QED BY <2>1, KeptType DEF Succeeds
  <1>6. tracker' \in [Objects -> TrackerRecord] /\ open' \in [Objects -> OpenRecord]
    BY TrackersReplaced, RecordTypes DEF Succeeds, NewTrackers
  <1>7. TypeOK'
    BY <1>2, <1>3, <1>4, <1>5, <1>6, NoCallType
       DEF TypeOK, CallRecord, AnswerRecord, TrackerRecord, OpenRecord
  <1> QED BY <1>4, <1>7 DEF Unanswered, Recorded, NoCall, Idle

LEMMA ReadInductive ==
  ASSUME Inductive, NEW h \in Objects, ReadState(h) \/ ReadMessage(h)
  PROVE  Inductive'
  <1> USE DEF Inductive
  <1>1. /\ tracker[h].state \in Nat /\ tracker[h].message \in Nat
        /\ tracker[h].state <= MaxRecord + 1 /\ tracker[h].message <= MaxRecord + 1
    BY FunctionsAssumption DEF TypeOK, Numbers
  <1>2. PICK kind \in {"state", "message"}, record \in 1 .. MaxRecord,
             track \in TrackerRecord : ReadStep(h, kind, record, track)
    <2>1. CASE ReadState(h)
      <3> DEFINE s == tracker[h].state
                 track == [state |-> s + 1, message |-> Ahead(s, tracker[h].message)]
      <3>1. s \in 1 .. MaxRecord /\ ReadStep(h, "state", s, track)
        BY <2>1 DEF ReadState, ReadStep
      <3>2. track \in TrackerRecord
        BY <1>1, <3>1, FunctionsAssumption DEF TrackerRecord, Ahead, Numbers
      <3> QED BY <3>1, <3>2
    <2>2. CASE ReadMessage(h)
      <3> DEFINE m == tracker[h].message
                 track == [message |-> m + 1, state |-> Ahead(m, tracker[h].state)]
      <3>1. m \in 1 .. MaxRecord /\ ReadStep(h, "message", m, track)
        BY <2>2 DEF ReadMessage, ReadStep
      <3>2. track \in TrackerRecord
        BY <1>1, <3>1, FunctionsAssumption DEF TrackerRecord, Ahead, Numbers
      <3> QED BY <3>1, <3>2
    <2> QED BY <2>1, <2>2
  <1>3. NowOpen(h, kind, record) \in OpenRecord
    BY <1>2, FunctionsAssumption, RecordTypes DEF NowOpen, TypeOK, OpenRecord, Numbers
  <1>4. /\ tracker' \in [Objects -> TrackerRecord] /\ open' \in [Objects -> OpenRecord]
    BY <1>2, <1>3 DEF ReadStep, TypeOK, TrackerRecord, OpenRecord
  <1>5. TypeOK'
    BY <1>2, <1>4 DEF ReadStep, TypeOK, TrackerRecord, OpenRecord
  <1> QED BY <1>2, <1>5 DEF ReadStep, Unanswered, Recorded, Idle, Current

LEMMA OthersInductive ==
  ASSUME Inductive,
         (\E b \in Buffers : OtherFails(b)) \/ (\E h \in Handles : OtherCalls(h))
  PROVE  Inductive'
  <1> USE DEF Inductive
  <1>1. CASE \E b \in Buffers : OtherFails(b)
    BY <1>1 DEF OtherFails, TypeOK, Records, Unanswered, Recorded, Idle, Current
  <1>2. CASE \E h \in Handles : OtherCalls(h)
    BY <1>2 DEF OtherCalls, TypeOK, Records, Unanswered, Recorded, Idle, Current
  <1> QED BY <1>1, <1>2

LEMMA NextInductive == Inductive /\ [Next]_vars => Inductive'
  <1> SUFFICES ASSUME Inductive, [Next]_vars PROVE Inductive'
    OBVIOUS
  <1>1. CASE UNCHANGED vars
    BY <1>1 DEF vars, Inductive, TypeOK, Unanswered, Recorded, Idle, Current
  <1>2. CASE Next
    BY <1>2, BeginInductive, ReturnsInductive, FailsInductive, ContinuesInductive,
       SucceedsInductive, ReadInductive, OthersInductive DEF Next
  <1> QED BY <1>1, <1>2

\* Whatever the functions are and however their calls end, the records, the
\* buffers and the trackers have their types, and an answer is an exception
\* exactly if it has a text.
THEOREM TypeCorrect == Spec => []TypeOK
  <1>1. Spec => []Inductive
    BY InitInductive, NextInductive, PTL DEF Spec
  <1> QED BY <1>1, PTL DEF Inductive

-----------------------------------------------------------------------------
(* Records are read in pairs *)

\* Paired, and the number that has been read is one ahead of the other.
InStep ==
  \A h \in Objects :
    /\ open[h].kind = "none" => tracker[h].state = tracker[h].message
    /\ open[h].kind = "state" => /\ tracker[h].message = open[h].record
                                /\ tracker[h].state = open[h].record + 1
    /\ open[h].kind = "message" => /\ tracker[h].state = open[h].record
                                  /\ tracker[h].message = open[h].record + 1

\* The step of a function that sets trackers sets both alike.
LEMMA ResetPaired ==
  ASSUME TypeOK, InStep,
         tracker' = [tracker EXCEPT !["stmt"] = [state |-> 1, message |-> 1]],
         open' = [open EXCEPT !["stmt"] = Nothing]
  PROVE  InStep'
  BY DEF TypeOK, InStep, Nothing

LEMMA ReadPaired ==
  ASSUME TypeOK, InStep, NEW h \in Objects, ReadState(h) \/ ReadMessage(h)
  PROVE  InStep'
  <1>0. MaxRecord \in Nat
    BY FunctionsAssumption
  <1>1. tracker[h].state \in Nat /\ tracker[h].message \in Nat
    BY <1>0 DEF TypeOK, Numbers
  <1>2. \A g \in Objects \ {h} : tracker'[g] = tracker[g] /\ open'[g] = open[g]
    BY DEF ReadState, ReadMessage, ReadStep, TypeOK
  <1>3. open[h].kind \in {"none", "state", "message", "unset"}
    BY DEF TypeOK
  <1> DEFINE Fits == /\ open'[h].kind = "none" => tracker'[h].state = tracker'[h].message
                     /\ open'[h].kind = "state" =>
                          /\ tracker'[h].message = open'[h].record
                          /\ tracker'[h].state = open'[h].record + 1
                     /\ open'[h].kind = "message" =>
                          /\ tracker'[h].state = open'[h].record
                          /\ tracker'[h].message = open'[h].record + 1
  <1>4. ASSUME ReadState(h) PROVE Fits
    <2> DEFINE s == tracker[h].state
    <2>1. /\ tracker'[h] = [state |-> s + 1, message |-> Ahead(s, tracker[h].message)]
          /\ open'[h] = NowOpen(h, "state", s)
      BY <1>4 DEF ReadState, ReadStep, TypeOK
    <2>2. CASE open[h].kind = "none"
      BY <1>1, <2>1, <2>2 DEF InStep, NowOpen, Ahead
    <2>3. CASE open[h].kind = "state"
      BY <1>1, <2>1, <2>3 DEF InStep, NowOpen, Ahead
    <2>4. CASE open[h].kind = "message"
      BY <1>1, <2>1, <2>4 DEF InStep, NowOpen, Ahead, Nothing
    <2>5. CASE open[h].kind = "unset"
      BY <2>1, <2>5 DEF NowOpen
    <2> QED BY <1>3, <2>2, <2>3, <2>4, <2>5
  <1>5. ASSUME ReadMessage(h) PROVE Fits
    <2> DEFINE m == tracker[h].message
    <2>1. /\ tracker'[h] = [message |-> m + 1, state |-> Ahead(m, tracker[h].state)]
          /\ open'[h] = NowOpen(h, "message", m)
      BY <1>5 DEF ReadMessage, ReadStep, TypeOK
    <2>2. CASE open[h].kind = "none"
      BY <1>1, <2>1, <2>2 DEF InStep, NowOpen, Ahead
    <2>3. CASE open[h].kind = "message"
      BY <1>1, <2>1, <2>3 DEF InStep, NowOpen, Ahead
    <2>4. CASE open[h].kind = "state"
      BY <1>1, <2>1, <2>4 DEF InStep, NowOpen, Ahead, Nothing
    <2>5. CASE open[h].kind = "unset"
      BY <2>1, <2>5 DEF NowOpen
    <2> QED BY <1>3, <2>2, <2>3, <2>4, <2>5
  <1> QED BY <1>2, <1>4, <1>5 DEF InStep

LEMMA NextPaired == Inductive /\ InStep /\ [Next]_vars => InStep'
  <1> SUFFICES ASSUME Inductive, InStep, [Next]_vars PROVE InStep'
    OBVIOUS
  <1>0. TypeOK
    BY DEF Inductive
  <1>1. CASE UNCHANGED <<tracker, open>>
    BY <1>1 DEF InStep
  <1>2. CASE \E f \in Functions : Begin(f)
    BY <1>0, <1>1, <1>2, ResetPaired DEF Begin
  <1>3. CASE Succeeds
    <2>1. CASE call.creates \in {"no", "set"}
      BY <1>0, <1>1, <1>3, <2>1, ResetPaired DEF Succeeds, NewTrackers
    <2>2. CASE /\ tracker' = [tracker EXCEPT !["stmt"] = NotSet]
               /\ open' = [open EXCEPT !["stmt"] = [kind |-> "unset", record |-> 0]]
      BY <1>0, <2>2 DEF TypeOK, InStep, NotSet
    <2> QED BY <1>3, <2>1, <2>2 DEF Succeeds, NewTrackers
  <1>4. CASE \E h \in Objects : ReadState(h) \/ ReadMessage(h)
    BY <1>0, <1>4, ReadPaired
  <1>5. CASE \/ \E code \in Codes \cup {"driver"} : CliReturns(code)
             \/ Fails \/ Continues
             \/ \E b \in Buffers : OtherFails(b)
             \/ \E h \in Handles : OtherCalls(h)
    BY <1>1, <1>5 DEF CliReturns, Fails, Continues, OtherFails, OtherCalls
  <1> QED BY <1>1, <1>2, <1>3, <1>4, <1>5 DEF Next, vars

\* In whatever order conn_error, conn_errormsg, conn_warn and their like for
\* statements are called: a SQLSTATE and the message read next are of the same
\* record, for any number of records.
THEOREM RecordsPaired == Spec => []Paired
  <1>1. Spec => []Inductive
    BY InitInductive, NextInductive, PTL DEF Spec
  <1>2. Init => InStep
    BY DEF Init, InStep, Nothing
  <1>3. InStep => Paired
    BY DEF InStep, Paired
  <1> QED BY <1>1, <1>2, <1>3, NextPaired, PTL DEF Spec

-----------------------------------------------------------------------------
(* What the caller learns of a failure *)

\* A check that asks after a failure finds the record of the call.
LEMMA AskedFound ==
  ASSUME Inductive, ~Idle, call.code = "error", Asks(Current), ~Current.quiet
  PROVE  /\ diag[Current.on] = "latest" /\ Looked
         /\ Raised = "latest"
         /\ Current.on \notin Environments => Cached[BufferOf(Current.on)] = "latest"
  <1>1. diag[Current.on] = "latest"
    BY DEF Inductive, Recorded, Asks
  <1>2. Result = "error" /\ Looked
    BY <1>1 DEF Result, Looked, Asks
  <1>3. err \in [Buffers -> Records] /\ BufferOf(Current.on) \in Buffers
    BY DEF Inductive, TypeOK, Buffers, BufferOf
  <1> QED BY <1>1, <1>2, <1>3 DEF Raised, Cached

LEMMA OfFunctions ==
  ASSUME Inductive, ~Idle
  PROVE  /\ Watches(Functions) =>
              Current.ignored \/ "error" \in Current.fails \/ (Asks(Current) /\ ~Current.quiet)
         /\ Tells(Functions) =>
              Current.ignored \/ Current.quiet \/ Current.on \in Environments \/ Asks(Current)
         /\ Explains(Functions) => ("error" \in Current.fails /\ ~Current.quiet =>
              \/ Current.text \in {"clear", "client"}
              \/ Asks(Current) /\ (Current.text = "rebuild" => Current.on \in {"stmt", "new"}))
  BY CurrentCall DEF Inductive, Watches, Tells, Explains, AllCalls

\* Once raised, an exception is not lost before the function ends.
LEMMA NextNoticed ==
  ASSUME Watches(Functions), Inductive, Marked, Noticed, [Next]_vars
  PROVE  Marked' /\ Noticed'
  <1>1. CASE UNCHANGED <<call, answer>>
    BY <1>1 DEF Marked, Noticed, Idle, Current
  <1>2. ASSUME NEW f \in Functions, Begin(f) PROVE Marked' /\ Noticed'
    BY <1>2 DEF Begin, NoCall, NoAnswer, Marked, Noticed
  <1>3. ASSUME NEW code \in Codes \cup {"driver"}, CliReturns(code) PROVE Marked' /\ Noticed'
    <2>1. /\ call'.code = code /\ Current' = Current
          /\ call'.failed = (call.failed \/ (code = "error" /\ ~Current.ignored))
          /\ call.raised # "none" => call'.raised # "none"
          /\ call.code = "none" /\ ~Idle /\ answer' = answer
      BY <1>3 DEF CliReturns, Inductive, TypeOK, Current
    <2> QED BY <2>1 DEF Marked, Noticed
  <1>4. CASE Fails
    <2>1. ~Idle /\ Current.answer \in {"NULL", "FALSE"}
      BY <1>4, CurrentCall DEF Fails, Inductive
    <2>2. answer'.kind # "value"
      BY <1>4, <2>1 DEF Fails, Answer
    <2>3. call'.calls = <<>>
      BY <1>4 DEF Fails, NoCall
    <2> QED BY <2>2, <2>3 DEF Marked, Noticed, Idle
  <1>5. ASSUME ~Idle, Result \notin Current.fails, call.failed PROVE Raised # "none"
    <2>1. CASE call.code = "error" /\ ~Current.ignored
      <3>1. Asks(Current) /\ ~Current.quiet
        BY <1>5, <2>1, OfFunctions DEF Result
      <3> QED BY <1>5, <2>1, <3>1, AskedFound
    <2>2. CASE call.code # "error" \/ Current.ignored
      BY <1>5, <2>2 DEF Marked, Raised, Looked
    <2> QED BY <2>1, <2>2
  <1>6. CASE Continues
    <2>1. call'.raised = Raised /\ call'.failed = call.failed /\ answer' = answer
      BY <1>6 DEF Continues, Inductive, TypeOK
    <2> QED BY <1>5, <1>6, <2>1 DEF Continues, Marked, Noticed
  <1>7. CASE Succeeds
    <2>1. call'.calls = <<>>
      BY <1>7 DEF Succeeds, NoCall
    <2>2. answer'.failed = call.failed /\ (Raised # "none" => answer'.kind # "value")
      BY <1>7 DEF Succeeds, Answer
    <2> QED BY <1>5, <1>7, <2>1, <2>2 DEF Succeeds, Marked, Noticed, Idle
  <1>8. CASE \E h \in Objects : ReadState(h) \/ ReadMessage(h)
    BY <1>1, <1>8 DEF ReadState, ReadMessage, ReadStep
  <1>9. CASE \/ \E b \in Buffers : OtherFails(b)
             \/ \E h \in Handles : OtherCalls(h)
    BY <1>1, <1>9 DEF OtherFails, OtherCalls
  <1> QED BY <1>1, <1>2, <1>3, <1>4, <1>6, <1>7, <1>8, <1>9 DEF Next, vars

\* If each of its CLI calls that it does not ignore ends a function on SQL_ERROR
\* or leaves an exception of its own record, the function does not answer as if
\* none of those had failed, whatever other threads do in between.
THEOREM FailuresNoticed ==
  ASSUME Watches(Functions)
  PROVE  Spec => []Noticed
  <1>1. Spec => []Inductive
    BY InitInductive, NextInductive, PTL DEF Spec
  <1>2. Init => Marked /\ Noticed
    BY DEF Init, Marked, Noticed, NoCall, NoAnswer
  <1>3. Inductive /\ (Marked /\ Noticed) /\ [Next]_vars => (Marked /\ Noticed)'
    BY NextNoticed
  <1> QED BY <1>1, <1>2, <1>3, PTL DEF Spec

\* The end of a function after a call that left a record.
LEMMA AnswerFrom ==
  ASSUME Inductive, ~Idle, NEW result, NEW text, Answer(result, text).on # "none"
  PROVE  /\ call.code = "error" /\ ~Current.quiet /\ ~Current.ignored /\ Current.on \in Handles
         /\ Answer(result, text).on = Current.on /\ Result = "error"
  BY CurrentCall DEF Inductive, Answer, On, Result

LEMMA NextShown ==
  ASSUME Tells(Functions), Inductive, Shown, [Next]_vars
  PROVE  Shown'
  <1>1. CASE UNCHANGED <<err, answer>>
    BY <1>1 DEF Shown
  <1>2. CASE answer' = NoAnswer
    BY <1>2 DEF Shown, NoAnswer
  <1>3. CASE Fails \/ Succeeds
    <2>1. ~Idle /\ err' = Cached
      BY <1>3 DEF Fails, Succeeds
    <2>2. PICK result, text : answer' = Answer(result, text)
      BY <1>3 DEF Fails, Succeeds
    <2> SUFFICES ASSUME answer'.on \notin Environments \cup {"none"}
                 PROVE  err'[BufferOf(answer'.on)] = "latest"
      BY DEF Shown
    <2>3. /\ call.code = "error" /\ ~Current.quiet /\ ~Current.ignored
          /\ answer'.on = Current.on
      BY <2>1, <2>2, AnswerFrom
    <2>4. Asks(Current)
      BY <2>1, <2>3, OfFunctions
    <2> QED BY <2>1, <2>3, <2>4, AskedFound
  <1>4. CASE \E b \in Buffers : OtherFails(b)
    <2>1. PICK b \in Buffers : OtherFails(b)
      BY <1>4
    <2>2. err \in [Buffers -> Records]
      BY DEF Inductive, TypeOK
    <2>3. \A h : BufferOf(h) \in Buffers
      BY DEF BufferOf, Buffers
    <2> QED BY <2>1, <2>2, <2>3 DEF OtherFails, Shown
  <1>5. CASE (\E f \in Functions : Begin(f)) \/ Continues
             \/ \E code \in Codes \cup {"driver"} : CliReturns(code)
    BY <1>2, <1>5 DEF Begin, Continues, CliReturns, Inductive, Unanswered
  <1>6. CASE \/ \E h \in Objects : ReadState(h) \/ ReadMessage(h)
             \/ \E h \in Handles : OtherCalls(h)
    BY <1>1, <1>6 DEF ReadState, ReadMessage, ReadStep, OtherCalls
  <1> QED BY <1>1, <1>3, <1>4, <1>5, <1>6 DEF Next, vars

\* If the record of each CLI call that fails, and is not ignored, is asked for,
\* conn_errormsg() and stmt_errormsg() without an argument show the error of the
\* last function or what another thread has written over it, never an older
\* error of the caller.
THEOREM ErrorsShown ==
  ASSUME Tells(Functions)
  PROVE  Spec => []Shown
  <1>1. Spec => []Inductive
    BY InitInductive, NextInductive, PTL DEF Spec
  <1>2. Init => Shown
    BY DEF Init, Shown, NoAnswer
  <1>3. Inductive /\ Shown /\ [Next]_vars => Shown'
    BY NextShown
  <1> QED BY <1>1, <1>2, <1>3, PTL DEF Spec

LEMMA NextOwnText ==
  ASSUME Explains(Functions), Inductive, OwnText, [Next]_vars
  PROVE  OwnText'
  <1>1. CASE UNCHANGED answer
    BY <1>1 DEF OwnText
  <1>2. CASE \E f \in Functions : Begin(f)
    BY <1>2 DEF Begin, OwnText, NoAnswer
  <1>3. CASE Succeeds
    BY <1>3 DEF Succeeds, Answer, OwnText
  <1>4. CASE Fails
    <2>1. ~Idle /\ answer' = Answer(Current.answer, ErrorText) /\ Result \in Current.fails
      BY <1>4 DEF Fails
    <2> SUFFICES ASSUME answer'.kind = "exception", answer'.on # "none"
                 PROVE  answer'.text \in {"latest", "client"}
      BY DEF OwnText
    <2>2. call.code = "error" /\ ~Current.quiet /\ "error" \in Current.fails
      BY <2>1, AnswerFrom
    <2>3. answer'.text = ErrorText /\ ErrorText # "none"
      <3>1. Current.answer \in {"NULL", "FALSE"}
        BY <2>1, CurrentCall DEF Inductive
      <3> QED BY <2>1, <3>1, Zenon DEF Answer
    <2>4. CASE Current.text \in {"clear", "client"}
      BY <2>3, <2>4 DEF ErrorText
    <2>6. CASE Asks(Current) /\ (Current.text = "rebuild" => Current.on \in {"stmt", "new"})
      <3>1. Raised = "latest" /\ (Current.on \notin Environments => Cached[BufferOf(Current.on)] = "latest")
        BY <2>1, <2>2, <2>6, AskedFound
      <3>2. CASE Current.text = "keep"
        BY <2>3, <3>1, <3>2 DEF ErrorText
      <3>3. CASE Current.text = "rebuild"
        BY <2>3, <2>6, <3>1, <3>3 DEF ErrorText, BufferOf, Environments
      <3>4. Current.text \in {"keep", "rebuild", "clear", "client"}
        BY <2>1, CurrentCall DEF Inductive
      <3> QED BY <2>4, <3>2, <3>3, <3>4
    <2> QED BY <2>1, <2>2, <2>4, <2>6, OfFunctions
  <1>5. CASE Next /\ ~(\E f \in Functions : Begin(f)) /\ ~Succeeds /\ ~Fails
    BY <1>1, <1>5 DEF Next, CliReturns, Continues, ReadState, ReadMessage, ReadStep,
                      OtherFails, OtherCalls
  <1> QED BY <1>1, <1>2, <1>3, <1>4, <1>5 DEF vars

\* If a function makes its exception from the record of the call that ends it,
\* what the caller catches is about that call: never the text of another
\* thread's error, although texts go through buffers that all threads share.
THEOREM TextsOwn ==
  ASSUME Explains(Functions)
  PROVE  Spec => []OwnText
  <1>1. Spec => []Inductive
    BY InitInductive, NextInductive, PTL DEF Spec
  <1>2. Init => OwnText
    BY DEF Init, OwnText, NoAnswer
  <1>3. Inductive /\ OwnText /\ [Next]_vars => OwnText'
    BY NextOwnText
  <1> QED BY <1>1, <1>2, <1>3, PTL DEF Spec
=============================================================================
