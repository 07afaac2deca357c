-------------------------- MODULE DbiCursorProofs --------------------------
(***************************************************************************)
(* Proofs about DbiCursor, for any set of cursors and any kinds of         *)
(* failure, if batches and calls on the connection do not overlap.  While  *)
(* nothing has failed, the stage of the one batch in progress says what    *)
(* the driver and the field have been set to, and so which work is open.   *)
(***************************************************************************)
EXTENDS DbiCursor, TLAPS

Batch(c) == call[c].op = "executemany"

\* What a call is by its stage.
Staged(c) ==
  /\ call[c].saved \/ call[c].to \/ call[c].failed => Batch(c)
  /\ At(c, "mode") \/ At(c, "batch") \/ At(c, "count") \/ At(c, "handler") => Batch(c)
  /\ At(c, "compare") \/ At(c, "attr") \/ At(c, "field") \/ At(c, "commit")
       => Batch(c) /\ call[c].saved
  /\ At(c, "prepare") \/ At(c, "mode") => ~call[c].saved
  /\ At(c, "batch") \/ At(c, "commit") => ~call[c].to
  /\ call[c].failed => spoiled
  /\ call[c].at \in {"execute", "end"} => call[c].op = "execute"

Single == \A c, d \in Cursors : Batch(c) /\ Batch(d) => c = d

\* This batch has switched the driver, and has noted it in the field.
DriverOff(c) ==
  /\ call[c].saved
  /\ \/ call[c].at \in {"batch", "commit"}
     \/ At(c, "field") /\ ~call[c].to
     \/ call[c].at \in {"compare", "attr"} /\ call[c].to

FieldOff(c) ==
  /\ call[c].saved
  /\ \/ call[c].at \in {"batch", "commit"}
     \/ call[c].at \in {"compare", "attr", "field"} /\ call[c].to

\* In autocommit mode a batch is all that switches.
Automatic ==
  /\ auto <=> \A c \in Cursors : ~DriverOff(c)
  /\ field <=> \A c \in Cursors : ~FieldOff(c)
  /\ \A c \in Cursors : At(c, "batch") => call[c].saved
  /\ auto => \A c \in Cursors : work[c] = "none"

\* In manual mode none does.
Manual ==
  /\ ~auto /\ ~field
  /\ \A c \in Cursors : ~call[c].saved /\ work[c] # "told"

Inductive ==
  /\ TypeOK
  /\ Single
  /\ \A c \in Cursors : Staged(c)
  /\ ~spoiled => IF want THEN Automatic ELSE Manual
  /\ NothingUndone

-----------------------------------------------------------------------------
(* Types *)

LEMMA InitTypes == Init => TypeOK
<1> SUFFICES ASSUME Init PROVE TypeOK
  OBVIOUS
<1>1. NoCall \in CallState /\ NoCall.op = "none" /\ NoCall.at = "none"
  BY DEF NoCall, CallState, Stages
<1>2. Unused \in CursorState /\ ~Unused.conn
  BY DEF Unused, CursorState
<1>3. \A c \in Cursors : call[c] = NoCall /\ cursor[c] = Unused
  BY DEF Init
<1> QED
  BY <1>1, <1>2, <1>3 DEF Init, TypeOK, NoWork, At

\* A cursor with some of its fields changed.
LEMMA WithStmt ==
  ASSUME NEW r \in CursorState, NEW stmt \in {"none", "freed", "prepared", "results", "done"}
  PROVE  /\ [r EXCEPT !.stmt = stmt] \in CursorState
         /\ [r EXCEPT !.stmt = stmt].conn = r.conn
BY DEF CursorState

LEMMA WithProduced ==
  ASSUME NEW r \in CursorState, NEW b \in BOOLEAN
  PROVE  /\ [r EXCEPT !.produced = b] \in CursorState
         /\ [r EXCEPT !.produced = b].conn = r.conn
BY DEF CursorState

LEMMA WithResults ==
  ASSUME NEW r \in CursorState, NEW stmt \in {"none", "freed", "prepared", "results", "done"}
  PROVE  /\ [r EXCEPT !.stmt = stmt, !.produced = TRUE] \in CursorState
         /\ [r EXCEPT !.stmt = stmt, !.produced = TRUE].conn = r.conn
BY DEF CursorState

LEMMA WithoutConn ==
  ASSUME NEW r \in CursorState
  PROVE  /\ [r EXCEPT !.conn = FALSE, !.stmt = "none"] \in CursorState
         /\ ~[r EXCEPT !.conn = FALSE, !.stmt = "none"].conn
BY DEF CursorState

LEMMA OneCursor ==
  ASSUME TypeOK, NEW c \in Cursors, NEW r \in CursorState, r.conn => open,
         cursor' = [cursor EXCEPT ![c] = r], open' = open
  PROVE  /\ cursor' \in [Cursors -> CursorState]
         /\ \A d \in Cursors : cursor'[d].conn => open'
BY DEF TypeOK

LEMMA SomeWork ==
  ASSUME TypeOK, NEW c \in Cursors
  PROVE  /\ \A state \in {"none", "open", "told", "undone"} :
              Works(c, state) => work' \in [Cursors -> {"none", "open", "told", "undone"}]
         /\ Told(c) => work' \in [Cursors -> {"none", "open", "told", "undone"}]
         /\ NoWork \in [Cursors -> {"none", "open", "told", "undone"}]
         /\ RolledBack \in [Cursors -> {"none", "open", "told", "undone"}]
BY DEF TypeOK, Works, Told, NoWork, RolledBack

\* A call that goes on, ends or begins.
LEMMA OneCall ==
  ASSUME TypeOK, NEW c \in Cursors, NEW r \in CallState, r.op = "none" <=> r.at = "none",
         call' = [call EXCEPT ![c] = r]
  PROVE  /\ call' \in [Cursors -> CallState]
         /\ \A d \in Cursors : call'[d].op = "none" <=> call'[d].at = "none"
BY DEF TypeOK, At

LEMMA CallWith ==
  ASSUME NEW r \in CallState, r.op # "none", NEW stage \in Stages \ {"none"},
         NEW b \in BOOLEAN, NEW e \in BOOLEAN
  PROVE  /\ [r EXCEPT !.at = stage] \in CallState
         /\ [r EXCEPT !.at = stage].op # "none" /\ [r EXCEPT !.at = stage].at # "none"
         /\ [r EXCEPT !.at = stage, !.failed = b] \in CallState
         /\ [r EXCEPT !.at = stage, !.failed = b].op # "none"
         /\ [r EXCEPT !.at = stage, !.failed = b].at # "none"
         /\ [r EXCEPT !.at = stage, !.to = b] \in CallState
         /\ [r EXCEPT !.at = stage, !.to = b].op # "none"
         /\ [r EXCEPT !.at = stage, !.to = b].at # "none"
         /\ [r EXCEPT !.saved = b, !.to = e, !.at = stage] \in CallState
         /\ [r EXCEPT !.saved = b, !.to = e, !.at = stage].op # "none"
         /\ [r EXCEPT !.saved = b, !.to = e, !.at = stage].at # "none"
BY DEF CallState

LEMMA Returns ==
  ASSUME TypeOK, NEW c \in Cursors, Return(c)
  PROVE  /\ call' \in [Cursors -> CallState]
         /\ \A d \in Cursors : call'[d].op = "none" <=> call'[d].at = "none"
<1>1. NoCall \in CallState /\ NoCall.op = "none" /\ NoCall.at = "none"
  BY DEF NoCall, CallState, Stages
<1> QED
  BY <1>1, OneCall DEF Return

LEMMA Goes ==
  ASSUME TypeOK, NEW c \in Cursors, ~At(c, "none"),
         NEW stage \in Stages \ {"none"}, Goto(c, stage)
  PROVE  /\ call' \in [Cursors -> CallState]
         /\ \A d \in Cursors : call'[d].op = "none" <=> call'[d].at = "none"
<1>1. call[c] \in CallState /\ call[c].op # "none"
  BY DEF TypeOK
<1>2. call' = [call EXCEPT ![c] = [call[c] EXCEPT !.at = stage]]
  BY DEF Goto
<1> DEFINE r == [call[c] EXCEPT !.at = stage]
<1>3. r \in CallState /\ r.op # "none" /\ r.at # "none"
  BY <1>1, CallWith
<1> HIDE DEF r
<1> QED
  BY <1>2, <1>3, OneCall DEF r

\* A step of a cursor keeps the types.
LEMMA CursorTypes == ASSUME TypeOK, NEW c \in Cursors, CursorStep(c) PROVE TypeOK'
<1>0. cursor[c] \in CursorState /\ (cursor[c].conn => open) /\ call[c] \in CallState
  BY DEF TypeOK
<1>1. CASE \E op \in {"execute", "prepare", "executemany"} : Begin(c, op)
  <2>1. PICK op \in {"execute", "prepare", "executemany"} : Begin(c, op)
    BY <1>1
  <2> DEFINE r == [NoCall EXCEPT !.op = op, !.at = "prepare"]
             stmt == IF cursor[c].stmt = "none" THEN cursor[c].stmt ELSE "freed"
  <2>2. r \in CallState /\ r.op # "none" /\ r.at # "none"
    BY DEF NoCall, CallState, Stages
  <2>3. call' \in [Cursors -> CallState] /\ \A d \in Cursors : call'[d].op = "none" <=> call'[d].at = "none"
    <3> HIDE DEF r
    <3> QED
      BY <2>1, <2>2, OneCall DEF Begin, r
  <2>4. /\ cursor' \in [Cursors -> CursorState]
        /\ \A d \in Cursors : cursor'[d].conn => open'
    <3>1. CASE UNCHANGED cursor
      BY <2>1, <3>1 DEF Begin, TypeOK, mode
    <3>2. CASE cursor' = [cursor EXCEPT ![c] = [cursor[c] EXCEPT !.stmt = stmt]]
      <4> DEFINE new == [cursor[c] EXCEPT !.stmt = stmt]
      <4>1. stmt \in {"none", "freed", "prepared", "results", "done"}
        OBVIOUS
      <4>2. new \in CursorState /\ new.conn = cursor[c].conn
        BY <1>0, <4>1, WithStmt
      <4> HIDE DEF new
      <4> QED
        BY <1>0, <2>1, <3>2, <4>2, OneCursor DEF Begin, new, mode
    <3> QED
      BY <2>1, <3>1, <3>2 DEF Begin
  <2> QED
    BY <2>1, <2>3, <2>4 DEF Begin, TypeOK, mode, At
<1>2. CASE Prepare(c)
  <2> DEFINE new == [cursor[c] EXCEPT !.stmt = "prepared"]
  <2>1. new \in CursorState /\ new.conn = cursor[c].conn
    BY <1>0, WithStmt
  <2>2. /\ cursor' \in [Cursors -> CursorState]
        /\ \A d \in Cursors : cursor'[d].conn => open'
    <3> HIDE DEF new
    <3> QED
      BY <1>0, <1>2, <2>1, OneCursor DEF Prepare, new, mode
  <2>3. Return(c) \/ Goto(c, "execute") \/ Goto(c, "mode")
    BY <1>2 DEF Prepare
  <2>4. ~At(c, "none") /\ {"execute", "mode"} \subseteq Stages \ {"none"}
    BY <1>2 DEF Prepare, At, Stages
  <2>5. call' \in [Cursors -> CallState] /\ \A d \in Cursors : call'[d].op = "none" <=> call'[d].at = "none"
    BY <2>3, <2>4, Returns, Goes
  <2> QED
    BY <1>2, <2>2, <2>5 DEF Prepare, TypeOK, mode, At
<1>3. CASE PrepareFails(c)
  BY <1>3 DEF PrepareFails, TypeOK, mode, CallState, CursorState, Stages, NoCall, NoWork, Unused, RolledBack, Works, Told,
       Goto, Return, Free, Idle, At
<1>4. CASE ExecutePrepared(c)
  BY <1>4 DEF ExecutePrepared, TypeOK, mode, CallState, CursorState, Stages, NoCall, NoWork, Unused, RolledBack, Works, Told,
       Goto, Return, Free, Idle, At
<1>5. CASE \E stmt \in {"results", "done"} : Execute(c, stmt)
  BY <1>5 DEF Execute, TypeOK, mode, CallState, CursorState, Stages, NoCall, NoWork, Unused, RolledBack, Works, Told,
       Goto, Return, Free, Idle, At
<1>6. CASE ExecuteFails(c)
  BY <1>6 DEF ExecuteFails, TypeOK, mode, CallState, CursorState, Stages, NoCall, NoWork, Unused, RolledBack, Works, Told,
       Goto, Return, Free, Idle, At
<1>7. CASE ExecuteEnds(c)
  <2> DEFINE produced == cursor[c].stmt = "results"
             new == [cursor[c] EXCEPT !.produced = produced]
  <2>1. new \in CursorState /\ new.conn = cursor[c].conn
    BY <1>0, WithProduced
  <2>2. /\ cursor' \in [Cursors -> CursorState]
        /\ \A d \in Cursors : cursor'[d].conn => open'
    <3> HIDE DEF new
    <3> QED
      BY <1>0, <1>7, <2>1, OneCursor DEF ExecuteEnds, new, mode
  <2> QED
    BY <1>7, <2>2, Returns, SomeWork DEF ExecuteEnds, TypeOK, mode, At
<1>8. CASE ExecuteEndFails(c)
  <2>1. PICK produced \in {cursor[c].produced, FALSE, cursor[c].stmt = "results"} :
               cursor' = [cursor EXCEPT ![c].produced = produced]
    BY <1>8 DEF ExecuteEndFails
  <2> DEFINE new == [cursor[c] EXCEPT !.produced = produced]
  <2>2. produced \in BOOLEAN
    <3>1. cursor[c].produced \in BOOLEAN
      BY <1>0 DEF CursorState
    <3> QED
      BY <3>1
  <2>3. new \in CursorState /\ new.conn = cursor[c].conn
    BY <1>0, <2>2, WithProduced
  <2>4. /\ cursor' \in [Cursors -> CursorState]
        /\ \A d \in Cursors : cursor'[d].conn => open'
    <3> HIDE DEF new
    <3> QED
      BY <1>0, <1>8, <2>1, <2>3, OneCursor DEF ExecuteEndFails, new, mode
  <2> QED
    BY <1>8, <2>4, Returns DEF ExecuteEndFails, TypeOK, mode, At
<1>9. CASE GetMode(c)
  BY <1>9 DEF GetMode, TypeOK, mode, CallState, CursorState, Stages, NoCall, NoWork, Unused, RolledBack, Works, Told,
       Goto, Return, Free, Idle, At
<1>10. CASE Compare(c)
  BY <1>10 DEF Compare, AfterSwitch, TypeOK, mode, CallState, CursorState, Stages, NoCall, NoWork, Unused, RolledBack, Works, Told,
       Goto, Return, Free, Idle, At
<1>11. CASE SetAttr(c)
  BY <1>11 DEF SetAttr, TypeOK, mode, CallState, CursorState, Stages, NoCall, NoWork, Unused, RolledBack, Works, Told,
       Goto, Return, Free, Idle, At
<1>12. CASE SetAttrFails(c)
  <2> DEFINE r == [call[c] EXCEPT !.at = "field", !.failed = TRUE]
  <2>1. r \in CallState /\ r.op # "none" /\ r.at # "none"
    BY <1>0, <1>12, CallWith DEF SetAttrFails, TypeOK, At, Stages
  <2>2. call' \in [Cursors -> CallState] /\ \A d \in Cursors : call'[d].op = "none" <=> call'[d].at = "none"
    <3> HIDE DEF r
    <3> QED
      BY <1>12, <2>1, OneCall DEF SetAttrFails, r
  <2> QED
    BY <1>12, <2>2 DEF SetAttrFails, TypeOK, At
<1>13. CASE SetField(c)
  BY <1>13 DEF SetField, AfterSwitch, TypeOK, mode, CallState, CursorState, Stages, NoCall, NoWork, Unused, RolledBack, Works, Told,
       Goto, Return, Free, Idle, At
<1>14. CASE BatchExecutes(c)
  BY <1>14 DEF BatchExecutes, TypeOK, mode, CallState, CursorState, Stages, NoCall, NoWork, Unused, RolledBack, Works, Told,
       Goto, Return, Free, Idle, At
<1>15. CASE BatchFails(c)
  BY <1>15 DEF BatchFails, TypeOK, mode, CallState, CursorState, Stages, NoCall, NoWork, Unused, RolledBack, Works, Told,
       Goto, Return, Free, Idle, At
<1>16. CASE BatchCommits(c)
  BY <1>16 DEF BatchCommits, TypeOK, mode, CallState, CursorState, Stages, NoCall, NoWork, Unused, RolledBack, Works, Told,
       Goto, Return, Free, Idle, At
<1>17. CASE BatchCommitFails(c)
  BY <1>17 DEF BatchCommitFails, TypeOK, mode, CallState, CursorState, Stages, NoCall, NoWork, Unused, RolledBack, Works, Told,
       Goto, Return, Free, Idle, At
<1>18. CASE BatchEnds(c)
  BY <1>18 DEF BatchEnds, TypeOK, mode, CallState, CursorState, Stages, NoCall, NoWork, Unused, RolledBack, Works, Told,
       Goto, Return, Free, Idle, At
<1>19. CASE BatchNotCounted(c)
  BY <1>19 DEF BatchNotCounted, TypeOK, mode, CallState, CursorState, Stages, NoCall, NoWork, Unused, RolledBack, Works, Told,
       Goto, Return, Free, Idle, At
<1>20. CASE BatchRaises(c)
  BY <1>20 DEF BatchRaises, TypeOK, mode, CallState, CursorState, Stages, NoCall, NoWork, Unused, RolledBack, Works, Told,
       Goto, Return, Free, Idle, At
<1>21. CASE NewCursor(c)
  BY <1>21 DEF NewCursor, TypeOK, mode, CallState, CursorState, Stages, NoCall, NoWork, Unused, RolledBack, Works, Told,
       Goto, Return, Free, Idle, At
<1>22. CASE \E stmt \in {"results", "done"} : Callproc(c, stmt)
  <2>1. PICK stmt \in {"results", "done"} : Callproc(c, stmt)
    BY <1>22
  <2> DEFINE new == [cursor[c] EXCEPT !.stmt = stmt, !.produced = TRUE]
  <2>2. new \in CursorState /\ new.conn = cursor[c].conn
    BY <1>0, WithResults
  <2>3. /\ cursor' \in [Cursors -> CursorState]
        /\ \A d \in Cursors : cursor'[d].conn => open'
    <3> HIDE DEF new
    <3> QED
      BY <1>0, <2>1, <2>2, OneCursor DEF Callproc, new, mode
  <2>4. work' \in [Cursors -> {"none", "open", "told", "undone"}]
    BY <2>1, SomeWork DEF Callproc
  <2> QED
    BY <2>1, <2>3, <2>4 DEF Callproc, TypeOK, mode, At
<1>23. CASE NextSet(c)
  BY <1>23 DEF NextSet, TypeOK, mode, CallState, CursorState, Stages, NoCall, NoWork, Unused, RolledBack, Works, Told,
       Goto, Return, Free, Idle, At
<1>24. CASE CursorClose(c)
  <2> DEFINE new == [cursor[c] EXCEPT !.conn = FALSE, !.stmt = "none"]
  <2>1. new \in CursorState /\ ~new.conn
    BY <1>0, WithoutConn
  <2>2. /\ cursor' \in [Cursors -> CursorState]
        /\ \A d \in Cursors : cursor'[d].conn => open'
    <3> HIDE DEF new
    <3> QED
      BY <1>0, <1>24, <2>1, OneCursor DEF CursorClose, new, mode
  <2> QED
    BY <1>24, <2>2 DEF CursorClose, TypeOK, mode, At
<1> QED
  BY <1>1, <1>2, <1>3, <1>4, <1>5, <1>6, <1>7, <1>8, <1>9, <1>10, <1>11, <1>12,
     <1>13, <1>14, <1>15, <1>16, <1>17, <1>18, <1>19, <1>20, <1>21, <1>22, <1>23, <1>24
  DEF CursorStep, ExecuteStep, BatchStep

LEMMA ConnectionTypes == ASSUME TypeOK, ConnectionStep PROVE TypeOK'
<1>1. CASE Commit
  BY <1>1 DEF Commit, TypeOK, mode, NoWork, At
<1>2. CASE Rollback
  BY <1>2 DEF Rollback, TypeOK, mode, RolledBack, At
<1>3. CASE \E on \in BOOLEAN : SetAutocommit(on)
  BY <1>3 DEF SetAutocommit, TypeOK, NoWork, At
<1>4. CASE \E on \in BOOLEAN : SetAutocommitFails(on)
  BY <1>4 DEF SetAutocommitFails, TypeOK, At
<1>5. CASE Close
  <2>1. \A c \in Cursors : cursor'[c] \in CursorState /\ ~cursor'[c].conn
    <3> SUFFICES ASSUME NEW c \in Cursors PROVE cursor'[c] \in CursorState /\ ~cursor'[c].conn
      OBVIOUS
    <3>1. cursor[c] \in CursorState
      BY DEF TypeOK
    <3>2. CASE cursor[c].conn
      <4>1. cursor'[c] = [cursor[c] EXCEPT !.conn = FALSE, !.stmt = "none"]
        BY <1>5, <3>2 DEF Close
      <4> QED
        BY <3>1, <4>1, WithoutConn
    <3> QED
      BY <1>5, <3>1, <3>2 DEF Close
  <2>2. cursor' \in [Cursors -> CursorState]
    <3>1. DOMAIN cursor' = Cursors /\ cursor' = [c \in Cursors |-> cursor'[c]]
      BY <1>5 DEF Close
    <3> QED
      BY <2>1, <3>1
  <2> QED
    BY <1>5, <2>1, <2>2, SomeWork DEF Close, TypeOK, RolledBack, At
<1> QED
  BY <1>1, <1>2, <1>3, <1>4, <1>5 DEF ConnectionStep

\* Every reachable state is well-formed, also with overlapping batches: what a
\* cursor keeps of a connection it gives up when that is closed.
THEOREM TypeCorrect == Spec => []TypeOK
<1>1. TypeOK /\ [Next]_vars => TypeOK'
  <2> SUFFICES ASSUME TypeOK, [Next]_vars PROVE TypeOK'
    OBVIOUS
  <2>1. CASE UNCHANGED vars
    BY <2>1 DEF TypeOK, vars, At
  <2> QED
    BY <2>1, CursorTypes, ConnectionTypes DEF Next
<1> QED
  BY <1>1, InitTypes, PTL DEF Spec

-----------------------------------------------------------------------------
(* The transaction *)

LEMMA InitInductive == Init => Inductive
<1> SUFFICES ASSUME Init PROVE Inductive
  OBVIOUS
<1>1. TypeOK
  BY InitTypes
<1>2. \A c \in Cursors : /\ call[c].op = "none" /\ call[c].at = "none" /\ work[c] = "none"
                         /\ ~call[c].saved /\ ~call[c].to /\ ~call[c].failed
  BY DEF Init, NoCall, NoWork
<1> QED
  BY <1>1, <1>2 DEF Init, Inductive, Single, Staged, Batch, At, Automatic, Manual, DriverOff,
     FieldOff, NothingUndone

\* While a batch is in progress no other call has switched anything.
LEMMA Alone ==
  ASSUME Inductive, NEW c \in Cursors, Batch(c), NEW d \in Cursors, d # c
  PROVE  /\ ~Batch(d) /\ ~call[d].saved /\ ~DriverOff(d) /\ ~FieldOff(d)
         /\ ~At(d, "batch")
BY DEF Inductive, Single, Staged, DriverOff, FieldOff

\* So the mode is the one that this batch is in.
LEMMA ModeOfBatch ==
  ASSUME Inductive, NEW c \in Cursors, Batch(c), ~spoiled
  PROVE  /\ call[c].saved => want
         /\ want => (auto <=> ~DriverOff(c)) /\ (field <=> ~FieldOff(c))
         /\ ~want => ~auto /\ ~field
BY Alone DEF Inductive, Automatic, Manual

\* A step of one cursor that switches neither the driver nor the field.
LEMMA SameMode ==
  ASSUME Inductive, TypeOK', NEW c \in Cursors,
         UNCHANGED <<auto, field, want>>, spoiled => spoiled',
         \A d \in Cursors \ {c} : call'[d] = call[d],
         Staged(c)',
         Batch(c)' => Batch(c) \/ \A d \in Cursors : ~Batch(d),
         ~spoiled' => /\ DriverOff(c)' <=> DriverOff(c)
                      /\ FieldOff(c)' <=> FieldOff(c)
                      /\ ~want => ~call'[c].saved
                      /\ want /\ call'[c].at = "batch" => call'[c].saved
                      /\ \A d \in Cursors :
                           \/ work'[d] = work[d] \/ work'[d] = "none"
                           \/ ~auto /\ (work'[d] = "open" \/ (want /\ work'[d] = "told"))
  PROVE  Inductive'
<1>1. Single'
  BY DEF Inductive, Single, Batch
<1>2. \A d \in Cursors : Staged(d)'
  <2> SUFFICES ASSUME NEW d \in Cursors, d # c PROVE Staged(d)'
    OBVIOUS
  <2>1. call'[d] = call[d] /\ Staged(d)
    BY DEF Inductive
  <2> QED
    BY <2>1 DEF Staged, Batch, At
<1>3. ASSUME ~spoiled' PROVE IF want' THEN Automatic' ELSE Manual'
  <2>1. ~spoiled /\ (IF want THEN Automatic ELSE Manual)
    BY <1>3 DEF Inductive
  <2>2. \A d \in Cursors : (DriverOff(d)' <=> DriverOff(d)) /\ (FieldOff(d)' <=> FieldOff(d))
    BY <1>3 DEF DriverOff, FieldOff, At
  <2>3. CASE want
    BY <1>3, <2>1, <2>2, <2>3 DEF Automatic, At
  <2>4. CASE ~want
    BY <1>3, <2>1, <2>4 DEF Manual
  <2> QED
    BY <2>3, <2>4
<1>4. NothingUndone'
  BY DEF Inductive, NothingUndone
<1> QED
  BY <1>1, <1>2, <1>3, <1>4 DEF Inductive

\* Only in manual mode, or during a batch, is there work that is open.
LEMMA WorkDone ==
  ASSUME Inductive, NEW c \in Cursors, NEW d \in Cursors
  PROVE  /\ \A state \in {"open", "told"} :
              Works(c, state) => work'[d] = work[d] \/ (~auto /\ work'[d] = state)
         /\ ~spoiled /\ Told(c) =>
              work'[d] = work[d] \/ (~auto /\ want /\ work'[d] = "told")
<1>1. work \in [Cursors -> {"none", "open", "told", "undone"}]
  BY DEF Inductive, TypeOK
<1>2. ~spoiled /\ want /\ work[c] = "open" => ~auto
  BY DEF Inductive, Automatic
<1>3. ASSUME NEW state \in {"open", "told"}, Works(c, state)
      PROVE  work'[d] = work[d] \/ (~auto /\ work'[d] = state)
  <2>1. CASE auto
    BY <1>3, <2>1 DEF Works
  <2>2. CASE ~auto
    <3>1. work' = [work EXCEPT ![c] = state]
      BY <1>3, <2>2 DEF Works
    <3>2. work'[d] = work[d] \/ work'[d] = state
      BY <1>1, <3>1
    <3> QED
      BY <2>2, <3>2
  <2> QED
    BY <2>1, <2>2
<1>4. ASSUME ~spoiled, Told(c)
      PROVE  work'[d] = work[d] \/ (~auto /\ want /\ work'[d] = "told")
  <2>1. CASE want /\ work[c] = "open"
    <3>1. work' = [work EXCEPT ![c] = "told"]
      BY <1>4, <2>1 DEF Told
    <3>2. work'[d] = work[d] \/ work'[d] = "told"
      BY <1>1, <3>1
    <3> QED
      BY <1>2, <1>4, <2>1, <3>2
  <2>2. CASE ~(want /\ work[c] = "open")
    <3>1. work' = work
      BY <1>4, <2>2 DEF Told
    <3> QED
      BY <3>1
  <2> QED
    BY <2>1, <2>2
<1> QED
  BY <1>3, <1>4

\* The steps of a cursor that switch neither.
LEMMA SameModeSteps ==
  ASSUME ~Overlap, Inductive, TypeOK', NEW c \in Cursors, CursorStep(c),
         ~SetAttr(c), ~SetField(c)
  PROVE  Inductive'
<1> DEFINE Calls == \A d \in Cursors \ {c} : call'[d] = call[d]
           Work == ~spoiled' => \A d \in Cursors :
                     \/ work'[d] = work[d] \/ work'[d] = "none"
                     \/ ~auto /\ (work'[d] = "open" \/ (want /\ work'[d] = "told"))
           Off == ~spoiled' => /\ DriverOff(c)' <=> DriverOff(c)
                               /\ FieldOff(c)' <=> FieldOff(c)
                               /\ ~want => ~call'[c].saved
                               /\ want /\ call'[c].at = "batch" => call'[c].saved
           Begins == Batch(c)' => Batch(c) \/ \A d \in Cursors : ~Batch(d)
           Mode == UNCHANGED <<auto, field, want>> /\ (spoiled => spoiled')
<1>0. call[c] \in CallState /\ call \in [Cursors -> CallState] /\ Staged(c)
      /\ work \in [Cursors -> {"none", "open", "told", "undone"}]
  BY DEF Inductive, TypeOK
<1>1. CASE \E op \in {"execute", "prepare", "executemany"} : Begin(c, op)
  <2>1. Mode /\ Calls
    BY <1>0, <1>1 DEF Begin, mode, Goto, Return
  <2>2. Work
    BY <1>0, <1>1 DEF Begin, NoWork
  <2>3. Staged(c)' /\ Begins
    BY <1>0, <1>1 DEF Begin, Batching, Staged, Batch, At, Goto, Return, NoCall, CallState, mode, Free, Idle
  <2>4. Off
    BY <1>0, <1>1, ModeOfBatch DEF Begin, Batching, Staged, Batch, DriverOff, FieldOff, At, Goto, Return, NoCall, CallState, mode, Free, Idle, Inductive, Manual, Automatic
  <2> QED
    BY <2>1, <2>2, <2>3, <2>4, SameMode
<1>2. CASE Prepare(c)
  <2>1. Mode /\ Calls
    BY <1>0, <1>2 DEF Prepare, mode, Goto, Return
  <2>2. Work
    BY <1>0, <1>2 DEF Prepare, NoWork
  <2>3. Staged(c)' /\ Begins
    <3>1. call[c].op \in {"prepare", "execute", "executemany"} /\ ~call[c].saved
      BY <1>0, <1>2 DEF Prepare, At, Staged, Batch, Inductive, TypeOK, CallState
    <3>2. CASE call[c].op = "prepare" /\ Return(c)
      BY <1>0, <3>2 DEF Return, NoCall, Staged, Batch, At
    <3>3. CASE call[c].op = "execute" /\ Goto(c, "execute")
      BY <1>0, <1>2, <3>3 DEF Prepare, Goto, Staged, Batch, At, CallState, mode
    <3>4. CASE call[c].op = "executemany" /\ Goto(c, "mode")
      BY <1>0, <1>2, <3>1, <3>4 DEF Prepare, Goto, Staged, Batch, At, CallState, mode
    <3> QED
      BY <1>2, <3>1, <3>2, <3>3, <3>4 DEF Prepare
  <2>4. Off
    BY <1>0, <1>2, ModeOfBatch DEF Prepare, Staged, Batch, DriverOff, FieldOff, At, Goto, Return, NoCall, CallState, mode, Free, Idle, Inductive, Manual, Automatic
  <2> QED
    BY <2>1, <2>2, <2>3, <2>4, SameMode
<1>3. CASE PrepareFails(c)
  <2>1. Mode /\ Calls
    BY <1>0, <1>3 DEF PrepareFails, mode, Goto, Return
  <2>2. Work
    BY <1>0, <1>3 DEF PrepareFails, NoWork
  <2>3. Staged(c)' /\ Begins
    BY <1>0, <1>3 DEF PrepareFails, Staged, Batch, At, Goto, Return, NoCall, CallState, mode, Free, Idle
  <2>4. Off
    BY <1>0, <1>3, ModeOfBatch DEF PrepareFails, Staged, Batch, DriverOff, FieldOff, At, Goto, Return, NoCall, CallState, mode, Free, Idle, Inductive, Manual, Automatic
  <2> QED
    BY <2>1, <2>2, <2>3, <2>4, SameMode
<1>4. CASE ExecutePrepared(c)
  <2>1. Mode /\ Calls
    BY <1>0, <1>4 DEF ExecutePrepared, mode, Goto, Return
  <2>2. Work
    BY <1>0, <1>4 DEF ExecutePrepared, NoWork
  <2>3. Staged(c)' /\ Begins
    BY <1>0, <1>4 DEF ExecutePrepared, Staged, Batch, At, Goto, Return, NoCall, CallState, mode, Free, Idle
  <2>4. Off
    BY <1>0, <1>4, ModeOfBatch DEF ExecutePrepared, Staged, Batch, DriverOff, FieldOff, At, Goto, Return, NoCall, CallState, mode, Free, Idle, Inductive, Manual, Automatic
  <2> QED
    BY <2>1, <2>2, <2>3, <2>4, SameMode
<1>5. CASE \E stmt \in {"results", "done"} : Execute(c, stmt)
  <2>1. Mode /\ Calls
    BY <1>0, <1>5 DEF Execute, mode, Goto, Return
  <2>2. Work
    <3> SUFFICES ASSUME ~spoiled', NEW d \in Cursors
                 PROVE  \/ work'[d] = work[d] \/ work'[d] = "none"
                        \/ ~auto /\ (work'[d] = "open" \/ (want /\ work'[d] = "told"))
      OBVIOUS
    <3>1. ~spoiled
      BY <2>1
    <3>2. Works(c, "open")
      BY <1>5, <3>1 DEF Execute
    <3> QED
      BY <3>1, <3>2, WorkDone
  <2>3. Staged(c)' /\ Begins
    BY <1>0, <1>5 DEF Execute, Staged, Batch, At, Goto, Return, NoCall, CallState, mode, Free, Idle
  <2>4. Off
    BY <1>0, <1>5, ModeOfBatch DEF Execute, Staged, Batch, DriverOff, FieldOff, At, Goto, Return, NoCall, CallState, mode, Free, Idle, Inductive, Manual, Automatic
  <2> QED
    BY <2>1, <2>2, <2>3, <2>4, SameMode
<1>6. CASE ExecuteFails(c)
  <2>1. Mode /\ Calls
    BY <1>0, <1>6 DEF ExecuteFails, mode, Goto, Return
  <2>2. Work
    BY <1>0, <1>6 DEF ExecuteFails, NoWork
  <2>3. Staged(c)' /\ Begins
    BY <1>0, <1>6 DEF ExecuteFails, Staged, Batch, At, Goto, Return, NoCall, CallState, mode, Free, Idle
  <2>4. Off
    BY <1>0, <1>6, ModeOfBatch DEF ExecuteFails, Staged, Batch, DriverOff, FieldOff, At, Goto, Return, NoCall, CallState, mode, Free, Idle, Inductive, Manual, Automatic
  <2> QED
    BY <2>1, <2>2, <2>3, <2>4, SameMode
<1>7. CASE ExecuteEnds(c)
  <2>1. Mode /\ Calls
    BY <1>0, <1>7 DEF ExecuteEnds, mode, Goto, Return
  <2>2. Work
    <3> SUFFICES ASSUME ~spoiled', NEW d \in Cursors
                 PROVE  \/ work'[d] = work[d] \/ work'[d] = "none"
                        \/ ~auto /\ (work'[d] = "open" \/ (want /\ work'[d] = "told"))
      OBVIOUS
    <3>1. ~spoiled
      BY <2>1
    <3>2. Told(c)
      BY <1>7, <3>1 DEF ExecuteEnds
    <3> QED
      BY <3>1, <3>2, WorkDone
  <2>3. Staged(c)' /\ Begins
    BY <1>0, <1>7 DEF ExecuteEnds, Staged, Batch, At, Goto, Return, NoCall, CallState, mode, Free, Idle
  <2>4. Off
    BY <1>0, <1>7, ModeOfBatch DEF ExecuteEnds, Staged, Batch, DriverOff, FieldOff, At, Goto, Return, NoCall, CallState, mode, Free, Idle, Inductive, Manual, Automatic
  <2> QED
    BY <2>1, <2>2, <2>3, <2>4, SameMode
<1>8. CASE ExecuteEndFails(c)
  <2>1. Mode /\ Calls
    BY <1>0, <1>8 DEF ExecuteEndFails, mode, Goto, Return
  <2>2. Work
    BY <1>0, <1>8 DEF ExecuteEndFails, NoWork
  <2>3. Staged(c)' /\ Begins
    BY <1>0, <1>8 DEF ExecuteEndFails, Staged, Batch, At, Goto, Return, NoCall, CallState, mode, Free, Idle
  <2>4. Off
    BY <1>0, <1>8, ModeOfBatch DEF ExecuteEndFails, Staged, Batch, DriverOff, FieldOff, At, Goto, Return, NoCall, CallState, mode, Free, Idle, Inductive, Manual, Automatic
  <2> QED
    BY <2>1, <2>2, <2>3, <2>4, SameMode
<1>9. CASE GetMode(c)
  <2>1. Mode /\ Calls
    BY <1>0, <1>9 DEF GetMode, mode, Goto, Return
  <2>2. Work
    BY <1>0, <1>9 DEF GetMode, NoWork
  <2>3. Staged(c)' /\ Begins
    BY <1>0, <1>9 DEF GetMode, Staged, Batch, At, Goto, Return, NoCall, CallState, mode, Free, Idle
  <2>4. Off
    BY <1>0, <1>9, ModeOfBatch DEF GetMode, Staged, Batch, DriverOff, FieldOff, At, Goto, Return, NoCall, CallState, mode, Free, Idle, Inductive, Manual, Automatic
  <2> QED
    BY <2>1, <2>2, <2>3, <2>4, SameMode
<1>10. CASE Compare(c)
  <2>1. Mode /\ Calls
    BY <1>0, <1>10 DEF Compare, mode, Goto, Return
  <2>2. Work
    BY <1>0, <1>10 DEF Compare, NoWork
  <2>3. Staged(c)' /\ Begins
    BY <1>0, <1>10 DEF Compare, AfterSwitch, Staged, Batch, At, Goto, Return, NoCall, CallState, mode, Free, Idle
  <2>4. Off
    BY <1>0, <1>10, ModeOfBatch DEF Compare, AfterSwitch, Staged, Batch, DriverOff, FieldOff, At, Goto, Return, NoCall, CallState, mode, Free, Idle, Inductive, Manual, Automatic
  <2> QED
    BY <2>1, <2>2, <2>3, <2>4, SameMode
<1>11. CASE SetAttrFails(c)
  <2>1. Mode /\ Calls
    BY <1>0, <1>11 DEF SetAttrFails, mode, Goto, Return
  <2>2. Work
    BY <1>0, <1>11 DEF SetAttrFails, NoWork
  <2>3. Staged(c)' /\ Begins
    BY <1>0, <1>11 DEF SetAttrFails, Staged, Batch, At, Goto, Return, NoCall, CallState, mode, Free, Idle
  <2>4. Off
    BY <1>0, <1>11, ModeOfBatch DEF SetAttrFails, Staged, Batch, DriverOff, FieldOff, At, Goto, Return, NoCall, CallState, mode, Free, Idle, Inductive, Manual, Automatic
  <2> QED
    BY <2>1, <2>2, <2>3, <2>4, SameMode
<1>12. CASE BatchExecutes(c)
  <2>1. Mode /\ Calls
    BY <1>0, <1>12 DEF BatchExecutes, mode, Goto, Return
  <2>2. Work
    <3> SUFFICES ASSUME ~spoiled', NEW d \in Cursors
                 PROVE  \/ work'[d] = work[d] \/ work'[d] = "none"
                        \/ ~auto /\ (work'[d] = "open" \/ (want /\ work'[d] = "told"))
      OBVIOUS
    <3>1. ~spoiled
      BY <2>1
    <3>2. Works(c, "open")
      BY <1>12, <3>1 DEF BatchExecutes
    <3> QED
      BY <3>1, <3>2, WorkDone
  <2>3. Staged(c)' /\ Begins
    BY <1>0, <1>12 DEF BatchExecutes, Staged, Batch, At, Goto, Return, NoCall, CallState, mode, Free, Idle
  <2>4. Off
    BY <1>0, <1>12, ModeOfBatch DEF BatchExecutes, Staged, Batch, DriverOff, FieldOff, At, Goto, Return, NoCall, CallState, mode, Free, Idle, Inductive, Manual, Automatic
  <2> QED
    BY <2>1, <2>2, <2>3, <2>4, SameMode
<1>13. CASE BatchFails(c)
  <2>1. Mode /\ Calls
    BY <1>0, <1>13 DEF BatchFails, mode, Goto, Return
  <2>2. Work
    <3> SUFFICES ASSUME ~spoiled', NEW d \in Cursors
                 PROVE  \/ work'[d] = work[d] \/ work'[d] = "none"
                        \/ ~auto /\ (work'[d] = "open" \/ (want /\ work'[d] = "told"))
      OBVIOUS
    <3>1. ~spoiled
      BY <2>1
    <3>2. Works(c, "open") \/ UNCHANGED work
      BY <1>13, <3>1 DEF BatchFails
    <3> QED
      BY <3>1, <3>2, WorkDone
  <2>3. Staged(c)' /\ Begins
    BY <1>0, <1>13 DEF BatchFails, Staged, Batch, At, Goto, Return, NoCall, CallState, mode, Free, Idle
  <2>4. Off
    BY <1>0, <1>13, ModeOfBatch DEF BatchFails, Staged, Batch, DriverOff, FieldOff, At, Goto, Return, NoCall, CallState, mode, Free, Idle, Inductive, Manual, Automatic
  <2> QED
    BY <2>1, <2>2, <2>3, <2>4, SameMode
<1>14. CASE BatchCommits(c)
  <2>1. Mode /\ Calls
    BY <1>0, <1>14 DEF BatchCommits, mode, Goto, Return
  <2>2. Work
    BY <1>0, <1>14 DEF BatchCommits, NoWork
  <2>3. Staged(c)' /\ Begins
    BY <1>0, <1>14 DEF BatchCommits, Staged, Batch, At, Goto, Return, NoCall, CallState, mode, Free, Idle
  <2>4. Off
    BY <1>0, <1>14, ModeOfBatch DEF BatchCommits, Staged, Batch, DriverOff, FieldOff, At, Goto, Return, NoCall, CallState, mode, Free, Idle, Inductive, Manual, Automatic
  <2> QED
    BY <2>1, <2>2, <2>3, <2>4, SameMode
<1>15. CASE BatchCommitFails(c)
  <2>1. Mode /\ Calls
    BY <1>0, <1>15 DEF BatchCommitFails, mode, Goto, Return
  <2>2. Work
    BY <1>0, <1>15 DEF BatchCommitFails, NoWork
  <2>3. Staged(c)' /\ Begins
    BY <1>0, <1>15 DEF BatchCommitFails, Staged, Batch, At, Goto, Return, NoCall, CallState, mode, Free, Idle
  <2>4. Off
    BY <1>0, <1>15, ModeOfBatch DEF BatchCommitFails, Staged, Batch, DriverOff, FieldOff, At, Goto, Return, NoCall, CallState, mode, Free, Idle, Inductive, Manual, Automatic
  <2> QED
    BY <2>1, <2>2, <2>3, <2>4, SameMode
<1>16. CASE BatchEnds(c)
  <2>1. Mode /\ Calls
    BY <1>0, <1>16 DEF BatchEnds, mode, Goto, Return
  <2>2. Work
    <3> SUFFICES ASSUME ~spoiled', NEW d \in Cursors
                 PROVE  \/ work'[d] = work[d] \/ work'[d] = "none"
                        \/ ~auto /\ (work'[d] = "open" \/ (want /\ work'[d] = "told"))
      OBVIOUS
    <3>1. ~spoiled
      BY <2>1
    <3>2. Told(c)
      BY <1>16, <3>1 DEF BatchEnds
    <3> QED
      BY <3>1, <3>2, WorkDone
  <2>3. Staged(c)' /\ Begins
    BY <1>0, <1>16 DEF BatchEnds, Staged, Batch, At, Goto, Return, NoCall, CallState, mode, Free, Idle
  <2>4. Off
    BY <1>0, <1>16, ModeOfBatch DEF BatchEnds, Staged, Batch, DriverOff, FieldOff, At, Goto, Return, NoCall, CallState, mode, Free, Idle, Inductive, Manual, Automatic
  <2> QED
    BY <2>1, <2>2, <2>3, <2>4, SameMode
<1>17. CASE BatchNotCounted(c)
  <2>1. Mode /\ Calls
    BY <1>0, <1>17 DEF BatchNotCounted, mode, Goto, Return
  <2>2. Work
    BY <1>0, <1>17 DEF BatchNotCounted, NoWork
  <2>3. Staged(c)' /\ Begins
    BY <1>0, <1>17 DEF BatchNotCounted, Staged, Batch, At, Goto, Return, NoCall, CallState, mode, Free, Idle
  <2>4. Off
    BY <1>0, <1>17, ModeOfBatch DEF BatchNotCounted, Staged, Batch, DriverOff, FieldOff, At, Goto, Return, NoCall, CallState, mode, Free, Idle, Inductive, Manual, Automatic
  <2> QED
    BY <2>1, <2>2, <2>3, <2>4, SameMode
<1>18. CASE BatchRaises(c)
  <2>1. Mode /\ Calls
    BY <1>0, <1>18 DEF BatchRaises, mode, Goto, Return
  <2>2. Work
    BY <1>0, <1>18 DEF BatchRaises, NoWork
  <2>3. Staged(c)' /\ Begins
    BY <1>0, <1>18 DEF BatchRaises, Staged, Batch, At, Goto, Return, NoCall, CallState, mode, Free, Idle
  <2>4. Off
    BY <1>0, <1>18, ModeOfBatch DEF BatchRaises, Staged, Batch, DriverOff, FieldOff, At, Goto, Return, NoCall, CallState, mode, Free, Idle, Inductive, Manual, Automatic
  <2> QED
    BY <2>1, <2>2, <2>3, <2>4, SameMode
<1>19. CASE NewCursor(c)
  <2>1. Mode /\ Calls
    BY <1>0, <1>19 DEF NewCursor, mode, Goto, Return
  <2>2. Work
    BY <1>0, <1>19 DEF NewCursor, NoWork
  <2>3. Staged(c)' /\ Begins
    BY <1>0, <1>19 DEF NewCursor, Staged, Batch, At, Goto, Return, NoCall, CallState, mode, Free, Idle
  <2>4. Off
    BY <1>0, <1>19, ModeOfBatch DEF NewCursor, Staged, Batch, DriverOff, FieldOff, At, Goto, Return, NoCall, CallState, mode, Free, Idle, Inductive, Manual, Automatic
  <2> QED
    BY <2>1, <2>2, <2>3, <2>4, SameMode
<1>20. CASE \E stmt \in {"results", "done"} : Callproc(c, stmt)
  <2>1. Mode /\ Calls
    BY <1>0, <1>20 DEF Callproc, mode, Goto, Return
  <2>2. Work
    <3> SUFFICES ASSUME ~spoiled', NEW d \in Cursors
                 PROVE  \/ work'[d] = work[d] \/ work'[d] = "none"
                        \/ ~auto /\ (work'[d] = "open" \/ (want /\ work'[d] = "told"))
      OBVIOUS
    <3>1. ~spoiled
      BY <2>1
    <3>2. IF want THEN Works(c, "told") ELSE Works(c, "open")
      BY <1>20, <3>1 DEF Callproc
    <3> QED
      BY <3>1, <3>2, WorkDone
  <2>3. Staged(c)' /\ Begins
    BY <1>0, <1>20 DEF Callproc, Staged, Batch, At, Goto, Return, NoCall, CallState, mode, Free, Idle
  <2>4. Off
    BY <1>0, <1>20, ModeOfBatch DEF Callproc, Staged, Batch, DriverOff, FieldOff, At, Goto, Return, NoCall, CallState, mode, Free, Idle, Inductive, Manual, Automatic
  <2> QED
    BY <2>1, <2>2, <2>3, <2>4, SameMode
<1>21. CASE NextSet(c)
  <2>1. Mode /\ Calls
    BY <1>0, <1>21 DEF NextSet, mode, Goto, Return
  <2>2. Work
    BY <1>0, <1>21 DEF NextSet, NoWork
  <2>3. Staged(c)' /\ Begins
    BY <1>0, <1>21 DEF NextSet, Staged, Batch, At, Goto, Return, NoCall, CallState, mode, Free, Idle
  <2>4. Off
    BY <1>0, <1>21, ModeOfBatch DEF NextSet, Staged, Batch, DriverOff, FieldOff, At, Goto, Return, NoCall, CallState, mode, Free, Idle, Inductive, Manual, Automatic
  <2> QED
    BY <2>1, <2>2, <2>3, <2>4, SameMode
<1>22. CASE CursorClose(c)
  <2>1. Mode /\ Calls
    BY <1>0, <1>22 DEF CursorClose, mode, Goto, Return
  <2>2. Work
    BY <1>0, <1>22 DEF CursorClose, NoWork
  <2>3. Staged(c)' /\ Begins
    BY <1>0, <1>22 DEF CursorClose, Staged, Batch, At, Goto, Return, NoCall, CallState, mode, Free, Idle
  <2>4. Off
    BY <1>0, <1>22, ModeOfBatch DEF CursorClose, Staged, Batch, DriverOff, FieldOff, At, Goto, Return, NoCall, CallState, mode, Free, Idle, Inductive, Manual, Automatic
  <2> QED
    BY <2>1, <2>2, <2>3, <2>4, SameMode
<1> QED
  BY <1>1, <1>2, <1>3, <1>4, <1>5, <1>6, <1>7, <1>8, <1>9, <1>10, <1>11,
     <1>12, <1>13, <1>14, <1>15, <1>16, <1>17, <1>18, <1>19, <1>20, <1>21, <1>22
  DEF CursorStep, ExecuteStep, BatchStep

\* The driver is switched, for a batch or back.
LEMMA Switched ==
  ASSUME Inductive, TypeOK', NEW c \in Cursors, SetAttr(c) PROVE Inductive'
<1>0. /\ call \in [Cursors -> CallState] /\ work \in [Cursors -> {"none", "open", "told", "undone"}]
      /\ Staged(c) /\ Batch(c) /\ call[c].saved /\ At(c, "attr")
  BY DEF Inductive, TypeOK, SetAttr, Staged
<1>1. /\ call' = [call EXCEPT ![c].at = "field"]
      /\ \A d \in Cursors \ {c} : call'[d] = call[d]
      /\ call'[c].at = "field" /\ call'[c].op = call[c].op /\ call'[c].saved
      /\ call'[c].to = call[c].to /\ call'[c].failed = call[c].failed
  BY <1>0 DEF SetAttr, Goto, CallState
<1>2. \A d \in Cursors : Staged(d)'
  BY <1>0, <1>1 DEF Inductive, Staged, Batch, At, SetAttr
<1>3. Single'
  BY <1>1 DEF Inductive, Single, Batch
<1>4. ASSUME ~spoiled PROVE want /\ Automatic'
  <2>1. want /\ (field <=> ~FieldOff(c))
    BY <1>0, <1>4, ModeOfBatch
  <2>2. \A d \in Cursors \ {c} : ~DriverOff(d)' /\ ~FieldOff(d)' /\ ~At(d, "batch")'
    BY <1>0, <1>1, Alone DEF DriverOff, FieldOff, At
  <2>3. (DriverOff(c)' <=> ~call[c].to) /\ (FieldOff(c)' <=> FieldOff(c)) /\ ~At(c, "batch")'
    BY <1>0, <1>1 DEF DriverOff, FieldOff, At
  <2>4. auto' = call[c].to /\ field' = field
    BY DEF SetAttr
  <2>5. auto' => \A d \in Cursors : work'[d] = "none"
    BY <2>4 DEF SetAttr, NoWork
  <2> QED
    BY <2>1, <2>2, <2>3, <2>4, <2>5 DEF Automatic
<1>5. spoiled' = spoiled /\ want' = want
  BY DEF SetAttr
<1>6. NothingUndone'
  BY <1>5 DEF Inductive, NothingUndone, SetAttr, NoWork
<1> QED
  BY <1>2, <1>3, <1>4, <1>5, <1>6 DEF Inductive

\* The field follows.
LEMMA Noted ==
  ASSUME Inductive, TypeOK', NEW c \in Cursors, SetField(c) PROVE Inductive'
<1>0. /\ call \in [Cursors -> CallState] /\ Staged(c)
      /\ Batch(c) /\ call[c].saved /\ At(c, "field")
  BY DEF Inductive, TypeOK, SetField, Staged
<1> DEFINE next == IF call[c].failed THEN "handler" ELSE IF call[c].to THEN "count" ELSE "batch"
<1>1. /\ \A d \in Cursors \ {c} : call'[d] = call[d]
      /\ call'[c].at = next /\ call'[c].op = call[c].op /\ call'[c].saved
      /\ call'[c].to = call[c].to /\ call'[c].failed = call[c].failed
  BY <1>0 DEF SetField, Goto, AfterSwitch, CallState
<1>2. \A d \in Cursors : Staged(d)'
  BY <1>0, <1>1 DEF Inductive, Staged, Batch, At, SetField
<1>3. Single'
  BY <1>1 DEF Inductive, Single, Batch
<1>4. ASSUME ~spoiled PROVE want /\ Automatic'
  <2>1. want /\ (auto <=> ~DriverOff(c)) /\ ~call[c].failed
    BY <1>0, <1>4, ModeOfBatch DEF Staged
  <2>2. \A d \in Cursors \ {c} : ~DriverOff(d)' /\ ~FieldOff(d)' /\ ~At(d, "batch")'
    BY <1>0, <1>1, Alone DEF DriverOff, FieldOff, At
  <2>3. (DriverOff(c)' <=> DriverOff(c)) /\ (FieldOff(c)' <=> ~call[c].to)
    BY <1>0, <1>1, <2>1 DEF DriverOff, FieldOff, At
  <2>4. field' = call[c].to /\ auto' = auto /\ work' = work
    BY DEF SetField
  <2>5. auto => \A d \in Cursors : work[d] = "none"
    BY <1>4, <2>1 DEF Inductive, Automatic
  <2> QED
    BY <1>1, <2>1, <2>2, <2>3, <2>4, <2>5 DEF Automatic
<1>5. spoiled' = spoiled /\ want' = want /\ work' = work
  BY DEF SetField
<1>6. NothingUndone'
  BY <1>5 DEF Inductive, NothingUndone
<1> QED
  BY <1>2, <1>3, <1>4, <1>5, <1>6 DEF Inductive

\* Between batches nothing is switched off.
LEMMA Between ==
  ASSUME Inductive, ~Batching
  PROVE  /\ \A c \in Cursors : /\ ~call[c].saved /\ ~DriverOff(c) /\ ~FieldOff(c)
                               /\ ~At(c, "batch")
         /\ ~spoiled => /\ auto = want /\ field = want
                        /\ want => \A c \in Cursors : work[c] = "none"
                        /\ ~want => \A c \in Cursors : work[c] # "told"
                        /\ \A c \in Cursors : RolledBack[c] = "none"
<1>1. \A c \in Cursors : ~Batch(c)
  BY DEF Batching, Batch
<1>2. \A c \in Cursors : ~call[c].saved /\ ~DriverOff(c) /\ ~FieldOff(c) /\ ~At(c, "batch")
  BY <1>1 DEF Inductive, Staged, DriverOff, FieldOff
<1>3. ASSUME ~spoiled, want
      PROVE  auto /\ field /\ \A c \in Cursors : work[c] = "none"
  BY <1>2, <1>3 DEF Inductive, Automatic
<1>4. ASSUME ~spoiled, ~want
      PROVE  ~auto /\ ~field /\ \A c \in Cursors : work[c] # "told"
  BY <1>4 DEF Inductive, Manual
<1>5. auto \in BOOLEAN /\ field \in BOOLEAN /\ want \in BOOLEAN
  BY DEF Inductive, TypeOK
<1>6. ~spoiled => auto = want /\ field = want
  BY <1>3, <1>4, <1>5
<1>7. ~spoiled => \A c \in Cursors : RolledBack[c] = "none"
  BY <1>3, <1>4 DEF RolledBack
<1> QED
  BY <1>2, <1>3, <1>4, <1>6, <1>7

LEMMA ConnectionSteps ==
  ASSUME ~Overlap, Inductive, TypeOK', ConnectionStep PROVE Inductive'
<1>0. ~Batching
  BY DEF ConnectionStep, Commit, Rollback, Close, SetAutocommit, SetAutocommitFails, Apart
<1>1. call' = call /\ Single'
  BY DEF ConnectionStep, Commit, Rollback, Close, SetAutocommit, SetAutocommitFails, mode,
     Inductive, Single, Batch
<1>2. \A c \in Cursors : /\ ~DriverOff(c)' /\ ~FieldOff(c)' /\ ~At(c, "batch")'
                         /\ ~call'[c].saved
  BY <1>0, <1>1, Between DEF DriverOff, FieldOff, At
<1>3. \A c \in Cursors : ~Batch(c) /\ ~call[c].failed
  BY <1>0 DEF Batching, Batch, Inductive, Staged
<1>4. \A c \in Cursors : Staged(c)'
  BY <1>1, <1>3 DEF Inductive, Staged, Batch, At
<1>5. ASSUME ~spoiled'
      PROVE  /\ auto' = want' /\ field' = want'
             /\ want' => \A c \in Cursors : work'[c] = "none"
             /\ \A c \in Cursors : work'[c] \notin {"told", "undone"}
  <2>1. CASE Commit
    BY <1>0, <1>5, <2>1, Between DEF Commit, mode, NoWork
  <2>2. CASE Rollback
    BY <1>0, <1>5, <2>2, Between DEF Rollback, mode
  <2>3. CASE Close
    BY <1>0, <1>5, <2>3, Between DEF Close
  <2>4. CASE \E on \in BOOLEAN : SetAutocommitFails(on)
    BY <1>5, <2>4 DEF SetAutocommitFails
  <2>5. CASE \E on \in BOOLEAN : SetAutocommit(on)
    <3>1. PICK on \in BOOLEAN : SetAutocommit(on)
      BY <2>5
    <3>2. auto' = on /\ field' = on /\ want' = on
      BY <3>1 DEF SetAutocommit
    <3>3. CASE on
      BY <3>1, <3>2, <3>3 DEF SetAutocommit, NoWork
    <3>4. CASE ~on
      <4>1. ~spoiled /\ work' = work
        BY <1>5, <3>1, <3>4 DEF SetAutocommit
      <4>2. \A c \in Cursors : work[c] \notin {"told", "undone"}
        BY <1>0, <4>1, Between DEF Inductive, NothingUndone
      <4> QED
        BY <3>2, <3>4, <4>1, <4>2
    <3> QED
      BY <3>3, <3>4
  <2> QED
    BY <2>1, <2>2, <2>3, <2>4, <2>5 DEF ConnectionStep
<1>6. ASSUME ~spoiled' PROVE IF want' THEN Automatic' ELSE Manual'
  <2>1. CASE want'
    BY <1>2, <1>5, <1>6, <2>1 DEF Automatic
  <2>2. CASE ~want'
    BY <1>2, <1>5, <1>6, <2>2 DEF Manual
  <2> QED
    BY <2>1, <2>2
<1>7. NothingUndone'
  BY <1>5 DEF NothingUndone
<1> QED
  BY <1>1, <1>4, <1>6, <1>7 DEF Inductive

LEMMA InductiveKept == ASSUME ~Overlap PROVE Inductive /\ [Next]_vars => Inductive'
<1> SUFFICES ASSUME Inductive, [Next]_vars PROVE Inductive'
  OBVIOUS
<1>1. CASE UNCHANGED vars
  BY <1>1 DEF Inductive, TypeOK, Single, Staged, Batch, At, Automatic, Manual, DriverOff, FieldOff,
     NothingUndone, vars
<1>2. CASE ConnectionStep
  BY <1>2, ConnectionTypes, ConnectionSteps DEF Inductive
<1>3. ASSUME NEW c \in Cursors, CursorStep(c) PROVE Inductive'
  <2>1. TypeOK'
    BY <1>3, CursorTypes DEF Inductive
  <2> QED
    BY <1>3, <2>1, SameModeSteps, Switched, Noted
<1> QED
  BY <1>1, <1>2, <1>3 DEF Next

LEMMA AlwaysInductive == ASSUME ~Overlap PROVE Spec => []Inductive
BY InitInductive, InductiveKept, PTL DEF Spec

\* Whatever fails in whatever order, executemany leaves the connection in the
\* mode that the caller has chosen, unless a batch or a switch has failed.
THEOREM ModesRestored == ASSUME ~Overlap PROVE Spec => []ModeRestored
<1>1. Inductive => ModeRestored
  <2> SUFFICES ASSUME Inductive, ~spoiled
               PROVE  (~Batching => auto = want) /\ (~want => ~auto)
    BY DEF ModeRestored
  <2> QED
    BY Between DEF Inductive, Manual
<1> QED
  BY <1>1, AlwaysInductive, PTL

\* What a call of any cursor has reported as done in autocommit mode no
\* rollback takes back, also if it was made in the middle of another cursor's
\* batch, unless a batch or a switch has failed.
THEOREM NothingTakenBack == ASSUME ~Overlap PROVE Spec => []NothingUndone
<1>1. Inductive => NothingUndone
  BY DEF Inductive
<1> QED
  BY <1>1, AlwaysInductive, PTL

\* In manual mode the work of a cursor stays open until the caller ends it:
\* no call of a cursor, executemany neither, commits.
THEOREM OnlyCommitsCommit == ASSUME ~Overlap PROVE Spec => OnlyCommitCommits
<1>1. ASSUME Inductive, [Next]_vars,
             ~want /\ ~spoiled /\ (\E c \in Cursors : CursorStep(c))
      PROVE  \A c \in Cursors : work[c] # "none" => work'[c] # "none"
  <2>1. PICK c \in Cursors : CursorStep(c)
    BY <1>1
  <2>2. /\ \A d \in Cursors : ~call[d].saved /\ work[d] # "told" /\ Staged(d)
        /\ work \in [Cursors -> {"none", "open", "told", "undone"}]
    BY <1>1 DEF Inductive, Manual, TypeOK
  <2>3. ~SetAttr(c) /\ ~BatchCommits(c) /\ ~BatchCommitFails(c)
    BY <2>2 DEF Staged, SetAttr, BatchCommits, BatchCommitFails
  <2>4. \/ work' = work \/ Told(c)
        \/ \E state \in {"open", "told"} : Works(c, state)
    BY <2>1, <2>3 DEF CursorStep, ExecuteStep, BatchStep, NewCursor, Begin, Prepare, PrepareFails,
       ExecutePrepared, Execute, ExecuteFails, ExecuteEnds, ExecuteEndFails, GetMode, Compare,
       SetAttrFails, SetField, BatchExecutes, BatchFails, BatchEnds, BatchNotCounted, BatchRaises,
       Callproc, NextSet, CursorClose
  <2>5. \A d \in Cursors : \/ work'[d] = work[d] \/ work'[d] \in {"open", "told"}
    BY <1>1, <2>4, WorkDone
  <2> QED
    BY <2>5
<1>2. Inductive /\ [Next]_vars
      => [~want /\ ~spoiled /\ (\E c \in Cursors : CursorStep(c)) =>
            \A c \in Cursors : work[c] # "none" => work'[c] # "none"]_vars
  BY <1>1
<1> QED
  BY <1>2, AlwaysInductive, PTL DEF Spec, OnlyCommitCommits
=============================================================================
