---------------------------- MODULE Usqlite_proof ----------------------------
(***************************************************************************)
(* Proofs about Usqlite: the types of its state, what rc says of the       *)
(* cursor's statement, who owns the statements and the database, and what  *)
(* the trace callback may do below a running statement (nVdbeExec counts   *)
(* the statements being stepped; none of them is finalized).               *)
(***************************************************************************)
EXTENDS Usqlite, SequenceTheorems, FiniteSetTheorems, TLAPS

-----------------------------------------------------------------------------
(* The call stack. *)

LEMMA PushFacts ==
    ASSUME stack \in Seq(Frame), NEW f \in Frame, Push(f)
    PROVE  /\ stack' \in Seq(Frame)
           /\ Len(stack') = Len(stack) + 1
           /\ DOMAIN stack' = 1..(Len(stack) + 1)
           /\ DOMAIN stack = 1..Len(stack)
           /\ stack'[Len(stack) + 1] = f
           /\ \A i \in 1..Len(stack) : stack'[i] = stack[i]
  BY DEF Push

LEMMA PopFacts ==
    ASSUME stack \in Seq(Frame), stack # <<>>, Pop
    PROVE  /\ stack' \in Seq(Frame)
           /\ Len(stack') = Len(stack) - 1
           /\ DOMAIN stack' = 1..(Len(stack) - 1)
           /\ DOMAIN stack = 1..Len(stack)
           /\ \A i \in 1..(Len(stack) - 1) : stack'[i] = stack[i]
  <1>1. Len(stack) \in Nat \ {0}
    BY LenProperties, EmptySeq
  <1>2. \A i \in 1..(Len(stack) - 1) : stack[i] \in Frame
    BY <1>1, LenProperties
  <1>3. /\ SubSeq(stack, 1, Len(stack) - 1) \in Seq(Frame)
        /\ Len(SubSeq(stack, 1, Len(stack) - 1)) = Len(stack) - 1
        /\ \A i \in 1..(Len(stack) - 1) :
               SubSeq(stack, 1, Len(stack) - 1)[i] = stack[i]
    <2>1. ASSUME NEW n \in Nat, \A i \in 1..n : stack[i] \in Frame
          PROVE  /\ SubSeq(stack, 1, n) \in Seq(Frame)
                 /\ Len(SubSeq(stack, 1, n)) = IF 1 <= n THEN n - 1 + 1 ELSE 0
                 /\ \A i \in 1..(n - 1 + 1) : SubSeq(stack, 1, n)[i] = stack[1 + i - 1]
      BY <2>1, SubSeqProperties, 1 \in Int, n \in Int
    <2>2. ASSUME NEW n \in Nat, \A i \in 1..n : stack[i] \in Frame
          PROVE  /\ SubSeq(stack, 1, n) \in Seq(Frame)
                 /\ Len(SubSeq(stack, 1, n)) = n
                 /\ \A i \in 1..n : SubSeq(stack, 1, n)[i] = stack[i]
      BY <2>1, <2>2
    <2>3. Len(stack) - 1 \in Nat
      BY <1>1
    <2> QED BY <1>2, <2>2, <2>3, Zenon
  <1> QED BY <1>1, <1>3, LenProperties DEF Pop

LEMMA SetTopFacts ==
    ASSUME stack \in Seq(Frame), stack # <<>>, NEW f \in Frame, SetTop(f)
    PROVE  /\ stack' \in Seq(Frame)
           /\ Len(stack') = Len(stack)
           /\ DOMAIN stack' = 1..Len(stack)
           /\ DOMAIN stack = 1..Len(stack)
           /\ stack'[Len(stack)] = f
           /\ \A i \in 1..(Len(stack) - 1) : stack'[i] = stack[i]
  BY DEF SetTop

LEMMA TopFacts ==
    ASSUME stack \in Seq(Frame), stack # <<>>
    PROVE  /\ Len(stack) \in DOMAIN stack
           /\ Len(stack) \in Nat \ {0}
           /\ DOMAIN stack = 1..Len(stack)
           /\ Top = stack[Len(stack)]
           /\ Top \in Frame
  BY DEF Top

-----------------------------------------------------------------------------
(* Types. *)

LEMMA StmtRecords ==
    /\ FreeVdbe \in Vdbe
    /\ \A counts \in BOOLEAN : Prepared(counts) \in Vdbe
    /\ \A v \in Vdbe : Started(v) \in Vdbe
    /\ \A v \in Vdbe : v.row < MaxRows => WithRow(v) \in Vdbe
    /\ \A v \in Vdbe, n \in 0..MaxChanges : Halted(v, n) \in Vdbe
  <1>1. FreeVdbe \in Vdbe
    BY RowsAssumption, ChangesAssumption DEF Vdbe, FreeVdbe
  <1>2. \A counts \in BOOLEAN : Prepared(counts) \in Vdbe
    BY <1>1 DEF Vdbe, Prepared
  <1>3. \A v \in Vdbe : Started(v) \in Vdbe
    BY DEF Vdbe, Started
  <1>4. ASSUME NEW v \in Vdbe, v.row < MaxRows
        PROVE  WithRow(v) \in Vdbe
    <2>1. v.row + 1 \in 0..MaxRows
      BY <1>4, RowsAssumption DEF Vdbe
    <2> QED BY <2>1 DEF Vdbe, WithRow
  <1>5. ASSUME NEW v \in Vdbe, NEW n \in 0..MaxChanges
        PROVE  Halted(v, n) \in Vdbe
    <2>1. 0 \in 0..MaxRows
      BY RowsAssumption
    <2> QED BY <2>1 DEF Vdbe, Halted
  <1> QED BY <1>1, <1>2, <1>3, <1>4, <1>5

LEMMA StmtFields ==
    /\ FreeVdbe.state = "free" /\ FreeVdbe.result = 0
    /\ \A counts \in BOOLEAN :
        /\ Prepared(counts).state = "ready" /\ Prepared(counts).result = 0
        /\ Started(Prepared(counts)).state = "run"
        /\ Started(Prepared(counts)).result = 0
    /\ \A v \in Vdbe :
        /\ WithRow(v).state = v.state
        /\ WithRow(v).row = v.row + 1
        /\ WithRow(v).result = v.row + 1
    /\ \A v \in Vdbe, n \in 0..MaxChanges :
        /\ Halted(v, n).state = "halt"
        /\ Halted(v, n).result = 0
  <1>1. FreeVdbe.state = "free" /\ FreeVdbe.result = 0
    BY DEF FreeVdbe
  <1>2. \A v \in Vdbe, counts \in BOOLEAN :
          /\ [v EXCEPT !.state = "ready", !.counts = counts].state = "ready"
          /\ [v EXCEPT !.state = "ready", !.counts = counts].result = v.result
    BY DEF Vdbe
  <1>3. \A counts \in BOOLEAN :
          Prepared(counts).state = "ready" /\ Prepared(counts).result = 0
    BY <1>1, <1>2, StmtRecords DEF Prepared
  <1>4. \A v \in Vdbe : Started(v).state = "run" /\ Started(v).result = v.result
    BY DEF Vdbe, Started
  <1>5. \A v \in Vdbe :
          /\ WithRow(v).state = v.state
          /\ WithRow(v).row = v.row + 1
          /\ WithRow(v).result = v.row + 1
    BY DEF Vdbe, WithRow
  <1>6. \A v \in Vdbe, n \in 0..MaxChanges :
          Halted(v, n).state = "halt" /\ Halted(v, n).result = 0
    BY DEF Vdbe, Halted
  <1> QED BY <1>1, <1>3, <1>4, <1>5, <1>6, StmtRecords

LEMMA ChangesTyped ==
    ASSUME NEW v, NEW n \in ChangesOf(v), NEW before \in 0..MaxChanges
    PROVE  n \in 0..MaxChanges /\ ChangesAfterHalt(v, n, before) \in 0..MaxChanges
  BY ChangesAssumption DEF ChangesOf, ChangesAfterHalt

LEMMA ClosedTyped ==
    ASSUME TypeOK, NEW c \in Cursors
    PROVE  /\ ClosedVdbe(c) \in [Stmts -> Vdbe]
           /\ ClosedRc(c) \in Codes
           /\ ClosedRowcount(c) \in Int
           /\ \A n \in ClosedChanges(c) : n \in 0..MaxChanges
  <1>1. ClosedVdbe(c) \in [Stmts -> Vdbe]
    BY StmtRecords DEF TypeOK, ClosedVdbe
  <1>2. ClosedRc(c) \in Codes /\ ClosedRowcount(c) \in Int
    BY DEF TypeOK, ClosedRc, ClosedRowcount, Codes
  <1>3. \A n \in ClosedChanges(c) : n \in 0..MaxChanges
    BY ChangesAssumption DEF TypeOK, ClosedChanges
  <1> QED BY <1>1, <1>2, <1>3

LEMMA MakeNewTyped ==
    ASSUME TypeOK, NEW c \in Cursors, MakeNew(c)
    PROVE  obj' \in [Cursors -> {"none", "live", "freed"}] /\ registered' \subseteq Cursors
  BY DEF TypeOK, MakeNew

LEMMA CalleeTyped ==
    ASSUME TypeOK, NEW c \in Cursors, Callee(c)
    PROVE  obj' \in [Cursors -> {"none", "live", "freed"}] /\ registered' \subseteq Cursors
  BY MakeNewTyped DEF TypeOK, Callee, Existing

LEMMA NoRowsTyped ==
    ASSUME TypeOK, NEW c \in Cursors, NoRows(c)
    PROVE  delivered' \in [Cursors -> Seq(Row)]
  <1>1. <<>> \in Seq(Row)
    BY EmptySeq
  <1> QED BY <1>1 DEF TypeOK, NoRows

\* What StepRow and StepHalts change keeps its type.
LEMMA RowTyped ==
    ASSUME TypeOK, NEW c \in Cursors, StepRow(c)
    PROVE  /\ vdbe' \in [Stmts -> Vdbe]
           /\ rc' \in [Cursors -> Codes]
           /\ rowcount' \in [Cursors -> Int]
           /\ nChange' \in 0..MaxChanges
  <1>1. stmt[c] \in Stmts => WithRow(vdbe[stmt[c]]) \in Vdbe
    BY StmtRecords DEF TypeOK, StepRow
  <1>2. vdbe' = [vdbe EXCEPT ![stmt[c]] = WithRow(vdbe[stmt[c]])]
    BY DEF StepRow
  <1>3. vdbe' \in [Stmts -> Vdbe]
    BY <1>1, <1>2 DEF TypeOK
  <1>4. rc' \in [Cursors -> Codes] /\ rowcount' \in [Cursors -> Int]
    BY DEF TypeOK, StepRow, Codes
  <1> QED BY <1>3, <1>4 DEF TypeOK, StepRow

LEMMA HaltTyped ==
    ASSUME TypeOK, NEW c \in Cursors, NEW code \in Codes, StepHalts(c, code)
    PROVE  /\ vdbe' \in [Stmts -> Vdbe]
           /\ rc' \in [Cursors -> Codes]
           /\ nChange' \in 0..MaxChanges
  <1>1. PICK n \in ChangesOf(vdbe[stmt[c]]) :
          /\ vdbe' = [vdbe EXCEPT ![stmt[c]] = Halted(vdbe[stmt[c]], n)]
          /\ nChange' = ChangesAfterHalt(vdbe[stmt[c]], n, nChange)
          /\ rc' = [rc EXCEPT ![c] = code]
    BY DEF StepHalts
  <1>2. n \in 0..MaxChanges /\ nChange' \in 0..MaxChanges
    BY <1>1, ChangesTyped DEF TypeOK
  <1>3. stmt[c] \in Stmts => Halted(vdbe[stmt[c]], n) \in Vdbe
    BY <1>2, StmtRecords DEF TypeOK
  <1> QED BY <1>1, <1>2, <1>3 DEF TypeOK

LEMMA FramesTyped ==
    /\ \A c \in Cursors, s \in Stmts :
         [op |-> "execute", cur |-> c, stmt |-> s, phase |-> StepPhase,
          left |-> 0, size |-> 0, rows |-> <<>>] \in Frame
    /\ \A c \in Cursors :
         [op |-> "executemany", cur |-> c, stmt |-> NoStmt, phase |-> "next",
          left |-> MaxScript, size |-> 0, rows |-> <<>>] \in Frame
    /\ \A c \in Cursors, n \in Int, r \in Row :
         [op |-> "fetchmany", cur |-> c, stmt |-> NoStmt, phase |-> "loop",
          left |-> 0, size |-> n, rows |-> <<r>>] \in Frame
  <1>1. /\ StepPhase \in {"trace", "run"}
        /\ 0 \in 0..MaxScript /\ MaxScript \in 0..MaxScript
        /\ <<>> \in Seq(Row)
        /\ \A r \in Row : <<r>> \in Seq(Row)
    BY BoundsAssumption, EmptySeq DEF StepPhase
  <1> QED BY <1>1 DEF Frame

\* A cursor whose rc is ROW has a statement and a row to build.
LEMMA RowToBuild ==
    ASSUME TypeOK, RcTellsTheTruth, NEW c \in Cursors, rc[c] = "ROW"
    PROVE  /\ stmt[c] \in Stmts
           /\ BuiltRow(c) \in Row
           /\ vdbe[stmt[c]].state = "run"
  <1>1. stmt[c] \in Stmts
    BY DEF TypeOK, RcTellsTheTruth
  <1>2. vdbe[stmt[c]] \in Vdbe /\ stmt[c] # NoStmt
    BY <1>1, StmtAssumption DEF TypeOK
  <1>3. BuiltRow(c) \in Row
    BY <1>2 DEF BuiltRow, Row, Vdbe
  <1> QED BY <1>1, <1>2, <1>3 DEF RcTellsTheTruth

LEMMA DeliverTyped ==
    ASSUME TypeOK, NEW c \in Cursors, NEW r \in Row
    PROVE  [delivered EXCEPT ![c] = Append(@, r)] \in [Cursors -> Seq(Row)]
  <1>1. Append(delivered[c], r) \in Seq(Row)
    BY AppendProperties DEF TypeOK
  <1> QED BY <1>1 DEF TypeOK

LEMMA TypeExecute ==
    ASSUME TypeOK, NEW c \in Cursors,
           \/ Rejected(c) \/ ExecuteBlank(c) \/ ExecuteUnbound(c)
           \/ ExecuteBegins(c) \/ ManyBegins(c) \/ CloseCursor(c) \/ DelCursor(c)
    PROVE  TypeOK'
  <1> USE DEF Codes
  <1>1. CASE Rejected(c)
    BY <1>1, CalleeTyped, ClosedTyped, NoRowsTyped DEF TypeOK, Rejected
  <1>2. CASE ExecuteBlank(c)
    BY <1>2, CalleeTyped, ClosedTyped, NoRowsTyped DEF TypeOK, ExecuteBlank
  <1>3. CASE ExecuteUnbound(c)
    <2>1. PICK s \in Stmts, counts \in BOOLEAN :
            /\ vdbe' = [ClosedVdbe(c) EXCEPT ![s] = Prepared(counts)]
            /\ stmt' = [stmt EXCEPT ![c] = s]
      BY <1>3 DEF ExecuteUnbound, Fresh
    <2>2. vdbe' \in [Stmts -> Vdbe] /\ stmt' \in [Cursors -> Stmts \cup {NoStmt}]
      BY <2>1, ClosedTyped, StmtRecords DEF TypeOK
    <2> QED BY <1>3, <2>2, CalleeTyped, ClosedTyped, NoRowsTyped DEF TypeOK, ExecuteUnbound
  <1>4. CASE ExecuteBegins(c)
    <2>1. PICK s \in Stmts, counts \in BOOLEAN :
            /\ vdbe' = [ClosedVdbe(c) EXCEPT ![s] = Started(Prepared(counts))]
            /\ stmt' = [stmt EXCEPT ![c] = s]
            /\ Push([op |-> "execute", cur |-> c, stmt |-> s, phase |-> StepPhase,
                     left |-> 0, size |-> 0, rows |-> <<>>])
      BY <1>4 DEF ExecuteBegins, Fresh
    <2>2. vdbe' \in [Stmts -> Vdbe] /\ stmt' \in [Cursors -> Stmts \cup {NoStmt}]
      BY <2>1, ClosedTyped, StmtRecords DEF TypeOK
    <2>3. stack' \in Seq(Frame)
      BY <2>1, FramesTyped, PushFacts DEF TypeOK
    <2> QED BY <1>4, <2>2, <2>3, CalleeTyped, ClosedTyped, NoRowsTyped DEF TypeOK, ExecuteBegins
  <1>5. CASE ManyBegins(c)
    <2>1. stack' \in Seq(Frame)
      BY <1>5, FramesTyped, PushFacts DEF TypeOK, ManyBegins
    <2> QED BY <1>5, <2>1, CalleeTyped, ClosedTyped, NoRowsTyped DEF TypeOK, ManyBegins
  <1>6. CASE CloseCursor(c)
    BY <1>6, ClosedTyped, NoRowsTyped DEF TypeOK, CloseCursor, Existing
  <1>7. CASE DelCursor(c)
    BY <1>7, ClosedTyped, NoRowsTyped DEF TypeOK, DelCursor
  <1> QED BY <1>1, <1>2, <1>3, <1>4, <1>5, <1>6, <1>7

LEMMA TypeCall ==
    ASSUME TypeOK,
           \/ ExecuteRow \/ ExecuteDone \/ ExecuteFails
           \/ ManyPrepares \/ ManyStmtDone \/ ManyFails \/ ManyRejects \/ ManyReturns
           \/ TraceReturns \/ TraceReturnsToFreed \/ Unwinds
    PROVE  TypeOK'
  <1> USE DEF connVars, objVars, curVars, sqlVars
  <1>0. stack # <<>> /\ Top \in Frame /\ Top.cur \in Cursors
    BY TopFacts DEF TypeOK, ExecuteRow, ExecuteDone, ExecuteFails, ManyPrepares,
                    ManyStmtDone, ManyFails, ManyRejects, ManyReturns, TraceReturns,
                    TraceReturnsToFreed, Unwinds, InCall, Frame
  <1>p. ASSUME Pop PROVE stack' \in Seq(Frame)
    BY <1>0, <1>p, PopFacts DEF TypeOK
  <1>m. ASSUME ManyFinalizes
        PROVE  /\ vdbe' \in [Stmts -> Vdbe] /\ nChange' \in 0..MaxChanges
               /\ nVdbeExec' \in Int
    <2>0. vdbe' = [vdbe EXCEPT ![Top.stmt] = FreeVdbe] /\ nVdbeExec' = nVdbeExec - 1
      BY <1>m DEF ManyFinalizes
    <2>1. vdbe' \in [Stmts -> Vdbe]
      BY <2>0, StmtRecords DEF TypeOK
    <2>4. nVdbeExec' \in Int
      BY <2>0 DEF TypeOK
    <2>2. PICK n \in ChangesOf(vdbe[Top.stmt]) :
            nChange' = ChangesAfterHalt(vdbe[Top.stmt], n, nChange)
      BY <1>m DEF ManyFinalizes
    <2>3. nChange' \in 0..MaxChanges
      BY <2>2, ChangesTyped DEF TypeOK
    <2> QED BY <2>1, <2>3, <2>4
  <1>1. CASE ExecuteRow
    <2>1. StepRow(Top.cur) /\ Pop
      BY <1>1 DEF ExecuteRow
    <2>2. /\ vdbe' \in [Stmts -> Vdbe]
          /\ rc' \in [Cursors -> Codes]
          /\ rowcount' \in [Cursors -> Int]
          /\ nChange' \in 0..MaxChanges
          /\ stack' \in Seq(Frame)
      BY <1>0, <1>p, <2>1, RowTyped
    <2>3. held' \subseteq Cursors /\ nVdbeExec' \in Int
      BY <1>0, <1>1 DEF TypeOK, ExecuteRow
    <2> QED BY <1>1, <2>2, <2>3 DEF TypeOK, ExecuteRow
  <1>2. CASE ExecuteDone
    <2>1. /\ vdbe' \in [Stmts -> Vdbe] /\ rc' \in [Cursors -> Codes]
          /\ nChange' \in 0..MaxChanges
      BY <1>0, <1>2, HaltTyped DEF ExecuteDone, Codes
    <2>2. rowcount' \in [Cursors -> Int]
      <3>1. ReportedChanges \in Int
        BY <2>1, ChangesAssumption DEF ReportedChanges
      <3>2. rowcount' = [rowcount EXCEPT ![Top.cur] = ReportedChanges]
        BY <1>2 DEF ExecuteDone
      <3> QED BY <3>1, <3>2 DEF TypeOK
    <2>3. held' \subseteq Cursors /\ nVdbeExec' \in Int
      BY <1>0, <1>2 DEF TypeOK, ExecuteDone
    <2>4. stack' \in Seq(Frame)
      BY <1>2, <1>p DEF ExecuteDone
    <2> QED BY <1>2, <2>1, <2>2, <2>3, <2>4 DEF TypeOK, ExecuteDone
  <1>3. CASE ExecuteFails
    <2>1. /\ vdbe' \in [Stmts -> Vdbe] /\ rc' \in [Cursors -> Codes]
          /\ nChange' \in 0..MaxChanges
      BY <1>0, <1>3, HaltTyped DEF ExecuteFails, StepError, Codes
    <2>2. stack' \in Seq(Frame) /\ nVdbeExec' \in Int
      BY <1>3, <1>p DEF TypeOK, ExecuteFails
    <2> QED BY <1>3, <2>1, <2>2 DEF TypeOK, ExecuteFails, StepError
  <1>4. CASE ManyPrepares
    <2>1. PICK s \in Stmts, counts \in BOOLEAN :
            /\ vdbe' = [vdbe EXCEPT ![s] = Started(Prepared(counts))]
            /\ SetTop([Top EXCEPT !.stmt = s, !.phase = StepPhase, !.left = @ - 1])
      BY <1>4 DEF ManyPrepares, Fresh
    <2>2. vdbe' \in [Stmts -> Vdbe]
      BY <2>1, StmtRecords DEF TypeOK
    <2>a. Top.left > 0 /\ Top.left \in 0..MaxScript
      BY <1>0, <1>4 DEF ManyPrepares, Frame
    <2>3. Top.left - 1 \in 0..MaxScript /\ StepPhase \in {"trace", "run"}
      BY <2>a, BoundsAssumption DEF StepPhase
    <2>4. [Top EXCEPT !.stmt = s, !.phase = StepPhase, !.left = @ - 1] \in Frame
      BY <1>0, <2>3 DEF Frame
    <2>5. stack' \in Seq(Frame)
      BY <1>0, <2>1, <2>4, SetTopFacts DEF TypeOK
    <2>6. nVdbeExec' \in Int
      <3>1. nVdbeExec' = nVdbeExec + 1
        BY <1>4 DEF ManyPrepares
      <3> QED BY <3>1 DEF TypeOK
    <2>7. UNCHANGED <<connVars, objVars, curVars, sqliteDb, nChange, delivered, fault>>
      BY <1>4 DEF ManyPrepares
    <2> QED BY <2>2, <2>5, <2>6, <2>7 DEF TypeOK
  <1>5. CASE ManyStmtDone
    <2>1. [Top EXCEPT !.stmt = NoStmt, !.phase = "next"] \in Frame
      BY <1>0 DEF Frame
    <2>2. stack' \in Seq(Frame)
      BY <1>0, <1>5, <2>1, SetTopFacts DEF TypeOK, ManyStmtDone
    <2> QED BY <1>5, <1>m, <2>2 DEF TypeOK, ManyStmtDone
  <1>6. CASE ManyFails
    BY <1>6, <1>p, <1>m DEF TypeOK, ManyFails
  <1>7. CASE ManyRejects
    BY <1>7, <1>p DEF TypeOK, ManyRejects
  <1>8. CASE ManyReturns
    BY <1>0, <1>8, <1>p DEF TypeOK, ManyReturns
  <1>9. CASE TraceReturns
    <2>1. [Top EXCEPT !.phase = "run"] \in Frame
      BY <1>0 DEF Frame
    <2>2. stack' \in Seq(Frame)
      BY <1>0, <1>9, <2>1, SetTopFacts DEF TypeOK, TraceReturns
    <2> QED BY <1>9, <2>2 DEF TypeOK, TraceReturns
  <1>10. CASE TraceReturnsToFreed
    BY <1>10 DEF TypeOK, TraceReturnsToFreed
  <1>11. CASE Unwinds
    BY <1>11, <1>p DEF TypeOK, Unwinds
  <1> QED BY <1>1, <1>2, <1>3, <1>4, <1>5, <1>6, <1>7, <1>8, <1>9, <1>10, <1>11

LEMMA TypeFetch ==
    ASSUME TypeOK, RcTellsTheTruth,
           \/ \E c \in Cursors : FetchOne(c) \/ IterNext(c) \/ FetchAll(c)
           \/ \E c \in Cursors : \E n \in Sizes \cup {arraysize[c]} : FetchMany(c, n)
           \/ FetchLoop \/ FetchReturns \/ FetchNoMem
    PROVE  TypeOK'
  <1> USE DEF connVars, objVars, curVars, sqlVars
  <1>s. ASSUME NEW c \in Cursors, StepRow(c) \/ StepDone(c) \/ StepError(c)
        PROVE  /\ vdbe' \in [Stmts -> Vdbe]
               /\ rc' \in [Cursors -> Codes]
               /\ rowcount' \in [Cursors -> Int]
               /\ nChange' \in 0..MaxChanges
    <2>1. CASE StepRow(c)
      BY <2>1, RowTyped
    <2>2. CASE StepDone(c) \/ StepError(c)
      <3>1. PICK code \in Codes : StepHalts(c, code) /\ UNCHANGED rowcount
        BY <2>2 DEF StepDone, StepError, Codes
      <3>2. /\ vdbe' \in [Stmts -> Vdbe]
            /\ rc' \in [Cursors -> Codes]
            /\ nChange' \in 0..MaxChanges
        BY <3>1, HaltTyped
      <3> QED BY <3>1, <3>2 DEF TypeOK
    <2> QED BY <1>s, <2>1, <2>2
  <1>1. ASSUME NEW c \in Cursors, HasRow(c), ReturnsOneRow(c)
        PROVE  TypeOK'
    <2>1. BuiltRow(c) \in Row
      BY <1>1, RowToBuild DEF HasRow
    <2>2. delivered' \in [Cursors -> Seq(Row)]
      <3>1. \/ delivered' = [delivered EXCEPT ![c] = Append(@, BuiltRow(c))]
            \/ UNCHANGED delivered
        BY <1>1 DEF ReturnsOneRow
      <3>2. [delivered EXCEPT ![c] = Append(@, BuiltRow(c))] \in [Cursors -> Seq(Row)]
        BY <2>1, DeliverTyped
      <3> QED BY <3>1, <3>2 DEF TypeOK
    <2>3. /\ StepRow(c) \/ StepDone(c) \/ StepError(c)
          /\ UNCHANGED <<connVars, objVars, stmt, arraysize, sqliteDb, nVdbeExec, stack, fault>>
      BY <1>1 DEF ReturnsOneRow
    <2> QED BY <1>s, <2>2, <2>3 DEF TypeOK
  <1>2. ASSUME NEW c \in Cursors, NEW n \in Int, FetchMany(c, n)
        PROVE  TypeOK'
    <2>1. BuiltRow(c) \in Row
      BY <1>2, RowToBuild DEF FetchMany, HasRow
    <2>2. delivered' \in [Cursors -> Seq(Row)]
      <3>1. \/ delivered' = [delivered EXCEPT ![c] = Append(@, BuiltRow(c))]
            \/ UNCHANGED delivered
        BY <1>2 DEF FetchMany
      <3>2. [delivered EXCEPT ![c] = Append(@, BuiltRow(c))] \in [Cursors -> Seq(Row)]
        BY <2>1, DeliverTyped
      <3> QED BY <3>1, <3>2 DEF TypeOK
    <2>3. stack' \in Seq(Frame)
      <3>1. \/ UNCHANGED stack
            \/ Push([op |-> "fetchmany", cur |-> c, stmt |-> NoStmt, phase |-> "loop",
                     left |-> 0, size |-> n, rows |-> <<BuiltRow(c)>>])
        BY <1>2 DEF FetchMany
      <3> QED BY <2>1, <3>1, FramesTyped, PushFacts DEF TypeOK
    <2>4. /\ StepRow(c) \/ StepDone(c) \/ StepError(c)
          /\ UNCHANGED <<connVars, objVars, stmt, arraysize, sqliteDb, nVdbeExec, fault>>
      BY <1>2 DEF FetchMany
    <2> QED BY <1>s, <2>2, <2>3, <2>4 DEF TypeOK
  <1>3. CASE FetchLoop
    <2>1. /\ stack # <<>> /\ Top \in Frame /\ Top.cur \in Cursors
          /\ Top.rows \in Seq(Row)
      BY <1>3, TopFacts DEF TypeOK, FetchLoop, InCall, Frame
    <2>2. BuiltRow(Top.cur) \in Row
      BY <1>3, <2>1, RowToBuild DEF FetchLoop, FetchMore
    <2>3. [Top EXCEPT !.rows = Append(@, BuiltRow(Top.cur))] \in Frame
      <3>1. Append(Top.rows, BuiltRow(Top.cur)) \in Seq(Row)
        BY <2>1, <2>2, AppendProperties
      <3> QED BY <2>1, <3>1 DEF Frame
    <2>4. stack' \in Seq(Frame)
      <3>1. \/ SetTop([Top EXCEPT !.rows = Append(@, BuiltRow(Top.cur))])
            \/ Pop
        BY <1>3 DEF FetchLoop
      <3> QED BY <2>1, <2>3, <3>1, SetTopFacts, PopFacts DEF TypeOK
    <2>5. /\ StepRow(Top.cur) \/ StepDone(Top.cur) \/ StepError(Top.cur)
          /\ UNCHANGED <<connVars, objVars, stmt, arraysize, sqliteDb, nVdbeExec, delivered, fault>>
      BY <1>3 DEF FetchLoop
    <2> QED BY <1>s, <2>1, <2>4, <2>5 DEF TypeOK
  <1>4. CASE FetchReturns
    <2>1. /\ stack # <<>> /\ Top \in Frame /\ Top.cur \in Cursors
          /\ Top.rows \in Seq(Row)
      BY <1>4, TopFacts DEF TypeOK, FetchReturns, InCall, Frame
    <2>2. delivered' \in [Cursors -> Seq(Row)]
      <3>1. delivered[Top.cur] \o Top.rows \in Seq(Row)
        BY <2>1, ConcatProperties DEF TypeOK
      <3> QED BY <1>4, <3>1 DEF TypeOK, FetchReturns
    <2> QED BY <1>4, <2>1, <2>2, PopFacts DEF TypeOK, FetchReturns
  <1>5. CASE FetchNoMem
    BY <1>5, PopFacts DEF TypeOK, FetchNoMem, InCall
  <1>6. \A c \in Cursors : arraysize[c] \in Int
    BY DEF TypeOK
  <1> QED
    BY <1>1, <1>2, <1>3, <1>4, <1>5, <1>6, SizesAssumption DEF FetchOne, IterNext, FetchAll

LEMMA TypeConnection ==
    ASSUME TypeOK,
           \/ \E c \in Cursors : NewCursor(c) \/ UsesFreedCursor(c)
           \/ \E c \in Cursors, n \in Sizes : SetArraysize(c, n)
           \/ \E on \in BOOLEAN : SetTraceCallback(on)
           \/ CloseConnection \/ UsesNullDb \/ Terminated
    PROVE  TypeOK'
  <1> USE DEF connVars, objVars, curVars, sqlVars
  <1>1. ASSUME NEW c \in Cursors, NewCursor(c) PROVE TypeOK'
    BY <1>1, MakeNewTyped DEF TypeOK, NewCursor
  <1>2. ASSUME NEW c \in Cursors, UsesFreedCursor(c) PROVE TypeOK'
    BY <1>2 DEF TypeOK, UsesFreedCursor
  <1>3. ASSUME NEW c \in Cursors, NEW n \in Sizes, SetArraysize(c, n) PROVE TypeOK'
    BY <1>3, SizesAssumption DEF TypeOK, SetArraysize
  <1>4. ASSUME NEW on \in BOOLEAN, SetTraceCallback(on) PROVE TypeOK'
    BY <1>4 DEF TypeOK, SetTraceCallback
  <1>5. CASE CloseConnection
    <2>1. vdbe' \in [Stmts -> Vdbe]
      BY <1>5, StmtRecords DEF TypeOK, CloseConnection
    <2>2. rc' \in [Cursors -> Codes] /\ rowcount' \in [Cursors -> Int]
      BY <1>5 DEF TypeOK, CloseConnection, Codes
    <2>3. /\ stmt' \in [Cursors -> Stmts \cup {NoStmt}]
          /\ obj' \in [Cursors -> {"none", "live", "freed"}]
          /\ sqliteDb' \in {"open", "closed"} /\ db' = "NULL"
      BY <1>5 DEF TypeOK, CloseConnection
    <2>4. delivered' \in [Cursors -> Seq(Row)]
      BY <1>5, EmptySeq DEF TypeOK, CloseConnection
    <2>5. UNCHANGED <<registered, tracing, held, arraysize, nChange, nVdbeExec, stack, fault>>
      BY <1>5 DEF CloseConnection
    <2> QED BY <2>1, <2>2, <2>3, <2>4, <2>5 DEF TypeOK
  <1>6. CASE UsesNullDb
    BY <1>6 DEF TypeOK, UsesNullDb
  <1>7. CASE Terminated
    BY <1>7 DEF TypeOK, Terminated, vars
  <1> QED BY <1>1, <1>2, <1>3, <1>4, <1>5, <1>6, <1>7

LEMMA TypeStep ==
    ASSUME TypeOK, RcTellsTheTruth, [Next]_vars
    PROVE  TypeOK'
  <1>1. CASE UNCHANGED vars
    BY <1>1 DEF TypeOK, vars, connVars, objVars, curVars, sqlVars
  <1>2. CASE Next
    BY <1>2, TypeExecute, TypeCall, TypeFetch, TypeConnection
       DEF Next, ProgramStep, CallStep, CallbackStep, ConnectionStep
  <1> QED BY <1>1, <1>2

-----------------------------------------------------------------------------
(* The inductive invariant.                                                *)

Inv == TypeOK /\ FrameShape /\ FrameStmts /\ CursorStmts /\ RcTellsTheTruth

\* When the program runs, every call on the stack waits for its callback.
LEMMA AllWait ==
    ASSUME TypeOK, FrameShape, ProgramTurn
    PROVE  \A i \in DOMAIN stack : stack[i].phase = "trace"
  <1>1. CASE stack = <<>>
    BY <1>1
  <1>2. CASE stack # <<>>
    <2>1. Top = stack[Len(stack)] /\ Top.phase = "trace"
      BY <1>2, TopFacts DEF TypeOK, ProgramTurn
    <2> QED BY <2>1 DEF FrameShape
  <1> QED BY <1>1, <1>2

LEMMA ShapePush ==
    ASSUME TypeOK, FrameShape, ProgramTurn, NEW f \in Frame, Shaped(f), Push(f)
    PROVE  FrameShape'
  <1>1. /\ Len(stack') = Len(stack) + 1
        /\ DOMAIN stack' = 1..(Len(stack) + 1)
        /\ DOMAIN stack = 1..Len(stack)
        /\ stack'[Len(stack) + 1] = f
        /\ \A i \in 1..Len(stack) : stack'[i] = stack[i]
        /\ Len(stack) \in Nat
    BY PushFacts, LenProperties DEF TypeOK
  <1>2. \A i \in 1..Len(stack) : Shaped(stack[i]) /\ stack[i].phase = "trace"
    BY <1>1, AllWait DEF FrameShape
  <1>3. \A i \in 1..(Len(stack) + 1) : i \in 1..Len(stack) \/ i = Len(stack) + 1
    BY <1>1
  <1> QED BY <1>1, <1>2, <1>3 DEF FrameShape

LEMMA ShapePop ==
    ASSUME TypeOK, FrameShape, stack # <<>>, Pop
    PROVE  FrameShape'
  <1>1. /\ Len(stack') = Len(stack) - 1
        /\ DOMAIN stack' = 1..(Len(stack) - 1)
        /\ DOMAIN stack = 1..Len(stack)
        /\ \A i \in 1..(Len(stack) - 1) : stack'[i] = stack[i]
        /\ Len(stack) \in Nat
    BY PopFacts, LenProperties DEF TypeOK
  <1>2. \A i \in 1..(Len(stack) - 1) : i \in 1..Len(stack) /\ i # Len(stack)
    BY <1>1
  <1> QED BY <1>1, <1>2 DEF FrameShape

LEMMA ShapeSetTop ==
    ASSUME TypeOK, FrameShape, stack # <<>>, NEW f \in Frame, Shaped(f), SetTop(f)
    PROVE  FrameShape'
  <1>1. /\ Len(stack') = Len(stack)
        /\ DOMAIN stack' = 1..Len(stack)
        /\ DOMAIN stack = 1..Len(stack)
        /\ stack'[Len(stack)] = f
        /\ \A i \in 1..(Len(stack) - 1) : stack'[i] = stack[i]
        /\ Len(stack) \in Nat
    BY SetTopFacts, LenProperties DEF TypeOK
  <1>2. ASSUME NEW n \in Nat
        PROVE  \A i \in 1..n : i # n => i \in 1..(n - 1)
    OBVIOUS
  <1>3. \A i \in 1..Len(stack) : i # Len(stack) => i \in 1..(Len(stack) - 1)
    BY <1>1, <1>2
  <1> QED BY <1>1, <1>3 DEF FrameShape

\* c gives up its statement (usqlite_cursor_close).
LEMMA ClosedStmts ==
    ASSUME Inv, ProgramTurn, NEW c \in Cursors, NEW code \in {"OK", "MISUSE"},
           vdbe' = ClosedVdbe(c),
           stmt' = [stmt EXCEPT ![c] = NoStmt],
           rc' = [rc EXCEPT ![c] = code],
           \/ UNCHANGED stack
           \/ \E f \in Frame : f.stmt = NoStmt /\ Push(f)
    PROVE  FrameStmts' /\ CursorStmts' /\ RcTellsTheTruth'
  <1> USE StmtAssumption DEF Inv
  <1>1. /\ \A s \in Stmts : s # stmt[c] => vdbe'[s] = vdbe[s]
        /\ stmt[c] # NoStmt => stmt[c] \in Stmts /\ vdbe'[stmt[c]] = FreeVdbe
        /\ FreeVdbe.state = "free" /\ FreeVdbe.result = 0
    BY StmtFields DEF TypeOK, ClosedVdbe
  <1>2. /\ stmt'[c] = NoStmt
        /\ \A d \in Cursors \ {c} : stmt'[d] = stmt[d] /\ rc'[d] = rc[d]
        /\ rc'[c] = code
        /\ \A d \in Cursors : stmt[d] \in Stmts \cup {NoStmt}
    BY DEF TypeOK
  <1>3. CursorStmts'
    BY <1>1, <1>2 DEF CursorStmts
  <1>4. RcTellsTheTruth'
    <2> SUFFICES ASSUME NEW d \in Cursors
                 PROVE  IF stmt'[d] = NoStmt THEN rc'[d] \in {"OK", "MISUSE"}
                        ELSE LET v == vdbe'[stmt'[d]] IN
                             /\ rc'[d] = "ROW" <=> v.result # 0
                             /\ rc'[d] = "ROW" => v.state = "run" /\ v.result = v.row
                             /\ rc'[d] \in {"DONE", "ERROR"} => v.state = "halt"
      BY DEF RcTellsTheTruth
    <2>1. CASE d = c
      BY <1>2, <2>1
    <2>2. CASE d # c
      <3>1. stmt'[d] = stmt[d] /\ rc'[d] = rc[d]
        BY <1>2, <2>2
      <3>2. stmt[d] # NoStmt => vdbe'[stmt[d]] = vdbe[stmt[d]]
        BY <1>1, <1>2, <2>2 DEF CursorStmts
      <3> QED BY <3>1, <3>2 DEF RcTellsTheTruth
    <2> QED BY <2>1, <2>2
  <1>5. /\ DOMAIN stack = 1..Len(stack) /\ Len(stack) \in Nat
        /\ \A i \in DOMAIN stack : stack[i] \in Frame /\ stack[i].phase = "trace"
    BY AllWait, LenProperties DEF TypeOK
  <1>6. /\ \A i \in DOMAIN stack' : stack'[i].stmt # NoStmt =>
             i \in DOMAIN stack /\ stack'[i] = stack[i]
    <2>1. CASE UNCHANGED stack
      BY <2>1
    <2>2. CASE \E f \in Frame : f.stmt = NoStmt /\ Push(f)
      BY <1>5, <2>2, PushFacts DEF TypeOK
    <2> QED BY <2>1, <2>2
  <1>7. FrameStmts'
    <2> SUFFICES ASSUME NEW i \in DOMAIN stack', stack'[i].stmt # NoStmt
                 PROVE  /\ \A j \in DOMAIN stack' \ {i} : stack'[j].stmt # stack'[i].stmt
                        /\ Agrees(stack'[i], vdbe', stmt')
      BY DEF FrameStmts
    <2>1. i \in DOMAIN stack /\ stack'[i] = stack[i] /\ stack[i].stmt # NoStmt
          /\ stack[i].stmt \in Stmts /\ stack[i].cur \in Cursors
      BY <1>5, <1>6 DEF Frame
    <2>2. \A j \in DOMAIN stack' \ {i} : stack'[j].stmt # stack'[i].stmt
      BY <1>6, <2>1 DEF FrameStmts
    <2>3. Agrees(stack[i], vdbe, stmt)
      BY <2>1 DEF FrameStmts
    <2>4. Agrees(stack[i], vdbe', stmt')
      BY <1>1, <1>2, <1>5, <2>1, <2>3 DEF Agrees
    <2> QED BY <2>1, <2>2, <2>4
  <1> QED BY <1>3, <1>4, <1>7

\* c gives up its statement and takes the fresh statement s
\* (usqlite_cursor_execute).
LEMMA OpenedStmts ==
    ASSUME Inv, ProgramTurn, NEW c \in Cursors, NEW s \in Fresh(ClosedVdbe(c)),
           NEW v \in Vdbe, v.result = 0, v.state \in {"ready", "run"},
           vdbe' = [ClosedVdbe(c) EXCEPT ![s] = v],
           stmt' = [stmt EXCEPT ![c] = s],
           rc' = [rc EXCEPT ![c] = ClosedRc(c)],
           \/ UNCHANGED stack
           \/ /\ v.state = "run"
              /\ \E f \in Frame : f.op = "execute" /\ f.cur = c /\ f.stmt = s /\ Push(f)
    PROVE  FrameStmts' /\ CursorStmts' /\ RcTellsTheTruth'
  <1> USE StmtAssumption DEF Inv
  <1>0. /\ s \in Stmts /\ ClosedVdbe(c)[s].state = "free"
        /\ \A i \in DOMAIN stack : stack[i].stmt # s
        /\ s # NoStmt
    BY DEF Fresh
  <1>a. /\ ClosedVdbe(c) \in [Stmts -> Vdbe]
        /\ \A t \in Stmts : t # stmt[c] => ClosedVdbe(c)[t] = vdbe[t]
        /\ stmt[c] # NoStmt => stmt[c] \in Stmts /\ ClosedVdbe(c)[stmt[c]] = FreeVdbe
    BY ClosedTyped DEF TypeOK, ClosedVdbe
  <1>1. /\ \A t \in Stmts : t # stmt[c] /\ t # s => vdbe'[t] = vdbe[t]
        /\ stmt[c] # NoStmt /\ stmt[c] # s => vdbe'[stmt[c]] = FreeVdbe
        /\ vdbe'[s] = v
        /\ FreeVdbe.state = "free" /\ FreeVdbe.result = 0
    BY <1>0, <1>a, StmtFields
  <1>b. s # stmt[c] => vdbe[s].state = "free"
    BY <1>0, <1>a
  <1>2. /\ stmt'[c] = s
        /\ \A d \in Cursors \ {c} : stmt'[d] = stmt[d] /\ rc'[d] = rc[d]
        /\ rc'[c] \in {"OK", "MISUSE"}
        /\ \A d \in Cursors : stmt[d] \in Stmts \cup {NoStmt}
    BY DEF TypeOK, ClosedRc, RcTellsTheTruth
  <1>c. \A d \in Cursors \ {c} :
          stmt[d] # NoStmt => stmt[d] # s /\ vdbe'[stmt[d]] = vdbe[stmt[d]]
    BY <1>1, <1>2, <1>b DEF CursorStmts
  <1>3. CursorStmts'
    BY <1>0, <1>1, <1>2, <1>c DEF CursorStmts
  <1>4. RcTellsTheTruth'
    <2> SUFFICES ASSUME NEW d \in Cursors
                 PROVE  IF stmt'[d] = NoStmt THEN rc'[d] \in {"OK", "MISUSE"}
                        ELSE LET w == vdbe'[stmt'[d]] IN
                             /\ rc'[d] = "ROW" <=> w.result # 0
                             /\ rc'[d] = "ROW" => w.state = "run" /\ w.result = w.row
                             /\ rc'[d] \in {"DONE", "ERROR"} => w.state = "halt"
      BY DEF RcTellsTheTruth
    <2>1. CASE d = c
      BY <1>0, <1>1, <1>2, <2>1
    <2>2. CASE d # c
      BY <1>2, <1>c, <2>2 DEF RcTellsTheTruth
    <2> QED BY <2>1, <2>2
  <1>5. /\ DOMAIN stack = 1..Len(stack) /\ Len(stack) \in Nat
        /\ \A i \in DOMAIN stack : stack[i] \in Frame /\ stack[i].phase = "trace"
    BY AllWait, LenProperties DEF TypeOK
  <1>6. \A i \in DOMAIN stack' :
          \/ i \in DOMAIN stack /\ stack'[i] = stack[i]
          \/ /\ i = Len(stack) + 1 /\ v.state = "run"
             /\ stack'[i].op = "execute" /\ stack'[i].cur = c /\ stack'[i].stmt = s
    <2>1. CASE UNCHANGED stack
      BY <2>1
    <2>2. CASE \E f \in Frame : f.op = "execute" /\ f.cur = c /\ f.stmt = s /\ Push(f)
      <3>1. PICK f \in Frame : f.op = "execute" /\ f.cur = c /\ f.stmt = s /\ Push(f)
        BY <2>2
      <3>2. /\ DOMAIN stack' = 1..(Len(stack) + 1)
            /\ stack'[Len(stack) + 1] = f
            /\ \A i \in 1..Len(stack) : stack'[i] = stack[i]
        BY <3>1, PushFacts DEF TypeOK
      <3>3. \A i \in 1..(Len(stack) + 1) : i \in 1..Len(stack) \/ i = Len(stack) + 1
        BY <1>5
      <3>4. v.state = "run" \/ UNCHANGED stack
        OBVIOUS
      <3> QED BY <1>5, <3>1, <3>2, <3>3, <3>4
    <2> QED BY <2>1, <2>2
  <1>7. FrameStmts'
    <2> SUFFICES ASSUME NEW i \in DOMAIN stack', stack'[i].stmt # NoStmt
                 PROVE  /\ \A j \in DOMAIN stack' \ {i} : stack'[j].stmt # stack'[i].stmt
                        /\ Agrees(stack'[i], vdbe', stmt')
      BY DEF FrameStmts
    <2>1. \A j \in DOMAIN stack' \ {i} : stack'[j].stmt # stack'[i].stmt
      BY <1>0, <1>6 DEF FrameStmts
    <2>2. CASE i \in DOMAIN stack /\ stack'[i] = stack[i]
      <3>1. /\ stack[i].stmt \in Stmts /\ stack[i].cur \in Cursors
            /\ stack[i].stmt # NoStmt /\ stack[i].stmt # s /\ stack[i].phase = "trace"
        BY <1>0, <1>5, <2>2 DEF Frame
      <3>2. Agrees(stack[i], vdbe, stmt)
        BY <2>2, <3>1 DEF FrameStmts
      <3>3. Agrees(stack[i], vdbe', stmt')
        BY <1>1, <1>2, <3>1, <3>2 DEF Agrees
      <3> QED BY <2>1, <2>2, <3>3
    <2>3. CASE /\ i = Len(stack) + 1 /\ v.state = "run"
               /\ stack'[i].op = "execute" /\ stack'[i].cur = c /\ stack'[i].stmt = s
      BY <1>1, <1>2, <2>1, <2>3 DEF Agrees
    <2> QED BY <1>6, <2>2, <2>3
  <1> QED BY <1>3, <1>4, <1>7

\* The outcomes of one sqlite3_step of c's statement, in c's rc and in the
\* statement w it leaves.
Outcome(w, code) ==
    \/ code = "ROW" /\ w.state = "run" /\ w.result # 0 /\ w.result = w.row
    \/ code \in {"DONE", "ERROR"} /\ w.state = "halt" /\ w.result = 0

LEMMA StepOutcome ==
    ASSUME TypeOK, NEW c \in Cursors, stmt[c] \in Stmts, vdbe[stmt[c]].state = "run",
           \/ StepRow(c) \/ StepHalts(c, "DONE") \/ StepHalts(c, "ERROR")
    PROVE  \E w \in Vdbe, code \in Codes :
               /\ Outcome(w, code)
               /\ vdbe' = [vdbe EXCEPT ![stmt[c]] = w]
               /\ rc' = [rc EXCEPT ![c] = code]
  <1>0. vdbe[stmt[c]] \in Vdbe
    BY DEF TypeOK
  <1>1. CASE StepRow(c)
    <2>1. /\ vdbe[stmt[c]].row < MaxRows
          /\ vdbe' = [vdbe EXCEPT ![stmt[c]] = WithRow(vdbe[stmt[c]])]
          /\ rc' = [rc EXCEPT ![c] = "ROW"]
      BY <1>1 DEF StepRow
    <2>2. WithRow(vdbe[stmt[c]]) \in Vdbe
      BY <1>0, <2>1, StmtRecords
    <2>3. vdbe[stmt[c]].row \in Nat
      BY <1>0, RowsAssumption DEF Vdbe
    <2>4. /\ WithRow(vdbe[stmt[c]]).state = "run"
          /\ WithRow(vdbe[stmt[c]]).row = vdbe[stmt[c]].row + 1
          /\ WithRow(vdbe[stmt[c]]).result = vdbe[stmt[c]].row + 1
      BY <1>0, StmtFields
    <2>5. Outcome(WithRow(vdbe[stmt[c]]), "ROW")
      BY <2>3, <2>4 DEF Outcome
    <2> QED BY <2>1, <2>2, <2>5 DEF Codes
  <1>2. ASSUME NEW code \in {"DONE", "ERROR"}, StepHalts(c, code)
        PROVE  \E w \in Vdbe :
                   /\ Outcome(w, code)
                   /\ vdbe' = [vdbe EXCEPT ![stmt[c]] = w]
                   /\ rc' = [rc EXCEPT ![c] = code]
    <2>1. PICK n \in ChangesOf(vdbe[stmt[c]]) :
            /\ vdbe' = [vdbe EXCEPT ![stmt[c]] = Halted(vdbe[stmt[c]], n)]
            /\ rc' = [rc EXCEPT ![c] = code]
      BY <1>2 DEF StepHalts
    <2>2. n \in 0..MaxChanges
      BY ChangesAssumption DEF ChangesOf
    <2>3. Halted(vdbe[stmt[c]], n) \in Vdbe
      BY <1>0, <2>2, StmtRecords
    <2>4. Outcome(Halted(vdbe[stmt[c]], n), code)
      BY <1>0, <2>2, StmtFields DEF Outcome
    <2> QED BY <2>1, <2>3, <2>4
  <1> QED BY <1>1, <1>2 DEF Codes

\* c's statement is stepped, and the frame that stepped it, if it was one of
\* execute, is gone (stepExecute).
LEMMA SteppedStmts ==
    ASSUME Inv, NEW c \in Cursors, stmt[c] \in Stmts, vdbe[stmt[c]].state = "run",
           \/ StepRow(c) \/ StepHalts(c, "DONE") \/ StepHalts(c, "ERROR"),
           UNCHANGED stmt,
           \A i \in DOMAIN stack' : stack'[i].stmt # NoStmt =>
               /\ i \in DOMAIN stack /\ stack'[i] = stack[i]
               /\ stack[i].stmt # stmt[c]
    PROVE  FrameStmts' /\ CursorStmts' /\ RcTellsTheTruth'
  <1> USE StmtAssumption DEF Inv
  <1>0. PICK w \in Vdbe, code \in Codes :
          /\ Outcome(w, code)
          /\ vdbe' = [vdbe EXCEPT ![stmt[c]] = w]
          /\ rc' = [rc EXCEPT ![c] = code]
    BY StepOutcome
  <1>1. /\ \A t \in Stmts : t # stmt[c] => vdbe'[t] = vdbe[t]
        /\ vdbe'[stmt[c]] = w
        /\ rc'[c] = code
        /\ \A d \in Cursors \ {c} : rc'[d] = rc[d]
        /\ \A d \in Cursors : stmt[d] \in Stmts \cup {NoStmt}
    BY <1>0 DEF TypeOK
  <1>2. stmt[c] # NoStmt
    OBVIOUS
  <1>3. CursorStmts'
    BY <1>0, <1>1 DEF CursorStmts, Outcome
  <1>4. RcTellsTheTruth'
    <2> SUFFICES ASSUME NEW d \in Cursors
                 PROVE  IF stmt[d] = NoStmt THEN rc'[d] \in {"OK", "MISUSE"}
                        ELSE LET v == vdbe'[stmt[d]] IN
                             /\ rc'[d] = "ROW" <=> v.result # 0
                             /\ rc'[d] = "ROW" => v.state = "run" /\ v.result = v.row
                             /\ rc'[d] \in {"DONE", "ERROR"} => v.state = "halt"
      BY DEF RcTellsTheTruth
    <2>1. CASE d = c
      BY <1>0, <1>1, <1>2, <2>1 DEF Outcome
    <2>2. CASE d # c
      <3>1. stmt[d] # NoStmt => vdbe'[stmt[d]] = vdbe[stmt[d]]
        BY <1>1, <2>2 DEF CursorStmts
      <3> QED BY <1>1, <2>2, <3>1 DEF RcTellsTheTruth
    <2> QED BY <2>1, <2>2
  <1>5. FrameStmts'
    <2> SUFFICES ASSUME NEW i \in DOMAIN stack', stack'[i].stmt # NoStmt
                 PROVE  /\ \A j \in DOMAIN stack' \ {i} : stack'[j].stmt # stack'[i].stmt
                        /\ Agrees(stack'[i], vdbe', stmt)
      BY DEF FrameStmts
    <2>1. /\ i \in DOMAIN stack /\ stack'[i] = stack[i] /\ stack[i].stmt # NoStmt
          /\ stack[i].stmt # stmt[c]
      OBVIOUS
    <2>2. \A j \in DOMAIN stack' \ {i} : stack'[j].stmt # stack'[i].stmt
      BY <2>1 DEF FrameStmts
    <2>3. stack[i] \in Frame
      BY <2>1 DEF TypeOK
    <2>4. vdbe'[stack[i].stmt] = vdbe[stack[i].stmt]
      BY <1>1, <2>1, <2>3 DEF Frame
    <2>5. Agrees(stack[i], vdbe, stmt)
      BY <2>1 DEF FrameStmts
    <2>6. Agrees(stack[i], vdbe', stmt)
      BY <2>4, <2>5 DEF Agrees
    <2> QED BY <2>1, <2>2, <2>6
  <1> QED BY <1>3, <1>4, <1>5

\* A statement with a current row is in no frame: execute has returned.
LEMMA RowInNoFrame ==
    ASSUME Inv, NEW c \in Cursors, rc[c] = "ROW"
    PROVE  \A i \in DOMAIN stack : stack[i].stmt # stmt[c]
  <1> USE DEF Inv
  <1>1. stmt[c] \in Stmts /\ stmt[c] # NoStmt /\ vdbe[stmt[c]].result # 0
    BY RowToBuild, StmtAssumption DEF RcTellsTheTruth
  <1>2. SUFFICES ASSUME NEW i \in DOMAIN stack, stack[i].stmt = stmt[c]
                 PROVE  FALSE
    OBVIOUS
  <1>3. /\ stack[i].stmt # NoStmt
        /\ stack[i].op \in {"execute", "executemany", "fetchmany"}
    <2>1. stack[i] \in Frame
      BY <1>2 DEF TypeOK
    <2> QED BY <1>1, <1>2, <2>1 DEF Frame
  <1>4. Agrees(stack[i], vdbe, stmt)
    BY <1>3 DEF FrameStmts
  <1>5. stack[i].op # "execute" /\ stack[i].op # "executemany"
    BY <1>1, <1>2, <1>4 DEF Agrees
  <1> QED BY <1>3, <1>5 DEF FrameShape, Shaped

\* Frames are popped or go on, statements and cursors stay as they are.
LEMMA KeptStmts ==
    ASSUME Inv, UNCHANGED <<vdbe, stmt, rc>>,
           \A i \in DOMAIN stack' : stack'[i].stmt # NoStmt =>
               /\ i \in DOMAIN stack
               /\ stack'[i].stmt = stack[i].stmt
               /\ stack'[i].op = stack[i].op
               /\ stack'[i].cur = stack[i].cur
               /\ stack'[i].phase = "run" => vdbe[stack[i].stmt].state = "run"
    PROVE  FrameStmts' /\ CursorStmts' /\ RcTellsTheTruth'
  <1> USE DEF Inv
  <1>1. CursorStmts' /\ RcTellsTheTruth'
    BY DEF CursorStmts, RcTellsTheTruth
  <1>2. FrameStmts'
    <2> SUFFICES ASSUME NEW i \in DOMAIN stack', stack'[i].stmt # NoStmt
                 PROVE  /\ \A j \in DOMAIN stack' \ {i} : stack'[j].stmt # stack'[i].stmt
                        /\ Agrees(stack'[i], vdbe, stmt)
      BY DEF FrameStmts
    <2>1. \A j \in DOMAIN stack' \ {i} : stack'[j].stmt # stack'[i].stmt
      BY DEF FrameStmts
    <2>2. Agrees(stack[i], vdbe, stmt)
      BY DEF FrameStmts
    <2>3. Agrees(stack'[i], vdbe, stmt)
      BY <2>2 DEF Agrees
    <2> QED BY <2>1, <2>3
  <1> QED BY <1>1, <1>2

\* sqlite3_exec starts the fresh statement s (ManyPrepares).
LEMMA PreparedStmts ==
    ASSUME Inv, stack # <<>>, NEW s \in Fresh(vdbe), NEW v \in Vdbe, v.state = "run",
           vdbe' = [vdbe EXCEPT ![s] = v],
           UNCHANGED <<stmt, rc>>,
           NEW f \in Frame, f.op = "executemany", f.stmt = s, SetTop(f)
    PROVE  FrameStmts' /\ CursorStmts' /\ RcTellsTheTruth'
  <1> USE StmtAssumption DEF Inv
  <1>0. /\ s \in Stmts /\ vdbe[s].state = "free" /\ s # NoStmt
        /\ \A i \in DOMAIN stack : stack[i].stmt # s
    BY DEF Fresh
  <1>1. /\ \A t \in Stmts : t # s => vdbe'[t] = vdbe[t]
        /\ vdbe'[s] = v
        /\ \A d \in Cursors : stmt[d] \in Stmts \cup {NoStmt}
        /\ \A i \in DOMAIN stack : stack[i] \in Frame
    BY <1>0 DEF TypeOK
  <1>2. \A d \in Cursors : stmt[d] # NoStmt => stmt[d] # s /\ vdbe'[stmt[d]] = vdbe[stmt[d]]
    BY <1>0, <1>1 DEF CursorStmts
  <1>3. CursorStmts' /\ RcTellsTheTruth'
    BY <1>2 DEF CursorStmts, RcTellsTheTruth
  <1>4. /\ DOMAIN stack' = DOMAIN stack
        /\ stack'[Len(stack)] = f
        /\ \A i \in DOMAIN stack : i # Len(stack) => stack'[i] = stack[i]
    BY DEF TypeOK, SetTop
  <1>5. FrameStmts'
    <2> SUFFICES ASSUME NEW i \in DOMAIN stack', stack'[i].stmt # NoStmt
                 PROVE  /\ \A j \in DOMAIN stack' \ {i} : stack'[j].stmt # stack'[i].stmt
                        /\ Agrees(stack'[i], vdbe', stmt)
      BY DEF FrameStmts
    <2>1. \A j \in DOMAIN stack' \ {i} : stack'[j].stmt # stack'[i].stmt
      BY <1>0, <1>4 DEF FrameStmts
    <2>2. CASE i = Len(stack)
      BY <1>0, <1>1, <1>2, <1>4, <2>1, <2>2 DEF Agrees
    <2>3. CASE i # Len(stack)
      <3>1. i \in DOMAIN stack /\ stack'[i] = stack[i] /\ stack[i].stmt # s
        BY <1>0, <1>4, <2>3
      <3>2. vdbe'[stack[i].stmt] = vdbe[stack[i].stmt]
        BY <1>1, <3>1 DEF Frame
      <3>3. Agrees(stack[i], vdbe, stmt)
        BY <3>1 DEF FrameStmts
      <3>4. Agrees(stack[i], vdbe', stmt)
        BY <3>2, <3>3 DEF Agrees
      <3> QED BY <2>1, <3>1, <3>4
    <2> QED BY <2>2, <2>3
  <1> QED BY <1>3, <1>5

\* sqlite3_exec finalizes the statement of its frame (ManyStmtDone, ManyFails).
LEMMA FinalizedStmts ==
    ASSUME Inv, NEW k \in DOMAIN stack, stack[k].op = "executemany",
           stack[k].stmt # NoStmt,
           vdbe' = [vdbe EXCEPT ![stack[k].stmt] = FreeVdbe],
           UNCHANGED <<stmt, rc>>,
           \A i \in DOMAIN stack' : stack'[i].stmt # NoStmt =>
               i \in DOMAIN stack /\ i # k /\ stack'[i] = stack[i]
    PROVE  FrameStmts' /\ CursorStmts' /\ RcTellsTheTruth'
  <1> USE StmtAssumption DEF Inv
  <1>1. /\ \A t \in Stmts : t # stack[k].stmt => vdbe'[t] = vdbe[t]
        /\ \A d \in Cursors : stmt[d] \in Stmts \cup {NoStmt}
        /\ \A i \in DOMAIN stack : stack[i] \in Frame
    BY DEF TypeOK
  <1>2. \A d \in Cursors : stmt[d] # stack[k].stmt
    BY DEF FrameStmts, Agrees
  <1>3. \A d \in Cursors : stmt[d] # NoStmt => vdbe'[stmt[d]] = vdbe[stmt[d]]
    BY <1>1, <1>2
  <1>4. CursorStmts' /\ RcTellsTheTruth'
    BY <1>3 DEF CursorStmts, RcTellsTheTruth
  <1>5. FrameStmts'
    <2> SUFFICES ASSUME NEW i \in DOMAIN stack', stack'[i].stmt # NoStmt
                 PROVE  /\ \A j \in DOMAIN stack' \ {i} : stack'[j].stmt # stack'[i].stmt
                        /\ Agrees(stack'[i], vdbe', stmt)
      BY DEF FrameStmts
    <2>1. i \in DOMAIN stack /\ i # k /\ stack'[i] = stack[i] /\ stack[i].stmt # NoStmt
      OBVIOUS
    <2>2. /\ \A j \in DOMAIN stack' \ {i} : stack'[j].stmt # stack'[i].stmt
          /\ stack[i].stmt # stack[k].stmt
          /\ Agrees(stack[i], vdbe, stmt)
      BY <2>1 DEF FrameStmts
    <2>3. vdbe'[stack[i].stmt] = vdbe[stack[i].stmt]
      BY <1>1, <2>1, <2>2 DEF Frame
    <2>4. Agrees(stack[i], vdbe', stmt)
      BY <2>2, <2>3 DEF Agrees
    <2> QED BY <2>1, <2>2, <2>4
  <1> QED BY <1>4, <1>5

\* connection.close gives up the statements of all registered cursors.
LEMMA CloseConnectionStmts ==
    ASSUME Inv, CloseConnection
    PROVE  FrameShape' /\ FrameStmts' /\ CursorStmts' /\ RcTellsTheTruth'
  <1> USE StmtAssumption DEF Inv
  <1>1. /\ \A s \in Stmts : vdbe'[s] = IF s \in ClosedByConnection THEN FreeVdbe ELSE vdbe[s]
        /\ \A c \in Cursors :
             /\ stmt'[c] = IF c \in registered THEN NoStmt ELSE stmt[c]
             /\ rc'[c] = IF c \in registered /\ stmt[c] # NoStmt THEN "OK" ELSE rc[c]
        /\ UNCHANGED stack
        /\ ProgramTurn
    BY DEF CloseConnection
  <1>2. /\ \A c \in Cursors : stmt[c] \in Stmts \cup {NoStmt}
        /\ registered \subseteq Cursors
        /\ \A i \in DOMAIN stack : stack[i] \in Frame
    BY DEF TypeOK
  <1>3. \A c \in Cursors : stmt'[c] # NoStmt =>
            stmt'[c] = stmt[c] /\ rc'[c] = rc[c] /\ vdbe'[stmt[c]] = vdbe[stmt[c]]
    BY <1>1, <1>2 DEF ClosedByConnection, CursorStmts
  <1>4. CursorStmts'
    BY <1>3 DEF CursorStmts
  <1>5. RcTellsTheTruth'
    BY <1>1, <1>3 DEF RcTellsTheTruth
  <1>6. FrameShape'
    BY <1>1 DEF FrameShape
  <1>7. FrameStmts'
    <2> SUFFICES ASSUME NEW i \in DOMAIN stack, stack[i].stmt # NoStmt
                 PROVE  /\ \A j \in DOMAIN stack \ {i} : stack[j].stmt # stack[i].stmt
                        /\ Agrees(stack[i], vdbe', stmt')
      BY <1>1 DEF FrameStmts
    <2>1. /\ \A j \in DOMAIN stack \ {i} : stack[j].stmt # stack[i].stmt
          /\ Agrees(stack[i], vdbe, stmt)
      BY DEF FrameStmts
    <2>2. /\ stack[i].stmt \in Stmts /\ stack[i].cur \in Cursors
          /\ stack[i].phase # "run"
      BY <1>1, <1>2, AllWait DEF Frame
    <2>3. ASSUME stack[i].op = "executemany"
          PROVE  Agrees(stack[i], vdbe', stmt')
      <3>1. stack[i].stmt \notin ClosedByConnection
        BY <1>2, <2>1, <2>3 DEF Agrees, ClosedByConnection
      <3> QED BY <1>1, <2>1, <2>2, <2>3, <3>1 DEF Agrees
    <2>4. ASSUME stack[i].op = "execute"
          PROVE  Agrees(stack[i], vdbe', stmt')
      <3>1. CASE stack[i].stmt \in ClosedByConnection
        BY <1>1, <2>2, <2>4, <3>1, StmtFields DEF Agrees
      <3>2. CASE stack[i].stmt \notin ClosedByConnection
        BY <1>1, <2>1, <2>2, <2>4, <3>2 DEF Agrees, ClosedByConnection
      <3> QED BY <3>1, <3>2
    <2>5. CASE stack[i].op # "execute" /\ stack[i].op # "executemany"
      BY <2>1, <2>5 DEF Agrees
    <2> QED BY <2>1, <2>3, <2>4, <2>5
  <1> QED BY <1>4, <1>5, <1>6, <1>7

-----------------------------------------------------------------------------
(* Every step preserves the invariant.                                     *)

LEMMA InvExecute ==
    ASSUME Inv, NEW c \in Cursors,
           \/ Rejected(c) \/ ExecuteBlank(c) \/ ExecuteUnbound(c)
           \/ ExecuteBegins(c) \/ ManyBegins(c) \/ CloseCursor(c) \/ DelCursor(c)
    PROVE  Inv'
  <1>0. TypeOK'
    BY TypeExecute DEF Inv
  <1>1. ClosedRc(c) \in {"OK", "MISUSE"}
    BY DEF Inv, RcTellsTheTruth, ClosedRc
  <1>2. UNCHANGED stack => FrameShape'
    BY DEF Inv, FrameShape
  <1>3. CASE Rejected(c) \/ CloseCursor(c) \/ DelCursor(c)
    <2>1. /\ ProgramTurn
          /\ vdbe' = ClosedVdbe(c)
          /\ stmt' = [stmt EXCEPT ![c] = NoStmt]
          /\ rc' = [rc EXCEPT ![c] = ClosedRc(c)]
          /\ UNCHANGED stack
      BY <1>3 DEF Rejected, CloseCursor, DelCursor
    <2> QED BY <1>0, <1>1, <1>2, <2>1, ClosedStmts DEF Inv
  <1>4. CASE ExecuteBlank(c)
    <2>1. /\ ProgramTurn
          /\ vdbe' = ClosedVdbe(c)
          /\ stmt' = [stmt EXCEPT ![c] = NoStmt]
          /\ rc' = [rc EXCEPT ![c] = "MISUSE"]
          /\ UNCHANGED stack
      BY <1>4 DEF ExecuteBlank
    <2> QED BY <1>0, <1>2, <2>1, ClosedStmts DEF Inv
  <1>5. CASE ManyBegins(c)
    <2> DEFINE f == [op |-> "executemany", cur |-> c, stmt |-> NoStmt, phase |-> "next",
                     left |-> MaxScript, size |-> 0, rows |-> <<>>]
    <2>1. /\ ProgramTurn
          /\ vdbe' = ClosedVdbe(c)
          /\ stmt' = [stmt EXCEPT ![c] = NoStmt]
          /\ rc' = [rc EXCEPT ![c] = ClosedRc(c)]
          /\ Push(f)
      BY <1>5 DEF ManyBegins
    <2>2. f \in Frame /\ f.stmt = NoStmt /\ Shaped(f)
      BY FramesTyped DEF Shaped
    <2> HIDE DEF f
    <2>3. FrameShape'
      BY <2>1, <2>2, ShapePush DEF Inv
    <2> QED BY <1>0, <1>1, <2>1, <2>2, <2>3, ClosedStmts DEF Inv
  <1>6. CASE ExecuteUnbound(c)
    <2>1. PICK s \in Fresh(ClosedVdbe(c)), counts \in BOOLEAN :
            /\ vdbe' = [ClosedVdbe(c) EXCEPT ![s] = Prepared(counts)]
            /\ stmt' = [stmt EXCEPT ![c] = s]
      BY <1>6 DEF ExecuteUnbound
    <2>2. /\ ProgramTurn
          /\ rc' = [rc EXCEPT ![c] = ClosedRc(c)]
          /\ UNCHANGED stack
      BY <1>6 DEF ExecuteUnbound
    <2>3. /\ Prepared(counts) \in Vdbe
          /\ Prepared(counts).result = 0 /\ Prepared(counts).state = "ready"
      BY StmtRecords, StmtFields
    <2> QED BY <1>0, <1>2, <2>1, <2>2, <2>3, OpenedStmts DEF Inv
  <1>7. CASE ExecuteBegins(c)
    <2>1. PICK s \in Fresh(ClosedVdbe(c)), counts \in BOOLEAN :
            /\ vdbe' = [ClosedVdbe(c) EXCEPT ![s] = Started(Prepared(counts))]
            /\ stmt' = [stmt EXCEPT ![c] = s]
            /\ Push([op |-> "execute", cur |-> c, stmt |-> s, phase |-> StepPhase,
                     left |-> 0, size |-> 0, rows |-> <<>>])
      BY <1>7 DEF ExecuteBegins
    <2> DEFINE f == [op |-> "execute", cur |-> c, stmt |-> s, phase |-> StepPhase,
                     left |-> 0, size |-> 0, rows |-> <<>>]
    <2>2. /\ ProgramTurn
          /\ rc' = [rc EXCEPT ![c] = ClosedRc(c)]
      BY <1>7 DEF ExecuteBegins
    <2>3. /\ Started(Prepared(counts)) \in Vdbe
          /\ Started(Prepared(counts)).result = 0
          /\ Started(Prepared(counts)).state = "run"
      BY StmtRecords, StmtFields
    <2>4. s \in Stmts
      BY DEF Fresh
    <2>5. /\ f \in Frame /\ Push(f) /\ Shaped(f)
          /\ f.op = "execute" /\ f.cur = c /\ f.stmt = s
      BY <2>1, <2>4, FramesTyped DEF Shaped, StepPhase
    <2> HIDE DEF f
    <2>6. FrameShape'
      BY <2>2, <2>5, ShapePush DEF Inv
    <2>7. FrameStmts' /\ CursorStmts' /\ RcTellsTheTruth'
      BY <2>1, <2>2, <2>3, <2>5, OpenedStmts
    <2> QED BY <1>0, <2>6, <2>7 DEF Inv
  <1> QED BY <1>3, <1>4, <1>5, <1>6, <1>7

LEMMA InvCall ==
    ASSUME Inv, ExecuteRow \/ ExecuteDone \/ ExecuteFails
    PROVE  Inv'
  <1> USE DEF Inv
  <1>0. TypeOK'
    BY TypeCall
  <1>1. /\ InCall("execute", "run") /\ Pop /\ UNCHANGED stmt
        /\ \/ StepRow(Top.cur) \/ StepHalts(Top.cur, "DONE") \/ StepHalts(Top.cur, "ERROR")
    BY DEF ExecuteRow, ExecuteDone, ExecuteFails, StepError
  <1> DEFINE n == Len(stack)
  <1>2. /\ stack # <<>> /\ Top.op = "execute" /\ Top.phase = "run"
        /\ Top = stack[n] /\ n \in DOMAIN stack /\ Top \in Frame /\ n \in Nat \ {0}
    BY <1>1, TopFacts DEF TypeOK, InCall
  <1>3. Top.stmt \in Stmts /\ Top.cur \in Cursors
    BY <1>2 DEF FrameShape, Shaped, Frame
  <1>4. /\ vdbe[Top.stmt].state = "run" /\ stmt[Top.cur] = Top.stmt
        /\ \A i \in DOMAIN stack \ {n} : stack[i].stmt # Top.stmt
    <2>1. Top.stmt # NoStmt
      BY <1>3, StmtAssumption
    <2> QED BY <1>2, <2>1 DEF FrameStmts, Agrees
  <1>5. FrameShape'
    BY <1>1, <1>2, ShapePop
  <1>6. \A i \in DOMAIN stack' :
          i \in DOMAIN stack /\ i # n /\ stack'[i] = stack[i]
    <2>1. /\ DOMAIN stack' = 1..(n - 1) /\ DOMAIN stack = 1..n
          /\ \A i \in 1..(n - 1) : stack'[i] = stack[i]
      BY <1>1, <1>2, PopFacts DEF TypeOK
    <2>2. \A i \in 1..(n - 1) : i \in 1..n /\ i # n
      BY <1>2
    <2> QED BY <2>1, <2>2
  <1>7. FrameStmts' /\ CursorStmts' /\ RcTellsTheTruth'
    BY <1>1, <1>3, <1>4, <1>6, SteppedStmts
  <1> QED BY <1>0, <1>5, <1>7

LEMMA InvPop ==
    ASSUME Inv, stack # <<>>, Pop, UNCHANGED <<vdbe, stmt, rc>>
    PROVE  FrameShape' /\ FrameStmts' /\ CursorStmts' /\ RcTellsTheTruth'
  <1> USE DEF Inv
  <1>1. FrameShape'
    BY ShapePop
  <1>2. \A i \in DOMAIN stack' :
          i \in DOMAIN stack /\ i # Len(stack) /\ stack'[i] = stack[i]
    <2>1. /\ DOMAIN stack' = 1..(Len(stack) - 1) /\ DOMAIN stack = 1..Len(stack)
          /\ \A i \in 1..(Len(stack) - 1) : stack'[i] = stack[i]
          /\ Len(stack) \in Nat
      BY PopFacts, LenProperties DEF TypeOK
    <2>2. ASSUME NEW n \in Nat PROVE \A i \in 1..(n - 1) : i \in 1..n /\ i # n
      OBVIOUS
    <2> QED BY <2>1, <2>2
  <1>3. \A i \in DOMAIN stack' : stack'[i].phase # "run"
    BY <1>2 DEF FrameShape
  <1> QED BY <1>1, <1>2, <1>3, KeptStmts

LEMMA InvMany ==
    ASSUME Inv, ManyPrepares \/ ManyStmtDone \/ ManyFails \/ ManyRejects \/ ManyReturns
    PROVE  Inv'
  <1> USE DEF Inv
  <1>0. TypeOK'
    BY TypeCall
  <1>1. /\ stack # <<>> /\ Top.op = "executemany"
        /\ Top = stack[Len(stack)] /\ Len(stack) \in DOMAIN stack
        /\ Len(stack) \in Nat \ {0} /\ Top \in Frame /\ UNCHANGED <<stmt, rc>>
    BY TopFacts DEF TypeOK, ManyPrepares, ManyStmtDone, ManyFails, ManyRejects,
                    ManyReturns, InCall, curVars
  <1>2. CASE ManyPrepares
    <2>1. PICK s \in Fresh(vdbe), counts \in BOOLEAN :
            /\ vdbe' = [vdbe EXCEPT ![s] = Started(Prepared(counts))]
            /\ SetTop([Top EXCEPT !.stmt = s, !.phase = StepPhase, !.left = @ - 1])
      BY <1>2 DEF ManyPrepares
    <2>2. /\ Started(Prepared(counts)) \in Vdbe
          /\ Started(Prepared(counts)).state = "run"
      BY StmtRecords, StmtFields
    <2>3. s \in Stmts
      BY DEF Fresh
    <2> DEFINE f == [Top EXCEPT !.stmt = s, !.phase = StepPhase, !.left = @ - 1]
    <2>4. /\ f.op = "executemany" /\ f.stmt = s /\ f.phase \in {"trace", "run"}
      BY <1>1 DEF Frame, StepPhase
    <2>5. f \in Frame
      <3>1. Top.left > 0 /\ Top.left \in 0..MaxScript
        BY <1>1, <1>2 DEF ManyPrepares, Frame
      <3>2. Top.left - 1 \in 0..MaxScript /\ StepPhase \in {"trace", "run"}
        BY <3>1, BoundsAssumption DEF StepPhase
      <3> QED BY <1>1, <2>3, <3>2 DEF Frame
    <2>6. SetTop(f)
      BY <2>1
    <2> HIDE DEF f
    <2>7. Shaped(f)
      BY <2>3, <2>4 DEF Shaped
    <2>8. FrameShape'
      BY <1>1, <2>5, <2>6, <2>7, ShapeSetTop
    <2> QED BY <1>0, <1>1, <2>1, <2>2, <2>4, <2>5, <2>6, <2>8, PreparedStmts
  <1>3. CASE ManyStmtDone \/ ManyFails
    <2> DEFINE f == [Top EXCEPT !.stmt = NoStmt, !.phase = "next"]
    <2>1. /\ Top.phase = "run" /\ vdbe' = [vdbe EXCEPT ![Top.stmt] = FreeVdbe]
          /\ SetTop(f) \/ Pop
      BY <1>3 DEF ManyStmtDone, ManyFails, ManyFinalizes, InCall
    <2>2. Top.stmt # NoStmt
      BY <1>1, <2>1, StmtAssumption DEF FrameShape, Shaped
    <2>3. f \in Frame /\ f.op = "executemany" /\ f.stmt = NoStmt /\ f.phase = "next"
      BY <1>1 DEF Frame
    <2> HIDE DEF f
    <2>4. FrameShape'
      BY <1>1, <2>1, <2>3, ShapePop, ShapeSetTop DEF Shaped
    <2>5. \A i \in DOMAIN stack' : stack'[i].stmt # NoStmt =>
              i \in DOMAIN stack /\ i # Len(stack) /\ stack'[i] = stack[i]
      <3>1. \A n \in Nat : /\ \A i \in 1..(n - 1) : i \in 1..n /\ i # n
                           /\ \A i \in 1..n : i # n => i \in 1..(n - 1)
        OBVIOUS
      <3>a. /\ \A i \in 1..(Len(stack) - 1) : i \in 1..Len(stack) /\ i # Len(stack)
            /\ \A i \in 1..Len(stack) : i # Len(stack) => i \in 1..(Len(stack) - 1)
        BY <1>1, <3>1
      <3>2. CASE Pop
        <4>1. /\ DOMAIN stack' = 1..(Len(stack) - 1) /\ DOMAIN stack = 1..Len(stack)
              /\ \A i \in 1..(Len(stack) - 1) : stack'[i] = stack[i]
          BY <1>1, <3>2, PopFacts DEF TypeOK
        <4> QED BY <3>a, <4>1
      <3>3. CASE SetTop(f)
        <4>1. /\ DOMAIN stack' = 1..Len(stack) /\ DOMAIN stack = 1..Len(stack)
              /\ stack'[Len(stack)] = f
              /\ \A i \in 1..(Len(stack) - 1) : stack'[i] = stack[i]
          BY <1>1, <2>3, <3>3, SetTopFacts DEF TypeOK
        <4> QED BY <2>3, <3>a, <4>1
      <3> QED BY <2>1, <3>2, <3>3
    <2> QED BY <1>0, <1>1, <2>1, <2>2, <2>4, <2>5, FinalizedStmts
  <1>4. CASE ManyRejects \/ ManyReturns
    BY <1>0, <1>1, <1>4, InvPop DEF ManyRejects, ManyReturns, sqlVars
  <1> QED BY <1>2, <1>3, <1>4

\* A fetch operation of the cursor c, which has a row: c's statement is
\* stepped, frames with a statement stay as they are.
LEMMA FetchStmts ==
    ASSUME Inv, NEW c \in Cursors, rc[c] = "ROW", UNCHANGED stmt,
           \/ StepRow(c) \/ StepDone(c) \/ StepError(c),
           \A i \in DOMAIN stack' : stack'[i].stmt # NoStmt =>
               i \in DOMAIN stack /\ stack'[i] = stack[i]
    PROVE  FrameStmts' /\ CursorStmts' /\ RcTellsTheTruth'
  <1>1. stmt[c] \in Stmts /\ vdbe[stmt[c]].state = "run"
    BY RowToBuild DEF Inv
  <1>2. \A i \in DOMAIN stack : stack[i].stmt # stmt[c]
    BY RowInNoFrame
  <1>3. \/ StepRow(c) \/ StepHalts(c, "DONE") \/ StepHalts(c, "ERROR")
    BY DEF StepDone, StepError
  <1> QED BY <1>1, <1>2, <1>3, SteppedStmts

LEMMA InvFetch ==
    ASSUME Inv,
           \/ \E c \in Cursors : FetchOne(c) \/ IterNext(c) \/ FetchAll(c)
           \/ \E c \in Cursors : \E n \in Sizes \cup {arraysize[c]} : FetchMany(c, n)
           \/ FetchLoop \/ FetchReturns \/ FetchNoMem
    PROVE  Inv'
  <1> USE DEF Inv
  <1>0. TypeOK'
    BY TypeFetch
  <1>1. ASSUME NEW c \in Cursors, HasRow(c), ReturnsOneRow(c)
        PROVE  FrameShape' /\ FrameStmts' /\ CursorStmts' /\ RcTellsTheTruth'
    <2>1. /\ rc[c] = "ROW" /\ UNCHANGED <<stmt, stack>>
          /\ StepRow(c) \/ StepDone(c) \/ StepError(c)
      BY <1>1 DEF HasRow, ReturnsOneRow
    <2>2. FrameShape'
      BY <2>1 DEF FrameShape
    <2> QED BY <2>1, <2>2, FetchStmts
  <1>2. ASSUME NEW c \in Cursors, NEW n \in Int, FetchMany(c, n)
        PROVE  FrameShape' /\ FrameStmts' /\ CursorStmts' /\ RcTellsTheTruth'
    <2> DEFINE f == [op |-> "fetchmany", cur |-> c, stmt |-> NoStmt, phase |-> "loop",
                     left |-> 0, size |-> n, rows |-> <<BuiltRow(c)>>]
    <2>1. /\ rc[c] = "ROW" /\ UNCHANGED stmt /\ ProgramTurn
          /\ StepRow(c) \/ StepDone(c) \/ StepError(c)
          /\ UNCHANGED stack \/ Push(f)
      BY <1>2 DEF FetchMany, HasRow
    <2>2. f \in Frame /\ f.stmt = NoStmt /\ Shaped(f)
      BY <2>1, RowToBuild, FramesTyped DEF Shaped
    <2> HIDE DEF f
    <2>3. CASE UNCHANGED stack
      <3>1. FrameShape'
        BY <2>3 DEF FrameShape
      <3> QED BY <2>1, <2>3, <3>1, FetchStmts
    <2>4. CASE Push(f)
      <3>1. FrameShape'
        BY <2>1, <2>2, <2>4, ShapePush
      <3>2. /\ DOMAIN stack' = 1..(Len(stack) + 1) /\ DOMAIN stack = 1..Len(stack)
            /\ stack'[Len(stack) + 1] = f
            /\ \A i \in 1..Len(stack) : stack'[i] = stack[i]
            /\ Len(stack) \in Nat
        BY <2>2, <2>4, PushFacts, LenProperties DEF TypeOK
      <3>3. \A i \in 1..(Len(stack) + 1) : i \in 1..Len(stack) \/ i = Len(stack) + 1
        BY <3>2
      <3>4. \A i \in DOMAIN stack' : stack'[i].stmt # NoStmt =>
                i \in DOMAIN stack /\ stack'[i] = stack[i]
        BY <2>2, <3>2, <3>3
      <3> QED BY <2>1, <3>1, <3>4, FetchStmts
    <2> QED BY <2>1, <2>3, <2>4
  <1>3. CASE FetchLoop
    <2> DEFINE f == [Top EXCEPT !.rows = Append(@, BuiltRow(Top.cur))]
    <2>1. /\ stack # <<>> /\ Top.op = "fetchmany" /\ Top.phase = "loop"
          /\ rc[Top.cur] = "ROW" /\ UNCHANGED stmt
          /\ StepRow(Top.cur) \/ StepDone(Top.cur) \/ StepError(Top.cur)
          /\ SetTop(f) \/ Pop
      BY <1>3 DEF FetchLoop, InCall, FetchMore
    <2>2. /\ Top \in Frame /\ Top.cur \in Cursors /\ Top.rows \in Seq(Row)
          /\ Len(stack) \in DOMAIN stack /\ Len(stack) \in Nat
          /\ Top = stack[Len(stack)]
      BY <2>1, TopFacts DEF TypeOK, Frame
    <2>3. Top.stmt = NoStmt
      BY <2>1, <2>2 DEF FrameShape, Shaped
    <2>4. BuiltRow(Top.cur) \in Row
      BY <2>1, <2>2, RowToBuild
    <2>5. f \in Frame /\ f.op = "fetchmany" /\ f.phase = "loop" /\ f.stmt = NoStmt
      <3>1. Append(Top.rows, BuiltRow(Top.cur)) \in Seq(Row)
        BY <2>2, <2>4, AppendProperties
      <3> QED BY <2>1, <2>2, <2>3, <3>1 DEF Frame
    <2> HIDE DEF f
    <2>6. FrameShape'
      BY <2>1, <2>5, ShapePop, ShapeSetTop DEF Shaped
    <2>a. \A n \in Nat : /\ \A i \in 1..(n - 1) : i \in 1..n /\ i # n
                         /\ \A i \in 1..n : i # n => i \in 1..(n - 1)
      OBVIOUS
    <2>b. /\ \A i \in 1..(Len(stack) - 1) : i \in 1..Len(stack) /\ i # Len(stack)
          /\ \A i \in 1..Len(stack) : i # Len(stack) => i \in 1..(Len(stack) - 1)
      BY <2>2, <2>a
    <2>7. \A i \in DOMAIN stack' : stack'[i].stmt # NoStmt =>
              i \in DOMAIN stack /\ stack'[i] = stack[i]
      <3>1. CASE Pop
        <4>1. /\ DOMAIN stack' = 1..(Len(stack) - 1) /\ DOMAIN stack = 1..Len(stack)
              /\ \A i \in 1..(Len(stack) - 1) : stack'[i] = stack[i]
          BY <2>1, <3>1, PopFacts DEF TypeOK
        <4> QED BY <2>b, <4>1
      <3>2. CASE SetTop(f)
        <4>1. /\ DOMAIN stack' = 1..Len(stack) /\ DOMAIN stack = 1..Len(stack)
              /\ stack'[Len(stack)] = f
              /\ \A i \in 1..(Len(stack) - 1) : stack'[i] = stack[i]
          BY <2>1, <2>5, <3>2, SetTopFacts DEF TypeOK
        <4> QED BY <2>5, <2>b, <4>1
      <3> QED BY <2>1, <3>1, <3>2
    <2> QED BY <1>0, <2>1, <2>2, <2>6, <2>7, FetchStmts
  <1>4. CASE FetchReturns \/ FetchNoMem
    BY <1>0, <1>4, InvPop DEF FetchReturns, FetchNoMem, InCall, curVars, sqlVars
  <1>5. \A c \in Cursors : arraysize[c] \in Int
    BY DEF TypeOK
  <1> QED
    BY <1>0, <1>1, <1>2, <1>3, <1>4, <1>5, SizesAssumption DEF FetchOne, IterNext, FetchAll

LEMMA InvCallback ==
    ASSUME Inv, TraceReturns \/ TraceReturnsToFreed \/ Unwinds
    PROVE  Inv'
  <1> USE DEF Inv
  <1>0. TypeOK'
    BY TypeCall
  <1>1. CASE TraceReturns
    <2> DEFINE f == [Top EXCEPT !.phase = "run"]
    <2>1. /\ stack # <<>> /\ Top.phase = "trace" /\ vdbe[Top.stmt].state = "run"
          /\ SetTop(f) /\ UNCHANGED <<vdbe, stmt, rc>>
      BY <1>1 DEF TraceReturns, curVars, sqlVars
    <2>2. /\ Top \in Frame /\ Top = stack[Len(stack)]
          /\ Len(stack) \in DOMAIN stack /\ Len(stack) \in Nat
      BY <2>1, TopFacts DEF TypeOK
    <2>3. /\ f \in Frame /\ f.op = Top.op /\ f.stmt = Top.stmt /\ f.cur = Top.cur
          /\ f.phase = "run"
      BY <2>2 DEF Frame
    <2> HIDE DEF f
    <2>4. Shaped(f)
      BY <2>1, <2>2, <2>3 DEF FrameShape, Shaped, Frame
    <2>5. FrameShape'
      BY <2>1, <2>3, <2>4, ShapeSetTop
    <2>6. /\ DOMAIN stack' = 1..Len(stack) /\ DOMAIN stack = 1..Len(stack)
          /\ stack'[Len(stack)] = f
          /\ \A i \in 1..(Len(stack) - 1) : stack'[i] = stack[i]
      BY <2>1, <2>3, SetTopFacts DEF TypeOK
    <2>7. \A n \in Nat : \A i \in 1..n : i # n => i \in 1..(n - 1)
      OBVIOUS
    <2>8. \A i \in 1..Len(stack) : i # Len(stack) => i \in 1..(Len(stack) - 1)
      BY <2>2, <2>7
    <2>9. \A i \in DOMAIN stack' :
            /\ i \in DOMAIN stack
            /\ stack'[i].stmt = stack[i].stmt
            /\ stack'[i].op = stack[i].op
            /\ stack'[i].cur = stack[i].cur
            /\ stack'[i].phase = "run" => vdbe[stack[i].stmt].state = "run"
      <3>1. SUFFICES ASSUME NEW i \in DOMAIN stack', i # Len(stack)
                     PROVE  stack'[i] = stack[i] /\ stack[i].phase = "trace"
        BY <2>1, <2>2, <2>3, <2>6
      <3> QED BY <2>6, <2>8, <3>1 DEF FrameShape
    <2> QED BY <1>0, <2>1, <2>5, <2>9, KeptStmts
  <1>2. CASE TraceReturnsToFreed
    BY <1>0, <1>2 DEF TraceReturnsToFreed, curVars, sqlVars, FrameShape, FrameStmts,
                      CursorStmts, RcTellsTheTruth
  <1>3. CASE Unwinds
    BY <1>0, <1>3, InvPop DEF Unwinds, curVars, sqlVars
  <1> QED BY <1>1, <1>2, <1>3

LEMMA InvConnection ==
    ASSUME Inv,
           \/ \E c \in Cursors : NewCursor(c) \/ UsesFreedCursor(c)
           \/ \E c \in Cursors, n \in Sizes : SetArraysize(c, n)
           \/ \E on \in BOOLEAN : SetTraceCallback(on)
           \/ CloseConnection \/ UsesNullDb \/ Terminated
    PROVE  Inv'
  <1> USE DEF Inv
  <1>0. TypeOK'
    BY TypeConnection
  <1>1. CASE CloseConnection
    BY <1>0, <1>1, CloseConnectionStmts
  <1>2. CASE ~CloseConnection
    <2>1. UNCHANGED <<stack, vdbe, stmt, rc>>
      BY <1>2 DEF NewCursor, UsesFreedCursor, SetArraysize, SetTraceCallback, UsesNullDb,
                  Terminated, vars, curVars, sqlVars
    <2> QED BY <1>0, <2>1 DEF FrameShape, FrameStmts, CursorStmts, RcTellsTheTruth
  <1> QED BY <1>1, <1>2

LEMMA InvStep ==
    ASSUME Inv, [Next]_vars
    PROVE  Inv'
  <1>1. CASE UNCHANGED vars
    <2>1. UNCHANGED <<stack, vdbe, stmt, rc>> /\ TypeOK'
      BY <1>1, TypeStep DEF Inv, vars, curVars, sqlVars
    <2> QED BY <2>1 DEF Inv, FrameShape, FrameStmts, CursorStmts, RcTellsTheTruth
  <1>2. CASE Next
    BY <1>2, InvExecute, InvCall, InvMany, InvFetch, InvCallback, InvConnection
       DEF Next, ProgramStep, CallStep, CallbackStep, ConnectionStep
  <1> QED BY <1>1, <1>2

LEMMA InvInit ==
    ASSUME Init PROVE Inv
  <1>1. TypeOK
    <2>1. <<>> \in Seq(Frame) /\ <<>> \in Seq(Row)
      BY EmptySeq
    <2>2. vdbe \in [Stmts -> Vdbe]
      BY StmtRecords DEF Init
    <2>3. /\ nChange \in 0..MaxChanges /\ stack \in Seq(Frame)
          /\ delivered \in [Cursors -> Seq(Row)]
      BY <2>1, ChangesAssumption DEF Init
    <2>4. /\ stmt \in [Cursors -> Stmts \cup {NoStmt}] /\ rc \in [Cursors -> Codes]
          /\ rowcount \in [Cursors -> Int] /\ arraysize \in [Cursors -> Int]
          /\ obj \in [Cursors -> {"none", "live", "freed"}]
      BY DEF Init, Codes
    <2>5. /\ db \in {"open", "NULL"} /\ registered \subseteq Cursors /\ held \subseteq Cursors
          /\ sqliteDb \in {"open", "closed"} /\ nVdbeExec \in Int
          /\ fault \in {"none", "use-after-free", "null-deref", "stale-statement"}
      BY DEF Init
    <2>6. tracing \in BOOLEAN
      BY Zenon DEF Init
    <2> QED BY <2>2, <2>3, <2>4, <2>5, <2>6 DEF TypeOK
  <1>2. FrameShape /\ FrameStmts /\ CursorStmts /\ RcTellsTheTruth
    BY EmptySeq DEF Init, FrameShape, FrameStmts, CursorStmts, RcTellsTheTruth
  <1> QED BY <1>1, <1>2 DEF Inv

LEMMA InvAlways == Spec => []Inv
  <1>1. Init => Inv
    BY InvInit
  <1>2. Inv /\ [Next]_vars => Inv'
    BY InvStep
  <1> QED BY <1>1, <1>2, PTL DEF Spec

\* Every variable keeps its type, whatever the program does.
THEOREM TypeCorrect == Spec => []TypeOK
  <1>1. Inv => TypeOK
    BY DEF Inv
  <1> QED BY <1>1, InvAlways, PTL

\* rc, which the fetch operations of usqlite_cursor.c decide by, tells the
\* truth about the cursor's statement, whatever the program does: exceptions
\* that cross SQLite and misuse included.
THEOREM RcTruth == Spec => []RcTellsTheTruth
  <1>1. Inv => RcTellsTheTruth
    BY DEF Inv
  <1> QED BY <1>1, InvAlways, PTL

-----------------------------------------------------------------------------
(* Ownership of statements, for programs whose callbacks do not raise, do  *)
(* not close what is running below them, and that leave deleted cursors    *)
(* alone.                                                                  *)

Ordinary == Habits \cap {"reenter", "throw", "use_after_del"} = {}

\* The parts of Owned: a statement that is not finalized has an owner; only
\* a live cursor on the connection's list has a statement; the program has
\* references to such cursors only, or to freed ones; so have the calls on
\* the stack; after close nothing is left.
UnfinalizedOwned ==
    \A s \in Stmts : vdbe[s].state # "free" =>
        \/ \E c \in registered : obj[c] = "live" /\ stmt[c] = s
        \/ \E i \in ExecFrames : stack[i].stmt = s

OwnersListed ==
    /\ \A c \in Cursors : stmt[c] # NoStmt => c \in registered /\ obj[c] = "live"
    /\ \A c \in held : obj[c] = "live" => c \in registered
    /\ \A i \in DOMAIN stack : stack[i].cur \in registered /\ obj[stack[i].cur] = "live"

NothingLeft ==
    db = "NULL" => /\ stack = <<>> /\ sqliteDb = "closed"
                   /\ \A s \in Stmts : vdbe[s].state = "free"

Owned == UnfinalizedOwned /\ OwnersListed /\ NothingLeft

\* The cursor execute and executemany work on is on the list when they begin.
LEMMA CalleeListed ==
    ASSUME TypeOK, OwnersListed, NEW c \in Cursors, Callee(c)
    PROVE  /\ c \in registered' /\ obj'[c] = "live"
           /\ registered' = registered \cup {c}
           /\ \A d \in Cursors \ {c} : obj'[d] = obj[d]
           /\ obj[c] = "none" \/ (c \in held /\ obj[c] = "live")
           /\ Existing(c) \/ stmt[c] = NoStmt
  <1>1. CASE MakeNew(c)
    BY <1>1 DEF TypeOK, MakeNew, OwnersListed
  <1>2. CASE Existing(c)
    BY <1>2 DEF TypeOK, Existing, OwnersListed
  <1> QED BY <1>1, <1>2 DEF Callee

\* execute and executemany begin, or a cursor is closed: only c's statement
\* is finalized, and what is new is c's.
LEMMA OwnedReplaced ==
    ASSUME Inv, Owned, NEW c \in Cursors, UNCHANGED <<db, sqliteDb, held>>,
           /\ c \in registered' /\ obj'[c] = "live"
           /\ registered' = registered \cup {c}
           /\ \A d \in Cursors \ {c} : obj'[d] = obj[d],
           \A d \in Cursors \ {c} : stmt'[d] = stmt[d],
           \A s \in Stmts : \/ vdbe'[s].state = "free"
                            \/ s # stmt[c] /\ vdbe'[s] = vdbe[s]
                            \/ stmt'[c] = s /\ db = "open",
           \/ UNCHANGED stack
           \/ db = "open" /\ \E f \in Frame : f.cur = c /\ Push(f)
    PROVE  Owned'
  <1> USE DEF Inv, Owned
  <1>0. /\ \A i \in DOMAIN stack : stack[i] \in Frame
        /\ registered \subseteq Cursors
        /\ held \subseteq Cursors
        /\ DOMAIN stack = 1..Len(stack) /\ Len(stack) \in Nat
    BY LenProperties DEF TypeOK
  <1>1. /\ \A i \in DOMAIN stack : i \in DOMAIN stack' /\ stack'[i] = stack[i]
        /\ \A i \in DOMAIN stack' :
             \/ i \in DOMAIN stack /\ stack'[i] = stack[i]
             \/ stack'[i].cur = c
    <2>1. CASE UNCHANGED stack
      BY <2>1
    <2>2. CASE \E f \in Frame : f.cur = c /\ Push(f)
      <3>1. PICK f \in Frame : f.cur = c /\ Push(f)
        BY <2>2
      <3>2. /\ DOMAIN stack' = 1..(Len(stack) + 1)
            /\ stack'[Len(stack) + 1] = f
            /\ \A i \in 1..Len(stack) : stack'[i] = stack[i]
        BY <3>1, PushFacts DEF TypeOK
      <3>3. \A i \in 1..(Len(stack) + 1) : i \in 1..Len(stack) \/ i = Len(stack) + 1
        BY <1>0
      <3>4. \A i \in 1..Len(stack) : i \in 1..(Len(stack) + 1)
        BY <1>0
      <3> QED BY <1>0, <3>1, <3>2, <3>3, <3>4
    <2> QED BY <2>1, <2>2
  <1>2. UnfinalizedOwned'
    <2> SUFFICES ASSUME NEW s \in Stmts, vdbe'[s].state # "free"
                 PROVE  \/ \E d \in registered' : obj'[d] = "live" /\ stmt'[d] = s
                        \/ \E i \in DOMAIN stack' :
                               stack'[i].op = "executemany" /\ stack'[i].stmt = s
      BY DEF UnfinalizedOwned, ExecFrames
    <2>1. CASE s = stmt'[c]
      BY <2>1
    <2>2. CASE s # stmt[c] /\ vdbe'[s] = vdbe[s]
      <3>1. CASE \E d \in registered : obj[d] = "live" /\ stmt[d] = s
        BY <1>0, <2>2, <3>1
      <3>2. CASE \E i \in DOMAIN stack : stack[i].op = "executemany" /\ stack[i].stmt = s
        BY <1>1, <3>2
      <3> QED BY <2>2, <3>1, <3>2 DEF UnfinalizedOwned, ExecFrames
    <2> QED BY <2>1, <2>2
  <1>3. OwnersListed'
    <2>1. \A d \in Cursors : stmt'[d] # NoStmt => d \in registered' /\ obj'[d] = "live"
      BY DEF OwnersListed
    <2>2. \A d \in held : obj'[d] = "live" => d \in registered'
      BY <1>0 DEF OwnersListed
    <2>3. \A i \in DOMAIN stack' :
            stack'[i].cur \in registered' /\ obj'[stack'[i].cur] = "live"
      <3> SUFFICES ASSUME NEW i \in DOMAIN stack', stack'[i].cur # c
                   PROVE  stack'[i].cur \in registered' /\ obj'[stack'[i].cur] = "live"
        OBVIOUS
      <3>1. i \in DOMAIN stack /\ stack'[i] = stack[i]
        BY <1>1
      <3>2. stack[i].cur \in registered /\ obj[stack[i].cur] = "live"
        BY <3>1 DEF OwnersListed
      <3> QED BY <1>0, <3>1, <3>2
    <2> QED BY <2>1, <2>2, <2>3 DEF OwnersListed
  <1>4. NothingLeft'
    <2> SUFFICES ASSUME db = "NULL"
                 PROVE  /\ stack' = <<>> /\ sqliteDb = "closed"
                        /\ \A s \in Stmts : vdbe'[s].state = "free"
      BY DEF NothingLeft
    <2> QED BY DEF NothingLeft
  <1> QED BY <1>2, <1>3, <1>4

\* Calls go on or return: cursors keep their statements, sqlite3_exec
\* finalizes its own before it forgets it.
LEMMA OwnedKept ==
    ASSUME Inv, Owned, UNCHANGED <<db, sqliteDb, stmt, obj, registered>>,
           \A s \in Stmts : vdbe'[s].state # "free" =>
               \/ vdbe[s].state # "free"
               \/ \E i \in DOMAIN stack' : stack'[i].op = "executemany" /\ stack'[i].stmt = s,
           \A i \in DOMAIN stack : stack[i].op = "executemany" /\ stack[i].stmt # NoStmt =>
               \/ vdbe'[stack[i].stmt].state = "free"
               \/ \E j \in DOMAIN stack' :
                     stack'[j].op = "executemany" /\ stack'[j].stmt = stack[i].stmt,
           \A i \in DOMAIN stack' :
               stack'[i].cur \in registered /\ obj[stack'[i].cur] = "live",
           \A c \in held' : c \in held \/ \E i \in DOMAIN stack : c = stack[i].cur,
           db = "open" \/ UNCHANGED <<stack, vdbe>>
    PROVE  Owned'
  <1> USE StmtAssumption DEF Inv, Owned
  <1>1. UnfinalizedOwned'
    <2> SUFFICES ASSUME NEW s \in Stmts, vdbe'[s].state # "free"
                 PROVE  \/ \E d \in registered : obj[d] = "live" /\ stmt[d] = s
                        \/ \E i \in DOMAIN stack' :
                               stack'[i].op = "executemany" /\ stack'[i].stmt = s
      BY DEF UnfinalizedOwned, ExecFrames
    <2>1. CASE vdbe[s].state # "free"
      <3>1. CASE \E i \in DOMAIN stack : stack[i].op = "executemany" /\ stack[i].stmt = s
        BY <3>1
      <3> QED BY <2>1, <3>1 DEF UnfinalizedOwned, ExecFrames
    <2> QED BY <2>1
  <1>2. OwnersListed'
    BY DEF OwnersListed
  <1>3. NothingLeft'
    BY DEF NothingLeft
  <1> QED BY <1>1, <1>2, <1>3

\* While a call is on the stack or a cursor has a row, the connection is open.
LEMMA OpenWhileUsed ==
    ASSUME Inv, Owned
    PROVE  /\ stack # <<>> => db = "open"
           /\ \A c \in Cursors : rc[c] = "ROW" => db = "open"
  <1>1. \A c \in Cursors : rc[c] = "ROW" => stmt[c] \in Stmts /\ vdbe[stmt[c]].state = "run"
    BY RowToBuild DEF Inv
  <1> QED BY <1>1 DEF Inv, Owned, NothingLeft, TypeOK

LEMMA OwnedExecute ==
    ASSUME Ordinary, Inv, Owned, NEW c \in Cursors,
           \/ Rejected(c) \/ ExecuteBlank(c) \/ ExecuteUnbound(c)
           \/ ExecuteBegins(c) \/ ManyBegins(c) \/ CloseCursor(c) \/ DelCursor(c)
    PROVE  Owned'
  <1> USE DEF Inv, Owned
  <1>0. /\ \A s \in Stmts : s # stmt[c] => ClosedVdbe(c)[s] = vdbe[s]
        /\ \A s \in Stmts : s = stmt[c] => ClosedVdbe(c)[s].state = "free"
        /\ ClosedVdbe(c) \in [Stmts -> Vdbe]
    BY StmtFields, ClosedTyped, StmtAssumption DEF TypeOK, ClosedVdbe
  <1>1. ASSUME Callee(c)
        PROVE  /\ c \in registered' /\ obj'[c] = "live"
               /\ registered' = registered \cup {c}
               /\ \A d \in Cursors \ {c} : obj'[d] = obj[d]
    BY <1>1, CalleeListed
  <1>2. CASE Rejected(c) \/ ExecuteBlank(c) \/ ManyBegins(c) \/ CloseCursor(c)
    <2>1. /\ UNCHANGED <<db, sqliteDb, held>>
          /\ Callee(c)
          /\ vdbe' = ClosedVdbe(c)
          /\ stmt' = [stmt EXCEPT ![c] = NoStmt]
      BY <1>2 DEF Rejected, ExecuteBlank, ManyBegins, CloseCursor, Callee
    <2>2. \/ UNCHANGED stack
          \/ db = "open" /\ \E f \in Frame : f.cur = c /\ Push(f)
      <3>1. CASE ManyBegins(c)
        <4> DEFINE f == [op |-> "executemany", cur |-> c, stmt |-> NoStmt, phase |-> "next",
                         left |-> MaxScript, size |-> 0, rows |-> <<>>]
        <4>1. db = "open" /\ Push(f)
          BY <3>1 DEF ManyBegins
        <4>2. f \in Frame /\ f.cur = c
          BY FramesTyped
        <4> QED BY <4>1, <4>2
      <3> QED BY <1>2, <3>1 DEF Rejected, ExecuteBlank, CloseCursor
    <2>3. \A d \in Cursors \ {c} : stmt'[d] = stmt[d]
      BY <2>1 DEF TypeOK
    <2>4. \A s \in Stmts : vdbe'[s].state = "free" \/ (s # stmt[c] /\ vdbe'[s] = vdbe[s])
      BY <1>0, <2>1
    <2> QED BY <1>1, <2>1, <2>2, <2>3, <2>4, OwnedReplaced
  <1>3. CASE ExecuteUnbound(c) \/ ExecuteBegins(c)
    <2>1. /\ UNCHANGED <<db, sqliteDb, held>> /\ db = "open"
          /\ Callee(c)
          /\ \E s \in Stmts, v \in Vdbe :
               /\ vdbe' = [ClosedVdbe(c) EXCEPT ![s] = v]
               /\ stmt' = [stmt EXCEPT ![c] = s]
      BY <1>3, StmtRecords DEF ExecuteUnbound, ExecuteBegins, Fresh
    <2>2. \/ UNCHANGED stack
          \/ \E f \in Frame : f.cur = c /\ Push(f)
      <3>1. CASE ExecuteBegins(c)
        <4>1. PICK s \in Stmts :
                Push([op |-> "execute", cur |-> c, stmt |-> s, phase |-> StepPhase,
                      left |-> 0, size |-> 0, rows |-> <<>>])
          BY <3>1 DEF ExecuteBegins, Fresh
        <4> DEFINE f == [op |-> "execute", cur |-> c, stmt |-> s, phase |-> StepPhase,
                         left |-> 0, size |-> 0, rows |-> <<>>]
        <4>2. f \in Frame /\ f.cur = c
          BY FramesTyped
        <4> QED BY <4>1, <4>2
      <3> QED BY <1>3, <3>1 DEF ExecuteUnbound
    <2>3. PICK s \in Stmts, v \in Vdbe :
            vdbe' = [ClosedVdbe(c) EXCEPT ![s] = v] /\ stmt' = [stmt EXCEPT ![c] = s]
      BY <2>1
    <2>4. stmt'[c] = s /\ \A d \in Cursors \ {c} : stmt'[d] = stmt[d]
      BY <2>3 DEF TypeOK
    <2>5. \A t \in Stmts : \/ vdbe'[t].state = "free"
                           \/ t # stmt[c] /\ vdbe'[t] = vdbe[t]
                           \/ stmt'[c] = t
      BY <1>0, <2>3, <2>4
    <2> QED BY <1>1, <2>1, <2>2, <2>4, <2>5, OwnedReplaced
  <1>4. CASE DelCursor(c)
    <2>1. /\ db = "open" /\ UNCHANGED <<db, sqliteDb, obj, stack>>
          /\ vdbe' = ClosedVdbe(c)
          /\ stmt' = [stmt EXCEPT ![c] = NoStmt]
          /\ registered' = registered \ {c}
          /\ held' = held \ {c}
          /\ \A i \in DOMAIN stack : stack[i].cur # c
      BY <1>4 DEF DelCursor, Ordinary
    <2>2. stmt'[c] = NoStmt /\ \A d \in Cursors \ {c} : stmt'[d] = stmt[d]
      BY <2>1 DEF TypeOK
    <2>3. UnfinalizedOwned'
      <3> SUFFICES ASSUME NEW s \in Stmts, vdbe'[s].state # "free"
                   PROVE  \/ \E d \in registered \ {c} : obj[d] = "live" /\ stmt'[d] = s
                          \/ \E i \in ExecFrames : stack[i].stmt = s
        BY <2>1 DEF UnfinalizedOwned, ExecFrames
      <3>1. s # stmt[c] /\ vdbe[s].state # "free"
        BY <1>0, <2>1
      <3>2. CASE \E d \in registered : obj[d] = "live" /\ stmt[d] = s
        BY <2>2, <3>1, <3>2 DEF TypeOK
      <3> QED BY <3>1, <3>2 DEF UnfinalizedOwned
    <2>4. OwnersListed'
      BY <2>1, <2>2 DEF OwnersListed
    <2>5. NothingLeft'
      BY <2>1 DEF NothingLeft
    <2> QED BY <2>3, <2>4, <2>5
  <1> QED BY <1>2, <1>3, <1>4

\* The frames a call leaves on the stack when it pushes, pops or replaces one.
LEMMA PopKeeps ==
    ASSUME TypeOK, stack # <<>>, Pop
    PROVE  /\ \A i \in DOMAIN stack' :
                  i \in DOMAIN stack /\ i # Len(stack) /\ stack'[i] = stack[i]
           /\ \A i \in DOMAIN stack : i # Len(stack) =>
                  i \in DOMAIN stack' /\ stack'[i] = stack[i]
  <1>1. /\ DOMAIN stack' = 1..(Len(stack) - 1) /\ DOMAIN stack = 1..Len(stack)
        /\ \A i \in 1..(Len(stack) - 1) : stack'[i] = stack[i]
        /\ Len(stack) \in Nat
    BY PopFacts, LenProperties DEF TypeOK
  <1>2. \A n \in Nat : /\ \A i \in 1..(n - 1) : i \in 1..n /\ i # n
                       /\ \A i \in 1..n : i # n => i \in 1..(n - 1)
    OBVIOUS
  <1>3. /\ \A i \in 1..(Len(stack) - 1) : i \in 1..Len(stack) /\ i # Len(stack)
        /\ \A i \in 1..Len(stack) : i # Len(stack) => i \in 1..(Len(stack) - 1)
    BY <1>1, <1>2
  <1> QED BY <1>1, <1>3

LEMMA SetTopKeeps ==
    ASSUME TypeOK, stack # <<>>, NEW f, SetTop(f)
    PROVE  /\ DOMAIN stack' = DOMAIN stack
           /\ Len(stack) \in DOMAIN stack
           /\ stack'[Len(stack)] = f
           /\ \A i \in DOMAIN stack : i # Len(stack) => stack'[i] = stack[i]
  <1>1. Len(stack) \in DOMAIN stack
    BY TopFacts DEF TypeOK
  <1> QED BY <1>1 DEF SetTop

\* execute returns, or the callback does; no statement of executemany ends.
LEMMA OwnedCall ==
    ASSUME Ordinary, Inv, Owned,
           \/ ExecuteRow \/ ExecuteDone \/ ExecuteFails
           \/ ManyRejects \/ ManyReturns
           \/ FetchReturns \/ FetchNoMem \/ Unwinds
    PROVE  Owned'
  <1> USE DEF Inv, Owned, connVars, objVars, curVars, sqlVars
  <1>1. /\ stack # <<>> /\ Pop /\ UNCHANGED <<db, sqliteDb, stmt, obj, registered>>
        /\ held' \subseteq held \cup {Top.cur}
        /\ \/ Top.op # "executemany"
           \/ Top.phase = "next"
    BY DEF Ordinary, ExecuteRow, ExecuteDone, ExecuteFails, ManyRejects, ManyReturns,
           FetchReturns, FetchNoMem, Unwinds, InCall
  <1>2. /\ Top = stack[Len(stack)] /\ Len(stack) \in DOMAIN stack
        /\ Top.op = "executemany" => Top.stmt = NoStmt
    BY <1>1, TopFacts DEF TypeOK, FrameShape, Shaped
  <1>3. \A s \in Stmts : vdbe'[s].state # "free" => vdbe[s].state # "free"
    <2>1. CASE ExecuteRow \/ ExecuteDone \/ ExecuteFails
      <3>1. /\ Top.op = "execute" /\ Top.phase = "run"
            /\ \/ StepRow(Top.cur) \/ StepHalts(Top.cur, "DONE")
               \/ StepHalts(Top.cur, "ERROR")
        BY <2>1 DEF ExecuteRow, ExecuteDone, ExecuteFails, StepError, InCall
      <3>2. Top.stmt \in Stmts /\ Top.stmt # NoStmt /\ Top.cur \in Cursors
        <4>1. Top.stmt \in Stmts
          BY <1>2, <3>1 DEF FrameShape, Shaped
        <4>2. Top \in Frame
          BY <1>1, TopFacts DEF TypeOK
        <4> QED BY <4>1, <4>2, StmtAssumption DEF Frame
      <3>3. vdbe[Top.stmt].state = "run" /\ stmt[Top.cur] = Top.stmt
        BY <1>2, <3>1, <3>2 DEF FrameStmts, Agrees
      <3>4. PICK w \in Vdbe : vdbe' = [vdbe EXCEPT ![Top.stmt] = w]
        BY <3>1, <3>2, <3>3, StepOutcome
      <3> QED BY <3>2, <3>3, <3>4 DEF TypeOK
    <2>2. CASE ManyRejects \/ ManyReturns \/ FetchReturns \/ FetchNoMem \/ Unwinds
      BY <2>2 DEF ManyRejects, ManyReturns, FetchReturns, FetchNoMem, Unwinds
    <2> QED BY <2>1, <2>2
  <1>4. /\ \A i \in DOMAIN stack' : i \in DOMAIN stack /\ stack'[i] = stack[i]
        /\ \A i \in DOMAIN stack : i # Len(stack) =>
               i \in DOMAIN stack' /\ stack'[i] = stack[i]
    BY <1>1, PopKeeps
  <1>5. \A i \in DOMAIN stack : stack[i].op = "executemany" /\ stack[i].stmt # NoStmt =>
            \E j \in DOMAIN stack' :
                stack'[j].op = "executemany" /\ stack'[j].stmt = stack[i].stmt
    BY <1>2, <1>4
  <1>6. \A i \in DOMAIN stack' :
            stack'[i].cur \in registered /\ obj[stack'[i].cur] = "live"
    BY <1>4 DEF OwnersListed
  <1>7. \A c \in held' : c \in held \/ \E i \in DOMAIN stack : c = stack[i].cur
    BY <1>1, <1>2
  <1>8. db = "open"
    BY <1>1, OpenWhileUsed
  <1> QED BY <1>1, <1>3, <1>5, <1>6, <1>7, <1>8, OwnedKept

LEMMA OwnedMany ==
    ASSUME Inv, Owned, ManyPrepares \/ ManyStmtDone \/ ManyFails
    PROVE  Owned'
  <1> USE DEF Inv, Owned, connVars, objVars, curVars, sqlVars
  <1>1. /\ stack # <<>> /\ UNCHANGED <<db, sqliteDb, stmt, obj, registered, held>>
        /\ Top.op = "executemany"
    BY DEF ManyPrepares, ManyStmtDone, ManyFails, InCall
  <1>2. /\ Top = stack[Len(stack)] /\ Len(stack) \in DOMAIN stack /\ Top \in Frame
        /\ db = "open"
    BY <1>1, TopFacts, OpenWhileUsed DEF TypeOK
  <1>3. CASE ManyPrepares
    <2>1. PICK s \in Stmts, counts \in BOOLEAN :
            /\ vdbe' = [vdbe EXCEPT ![s] = Started(Prepared(counts))]
            /\ SetTop([Top EXCEPT !.stmt = s, !.phase = StepPhase, !.left = @ - 1])
      BY <1>3 DEF ManyPrepares, Fresh
    <2>a. Top.phase = "next"
      BY <1>3 DEF ManyPrepares, InCall
    <2> DEFINE f == [Top EXCEPT !.stmt = s, !.phase = StepPhase, !.left = @ - 1]
    <2>2. f.op = "executemany" /\ f.stmt = s /\ f.cur = Top.cur /\ SetTop(f)
      BY <1>1, <1>2, <2>1 DEF Frame
    <2> HIDE DEF f
    <2>3. /\ DOMAIN stack' = DOMAIN stack /\ stack'[Len(stack)] = f
          /\ \A i \in DOMAIN stack : i # Len(stack) => stack'[i] = stack[i]
      BY <1>1, <2>2, SetTopKeeps
    <2>4. \A t \in Stmts : vdbe'[t].state # "free" =>
            vdbe[t].state # "free"
            \/ \E i \in DOMAIN stack' : stack'[i].op = "executemany" /\ stack'[i].stmt = t
      BY <1>2, <2>1, <2>2, <2>3 DEF TypeOK
    <2>5. Top.stmt = NoStmt
      BY <1>1, <1>2, <2>a DEF FrameShape, Shaped
    <2>6. \A i \in DOMAIN stack : stack[i].op = "executemany" /\ stack[i].stmt # NoStmt =>
            \E j \in DOMAIN stack' :
                stack'[j].op = "executemany" /\ stack'[j].stmt = stack[i].stmt
      BY <1>2, <2>3, <2>5
    <2>7. \A i \in DOMAIN stack' :
            stack'[i].cur \in registered /\ obj[stack'[i].cur] = "live"
      BY <1>2, <2>2, <2>3 DEF OwnersListed
    <2> QED BY <1>1, <1>2, <2>4, <2>6, <2>7, OwnedKept
  <1>4. CASE ManyStmtDone \/ ManyFails
    <2> DEFINE f == [Top EXCEPT !.stmt = NoStmt, !.phase = "next"]
    <2>1. /\ vdbe' = [vdbe EXCEPT ![Top.stmt] = FreeVdbe]
          /\ SetTop(f) \/ Pop
      BY <1>4 DEF ManyStmtDone, ManyFails, ManyFinalizes
    <2>2. f.op = "executemany" /\ f.cur = Top.cur
      BY <1>1, <1>2 DEF Frame
    <2> HIDE DEF f
    <2>3. /\ \A t \in Stmts : vdbe'[t].state # "free" => vdbe[t].state # "free"
          /\ Top.stmt # NoStmt => vdbe'[Top.stmt].state = "free"
      <3>1. Top.stmt \in Stmts \cup {NoStmt}
        BY <1>2 DEF Frame
      <3> QED BY <2>1, <3>1, StmtFields DEF TypeOK
    <2>4. /\ \A i \in DOMAIN stack : i # Len(stack) =>
               i \in DOMAIN stack' /\ stack'[i] = stack[i]
          /\ \A i \in DOMAIN stack' : i \in DOMAIN stack /\ stack'[i].cur = stack[i].cur
      <3>1. CASE Pop
        BY <1>1, <3>1, PopKeeps
      <3>2. CASE SetTop(f)
        BY <1>1, <1>2, <2>2, <3>2, SetTopKeeps
      <3> QED BY <2>1, <3>1, <3>2
    <2>5. \A i \in DOMAIN stack : stack[i].op = "executemany" /\ stack[i].stmt # NoStmt =>
            \/ vdbe'[stack[i].stmt].state = "free"
            \/ \E j \in DOMAIN stack' :
                  stack'[j].op = "executemany" /\ stack'[j].stmt = stack[i].stmt
      BY <1>2, <2>3, <2>4
    <2>6. \A i \in DOMAIN stack' :
            stack'[i].cur \in registered /\ obj[stack'[i].cur] = "live"
      BY <2>4 DEF OwnersListed
    <2> QED BY <1>1, <1>2, <2>3, <2>5, <2>6, OwnedKept
  <1> QED BY <1>3, <1>4

LEMMA OwnedFetch ==
    ASSUME Inv, Owned,
           \/ \E c \in Cursors : FetchOne(c) \/ IterNext(c) \/ FetchAll(c)
           \/ \E c \in Cursors : \E n \in Sizes \cup {arraysize[c]} : FetchMany(c, n)
           \/ FetchLoop
    PROVE  Owned'
  <1> USE DEF Inv, Owned, connVars, objVars
  <1>1. ASSUME NEW c \in Cursors, rc[c] = "ROW",
               StepRow(c) \/ StepDone(c) \/ StepError(c)
        PROVE  /\ db = "open"
               /\ \A s \in Stmts : vdbe'[s].state # "free" => vdbe[s].state # "free"
    <2>1. stmt[c] \in Stmts /\ vdbe[stmt[c]].state = "run"
      BY <1>1, RowToBuild
    <2>2. PICK w \in Vdbe : vdbe' = [vdbe EXCEPT ![stmt[c]] = w]
      BY <1>1, <2>1, StepOutcome DEF StepDone, StepError
    <2> QED BY <1>1, <2>1, <2>2, OpenWhileUsed DEF TypeOK
  <1>2. ASSUME NEW c \in Cursors, HasRow(c),
               StepRow(c) \/ StepDone(c) \/ StepError(c),
               UNCHANGED <<db, registered, obj, held, stmt, sqliteDb>>,
               UNCHANGED stack \/ \E f \in Frame : f.op = "fetchmany" /\ f.cur = c /\ Push(f)
        PROVE  Owned'
    <2>1. /\ db = "open" /\ c \in held /\ obj[c] = "live" /\ c \in registered
          /\ \A s \in Stmts : vdbe'[s].state # "free" => vdbe[s].state # "free"
      BY <1>1, <1>2 DEF HasRow, OwnersListed
    <2>2. /\ \A i \in DOMAIN stack : i \in DOMAIN stack' /\ stack'[i] = stack[i]
          /\ \A i \in DOMAIN stack' :
               (i \in DOMAIN stack /\ stack'[i] = stack[i]) \/ stack'[i].cur = c
      <3>1. CASE UNCHANGED stack
        BY <3>1
      <3>2. CASE \E f \in Frame : f.op = "fetchmany" /\ f.cur = c /\ Push(f)
        <4>1. PICK f \in Frame : f.cur = c /\ Push(f)
          BY <3>2
        <4>2. /\ DOMAIN stack' = 1..(Len(stack) + 1) /\ DOMAIN stack = 1..Len(stack)
              /\ stack'[Len(stack) + 1] = f
              /\ \A i \in 1..Len(stack) : stack'[i] = stack[i]
              /\ Len(stack) \in Nat
          BY <4>1, PushFacts, LenProperties DEF TypeOK
        <4>3. /\ \A i \in 1..(Len(stack) + 1) : i \in 1..Len(stack) \/ i = Len(stack) + 1
              /\ \A i \in 1..Len(stack) : i \in 1..(Len(stack) + 1)
          BY <4>2
        <4> QED BY <4>1, <4>2, <4>3
      <3> QED BY <1>2, <3>1, <3>2
    <2>3. \A i \in DOMAIN stack' :
            stack'[i].cur \in registered /\ obj[stack'[i].cur] = "live"
      BY <2>1, <2>2 DEF OwnersListed
    <2> QED BY <1>2, <2>1, <2>2, <2>3, OwnedKept
  <1>3. ASSUME NEW c \in Cursors, HasRow(c), ReturnsOneRow(c)
        PROVE  Owned'
    <2>1. /\ StepRow(c) \/ StepDone(c) \/ StepError(c)
          /\ UNCHANGED <<db, registered, obj, held, stmt, sqliteDb, stack>>
      BY <1>3 DEF ReturnsOneRow
    <2> QED BY <1>2, <1>3, <2>1
  <1>4. ASSUME NEW c \in Cursors, NEW n \in Int, FetchMany(c, n)
        PROVE  Owned'
    <2> DEFINE f == [op |-> "fetchmany", cur |-> c, stmt |-> NoStmt, phase |-> "loop",
                     left |-> 0, size |-> n, rows |-> <<BuiltRow(c)>>]
    <2>1. /\ StepRow(c) \/ StepDone(c) \/ StepError(c)
          /\ UNCHANGED <<db, registered, obj, held, stmt, sqliteDb>>
          /\ HasRow(c)
          /\ UNCHANGED stack \/ Push(f)
      BY <1>4 DEF FetchMany
    <2>2. f \in Frame /\ f.op = "fetchmany" /\ f.cur = c
      BY <2>1, RowToBuild, FramesTyped DEF HasRow
    <2> HIDE DEF f
    <2> QED BY <1>2, <2>1, <2>2
  <1>5. CASE FetchLoop
    <2> DEFINE f == [Top EXCEPT !.rows = Append(@, BuiltRow(Top.cur))]
    <2>1. /\ stack # <<>> /\ Top.op = "fetchmany" /\ rc[Top.cur] = "ROW"
          /\ StepRow(Top.cur) \/ StepDone(Top.cur) \/ StepError(Top.cur)
          /\ UNCHANGED <<db, registered, obj, held, stmt, sqliteDb>>
          /\ SetTop(f) \/ Pop
      BY <1>5 DEF FetchLoop, InCall, FetchMore
    <2>2. Top \in Frame /\ Top = stack[Len(stack)] /\ Top.cur \in Cursors
      BY <2>1, TopFacts DEF TypeOK, Frame
    <2>3. f.cur = Top.cur
      BY <2>2 DEF Frame
    <2> HIDE DEF f
    <2>4. /\ db = "open"
          /\ \A s \in Stmts : vdbe'[s].state # "free" => vdbe[s].state # "free"
      BY <1>1, <2>1, <2>2
    <2>5. /\ \A i \in DOMAIN stack : i # Len(stack) =>
               i \in DOMAIN stack' /\ stack'[i] = stack[i]
          /\ \A i \in DOMAIN stack' : i \in DOMAIN stack /\ stack'[i].cur = stack[i].cur
      <3>1. CASE Pop
        BY <2>1, <3>1, PopKeeps
      <3>2. CASE SetTop(f)
        BY <2>1, <2>2, <2>3, <3>2, SetTopKeeps
      <3> QED BY <2>1, <3>1, <3>2
    <2>6. \A i \in DOMAIN stack : stack[i].op = "executemany" /\ stack[i].stmt # NoStmt =>
            \E j \in DOMAIN stack' :
                stack'[j].op = "executemany" /\ stack'[j].stmt = stack[i].stmt
      BY <2>1, <2>2, <2>5
    <2>7. \A i \in DOMAIN stack' :
            stack'[i].cur \in registered /\ obj[stack'[i].cur] = "live"
      BY <2>5 DEF OwnersListed
    <2> QED BY <2>1, <2>4, <2>6, <2>7, OwnedKept
  <1>6. \A c \in Cursors : arraysize[c] \in Int
    BY DEF TypeOK
  <1> QED BY <1>3, <1>4, <1>5, <1>6, SizesAssumption DEF FetchOne, IterNext, FetchAll

LEMMA OwnedCallback ==
    ASSUME Inv, Owned, TraceReturns
    PROVE  Owned'
  <1> USE DEF Inv, Owned, connVars, objVars, curVars, sqlVars
  <1> DEFINE f == [Top EXCEPT !.phase = "run"]
  <1>1. /\ stack # <<>> /\ SetTop(f)
        /\ UNCHANGED <<db, registered, obj, held, stmt, sqliteDb, vdbe>>
    BY DEF TraceReturns
  <1>2. Top \in Frame /\ Top = stack[Len(stack)] /\ db = "open"
    BY <1>1, TopFacts, OpenWhileUsed DEF TypeOK
  <1>3. f.op = Top.op /\ f.stmt = Top.stmt /\ f.cur = Top.cur
    BY <1>2 DEF Frame
  <1> HIDE DEF f
  <1>4. /\ DOMAIN stack' = DOMAIN stack
        /\ \A i \in DOMAIN stack : /\ stack'[i].op = stack[i].op
                                   /\ stack'[i].stmt = stack[i].stmt
                                   /\ stack'[i].cur = stack[i].cur
    BY <1>1, <1>2, <1>3, SetTopKeeps
  <1>5. \A i \in DOMAIN stack' :
          stack'[i].cur \in registered /\ obj[stack'[i].cur] = "live"
    BY <1>4 DEF OwnersListed
  <1> QED BY <1>1, <1>2, <1>4, <1>5, OwnedKept

LEMMA OwnedConnection ==
    ASSUME Ordinary, Inv, Owned,
           \/ \E c \in Cursors : NewCursor(c) \/ UsesFreedCursor(c)
           \/ \E c \in Cursors, n \in Sizes : SetArraysize(c, n)
           \/ \E on \in BOOLEAN : SetTraceCallback(on)
           \/ CloseConnection \/ UsesNullDb \/ Terminated \/ TraceReturnsToFreed
    PROVE  Owned'
  <1> USE DEF Inv, Owned
  <1>1. CASE CloseConnection
    <2>1. /\ stack = <<>> /\ UNCHANGED <<stack, registered, held>> /\ db' = "NULL"
          /\ \A s \in Stmts :
               vdbe'[s] = IF s \in ClosedByConnection THEN FreeVdbe ELSE vdbe[s]
          /\ \A c \in Cursors :
               /\ stmt'[c] = IF c \in registered THEN NoStmt ELSE stmt[c]
               /\ obj'[c] = IF c \in registered THEN "freed" ELSE obj[c]
          /\ sqliteDb' = IF Unfinalized(vdbe') = {} THEN "closed" ELSE "open"
          /\ DOMAIN vdbe' = Stmts
      BY <1>1 DEF CloseConnection, Ordinary
    <2>2. \A s \in Stmts : vdbe'[s].state = "free"
      <3> SUFFICES ASSUME NEW s \in Stmts, vdbe[s].state # "free"
                   PROVE  s \in ClosedByConnection
        BY <2>1, StmtFields
      <3>1. DOMAIN stack = {}
        BY <2>1, EmptySeq
      <3>2. PICK c \in registered : stmt[c] = s
        BY <3>1 DEF UnfinalizedOwned, ExecFrames
      <3> QED BY <3>2, StmtAssumption DEF ClosedByConnection
    <2>3. UnfinalizedOwned'
      BY <2>2 DEF UnfinalizedOwned
    <2>4. OwnersListed'
      <3>1. DOMAIN stack' = {}
        BY <2>1, EmptySeq
      <3>2. registered \subseteq Cursors /\ held \subseteq Cursors
        BY DEF TypeOK
      <3> QED BY <2>1, <3>1, <3>2 DEF OwnersListed
    <2>5. NothingLeft'
      BY <2>1, <2>2 DEF NothingLeft, Unfinalized
    <2> QED BY <2>3, <2>4, <2>5
  <1>2. ASSUME NEW c \in Cursors, NewCursor(c)
        PROVE  Owned'
    <2>1. /\ UNCHANGED <<db, stmt, vdbe, sqliteDb, stack>>
          /\ held' = held \cup {c} /\ MakeNew(c)
      BY <1>2 DEF NewCursor, curVars, sqlVars
    <2>2. /\ registered' = registered \cup {c} /\ obj'[c] = "live" /\ obj[c] = "none"
          /\ \A d \in Cursors \ {c} : obj'[d] = obj[d]
      BY <2>1 DEF MakeNew, TypeOK
    <2>3. registered \subseteq Cursors /\ held \subseteq Cursors
      BY DEF TypeOK
    <2>4. UnfinalizedOwned'
      <3> SUFFICES ASSUME NEW s \in Stmts, vdbe[s].state # "free"
                   PROVE  \/ \E d \in registered' : obj'[d] = "live" /\ stmt[d] = s
                          \/ \E i \in ExecFrames : stack[i].stmt = s
        BY <2>1 DEF UnfinalizedOwned, ExecFrames
      <3>1. CASE \E d \in registered : obj[d] = "live" /\ stmt[d] = s
        BY <2>2, <2>3, <3>1
      <3> QED BY <3>1 DEF UnfinalizedOwned
    <2>5. OwnersListed'
      BY <2>1, <2>2, <2>3 DEF OwnersListed
    <2>6. NothingLeft'
      BY <2>1 DEF NothingLeft
    <2> QED BY <2>4, <2>5, <2>6
  <1>3. CASE /\ ~CloseConnection
             /\ ~\E c \in Cursors : NewCursor(c)
    <2>1. UNCHANGED <<db, registered, obj, held, stmt, vdbe, sqliteDb, stack>>
      BY <1>3 DEF UsesFreedCursor, SetArraysize, SetTraceCallback, UsesNullDb, Terminated,
                  TraceReturnsToFreed, vars, connVars, objVars, curVars, sqlVars
    <2> QED BY <2>1 DEF UnfinalizedOwned, ExecFrames, OwnersListed, NothingLeft
  <1> QED BY <1>1, <1>2, <1>3

LEMMA OwnedStep ==
    ASSUME Ordinary, Inv, Owned, [Next]_vars
    PROVE  Owned'
  <1>1. CASE UNCHANGED vars
    <2>1. UNCHANGED <<db, registered, obj, held, stmt, vdbe, sqliteDb, stack>>
      BY <1>1 DEF vars, connVars, objVars, curVars, sqlVars
    <2> QED BY <2>1 DEF Owned, UnfinalizedOwned, ExecFrames, OwnersListed, NothingLeft
  <1>2. CASE Next
    BY <1>2, OwnedExecute, OwnedCall, OwnedMany, OwnedFetch, OwnedCallback, OwnedConnection
       DEF Next, ProgramStep, CallStep, CallbackStep, ConnectionStep
  <1> QED BY <1>1, <1>2

LEMMA OwnedInit ==
    ASSUME Init PROVE Owned
  BY EmptySeq, StmtFields
     DEF Init, Owned, UnfinalizedOwned, OwnersListed, NothingLeft

LEMMA OwnedAlways ==
    ASSUME Ordinary PROVE Spec => [](Inv /\ Owned)
  <1>1. Init => Inv /\ Owned
    BY InvInit, OwnedInit
  <1>2. (Inv /\ Owned) /\ [Next]_vars => (Inv /\ Owned)'
    BY InvStep, OwnedStep
  <1> QED BY <1>1, <1>2, PTL DEF Spec

\* Every statement SQLite has not finalized has exactly one owner, who will
\* finalize it: for every program whose trace callbacks do not raise and do
\* not close what runs below them.
THEOREM StatementsAreOwned ==
    ASSUME Ordinary PROVE Spec => []StatementsOwned
  <1>1. ASSUME Inv, Owned PROVE StatementsOwned
    <2>1. \A s \in Unfinalized(vdbe) : s \in Stmts /\ vdbe[s].state # "free"
      BY <1>1 DEF Unfinalized, Inv, TypeOK
    <2>2. \A c \in Cursors : stmt[c] # NoStmt =>
            \A i \in ExecFrames : stack[i].stmt # stmt[c]
      BY <1>1 DEF Inv, FrameStmts, Agrees, ExecFrames
    <2> QED BY <1>1, <2>1, <2>2
            DEF StatementsOwned, Inv, CursorStmts, Owned, UnfinalizedOwned
  <1>2. Inv /\ Owned => StatementsOwned
    BY <1>1
  <1> QED BY <1>2, OwnedAlways, PTL

\* Closing the connection releases the database and its file: for the same
\* programs.
THEOREM CloseReleases ==
    ASSUME Ordinary PROVE Spec => []CloseReleasesDatabase
  <1>1. Inv /\ Owned => CloseReleasesDatabase
    BY DEF Inv, TypeOK, Owned, NothingLeft, CloseReleasesDatabase, Unfinalized
  <1> QED BY <1>1, OwnedAlways, PTL

-----------------------------------------------------------------------------
(* nVdbeExec, for programs whose callbacks do not raise.                   *)

Stepping == {i \in DOMAIN stack : stack[i].phase \in {"trace", "run"}}

\* All frames are of statements that are being stepped, but perhaps the top one.
Depth ==
    IF stack # <<>> /\ Top.phase \in {"next", "loop"} THEN Len(stack) - 1 ELSE Len(stack)

DepthCounted == nVdbeExec = Depth

LEMMA SteppingIsDepth ==
    ASSUME TypeOK, FrameShape PROVE Cardinality(Stepping) = Depth
  <1> DEFINE n == Len(stack)
  <1>1. n \in Nat /\ DOMAIN stack = 1..n /\ \A i \in 1..n : stack[i] \in Frame
    BY LenProperties DEF TypeOK
  <1>2. stack # <<>> => n \in Nat \ {0} /\ n \in 1..n /\ Top = stack[n]
    BY TopFacts, <1>1 DEF TypeOK
  <1>3. stack = <<>> => n = 0
    BY EmptySeq
  <1>a. Depth = IF stack # <<>> /\ Top.phase \in {"next", "loop"} THEN n - 1 ELSE n
    BY DEF Depth
  <1> HIDE DEF n
  <1>4. \A i \in 1..n : i # n => stack[i].phase = "trace"
    BY <1>1 DEF FrameShape
  <1>5. Depth \in Nat /\ Stepping = 1..Depth
    <2>1. CASE stack # <<>> /\ Top.phase \in {"next", "loop"}
      <3>1. Depth = n - 1 /\ n >= 1
        BY <1>1, <1>2, <1>a, <2>1
      <3>2. \A i \in 1..n : i \in Stepping <=> i # n
        BY <1>1, <1>2, <1>4, <2>1 DEF Stepping
      <3>3. Stepping \subseteq 1..n
        BY <1>1 DEF Stepping
      <3>4. Stepping = {i \in 1..n : i # n}
        BY <3>2, <3>3
      <3>5. 1..(n - 1) = {i \in 1..n : i # n} /\ n - 1 \in Nat
        BY <1>1, <3>1
      <3> QED BY <3>1, <3>4, <3>5
    <2>2. CASE ~(stack # <<>> /\ Top.phase \in {"next", "loop"})
      <3>1. Depth = n
        BY <1>a, <2>2
      <3>2. \A i \in 1..n : i \in Stepping
        <4>1. ASSUME NEW i \in 1..n PROVE i \in Stepping
          <5>1. CASE i # n
            BY <1>1, <1>4, <5>1 DEF Stepping
          <5>2. CASE i = n
            BY <1>1, <1>2, <1>3, <2>2, <5>2 DEF Stepping, Frame
          <5> QED BY <5>1, <5>2
        <4> QED BY <4>1
      <3> QED BY <1>1, <3>1, <3>2 DEF Stepping
    <2> QED BY <2>1, <2>2
  <1> QED BY <1>5, FS_Interval

LEMMA DepthTop ==
    ASSUME TypeOK, FrameShape
    PROVE  /\ Len(stack) \in Nat
           /\ ProgramTurn => Depth = Len(stack)
           /\ stack # <<>> =>
                 /\ Top.phase \in {"trace", "run", "next", "loop"}
                 /\ Top.phase \in {"trace", "run"} => Depth = Len(stack)
                 /\ Top.phase \in {"next", "loop"} => Depth = Len(stack) - 1
  <1>1. Len(stack) \in Nat /\ (stack # <<>> => Top \in Frame)
    BY LenProperties, TopFacts DEF TypeOK
  <1> QED BY <1>1 DEF Depth, ProgramTurn, Frame

LEMMA DepthPush ==
    ASSUME TypeOK, FrameShape, ProgramTurn, NEW f \in Frame, Push(f)
    PROVE  Depth' = IF f.phase \in {"trace", "run"} THEN Depth + 1 ELSE Depth
  <1>1. /\ Len(stack') = Len(stack) + 1 /\ stack'[Len(stack) + 1] = f
        /\ Len(stack) \in Nat /\ stack' \in Seq(Frame)
    BY PushFacts, LenProperties DEF TypeOK
  <1>2. stack' # <<>> /\ stack'[Len(stack')] = f
    BY <1>1, EmptySeq
  <1>3. f.phase \in {"trace", "run", "next", "loop"}
    BY DEF Frame
  <1> QED BY <1>1, <1>2, <1>3, DepthTop DEF Depth, Top

LEMMA DepthPop ==
    ASSUME TypeOK, FrameShape, stack # <<>>, Pop
    PROVE  Depth' = Len(stack) - 1
  <1> DEFINE n == Len(stack)
  <1>1. /\ Len(stack') = n - 1 /\ DOMAIN stack = 1..n /\ n \in Nat \ {0}
        /\ \A i \in 1..(n - 1) : stack'[i] = stack[i]
        /\ stack' \in Seq(Frame)
    BY PopFacts, LenProperties, TopFacts DEF TypeOK
  <1> HIDE DEF n
  <1>2. CASE stack' = <<>>
    BY <1>1, <1>2 DEF Depth, n
  <1>3. CASE stack' # <<>>
    <2>1. n - 1 \in 1..(n - 1) /\ n - 1 \in 1..n /\ n - 1 # n
      BY <1>1, <1>3, EmptySeq
    <2>2. stack'[Len(stack')] = stack[n - 1] /\ stack[n - 1].phase = "trace"
      BY <1>1, <2>1 DEF FrameShape, n
    <2> QED BY <1>1, <2>2 DEF Depth, Top, n
  <1> QED BY <1>2, <1>3

LEMMA DepthSetTop ==
    ASSUME TypeOK, FrameShape, stack # <<>>, NEW f \in Frame, SetTop(f)
    PROVE  Depth' = IF f.phase \in {"trace", "run"} THEN Len(stack) ELSE Len(stack) - 1
  <1>1. /\ Len(stack') = Len(stack) /\ stack'[Len(stack)] = f
        /\ stack' # <<>>
    BY SetTopFacts, LenProperties, EmptySeq, TopFacts DEF TypeOK
  <1>2. f.phase \in {"trace", "run", "next", "loop"}
    BY DEF Frame
  <1> QED BY <1>1, <1>2 DEF Depth, Top

\* Where a statement starts or ends, and nowhere else, nVdbeExec changes.
LEMMA DepthCountedStep ==
    ASSUME "throw" \notin Habits, Inv, DepthCounted, [Next]_vars
    PROVE  DepthCounted'
  <1> USE DEF Inv, DepthCounted
  <1>1. CASE UNCHANGED <<stack, nVdbeExec>>
    BY <1>1 DEF Depth, Top
  <1>2. ASSUME NEW c \in Cursors, ExecuteBegins(c)
        PROVE  DepthCounted'
    <2>1. PICK s \in Stmts :
            Push([op |-> "execute", cur |-> c, stmt |-> s, phase |-> StepPhase,
                  left |-> 0, size |-> 0, rows |-> <<>>])
      BY <1>2 DEF ExecuteBegins, Fresh
    <2> DEFINE f == [op |-> "execute", cur |-> c, stmt |-> s, phase |-> StepPhase,
                     left |-> 0, size |-> 0, rows |-> <<>>]
    <2>2. f \in Frame /\ f.phase \in {"trace", "run"} /\ Push(f)
      BY <2>1, FramesTyped DEF StepPhase
    <2> HIDE DEF f
    <2>3. ProgramTurn /\ nVdbeExec' = nVdbeExec + 1
      BY <1>2 DEF ExecuteBegins
    <2> QED BY <2>2, <2>3, DepthPush
  <1>3. ASSUME NEW c \in Cursors, ManyBegins(c)
        PROVE  DepthCounted'
    <2> DEFINE f == [op |-> "executemany", cur |-> c, stmt |-> NoStmt, phase |-> "next",
                     left |-> MaxScript, size |-> 0, rows |-> <<>>]
    <2>1. f \in Frame /\ f.phase = "next"
      BY FramesTyped
    <2>2. Push(f) /\ ProgramTurn /\ nVdbeExec' = nVdbeExec
      BY <1>3 DEF ManyBegins
    <2> HIDE DEF f
    <2> QED BY <2>1, <2>2, DepthPush
  <1>4. ASSUME NEW c \in Cursors, NEW n \in Int, FetchMany(c, n)
        PROVE  DepthCounted'
    <2> DEFINE f == [op |-> "fetchmany", cur |-> c, stmt |-> NoStmt, phase |-> "loop",
                     left |-> 0, size |-> n, rows |-> <<BuiltRow(c)>>]
    <2>1. /\ rc[c] = "ROW" /\ ProgramTurn /\ UNCHANGED nVdbeExec
          /\ UNCHANGED stack \/ Push(f)
      BY <1>4 DEF FetchMany, HasRow
    <2>2. f \in Frame /\ f.phase = "loop"
      BY <2>1, RowToBuild, FramesTyped
    <2> HIDE DEF f
    <2> QED BY <1>1, <2>1, <2>2, DepthPush
  <1>5. CASE ExecuteRow \/ ExecuteDone \/ ExecuteFails \/ ManyFails
    <2>1. /\ stack # <<>> /\ Top.phase = "run" /\ Pop /\ nVdbeExec' = nVdbeExec - 1
      BY <1>5 DEF ExecuteRow, ExecuteDone, ExecuteFails, ManyFails, ManyFinalizes, InCall
    <2> QED BY <2>1, DepthTop, DepthPop
  <1>6. CASE ManyRejects \/ ManyReturns \/ FetchReturns \/ FetchNoMem
    <2>1. /\ stack # <<>> /\ Top.phase \in {"next", "loop"} /\ Pop /\ UNCHANGED nVdbeExec
      BY <1>6 DEF ManyRejects, ManyReturns, FetchReturns, FetchNoMem, InCall, sqlVars
    <2> QED BY <2>1, DepthTop, DepthPop
  <1>7. CASE ManyPrepares
    <2>1. PICK s \in Stmts :
            SetTop([Top EXCEPT !.stmt = s, !.phase = StepPhase, !.left = @ - 1])
      BY <1>7 DEF ManyPrepares, Fresh
    <2>2. /\ stack # <<>> /\ Top.phase = "next" /\ nVdbeExec' = nVdbeExec + 1
          /\ Top.left > 0
      BY <1>7 DEF ManyPrepares, InCall
    <2> DEFINE f == [Top EXCEPT !.stmt = s, !.phase = StepPhase, !.left = @ - 1]
    <2>3. Top \in Frame
      BY <2>2, TopFacts DEF TypeOK
    <2>4. Top.left - 1 \in 0..MaxScript /\ StepPhase \in {"trace", "run"}
      BY <2>2, <2>3, BoundsAssumption DEF Frame, StepPhase
    <2>5. f \in Frame /\ f.phase \in {"trace", "run"} /\ SetTop(f)
      BY <2>1, <2>3, <2>4 DEF Frame
    <2> HIDE DEF f
    <2> QED BY <2>2, <2>5, DepthTop, DepthSetTop
  <1>8. CASE ManyStmtDone
    <2> DEFINE f == [Top EXCEPT !.stmt = NoStmt, !.phase = "next"]
    <2>1. /\ stack # <<>> /\ Top.phase = "run" /\ nVdbeExec' = nVdbeExec - 1 /\ SetTop(f)
      BY <1>8 DEF ManyStmtDone, ManyFinalizes, InCall
    <2>2. Top \in Frame
      BY <2>1, TopFacts DEF TypeOK
    <2>3. f \in Frame /\ f.phase = "next"
      BY <2>2 DEF Frame
    <2> HIDE DEF f
    <2> QED BY <2>1, <2>3, DepthTop, DepthSetTop
  <1>9. CASE TraceReturns
    <2> DEFINE f == [Top EXCEPT !.phase = "run"]
    <2>1. /\ stack # <<>> /\ Top.phase = "trace" /\ UNCHANGED nVdbeExec /\ SetTop(f)
      BY <1>9 DEF TraceReturns, sqlVars
    <2>2. Top \in Frame
      BY <2>1, TopFacts DEF TypeOK
    <2>3. f \in Frame /\ f.phase = "run"
      BY <2>2 DEF Frame
    <2> HIDE DEF f
    <2> QED BY <2>1, <2>3, DepthTop, DepthSetTop
  <1>10. CASE FetchLoop
    <2> DEFINE f == [Top EXCEPT !.rows = Append(@, BuiltRow(Top.cur))]
    <2>1. /\ stack # <<>> /\ Top.phase = "loop" /\ UNCHANGED nVdbeExec
          /\ rc[Top.cur] = "ROW"
          /\ SetTop(f) \/ Pop
      BY <1>10 DEF FetchLoop, InCall, FetchMore
    <2>2. Top \in Frame /\ Top.cur \in Cursors /\ Top.rows \in Seq(Row)
      BY <2>1, TopFacts DEF TypeOK, Frame
    <2>3. f \in Frame /\ f.phase = "loop"
      <3>1. Append(Top.rows, BuiltRow(Top.cur)) \in Seq(Row)
        BY <2>1, <2>2, RowToBuild, AppendProperties
      <3> QED BY <2>1, <2>2, <3>1 DEF Frame
    <2> HIDE DEF f
    <2> QED BY <2>1, <2>3, DepthTop, DepthPop, DepthSetTop
  <1>11. CASE /\ Next
              /\ \A c \in Cursors : ~ExecuteBegins(c) /\ ~ManyBegins(c)
              /\ \A c \in Cursors, n \in Int : ~FetchMany(c, n)
              /\ ~(ExecuteRow \/ ExecuteDone \/ ExecuteFails \/ ManyFails)
              /\ ~(ManyRejects \/ ManyReturns \/ FetchReturns \/ FetchNoMem)
              /\ ~ManyPrepares /\ ~ManyStmtDone /\ ~TraceReturns /\ ~FetchLoop
    <2>1. \A c \in Cursors : arraysize[c] \in Int
      BY DEF TypeOK
    <2>2. ~Unwinds
      BY DEF Unwinds
    <2>3. \/ \E c \in Cursors :
               \/ NewCursor(c) \/ Rejected(c) \/ ExecuteBlank(c) \/ ExecuteUnbound(c)
               \/ CloseCursor(c) \/ DelCursor(c) \/ FetchOne(c) \/ IterNext(c)
               \/ UsesFreedCursor(c)
          \/ \E c \in Cursors, n \in Sizes : SetArraysize(c, n)
          \/ \E on \in BOOLEAN : SetTraceCallback(on)
          \/ TraceReturnsToFreed \/ CloseConnection \/ UsesNullDb \/ Terminated
      BY <1>11, <2>1, <2>2, SizesAssumption
         DEF Next, ProgramStep, CallStep, CallbackStep, ConnectionStep, FetchAll
    <2>4. UNCHANGED <<stack, nVdbeExec>>
      BY <2>3 DEF NewCursor, Rejected, ExecuteBlank, ExecuteUnbound, CloseCursor, DelCursor,
                  FetchOne, IterNext, ReturnsOneRow, UsesFreedCursor, SetArraysize,
                  SetTraceCallback, TraceReturnsToFreed, CloseConnection, UsesNullDb,
                  Terminated, vars, sqlVars
    <2> QED BY <1>1, <2>4
  <1>12. UNCHANGED vars => UNCHANGED <<stack, nVdbeExec>>
    BY DEF vars, sqlVars
  <1> QED
    BY <1>1, <1>2, <1>3, <1>4, <1>5, <1>6, <1>7, <1>8, <1>9, <1>10, <1>11, <1>12

\* nVdbeExec is the number of statements that are being stepped, however deep
\* callbacks nest: for every program whose callbacks do not raise.
THEOREM NestingIsCounted ==
    ASSUME "throw" \notin Habits PROVE Spec => []NestingCounted
  <1>1. Init => Inv /\ DepthCounted
    BY InvInit, EmptySeq DEF Init, DepthCounted, Depth
  <1>2. (Inv /\ DepthCounted) /\ [Next]_vars => (Inv /\ DepthCounted)'
    BY InvStep, DepthCountedStep
  <1>3. Inv /\ DepthCounted => NestingCounted
    BY SteppingIsDepth DEF Inv, DepthCounted, NestingCounted, Stepping
  <1> QED BY <1>1, <1>2, <1>3, PTL DEF Spec

-----------------------------------------------------------------------------
(* Statements below a callback, for programs that do not close in it what  *)
(* is starting below it.                                                   *)

\* The statement a trace callback was called for is still there.
Waiting(i) ==
    stack[i].op = "execute" /\ stack[i].phase = "trace"
        => vdbe[stack[i].stmt].state # "free"

NoneFreed == fault # "stale-statement" /\ \A i \in DOMAIN stack : Waiting(i)

\* No statement that is not on its cursor's own frame is on the stack.
LEMMA NotBelow ==
    ASSUME Inv, NoneFreed, NEW c \in Cursors, stmt[c] # NoStmt, ~Starting(c)
    PROVE  \A i \in DOMAIN stack : stack[i].stmt # stmt[c]
  <1> USE DEF Inv
  <1> SUFFICES ASSUME NEW i \in DOMAIN stack, stack[i].stmt = stmt[c] PROVE FALSE
    OBVIOUS
  <1>1. stack[i] \in Frame /\ Shaped(stack[i]) /\ Agrees(stack[i], vdbe, stmt)
    BY DEF TypeOK, FrameShape, FrameStmts
  <1>2. stack[i].op = "execute"
    BY <1>1, StmtAssumption DEF Agrees, Shaped, Frame
  <1>3. stack[i].phase \in {"trace", "run"}
    BY <1>1, <1>2 DEF Shaped
  <1>4. vdbe[stack[i].stmt].state = "run"
    BY <1>1, <1>2, <1>3 DEF Agrees, NoneFreed, Waiting
  <1>5. stmt[stack[i].cur] = stmt[c] /\ stack[i].cur \in Cursors
    BY <1>1, <1>2, <1>4 DEF Agrees, Frame
  <1>6. stack[i].cur = c
    BY <1>5 DEF CursorStmts
  <1> QED BY <1>2, <1>6 DEF Starting

\* Frames that were waiting wait on; what is new is not freed.
LEMMA FreedByNone ==
    ASSUME NoneFreed, fault' # "stale-statement",
           \A i \in DOMAIN stack' :
               stack'[i].op = "execute" /\ stack'[i].phase = "trace" =>
                   \/ vdbe'[stack'[i].stmt].state # "free"
                   \/ /\ i \in DOMAIN stack /\ stack'[i] = stack[i]
                      /\ vdbe'[stack[i].stmt] = vdbe[stack[i].stmt]
    PROVE  NoneFreed'
  BY DEF NoneFreed, Waiting

\* A cursor that is not made yet has no statement.
NoneBefore == \A c \in Cursors : obj[c] = "none" => stmt[c] = NoStmt

LEMMA NoneBeforeStep ==
    ASSUME TypeOK, NoneBefore, [Next]_vars
    PROVE  NoneBefore'
  <1>1. CASE UNCHANGED <<obj, stmt>>
    BY <1>1 DEF NoneBefore
  <1>2. ASSUME NEW c \in Cursors,
               \/ Rejected(c) \/ ExecuteBlank(c) \/ ExecuteUnbound(c)
               \/ ExecuteBegins(c) \/ ManyBegins(c) \/ CloseCursor(c)
        PROVE  NoneBefore'
    <2>1. MakeNew(c) \/ Existing(c)
      BY <1>2 DEF Rejected, ExecuteBlank, ExecuteUnbound, ExecuteBegins, ManyBegins,
                  CloseCursor, Callee
    <2>2. obj'[c] = "live" /\ \A d \in Cursors \ {c} : obj'[d] = obj[d]
      BY <2>1 DEF MakeNew, Existing, TypeOK
    <2>3. \E s \in Stmts \cup {NoStmt} : stmt' = [stmt EXCEPT ![c] = s]
      BY <1>2 DEF Rejected, ExecuteBlank, ExecuteUnbound, ExecuteBegins, ManyBegins,
                  CloseCursor, Fresh
    <2>4. \A d \in Cursors \ {c} : stmt'[d] = stmt[d]
      BY <2>3 DEF TypeOK
    <2> QED BY <2>2, <2>4 DEF NoneBefore
  <1>3. ASSUME NEW c \in Cursors, DelCursor(c)
        PROVE  NoneBefore'
    BY <1>3 DEF DelCursor, NoneBefore, TypeOK
  <1>4. ASSUME NEW c \in Cursors, NewCursor(c)
        PROVE  NoneBefore'
    BY <1>4 DEF NewCursor, MakeNew, NoneBefore, TypeOK, curVars
  <1>5. CASE CloseConnection
    BY <1>5 DEF CloseConnection, NoneBefore, TypeOK
  <1>6. CASE /\ Next
             /\ ~CloseConnection
             /\ \A c \in Cursors :
                   /\ ~Rejected(c) /\ ~ExecuteBlank(c) /\ ~ExecuteUnbound(c)
                   /\ ~ExecuteBegins(c) /\ ~ManyBegins(c) /\ ~CloseCursor(c)
                   /\ ~DelCursor(c) /\ ~NewCursor(c)
    <2>1. \/ \E c \in Cursors : FetchOne(c) \/ IterNext(c) \/ UsesFreedCursor(c)
          \/ \E c \in Cursors, n \in Sizes : SetArraysize(c, n)
          \/ \E c \in Cursors : \E n \in Sizes \cup {arraysize[c], -1} : FetchMany(c, n)
          \/ \E on \in BOOLEAN : SetTraceCallback(on)
          \/ CallStep \/ CallbackStep \/ UsesNullDb \/ Terminated
      BY <1>6 DEF Next, ProgramStep, ConnectionStep, FetchAll
    <2>2. UNCHANGED <<obj, stmt>>
      BY <2>1 DEF FetchOne, IterNext, ReturnsOneRow, UsesFreedCursor, SetArraysize,
                  FetchMany, SetTraceCallback, CallStep, CallbackStep, UsesNullDb,
                  Terminated, ExecuteRow, ExecuteDone, ExecuteFails, ManyPrepares,
                  ManyStmtDone, ManyFails, ManyRejects, ManyReturns, FetchLoop,
                  FetchReturns, FetchNoMem, TraceReturns, TraceReturnsToFreed, Unwinds,
                  vars, objVars, curVars
    <2> QED BY <1>1, <2>2
  <1>7. UNCHANGED vars => UNCHANGED <<obj, stmt>>
    BY DEF vars, objVars, curVars
  <1> QED BY <1>1, <1>2, <1>3, <1>4, <1>5, <1>6, <1>7

\* The program closes or executes a cursor: not one that is starting.
LEMMA FreedByProgram ==
    ASSUME "reenter" \notin Habits, Inv, NoneBefore, NoneFreed, NEW c \in Cursors,
           \/ Rejected(c) \/ ExecuteBlank(c) \/ ExecuteUnbound(c)
           \/ ExecuteBegins(c) \/ ManyBegins(c) \/ CloseCursor(c) \/ DelCursor(c)
    PROVE  NoneFreed'
  <1> USE DEF Inv
  <1>1. stmt[c] # NoStmt => \A i \in DOMAIN stack : stack[i].stmt # stmt[c]
    <2>1. CASE MakeNew(c)
      BY <2>1 DEF MakeNew, NoneBefore
    <2>2. CASE Existing(c) \/ DelCursor(c)
      <3>1. ~Starting(c)
        BY <2>2 DEF Existing, DelCursor, Starting
      <3> QED BY <3>1, NotBelow
    <2> QED BY <2>1, <2>2 DEF Rejected, ExecuteBlank, ExecuteUnbound, ExecuteBegins,
                              ManyBegins, CloseCursor, Callee
  <1>2. \A i \in DOMAIN stack : stack[i].op = "execute" =>
            stack[i].stmt \in Stmts /\ ClosedVdbe(c)[stack[i].stmt] = vdbe[stack[i].stmt]
    <2>1. \A i \in DOMAIN stack : stack[i].op = "execute" => stack[i].stmt \in Stmts
      BY DEF FrameShape, Shaped
    <2> QED BY <1>1, <2>1, StmtAssumption DEF ClosedVdbe, TypeOK
  <1>3. fault' # "stale-statement"
    BY DEF NoneFreed, Rejected, ExecuteBlank, ExecuteUnbound, ExecuteBegins, ManyBegins,
           CloseCursor, DelCursor
  <1>4. CASE Rejected(c) \/ ExecuteBlank(c) \/ CloseCursor(c) \/ DelCursor(c)
    <2>1. vdbe' = ClosedVdbe(c) /\ UNCHANGED stack
      BY <1>4 DEF Rejected, ExecuteBlank, CloseCursor, DelCursor
    <2> QED BY <1>2, <1>3, <2>1, FreedByNone
  <1>5. CASE ManyBegins(c)
    <2> DEFINE f == [op |-> "executemany", cur |-> c, stmt |-> NoStmt, phase |-> "next",
                     left |-> MaxScript, size |-> 0, rows |-> <<>>]
    <2>1. f \in Frame /\ f.op = "executemany" /\ Push(f) /\ vdbe' = ClosedVdbe(c)
      BY <1>5, FramesTyped DEF ManyBegins
    <2> HIDE DEF f
    <2>2. /\ DOMAIN stack' = 1..(Len(stack) + 1) /\ DOMAIN stack = 1..Len(stack)
          /\ stack'[Len(stack) + 1] = f
          /\ \A i \in 1..Len(stack) : stack'[i] = stack[i]
          /\ Len(stack) \in Nat
      BY <2>1, PushFacts, LenProperties DEF TypeOK
    <2>3. \A i \in 1..(Len(stack) + 1) : i \in 1..Len(stack) \/ i = Len(stack) + 1
      BY <2>2
    <2>4. \A i \in DOMAIN stack' : stack'[i].op = "execute" =>
              i \in DOMAIN stack /\ stack'[i] = stack[i]
      BY <2>1, <2>2, <2>3
    <2> QED BY <1>2, <1>3, <2>1, <2>4, FreedByNone
  <1>6. CASE ExecuteUnbound(c)
    <2>1. PICK s \in Fresh(ClosedVdbe(c)), counts \in BOOLEAN :
            vdbe' = [ClosedVdbe(c) EXCEPT ![s] = Prepared(counts)]
      BY <1>6 DEF ExecuteUnbound
    <2>2. \A i \in DOMAIN stack : stack[i].stmt # s
      BY DEF Fresh
    <2>3. UNCHANGED stack
      BY <1>6 DEF ExecuteUnbound
    <2>4. \A i \in DOMAIN stack : stack[i].op = "execute" =>
              vdbe'[stack[i].stmt] = vdbe[stack[i].stmt]
      BY <1>2, <2>1, <2>2, ClosedTyped
    <2> QED BY <1>3, <2>3, <2>4, FreedByNone
  <1>7. CASE ExecuteBegins(c)
    <2>1. PICK s \in Fresh(ClosedVdbe(c)), counts \in BOOLEAN :
            /\ vdbe' = [ClosedVdbe(c) EXCEPT ![s] = Started(Prepared(counts))]
            /\ Push([op |-> "execute", cur |-> c, stmt |-> s, phase |-> StepPhase,
                     left |-> 0, size |-> 0, rows |-> <<>>])
      BY <1>7 DEF ExecuteBegins
    <2> DEFINE f == [op |-> "execute", cur |-> c, stmt |-> s, phase |-> StepPhase,
                     left |-> 0, size |-> 0, rows |-> <<>>]
    <2>2. s \in Stmts /\ \A i \in DOMAIN stack : stack[i].stmt # s
      BY DEF Fresh
    <2>3. f \in Frame /\ f.stmt = s /\ Push(f)
      BY <2>1, <2>2, FramesTyped
    <2> HIDE DEF f
    <2>4. /\ \A i \in DOMAIN stack : stack[i].op = "execute" =>
                vdbe'[stack[i].stmt] = vdbe[stack[i].stmt]
          /\ vdbe'[s].state = "run"
      BY <1>2, <2>1, <2>2, ClosedTyped, StmtFields, StmtRecords DEF TypeOK
    <2>5. /\ DOMAIN stack' = 1..(Len(stack) + 1) /\ DOMAIN stack = 1..Len(stack)
          /\ stack'[Len(stack) + 1] = f
          /\ \A i \in 1..Len(stack) : stack'[i] = stack[i]
          /\ Len(stack) \in Nat
      BY <2>3, PushFacts, LenProperties DEF TypeOK
    <2>6. \A i \in 1..(Len(stack) + 1) : i \in 1..Len(stack) \/ i = Len(stack) + 1
      BY <2>5
    <2>7. \A i \in DOMAIN stack' :
              stack'[i] = f \/ (i \in DOMAIN stack /\ stack'[i] = stack[i])
      BY <2>5, <2>6
    <2> QED BY <1>3, <2>3, <2>4, <2>7, FreedByNone
  <1> QED BY <1>4, <1>5, <1>6, <1>7

\* Frames below the top one, when it is popped or goes on.
LEMMA Below ==
    ASSUME TypeOK, stack # <<>>, Pop \/ \E f \in Frame : f.op # "execute" /\ SetTop(f)
    PROVE  \A i \in DOMAIN stack' : stack'[i].op = "execute" =>
               i \in DOMAIN stack /\ i # Len(stack) /\ stack'[i] = stack[i]
  <1>1. CASE Pop
    BY <1>1, PopKeeps
  <1>2. ASSUME NEW f \in Frame, f.op # "execute", SetTop(f)
        PROVE  \A i \in DOMAIN stack' : stack'[i].op = "execute" =>
                   i \in DOMAIN stack /\ i # Len(stack) /\ stack'[i] = stack[i]
    BY <1>2, SetTopKeeps
  <1> QED BY <1>1, <1>2

\* A step of a call on the stack: only executemany frees a statement, its own.
LEMMA FreedByCall ==
    ASSUME Inv, NoneFreed, CallStep
    PROVE  NoneFreed'
  <1> USE DEF Inv
  <1>1. stack # <<>> /\ fault' # "stale-statement"
    BY DEF NoneFreed, CallStep, ExecuteRow, ExecuteDone, ExecuteFails, ManyPrepares,
           ManyStmtDone, ManyFails, ManyRejects, ManyReturns, FetchLoop, FetchReturns,
           FetchNoMem, InCall
  <1>2. /\ Top = stack[Len(stack)] /\ Len(stack) \in DOMAIN stack /\ Top \in Frame
        /\ Top.cur \in Cursors /\ Top.rows \in Seq(Row) /\ vdbe \in [Stmts -> Vdbe]
    BY <1>1, TopFacts DEF TypeOK, Frame
  <1>3. \A i \in DOMAIN stack : stack[i].op = "execute" => stack[i].stmt \in Stmts
    BY DEF FrameShape, Shaped
  <1>4. ASSUME NEW c \in Cursors, stmt[c] \in Stmts, vdbe[stmt[c]].state = "run",
               \/ StepRow(c) \/ StepHalts(c, "DONE") \/ StepHalts(c, "ERROR")
        PROVE  \A s \in Stmts : vdbe'[s].state # "free" \/ vdbe'[s] = vdbe[s]
    <2>1. PICK w \in Vdbe, code \in Codes :
            Outcome(w, code) /\ vdbe' = [vdbe EXCEPT ![stmt[c]] = w]
      BY <1>4, StepOutcome
    <2> QED BY <2>1 DEF Outcome, TypeOK
  <1>5. CASE ExecuteRow \/ ExecuteDone \/ ExecuteFails
    <2>1. /\ Pop /\ Top.op = "execute" /\ Top.phase = "run"
          /\ \/ StepRow(Top.cur) \/ StepHalts(Top.cur, "DONE")
             \/ StepHalts(Top.cur, "ERROR")
      BY <1>5 DEF ExecuteRow, ExecuteDone, ExecuteFails, StepError, InCall
    <2>2. stmt[Top.cur] \in Stmts /\ vdbe[stmt[Top.cur]].state = "run"
      BY <1>2, <1>3, <2>1, StmtAssumption DEF FrameStmts, Agrees
    <2>3. \A s \in Stmts : vdbe'[s].state # "free" \/ vdbe'[s] = vdbe[s]
      BY <1>2, <1>4, <2>1, <2>2
    <2> QED BY <1>1, <1>3, <2>1, <2>3, Below, FreedByNone
  <1>6. CASE FetchLoop
    <2> DEFINE f == [Top EXCEPT !.rows = Append(@, BuiltRow(Top.cur))]
    <2>1. /\ Top.op = "fetchmany" /\ rc[Top.cur] = "ROW"
          /\ SetTop(f) \/ Pop
          /\ \/ StepRow(Top.cur) \/ StepHalts(Top.cur, "DONE")
             \/ StepHalts(Top.cur, "ERROR")
      BY <1>6 DEF FetchLoop, InCall, FetchMore, StepDone, StepError
    <2>2. /\ stmt[Top.cur] \in Stmts /\ vdbe[stmt[Top.cur]].state = "run"
          /\ BuiltRow(Top.cur) \in Row
      BY <1>2, <2>1, RowToBuild
    <2>3. f \in Frame /\ f.op = "fetchmany"
      <3>1. Append(Top.rows, BuiltRow(Top.cur)) \in Seq(Row)
        BY <1>2, <2>2, AppendProperties
      <3> QED BY <1>2, <2>1, <3>1 DEF Frame
    <2> HIDE DEF f
    <2>4. \A s \in Stmts : vdbe'[s].state # "free" \/ vdbe'[s] = vdbe[s]
      BY <1>2, <1>4, <2>1, <2>2
    <2> QED BY <1>1, <1>3, <2>1, <2>3, <2>4, Below, FreedByNone
  <1>7. CASE ManyRejects \/ ManyReturns \/ FetchReturns \/ FetchNoMem
    <2>1. Pop /\ UNCHANGED vdbe
      BY <1>7 DEF ManyRejects, ManyReturns, FetchReturns, FetchNoMem, sqlVars
    <2> QED BY <1>1, <2>1, Below, FreedByNone
  <1>8. CASE ManyStmtDone \/ ManyFails
    <2> DEFINE f == [Top EXCEPT !.stmt = NoStmt, !.phase = "next"]
    <2>1. /\ Top.op = "executemany" /\ Top.phase = "run"
          /\ vdbe' = [vdbe EXCEPT ![Top.stmt] = FreeVdbe]
          /\ SetTop(f) \/ Pop
      BY <1>8 DEF ManyStmtDone, ManyFails, ManyFinalizes, InCall
    <2>2. f \in Frame /\ f.op = "executemany"
      BY <1>2, <2>1 DEF Frame
    <2> HIDE DEF f
    <2>3. \A i \in DOMAIN stack : i # Len(stack) /\ stack[i].op = "execute" =>
              stack[i].stmt \in Stmts /\ stack[i].stmt # Top.stmt
      BY <1>2, <1>3, StmtAssumption DEF FrameStmts
    <2>4. \A s \in Stmts : s # Top.stmt => vdbe'[s] = vdbe[s]
      BY <1>2, <2>1
    <2> QED BY <1>1, <2>1, <2>2, <2>3, <2>4, Below, FreedByNone
  <1>9. CASE ManyPrepares
    <2>1. PICK s \in Fresh(vdbe), counts \in BOOLEAN :
            /\ vdbe' = [vdbe EXCEPT ![s] = Started(Prepared(counts))]
            /\ SetTop([Top EXCEPT !.stmt = s, !.phase = StepPhase, !.left = @ - 1])
      BY <1>9 DEF ManyPrepares
    <2>2. Top.op = "executemany" /\ Top.left > 0
      BY <1>9 DEF ManyPrepares, InCall
    <2> DEFINE f == [Top EXCEPT !.stmt = s, !.phase = StepPhase, !.left = @ - 1]
    <2>3. Top.left - 1 \in 0..MaxScript /\ StepPhase \in {"trace", "run"} /\ s \in Stmts
      BY <1>2, <2>2, BoundsAssumption DEF Frame, StepPhase, Fresh
    <2>4. f \in Frame /\ f.op = "executemany" /\ SetTop(f)
      BY <1>2, <2>1, <2>2, <2>3 DEF Frame
    <2> HIDE DEF f
    <2>5. \A i \in DOMAIN stack : stack[i].stmt # s
      BY DEF Fresh
    <2>6. \A t \in Stmts : t # s => vdbe'[t] = vdbe[t]
      BY <2>1 DEF TypeOK
    <2> QED BY <1>1, <1>3, <2>4, <2>5, <2>6, Below, FreedByNone
  <1> QED BY <1>5, <1>6, <1>7, <1>8, <1>9 DEF CallStep

\* The program fetches: its statement is stepped, and goes on to exist.
LEMMA FreedByFetch ==
    ASSUME Inv, NoneFreed, NEW c \in Cursors, NEW n \in Int,
           FetchOne(c) \/ IterNext(c) \/ FetchMany(c, n)
    PROVE  NoneFreed'
  <1> USE DEF Inv
  <1> DEFINE f == [op |-> "fetchmany", cur |-> c, stmt |-> NoStmt, phase |-> "loop",
                   left |-> 0, size |-> n, rows |-> <<BuiltRow(c)>>]
  <1>1. /\ rc[c] = "ROW" /\ fault' # "stale-statement"
        /\ UNCHANGED stack \/ Push(f)
        /\ \/ StepRow(c) \/ StepHalts(c, "DONE") \/ StepHalts(c, "ERROR")
    BY DEF NoneFreed, FetchOne, IterNext, ReturnsOneRow, FetchMany, HasRow, StepDone, StepError
  <1>2. f \in Frame /\ f.op = "fetchmany"
    BY <1>1, RowToBuild, FramesTyped
  <1> HIDE DEF f
  <1>3. stmt[c] \in Stmts /\ vdbe[stmt[c]].state = "run"
    BY <1>1, RowToBuild
  <1>4. \A s \in Stmts : vdbe'[s].state # "free" \/ vdbe'[s] = vdbe[s]
    <2>1. PICK w \in Vdbe, code \in Codes :
            Outcome(w, code) /\ vdbe' = [vdbe EXCEPT ![stmt[c]] = w]
      BY <1>1, <1>3, StepOutcome
    <2> QED BY <2>1 DEF Outcome, TypeOK
  <1>5. \A i \in DOMAIN stack' : stack'[i].op = "execute" =>
            i \in DOMAIN stack /\ stack'[i] = stack[i] /\ stack[i].stmt \in Stmts
    <2>1. \A i \in DOMAIN stack : stack[i].op = "execute" => stack[i].stmt \in Stmts
      BY DEF FrameShape, Shaped
    <2>2. CASE Push(f)
      <3>1. /\ DOMAIN stack' = 1..(Len(stack) + 1) /\ DOMAIN stack = 1..Len(stack)
            /\ stack'[Len(stack) + 1] = f
            /\ \A i \in 1..Len(stack) : stack'[i] = stack[i]
            /\ Len(stack) \in Nat
        BY <1>2, <2>2, PushFacts, LenProperties DEF TypeOK
      <3>2. \A i \in 1..(Len(stack) + 1) : i \in 1..Len(stack) \/ i = Len(stack) + 1
        BY <3>1
      <3> QED BY <1>2, <2>1, <3>1, <3>2
    <2> QED BY <1>1, <2>1, <2>2
  <1> QED BY <1>1, <1>4, <1>5, FreedByNone

LEMMA FreedByRest ==
    ASSUME "reenter" \notin Habits, Inv, NoneFreed,
           \/ \E c \in Cursors : NewCursor(c) \/ UsesFreedCursor(c)
           \/ \E c \in Cursors, n \in Sizes : SetArraysize(c, n)
           \/ \E on \in BOOLEAN : SetTraceCallback(on)
           \/ CallbackStep \/ CloseConnection \/ UsesNullDb \/ Terminated
           \/ UNCHANGED vars
    PROVE  NoneFreed'
  <1> USE DEF Inv
  <1>1. CASE CloseConnection
    <2>1. stack' = <<>> /\ fault' # "stale-statement"
      BY <1>1 DEF CloseConnection, NoneFreed
    <2> QED BY <2>1, EmptySeq DEF NoneFreed
  <1>2. CASE TraceReturns
    <2> DEFINE f == [Top EXCEPT !.phase = "run"]
    <2>1. stack # <<>> /\ SetTop(f) /\ UNCHANGED <<vdbe, fault>> /\ Top.phase = "trace"
      BY <1>2 DEF TraceReturns, sqlVars
    <2>2. Top \in Frame
      BY <2>1, TopFacts DEF TypeOK
    <2>3. f.phase = "run"
      BY <2>2 DEF Frame
    <2> HIDE DEF f
    <2>4. \A i \in DOMAIN stack' : stack'[i].phase = "trace" =>
              i \in DOMAIN stack /\ stack'[i] = stack[i]
      BY <2>1, <2>3, SetTopKeeps
    <2> QED BY <2>1, <2>4, FreedByNone DEF NoneFreed
  <1>3. CASE Unwinds
    <2>1. stack # <<>> /\ Pop /\ UNCHANGED <<vdbe, fault>>
      BY <1>3 DEF Unwinds, sqlVars
    <2> QED BY <2>1, PopKeeps, FreedByNone DEF NoneFreed
  <1>4. ~TraceReturnsToFreed
    <2> SUFFICES ASSUME TraceReturnsToFreed PROVE FALSE
      OBVIOUS
    <2>1. /\ stack # <<>> /\ Top.phase = "trace" /\ vdbe[Top.stmt].state = "free"
      BY DEF TraceReturnsToFreed
    <2>2. /\ Top = stack[Len(stack)] /\ Len(stack) \in DOMAIN stack /\ Top \in Frame
      BY <2>1, TopFacts DEF TypeOK
    <2>3. Shaped(Top) /\ Top.op \in {"execute", "executemany", "fetchmany"}
      BY <2>2 DEF FrameShape, Frame
    <2>4. Top.op # "execute"
      BY <2>1, <2>2 DEF NoneFreed, Waiting
    <2>5. Top.op = "executemany" /\ Top.stmt # NoStmt
      BY <2>1, <2>3, <2>4, StmtAssumption DEF Shaped
    <2>6. vdbe[Top.stmt].state = "run"
      BY <2>2, <2>5 DEF FrameStmts, Agrees
    <2> QED BY <2>1, <2>6
  <1>5. CASE /\ ~CloseConnection
             /\ ~CallbackStep
    <2>1. UNCHANGED <<stack, vdbe>> /\ fault' # "stale-statement"
      BY <1>5 DEF NoneFreed, NewCursor, UsesFreedCursor, SetArraysize, SetTraceCallback,
                  UsesNullDb, Terminated, vars, sqlVars
    <2> QED BY <2>1 DEF NoneFreed, Waiting
  <1> QED BY <1>1, <1>2, <1>3, <1>4, <1>5 DEF CallbackStep

\* SQLite never goes on with a statement that was finalized below it, however
\* deep callbacks nest and whatever else they close, execute or raise: for
\* every program that leaves alone in a callback what is starting below it.
THEOREM NothingFinalizedIsUsed ==
    ASSUME "reenter" \notin Habits PROVE Spec => []NoFinalizedStatementUsed
  <1>1. Init => Inv /\ NoneBefore /\ NoneFreed
    <2> SUFFICES ASSUME Init PROVE Inv /\ NoneBefore /\ NoneFreed
      OBVIOUS
    <2>1. Inv /\ NoneBefore
      BY InvInit DEF Init, NoneBefore
    <2>2. DOMAIN stack = {} /\ fault = "none"
      BY EmptySeq DEF Init
    <2> QED BY <2>1, <2>2 DEF NoneFreed
  <1>2. (Inv /\ NoneBefore /\ NoneFreed) /\ [Next]_vars
          => (Inv /\ NoneBefore /\ NoneFreed)'
    <2> SUFFICES ASSUME Inv, NoneBefore, NoneFreed, [Next]_vars
                 PROVE  Inv' /\ NoneBefore' /\ NoneFreed'
      OBVIOUS
    <2>1. Inv' /\ NoneBefore'
      BY InvStep, NoneBeforeStep DEF Inv
    <2>2. NoneFreed'
      <3>1. \A c \in Cursors : arraysize[c] \in Int
        BY DEF Inv, TypeOK
      <3> QED BY <3>1, SizesAssumption, FreedByProgram, FreedByCall, FreedByFetch, FreedByRest
              DEF Next, ProgramStep, ConnectionStep, FetchAll
    <2> QED BY <2>1, <2>2
  <1>3. NoneFreed => NoFinalizedStatementUsed
    BY DEF NoneFreed, NoFinalizedStatementUsed
  <1> QED BY <1>1, <1>2, <1>3, PTL DEF Spec
=============================================================================
