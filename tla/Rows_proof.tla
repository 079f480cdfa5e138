------------------------------ MODULE Rows_proof ------------------------------
(***************************************************************************)
(* Proofs about the rows of a cursor: their order, rowcount, the batches   *)
(* of fetchmany, and that the cursors implement ResultSet.  Every step is  *)
(* first summed up by what it does to each cursor (StepSummary).           *)
(***************************************************************************)
EXTENDS Usqlite_proof

-----------------------------------------------------------------------------
(* The frame of a fetchmany, if there is one, is the top of the stack.     *)

Fetching(c) == \E i \in FetchFrames : stack[i].cur = c

NoFetch == \A i \in DOMAIN stack : stack[i].op # "fetchmany"

LEMMA NotFetching ==
    /\ NoFetch => \A c \in Cursors : ~Fetching(c)
    /\ NoFetch' => \A c \in Cursors : ~Fetching(c)'
  BY DEF NoFetch, Fetching, FetchFrames

LEMMA WaitingIsNoFetch ==
    ASSUME Inv, ProgramTurn
    PROVE  NoFetch
  BY AllWait DEF Inv, FrameShape, Shaped, NoFetch

LEMMA TopIsNoFetch ==
    ASSUME Inv, stack # <<>>, Top.op # "fetchmany"
    PROVE  NoFetch
  <1>1. /\ Top = stack[Len(stack)]
        /\ \A i \in DOMAIN stack : i # Len(stack) => stack[i].phase = "trace"
    BY TopFacts DEF Inv, TypeOK, FrameShape
  <1> QED BY <1>1 DEF Inv, FrameShape, Shaped, NoFetch

LEMMA FetchingTop ==
    ASSUME Inv, NEW c \in Cursors, Fetching(c)
    PROVE  stack # <<>> /\ Top.op = "fetchmany" /\ Top.phase = "loop" /\ Top.cur = c
  <1>1. PICK i \in DOMAIN stack : stack[i].op = "fetchmany" /\ stack[i].cur = c
    BY DEF Fetching, FetchFrames
  <1>2. stack[i].phase = "loop" /\ i = Len(stack)
    BY <1>1 DEF Inv, FrameShape, Shaped
  <1>3. stack # <<>>
    BY <1>1, EmptySeq
  <1> QED BY <1>1, <1>2, <1>3 DEF Top

LEMMA TopFetching ==
    ASSUME Inv, stack # <<>>, Top.op = "fetchmany"
    PROVE  /\ Top.cur \in Cursors /\ Fetching(Top.cur)
           /\ \A d \in Cursors \ {Top.cur} : ~Fetching(d)
  <1>1. Len(stack) \in DOMAIN stack /\ Top = stack[Len(stack)] /\ Top.cur \in Cursors
    BY TopFacts DEF Inv, TypeOK, Frame
  <1>2. Fetching(Top.cur)
    BY <1>1 DEF Fetching, FetchFrames
  <1> QED BY <1>1, <1>2, FetchingTop

LEMMA PopLeavesNoFetch ==
    ASSUME Inv, stack # <<>>, Pop
    PROVE  NoFetch'
  <1>1. \A i \in DOMAIN stack' :
          i \in DOMAIN stack /\ i # Len(stack) /\ stack'[i] = stack[i]
    BY PopKeeps DEF Inv
  <1> QED BY <1>1 DEF Inv, FrameShape, Shaped, NoFetch

LEMMA PushIsNoFetch ==
    ASSUME Inv, ProgramTurn, NEW f \in Frame, f.op # "fetchmany", Push(f)
    PROVE  NoFetch'
  <1>1. /\ DOMAIN stack' = 1..(Len(stack) + 1) /\ DOMAIN stack = 1..Len(stack)
        /\ stack'[Len(stack) + 1] = f
        /\ \A i \in 1..Len(stack) : stack'[i] = stack[i]
        /\ Len(stack) \in Nat
    BY PushFacts, LenProperties DEF Inv, TypeOK
  <1>2. \A i \in 1..(Len(stack) + 1) : i \in 1..Len(stack) \/ i = Len(stack) + 1
    BY <1>1
  <1> QED BY <1>1, <1>2, WaitingIsNoFetch DEF NoFetch

LEMMA SetTopIsNoFetch ==
    ASSUME Inv, stack # <<>>, NEW f \in Frame, f.op # "fetchmany", SetTop(f)
    PROVE  NoFetch'
  <1>1. /\ DOMAIN stack' = DOMAIN stack /\ stack'[Len(stack)] = f
        /\ \A i \in DOMAIN stack : i # Len(stack) =>
               stack'[i] = stack[i] /\ stack[i].phase = "trace"
    BY SetTopKeeps DEF Inv, FrameShape
  <1> QED BY <1>1 DEF Inv, FrameShape, Shaped, NoFetch

\* Collected, by whether a fetchmany of the cursor is going on.
LEMMA CollectedFacts ==
    ASSUME NEW c \in Cursors
    PROVE  /\ Fetching(c) => Collected(c) = delivered[c] \o Top.rows
           /\ ~Fetching(c) => Collected(c) = delivered[c]
           /\ Fetching(c)' => Collected(c)' = (delivered[c] \o Top.rows)'
           /\ ~Fetching(c)' => Collected(c)' = delivered'[c]
  BY DEF Collected, Fetching, FetchFrames

-----------------------------------------------------------------------------
(* What a step does to a cursor.                                           *)

\* Nothing.
Kept(c) ==
    /\ stmt'[c] = stmt[c] /\ rc'[c] = rc[c]
    /\ rowcount'[c] = rowcount[c] /\ delivered'[c] = delivered[c]
    /\ stmt[c] # NoStmt => vdbe'[stmt[c]] = vdbe[stmt[c]]
    /\ \/ UNCHANGED stack
       \/ ~Fetching(c) /\ ~Fetching(c)'

\* Its result set is closed; it may have got a statement that has no row yet.
Reset(c) ==
    /\ ~Fetching(c) /\ ~Fetching(c)'
    /\ delivered'[c] = <<>>
    /\ rc'[c] \in {"OK", "MISUSE"}
    /\ stmt'[c] # NoStmt =>
        /\ vdbe'[stmt'[c]].row = 0
        /\ vdbe'[stmt'[c]].state = "run" => rowcount'[c] = 0

\* sqlite3_step of its statement returns code.
Stepped(c, code) ==
    /\ stmt[c] \in Stmts /\ vdbe[stmt[c]].state = "run"
    /\ stmt'[c] = stmt[c] /\ rc'[c] = code
    /\ code = "ROW" => /\ vdbe'[stmt[c]].row = vdbe[stmt[c]].row + 1
                       /\ vdbe'[stmt[c]].state = "run"
                       /\ rowcount'[c] = rowcount[c] + 1
    /\ code # "ROW" => /\ vdbe'[stmt[c]].row = vdbe[stmt[c]].row
                       /\ vdbe'[stmt[c]].state = "halt"

StepCodes == {"ROW", "DONE", "ERROR"}

\* The first step, in execute.
First(c) ==
    /\ ~Fetching(c) /\ ~Fetching(c)'
    /\ rc[c] \in {"OK", "MISUSE"}
    /\ delivered'[c] = delivered[c]
    /\ \E code \in StepCodes : Stepped(c, code)
    /\ rc'[c] = "DONE" /\ vdbe'[stmt[c]].counts => rowcount'[c] = vdbe'[stmt[c]].nChange

\* A later step: the row before it is delivered, or added to a batch, or lost.
Fetched(c) ==
    /\ rc[c] = "ROW"
    /\ \E code \in StepCodes : Stepped(c, code)
    /\ rc'[c] # "ROW" => rowcount'[c] = rowcount[c]
    /\ \/ /\ rc'[c] # "ERROR"
          /\ ~Fetching(c) /\ ~Fetching(c)'
          /\ delivered'[c] = Append(delivered[c], BuiltRow(c))
       \/ /\ rc'[c] # "ERROR"
          /\ delivered'[c] = delivered[c]
          /\ Fetching(c)'
          /\ Top.rows' = Append(IF Fetching(c) THEN Top.rows ELSE <<>>, BuiltRow(c))
          /\ IF Fetching(c)
             THEN Top.size' = Top.size /\ (Top.size < 0 \/ Len(Top.rows) < Top.size)
             ELSE Top.size' \in Int \ {0, 1}
       \/ /\ rc'[c] = "ERROR"
          /\ delivered'[c] = delivered[c]
          /\ ~Fetching(c)'

\* Its statement stays as it is while a fetchmany of it ends, with its batch
\* or without it.
Ends(c) ==
    /\ Fetching(c) /\ ~Fetching(c)'
    /\ stmt'[c] = stmt[c] /\ rc'[c] = rc[c] /\ rowcount'[c] = rowcount[c]
    /\ UNCHANGED vdbe

Returned(c) ==
    /\ Ends(c)
    /\ rc[c] = "ROW" => Top.size >= 0 /\ Len(Top.rows) >= Top.size
    /\ delivered'[c] = delivered[c] \o Top.rows

Dropped(c) ==
    /\ "nomem" \in Habits
    /\ Ends(c)
    /\ delivered'[c] = delivered[c]

Summary ==
    \/ \A c \in Cursors : Kept(c) \/ Reset(c)
    \/ \E c \in Cursors :
        /\ First(c) \/ Fetched(c) \/ Returned(c) \/ Dropped(c)
        /\ \A d \in Cursors \ {c} : Kept(d)

LEMMA MoreStmtFields ==
    /\ FreeVdbe.row = 0
    /\ \A counts \in BOOLEAN :
        /\ Prepared(counts).row = 0
        /\ Started(Prepared(counts)).row = 0
    /\ \A v \in Vdbe, n \in 0..MaxChanges :
        /\ Halted(v, n).row = v.row
        /\ Halted(v, n).counts = v.counts
        /\ Halted(v, n).nChange = n
  <1>1. FreeVdbe.row = 0
    BY DEF FreeVdbe
  <1>2. \A v \in Vdbe, counts \in BOOLEAN :
          [v EXCEPT !.state = "ready", !.counts = counts].row = v.row
    BY DEF Vdbe
  <1>3. \A counts \in BOOLEAN : Prepared(counts).row = 0
    BY <1>1, <1>2, StmtRecords DEF Prepared
  <1>4. \A v \in Vdbe : Started(v).row = v.row
    BY DEF Vdbe, Started
  <1>5. \A v \in Vdbe, n \in 0..MaxChanges :
          /\ Halted(v, n).row = v.row
          /\ Halted(v, n).counts = v.counts
          /\ Halted(v, n).nChange = n
    BY DEF Vdbe, Halted
  <1> QED BY <1>1, <1>3, <1>4, <1>5, StmtRecords

\* A cursor gives up its statement, for none or for a fresh one.
LEMMA Replaced ==
    ASSUME Inv, ProgramTurn, NEW c \in Cursors, NEW code \in {"OK", "MISUSE"}, NEW n,
           \/ vdbe' = ClosedVdbe(c) /\ stmt' = [stmt EXCEPT ![c] = NoStmt]
           \/ \E s \in Fresh(ClosedVdbe(c)), v \in Vdbe :
                /\ vdbe' = [ClosedVdbe(c) EXCEPT ![s] = v]
                /\ stmt' = [stmt EXCEPT ![c] = s]
                /\ v.row = 0 /\ (v.state = "run" => n = 0),
           rc' = [rc EXCEPT ![c] = code],
           rowcount' = [rowcount EXCEPT ![c] = n],
           NoRows(c),
           UNCHANGED stack \/ \E f \in Frame : f.op # "fetchmany" /\ Push(f)
    PROVE  Reset(c) /\ \A d \in Cursors \ {c} : Kept(d)
  <1> USE StmtAssumption DEF Inv
  <1>1. NoFetch /\ NoFetch'
    <2>1. UNCHANGED stack => NoFetch'
      BY WaitingIsNoFetch DEF NoFetch
    <2> QED BY <2>1, WaitingIsNoFetch, PushIsNoFetch
  <1>2. \A d \in Cursors : ~Fetching(d) /\ ~Fetching(d)'
    BY <1>1, NotFetching
  <1>3. /\ rc'[c] = code /\ rowcount'[c] = n /\ delivered'[c] = <<>>
        /\ \A d \in Cursors \ {c} : /\ rc'[d] = rc[d] /\ rowcount'[d] = rowcount[d]
                                    /\ delivered'[d] = delivered[d] /\ stmt'[d] = stmt[d]
    BY DEF TypeOK, NoRows
  <1>4. /\ ClosedVdbe(c) \in [Stmts -> Vdbe]
        /\ \A d \in Cursors \ {c} : stmt[d] # NoStmt =>
               /\ stmt[d] \in Stmts /\ ClosedVdbe(c)[stmt[d]] = vdbe[stmt[d]]
               /\ vdbe[stmt[d]].state # "free"
    BY ClosedTyped DEF TypeOK, ClosedVdbe, CursorStmts
  <1>5. CASE vdbe' = ClosedVdbe(c) /\ stmt' = [stmt EXCEPT ![c] = NoStmt]
    <2>1. stmt'[c] = NoStmt
      BY <1>5 DEF TypeOK
    <2> QED BY <1>2, <1>3, <1>4, <1>5, <2>1 DEF Reset, Kept
  <1>6. ASSUME NEW s \in Fresh(ClosedVdbe(c)), NEW v \in Vdbe,
               vdbe' = [ClosedVdbe(c) EXCEPT ![s] = v],
               stmt' = [stmt EXCEPT ![c] = s],
               v.row = 0, v.state = "run" => n = 0
        PROVE  Reset(c) /\ \A d \in Cursors \ {c} : Kept(d)
    <2>1. s \in Stmts /\ ClosedVdbe(c)[s].state = "free"
      BY DEF Fresh
    <2>2. stmt'[c] = s /\ vdbe'[s] = v /\ \A t \in Stmts \ {s} : vdbe'[t] = ClosedVdbe(c)[t]
      BY <1>4, <1>6, <2>1 DEF TypeOK
    <2>3. Reset(c)
      BY <1>2, <1>3, <1>6, <2>2 DEF Reset
    <2>4. ASSUME NEW d \in Cursors \ {c} PROVE Kept(d)
      BY <1>2, <1>3, <1>4, <2>1, <2>2 DEF Kept
    <2> QED BY <2>3, <2>4
  <1> QED BY <1>5, <1>6

LEMMA ReplacedSummary ==
    ASSUME Inv, NEW c \in Cursors,
           \/ Rejected(c) \/ ExecuteBlank(c) \/ ExecuteUnbound(c)
           \/ ExecuteBegins(c) \/ ManyBegins(c) \/ CloseCursor(c) \/ DelCursor(c)
    PROVE  \A d \in Cursors : Kept(d) \/ Reset(d)
  <1> SUFFICES Reset(c) /\ \A d \in Cursors \ {c} : Kept(d)
    OBVIOUS
  <1>0. /\ ClosedRc(c) \in {"OK", "MISUSE"} /\ "MISUSE" \in {"OK", "MISUSE"}
        /\ ProgramTurn
    BY DEF Inv, TypeOK, RcTellsTheTruth, ClosedRc, Rejected, ExecuteBlank, ExecuteUnbound,
           ExecuteBegins, ManyBegins, CloseCursor, DelCursor
  <1>1. CASE Rejected(c) \/ CloseCursor(c) \/ DelCursor(c)
    <2>1. /\ vdbe' = ClosedVdbe(c) /\ stmt' = [stmt EXCEPT ![c] = NoStmt]
          /\ rc' = [rc EXCEPT ![c] = ClosedRc(c)]
          /\ rowcount' = [rowcount EXCEPT ![c] = ClosedRowcount(c)]
          /\ NoRows(c)
          /\ UNCHANGED stack
      BY <1>1 DEF Rejected, CloseCursor, DelCursor
    <2> QED BY <1>0, <2>1, Replaced
  <1>2. CASE ExecuteBlank(c)
    <2>1. /\ vdbe' = ClosedVdbe(c) /\ stmt' = [stmt EXCEPT ![c] = NoStmt]
          /\ rc' = [rc EXCEPT ![c] = "MISUSE"]
          /\ rowcount' = [rowcount EXCEPT ![c] = 0]
          /\ NoRows(c)
          /\ UNCHANGED stack
      BY <1>2 DEF ExecuteBlank
    <2> QED BY <1>0, <2>1, Replaced
  <1>3. CASE ExecuteUnbound(c)
    <2>1. PICK s \in Fresh(ClosedVdbe(c)), counts \in BOOLEAN :
            /\ vdbe' = [ClosedVdbe(c) EXCEPT ![s] = Prepared(counts)]
            /\ stmt' = [stmt EXCEPT ![c] = s]
      BY <1>3 DEF ExecuteUnbound
    <2>2. /\ Prepared(counts) \in Vdbe /\ Prepared(counts).row = 0
          /\ Prepared(counts).state # "run"
      BY StmtRecords, StmtFields, MoreStmtFields
    <2>3. /\ rc' = [rc EXCEPT ![c] = ClosedRc(c)]
          /\ rowcount' = [rowcount EXCEPT ![c] = ClosedRowcount(c)]
          /\ NoRows(c)
          /\ UNCHANGED stack
      BY <1>3 DEF ExecuteUnbound
    <2> QED BY <1>0, <2>1, <2>2, <2>3, Replaced
  <1>4. CASE ExecuteBegins(c)
    <2>1. PICK s \in Fresh(ClosedVdbe(c)), counts \in BOOLEAN :
            /\ vdbe' = [ClosedVdbe(c) EXCEPT ![s] = Started(Prepared(counts))]
            /\ stmt' = [stmt EXCEPT ![c] = s]
            /\ Push([op |-> "execute", cur |-> c, stmt |-> s, phase |-> StepPhase,
                     left |-> 0, size |-> 0, rows |-> <<>>])
      BY <1>4 DEF ExecuteBegins
    <2>2. Started(Prepared(counts)) \in Vdbe /\ Started(Prepared(counts)).row = 0
      BY StmtRecords, MoreStmtFields
    <2>3. /\ rc' = [rc EXCEPT ![c] = ClosedRc(c)]
          /\ rowcount' = [rowcount EXCEPT ![c] = 0]
          /\ NoRows(c)
      BY <1>4 DEF ExecuteBegins
    <2>4. \E f \in Frame : f.op # "fetchmany" /\ Push(f)
      BY <2>1, FramesTyped DEF Fresh
    <2> QED BY <1>0, <2>1, <2>2, <2>3, <2>4, Replaced
  <1>5. CASE ManyBegins(c)
    <2>1. /\ vdbe' = ClosedVdbe(c) /\ stmt' = [stmt EXCEPT ![c] = NoStmt]
          /\ rc' = [rc EXCEPT ![c] = ClosedRc(c)]
          /\ rowcount' = [rowcount EXCEPT ![c] = ClosedRowcount(c)]
          /\ NoRows(c)
          /\ Push([op |-> "executemany", cur |-> c, stmt |-> NoStmt, phase |-> "next",
                   left |-> MaxScript, size |-> 0, rows |-> <<>>])
      BY <1>5 DEF ManyBegins
    <2>2. \E f \in Frame : f.op # "fetchmany" /\ Push(f)
      BY <2>1, FramesTyped
    <2> QED BY <1>0, <2>1, <2>2, Replaced
  <1> QED BY <1>1, <1>2, <1>3, <1>4, <1>5

LEMMA ClosedConnectionSummary ==
    ASSUME Inv, CloseConnection
    PROVE  \A d \in Cursors : Kept(d) \/ Reset(d)
  <1> USE StmtAssumption DEF Inv
  <1>1. /\ \A s \in Stmts : vdbe'[s] = IF s \in ClosedByConnection THEN FreeVdbe ELSE vdbe[s]
        /\ \A c \in Cursors :
             /\ stmt'[c] = IF c \in registered THEN NoStmt ELSE stmt[c]
             /\ delivered'[c] = IF c \in registered THEN <<>> ELSE delivered[c]
             /\ rc'[c] = IF c \in registered /\ stmt[c] # NoStmt THEN "OK" ELSE rc[c]
             /\ rowcount'[c] = IF c \in registered /\ stmt[c] # NoStmt
                               THEN -1 ELSE rowcount[c]
        /\ UNCHANGED stack
        /\ ProgramTurn
    BY DEF CloseConnection
  <1>2. \A d \in Cursors : ~Fetching(d) /\ ~Fetching(d)'
    <2>1. NoFetch /\ NoFetch'
      BY <1>1, WaitingIsNoFetch DEF NoFetch
    <2> QED BY <2>1, NotFetching
  <1>3. ASSUME NEW d \in registered PROVE Reset(d)
    <2>1. d \in Cursors
      BY DEF TypeOK
    <2> QED BY <1>1, <1>2, <2>1 DEF Reset, RcTellsTheTruth
  <1>4. ASSUME NEW d \in Cursors \ registered PROVE Kept(d)
    <2>1. stmt[d] # NoStmt => stmt[d] \in Stmts /\ stmt[d] \notin ClosedByConnection
      BY DEF TypeOK, CursorStmts, ClosedByConnection
    <2> QED BY <1>1, <1>2, <2>1 DEF Kept
  <1> QED BY <1>3, <1>4

\* Steps that leave every cursor as it is.
LEMMA QuietSummary ==
    ASSUME Inv,
           \/ \E c \in Cursors : NewCursor(c) \/ UsesFreedCursor(c)
           \/ \E c \in Cursors, n \in Sizes : SetArraysize(c, n)
           \/ \E on \in BOOLEAN : SetTraceCallback(on)
           \/ UsesNullDb \/ TraceReturnsToFreed \/ Terminated \/ UNCHANGED vars
    PROVE  \A d \in Cursors : Kept(d)
  <1>1. UNCHANGED <<stmt, rc, rowcount, delivered, vdbe, stack>>
    BY DEF NewCursor, UsesFreedCursor, SetArraysize, SetTraceCallback, UsesNullDb,
           TraceReturnsToFreed, Terminated, vars, curVars, sqlVars
  <1> QED BY <1>1 DEF Kept

\* The statement of a sqlite3_exec is no cursor's.
LEMMA ManySummary ==
    ASSUME Inv,
           \/ ManyPrepares \/ ManyStmtDone \/ ManyFails \/ ManyRejects \/ ManyReturns
           \/ TraceReturns \/ Unwinds
    PROVE  \A d \in Cursors : Kept(d)
  <1> USE StmtAssumption DEF Inv
  <1>1. /\ stack # <<>> /\ Top.op # "fetchmany"
        /\ UNCHANGED <<stmt, rc, rowcount, delivered>>
    <2>1. /\ stack # <<>> /\ UNCHANGED <<stmt, rc, rowcount, delivered>>
          /\ Top.op = "executemany" \/ Top.phase \in {"trace", "run"}
      BY DEF ManyPrepares, ManyStmtDone, ManyFails, ManyRejects, ManyReturns,
             TraceReturns, Unwinds, InCall, curVars
    <2>2. Shaped(Top)
      BY <2>1, TopFacts DEF TypeOK, FrameShape
    <2> QED BY <2>1, <2>2 DEF Shaped
  <1>2. /\ Top \in Frame /\ Top = stack[Len(stack)] /\ Len(stack) \in DOMAIN stack
    BY <1>1, TopFacts DEF TypeOK
  <1>3. NoFetch'
    <2>1. \/ Pop
          \/ \E f : f.op = Top.op /\ f \in Frame /\ SetTop(f)
      <3>1. CASE ManyPrepares
        <4>1. PICK s \in Stmts : SetTop([Top EXCEPT !.stmt = s, !.phase = StepPhase,
                                                 !.left = @ - 1])
          BY <3>1 DEF ManyPrepares, Fresh
        <4>a. Top.left > 0 /\ Top.left \in 0..MaxScript
          BY <1>2, <3>1 DEF ManyPrepares, Frame
        <4>2. Top.left - 1 \in 0..MaxScript
          BY <4>a, BoundsAssumption
        <4>3. /\ [Top EXCEPT !.stmt = s, !.phase = StepPhase, !.left = @ - 1] \in Frame
              /\ [Top EXCEPT !.stmt = s, !.phase = StepPhase, !.left = @ - 1].op = Top.op
          BY <1>2, <4>2 DEF Frame, StepPhase
        <4> QED BY <4>1, <4>3
      <3>2. CASE ManyStmtDone
        <4>1. /\ [Top EXCEPT !.stmt = NoStmt, !.phase = "next"] \in Frame
              /\ [Top EXCEPT !.stmt = NoStmt, !.phase = "next"].op = Top.op
          BY <1>2 DEF Frame
        <4> QED BY <3>2, <4>1 DEF ManyStmtDone
      <3>3. CASE TraceReturns
        <4>1. /\ [Top EXCEPT !.phase = "run"] \in Frame
              /\ [Top EXCEPT !.phase = "run"].op = Top.op
          BY <1>2 DEF Frame
        <4> QED BY <3>3, <4>1 DEF TraceReturns
      <3> QED BY <3>1, <3>2, <3>3 DEF ManyFails, ManyRejects, ManyReturns, Unwinds
    <2> QED BY <1>1, <2>1, PopLeavesNoFetch, SetTopIsNoFetch
  <1>4. \A d \in Cursors : ~Fetching(d) /\ ~Fetching(d)'
    BY <1>1, <1>3, TopIsNoFetch, NotFetching
  <1>5. ASSUME NEW d \in Cursors, stmt[d] # NoStmt
        PROVE  vdbe'[stmt[d]] = vdbe[stmt[d]]
    <2>1. stmt[d] \in Stmts /\ vdbe[stmt[d]].state # "free"
      BY <1>5 DEF TypeOK, CursorStmts
    <2>2. CASE ManyPrepares
      <3>1. PICK s \in Fresh(vdbe), counts \in BOOLEAN :
              vdbe' = [vdbe EXCEPT ![s] = Started(Prepared(counts))]
        BY <2>2 DEF ManyPrepares
      <3> QED BY <2>1, <3>1 DEF Fresh, TypeOK
    <2>3. CASE ManyStmtDone \/ ManyFails
      <3>1. vdbe' = [vdbe EXCEPT ![Top.stmt] = FreeVdbe] /\ InCall("executemany", "run")
        BY <2>3 DEF ManyStmtDone, ManyFails, ManyFinalizes
      <3>2. Top.stmt # NoStmt /\ Top.op = "executemany"
        BY <1>2, <3>1 DEF InCall, FrameShape, Shaped
      <3>3. stmt[d] # Top.stmt
        BY <1>2, <3>2 DEF FrameStmts, Agrees
      <3> QED BY <2>1, <3>1, <3>3 DEF TypeOK
    <2>4. CASE ManyRejects \/ ManyReturns \/ TraceReturns \/ Unwinds
      BY <2>4 DEF ManyRejects, ManyReturns, TraceReturns, Unwinds, sqlVars
    <2> QED BY <2>2, <2>3, <2>4
  <1> QED BY <1>1, <1>4, <1>5 DEF Kept

\* What stepExecute leaves: the row and the state of the statement, rc and
\* rowcount; nothing of another cursor's.
LEMMA SteppedFacts ==
    ASSUME Inv, NEW c \in Cursors, stmt[c] \in Stmts, vdbe[stmt[c]].state = "run",
           UNCHANGED stmt,
           \/ StepRow(c) \/ StepHalts(c, "DONE") \/ StepHalts(c, "ERROR")
    PROVE  /\ Stepped(c, rc'[c]) /\ rc'[c] \in StepCodes
           /\ StepRow(c) => rc'[c] = "ROW"
           /\ StepHalts(c, "DONE") => /\ rc'[c] = "DONE"
                                      /\ vdbe'[stmt[c]].counts =>
                                             vdbe'[stmt[c]].nChange = nChange'
           /\ StepHalts(c, "ERROR") => rc'[c] = "ERROR"
           /\ \A d \in Cursors \ {c} : /\ rc'[d] = rc[d]
                                       /\ stmt[d] # NoStmt => vdbe'[stmt[d]] = vdbe[stmt[d]]
  <1> USE StmtAssumption DEF Inv
  <1> DEFINE v == vdbe[stmt[c]]
  <1>0. v \in Vdbe
    BY DEF TypeOK
  <1>1. \A d \in Cursors \ {c} : stmt[d] # NoStmt => stmt[d] \in Stmts /\ stmt[d] # stmt[c]
    BY DEF TypeOK, CursorStmts
  <1>2. ASSUME StepRow(c)
        PROVE  /\ Stepped(c, "ROW") /\ rc'[c] = "ROW"
               /\ \A d \in Cursors \ {c} : /\ rc'[d] = rc[d]
                                           /\ stmt[d] # NoStmt => vdbe'[stmt[d]] = vdbe[stmt[d]]
    <2>1. /\ vdbe' = [vdbe EXCEPT ![stmt[c]] = WithRow(v)]
          /\ rc' = [rc EXCEPT ![c] = "ROW"]
          /\ rowcount' = [rowcount EXCEPT ![c] = @ + 1]
      BY <1>2 DEF StepRow
    <2>2. WithRow(v).row = v.row + 1 /\ WithRow(v).state = v.state
      BY <1>0, StmtFields
    <2>3. /\ vdbe'[stmt[c]] = WithRow(v) /\ rowcount'[c] = rowcount[c] + 1
          /\ rc'[c] = "ROW"
      BY <2>1 DEF TypeOK
    <2>4. Stepped(c, "ROW")
      BY <2>2, <2>3 DEF Stepped
    <2>5. \A d \in Cursors \ {c} : /\ rc'[d] = rc[d]
                                   /\ stmt[d] # NoStmt => vdbe'[stmt[d]] = vdbe[stmt[d]]
      BY <1>1, <2>1 DEF TypeOK
    <2> QED BY <2>3, <2>4, <2>5
  <1>3. ASSUME NEW code \in {"DONE", "ERROR"}, StepHalts(c, code)
        PROVE  /\ Stepped(c, code) /\ rc'[c] = code
               /\ vdbe'[stmt[c]].counts => vdbe'[stmt[c]].nChange = nChange'
               /\ \A d \in Cursors \ {c} : /\ rc'[d] = rc[d]
                                           /\ stmt[d] # NoStmt => vdbe'[stmt[d]] = vdbe[stmt[d]]
    <2>1. PICK n \in ChangesOf(v) :
            /\ vdbe' = [vdbe EXCEPT ![stmt[c]] = Halted(v, n)]
            /\ nChange' = ChangesAfterHalt(v, n, nChange)
            /\ rc' = [rc EXCEPT ![c] = code]
      BY <1>3 DEF StepHalts
    <2>2. n \in 0..MaxChanges
      BY ChangesAssumption DEF ChangesOf
    <2>3. /\ Halted(v, n).row = v.row /\ Halted(v, n).state = "halt"
          /\ Halted(v, n).counts = v.counts /\ Halted(v, n).nChange = n
      BY <1>0, <2>2, StmtFields, MoreStmtFields
    <2>4. vdbe'[stmt[c]] = Halted(v, n) /\ rc'[c] = code
      BY <2>1 DEF TypeOK
    <2>5. Stepped(c, code)
      BY <2>3, <2>4 DEF Stepped
    <2>6. vdbe'[stmt[c]].counts => vdbe'[stmt[c]].nChange = nChange'
      BY <2>1, <2>3, <2>4 DEF ChangesAfterHalt
    <2>7. \A d \in Cursors \ {c} : /\ rc'[d] = rc[d]
                                   /\ stmt[d] # NoStmt => vdbe'[stmt[d]] = vdbe[stmt[d]]
      BY <1>1, <2>1 DEF TypeOK
    <2> QED BY <2>4, <2>5, <2>6, <2>7
  <1> QED BY <1>2, <1>3 DEF StepCodes

LEMMA ExecutedSummary ==
    ASSUME Inv, ExecuteRow \/ ExecuteDone \/ ExecuteFails
    PROVE  \E c \in Cursors : First(c) /\ \A d \in Cursors \ {c} : Kept(d)
  <1> USE StmtAssumption DEF Inv
  <1>1. /\ stack # <<>> /\ Top.op = "execute" /\ Top.phase = "run" /\ Pop
        /\ UNCHANGED <<stmt, delivered>>
    BY DEF ExecuteRow, ExecuteDone, ExecuteFails, InCall
  <1>2. /\ Top \in Frame /\ Top = stack[Len(stack)] /\ Len(stack) \in DOMAIN stack
        /\ Top.cur \in Cursors
    BY <1>1, TopFacts DEF TypeOK, Frame
  <1>c. PICK c \in Cursors : c = Top.cur
    BY <1>2
  <1>3. Top.stmt \in Stmts /\ Agrees(Top, vdbe, stmt)
    BY <1>1, <1>2 DEF FrameShape, Shaped, FrameStmts
  <1>4. /\ stmt[c] \in Stmts /\ vdbe[stmt[c]].state = "run"
        /\ vdbe[stmt[c]].result = 0
    BY <1>1, <1>3, <1>c DEF Agrees
  <1>5. rc[c] \in {"OK", "MISUSE"}
    BY <1>2, <1>4 DEF TypeOK, Codes, RcTellsTheTruth
  <1>6. \A d \in Cursors : ~Fetching(d) /\ ~Fetching(d)'
    BY <1>1, TopIsNoFetch, PopLeavesNoFetch, NotFetching
  <1>7. \/ StepRow(c)
        \/ StepHalts(c, "DONE") /\ rowcount' = [rowcount EXCEPT ![c] = nChange']
        \/ StepHalts(c, "ERROR") /\ UNCHANGED rowcount
    BY <1>c DEF ExecuteRow, ExecuteDone, ExecuteFails, StepError, ReportedChanges
  <1>8. \A d \in Cursors \ {c} : rowcount'[d] = rowcount[d]
    BY <1>2, <1>7 DEF StepRow, TypeOK
  <1>9. First(c)
    <2>1. Stepped(c, rc'[c]) /\ rc'[c] \in StepCodes
      BY <1>1, <1>2, <1>4, <1>7, SteppedFacts
    <2>2. rc'[c] = "DONE" /\ vdbe'[stmt[c]].counts => rowcount'[c] = vdbe'[stmt[c]].nChange
      BY <1>1, <1>2, <1>4, <1>7, SteppedFacts DEF TypeOK
    <2>3. ~Fetching(c) /\ ~Fetching(c)' /\ delivered'[c] = delivered[c]
      BY <1>1, <1>2, <1>6
    <2>4. \E code \in StepCodes : Stepped(c, code)
      BY <2>1
    <2> QED BY <1>5, <2>2, <2>3, <2>4 DEF First
  <1>10. \A d \in Cursors \ {c} : Kept(d)
    BY <1>1, <1>2, <1>4, <1>6, <1>7, <1>8, SteppedFacts DEF Kept
  <1> QED BY <1>2, <1>9, <1>10

\* The step of a fetch, whatever becomes of the row that was built.
LEMMA FetchedFacts ==
    ASSUME Inv, NEW c \in Cursors, rc[c] = "ROW", UNCHANGED stmt,
           StepRow(c) \/ StepDone(c) \/ StepError(c)
    PROVE  /\ \E code \in StepCodes : Stepped(c, code)
           /\ rc'[c] # "ROW" => rowcount'[c] = rowcount[c]
           /\ StepRow(c) \/ StepDone(c) => rc'[c] # "ERROR"
           /\ StepError(c) => rc'[c] = "ERROR"
           /\ \A d \in Cursors \ {c} :
                /\ stmt'[d] = stmt[d] /\ rc'[d] = rc[d] /\ rowcount'[d] = rowcount[d]
                /\ stmt[d] # NoStmt => vdbe'[stmt[d]] = vdbe[stmt[d]]
  <1>1. stmt[c] \in Stmts /\ vdbe[stmt[c]].state = "run"
    BY RowToBuild DEF Inv
  <1>2. StepRow(c) \/ StepHalts(c, "DONE") \/ StepHalts(c, "ERROR")
    BY DEF StepDone, StepError
  <1>3. /\ Stepped(c, rc'[c]) /\ rc'[c] \in StepCodes
        /\ StepRow(c) => rc'[c] = "ROW"
        /\ StepHalts(c, "DONE") => rc'[c] = "DONE"
        /\ StepHalts(c, "ERROR") => rc'[c] = "ERROR"
        /\ \A d \in Cursors \ {c} : /\ rc'[d] = rc[d]
                                    /\ stmt[d] # NoStmt => vdbe'[stmt[d]] = vdbe[stmt[d]]
    BY <1>1, <1>2, SteppedFacts
  <1>4. \A d \in Cursors \ {c} : rowcount'[d] = rowcount[d]
    BY DEF StepRow, StepDone, StepError, Inv, TypeOK
  <1>5. StepDone(c) \/ StepError(c) => UNCHANGED rowcount
    BY DEF StepDone, StepError
  <1> QED BY <1>3, <1>4, <1>5 DEF StepDone, StepError

LEMMA FetchedOneSummary ==
    ASSUME Inv, NEW c \in Cursors, HasRow(c), ReturnsOneRow(c)
    PROVE  Fetched(c) /\ \A d \in Cursors \ {c} : Kept(d)
  <1>1. /\ rc[c] = "ROW" /\ ProgramTurn /\ UNCHANGED <<stmt, stack>>
        /\ \/ /\ StepRow(c) \/ StepDone(c)
              /\ delivered' = [delivered EXCEPT ![c] = Append(@, BuiltRow(c))]
           \/ StepError(c) /\ UNCHANGED delivered
    BY DEF HasRow, ReturnsOneRow
  <1>2. \A d \in Cursors : ~Fetching(d) /\ ~Fetching(d)'
    <2>1. NoFetch /\ NoFetch'
      BY <1>1, WaitingIsNoFetch DEF NoFetch
    <2> QED BY <2>1, NotFetching
  <1>3. \A d \in Cursors \ {c} : delivered'[d] = delivered[d]
    BY <1>1 DEF Inv, TypeOK
  <1>4. /\ \E code \in StepCodes : Stepped(c, code)
        /\ rc'[c] # "ROW" => rowcount'[c] = rowcount[c]
        /\ StepRow(c) \/ StepDone(c) => rc'[c] # "ERROR"
        /\ StepError(c) => rc'[c] = "ERROR"
        /\ \A d \in Cursors \ {c} :
             /\ stmt'[d] = stmt[d] /\ rc'[d] = rc[d] /\ rowcount'[d] = rowcount[d]
             /\ stmt[d] # NoStmt => vdbe'[stmt[d]] = vdbe[stmt[d]]
    BY <1>1, FetchedFacts
  <1>5. \/ rc'[c] # "ERROR" /\ delivered'[c] = Append(delivered[c], BuiltRow(c))
        \/ rc'[c] = "ERROR" /\ delivered'[c] = delivered[c]
    BY <1>1, <1>4 DEF Inv, TypeOK
  <1>6. Fetched(c)
    BY <1>1, <1>2, <1>5, <1>4 DEF Fetched
  <1>7. \A d \in Cursors \ {c} : Kept(d)
    BY <1>2, <1>3, <1>4 DEF Kept
  <1> QED BY <1>6, <1>7

LEMMA FetchManySummary ==
    ASSUME Inv, NEW c \in Cursors, NEW n \in Int, FetchMany(c, n)
    PROVE  Fetched(c) /\ \A d \in Cursors \ {c} : Kept(d)
  <1> DEFINE f == [op |-> "fetchmany", cur |-> c, stmt |-> NoStmt, phase |-> "loop",
                   left |-> 0, size |-> n, rows |-> <<BuiltRow(c)>>]
  <1>1. /\ HasRow(c) /\ rc[c] = "ROW" /\ ProgramTurn
        /\ UNCHANGED <<connVars, objVars, stmt, arraysize, sqliteDb, nVdbeExec, fault>>
    BY DEF FetchMany, HasRow
  <1>2. CASE ReturnsOneRow(c)
    BY <1>1, <1>2, FetchedOneSummary
  <1>3. CASE /\ StepRow(c) \/ StepDone(c)
             /\ n \notin {0, 1} /\ Push(f) /\ UNCHANGED delivered
    <2>1. /\ f \in Frame /\ f.op = "fetchmany" /\ f.cur = c
          /\ f.rows = <<BuiltRow(c)>> /\ f.size = n
      BY <1>1, RowToBuild, FramesTyped DEF Inv
    <2> HIDE DEF f
    <2>2. /\ Len(stack') = Len(stack) + 1
          /\ DOMAIN stack' = 1..(Len(stack) + 1) /\ DOMAIN stack = 1..Len(stack)
          /\ stack'[Len(stack) + 1] = f
          /\ \A i \in 1..Len(stack) : stack'[i] = stack[i]
          /\ Len(stack) \in Nat
      BY <1>3, <2>1, PushFacts, LenProperties DEF Inv, TypeOK
    <2>3. \A d \in Cursors : ~Fetching(d)
      BY <1>1, WaitingIsNoFetch, NotFetching
    <2>a. \A i \in 1..(Len(stack) + 1) : i \in 1..Len(stack) \/ i = Len(stack) + 1
      BY <2>2
    <2>b. \A i \in DOMAIN stack : stack[i].op # "fetchmany"
      BY <1>1, WaitingIsNoFetch DEF NoFetch
    <2>4. Fetching(c)' /\ Top' = f
      BY <2>1, <2>2 DEF Fetching, FetchFrames, Top
    <2>5. \A d \in Cursors \ {c} : ~Fetching(d)'
      BY <2>1, <2>2, <2>a, <2>b DEF Fetching, FetchFrames
    <2>6. Top.rows' = Append(<<>>, BuiltRow(c))
      <3>1. Top.rows' = <<BuiltRow(c)>>
        BY <2>1, <2>4
      <3>2. ASSUME NEW r PROVE Append(<<>>, r) = <<r>>
        OBVIOUS
      <3> QED BY <3>1, <3>2
    <2>c. Top.size' \in Int \ {0, 1}
      BY <1>3, <2>1, <2>4
    <2>7. Fetched(c)
      BY <1>1, <1>3, <2>3, <2>4, <2>6, <2>c, FetchedFacts DEF Fetched
    <2>8. \A d \in Cursors \ {c} : Kept(d)
      BY <1>1, <1>3, <2>3, <2>5, FetchedFacts DEF Kept
    <2> QED BY <2>7, <2>8
  <1>4. \/ ReturnsOneRow(c)
        \/ /\ StepRow(c) \/ StepDone(c)
           /\ n \notin {0, 1} /\ Push(f) /\ UNCHANGED delivered
    BY <1>1 DEF FetchMany, ReturnsOneRow
  <1> QED BY <1>2, <1>3, <1>4

LEMMA FetchLoopSummary ==
    ASSUME Inv, FetchLoop
    PROVE  \E c \in Cursors : Fetched(c) /\ \A d \in Cursors \ {c} : Kept(d)
  <1>1. /\ stack # <<>> /\ Top.op = "fetchmany" /\ rc[Top.cur] = "ROW"
        /\ Top.size < 0 \/ Len(Top.rows) < Top.size
        /\ UNCHANGED <<stmt, delivered>>
    BY DEF FetchLoop, InCall, FetchMore
  <1>2. /\ Top \in Frame /\ Top = stack[Len(stack)] /\ Len(stack) \in DOMAIN stack
        /\ Top.cur \in Cursors
    BY <1>1, TopFacts DEF Inv, TypeOK, Frame
  <1>3. PICK c \in Cursors : c = Top.cur
    BY <1>2
  <1>4. Fetching(c) /\ \A d \in Cursors \ {c} : ~Fetching(d)
    BY <1>1, <1>3, TopFetching
  <1>5. /\ rc[c] = "ROW"
        /\ \/ /\ StepRow(c) \/ StepDone(c)
              /\ SetTop([Top EXCEPT !.rows = Append(@, BuiltRow(c))])
           \/ StepError(c) /\ Pop
    BY <1>1, <1>3 DEF FetchLoop
  <1>6. /\ \E code \in StepCodes : Stepped(c, code)
        /\ rc'[c] # "ROW" => rowcount'[c] = rowcount[c]
        /\ StepRow(c) \/ StepDone(c) => rc'[c] # "ERROR"
        /\ StepError(c) => rc'[c] = "ERROR"
        /\ \A d \in Cursors \ {c} :
             /\ stmt'[d] = stmt[d] /\ rc'[d] = rc[d] /\ rowcount'[d] = rowcount[d]
             /\ stmt[d] # NoStmt => vdbe'[stmt[d]] = vdbe[stmt[d]]
    BY <1>1, <1>5, FetchedFacts
  <1>7. CASE StepError(c) /\ Pop
    <2>1. \A d \in Cursors : ~Fetching(d)'
      BY <1>1, <1>7, PopLeavesNoFetch, NotFetching
    <2>2. Fetched(c)
      BY <1>1, <1>5, <1>6, <1>7, <2>1 DEF Fetched
    <2> QED BY <1>1, <1>4, <1>6, <2>1, <2>2 DEF Kept
  <1>8. CASE /\ StepRow(c) \/ StepDone(c)
             /\ SetTop([Top EXCEPT !.rows = Append(@, BuiltRow(c))])
    <2> DEFINE f == [Top EXCEPT !.rows = Append(@, BuiltRow(c))]
    <2>1. /\ f.op = "fetchmany" /\ f.cur = c /\ f.size = Top.size
          /\ f.rows = Append(Top.rows, BuiltRow(c))
      BY <1>1, <1>2, <1>3 DEF Frame
    <2>2. SetTop(f)
      BY <1>8
    <2> HIDE DEF f
    <2>3. /\ DOMAIN stack' = DOMAIN stack /\ stack'[Len(stack)] = f
          /\ Len(stack') = Len(stack)
          /\ \A i \in DOMAIN stack : i # Len(stack) => stack'[i] = stack[i]
      BY <1>1, <1>2, <2>2, SetTopKeeps DEF SetTop, Inv, TypeOK
    <2>4. Top' = f /\ Fetching(c)'
      BY <1>2, <2>1, <2>3 DEF Top, Fetching, FetchFrames
    <2>5. \A d \in Cursors \ {c} : ~Fetching(d)'
      BY <1>4, <2>1, <2>3 DEF Fetching, FetchFrames
    <2>6. Top.rows' = Append(Top.rows, BuiltRow(c)) /\ Top.size' = Top.size
      BY <2>1, <2>4
    <2>7. Fetched(c)
      BY <1>1, <1>4, <1>5, <1>6, <1>8, <2>4, <2>6 DEF Fetched
    <2> QED BY <1>1, <1>4, <1>6, <2>5, <2>7 DEF Kept
  <1> QED BY <1>5, <1>7, <1>8

LEMMA FetchEndsSummary ==
    ASSUME Inv, FetchReturns \/ FetchNoMem
    PROVE  \E c \in Cursors : /\ Returned(c) \/ Dropped(c)
                              /\ \A d \in Cursors \ {c} : Kept(d)
  <1>1. /\ stack # <<>> /\ Top.op = "fetchmany" /\ Pop
        /\ UNCHANGED <<stmt, rc, rowcount, vdbe>>
        /\ \/ /\ delivered' = [delivered EXCEPT ![Top.cur] = @ \o Top.rows]
              /\ ~FetchMore(Top)
           \/ UNCHANGED delivered /\ "nomem" \in Habits
    BY DEF FetchReturns, FetchNoMem, InCall, curVars, sqlVars
  <1>2. PICK c \in Cursors : c = Top.cur
    BY <1>1, TopFacts DEF Inv, TypeOK, Frame
  <1>3. Fetching(c) /\ \A d \in Cursors \ {c} : ~Fetching(d)
    BY <1>1, <1>2, TopFetching
  <1>4. \A d \in Cursors : ~Fetching(d)'
    BY <1>1, PopLeavesNoFetch, NotFetching
  <1>5. Returned(c) \/ Dropped(c)
    <2>1. Ends(c)
      BY <1>1, <1>2, <1>3, <1>4 DEF Ends
    <2>2. Top.size \in Int /\ Len(Top.rows) \in Nat
      BY <1>1, TopFacts, LenProperties DEF Inv, TypeOK, Frame
    <2>3. ~FetchMore(Top) => (rc[c] = "ROW" => Top.size >= 0 /\ Len(Top.rows) >= Top.size)
      BY <1>2, <2>2 DEF FetchMore
    <2> QED BY <1>1, <1>2, <2>1, <2>3 DEF Returned, Dropped, Inv, TypeOK
  <1>6. ASSUME NEW d \in Cursors \ {c} PROVE Kept(d)
    BY <1>1, <1>2, <1>3, <1>4 DEF Kept, Inv, TypeOK
  <1> QED BY <1>5, <1>6

\* Either some result sets are closed, or one cursor steps, or its batch ends.
LEMMA StepSummary ==
    ASSUME Inv, [Next]_vars
    PROVE  Summary
  <1> USE DEF Summary
  <1>1. CASE ExecuteRow \/ ExecuteDone \/ ExecuteFails
    BY <1>1, ExecutedSummary
  <1>2. CASE \/ FetchLoop
             \/ \E c \in Cursors : FetchOne(c) \/ IterNext(c) \/ FetchAll(c)
             \/ \E c \in Cursors : \E n \in Sizes \cup {arraysize[c]} : FetchMany(c, n)
    <2>1. \A c \in Cursors : arraysize[c] \in Int
      BY DEF Inv, TypeOK
    <2>2. \E c \in Cursors : Fetched(c) /\ \A d \in Cursors \ {c} : Kept(d)
      BY <1>2, <2>1, FetchLoopSummary, FetchedOneSummary, FetchManySummary, SizesAssumption
         DEF FetchOne, IterNext, FetchAll
    <2> QED BY <2>2
  <1>3. CASE FetchReturns \/ FetchNoMem
    BY <1>3, FetchEndsSummary
  <1>4. CASE \E c \in Cursors :
               \/ Rejected(c) \/ ExecuteBlank(c) \/ ExecuteUnbound(c)
               \/ ExecuteBegins(c) \/ ManyBegins(c) \/ CloseCursor(c) \/ DelCursor(c)
    BY <1>4, ReplacedSummary
  <1>5. CASE CloseConnection
    BY <1>5, ClosedConnectionSummary
  <1>6. CASE \/ \E c \in Cursors : NewCursor(c) \/ UsesFreedCursor(c)
             \/ \E c \in Cursors, n \in Sizes : SetArraysize(c, n)
             \/ \E on \in BOOLEAN : SetTraceCallback(on)
             \/ UsesNullDb \/ TraceReturnsToFreed \/ Terminated \/ UNCHANGED vars
    BY <1>6, QuietSummary
  <1>7. CASE \/ ManyPrepares \/ ManyStmtDone \/ ManyFails \/ ManyRejects \/ ManyReturns
             \/ TraceReturns \/ Unwinds
    BY <1>7, ManySummary
  <1> QED
    BY <1>1, <1>2, <1>3, <1>4, <1>5, <1>6, <1>7
       DEF Next, ProgramStep, CallStep, CallbackStep, ConnectionStep

-----------------------------------------------------------------------------
(* Sequences of rows.                                                      *)

\* Every row is later than the one before it.
Ascending(q) == \A i \in DOMAIN q : q[i] > IF i = 1 THEN 0 ELSE q[i - 1]

\* Rows 1..n.
UpTo(n) == [i \in 1..n |-> i]

LEMMA AppendFacts ==
    ASSUME NEW q \in Seq(Row), NEW r \in Row
    PROVE  /\ Append(q, r) \in Seq(Row)
           /\ Len(q) \in Nat /\ DOMAIN q = 1..Len(q)
           /\ DOMAIN Append(q, r) = 1..(Len(q) + 1)
           /\ \A i \in 1..Len(q) : Append(q, r)[i] = q[i] /\ q[i] \in Row
           /\ Append(q, r)[Len(q) + 1] = r
  BY AppendProperties, LenProperties

LEMMA ConcatFacts ==
    ASSUME NEW p \in Seq(Row), NEW q \in Seq(Row)
    PROVE  /\ p \o q \in Seq(Row)
           /\ Len(p) \in Nat /\ Len(q) \in Nat /\ Len(p \o q) = Len(p) + Len(q)
           /\ DOMAIN p = 1..Len(p) /\ DOMAIN q = 1..Len(q)
           /\ DOMAIN (p \o q) = 1..(Len(p) + Len(q))
           /\ \A i \in 1..Len(p) : (p \o q)[i] = p[i]
           /\ \A i \in 1..Len(q) : (p \o q)[Len(p) + i] = q[i]
  <1>1. /\ p \o q \in Seq(Row) /\ Len(p \o q) = Len(p) + Len(q)
        /\ Len(p) \in Nat /\ Len(q) \in Nat
    BY ConcatProperties, LenProperties
  <1>2. \A i \in 1..Len(p) + Len(q) :
          (p \o q)[i] = IF i <= Len(p) THEN p[i] ELSE q[i - Len(p)]
    BY <1>1, ConcatProperties
  <1>3. ASSUME NEW m \in Nat, NEW n \in Nat
        PROVE  /\ \A i \in 1..m : i \in 1..m + n /\ i <= m
               /\ \A i \in 1..n : m + i \in 1..m + n /\ ~(m + i <= m) /\ m + i - m = i
    OBVIOUS
  <1>4. /\ \A i \in 1..Len(p) : i \in 1..Len(p) + Len(q) /\ i <= Len(p)
        /\ \A i \in 1..Len(q) : /\ Len(p) + i \in 1..Len(p) + Len(q)
                                /\ ~(Len(p) + i <= Len(p)) /\ Len(p) + i - Len(p) = i
    BY <1>1, <1>3
  <1>5. /\ \A i \in 1..Len(p) : (p \o q)[i] = p[i]
        /\ \A i \in 1..Len(q) : (p \o q)[Len(p) + i] = q[i]
    BY <1>2, <1>4
  <1> QED BY <1>1, <1>5, LenProperties

LEMMA ConcatAppend ==
    ASSUME NEW p \in Seq(Row), NEW q \in Seq(Row), NEW r \in Row
    PROVE  p \o Append(q, r) = Append(p \o q, r)
  <1>1. /\ Append(q, r) = q \o <<r>> /\ Append(p \o q, r) = (p \o q) \o <<r>>
        /\ p \o q \in Seq(Row) /\ <<r>> \in Seq(Row)
    BY ConcatFacts, AppendIsConcat
  <1> QED BY <1>1, ConcatAssociative

LEMMA ConcatNothing ==
    ASSUME NEW p \in Seq(Row)
    PROVE  p \o <<>> = p /\ <<>> \in Seq(Row)
  BY ConcatEmptySeq, EmptySeq

LEMMA AscendingAppend ==
    ASSUME NEW q \in Seq(Row), NEW r \in Row, r > 0,
           Ascending(q), \A i \in DOMAIN q : q[i] < r
    PROVE  Ascending(Append(q, r))
  <1>1. /\ Len(q) \in Nat /\ DOMAIN q = 1..Len(q)
        /\ DOMAIN Append(q, r) = 1..(Len(q) + 1)
        /\ \A i \in 1..Len(q) : Append(q, r)[i] = q[i]
        /\ Append(q, r)[Len(q) + 1] = r
    BY AppendFacts
  <1>2. ASSUME NEW n \in Nat, NEW i \in 1..(n + 1)
        PROVE  /\ i \in 1..n \/ i = n + 1
               /\ i # 1 => i - 1 \in 1..n
    OBVIOUS
  <1>3. SUFFICES ASSUME NEW i \in 1..(Len(q) + 1)
                 PROVE  Append(q, r)[i] > IF i = 1 THEN 0 ELSE Append(q, r)[i - 1]
    BY <1>1 DEF Ascending
  <1>4. /\ i \in 1..Len(q) \/ i = Len(q) + 1
        /\ i # 1 => i - 1 \in 1..Len(q)
    BY <1>1, <1>2
  <1>5. CASE i \in 1..Len(q)
    BY <1>1, <1>4, <1>5 DEF Ascending
  <1>6. CASE i = Len(q) + 1
    <2>1. Append(q, r)[i] = r
      BY <1>1, <1>6
    <2>2. i # 1 => Append(q, r)[i - 1] = q[i - 1] /\ q[i - 1] < r
      BY <1>1, <1>4
    <2>3. \A x, y \in Row : x < y => y > x
      BY RowsAssumption DEF Row
    <2>4. i # 1 => q[i - 1] \in Row
      BY <1>1, <1>4
    <2> QED BY <2>1, <2>2, <2>3, <2>4
  <1> QED BY <1>4, <1>5, <1>6

LEMMA AscendingPrefix ==
    ASSUME NEW p \in Seq(Row), NEW q \in Seq(Row), Ascending(p \o q)
    PROVE  Ascending(p)
  <1>1. /\ Len(p) \in Nat /\ Len(q) \in Nat
        /\ DOMAIN p = 1..Len(p) /\ DOMAIN (p \o q) = 1..(Len(p) + Len(q))
        /\ \A i \in 1..Len(p) : (p \o q)[i] = p[i]
    BY ConcatFacts
  <1>2. ASSUME NEW m \in Nat, NEW n \in Nat, NEW i \in 1..m
        PROVE  i \in 1..(m + n) /\ (i # 1 => i - 1 \in 1..m)
    OBVIOUS
  <1>3. ASSUME NEW i \in 1..Len(p)
        PROVE  p[i] > IF i = 1 THEN 0 ELSE p[i - 1]
    <2>1. i \in 1..(Len(p) + Len(q)) /\ (i # 1 => i - 1 \in 1..Len(p))
      BY <1>1, <1>2
    <2> QED BY <1>1, <2>1 DEF Ascending
  <1> QED BY <1>1, <1>3 DEF Ascending

LEMMA UpToFacts ==
    /\ UpTo(0) = <<>>
    /\ \A n \in Nat : Append(UpTo(n), n + 1) = UpTo(n + 1)
    /\ \A n \in Nat : Len(UpTo(n)) = n /\ UpTo(n) \in Seq(Nat)
  <1>1. UpTo(0) = <<>>
    BY DEF UpTo
  <1>2. ASSUME NEW n \in Nat
        PROVE  Len(UpTo(n)) = n /\ UpTo(n) \in Seq(Nat)
    BY DEF UpTo
  <1>3. ASSUME NEW n \in Nat
        PROVE  Append(UpTo(n), n + 1) = UpTo(n + 1)
    BY <1>2 DEF UpTo
  <1> QED BY <1>1, <1>2, <1>3

-----------------------------------------------------------------------------
(* The rows a cursor has handed over or collected, step by step.           *)

LEMMA CollectedTyped ==
    ASSUME Inv, NEW c \in Cursors
    PROVE  /\ delivered[c] \in Seq(Row)
           /\ Fetching(c) => Top.rows \in Seq(Row) /\ Top.size \in Int
           /\ Collected(c) \in Seq(Row)
  <1>1. delivered[c] \in Seq(Row)
    BY DEF Inv, TypeOK
  <1>2. Fetching(c) => Top.rows \in Seq(Row) /\ Top.size \in Int
    BY FetchingTop, TopFacts DEF Inv, TypeOK, Frame
  <1> QED BY <1>1, <1>2, CollectedFacts, ConcatFacts

LEMMA CollectedKept ==
    ASSUME NEW c \in Cursors, Kept(c)
    PROVE  Collected(c)' = Collected(c) /\ (Fetching(c)' <=> Fetching(c))
  <1>1. CASE UNCHANGED stack
    BY <1>1 DEF Kept, Collected, Fetching, FetchFrames, Top
  <1>2. CASE ~Fetching(c) /\ ~Fetching(c)'
    BY <1>2, CollectedFacts DEF Kept
  <1> QED BY <1>1, <1>2 DEF Kept

\* The row that was built is the current one.
LEMMA RowBuilt ==
    ASSUME Inv, NEW c \in Cursors, rc[c] = "ROW"
    PROVE  /\ stmt[c] \in Stmts /\ stmt[c] # NoStmt
           /\ BuiltRow(c) \in Row /\ BuiltRow(c) = vdbe[stmt[c]].row
           /\ vdbe[stmt[c]].row \in Nat \ {0} /\ vdbe[stmt[c]].row <= MaxRows
  <1>1. stmt[c] \in Stmts /\ BuiltRow(c) \in Row /\ stmt[c] # NoStmt
    BY RowToBuild, StmtAssumption DEF Inv
  <1>2. BuiltRow(c) = vdbe[stmt[c]].row /\ BuiltRow(c) # 0
    BY <1>1 DEF BuiltRow, Inv, RcTellsTheTruth
  <1> QED BY <1>1, <1>2, RowsAssumption DEF Row

LEMMA CollectedFetched ==
    ASSUME Inv, NEW c \in Cursors, Fetched(c)
    PROVE  /\ rc'[c] # "ERROR" => Collected(c)' = Append(Collected(c), BuiltRow(c))
           /\ rc'[c] = "ERROR" => Collected(c)' = delivered[c]
  <1>1. /\ delivered[c] \in Seq(Row) /\ BuiltRow(c) \in Row
        /\ Fetching(c) => Top.rows \in Seq(Row)
    BY CollectedTyped, RowBuilt DEF Fetched
  <1>2. CASE /\ rc'[c] # "ERROR" /\ ~Fetching(c) /\ ~Fetching(c)'
             /\ delivered'[c] = Append(delivered[c], BuiltRow(c))
    BY <1>2, CollectedFacts
  <1>3. CASE /\ rc'[c] # "ERROR" /\ delivered'[c] = delivered[c] /\ Fetching(c)'
             /\ Top.rows' = Append(IF Fetching(c) THEN Top.rows ELSE <<>>, BuiltRow(c))
    <2> DEFINE q == IF Fetching(c) THEN Top.rows ELSE <<>>
    <2>1. Collected(c)' = delivered[c] \o Append(q, BuiltRow(c))
      BY <1>3, CollectedFacts
    <2>2. q \in Seq(Row) /\ Collected(c) = delivered[c] \o q
      BY <1>1, CollectedFacts, ConcatNothing
    <2> HIDE DEF q
    <2>3. delivered[c] \o Append(q, BuiltRow(c)) = Append(delivered[c] \o q, BuiltRow(c))
      BY <1>1, <2>2, ConcatAppend
    <2>4. Collected(c)' = Append(Collected(c), BuiltRow(c))
      BY <2>1, <2>2, <2>3, Zenon
    <2> QED BY <1>3, <2>4
  <1>4. CASE rc'[c] = "ERROR" /\ delivered'[c] = delivered[c] /\ ~Fetching(c)'
    BY <1>4, CollectedFacts
  <1> QED BY <1>2, <1>3, <1>4 DEF Fetched

LEMMA CollectedReturned ==
    ASSUME Inv, NEW c \in Cursors
    PROVE  /\ Returned(c) => Collected(c)' = Collected(c)
           /\ Dropped(c) => Collected(c)' = delivered[c]
  BY CollectedFacts DEF Returned, Dropped, Ends

LEMMA CollectedFirst ==
    ASSUME NEW c \in Cursors, First(c)
    PROVE  Collected(c)' = Collected(c)
  BY CollectedFacts DEF First

LEMMA CollectedReset ==
    ASSUME NEW c \in Cursors, Reset(c)
    PROVE  Collected(c)' = <<>>
  BY CollectedFacts DEF Reset

\* What is delivered is a prefix of what is collected.
LEMMA DeliveredPrefix ==
    ASSUME Inv, NEW c \in Cursors
    PROVE  /\ Ascending(Collected(c)) => Ascending(delivered[c])
           /\ Collected(c) = <<>> => delivered[c] = <<>>
           /\ \A i \in DOMAIN delivered[c] :
                i \in DOMAIN Collected(c) /\ Collected(c)[i] = delivered[c][i]
  <1>1. CASE ~Fetching(c)
    BY <1>1, CollectedFacts
  <1>2. CASE Fetching(c)
    <2> DEFINE p == delivered[c]
               q == Top.rows
    <2>1. p \in Seq(Row) /\ q \in Seq(Row) /\ Collected(c) = p \o q
      BY <1>2, CollectedTyped, CollectedFacts
    <2> HIDE DEF p, q
    <2>2. /\ DOMAIN p = 1..Len(p) /\ DOMAIN (p \o q) = 1..(Len(p) + Len(q))
          /\ Len(p) \in Nat /\ Len(q) \in Nat
          /\ \A i \in 1..Len(p) : (p \o q)[i] = p[i]
      BY <2>1, ConcatFacts
    <2>3. \A i \in 1..Len(p) : i \in 1..(Len(p) + Len(q))
      BY <2>2
    <2>4. p \o q = <<>> => p = <<>>
      BY <2>1, ConcatEqualIffEmpty
    <2>5. Ascending(p \o q) => Ascending(p)
      BY <2>1, AscendingPrefix
    <2>6. \A i \in DOMAIN p : i \in DOMAIN (p \o q) /\ (p \o q)[i] = p[i]
      BY <2>2, <2>3
    <2> QED BY <2>1, <2>4, <2>5, <2>6 DEF p
  <1> QED BY <1>1, <1>2

\* Where a fetchmany stands: its cursor has a statement that has not failed,
\* and its batch is neither empty nor larger than was asked for.
Batch(c) ==
    Fetching(c) =>
        /\ stmt[c] \in Stmts /\ rc[c] \in {"ROW", "DONE"}
        /\ Len(Top.rows) > 0
        /\ Top.size < 0 \/ Len(Top.rows) <= Top.size

LEMMA BatchStep ==
    ASSUME Inv, Summary, NEW c \in Cursors, Batch(c)
    PROVE  Batch(c)'
  <1>1. CASE Kept(c)
    BY <1>1, CollectedKept DEF Kept, Batch, Fetching, FetchFrames, Top
  <1>2. CASE Reset(c) \/ First(c) \/ Returned(c) \/ Dropped(c)
    BY <1>2 DEF Reset, First, Returned, Dropped, Ends, Batch
  <1>3. CASE Fetched(c)
    <2> SUFFICES ASSUME Fetching(c)'
                 PROVE  Batch(c)'
      BY DEF Batch
    <2> DEFINE q == IF Fetching(c) THEN Top.rows ELSE <<>>
    <2>1. /\ rc[c] = "ROW" /\ rc'[c] # "ERROR"
          /\ \E code \in StepCodes : Stepped(c, code)
          /\ Top.rows' = Append(q, BuiltRow(c))
          /\ IF Fetching(c)
             THEN Top.size' = Top.size /\ (Top.size < 0 \/ Len(Top.rows) < Top.size)
             ELSE Top.size' \in Int \ {0, 1}
      BY <1>3 DEF Fetched
    <2>2. stmt'[c] \in Stmts /\ rc'[c] \in {"ROW", "DONE"}
      BY <2>1 DEF Stepped, StepCodes
    <2>3. q \in Seq(Row) /\ BuiltRow(c) \in Row
      BY <2>1, CollectedTyped, ConcatNothing, RowBuilt
    <2>4. Len(q) \in Nat /\ Len(Append(q, BuiltRow(c))) = Len(q) + 1
      BY <2>3, AppendProperties, LenProperties
    <2>5. Len(q) = IF Fetching(c) THEN Len(Top.rows) ELSE 0
      BY EmptySeq
    <2> HIDE DEF q
    <2>6. Len(Top.rows') = Len(q) + 1
      BY <2>1, <2>4
    <2>7. Top.size' < 0 \/ Len(Top.rows') <= Top.size'
      BY <2>1, <2>4, <2>5, <2>6, CollectedTyped
    <2> QED BY <2>2, <2>4, <2>6, <2>7 DEF Batch
  <1> QED BY <1>1, <1>2, <1>3 DEF Summary

-----------------------------------------------------------------------------
(* The order of the rows, for every program.                               *)

Ordered(c) ==
    /\ Ascending(Collected(c))
    /\ stmt[c] # NoStmt =>
        /\ rc[c] = "ROW" =>
               \A i \in DOMAIN Collected(c) : Collected(c)[i] < vdbe[stmt[c]].row
        /\ vdbe[stmt[c]].state = "run" /\ rc[c] # "ROW" => Collected(c) = <<>>

LEMMA AscendingNothing ==
    Ascending(<<>>) /\ DOMAIN <<>> = {}
  BY DEF Ascending

LEMMA OrderedStep ==
    ASSUME Inv, Summary, NEW c \in Cursors, Ordered(c)
    PROVE  Ordered(c)'
  <1> USE StmtAssumption
  <1>1. CASE Kept(c)
    BY <1>1, CollectedKept DEF Kept, Ordered
  <1>2. CASE Reset(c)
    BY <1>2, CollectedReset, AscendingNothing DEF Reset, Ordered
  <1>3. CASE First(c)
    <2>1. /\ stmt[c] \in Stmts /\ vdbe[stmt[c]].state = "run" /\ rc[c] # "ROW"
          /\ rc'[c] # "ROW" => vdbe'[stmt'[c]].state = "halt"
      BY <1>3 DEF First, Stepped
    <2>2. Collected(c) = <<>> /\ Collected(c)' = <<>>
      BY <1>3, <2>1, CollectedFirst DEF Ordered
    <2> QED BY <2>1, <2>2, AscendingNothing DEF Ordered
  <1>4. CASE Fetched(c)
    <2> DEFINE v == vdbe[stmt[c]]
    <2>1. /\ rc[c] = "ROW" /\ stmt'[c] = stmt[c]
          /\ rc'[c] = "ROW" => vdbe'[stmt'[c]].row = v.row + 1
          /\ rc'[c] # "ROW" => vdbe'[stmt'[c]].state = "halt"
      BY <1>4 DEF Fetched, Stepped
    <2>2. /\ stmt[c] # NoStmt /\ BuiltRow(c) \in Row /\ BuiltRow(c) = v.row
          /\ v.row \in Nat \ {0}
      BY <2>1, RowBuilt
    <2>3. Collected(c) \in Seq(Row)
      BY CollectedTyped
    <2>4. CASE rc'[c] = "ERROR"
      BY <1>4, <2>1, <2>4, CollectedFetched, DeliveredPrefix DEF Ordered
    <2>5. CASE rc'[c] # "ERROR"
      <3> DEFINE q == Collected(c)
                 r == BuiltRow(c)
      <3>1. Collected(c)' = Append(q, r)
        BY <1>4, <2>5, CollectedFetched
      <3>2. \A i \in DOMAIN q : q[i] < r
        BY <2>1, <2>2 DEF Ordered
      <3>3. Ascending(q) /\ q \in Seq(Row) /\ r \in Row /\ r > 0
        BY <2>2, <2>3 DEF Ordered
      <3> HIDE DEF q, r
      <3>4. Ascending(Append(q, r))
        BY <3>2, <3>3, AscendingAppend
      <3>5. /\ DOMAIN Append(q, r) = 1..(Len(q) + 1) /\ Len(q) \in Nat
            /\ \A i \in 1..Len(q) : Append(q, r)[i] = q[i] /\ q[i] \in Row /\ q[i] < r
            /\ Append(q, r)[Len(q) + 1] = r
        BY <3>2, <3>3, AppendFacts
      <3>6. \A i \in 1..(Len(q) + 1) : i \in 1..Len(q) \/ i = Len(q) + 1
        BY <3>5
      <3>7. \A x, y \in Row : x < y => x < y + 1
        BY RowsAssumption DEF Row
      <3>8. \A i \in DOMAIN Append(q, r) : Append(q, r)[i] < r + 1
        <4>1. r < r + 1
          BY <3>3, RowsAssumption DEF Row
        <4> QED BY <3>3, <3>5, <3>6, <3>7, <4>1
      <3>9. r = v.row
        BY <2>2 DEF r
      <3> QED BY <2>1, <3>1, <3>4, <3>8, <3>9 DEF Ordered
    <2> QED BY <2>4, <2>5
  <1>5. CASE Returned(c)
    <2>1. Collected(c)' = Collected(c)
      BY <1>5, CollectedReturned
    <2> QED BY <1>5, <2>1 DEF Ordered, Returned, Ends
  <1>6. CASE Dropped(c)
    <2>1. Collected(c)' = delivered[c]
      BY <1>6, CollectedReturned
    <2> QED BY <1>6, <2>1, DeliveredPrefix DEF Ordered, Dropped, Ends
  <1> QED BY <1>1, <1>2, <1>3, <1>4, <1>5, <1>6 DEF Summary

LEMMA NothingCollected ==
    ASSUME Init, NEW c \in Cursors
    PROVE  ~Fetching(c) /\ Collected(c) = <<>> /\ stmt[c] = NoStmt
  <1>1. DOMAIN stack = {}
    BY EmptySeq DEF Init
  <1>2. ~Fetching(c)
    BY <1>1 DEF Fetching, FetchFrames
  <1> QED BY <1>2, CollectedFacts DEF Init

Rows == \A c \in Cursors : Batch(c) /\ Ordered(c)

LEMMA RowsAlways == Spec => [](Inv /\ Rows)
  <1>1. Init => Inv /\ Rows
    BY InvInit, NothingCollected, AscendingNothing DEF Rows, Batch, Ordered
  <1>2. Inv /\ Rows /\ [Next]_vars => (Inv /\ Rows)'
    BY InvStep, StepSummary, BatchStep, OrderedStep DEF Rows
  <1> QED BY <1>1, <1>2, PTL DEF Spec

\* A program never receives a row twice, out of order, or the empty row:
\* whatever it does, in and outside of its trace callback, and whatever
\* raises (usqlite_cursor_fetchone, usqlite_cursor_fetchmany, stepExecute).
THEOREM RowsAreInOrder == Spec => []RowsInOrder
  <1>1. Inv /\ Rows => RowsInOrder
    BY DeliveredPrefix DEF Rows, Ordered, Ascending, RowsInOrder
  <1> QED BY <1>1, RowsAlways, PTL

\* A batch of fetchmany(n) has n rows, unless the cursor has no more, and one
\* of fetchall has all the rows that are left (the loop of
\* usqlite_cursor_fetchmany): whatever the program does and whatever raises.
THEOREM BatchesAreComplete == Spec => BatchesAreFull
  <1> DEFINE Full ==
          \A c \in Cursors :
            InCall("fetchmany", "loop") /\ Top.cur = c /\ delivered'[c] # delivered[c] =>
                LET n == Len(delivered'[c]) - Len(delivered[c]) IN
                /\ Top.size < 0 \/ n <= Top.size
                /\ n # Top.size => rc'[c] # "ROW"
  <1>1. ASSUME Inv, Rows, [Next]_vars
        PROVE  Full
    <2> SUFFICES ASSUME NEW c \in Cursors, InCall("fetchmany", "loop"), Top.cur = c,
                        delivered'[c] # delivered[c]
                 PROVE  LET n == Len(delivered'[c]) - Len(delivered[c]) IN
                        /\ Top.size < 0 \/ n <= Top.size
                        /\ n # Top.size => rc'[c] # "ROW"
      OBVIOUS
    <2>1. Fetching(c)
      BY <1>1, TopFetching DEF InCall
    <2>2. Returned(c)
      BY <1>1, <2>1, StepSummary
         DEF Summary, Kept, Reset, First, Fetched, Returned, Dropped
    <2>3. /\ Top.rows \in Seq(Row) /\ Top.size \in Int /\ delivered[c] \in Seq(Row)
          /\ delivered'[c] = delivered[c] \o Top.rows /\ rc'[c] = rc[c]
          /\ rc[c] = "ROW" => Top.size >= 0 /\ Len(Top.rows) >= Top.size
          /\ Top.size < 0 \/ Len(Top.rows) <= Top.size
      BY <1>1, <2>1, <2>2, CollectedTyped DEF Returned, Ends, Rows, Batch
    <2>4. /\ Len(delivered'[c]) = Len(delivered[c]) + Len(Top.rows)
          /\ Len(delivered[c]) \in Nat /\ Len(Top.rows) \in Nat
      BY <2>3, ConcatFacts
    <2>5. Len(delivered'[c]) - Len(delivered[c]) = Len(Top.rows)
      BY <2>4
    <2> QED BY <2>3, <2>4, <2>5
  <1>2. Inv /\ Rows /\ [Next]_vars => [Full]_vars
    BY <1>1
  <1>3. BatchesAreFull <=> [][Full]_vars
    BY DEF BatchesAreFull
  <1> HIDE DEF Full
  <1> QED BY <1>2, <1>3, RowsAlways, PTL DEF Spec

-----------------------------------------------------------------------------
(* rowcount.                                                               *)

Own(c) ==
    stmt[c] # NoStmt =>
        (rc[c] = "DONE" /\ vdbe[stmt[c]].row = 0 /\ vdbe[stmt[c]].counts =>
            rowcount[c] = vdbe[stmt[c]].nChange)

LEMMA OwnStep ==
    ASSUME Inv, Summary, NEW c \in Cursors, Own(c)
    PROVE  Own(c)'
  <1>1. CASE Kept(c) \/ Reset(c)
    BY <1>1 DEF Kept, Reset, Own
  <1>2. CASE First(c)
    BY <1>2 DEF First, Stepped, Own
  <1>3. CASE Fetched(c)
    <2>1. /\ rc[c] = "ROW" /\ stmt'[c] = stmt[c]
          /\ rc'[c] # "ROW" => vdbe'[stmt[c]].row = vdbe[stmt[c]].row
      BY <1>3 DEF Fetched, Stepped
    <2>2. vdbe[stmt[c]].row # 0
      BY <2>1, RowBuilt
    <2> QED BY <2>1, <2>2 DEF Own
  <1>4. CASE Returned(c) \/ Dropped(c)
    BY <1>4 DEF Returned, Dropped, Ends, Own
  <1> QED BY <1>1, <1>2, <1>3, <1>4 DEF Summary

\* rowcount after a statement that changes rows is the number that statement
\* changed, whatever its trace callback executed meanwhile: for every program
\* (usqlite_cursor_execute reads sqlite3_changes after its own step).
THEOREM RowcountIsOwn == Spec => []OwnChanges
  <1> DEFINE Owns == \A c \in Cursors : Own(c)
  <1>1. Init => Owns
    BY DEF Init, Own
  <1>2. Inv /\ Owns /\ [Next]_vars => Owns'
    BY StepSummary, OwnStep
  <1>3. Owns => OwnChanges
    BY DEF Own, OwnChanges
  <1> HIDE DEF Owns
  <1> QED BY <1>1, <1>2, <1>3, InvAlways, PTL DEF Spec

\* Every row accounted for, as in RowAccounting, and a statement whose first
\* step is still to return has none.
Counted(c) ==
    stmt[c] # NoStmt =>
        /\ rc[c] = "ROW" => /\ Collected(c) = UpTo(vdbe[stmt[c]].row - 1)
                            /\ rowcount[c] = vdbe[stmt[c]].row
        /\ rc[c] = "DONE" => /\ Collected(c) = UpTo(vdbe[stmt[c]].row)
                             /\ vdbe[stmt[c]].row > 0 => rowcount[c] = vdbe[stmt[c]].row
        /\ vdbe[stmt[c]].state = "run" /\ rc[c] # "ROW" =>
               vdbe[stmt[c]].row = 0 /\ Collected(c) = <<>> /\ rowcount[c] = 0

\* MicroPython has the memory for what a fetch allocates.
EnoughMemory == "nomem" \notin Habits

LEMMA CountedStep ==
    ASSUME EnoughMemory, Inv, Summary, NEW c \in Cursors, Counted(c)
    PROVE  Counted(c)'
  <1> USE StmtAssumption
  <1>1. CASE Kept(c)
    BY <1>1, CollectedKept DEF Kept, Counted
  <1>2. CASE Reset(c)
    BY <1>2, CollectedReset DEF Reset, Counted
  <1>3. CASE First(c)
    <2>1. /\ stmt[c] \in Stmts /\ vdbe[stmt[c]].state = "run" /\ rc[c] # "ROW"
          /\ stmt'[c] = stmt[c]
          /\ rc'[c] = "ROW" => /\ vdbe'[stmt[c]].row = vdbe[stmt[c]].row + 1
                               /\ rowcount'[c] = rowcount[c] + 1
          /\ rc'[c] # "ROW" => /\ vdbe'[stmt[c]].row = vdbe[stmt[c]].row
                               /\ vdbe'[stmt[c]].state = "halt"
      BY <1>3 DEF First, Stepped
    <2>2. Collected(c)' = <<>> /\ vdbe[stmt[c]].row = 0 /\ rowcount[c] = 0
      BY <1>3, <2>1, CollectedFirst DEF Counted
    <2>3. rc'[c] = "ROW" => /\ vdbe'[stmt[c]].row = 1 /\ rowcount'[c] = 1
                            /\ UpTo(vdbe'[stmt[c]].row - 1) = <<>>
      <3>1. 0 + 1 = 1 /\ 1 - 1 = 0
        OBVIOUS
      <3>2. rc'[c] = "ROW" => vdbe'[stmt[c]].row = 1 /\ rowcount'[c] = 1
        BY <2>1, <2>2, <3>1
      <3>3. \A n : n = 1 => UpTo(n - 1) = <<>>
        BY <3>1, UpToFacts
      <3> QED BY <3>2, <3>3
    <2>4. rc'[c] # "ROW" => vdbe'[stmt[c]].row = 0 /\ UpTo(vdbe'[stmt[c]].row) = <<>>
      BY <2>1, <2>2, UpToFacts
    <2> QED BY <2>1, <2>2, <2>3, <2>4 DEF Counted
  <1>4. CASE Fetched(c)
    <2> DEFINE v == vdbe[stmt[c]]
    <2>1. /\ rc[c] = "ROW" /\ stmt'[c] = stmt[c]
          /\ rc'[c] \in StepCodes
          /\ rc'[c] = "ROW" => /\ vdbe'[stmt[c]].row = v.row + 1
                               /\ rowcount'[c] = rowcount[c] + 1
          /\ rc'[c] # "ROW" => /\ vdbe'[stmt[c]].row = v.row
                               /\ vdbe'[stmt[c]].state = "halt"
                               /\ rowcount'[c] = rowcount[c]
      BY <1>4 DEF Fetched, Stepped
    <2>2. stmt[c] # NoStmt /\ BuiltRow(c) = v.row /\ v.row \in Nat \ {0}
      BY <2>1, RowBuilt
    <2>3. rc'[c] # "ERROR" => Collected(c)' = UpTo(v.row)
      <3>1. \A n \in Nat \ {0} : n - 1 \in Nat /\ n - 1 + 1 = n
        OBVIOUS
      <3>2. \A n \in Nat \ {0} : Append(UpTo(n - 1), n) = UpTo(n)
        BY <3>1, UpToFacts
      <3>3. Collected(c) = UpTo(v.row - 1)
        BY <2>1, <2>2 DEF Counted
      <3> QED BY <1>4, <2>2, <3>2, <3>3, CollectedFetched
    <2>4. rowcount[c] = v.row
      BY <2>1, <2>2 DEF Counted
    <2>5. v.row + 1 - 1 = v.row
      BY <2>2
    <2> QED BY <2>1, <2>2, <2>3, <2>4, <2>5 DEF Counted, StepCodes
  <1>5. CASE Returned(c)
    <2>1. Collected(c)' = Collected(c)
      BY <1>5, CollectedReturned
    <2> QED BY <1>5, <2>1 DEF Counted, Returned, Ends
  <1>6. CASE Dropped(c)
    BY <1>6 DEF Dropped, EnoughMemory
  <1> QED BY <1>1, <1>2, <1>3, <1>4, <1>5, <1>6 DEF Summary

LEMMA CountedAlways ==
    ASSUME EnoughMemory
    PROVE  Spec => [](Inv /\ Rows /\ \A c \in Cursors : Counted(c))
  <1> DEFINE All == \A c \in Cursors : Counted(c)
  <1>1. Init => All
    BY NothingCollected DEF Counted
  <1>2. Inv /\ All /\ [Next]_vars => All'
    BY StepSummary, CountedStep
  <1> HIDE DEF All
  <1>3. Spec => [](Inv /\ Rows /\ All)
    BY <1>1, <1>2, RowsAlways, PTL DEF Spec
  <1> QED BY <1>3 DEF All

\* The cursor is one row ahead of the program, no row is lost, and rowcount
\* counts the rows stepped to: for every program that does not run out of
\* memory in a fetch, whatever its callbacks do and raise.
THEOREM RowsAccounted ==
    ASSUME EnoughMemory PROVE Spec => []RowAccounting
  <1>1. (\A c \in Cursors : Counted(c)) => RowAccounting
    BY DEF Counted, RowAccounting, UpTo
  <1> QED BY <1>1, CountedAlways, PTL

-----------------------------------------------------------------------------
(* The cursors implement ResultSet.                                        *)

\* phaseBar and totalBar at one cursor.
Phase(c) ==
    IF stmt[c] = NoStmt THEN "none"
    ELSE IF Fetching(c) THEN "rows"
    ELSE CASE rc[c] = "ROW" -> "rows"
           [] rc[c] = "DONE" -> "all"
           [] rc[c] = "ERROR" -> "failed"
           [] OTHER -> "none"

Total(c) == IF Phase(c) = "all" THEN vdbe[stmt[c]].row ELSE 0

LEMMA Bars ==
    /\ phaseBar = [c \in Cursors |-> Phase(c)]
    /\ totalBar = [c \in Cursors |-> Total(c)]
    /\ phaseBar' = [c \in Cursors |-> Phase(c)']
    /\ totalBar' = [c \in Cursors |-> Total(c)']
  BY DEF phaseBar, totalBar, Phase, Total, Fetching

LEMMA PhaseFacts ==
    ASSUME NEW c \in Cursors
    PROVE  /\ stmt[c] = NoStmt => Phase(c) = "none"
           /\ stmt[c] # NoStmt /\ Fetching(c) => Phase(c) = "rows"
           /\ stmt[c] # NoStmt /\ ~Fetching(c) =>
                /\ rc[c] = "ROW" => Phase(c) = "rows"
                /\ rc[c] = "DONE" => Phase(c) = "all"
                /\ rc[c] = "ERROR" => Phase(c) = "failed"
                /\ rc[c] \in {"OK", "MISUSE"} => Phase(c) = "none"
           /\ Phase(c) = "all" => Total(c) = vdbe[stmt[c]].row
           /\ Phase(c) # "all" => Total(c) = 0
  BY DEF Phase, Total

LEMMA PhaseFactsNext ==
    ASSUME NEW c \in Cursors
    PROVE  /\ stmt'[c] = NoStmt => Phase(c)' = "none"
           /\ stmt'[c] # NoStmt /\ Fetching(c)' => Phase(c)' = "rows"
           /\ stmt'[c] # NoStmt /\ ~Fetching(c)' =>
                /\ rc'[c] = "ROW" => Phase(c)' = "rows"
                /\ rc'[c] = "DONE" => Phase(c)' = "all"
                /\ rc'[c] = "ERROR" => Phase(c)' = "failed"
                /\ rc'[c] \in {"OK", "MISUSE"} => Phase(c)' = "none"
           /\ Phase(c)' = "all" => Total(c)' = vdbe'[stmt'[c]].row
           /\ Phase(c)' # "all" => Total(c)' = 0
  BY DEF Phase, Total

\* Kept and Reset, seen as ResultSet sees them.
LEMMA KeptBar ==
    ASSUME NEW c \in Cursors, Kept(c)
    PROVE  Phase(c)' = Phase(c) /\ Total(c)' = Total(c) /\ delivered'[c] = delivered[c]
  BY CollectedKept DEF Kept, Phase, Total

LEMMA ResetBar ==
    ASSUME NEW c \in Cursors, Reset(c)
    PROVE  Phase(c)' = "none" /\ Total(c)' = 0 /\ delivered'[c] = <<>>
  BY PhaseFactsNext DEF Reset

LEMMA CloseMaps ==
    ASSUME Inv, Inv', \A c \in Cursors : Kept(c) \/ Reset(c)
    PROVE  RS!Next
  <1> DEFINE closed == {c \in Cursors : Reset(c)}
  <1>1. /\ phaseBar' = [c \in Cursors |-> IF c \in closed THEN "none" ELSE phaseBar[c]]
        /\ totalBar' = [c \in Cursors |-> IF c \in closed THEN 0 ELSE totalBar[c]]
    BY Bars, KeptBar, ResetBar
  <1>2. delivered' = [c \in Cursors |-> IF c \in closed THEN <<>> ELSE delivered[c]]
    BY KeptBar, ResetBar DEF Inv, TypeOK
  <1>3. RS!Close(closed)
    BY <1>1, <1>2 DEF RS!Close
  <1>4. closed \in SUBSET Cursors
    OBVIOUS
  <1> HIDE DEF closed
  <1> QED BY <1>3, <1>4 DEF RS!Next

\* What the bars are after a step of c, and the rest as before.
LEMMA OneBar ==
    ASSUME Inv, Inv', NEW c \in Cursors, \A d \in Cursors \ {c} : Kept(d)
    PROVE  /\ phaseBar[c] = Phase(c) /\ totalBar[c] = Total(c)
           /\ phaseBar' = [phaseBar EXCEPT ![c] = Phase(c)']
           /\ totalBar' = [totalBar EXCEPT ![c] = Total(c)']
           /\ delivered' = [delivered EXCEPT ![c] = delivered'[c]]
           /\ Phase(c)' = Phase(c) => UNCHANGED phaseBar
           /\ Total(c)' = Total(c) => UNCHANGED totalBar
           /\ delivered'[c] = delivered[c] => UNCHANGED delivered
  <1>1. \A d \in Cursors \ {c} :
          Phase(d)' = Phase(d) /\ Total(d)' = Total(d) /\ delivered'[d] = delivered[d]
    BY KeptBar
  <1>2. phaseBar' = [phaseBar EXCEPT ![c] = Phase(c)']
    BY <1>1, Bars
  <1>3. totalBar' = [totalBar EXCEPT ![c] = Total(c)']
    BY <1>1, Bars
  <1>4. delivered' = [delivered EXCEPT ![c] = delivered'[c]]
    BY <1>1 DEF Inv, TypeOK
  <1>5. phaseBar[c] = Phase(c) /\ totalBar[c] = Total(c)
    BY Bars
  <1>6. /\ Phase(c)' = Phase(c) => UNCHANGED phaseBar
        /\ Total(c)' = Total(c) => UNCHANGED totalBar
    BY <1>1, Bars
  <1>7. delivered'[c] = delivered[c] => UNCHANGED delivered
    BY <1>1 DEF Inv, TypeOK
  <1> QED BY <1>2, <1>3, <1>4, <1>5, <1>6, <1>7

LEMMA FirstMaps ==
    ASSUME Inv, Inv', NEW c \in Cursors, First(c), \A d \in Cursors \ {c} : Kept(d), Counted(c)
    PROVE  RS!Open(c)
  <1> USE StmtAssumption
  <1>1. /\ stmt[c] # NoStmt /\ stmt'[c] # NoStmt /\ ~Fetching(c) /\ ~Fetching(c)'
        /\ rc[c] \in {"OK", "MISUSE"} /\ rc'[c] \in StepCodes
        /\ stmt'[c] = stmt[c]
        /\ rc'[c] = "DONE" => vdbe'[stmt[c]].row = vdbe[stmt[c]].row
        /\ vdbe[stmt[c]].state = "run"
        /\ delivered'[c] = delivered[c]
    BY DEF First, Stepped, StepCodes
  <1>2. vdbe[stmt[c]].row = 0
    BY <1>1 DEF Counted
  <1>3. Phase(c) = "none" /\ Total(c) = 0
    BY <1>1, PhaseFacts
  <1>4. Phase(c)' \in {"rows", "all", "failed"}
    BY <1>1, PhaseFactsNext DEF StepCodes
  <1>5. Total(c)' = 0
    BY <1>1, <1>2, PhaseFactsNext DEF StepCodes
  <1> QED BY <1>1, <1>3, <1>4, <1>5, OneBar DEF RS!Open

\* The rows a batch of a result set consists of.
LEMMA BatchRows ==
    ASSUME NEW p \in Seq(Row), NEW q \in Seq(Row), NEW m \in Nat, p \o q = UpTo(m)
    PROVE  Len(p) + Len(q) = m /\ q = RS!RowsFrom(Len(p) + 1, m)
  <1>1. /\ Len(p) \in Nat /\ Len(q) \in Nat /\ Len(p \o q) = Len(p) + Len(q)
        /\ \A i \in 1..Len(q) : (p \o q)[Len(p) + i] = q[i]
        /\ DOMAIN q = 1..Len(q)
    BY ConcatFacts
  <1>2. Len(p) + Len(q) = m
    BY <1>1, UpToFacts
  <1>3. ASSUME NEW k \in Nat, NEW n \in Nat
        PROVE  /\ k + n + 1 - (k + 1) = n
               /\ \A i \in 1..n : k + i \in 1..(k + n) /\ k + 1 + i - 1 = k + i
    OBVIOUS
  <1>4. \A i \in 1..Len(q) : q[i] = Len(p) + 1 + i - 1
    <2>1. \A i \in 1..m : UpTo(m)[i] = i
      BY DEF UpTo
    <2>2. ASSUME NEW i \in 1..Len(q)
          PROVE  Len(p) + i \in 1..m /\ Len(p) + 1 + i - 1 = Len(p) + i
      BY <1>1, <1>2, <1>3
    <2> QED BY <1>1, <2>1, <2>2
  <1>5. m + 1 - (Len(p) + 1) = Len(q)
    BY <1>1, <1>2, <1>3
  <1>6. q = [i \in 1..Len(q) |-> q[i]]
    BY <1>1
  <1> QED BY <1>2, <1>4, <1>5, <1>6 DEF RS!RowsFrom

\* c's program receives the rows of q.
LEMMA ReceiveMaps ==
    ASSUME Inv, Inv', NEW c \in Cursors, \A d \in Cursors \ {c} : Kept(d),
           NEW q \in Seq(Row), Len(q) > 0, delivered'[c] = delivered[c] \o q,
           NEW m \in Nat, m <= MaxRows, delivered'[c] = UpTo(m),
           Phase(c) = "rows",
           \/ Phase(c)' = "rows"
           \/ Phase(c)' = "all" /\ Total(c)' = m
    PROVE  RS!Receive(c)
  <1> DEFINE k == Len(delivered[c])
  <1>1. delivered[c] \in Seq(Row) /\ k \in Nat /\ Len(q) \in Nat
    BY LenProperties DEF Inv, TypeOK
  <1>2. k + Len(q) = m /\ q = RS!RowsFrom(k + 1, m)
    BY <1>1, BatchRows
  <1>3. m \in (k + 1)..MaxRows
    <2>1. ASSUME NEW a \in Nat, NEW b \in Nat, b > 0, a + b = m
          PROVE  m \in (a + 1)..MaxRows
      BY <2>1, RowsAssumption
    <2> QED BY <1>1, <1>2, <2>1
  <1>4. delivered' = [delivered EXCEPT ![c] = @ \o RS!RowsFrom(Len(delivered[c]) + 1, m)]
    BY <1>2, OneBar
  <1>5. phaseBar[c] = "rows"
    BY OneBar
  <1>6. \/ UNCHANGED <<phaseBar, totalBar>>
        \/ /\ phaseBar' = [phaseBar EXCEPT ![c] = "all"]
           /\ totalBar' = [totalBar EXCEPT ![c] = m]
    <2>1. CASE Phase(c)' = "rows"
      BY <2>1, OneBar, PhaseFacts, PhaseFactsNext
    <2>2. CASE Phase(c)' = "all" /\ Total(c)' = m
      BY <2>2, OneBar
    <2> QED BY <2>1, <2>2
  <1> QED BY <1>3, <1>4, <1>5, <1>6 DEF RS!Receive

LEMMA FetchedMaps ==
    ASSUME Inv, Inv', NEW c \in Cursors, Fetched(c), \A d \in Cursors \ {c} : Kept(d),
           Counted(c), Counted(c)'
    PROVE  RS!Receive(c) \/ RS!Fail(c) \/ UNCHANGED <<phaseBar, delivered, totalBar>>
  <1> USE StmtAssumption
  <1> DEFINE v == vdbe[stmt[c]]
  <1>1. /\ stmt[c] # NoStmt /\ stmt'[c] = stmt[c]
        /\ rc[c] = "ROW" /\ rc'[c] \in StepCodes
        /\ rc'[c] = "DONE" => vdbe'[stmt[c]].row = v.row
        /\ rc'[c] = "ROW" => vdbe'[stmt[c]].row = v.row + 1
    BY DEF Fetched, Stepped, StepCodes
  <1>2. /\ BuiltRow(c) \in Row /\ BuiltRow(c) = v.row
        /\ v.row \in Nat /\ v.row <= MaxRows
    BY <1>1, RowBuilt
  <1>3. Phase(c) = "rows" /\ Total(c) = 0
    BY <1>1, PhaseFacts
  <1>4. CASE /\ rc'[c] # "ERROR" /\ ~Fetching(c) /\ ~Fetching(c)'
             /\ delivered'[c] = Append(delivered[c], BuiltRow(c))
    <2>1. \/ Phase(c)' = "rows"
          \/ Phase(c)' = "all" /\ Total(c)' = v.row
      BY <1>1, <1>4, PhaseFactsNext DEF StepCodes
    <2>2. Collected(c)' = UpTo(v.row)
      <3>1. /\ rc'[c] = "ROW" => vdbe'[stmt'[c]].row - 1 = v.row
            /\ rc'[c] = "DONE" => vdbe'[stmt'[c]].row = v.row
        <4>1. \A n \in Nat : \A x : x = n + 1 => x - 1 = n
          OBVIOUS
        <4>2. vdbe'[stmt'[c]] = vdbe'[stmt[c]] /\ v.row \in Nat
          BY <1>1, <1>2
        <4> QED BY <1>1, <4>1, <4>2
      <3>2. stmt'[c] # NoStmt /\ rc'[c] \in {"ROW", "DONE"}
        BY <1>1, <1>4 DEF StepCodes
      <3> QED BY <3>1, <3>2 DEF Counted
    <2>3. delivered'[c] = UpTo(v.row)
      BY <1>4, <2>2, CollectedFacts
    <2>4. delivered'[c] = delivered[c] \o <<BuiltRow(c)>>
      BY SMTT(30), <1>2, <1>4, AppendIsConcat DEF Inv, TypeOK
    <2>5. <<BuiltRow(c)>> \in Seq(Row) /\ Len(<<BuiltRow(c)>>) > 0
      BY <1>2
    <2>6. RS!Receive(c)
      BY <1>2, <1>3, <2>1, <2>3, <2>4, <2>5, ReceiveMaps
    <2> QED BY <2>6
  <1>5. CASE rc'[c] # "ERROR" /\ delivered'[c] = delivered[c] /\ Fetching(c)'
    <2>1. Phase(c)' = "rows" /\ Total(c)' = 0
      BY <1>1, <1>5, PhaseFactsNext
    <2> QED BY <1>3, <1>5, <2>1, OneBar
  <1>6. CASE rc'[c] = "ERROR" /\ delivered'[c] = delivered[c] /\ ~Fetching(c)'
    <2>1. Phase(c)' = "failed" /\ Total(c)' = 0
      BY <1>1, <1>6, PhaseFactsNext
    <2>2. RS!Fail(c)
      BY <1>3, <1>6, <2>1, OneBar DEF RS!Fail
    <2> QED BY <2>2
  <1> QED BY <1>4, <1>5, <1>6 DEF Fetched

LEMMA ReturnedMaps ==
    ASSUME Inv, Inv', NEW c \in Cursors, Returned(c), \A d \in Cursors \ {c} : Kept(d),
           Counted(c), Batch(c)
    PROVE  RS!Receive(c)
  <1> USE StmtAssumption
  <1> DEFINE v == vdbe[stmt[c]]
             m == IF rc[c] = "ROW" THEN v.row - 1 ELSE v.row
  <1>1. /\ stmt[c] \in Stmts /\ stmt[c] # NoStmt /\ rc[c] \in {"ROW", "DONE"}
        /\ Fetching(c) /\ ~Fetching(c)' /\ Len(Top.rows) > 0
        /\ stmt'[c] = stmt[c] /\ rc'[c] = rc[c] /\ vdbe'[stmt[c]] = v
        /\ delivered'[c] = delivered[c] \o Top.rows
    BY DEF Returned, Ends, Batch
  <1>2. v.row \in Nat /\ v.row <= MaxRows /\ (rc[c] = "ROW" => v.row # 0)
    <2>1. v \in Vdbe
      BY <1>1 DEF Inv, TypeOK
    <2>2. v.row \in Nat /\ v.row <= MaxRows
      BY <2>1, RowsAssumption DEF Vdbe
    <2> QED BY <2>2, RowBuilt
  <1>3. m \in Nat /\ m <= MaxRows
    BY <1>2, RowsAssumption
  <1>4. Collected(c) = UpTo(m)
    BY <1>1 DEF Counted
  <1>5. delivered'[c] = UpTo(m)
    BY <1>1, <1>4, CollectedFacts
  <1>6. Phase(c) = "rows"
    BY <1>1, PhaseFacts
  <1>7. Phase(c)' = "rows" \/ (Phase(c)' = "all" /\ Total(c)' = m)
    BY <1>1, PhaseFactsNext
  <1>8. Top.rows \in Seq(Row)
    BY <1>1, CollectedTyped
  <1> HIDE DEF m
  <1> QED BY <1>1, <1>3, <1>5, <1>6, <1>7, <1>8, ReceiveMaps

\* What a program sees of its cursors is ResultSet: rows come in order, each
\* once, in batches, and are lost only to a failing query; for every program
\* that does not run out of memory in a fetch.
THEOREM CursorsImplementResultSet ==
    ASSUME EnoughMemory PROVE Spec => ImplementsResultSet
  <1> DEFINE All == \A c \in Cursors : Counted(c)
  <1>1. Init => RS!Init
    <2>1. ASSUME Init, NEW c \in Cursors PROVE Phase(c) = "none" /\ Total(c) = 0
      BY <2>1, NothingCollected, PhaseFacts
    <2> QED BY <2>1, Bars DEF RS!Init, Init
  <1>2. ASSUME Inv, Inv', Rows, All, All', [Next]_vars
        PROVE  [RS!Next]_RS!vars
    <2>1. Summary
      BY <1>2, StepSummary
    <2>2. CASE \A c \in Cursors : Kept(c) \/ Reset(c)
      BY <1>2, <2>2, CloseMaps
    <2>3. ASSUME NEW c \in Cursors,
                 First(c) \/ Fetched(c) \/ Returned(c) \/ Dropped(c),
                 \A d \in Cursors \ {c} : Kept(d)
          PROVE  \/ RS!Open(c) \/ RS!Receive(c) \/ RS!Fail(c)
                 \/ UNCHANGED <<phaseBar, delivered, totalBar>>
      <3>1. Counted(c) /\ Counted(c)' /\ Batch(c)
        BY <1>2 DEF Rows
      <3>2. CASE First(c)
        BY <1>2, <2>3, <3>1, <3>2, FirstMaps
      <3>3. CASE Fetched(c)
        BY <1>2, <2>3, <3>1, <3>3, FetchedMaps
      <3>4. CASE Returned(c)
        BY <1>2, <2>3, <3>1, <3>4, ReturnedMaps
      <3>5. CASE Dropped(c)
        BY <3>5 DEF Dropped, EnoughMemory
      <3> QED BY <2>3, <3>2, <3>3, <3>4, <3>5
    <2>4. (\E c \in Cursors : RS!Open(c) \/ RS!Receive(c) \/ RS!Fail(c)) => RS!Next
      BY DEF RS!Next
    <2>5. UNCHANGED <<phaseBar, delivered, totalBar>> => UNCHANGED RS!vars
      BY DEF RS!vars
    <2> QED BY <2>1, <2>2, <2>3, <2>4, <2>5 DEF Summary
  <1>3. Spec => [](Inv /\ Rows /\ All)
    BY CountedAlways
  <1> HIDE DEF All
  <1> QED BY <1>1, <1>2, <1>3, PTL DEF Spec, ImplementsResultSet, RS!Spec
=============================================================================
