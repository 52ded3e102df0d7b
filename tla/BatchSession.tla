----------------------------- MODULE BatchSession -----------------------------
(***************************************************************************)
(* internal/engine/session.go, routines_glue.go and the interpreter of     *)
(* internal/extensions/procedures/control: how one connection runs its     *)
(* batches, from handleMessage's call of ExecBatch to the reply.           *)
(*                                                                         *)
(* A batch is a sequence of statements.  ExecBatch runs it statement by    *)
(* statement (the flat path) or, when HasControlFlow says so, through the  *)
(* interpreter.  A stored procedure is a batch of its own, on a throw-away *)
(* Session.  The Go call stack is explicit: "calls" holds one activation   *)
(* of ExecBatch per element, each with the stack of open blocks.           *)
(*                                                                         *)
(* Statements are records [op, ...].  What a SELECT returns is abstracted  *)
(* to where it read and how many rows it delivers.                         *)
(***************************************************************************)
EXTENDS Integers, SequencesExt

CONSTANTS
  Db,           \* databases
  Statement,    \* the statements there can be, those inside others included
  Batch,        \* Batch[n]: what a client may send as its n-th batch, sequences of statements
  ProcBody,     \* ProcBody[p]: the statements of stored procedure p
  TableRows,    \* rows of the table every SELECT reads
  CondsFail,    \* whether the query behind an IF or WHILE condition may fail
  MaxWhile,     \* maxWhileIterations (a million in the code)
  MaxCalls,     \* bound: activations of ExecBatch, i.e. the depth of EXEC
  MaxBatches    \* bound: batches the client sends

LoginDb == CHOOSE d \in Db : TRUE    \* the database named in LOGIN7

None == "none"

(* A database has a name: the empty one is "no change" in ExecBatch's      *)
(* envDB, and "no database" wherever the engine resolves a name.           *)
ASSUME DbAssumption == Db # {} /\ None \notin Db

(* The blocks inside a statement. *)
Blocks(s) == CASE s.op = "if" -> {s.then, s.else}
               [] s.op = "while" -> {s.body}
               [] s.op = "try" -> {s.body, s.catch}
               [] OTHER -> {}

(* What a batch, a procedure and a block consist of (batch.Split, the      *)
(* interpreter's parser), and what each statement names.                   *)
ASSUME StatementAssumption ==
  /\ \A s \in Statement :
       /\ s.op = "use" => s.db \in Db
       /\ s.op = "rowcount" => s.n \in Nat
       /\ s.op = "exec" => s.proc \in DOMAIN ProcBody
       /\ s.op = "throw" => s.bare \in BOOLEAN
  /\ UNION {Blocks(s) : s \in Statement} \subseteq Seq(Statement)
  /\ UNION {Batch[n] : n \in 1..MaxBatches} \subseteq Seq(Statement)
  /\ {ProcBody[p] : p \in DOMAIN ProcBody} \subseteq Seq(Statement)

ASSUME BatchAssumption ==
  /\ CondsFail \in BOOLEAN
  /\ TableRows \in Nat /\ MaxWhile \in Nat /\ MaxCalls \in Nat \ {0} /\ MaxBatches \in Nat

VARIABLES
  db,         \* Session.db of the connection
  rowCount,   \* Session.rowCount of the connection, 0 = unlimited
  calls,      \* the activations of ExecBatch, the running one last
  temp,       \* tempStore: rows of #t, -1 when there is no #t
  clientDb,   \* the client's idea of its database (login response, ENVCHANGE)
  reply,      \* the last reply, or [kind |-> "none"]
  number,     \* history: how many batches the client has sent
  failed,     \* history: whether some batch was answered with ERROR
  asked,      \* history: the last SET ROWCOUNT the connection's own batches ran
  tempOf      \* history: the batch that created #t

vars == <<db, rowCount, calls, temp, clientDb, reply, failed, number, asked, tempOf>>

NoTable == -1

ControlOps == {"if", "while", "try", "throw", "return", "break", "continue"}

(* control.HasControlFlow: some statement leads with a control keyword.    *)
HasControlFlow(stmts) == \E i \in DOMAIN stmts : stmts[i].op \in ControlOps

(* An open block of the interpreter (or the statement list of the flat     *)
(* path): what is left to run, the block to come back to, the error that   *)
(* ERROR_MESSAGE() and a bare THROW find in its context.                   *)
Frame(kind, stmts, err) ==
  [kind |-> kind, todo |-> stmts, body |-> stmts, catch |-> <<>>, mark |-> 0, rounds |-> 0, err |-> err]

(* ExecBatch on Session{d, n}; live says whether it is the connection's.   *)
Activation(stmts, live, d, n, err) ==
  [flow |-> HasControlFlow(stmts), live |-> live, db |-> d, rowCount |-> n, before |-> d,
   envDB |-> None, results |-> <<>>, stack |-> <<Frame("block", stmts, err)>>]

Cur   == Last(calls)
Top   == Last(Cur.stack)
Stmt  == Head(Top.todo)
Rows(from, n) == [from |-> from, rows |-> n, due |-> asked]

(* A bug: one row too many. *)
BugLimit(r, n) == IF n > 0 /\ r.rows > n THEN [r EXCEPT !.rows = n + 1] ELSE r

(* limitRows *)
Limit(r, n) == IF n > 0 /\ r.rows > n THEN [r EXCEPT !.rows = n] ELSE r

-----------------------------------------------------------------------------
Init ==
  /\ db = LoginDb /\ clientDb = LoginDb
  /\ rowCount = 0 /\ asked = 0
  /\ calls = <<>>
  /\ temp = NoTable /\ tempOf = 0
  /\ reply = [kind |-> None]
  /\ number = 0 /\ failed = FALSE

Running == calls # <<>>

(* The Session an activation works on: the connection's or its own.        *)
SessDb(a) == IF a.live THEN db ELSE a.db
SessRowCount(a) == IF a.live THEN rowCount ELSE a.rowCount

(* The running activation's next statement is an "op". *)
At(op) == Running /\ Len(Cur.stack) > 0 /\ Top.todo # <<>> /\ Stmt.op = op

SetTop(f) == [Cur EXCEPT !.stack = Append(Front(@), f)]
Advance == SetTop([Top EXCEPT !.todo = Tail(@)])
SetCur(a) == Append(Front(calls), a)

(* The client sends a batch; a new batch has a temp store of its own.      *)
Submit(stmts) ==
  /\ ~Running /\ number < MaxBatches
  /\ number' = number + 1
  /\ temp' = NoTable
  /\ calls' = <<Activation(stmts, TRUE, db, rowCount, None)>>
  /\ reply' = [kind |-> None]
  /\ UNCHANGED <<db, rowCount, clientDb, failed, asked, tempOf>>

-----------------------------------------------------------------------------
(* How an activation fails and ends. *)

(* Unwind a to its innermost open TRY: results past its mark are dropped   *)
(* and its CATCH runs with the error in its context.  Without an open TRY  *)
(* the activation fails, and so does the EXEC that made it.                *)
Tries(a) == {i \in DOMAIN a.stack : a.stack[i].kind = "try"}
Innermost(S) == CHOOSE i \in S : \A j \in S : j <= i

(* A bug: the CATCH does not get the error. *)
BugCaughtNoError(a, err) ==
  LET i == Innermost(Tries(a))
      t == a.stack[i]
  IN  [a EXCEPT !.stack = Append(SubSeq(@, 1, i - 1), Frame("catch", t.catch, None)),
                !.results = SubSeq(@, 1, t.mark)]

(* A bug: a CATCH inside another one keeps the error of that one. *)
BugCaughtOuterError(a, err) ==
  LET i == Innermost(Tries(a))
      t == a.stack[i]
  IN  [a EXCEPT !.stack = Append(SubSeq(@, 1, i - 1),
                                 Frame("catch", t.catch, IF t.err = None THEN err ELSE t.err)),
                !.results = SubSeq(@, 1, t.mark)]

Caught(a, err) ==
  LET i == Innermost(Tries(a))
      t == a.stack[i]
  IN  [a EXCEPT !.stack = Append(SubSeq(@, 1, i - 1), Frame("catch", t.catch, err)),
                !.results = SubSeq(@, 1, t.mark)]

AnswerError ==
  /\ calls' = <<>>
  /\ reply' = [kind |-> "error", flow |-> calls[1].flow, results |-> <<>>]
  /\ failed' = TRUE

KeepReply == reply' = reply /\ failed' = failed

(* handleMessage answers an error of ExecBatch with ERROR alone: neither   *)
(* results nor the database the batch had changed to.                      *)
Fail(err) ==
  LET catching == {i \in DOMAIN calls : Tries(calls[i]) # {}}
  IN  IF catching = {}
      THEN AnswerError
      ELSE /\ calls' = Append(SubSeq(calls, 1, Innermost(catching) - 1),
                              Caught(calls[Innermost(catching)], err))
           /\ KeepReply

(* A panic passes every CATCH; handleMessage recovers it and answers.      *)
Panic ==
  /\ At("panic")
  /\ AnswerError
  /\ UNCHANGED <<db, rowCount, temp, clientDb, number, asked, tempOf>>

(* ExecBatch returns.  A procedure's last result goes to its caller, which *)
(* caps it only on the flat path; the connection's batch is answered with  *)
(* all its results and, when the database changed, an ENVCHANGE, or with   *)
(* an ERROR alone when buildResponse cannot read a result to its end.      *)
ReturnToCaller ==
  LET caller == calls[Len(calls) - 1]
      got == IF Cur.results = <<>> \/ Last(Cur.results).from = "affected" THEN <<>>
             ELSE <<IF caller.flow THEN Last(Cur.results)
                    ELSE Limit(Last(Cur.results), SessRowCount(caller))>>
  IN  /\ calls' = Append(Front(Front(calls)), [caller EXCEPT !.results = @ \o got])
      /\ UNCHANGED <<reply, failed, clientDb>>

AnswerClient ==
  LET env == IF ~Cur.flow THEN Cur.envDB ELSE IF db # Cur.before THEN db ELSE None
      broken == \E i \in DOMAIN Cur.results : Cur.results[i].from = "broken"
  IN  IF broken
      THEN AnswerError /\ clientDb' = clientDb
      ELSE /\ calls' = <<>>
           /\ reply' = [kind |-> "result", flow |-> Cur.flow, results |-> Cur.results]
           /\ clientDb' = IF env = None THEN clientDb ELSE env
           /\ failed' = failed

(* A bug: a batch without results is not answered. *)
BugFinish ==
  /\ Running /\ Len(Cur.stack) = 0
  /\ IF Len(calls) > 1 THEN ReturnToCaller ELSE Cur.results # <<>> /\ AnswerClient
  /\ UNCHANGED <<db, rowCount, temp, number, asked, tempOf>>

Finish ==
  /\ Running /\ Len(Cur.stack) = 0
  /\ IF Len(calls) > 1 THEN ReturnToCaller ELSE AnswerClient
  /\ UNCHANGED <<db, rowCount, temp, number, asked, tempOf>>

-----------------------------------------------------------------------------
(* Statements both paths run. *)

(* The flat path keeps every result and caps it; the interpreter runs each *)
(* statement on a Session of its own, without the connection's cap, and    *)
(* keeps only result sets.                                                 *)
Deliver(r) ==
  IF Cur.flow
  THEN IF r.from = "affected" THEN Advance ELSE [Advance EXCEPT !.results = Append(@, r)]
  ELSE [Advance EXCEPT !.results =
          Append(@, IF r.from = "affected" THEN r ELSE Limit(r, SessRowCount(Cur)))]

(* A bug: a procedure's USE moves the connection. *)
BugUse ==
  /\ At("use")
  /\ db' = Stmt.db
  /\ calls' = SetCur([Advance EXCEPT !.db = Stmt.db, !.envDB = Stmt.db])
  /\ UNCHANGED <<rowCount, temp, clientDb, reply, failed, number, asked, tempOf>>

Use ==
  /\ At("use")
  /\ db' = IF Cur.live THEN Stmt.db ELSE db
  /\ calls' = SetCur([Advance EXCEPT !.db = IF Cur.live THEN @ ELSE Stmt.db, !.envDB = Stmt.db])
  /\ UNCHANGED <<rowCount, temp, clientDb, reply, failed, number, asked, tempOf>>

SetRowCount ==
  /\ At("rowcount")
  /\ rowCount' = IF Cur.live THEN Stmt.n ELSE rowCount
  /\ asked' = IF Cur.live THEN Stmt.n ELSE asked
  /\ calls' = SetCur([Advance EXCEPT !.rowCount = IF Cur.live THEN @ ELSE Stmt.n])
  /\ UNCHANGED <<db, temp, clientDb, reply, failed, number, tempOf>>

Select ==
  /\ At("select")
  /\ calls' = SetCur(Deliver(Rows(SessDb(Cur), TableRows)))
  /\ UNCHANGED <<db, rowCount, temp, clientDb, reply, failed, number, asked, tempOf>>

(* A result whose rows fail only when buildResponse reads them. *)
BrokenSelect ==
  /\ At("broken")
  /\ calls' = SetCur(Deliver(Rows("broken", 0)))
  /\ UNCHANGED <<db, rowCount, temp, clientDb, reply, failed, number, asked, tempOf>>

Write ==
  /\ At("write")
  /\ calls' = SetCur(Deliver(Rows("affected", 1)))
  /\ UNCHANGED <<db, rowCount, temp, clientDb, reply, failed, number, asked, tempOf>>

CreateTemp ==
  /\ At("create")
  /\ temp' = 0 /\ tempOf' = number
  /\ calls' = SetCur(Deliver(Rows("affected", 0)))
  /\ UNCHANGED <<db, rowCount, clientDb, reply, failed, number, asked>>

InsertTemp ==
  /\ At("insert") /\ temp # NoTable
  /\ temp' = temp + 1
  /\ calls' = SetCur(Deliver(Rows("affected", 1)))
  /\ UNCHANGED <<db, rowCount, clientDb, reply, failed, number, asked, tempOf>>

ReadTemp ==
  /\ At("read") /\ temp # NoTable
  /\ calls' = SetCur(Deliver(Rows("temp", temp)))
  /\ UNCHANGED <<db, rowCount, temp, clientDb, reply, failed, number, asked, tempOf>>

(* A statement the backend refuses, or one that names a #t there is not. *)
Error ==
  /\ At("fail") \/ (temp = NoTable /\ (At("insert") \/ At("read")))
  /\ Fail("backend")
  /\ UNCHANGED <<db, rowCount, temp, clientDb, number, asked, tempOf>>

(* execStoredProc: the body runs on NewSession(b, current database), in    *)
(* the caller's context (its temp tables, its error).                      *)
Exec ==
  /\ At("exec") /\ Len(calls) < MaxCalls
  /\ calls' = Append(SetCur(Advance), Activation(ProcBody[Stmt.proc], FALSE, SessDb(Cur), 0, Top.err))
  /\ UNCHANGED <<db, rowCount, temp, clientDb, reply, failed, number, asked, tempOf>>

-----------------------------------------------------------------------------
(* control.execStmt *)

Enter(f) == [Advance EXCEPT !.stack = Append(@, f)]

(* evalBool runs the condition as a query, which may fail like any other.  *)
If ==
  /\ At("if")
  /\ \/ \E branch \in {Stmt.then, Stmt.else} :
          calls' = SetCur(Enter(Frame("block", branch, Top.err))) /\ KeepReply
     \/ CondsFail /\ Fail("condition")
  /\ UNCHANGED <<db, rowCount, temp, clientDb, number, asked, tempOf>>

While ==
  /\ At("while")
  /\ calls' = SetCur(Enter([Frame("while", <<>>, Top.err) EXCEPT !.body = Stmt.body]))
  /\ UNCHANGED <<db, rowCount, temp, clientDb, reply, failed, number, asked, tempOf>>

Try ==
  /\ At("try")
  /\ calls' = SetCur(Enter([Frame("try", Stmt.body, Top.err) EXCEPT
                              !.catch = Stmt.catch, !.mark = Len(Cur.results)]))
  /\ UNCHANGED <<db, rowCount, temp, clientDb, reply, failed, number, asked, tempOf>>

(* THROW with arguments raises its own error, a bare one the error of the  *)
(* CATCH it is in; outside a CATCH it is itself an error.                  *)
Throw ==
  /\ At("throw")
  /\ Fail(IF Stmt.bare THEN IF Top.err # None THEN Top.err ELSE "no_catch" ELSE "user")
  /\ UNCHANGED <<db, rowCount, temp, clientDb, number, asked, tempOf>>

(* flowReturn leaves the whole batch (or procedure). *)
Return ==
  /\ At("return")
  /\ calls' = SetCur([Cur EXCEPT !.stack = <<>>])
  /\ UNCHANGED <<db, rowCount, temp, clientDb, reply, failed, number, asked, tempOf>>

(* flowBreak and flowContinue leave every block up to the innermost WHILE, *)
(* and the whole batch when there is none.                                 *)
Loops == {i \in DOMAIN Cur.stack : Cur.stack[i].kind = "while"}

BreakOrContinue ==
  /\ At("break") \/ At("continue")
  /\ calls' = SetCur([Cur EXCEPT !.stack =
       IF Loops = {} THEN <<>>
       ELSE IF Stmt.op = "break" THEN SubSeq(@, 1, Innermost(Loops) - 1)
       ELSE Append(SubSeq(@, 1, Innermost(Loops) - 1), [@[Innermost(Loops)] EXCEPT !.todo = <<>>])])
  /\ UNCHANGED <<db, rowCount, temp, clientDb, reply, failed, number, asked, tempOf>>

BlockDone == Running /\ Len(Cur.stack) > 0 /\ Top.todo = <<>>

EndBlock ==
  /\ BlockDone /\ Top.kind # "while"
  /\ calls' = SetCur([Cur EXCEPT !.stack = Front(@)])
  /\ UNCHANGED <<db, rowCount, temp, clientDb, reply, failed, number, asked, tempOf>>

(* A bug: the guard lets one round too many pass. *)
BugNextRound ==
  /\ BlockDone /\ Top.kind = "while"
  /\ IF Top.rounds > MaxWhile THEN Fail("while")
     ELSE \/ calls' = SetCur(SetTop([Top EXCEPT !.todo = Top.body, !.rounds = @ + 1])) /\ KeepReply
          \/ calls' = SetCur([Cur EXCEPT !.stack = Front(@)]) /\ KeepReply
          \/ CondsFail /\ Fail("condition")
  /\ UNCHANGED <<db, rowCount, temp, clientDb, number, asked, tempOf>>

(* Each round of a WHILE evaluates its condition afresh, and the guard     *)
(* stops a loop that does not.                                             *)
NextRound ==
  /\ BlockDone /\ Top.kind = "while"
  /\ IF Top.rounds >= MaxWhile THEN Fail("while")
     ELSE \/ calls' = SetCur(SetTop([Top EXCEPT !.todo = Top.body, !.rounds = @ + 1])) /\ KeepReply
          \/ calls' = SetCur([Cur EXCEPT !.stack = Front(@)]) /\ KeepReply
          \/ CondsFail /\ Fail("condition")
  /\ UNCHANGED <<db, rowCount, temp, clientDb, number, asked, tempOf>>

-----------------------------------------------------------------------------
Step ==
  \/ Finish \/ EndBlock \/ Panic \/ Error
  \/ Use \/ SetRowCount \/ Select \/ BrokenSelect \/ Write \/ Exec
  \/ CreateTemp \/ InsertTemp \/ ReadTemp
  \/ If \/ While \/ Try \/ Throw \/ Return \/ BreakOrContinue \/ NextRound

Next == Step \/ \E n \in 1..MaxBatches : \E stmts \in Batch[n] : number + 1 = n /\ Submit(stmts)

Spec == Init /\ [][Next]_vars

(* handleMessage runs a batch to its end before it reads anything else. *)
FairSpec == Spec /\ WF_vars(Step)

-----------------------------------------------------------------------------
(* Properties *)

FrameOK(f) ==
  /\ f.kind \in {"block", "while", "try", "catch"}
  /\ f.mark \in Nat /\ f.rounds \in 0..MaxWhile
ResultOK(r) == r.from \in Db \cup {"temp", "affected", "broken"} /\ r.rows \in Nat /\ r.due \in Nat

(* Type invariant: what the connection, its session and the activations of *)
(* ExecBatch hold; the outermost alone is on the connection's own Session. *)
TypeOK ==
  /\ db \in Db /\ clientDb \in Db
  /\ rowCount \in Nat /\ asked \in Nat /\ number \in 0..MaxBatches
  /\ temp \in Nat \cup {NoTable} /\ tempOf \in 0..MaxBatches
  /\ Len(calls) <= MaxCalls
  /\ \A i \in DOMAIN calls :
       /\ calls[i].live <=> i = 1
       /\ \A j \in DOMAIN calls[i].stack : FrameOK(calls[i].stack[j])
       /\ \A j \in DOMAIN calls[i].results : ResultOK(calls[i].results[j])
  /\ reply.kind \in {"none", "result", "error"}

(* Between batches, and as long as none has failed, the client and the     *)
(* session agree on the database the next unqualified name resolves in,    *)
(* whichever path the USE took: "a control-flow batch that ran USE [db]    *)
(* must still report the context change" (ExecBatch).                      *)
TracksUntilError == ~Running /\ ~failed => clientDb = db

(* SET ROWCOUNT n "caps the rows returned by later statements in the       *)
(* batch" (CHANGELOG.md), and in later batches: a result the connection    *)
(* gets has at most the rows asked for when its statement ran.  That is of *)
(* batches without control flow, whatever batches set the cap before; the  *)
(* statements of the others run on a Session of their own, without a cap.  *)
Capped(r) == r.due > 0 /\ r.from # "affected" => r.rows <= r.due
RowCountAppliesFlat ==
  reply.kind = "result" /\ ~reply.flow =>
    \A i \in DOMAIN reply.results : Capped(reply.results[i])

(* A batch reads the #t it created, never one an earlier batch left. *)
TempIsOfBatch == Running /\ temp # NoTable => tempOf = number

(* What a session hands from batch to batch (its database, its row cap)    *)
(* and what it must not (its temp tables) follow the batches, whichever    *)
(* path they took through Session.ExecBatch.                               *)
SessionFollows == TracksUntilError /\ RowCountAppliesFlat /\ TempIsOfBatch

(* The error of the code right around a block: of the block it is in, or,  *)
(* for a procedure's own, of the block that called it.                     *)
Around(i, j) ==
  IF j > 1 THEN calls[i].stack[j - 1].err
  ELSE IF i > 1 THEN Last(calls[i - 1].stack).err ELSE None

(* A CATCH has an error, and every other block the error of the code right *)
(* around it, through nested blocks and calls: that of the innermost CATCH *)
(* it runs in, and none outside every CATCH (tds.WithError on the CATCH's  *)
(* context only, which blocks and procedures inherit).                     *)
ErrorOnlyInCatch ==
  \A i \in DOMAIN calls : \A j \in DOMAIN calls[i].stack :
    LET b == calls[i].stack[j]
    IN  IF b.kind = "catch" THEN b.err # None ELSE b.err = Around(i, j)

(* The error the running block raises, if its next step fails. *)
Raised ==
  CASE BlockDone -> IF Top.rounds >= MaxWhile THEN "while" ELSE "condition"
    [] At("if") -> "condition"
    [] At("throw") /\ ~Stmt.bare -> "user"
    [] At("throw") /\ Stmt.bare -> IF Top.err = None THEN "no_catch" ELSE Top.err
    [] OTHER -> "backend"

(* j-th block of activation i: still open, with its error, or a TRY whose  *)
(* CATCH has opened with the error raised, there being no TRY further in   *)
BlockKept(i, j) ==
  calls'[i].stack[j].kind = calls[i].stack[j].kind /\ calls'[i].stack[j].err = calls[i].stack[j].err
CatchOpened(i, j) ==
  /\ calls[i].stack[j].kind = "try"
  /\ calls'[i].stack[j].kind = "catch" /\ calls'[i].stack[j].err = Raised
  /\ Len(calls') = i /\ Len(calls'[i].stack) = j
  /\ \A k \in (i + 1)..Len(calls) : Tries(calls[k]) = {}
  /\ \A l \in Tries(calls[i]) : l <= j

(* what a step does to the errors of the blocks that were open and are     *)
BlockErrors ==
  \A i \in DOMAIN calls \cap DOMAIN calls' :
    \A j \in DOMAIN calls[i].stack \cap DOMAIN calls'[i].stack :
      BlockKept(i, j) \/ CatchOpened(i, j)

(* Errors are seen in their CATCH only (ErrorOnlyInCatch).  The CATCH of   *)
(* the innermost TRY gets the error that was raised in it, in whatever     *)
(* CATCH that TRY is itself, and nothing changes the error of a block that *)
(* stays open (execTry, tds.WithError): leaving an inner CATCH its own     *)
(* error is gone and the outer one's is back.                              *)
CatchHasItsError == []ErrorOnlyInCatch /\ [][BlockErrors]_vars

(* while a procedure runs the connection's database, cap and the results   *)
(* of its callers stay as they are                                         *)
ProcLeaves ==
  Len(calls) > 1 => /\ db' = db /\ rowCount' = rowCount
                    /\ Len(calls') = Len(calls) => Front(calls') = Front(calls)

(* results only grow until an error is caught, and never fall below the    *)
(* mark of the innermost TRY                                               *)
ResultsGrow ==
  \A i \in DOMAIN calls \cap DOMAIN calls' :
    LET was == calls[i].results
        is  == calls'[i].results
    IN  \/ IsPrefix(was, is)
        \/ Tries(calls[i]) # {} /\ is = SubSeq(was, 1, calls[i].stack[Innermost(Tries(calls[i]))].mark)

(* Neither a procedure nor a TRY that fails takes what is its caller's:    *)
(* a procedure cannot change the session or the results of whoever calls   *)
(* it (execStoredProc), and a TRY drops its own results alone (execTry).   *)
CallersKept == [][ProcLeaves /\ ResultsGrow]_vars

(* Every batch is answered: the guard ends a WHILE that would not end. *)
BatchAnswered == Running ~> ~Running
=============================================================================
