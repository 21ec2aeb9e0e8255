---------------------------- MODULE WorkerBridge ----------------------------
(***************************************************************************)
(* How the server talks to PostgreSQL. The main thread asks for each       *)
(* statement through src/sync-rpc.js: it clears a control word, posts a    *)
(* message to a worker and sleeps on that word until the worker has        *)
(* written the answer into shared memory, or until a timeout. The worker,  *)
(* src/postgres-db-worker.js, has its one connection run the statements in *)
(* the order of their messages. On top, transaction() of src/db.js wraps   *)
(* the writes of an operation in BEGIN and COMMIT, and sends ROLLBACK when *)
(* anything throws.                                                        *)
(*                                                                         *)
(* The two threads share memory without a lock, so each word is read and   *)
(* written in a step of its own. A statement is named by the number of its *)
(* message; an answer by that of its statement. Only the main thread       *)
(* writes 0. The answers themselves are told apart by success and failure. *)
(*                                                                         *)
(* An operation is one transaction, or one statement outside transactions  *)
(* (reads are left out: they are statements that write nothing).           *)
(***************************************************************************)
EXTENDS Naturals, Sequences

CONSTANTS
  NumOps,      \* bound: operations
  NumWrites,   \* writes a transaction may ask for
  MaxMissed,   \* bound: calls that end before their answer is there (timeouts of
               \* a live worker, early wake-ups), with the deaths of the process
  MaxStops     \* bound: deaths of the worker, with those of the process

ASSUME BridgeAssumption ==
  /\ NumOps \in Nat /\ NumWrites \in Nat \ {0}
  /\ MaxMissed \in Nat /\ MaxStops \in Nat

Ops == 1..NumOps

VARIABLES
  op,        \* main thread: the operation in progress, or the last one
  pc,        \*   what it does next
  stmt,      \*   the kind of statement it asks for
  wrote,     \*   the number of writes each operation has asked for
  outcome,   \*   how each operation ended for its caller
  got,       \*   control words read of the answer being taken
  control,   \* shared memory: control[0] and control[1], by answer
  data,      \*   the answer in the data buffer; 0 while it is being written
  sent,      \* messages posted to the worker, in order
  ran,       \*   how many of them the connection has executed
  good,      \*   those of them that succeeded
  answered,  \*   how many answers the worker has written
  wpc,       \*   what the worker does next for answer answered + 1
  tx,        \* the connection: "idle", "open" or "aborted"
  staged,    \*   writes of the open transaction
  stored,    \*   durable writes, <<operation, number of the write>>
  alive,     \* the worker has not died
  late,      \* timeouts in this life of the process
  early,     \* history: calls of this life that were woken before any answer
             \* to them or an earlier call was there, and read a status of 0
  deaths,    \* deaths of the worker
  crashes,   \* deaths of the process
  quiet      \* history: no answer was under way when the last call began

mainVars == <<op, pc, stmt, wrote, outcome, got, quiet>>
sharedVars == <<control, data>>
workerVars == <<ran, good, answered, wpc>>
dbVars == <<tx, staged, stored>>
faultVars == <<alive, late, early, deaths, crashes>>
vars == <<mainVars, sharedVars, sent, workerVars, dbVars, faultVars>>

Kinds == {"begin", "write", "single", "commit", "rollback"}
MainSteps == {"idle", "handler", "clear", "fill", "post", "wait", "asleep",
              "status", "length", "body"}
WorkerSteps == {"free", "body", "length", "status", "notify"}
Message == [op : Ops, kind : Kinds, write : 0..NumWrites]
Words == [status : Nat, length : Nat]
NoWords == [status |-> 0, length |-> 0]

Init ==
  /\ op = 0 /\ pc = "idle" /\ stmt = "begin"
  /\ wrote = [o \in Ops |-> 0]
  /\ outcome = [o \in Ops |-> "none"]
  /\ got = NoWords /\ quiet = TRUE
  /\ control = NoWords /\ data = 0
  /\ sent = <<>> /\ ran = 0 /\ good = {} /\ answered = 0 /\ wpc = "free"
  /\ tx = "idle" /\ staged = {} /\ stored = {}
  /\ alive = TRUE /\ late = 0 /\ early = 0 /\ deaths = 0 /\ crashes = 0

-----------------------------------------------------------------------------
(* The main thread: operations.                                            *)

(* A handler starts a transaction, or a statement of its own. *)
Start(kind) ==
  /\ pc = "idle"
  /\ op < NumOps
  /\ op' = op + 1
  /\ stmt' = kind
  /\ wrote' = IF kind = "single" THEN [wrote EXCEPT ![op + 1] = 1] ELSE wrote
  /\ pc' = "clear"
  /\ UNCHANGED <<outcome, got, quiet, sharedVars, sent, workerVars, dbVars, faultVars>>

\* Fault for AfterThrow: only a failed COMMIT is rolled back.
AfterThrowWithout(kind) ==
  IF kind = "commit" THEN [pc |-> "clear", stmt |-> "rollback", end |-> "none"]
  ELSE [pc |-> "idle", stmt |-> kind, end |-> "failed"]
\* transaction: BEGIN is sent before the try block, the rest inside; the error
\* of ROLLBACK itself replaces the one that led to it.
AfterThrow(kind) ==
  IF kind \in {"write", "commit"} THEN [pc |-> "clear", stmt |-> "rollback", end |-> "none"]
  ELSE [pc |-> "idle", stmt |-> kind, end |-> "failed"]
AfterAnswer(kind) ==
  CASE kind \in {"begin", "write"} -> [pc |-> "handler", stmt |-> kind, end |-> "none"]
    [] kind \in {"single", "commit"} -> [pc |-> "idle", stmt |-> kind, end |-> "ok"]
    [] kind = "rollback" -> [pc |-> "idle", stmt |-> kind, end |-> "failed"]

Continue(next) ==
  /\ pc' = next.pc /\ stmt' = next.stmt
  /\ outcome' = [outcome EXCEPT ![op] = next.end]

(* Inside a transaction the handler writes or returns. *)
Proceed(kind) ==
  /\ pc = "handler"
  /\ kind = "write" => wrote[op] < NumWrites
  /\ stmt' = kind
  /\ wrote' = IF kind = "write" THEN [wrote EXCEPT ![op] = @ + 1] ELSE wrote
  /\ pc' = "clear"
  /\ UNCHANGED <<op, outcome, got, quiet, sharedVars, sent, workerVars, dbVars, faultVars>>

(* It throws: a check of its own fails, or an answer makes no sense to it. *)
HandlerThrows ==
  /\ pc = "handler"
  /\ Continue(AfterThrow("write"))
  /\ UNCHANGED <<op, wrote, got, quiet, sharedVars, sent, workerVars, dbVars, faultVars>>

-----------------------------------------------------------------------------
(* The main thread: request() of sync-rpc.js.                              *)

\* Fault for Clear: the control words keep the last answer.
ClearNothing ==
  /\ pc = "clear"
  /\ pc' = "post"
  /\ quiet' = (answered = Len(sent) /\ wpc = "free")
  /\ UNCHANGED <<op, stmt, wrote, outcome, got, sharedVars, sent, workerVars, dbVars,
                 faultVars>>
(* control.fill(0) goes from index 0 up. *)
Clear ==
  /\ pc = "clear"
  /\ control' = [control EXCEPT !.status = 0]
  /\ pc' = "fill"
  /\ quiet' = (answered = Len(sent) /\ wpc = "free")
  /\ UNCHANGED <<op, stmt, wrote, outcome, got, data, sent, workerVars, dbVars, faultVars>>

Fill ==
  /\ pc = "fill"
  /\ control' = [control EXCEPT !.length = 0]
  /\ pc' = "post"
  /\ UNCHANGED <<op, stmt, wrote, outcome, got, quiet, data, sent, workerVars, dbVars,
                 faultVars>>

Post ==
  /\ pc = "post"
  /\ sent' = Append(sent, [op |-> op, kind |-> stmt,
                           write |-> IF stmt \in {"write", "single"} THEN wrote[op] ELSE 0])
  /\ pc' = "wait"
  /\ UNCHANGED <<op, stmt, wrote, outcome, got, quiet, sharedVars, workerVars, dbVars,
                 faultVars>>

\* The bound on calls that end before their answer is there.
MayMiss == late + early + crashes < MaxMissed

(* Atomics.wait returns at once when the word is no longer 0. It may begin  *)
(* while the worker has yet to notify of an answer that was taken before.  *)
Wait ==
  /\ pc = "wait"
  /\ wpc = "notify" /\ control.status = 0 => MayMiss
  /\ pc' = IF control.status = 0 THEN "asleep" ELSE "status"
  /\ UNCHANGED <<op, stmt, wrote, outcome, got, quiet, sharedVars, sent, workerVars,
                 dbVars, faultVars>>

(* The worker is late, or will never answer. *)
Timeout ==
  /\ pc = "asleep"
  /\ alive => MayMiss
  /\ late' = IF alive THEN late + 1 ELSE late
  /\ Continue(AfterThrow(stmt))
  /\ UNCHANGED <<op, wrote, got, quiet, sharedVars, sent, workerVars, dbVars, alive,
                 early, deaths, crashes>>

(* Why the wait ended is not asked, nor whether the word has changed. *)
ReadStatus ==
  /\ pc = "status"
  /\ got' = [got EXCEPT !.status = control.status]
  /\ early' = IF control.status = 0 THEN early + 1 ELSE early
  /\ pc' = "length"
  /\ UNCHANGED <<op, stmt, wrote, outcome, quiet, sharedVars, sent, workerVars, dbVars,
                 alive, late, deaths, crashes>>

ReadLength ==
  /\ pc = "length"
  /\ got' = [got EXCEPT !.length = control.length]
  /\ pc' = "body"
  /\ UNCHANGED <<op, stmt, wrote, outcome, quiet, sharedVars, sent, workerVars, dbVars,
                 faultVars>>

\* A status that is not 2 counts as success, and so does an empty answer.
Succeeded == got.status \in good \cup {0}
\* The length is that of the bytes; otherwise they may be valid JSON or not.
Whole == got.length \in {0, data}

(* The answer is decoded, and the handler or transaction() goes on. *)
Decode(returned) ==
  /\ pc = "body"
  /\ returned => Succeeded
  /\ ~returned => ~Succeeded \/ ~Whole
  /\ Continue(IF returned THEN AfterAnswer(stmt) ELSE AfterThrow(stmt))
  /\ UNCHANGED <<op, wrote, got, quiet, sharedVars, sent, workerVars, dbVars, faultVars>>

-----------------------------------------------------------------------------
(* The connection. Statements run in the order of their messages.          *)

\* What each statement does in PostgreSQL: BEGIN in a transaction and COMMIT or
\* ROLLBACK outside one only warn, and COMMIT of an aborted one rolls it back.
Execute(succeeds) ==
  LET m == sent[ran + 1]
      w == <<m.op, m.write>>
  IN /\ alive
     /\ ran < Len(sent)
     /\ tx = "aborted" /\ m.kind \in {"begin", "write", "single"} => ~succeeds
     /\ m.kind \in {"commit", "rollback"} => succeeds
     /\ m.kind = "begin" => succeeds \/ tx = "aborted"
     /\ ran' = ran + 1
     /\ good' = IF succeeds THEN good \cup {ran + 1} ELSE good
     /\ tx' = CASE m.kind = "begin" /\ succeeds -> "open"
                [] m.kind \in {"commit", "rollback"} -> "idle"
                [] ~succeeds /\ tx = "open" -> "aborted"
                [] OTHER -> tx
     /\ staged' = IF tx' # "open" THEN {}
                  ELSE staged \cup (IF m.kind \in {"write", "single"} THEN {w} ELSE {})
     /\ stored' = CASE m.kind \in {"write", "single"} /\ succeeds /\ tx = "idle" ->
                         stored \cup {w}
                    [] m.kind = "commit" /\ tx = "open" -> stored \cup staged
                    [] OTHER -> stored
     /\ UNCHANGED <<mainVars, sharedVars, sent, answered, wpc, faultVars>>

-----------------------------------------------------------------------------
(* The worker: writeSynchronousWorkerResponse, for each result in order.   *)

Answer(from, to) ==
  /\ alive
  /\ wpc = from
  /\ wpc' = to
  /\ UNCHANGED <<sent, ran, good, dbVars, faultVars>>

\* Fault for Erase: the status word is stored before the answer is there.
EraseAfterStatus ==
  /\ answered < ran
  /\ Answer("free", "body")
  /\ data' = 0
  /\ control' = [control EXCEPT !.status = answered + 1]
  /\ UNCHANGED <<mainVars, answered>>
\* Fault for Erase: the worker does not await the result.
EraseUnawaited ==
  /\ answered < Len(sent)
  /\ Answer("free", "body")
  /\ data' = 0
  /\ UNCHANGED <<mainVars, control, answered>>
Erase ==
  /\ answered < ran
  /\ Answer("free", "body")
  /\ data' = 0
  /\ UNCHANGED <<mainVars, control, answered>>

WriteBody ==
  /\ Answer("body", "length")
  /\ data' = answered + 1
  /\ UNCHANGED <<mainVars, control, answered>>

StoreLength ==
  /\ Answer("length", "status")
  /\ control' = [control EXCEPT !.length = answered + 1]
  /\ UNCHANGED <<mainVars, data, answered>>

StoreStatus ==
  /\ Answer("status", "notify")
  /\ control' = [control EXCEPT !.status = answered + 1]
  /\ UNCHANGED <<mainVars, data, answered>>

\* Fault for Notify: nobody is woken.
NotifyNobody ==
  /\ Answer("notify", "free")
  /\ answered' = answered + 1
  /\ UNCHANGED <<mainVars, sharedVars>>
(* Atomics.notify wakes the main thread whatever call it sleeps in. *)
Notify ==
  /\ Answer("notify", "free")
  /\ answered' = answered + 1
  /\ pc' = IF pc = "asleep" THEN "status" ELSE pc
  /\ UNCHANGED <<op, stmt, wrote, outcome, got, quiet, sharedVars>>

-----------------------------------------------------------------------------
(* Failures.                                                               *)

(* The connection breaks: the error event of the pg client has no listener, *)
(* so the worker dies, not in the middle of an answer, and never writes     *)
(* another; PostgreSQL rolls back.                                          *)
WorkerDies ==
  /\ alive /\ wpc = "free"
  /\ deaths + crashes < MaxStops
  /\ alive' = FALSE
  /\ deaths' = deaths + 1
  /\ tx' = "idle" /\ staged' = {}
  /\ UNCHANGED <<mainVars, sharedVars, sent, workerVars, stored, late, early, crashes>>

\* A new process with a new worker, connection and shared memory; what was
\* posted and not run is never run.
Fresh ==
  /\ pc' = "idle" /\ got' = NoWords /\ quiet' = TRUE
  /\ outcome' = IF pc = "idle" THEN outcome ELSE [outcome EXCEPT ![op] = "lost"]
  /\ control' = NoWords /\ data' = 0
  /\ ran' = Len(sent) /\ answered' = Len(sent) /\ wpc' = "free"
  /\ tx' = "idle" /\ staged' = {}
  /\ alive' = TRUE /\ late' = 0 /\ early' = 0
  /\ UNCHANGED <<op, stmt, wrote, sent, good, stored, deaths>>

Crash ==
  /\ MayMiss
  /\ deaths + crashes < MaxStops
  /\ crashes' = crashes + 1
  /\ Fresh

(* The error event of the worker has no listener either: it ends the main  *)
(* process once no handler runs, and the deployment restarts it.           *)
Restart ==
  /\ ~alive
  /\ pc = "idle"
  /\ Fresh
  /\ UNCHANGED crashes

Call == Clear \/ Fill \/ Post \/ Wait \/ ReadStatus \/ ReadLength
        \/ \E returned \in BOOLEAN : Decode(returned)
Handle == \/ \E kind \in {"write", "commit"} : Proceed(kind)
          \/ HandlerThrows
Work == Erase \/ WriteBody \/ StoreLength \/ StoreStatus \/ Notify
        \/ \E succeeds \in BOOLEAN : Execute(succeeds)
Begin == \E kind \in {"begin", "single"} : Start(kind)

Next == Begin \/ Handle \/ Call \/ Timeout \/ Work \/ WorkerDies \/ Crash \/ Restart

Spec == Init /\ [][Next]_vars
(* Both threads are scheduled, handlers end and a wait has a timeout. No    *)
(* operation has to start, nothing has to fail, and no one has to restart  *)
(* the process.                                                            *)
FairSpec == Spec /\ WF_vars(Handle \/ Call \/ Timeout) /\ WF_vars(Work)

-----------------------------------------------------------------------------
(* Properties.                                                             *)

MainTypes ==
  /\ op \in 0..NumOps /\ pc \in MainSteps /\ stmt \in Kinds
  /\ (pc # "idle" => op \in Ops)
  /\ wrote \in [Ops -> 0..NumWrites]
  /\ outcome \in [Ops -> {"none", "ok", "failed", "lost"}]
  /\ got \in Words /\ quiet \in BOOLEAN
  /\ alive \in BOOLEAN
  /\ late \in 0..MaxMissed /\ early \in Nat
  /\ deaths \in 0..MaxStops /\ crashes \in 0..MaxStops
WorkerTypes ==
  /\ control \in Words /\ data \in Nat
  /\ sent \in Seq(Message)
  /\ ran \in 0..Len(sent) /\ good \subseteq 1..ran
  /\ answered \in 0..ran /\ wpc \in WorkerSteps
StoreTypes ==
  /\ tx \in {"idle", "open", "aborted"}
  /\ staged \subseteq Ops \X Nat /\ stored \subseteq Ops \X Nat

(* Every variable is in its range; in particular the worker answers only    *)
(* what the connection has run.                                             *)
TypeOK == MainTypes /\ WorkerTypes /\ StoreTypes

\* Every call of this process, but for the one in progress, waited until an
\* answer was there.
Punctual == late = 0 /\ early = 0

(* A call takes its own answer, whole, although three words are read while  *)
(* the worker may be writing: as long as no call of this process timed out *)
(* or was woken before there was an answer, and after any of these whenever *)
(* every answer owed had been written, and notified of, when it began.     *)
OwnAnswer ==
  pc = "body" /\ (Punctual \/ quiet)
    => got.status = Len(sent) /\ got.length = Len(sent) /\ data = Len(sent)

(* A call that timed out, or that the notify of an earlier answer woke with *)
(* no status to read, leaves its own answer on its way. Calls then take    *)
(* the answers of earlier calls, but the bridge never drifts further than  *)
(* one answer for each of these, however answers, calls, wake-ups and      *)
(* clearings of the control word fall.                                     *)
DriftBounded ==
  pc \in {"length", "body"} /\ got.status # 0 => got.status + late + early >= Len(sent)

(* Every operation that started ends for its caller, with an answer, an     *)
(* error or the death of the process, since only then is the main thread   *)
(* idle: the wake-up of a call is never lost, and a dead worker holds       *)
(* nobody for ever.                                                         *)
EveryOperationEnds == []<>(pc = "idle")

(* src/services.js:4936: "bridge.request is synchronous via Atomics.wait": as *)
(* long as nothing timed out and the worker lives, a call does not return   *)
(* before its statement has run.                                            *)
ReturnsAfterRun == pc = "body" /\ late = 0 /\ alive => ran = Len(sent)

(* As long as no answer was late, no call was woken before there was one,   *)
(* and no worker died, the code keeps the promise of transaction() to its  *)
(* callers, through failed statements and deaths of the process.           *)
Effect(o) == {k \in 1..NumWrites : <<o, k>> \in stored}
Promise == INSTANCE AtomicOperations
  WITH Writes <- 1..NumWrites,
       asked <- [o \in Ops |-> 1..wrote[o]],
       effect <- [o \in Ops |-> Effect(o)],
       answer <- outcome
Atomic ==
  Promise!Init /\ [][Punctual' /\ deaths' = 0 => Promise!Next]_(Promise!vars)
=============================================================================
