------------------------- MODULE WorkerBridgeProofs -------------------------
(***************************************************************************)
(* Whose answer a call of the bridge takes, for any number of operations,  *)
(* writes, timeouts, early wake-ups and deaths.                            *)
(*                                                                         *)
(* DriftBounded is not inductive: what a call will read depends on how     *)
(* many status words have been stored when it begins. `Behind' counts them *)
(* at every step of a call; `InStep' is the same count for a call that     *)
(* began with nothing owed; `Bytes' says which answer the memory holds.    *)
(***************************************************************************)
EXTENDS WorkerBridge, TLAPS

\* Status words, lengths and bodies stored so far by this worker or by
\* earlier ones.
Statuses == IF wpc = "notify" THEN answered + 1 ELSE answered
Lengths == IF wpc \in {"status", "notify"} THEN answered + 1 ELSE answered
Bodies == IF wpc \in {"length", "status", "notify"} THEN answered + 1 ELSE answered

\* The steps of a call once its message is posted.
Posted == {"wait", "asleep", "status", "length", "body"}
Taking == {"status", "length", "body"}

(* The worker answers only what has run, and dies only between answers. A  *)
(* status word is that of the latest answer.                               *)
WorkerInv ==
  /\ wpc # "free" => answered < ran
  /\ ~alive => wpc = "free"
  /\ control.status # 0 => control.status = Statuses

\* Calls of this process that ended before their answer was there.
Missed == late + early

(* At most one answer is missing for each call that ended early, besides    *)
(* that of the call in progress; a dead worker's answers are no longer      *)
(* waited for. A call that reads a status of 0 is one more that ends early. *)
Behind ==
  /\ pc \in MainSteps \ Posted /\ alive => Len(sent) <= Statuses + Missed
  /\ pc \in {"fill", "post"} /\ control.status # 0 => Len(sent) < Statuses + Missed
  /\ pc \in {"wait", "asleep"} /\ alive => Len(sent) <= Statuses + Missed + 1
  /\ pc = "status" => Len(sent) <= Statuses + Missed + 1
  /\ pc \in {"wait", "asleep", "status"} /\ control.status # 0 =>
        Len(sent) <= Statuses + Missed
  /\ pc \in {"length", "body"} =>
        /\ Len(sent) <= Statuses + Missed
        /\ got.status # 0 => Len(sent) <= got.status + Missed
        /\ got.status = 0 => early > 0

(* A call that began with nothing owed meets no answer but its own, and no  *)
(* notify but that of its own.                                              *)
InStep ==
  quiet =>
    /\ pc \in {"fill", "post"} => answered = Len(sent) /\ wpc = "free" /\ control.status = 0
    /\ pc \in {"wait", "asleep"} => Len(sent) <= answered + 1
    /\ pc \in {"wait", "asleep"} /\ control.status # 0 => Statuses = Len(sent)
    /\ pc \in {"wait", "asleep"} /\ Statuses = Len(sent) => control.status # 0
    /\ pc \in Taking => Statuses = Len(sent)
    /\ pc = "status" => control.status # 0

(* Once the last answer owed is stored, the memory holds nothing else. *)
Bytes ==
  /\ pc \in Posted /\ Lengths = Len(sent) => control.length = Len(sent)
  /\ pc \in Posted /\ Bodies = Len(sent) => data = Len(sent)
  /\ pc \in {"length", "body"} /\ (Punctual \/ quiet) => got.status = Len(sent)
  /\ pc = "body" /\ (Punctual \/ quiet) => got.length = Len(sent)

BridgeInv == TypeOK /\ WorkerInv /\ Behind /\ InStep /\ Bytes

-----------------------------------------------------------------------------
(* Type correctness: every step of either thread leaves every variable in   *)
(* its range; in particular the worker never answers what has not run.     *)

LEMMA InitTypes == Init => TypeOK /\ WorkerInv
  BY BridgeAssumption DEF Init, TypeOK, MainTypes, WorkerTypes, StoreTypes, WorkerInv, MainSteps, Taking, Kinds, Words, NoWords, WorkerSteps, Ops, Message

LEMMA MainStep ==
  ASSUME MainTypes, WorkerTypes, [Next]_vars
  PROVE  MainTypes'
<1> USE BridgeAssumption DEF MainTypes, Kinds, Words, MainSteps, Ops
<1>1. ASSUME NEW kind \in {"begin", "single"}, Start(kind) PROVE MainTypes'
  BY <1>1 DEF Start, mainVars, faultVars
<1>2. ASSUME NEW kind \in {"write", "commit"}, Proceed(kind) PROVE MainTypes'
  BY <1>2 DEF Proceed, mainVars, faultVars
<1>3. CASE HandlerThrows
  BY <1>3 DEF HandlerThrows, Continue, AfterThrow, mainVars, faultVars
<1>4. CASE Clear
  BY <1>4 DEF Clear, mainVars, faultVars
<1>5. CASE Fill
  BY <1>5 DEF Fill, mainVars, faultVars
<1>6. CASE Post
  BY <1>6 DEF Post, mainVars, faultVars
<1>7. CASE Wait
  BY <1>7 DEF Wait, mainVars, faultVars
<1>8. CASE ReadStatus
  <2>1. UNCHANGED <<op, stmt, wrote, outcome, quiet, alive, late, deaths, crashes>>
    BY <1>8 DEF ReadStatus
  <2>2. pc = "status" /\ pc' = "length" /\ got' = [got EXCEPT !.status = control.status]
    BY <1>8 DEF ReadStatus
  <2>3. got' \in Words
    BY <2>2 DEF WorkerTypes
  <2>4. early' \in Nat
    BY <1>8 DEF ReadStatus
  <2> QED BY <2>1, <2>2, <2>3, <2>4
<1>9. CASE ReadLength
  BY <1>9 DEF ReadLength, WorkerTypes, faultVars
<1>10. ASSUME NEW returned \in BOOLEAN, Decode(returned) PROVE MainTypes'
  BY <1>10 DEF Decode, Continue, AfterThrow, AfterAnswer, mainVars, faultVars
<1>11. CASE Timeout
  BY <1>11 DEF Timeout, MayMiss, Continue, AfterThrow, mainVars, faultVars
<1>12. ASSUME NEW succeeds \in BOOLEAN, Execute(succeeds) PROVE MainTypes'
  BY <1>12 DEF Execute, Message, mainVars, faultVars
<1>13. CASE Erase
  BY <1>13 DEF Erase, Answer, mainVars, faultVars
<1>14. CASE WriteBody
  BY <1>14 DEF WriteBody, Answer, mainVars, faultVars
<1>15. CASE StoreLength
  BY <1>15 DEF StoreLength, Answer, mainVars, faultVars
<1>16. CASE StoreStatus
  BY <1>16 DEF StoreStatus, Answer, mainVars, faultVars
<1>17. CASE Notify
  BY <1>17 DEF Notify, Answer, mainVars, faultVars
<1>18. CASE WorkerDies
  <2>1. UNCHANGED <<op, pc, stmt, wrote, outcome, got, quiet, late, early, crashes>>
    BY <1>18 DEF WorkerDies, mainVars
  <2>2. alive' = FALSE /\ deaths + crashes < MaxStops /\ deaths' = deaths + 1
    BY <1>18 DEF WorkerDies
  <2>3. deaths' \in 0..MaxStops
    BY <2>2
  <2> QED BY <2>1, <2>2, <2>3
<1>19. CASE Crash
  BY <1>19 DEF Crash, Fresh, NoWords, mainVars, faultVars
<1>20. CASE Restart
  BY <1>20 DEF Restart, Fresh, NoWords, mainVars, faultVars
<1>21. CASE UNCHANGED vars
  BY <1>21 DEF vars, mainVars, faultVars
<1> QED
  BY <1>1, <1>2, <1>3, <1>4, <1>5, <1>6, <1>7, <1>8, <1>9, <1>10, <1>11, <1>12, <1>13,
     <1>14, <1>15, <1>16, <1>17, <1>18, <1>19, <1>20, <1>21
     DEF Next, Begin, Handle, Call, Work

LEMMA WorkerStep ==
  ASSUME MainTypes, WorkerTypes, wpc # "free" => answered < ran, [Next]_vars
  PROVE  WorkerTypes'
<1> USE DEF WorkerTypes, Words, WorkerSteps
<1>1. ASSUME NEW kind \in {"begin", "single"}, Start(kind) PROVE WorkerTypes'
  BY <1>1 DEF Start, sharedVars, workerVars
<1>2. ASSUME NEW kind \in {"write", "commit"}, Proceed(kind) PROVE WorkerTypes'
  BY <1>2 DEF Proceed, sharedVars, workerVars
<1>3. CASE HandlerThrows
  BY <1>3 DEF HandlerThrows, Continue, AfterThrow, sharedVars, workerVars
<1>4. CASE Clear
  BY <1>4 DEF Clear, sharedVars, workerVars
<1>5. CASE Fill
  BY <1>5 DEF Fill, sharedVars, workerVars
<1>6. CASE Post
  <2>1. [op |-> op, kind |-> stmt,
         write |-> IF stmt \in {"write", "single"} THEN wrote[op] ELSE 0] \in Message
    BY <1>6, BridgeAssumption DEF Post, Message, MainTypes, Kinds
  <2>2. sent' \in Seq(Message) /\ Len(sent') = Len(sent) + 1
    BY <1>6, <2>1 DEF Post
  <2> QED BY <1>6, <2>2 DEF Post, sharedVars, workerVars
<1>7. CASE Wait
  BY <1>7 DEF Wait, sharedVars, workerVars
<1>8. CASE ReadStatus
  BY <1>8 DEF ReadStatus, sharedVars, workerVars
<1>9. CASE ReadLength
  BY <1>9 DEF ReadLength, sharedVars, workerVars
<1>10. ASSUME NEW returned \in BOOLEAN, Decode(returned) PROVE WorkerTypes'
  BY <1>10 DEF Decode, Continue, AfterThrow, AfterAnswer, sharedVars, workerVars
<1>11. CASE Timeout
  BY <1>11 DEF Timeout, Continue, AfterThrow, sharedVars, workerVars
<1>12. ASSUME NEW succeeds \in BOOLEAN, Execute(succeeds) PROVE WorkerTypes'
  BY <1>12 DEF Execute, Message, sharedVars, workerVars
<1>13. CASE Erase
  BY <1>13 DEF Erase, Answer, sharedVars, workerVars
<1>14. CASE WriteBody
  BY <1>14 DEF WriteBody, Answer, sharedVars, workerVars
<1>15. CASE StoreLength
  BY <1>15 DEF StoreLength, Answer, sharedVars, workerVars
<1>16. CASE StoreStatus
  BY <1>16 DEF StoreStatus, Answer, sharedVars, workerVars
<1>17. CASE Notify
  BY <1>17 DEF Notify, Answer, sharedVars, workerVars
<1>18. CASE WorkerDies
  BY <1>18 DEF WorkerDies, sharedVars, workerVars
<1>19. CASE Crash
  BY <1>19 DEF Crash, Fresh, NoWords, sharedVars, workerVars
<1>20. CASE Restart
  BY <1>20 DEF Restart, Fresh, NoWords, sharedVars, workerVars
<1>21. CASE UNCHANGED vars
  BY <1>21 DEF vars, sharedVars, workerVars
<1> QED
  BY <1>1, <1>2, <1>3, <1>4, <1>5, <1>6, <1>7, <1>8, <1>9, <1>10, <1>11, <1>12, <1>13,
     <1>14, <1>15, <1>16, <1>17, <1>18, <1>19, <1>20, <1>21
     DEF Next, Begin, Handle, Call, Work

LEMMA StoreStep ==
  ASSUME WorkerTypes, StoreTypes, [Next]_vars
  PROVE  StoreTypes'
<1> USE DEF StoreTypes
<1>1. ASSUME NEW kind \in {"begin", "single"}, Start(kind) PROVE StoreTypes'
  BY <1>1 DEF Start, dbVars
<1>2. ASSUME NEW kind \in {"write", "commit"}, Proceed(kind) PROVE StoreTypes'
  BY <1>2 DEF Proceed, dbVars
<1>3. CASE HandlerThrows
  BY <1>3 DEF HandlerThrows, Continue, AfterThrow, dbVars
<1>4. CASE Clear
  BY <1>4 DEF Clear, dbVars
<1>5. CASE Fill
  BY <1>5 DEF Fill, dbVars
<1>6. CASE Post
  BY <1>6 DEF Post, dbVars
<1>7. CASE Wait
  BY <1>7 DEF Wait, dbVars
<1>8. CASE ReadStatus
  BY <1>8 DEF ReadStatus, dbVars
<1>9. CASE ReadLength
  BY <1>9 DEF ReadLength, dbVars
<1>10. ASSUME NEW returned \in BOOLEAN, Decode(returned) PROVE StoreTypes'
  BY <1>10 DEF Decode, Continue, AfterThrow, AfterAnswer, dbVars
<1>11. CASE Timeout
  BY <1>11 DEF Timeout, Continue, AfterThrow, dbVars
<1>12. ASSUME NEW succeeds \in BOOLEAN, Execute(succeeds) PROVE StoreTypes'
  <2> DEFINE m == sent[ran + 1]
  <2>1. <<m.op, m.write>> \in Ops \X Nat
    <3>1. ran + 1 \in 1..Len(sent)
      BY <1>12 DEF Execute, WorkerTypes
    <3>2. m \in Message
      BY <3>1 DEF WorkerTypes
    <3> QED BY <3>2 DEF Message
  <2>2. tx' \in {"idle", "open", "aborted"}
    BY <1>12 DEF Execute
  <2>3. staged' \subseteq Ops \X Nat
    BY <1>12, <2>1 DEF Execute
  <2>4. stored' \subseteq Ops \X Nat
    BY <1>12, <2>1 DEF Execute
  <2> QED BY <2>2, <2>3, <2>4
<1>13. CASE Erase
  BY <1>13 DEF Erase, Answer, dbVars
<1>14. CASE WriteBody
  BY <1>14 DEF WriteBody, Answer, dbVars
<1>15. CASE StoreLength
  BY <1>15 DEF StoreLength, Answer, dbVars
<1>16. CASE StoreStatus
  BY <1>16 DEF StoreStatus, Answer, dbVars
<1>17. CASE Notify
  BY <1>17 DEF Notify, Answer, dbVars
<1>18. CASE WorkerDies
  BY <1>18 DEF WorkerDies, dbVars
<1>19. CASE Crash
  BY <1>19 DEF Crash, Fresh, NoWords, dbVars
<1>20. CASE Restart
  BY <1>20 DEF Restart, Fresh, NoWords, dbVars
<1>21. CASE UNCHANGED vars
  BY <1>21 DEF vars, dbVars
<1> QED
  BY <1>1, <1>2, <1>3, <1>4, <1>5, <1>6, <1>7, <1>8, <1>9, <1>10, <1>11, <1>12, <1>13,
     <1>14, <1>15, <1>16, <1>17, <1>18, <1>19, <1>20, <1>21
     DEF Next, Begin, Handle, Call, Work

LEMMA StepTypes ==
  ASSUME TypeOK, WorkerInv, [Next]_vars
  PROVE  TypeOK'
  BY MainStep, WorkerStep, StoreStep DEF TypeOK, WorkerInv

LEMMA MessagePosted ==
  ASSUME WorkerTypes, Post
  PROVE  Len(sent') = Len(sent) + 1
  BY DEF WorkerTypes, Post

-----------------------------------------------------------------------------
(* Each part of the invariant is kept by every step of either thread.      *)

LEMMA WorkerInvStep ==
  ASSUME MainTypes, WorkerTypes, WorkerInv, [Next]_vars
  PROVE  WorkerInv'
<1> USE DEF WorkerTypes, Words, WorkerSteps, MainTypes, MainSteps, Kinds, WorkerInv, Statuses, Taking
<1>1. ASSUME NEW kind \in {"begin", "single"}, Start(kind) PROVE WorkerInv'
  BY <1>1 DEF Start, sharedVars, workerVars, faultVars
<1>2. ASSUME NEW kind \in {"write", "commit"}, Proceed(kind) PROVE WorkerInv'
  BY <1>2 DEF Proceed, sharedVars, workerVars, faultVars
<1>3. CASE HandlerThrows
  BY <1>3 DEF HandlerThrows, Continue, AfterThrow, sharedVars, workerVars, faultVars
<1>4. CASE Clear
  BY <1>4 DEF Clear, workerVars, faultVars
<1>5. CASE Fill
  BY <1>5 DEF Fill, workerVars, faultVars
<1>6. CASE Post
  BY <1>6, MessagePosted DEF Post, sharedVars, workerVars, faultVars
<1>7. CASE Wait
  BY <1>7 DEF Wait, sharedVars, workerVars, faultVars
<1>8. CASE ReadStatus
  BY <1>8 DEF ReadStatus, sharedVars, workerVars, faultVars
<1>9. CASE ReadLength
  BY <1>9 DEF ReadLength, sharedVars, workerVars, faultVars
<1>10. ASSUME NEW returned \in BOOLEAN, Decode(returned) PROVE WorkerInv'
  BY <1>10 DEF Decode, Continue, AfterThrow, AfterAnswer, sharedVars, workerVars, faultVars
<1>11. CASE Timeout
  BY <1>11 DEF Timeout, Continue, AfterThrow, sharedVars, workerVars
<1>12. ASSUME NEW succeeds \in BOOLEAN, Execute(succeeds) PROVE WorkerInv'
  BY <1>12 DEF Execute, mainVars, sharedVars, faultVars
<1>13. CASE Erase
  BY <1>13 DEF Erase, Answer, mainVars, faultVars
<1>14. CASE WriteBody
  BY <1>14 DEF WriteBody, Answer, mainVars, faultVars
<1>15. CASE StoreLength
  BY <1>15 DEF StoreLength, Answer, mainVars, faultVars
<1>16. CASE StoreStatus
  BY <1>16 DEF StoreStatus, Answer, mainVars, faultVars
<1>17. CASE Notify
  BY <1>17 DEF Notify, Answer, sharedVars, faultVars
<1>18. CASE WorkerDies
  BY <1>18 DEF WorkerDies, mainVars, sharedVars, workerVars
<1>19. CASE Crash
  BY <1>19 DEF Crash, Fresh, NoWords
<1>20. CASE Restart
  BY <1>20 DEF Restart, Fresh, NoWords
<1>21. CASE UNCHANGED vars
  BY <1>21 DEF vars, mainVars, sharedVars, workerVars, faultVars
<1> QED
  BY <1>1, <1>2, <1>3, <1>4, <1>5, <1>6, <1>7, <1>8, <1>9, <1>10, <1>11, <1>12, <1>13,
     <1>14, <1>15, <1>16, <1>17, <1>18, <1>19, <1>20, <1>21
     DEF Next, Begin, Handle, Call, Work

LEMMA BehindStep ==
  ASSUME MainTypes, WorkerTypes, WorkerInv, Behind, [Next]_vars
  PROVE  Behind'
<1> USE DEF WorkerTypes, Words, WorkerSteps, MainTypes, MainSteps, Kinds, WorkerInv, Behind, Missed, Statuses, Taking, Posted
<1>1. ASSUME NEW kind \in {"begin", "single"}, Start(kind) PROVE Behind'
  BY <1>1 DEF Start, sharedVars, workerVars, faultVars
<1>2. ASSUME NEW kind \in {"write", "commit"}, Proceed(kind) PROVE Behind'
  BY <1>2 DEF Proceed, sharedVars, workerVars, faultVars
<1>3. CASE HandlerThrows
  BY <1>3 DEF HandlerThrows, Continue, AfterThrow, sharedVars, workerVars, faultVars
<1>4. CASE Clear
  BY <1>4 DEF Clear, workerVars, faultVars
<1>5. CASE Fill
  BY <1>5 DEF Fill, workerVars, faultVars
<1>6. CASE Post
  BY <1>6, MessagePosted DEF Post, sharedVars, workerVars, faultVars
<1>7. CASE Wait
  BY <1>7 DEF Wait, sharedVars, workerVars, faultVars
<1>8. CASE ReadStatus
  <2>1. pc = "status" /\ pc' = "length" /\ got'.status = control.status
    BY <1>8 DEF ReadStatus
  <2>2. UNCHANGED <<control, sent, answered, wpc, late>>
    BY <1>8 DEF ReadStatus, sharedVars, workerVars
  <2>3. early' = IF control.status = 0 THEN early + 1 ELSE early
    BY <1>8 DEF ReadStatus
  <2> QED BY <2>1, <2>2, <2>3
<1>9. CASE ReadLength
  BY <1>9 DEF ReadLength, sharedVars, workerVars, faultVars
<1>10. ASSUME NEW returned \in BOOLEAN, Decode(returned) PROVE Behind'
  BY <1>10 DEF Decode, Continue, AfterThrow, AfterAnswer, sharedVars, workerVars, faultVars
<1>11. CASE Timeout
  BY <1>11 DEF Timeout, Continue, AfterThrow, sharedVars, workerVars
<1>12. ASSUME NEW succeeds \in BOOLEAN, Execute(succeeds) PROVE Behind'
  BY <1>12 DEF Execute, mainVars, sharedVars, faultVars
<1>13. CASE Erase
  BY <1>13 DEF Erase, Answer, mainVars, faultVars
<1>14. CASE WriteBody
  BY <1>14 DEF WriteBody, Answer, mainVars, faultVars
<1>15. CASE StoreLength
  BY <1>15 DEF StoreLength, Answer, mainVars, faultVars
<1>16. CASE StoreStatus
  <2>1. wpc = "status" /\ wpc' = "notify" /\ control'.status = answered + 1
    BY <1>16 DEF StoreStatus, Answer
  <2>2. UNCHANGED <<pc, got, sent, answered, alive, late, early>> /\ alive
    BY <1>16 DEF StoreStatus, Answer, mainVars, faultVars
  <2>3. Statuses' = Statuses + 1 /\ Missed' = Missed
    BY <2>1, <2>2
  <2> HIDE DEF Statuses, Missed
  <2>4. Statuses \in Nat /\ Missed \in Nat /\ Len(sent) \in Nat
    BY DEF Statuses, Missed
  <2> QED BY <2>1, <2>2, <2>3, <2>4
<1>17. CASE Notify
  BY <1>17 DEF Notify, Answer, sharedVars, faultVars
<1>18. CASE WorkerDies
  BY <1>18 DEF WorkerDies, mainVars, sharedVars, workerVars
<1>19. CASE Crash
  BY <1>19 DEF Crash, Fresh, NoWords
<1>20. CASE Restart
  BY <1>20 DEF Restart, Fresh, NoWords
<1>21. CASE UNCHANGED vars
  BY <1>21 DEF vars, mainVars, sharedVars, workerVars, faultVars
<1> QED
  BY <1>1, <1>2, <1>3, <1>4, <1>5, <1>6, <1>7, <1>8, <1>9, <1>10, <1>11, <1>12, <1>13,
     <1>14, <1>15, <1>16, <1>17, <1>18, <1>19, <1>20, <1>21
     DEF Next, Begin, Handle, Call, Work

LEMMA InStepStep ==
  ASSUME MainTypes, WorkerTypes, WorkerInv, InStep, [Next]_vars
  PROVE  InStep'
<1> USE DEF WorkerTypes, Words, WorkerSteps, MainTypes, MainSteps, Kinds, WorkerInv, InStep, Statuses, Taking
<1>1. ASSUME NEW kind \in {"begin", "single"}, Start(kind) PROVE InStep'
  BY <1>1 DEF Start, sharedVars, workerVars, faultVars
<1>2. ASSUME NEW kind \in {"write", "commit"}, Proceed(kind) PROVE InStep'
  BY <1>2 DEF Proceed, sharedVars, workerVars, faultVars
<1>3. CASE HandlerThrows
  BY <1>3 DEF HandlerThrows, Continue, AfterThrow, sharedVars, workerVars, faultVars
<1>4. CASE Clear
  BY <1>4 DEF Clear, workerVars, faultVars
<1>5. CASE Fill
  BY <1>5 DEF Fill, workerVars, faultVars
<1>6. CASE Post
  BY <1>6, MessagePosted DEF Post, sharedVars, workerVars, faultVars
<1>7. CASE Wait
  BY <1>7 DEF Wait, sharedVars, workerVars, faultVars
<1>8. CASE ReadStatus
  BY <1>8 DEF ReadStatus, sharedVars, workerVars, faultVars
<1>9. CASE ReadLength
  BY <1>9 DEF ReadLength, sharedVars, workerVars, faultVars
<1>10. ASSUME NEW returned \in BOOLEAN, Decode(returned) PROVE InStep'
  BY <1>10 DEF Decode, Continue, AfterThrow, AfterAnswer, sharedVars, workerVars, faultVars
<1>11. CASE Timeout
  BY <1>11 DEF Timeout, Continue, AfterThrow, sharedVars, workerVars
<1>12. ASSUME NEW succeeds \in BOOLEAN, Execute(succeeds) PROVE InStep'
  BY <1>12 DEF Execute, mainVars, sharedVars, faultVars
<1>13. CASE Erase
  BY <1>13 DEF Erase, Answer, mainVars, faultVars
<1>14. CASE WriteBody
  BY <1>14 DEF WriteBody, Answer, mainVars, faultVars
<1>15. CASE StoreLength
  BY <1>15 DEF StoreLength, Answer, mainVars, faultVars
<1>16. CASE StoreStatus
  BY <1>16 DEF StoreStatus, Answer, mainVars, faultVars
<1>17. CASE Notify
  BY <1>17 DEF Notify, Answer, sharedVars, faultVars
<1>18. CASE WorkerDies
  BY <1>18 DEF WorkerDies, mainVars, sharedVars, workerVars
<1>19. CASE Crash
  BY <1>19 DEF Crash, Fresh, NoWords
<1>20. CASE Restart
  BY <1>20 DEF Restart, Fresh, NoWords
<1>21. CASE UNCHANGED vars
  BY <1>21 DEF vars, mainVars, sharedVars, workerVars, faultVars
<1> QED
  BY <1>1, <1>2, <1>3, <1>4, <1>5, <1>6, <1>7, <1>8, <1>9, <1>10, <1>11, <1>12, <1>13,
     <1>14, <1>15, <1>16, <1>17, <1>18, <1>19, <1>20, <1>21
     DEF Next, Begin, Handle, Call, Work

LEMMA BytesStep ==
  ASSUME MainTypes, WorkerTypes, WorkerInv, Behind, InStep, Bytes, [Next]_vars
  PROVE  Bytes'
<1> USE DEF WorkerTypes, Words, WorkerSteps, MainTypes, MainSteps, Kinds, WorkerInv, Behind, InStep, Bytes, Missed, Punctual, Statuses, Lengths, Bodies, Taking, Posted
<1>1. ASSUME NEW kind \in {"begin", "single"}, Start(kind) PROVE Bytes'
  BY <1>1 DEF Start, sharedVars, workerVars, faultVars
<1>2. ASSUME NEW kind \in {"write", "commit"}, Proceed(kind) PROVE Bytes'
  BY <1>2 DEF Proceed, sharedVars, workerVars, faultVars
<1>3. CASE HandlerThrows
  BY <1>3 DEF HandlerThrows, Continue, AfterThrow, sharedVars, workerVars, faultVars
<1>4. CASE Clear
  BY <1>4 DEF Clear, workerVars, faultVars
<1>5. CASE Fill
  BY <1>5 DEF Fill, workerVars, faultVars
<1>6. CASE Post
  BY <1>6, MessagePosted DEF Post, sharedVars, workerVars, faultVars
<1>7. CASE Wait
  BY <1>7 DEF Wait, sharedVars, workerVars, faultVars
<1>8. CASE ReadStatus
  <2>1. pc = "status" /\ pc' = "length" /\ got'.status = control.status
    BY <1>8 DEF ReadStatus
  <2>2. UNCHANGED <<control, data, sent, answered, wpc, late, quiet>>
    BY <1>8 DEF ReadStatus, sharedVars, workerVars
  <2>3. early' = IF control.status = 0 THEN early + 1 ELSE early
    BY <1>8 DEF ReadStatus
  <2>4. Punctual' \/ quiet => control.status # 0
    BY <2>1, <2>3
  <2>5. Punctual' \/ quiet => Statuses = Len(sent)
    <3>1. Statuses <= Len(sent)
      OBVIOUS
    <3>2. Punctual' => Len(sent) <= Statuses
      BY <2>1, <2>2, <2>3, <2>4
    <3> QED BY <2>1, <3>1, <3>2
  <2>6. Punctual' \/ quiet' => got'.status = Len(sent)
    BY <2>1, <2>2, <2>4, <2>5
  <2> QED BY <2>1, <2>2, <2>6
<1>9. CASE ReadLength
  <2>1. pc = "length" /\ pc' = "body" /\ got'.length = control.length /\ got'.status = got.status
    BY <1>9 DEF ReadLength
  <2>2. UNCHANGED <<control, data, sent, answered, wpc, late, early, quiet>>
    BY <1>9 DEF ReadLength, sharedVars, workerVars, faultVars
  <2>3. Punctual \/ quiet => Statuses = Len(sent)
    <3>1. Statuses <= Len(sent)
      OBVIOUS
    <3>2. Punctual => Len(sent) <= Statuses
      BY <2>1
    <3> QED BY <2>1, <3>1, <3>2
  <2>4. Punctual \/ quiet => Lengths = Len(sent)
    BY <2>3
  <2>5. Punctual \/ quiet => got'.length = Len(sent)
    BY <2>1, <2>4
  <2> QED BY <2>1, <2>2, <2>5
<1>10. ASSUME NEW returned \in BOOLEAN, Decode(returned) PROVE Bytes'
  BY <1>10 DEF Decode, Continue, AfterThrow, AfterAnswer, sharedVars, workerVars, faultVars
<1>11. CASE Timeout
  BY <1>11 DEF Timeout, Continue, AfterThrow, sharedVars, workerVars
<1>12. ASSUME NEW succeeds \in BOOLEAN, Execute(succeeds) PROVE Bytes'
  BY <1>12 DEF Execute, mainVars, sharedVars, faultVars
<1>13. CASE Erase
  BY <1>13 DEF Erase, Answer, mainVars, faultVars
<1>14. CASE WriteBody
  BY <1>14 DEF WriteBody, Answer, mainVars, faultVars
<1>15. CASE StoreLength
  BY <1>15 DEF StoreLength, Answer, mainVars, faultVars
<1>16. CASE StoreStatus
  BY <1>16 DEF StoreStatus, Answer, mainVars, faultVars
<1>17. CASE Notify
  BY <1>17 DEF Notify, Answer, sharedVars, faultVars
<1>18. CASE WorkerDies
  BY <1>18 DEF WorkerDies, mainVars, sharedVars, workerVars
<1>19. CASE Crash
  BY <1>19 DEF Crash, Fresh, NoWords
<1>20. CASE Restart
  BY <1>20 DEF Restart, Fresh, NoWords
<1>21. CASE UNCHANGED vars
  BY <1>21 DEF vars, mainVars, sharedVars, workerVars, faultVars
<1> QED
  BY <1>1, <1>2, <1>3, <1>4, <1>5, <1>6, <1>7, <1>8, <1>9, <1>10, <1>11, <1>12, <1>13,
     <1>14, <1>15, <1>16, <1>17, <1>18, <1>19, <1>20, <1>21
     DEF Next, Begin, Handle, Call, Work

-----------------------------------------------------------------------------
LEMMA InitInv == Init => BridgeInv
  BY InitTypes DEF Init, BridgeInv, Behind, InStep, Bytes, Missed, Punctual, Statuses, Lengths, Bodies,
     Posted, Taking, MainSteps, NoWords

LEMMA NextInv ==
  ASSUME BridgeInv, [Next]_vars
  PROVE  BridgeInv'
  BY StepTypes, WorkerInvStep, BehindStep, InStepStep, BytesStep DEF BridgeInv, TypeOK

LEMMA AnswerIsOwn == BridgeInv => OwnAnswer
  BY DEF BridgeInv, TypeOK, WorkerTypes, MainTypes, Behind, InStep, Bytes, Missed, Punctual, WorkerInv,
     OwnAnswer, Statuses, Bodies, Posted, Taking

(* The inductive invariant of the bridge holds in every reachable state. *)
THEOREM BridgeInvariant == Spec => []BridgeInv
<1>1. Init => BridgeInv
  BY InitInv
<1>2. BridgeInv /\ [Next]_vars => BridgeInv'
  BY NextInv
<1> QED BY <1>1, <1>2, PTL DEF Spec

(* Either thread keeps every variable in its range. *)
THEOREM BridgeTypes == Spec => []TypeOK
<1>1. BridgeInv => TypeOK
  BY DEF BridgeInv
<1> QED BY <1>1, BridgeInvariant, PTL

(* However the two threads interleave, a call takes its own whole answer    *)
(* while no call of the process timed out or was woken early, and after     *)
(* these a call that begins with nothing owed does so again.                *)
THEOREM AnswersOwned == Spec => []OwnAnswer
<1>1. BridgeInv => OwnAnswer
  BY AnswerIsOwn
<1> QED BY <1>1, BridgeInvariant, PTL

(* After any number of timeouts and early wake-ups no call is further       *)
(* behind than they are.                                                    *)
THEOREM DriftIsBounded == Spec => []DriftBounded
<1>1. BridgeInv => DriftBounded
  BY DEF BridgeInv, Behind, Missed, DriftBounded, TypeOK, MainTypes, WorkerTypes, Words
<1> QED BY <1>1, BridgeInvariant, PTL
-----------------------------------------------------------------------------
(* The promise of transaction(). As long as every call waited for its       *)
(* answer and no worker died, the connection is where the main thread      *)
(* believes it to be.                                                       *)

Calm == Punctual /\ deaths = 0

(* Operations are begun one after the other, whatever fails. *)
Turns ==
  /\ pc # "idle" => outcome[op] = "none"
  /\ \A o \in Ops : o < op \/ (o = op /\ pc = "idle") => outcome[o] # "none"
  /\ \A o \in Ops : o > op => outcome[o] = "none" /\ wrote[o] = 0

(* Nothing is sent or written for an operation that has not begun. *)
Owners ==
  /\ \A i \in 1..Len(sent) : sent[i].op <= op
  /\ staged \cup stored \subseteq (1..op) \X (0..NumWrites)
  /\ ~alive => deaths > 0

LastMessage == [op |-> op, kind |-> stmt,
                write |-> IF stmt \in {"write", "single"} THEN wrote[op] ELSE 0]
Asked(n) == {op} \X (1..n)

\* The connection between two statements of a transaction, and outside one.
Open(n) == tx = "open" /\ staged = Asked(n) /\ Effect(op) = {}
Closed == tx = "idle" /\ staged = {}

\* Before statement stmt runs, after it has succeeded, and after it has failed.
Before ==
  /\ stmt = "begin" => Closed /\ Effect(op) = {} /\ wrote[op] = 0
  /\ stmt = "single" => Closed /\ Effect(op) = {} /\ wrote[op] = 1
  /\ stmt = "write" => Open(wrote[op] - 1) /\ wrote[op] > 0
  /\ stmt = "commit" => Open(wrote[op])
  /\ stmt = "rollback" => Effect(op) = {}
Done ==
  /\ stmt \in {"begin", "write"} => Open(wrote[op])
  /\ stmt \in {"single", "commit"} => Closed /\ Effect(op) = 1..wrote[op]
  /\ stmt = "rollback" => Closed /\ Effect(op) = {}
Failed ==
  /\ stmt \in {"single", "write"}
  /\ Effect(op) = {}
  /\ stmt = "single" => Closed

InHand ==
  Calm =>
    /\ pc = "idle" => Closed
    /\ pc = "handler" => Open(wrote[op])
    /\ pc \in {"clear", "fill", "post"} => Before
    /\ pc \in Posted => Len(sent) > 0 /\ sent[Len(sent)] = LastMessage
    /\ pc \in Posted /\ ran < Len(sent) => Before
    /\ pc \in Posted /\ ran = Len(sent) => IF ran \in good THEN Done ELSE Failed

AtomicInv == Turns /\ Owners /\ InHand

LEMMA InitAtomic == Init => AtomicInv
  BY DEF Init, AtomicInv, Turns, Owners, InHand, Closed, Posted, Ops

LEMMA TurnsStep ==
  ASSUME MainTypes, Turns, [Next]_vars
  PROVE  Turns'
<1> USE BridgeAssumption DEF MainTypes, MainSteps, Kinds, Ops, Turns
<1>1. ASSUME NEW kind \in {"begin", "single"}, Start(kind) PROVE Turns'
  BY <1>1 DEF Start, mainVars, sharedVars, workerVars, dbVars, faultVars
<1>2. ASSUME NEW kind \in {"write", "commit"}, Proceed(kind) PROVE Turns'
  BY <1>2 DEF Proceed, mainVars, sharedVars, workerVars, dbVars, faultVars
<1>3. CASE HandlerThrows
  BY <1>3 DEF HandlerThrows, Continue, AfterThrow, mainVars, sharedVars, workerVars, dbVars, faultVars
<1>4. CASE Clear
  BY <1>4 DEF Clear, mainVars, sharedVars, workerVars, dbVars, faultVars
<1>5. CASE Fill
  BY <1>5 DEF Fill, mainVars, sharedVars, workerVars, dbVars, faultVars
<1>6. CASE Post
  BY <1>6 DEF Post, mainVars, sharedVars, workerVars, dbVars, faultVars
<1>7. CASE Wait
  BY <1>7 DEF Wait, mainVars, sharedVars, workerVars, dbVars, faultVars
<1>8. CASE ReadStatus
  BY <1>8 DEF ReadStatus, mainVars, sharedVars, workerVars, dbVars, faultVars
<1>9. CASE ReadLength
  BY <1>9 DEF ReadLength, mainVars, sharedVars, workerVars, dbVars, faultVars
<1>10. ASSUME NEW returned \in BOOLEAN, Decode(returned) PROVE Turns'
  BY <1>10 DEF Decode, Continue, AfterThrow, AfterAnswer, mainVars, sharedVars, workerVars, dbVars, faultVars
<1>11. CASE Timeout
  BY <1>11 DEF Timeout, Continue, AfterThrow, mainVars, sharedVars, workerVars, dbVars, faultVars
<1>12. ASSUME NEW succeeds \in BOOLEAN, Execute(succeeds) PROVE Turns'
  BY <1>12 DEF Execute, mainVars, sharedVars, workerVars, dbVars, faultVars
<1>13. CASE Erase
  BY <1>13 DEF Erase, Answer, mainVars, sharedVars, workerVars, dbVars, faultVars
<1>14. CASE WriteBody
  BY <1>14 DEF WriteBody, Answer, mainVars, sharedVars, workerVars, dbVars, faultVars
<1>15. CASE StoreLength
  BY <1>15 DEF StoreLength, Answer, mainVars, sharedVars, workerVars, dbVars, faultVars
<1>16. CASE StoreStatus
  BY <1>16 DEF StoreStatus, Answer, mainVars, sharedVars, workerVars, dbVars, faultVars
<1>17. CASE Notify
  BY <1>17 DEF Notify, Answer, mainVars, sharedVars, workerVars, dbVars, faultVars
<1>18. CASE WorkerDies
  BY <1>18 DEF WorkerDies, mainVars, sharedVars, workerVars, dbVars, faultVars
<1>19. CASE Crash
  BY <1>19 DEF Crash, Fresh, NoWords, mainVars, sharedVars, workerVars, dbVars, faultVars
<1>20. CASE Restart
  BY <1>20 DEF Restart, Fresh, NoWords, mainVars, sharedVars, workerVars, dbVars, faultVars
<1>21. CASE UNCHANGED vars
  BY <1>21 DEF vars, mainVars, sharedVars, workerVars, dbVars, faultVars
<1> QED
  BY <1>1, <1>2, <1>3, <1>4, <1>5, <1>6, <1>7, <1>8, <1>9, <1>10, <1>11, <1>12, <1>13,
     <1>14, <1>15, <1>16, <1>17, <1>18, <1>19, <1>20, <1>21
     DEF Next, Begin, Handle, Call, Work

\* The messages of the operations begun so far are those of the ones begun when one more starts.
LEMMA OwnedByTheNext ==
  ASSUME sent \in Seq(Message), op \in Nat, op' = op + 1,
         \A i \in 1..Len(sent) : sent[i].op <= op
  PROVE  \A i \in 1..Len(sent) : sent[i].op <= op'
<1>1. \A i \in 1..Len(sent) : sent[i] \in Message
  OBVIOUS
<1>2. \A i \in 1..Len(sent) : sent[i].op \in Nat
  BY <1>1 DEF Message, Ops
<1> QED BY <1>2

LEMMA OwnersStep ==
  ASSUME TypeOK, Owners, [Next]_vars
  PROVE  Owners'
<1> USE BridgeAssumption DEF TypeOK, MainTypes, WorkerTypes, StoreTypes, MainSteps, Kinds, Ops, Owners
<1>1. ASSUME NEW kind \in {"begin", "single"}, Start(kind) PROVE Owners'
  <2>1. op' = op + 1 /\ UNCHANGED <<sent, staged, stored, alive, deaths>>
    BY <1>1 DEF Start, dbVars, faultVars
  <2>2. (1..op) \X (0..NumWrites) \subseteq (1..op') \X (0..NumWrites)
    BY <2>1
  <2>3. \A i \in 1..Len(sent) : sent[i].op <= op'
    <3>1. sent \in Seq(Message) /\ op \in Nat /\ \A i \in 1..Len(sent) : sent[i].op <= op
      OBVIOUS
    <3> QED BY ONLY <2>1, <3>1, OwnedByTheNext
  <2> QED BY <2>1, <2>2, <2>3
<1>2. ASSUME NEW kind \in {"write", "commit"}, Proceed(kind) PROVE Owners'
  BY <1>2 DEF Proceed, mainVars, sharedVars, workerVars, dbVars, faultVars
<1>3. CASE HandlerThrows
  BY <1>3 DEF HandlerThrows, Continue, AfterThrow, mainVars, sharedVars, workerVars, dbVars, faultVars
<1>4. CASE Clear
  BY <1>4 DEF Clear, mainVars, sharedVars, workerVars, dbVars, faultVars
<1>5. CASE Fill
  BY <1>5 DEF Fill, mainVars, sharedVars, workerVars, dbVars, faultVars
<1>6. CASE Post
  <2>1. UNCHANGED <<op, staged, stored, alive, deaths>> /\ sent' = Append(sent, LastMessage)
    BY <1>6 DEF Post, dbVars, faultVars, LastMessage
  <2>2. \A i \in 1..Len(sent') : sent'[i] = IF i = Len(sent) + 1 THEN LastMessage ELSE sent[i]
    BY <2>1
  <2>3. \A i \in 1..Len(sent') : sent'[i].op <= op
    BY <2>1, <2>2 DEF LastMessage
  <2> QED BY <2>1, <2>3
<1>7. CASE Wait
  BY <1>7 DEF Wait, mainVars, sharedVars, workerVars, dbVars, faultVars
<1>8. CASE ReadStatus
  BY <1>8 DEF ReadStatus, mainVars, sharedVars, workerVars, dbVars, faultVars
<1>9. CASE ReadLength
  BY <1>9 DEF ReadLength, mainVars, sharedVars, workerVars, dbVars, faultVars
<1>10. ASSUME NEW returned \in BOOLEAN, Decode(returned) PROVE Owners'
  BY <1>10 DEF Decode, Continue, AfterThrow, AfterAnswer, mainVars, sharedVars, workerVars, dbVars, faultVars
<1>11. CASE Timeout
  BY <1>11 DEF Timeout, Continue, AfterThrow, mainVars, sharedVars, workerVars, dbVars, faultVars
<1>12. ASSUME NEW succeeds \in BOOLEAN, Execute(succeeds) PROVE Owners'
  <2> DEFINE m == sent[ran + 1]
  <2>1. ran + 1 \in 1..Len(sent)
    BY <1>12 DEF Execute
  <2>2. m \in Message /\ m.op <= op
    BY <2>1
  <2>3. <<m.op, m.write>> \in (1..op) \X (0..NumWrites)
    BY <2>2 DEF Message
  <2>4. staged' \subseteq (1..op) \X (0..NumWrites)
    BY <1>12, <2>3 DEF Execute
  <2>5. stored' \subseteq (1..op) \X (0..NumWrites)
    BY <1>12, <2>3 DEF Execute
  <2> QED BY <1>12, <2>4, <2>5 DEF Execute, mainVars, faultVars
<1>13. CASE Erase
  BY <1>13 DEF Erase, Answer, mainVars, sharedVars, workerVars, dbVars, faultVars
<1>14. CASE WriteBody
  BY <1>14 DEF WriteBody, Answer, mainVars, sharedVars, workerVars, dbVars, faultVars
<1>15. CASE StoreLength
  BY <1>15 DEF StoreLength, Answer, mainVars, sharedVars, workerVars, dbVars, faultVars
<1>16. CASE StoreStatus
  BY <1>16 DEF StoreStatus, Answer, mainVars, sharedVars, workerVars, dbVars, faultVars
<1>17. CASE Notify
  BY <1>17 DEF Notify, Answer, mainVars, sharedVars, workerVars, dbVars, faultVars
<1>18. CASE WorkerDies
  BY <1>18 DEF WorkerDies, mainVars, sharedVars, workerVars, dbVars, faultVars
<1>19. CASE Crash
  BY <1>19 DEF Crash, Fresh, NoWords, mainVars, sharedVars, workerVars, dbVars, faultVars
<1>20. CASE Restart
  BY <1>20 DEF Restart, Fresh, NoWords, mainVars, sharedVars, workerVars, dbVars, faultVars
<1>21. CASE UNCHANGED vars
  BY <1>21 DEF vars, mainVars, sharedVars, workerVars, dbVars, faultVars
<1> QED
  BY <1>1, <1>2, <1>3, <1>4, <1>5, <1>6, <1>7, <1>8, <1>9, <1>10, <1>11, <1>12, <1>13,
     <1>14, <1>15, <1>16, <1>17, <1>18, <1>19, <1>20, <1>21
     DEF Next, Begin, Handle, Call, Work

-----------------------------------------------------------------------------
(* As long as no call ended early, every statement but that of the call in progress *)
(* has run, and the call takes the answer of its own.                      *)
LEMMA AllRan ==
  ASSUME BridgeInv, Owners, Calm
  PROVE  /\ alive
         /\ pc \notin {"wait", "asleep", "status"} => ran = Len(sent)
         /\ Len(sent) <= ran + 1
         /\ pc = "body" => got.status = Len(sent) /\ Whole
  BY DEF BridgeInv, TypeOK, MainTypes, WorkerTypes, WorkerInv, Behind, InStep, Bytes, Missed, Punctual, Owners, Calm,
     Statuses, Lengths, Bodies, Posted, Taking, MainSteps, Whole

(* What the connection makes of the statement of a call. *)
LEMMA StatementRun ==
  ASSUME BridgeInv, Owners, Before, NEW succeeds \in BOOLEAN, Execute(succeeds), op \in Ops,
         sent[ran + 1] = LastMessage
  PROVE  IF succeeds THEN Done' ELSE Failed'
<1> DEFINE w == <<op, wrote[op]>>
<1> USE DEF BridgeInv, TypeOK, MainTypes, StoreTypes, Kinds, LastMessage
<1>1. UNCHANGED <<op, stmt, wrote>>
  BY DEF Execute, mainVars
<1>2. CASE stmt = "begin"
  BY <1>1, <1>2 DEF Execute, Before, Done, Failed, Open, Closed, Effect, Asked
<1>3. CASE stmt = "single"
  <2>1. ~succeeds => stored' = stored /\ tx' = "idle" /\ staged' = {}
    BY <1>3 DEF Execute, Before, Closed
  <2>2. succeeds => stored' = stored \cup {w} /\ tx' = "idle" /\ staged' = {}
    BY <1>3 DEF Execute, Before, Closed
  <2> QED BY <1>1, <1>3, <2>1, <2>2, BridgeAssumption DEF Before, Done, Failed, Closed, Effect
<1>4. CASE stmt = "write"
  <2>1. ~succeeds => stored' = stored
    BY <1>4 DEF Execute, Before, Open
  <2>2. succeeds => stored' = stored /\ tx' = "open" /\ staged' = staged \cup {w}
    <3> DEFINE m == sent[ran + 1]
    <3>1. tx = "open" /\ m.kind = "write" /\ m.op = op /\ m.write = wrote[op]
      BY <1>4 DEF Before, Open
    <3> HIDE DEF LastMessage
    <3>2. succeeds => tx' = "open"
      BY <3>1 DEF Execute
    <3>3. succeeds => staged' = staged \cup {<<m.op, m.write>>}
      BY <3>1 DEF Execute
    <3>4. stored' = stored
      BY <3>1 DEF Execute
    <3> QED BY <3>1, <3>2, <3>3, <3>4
  <2>3. Asked(wrote[op] - 1) \cup {w} = Asked(wrote[op])
    BY <1>4 DEF Before, Asked
  <2> QED BY <1>1, <1>4, <2>1, <2>2, <2>3 DEF Before, Done, Failed, Open, Effect, Asked
<1>5. CASE stmt = "commit"
  <2>1. succeeds /\ tx' = "idle" /\ staged' = {} /\ stored' = stored \cup Asked(wrote[op])
    BY <1>5 DEF Execute, Before, Open
  <2>2. Effect(op)' = 1..wrote[op]
    <3>1. wrote[op] \in 0..NumWrites
      BY <1>5
    <3>2. \A k \in 1..NumWrites : <<op, k>> \notin stored
      BY <1>5 DEF Before, Open, Effect
    <3>3. \A k \in 1..NumWrites : <<op, k>> \in stored' <=> k \in 1..wrote[op]
      BY <2>1, <3>2 DEF Asked
    <3> QED BY <1>1, <3>1, <3>3, BridgeAssumption DEF Effect
  <2> QED BY <1>1, <1>5, <2>1, <2>2 DEF Done, Closed
<1>6. CASE stmt = "rollback"
  <2>1. succeeds /\ tx' = "idle" /\ staged' = {} /\ stored' = stored
    BY <1>6 DEF Execute
  <2> QED BY <1>1, <1>6, <2>1 DEF Before, Done, Closed, Effect
<1> QED BY <1>2, <1>3, <1>4, <1>5, <1>6

LEMMA InHandStep ==
  ASSUME BridgeInv, AtomicInv, [Next]_vars
  PROVE  InHand'
<1> USE BridgeAssumption DEF BridgeInv, TypeOK, MainTypes, WorkerTypes, StoreTypes, MainSteps, Kinds, Ops, AtomicInv, Turns, Owners, InHand, Calm, Punctual, Posted, Before, Done, Failed, Open, Closed, Effect, Asked, LastMessage
<1>1. ASSUME NEW kind \in {"begin", "single"}, Start(kind) PROVE InHand'
  BY <1>1 DEF Start, mainVars, sharedVars, workerVars, dbVars, faultVars
<1>2. ASSUME NEW kind \in {"write", "commit"}, Proceed(kind) PROVE InHand'
  BY <1>2 DEF Proceed, mainVars, sharedVars, workerVars, dbVars, faultVars
<1>3. CASE HandlerThrows
  BY <1>3 DEF HandlerThrows, Continue, AfterThrow, mainVars, sharedVars, workerVars, dbVars, faultVars
<1>4. CASE Clear
  BY <1>4 DEF Clear, mainVars, sharedVars, workerVars, dbVars, faultVars
<1>5. CASE Fill
  BY <1>5 DEF Fill, mainVars, sharedVars, workerVars, dbVars, faultVars
<1>6. CASE Post
  BY <1>6 DEF Post, mainVars, sharedVars, workerVars, dbVars, faultVars
<1>7. CASE Wait
  BY <1>7 DEF Wait, mainVars, sharedVars, workerVars, dbVars, faultVars
<1>8. CASE ReadStatus
  BY <1>8 DEF ReadStatus, mainVars, sharedVars, workerVars, dbVars, faultVars
<1>9. CASE ReadLength
  BY <1>9 DEF ReadLength, mainVars, sharedVars, workerVars, dbVars, faultVars
<1>10. ASSUME NEW returned \in BOOLEAN, Decode(returned) PROVE InHand'
  <2>1. Calm' <=> Calm
    BY <1>10 DEF Decode, faultVars
  <2> SUFFICES ASSUME Calm PROVE InHand'
    BY <2>1
  <2>2. pc = "body" /\ ran = Len(sent) /\ ran > 0 /\ got.status = ran /\ Whole
    BY <1>10, AllRan DEF Decode
  <2>3. returned <=> ran \in good
    BY <1>10, <2>2 DEF Decode, Succeeded
  <2>4. IF returned THEN Done ELSE Failed
    BY <2>2, <2>3
  <2>5. UNCHANGED <<op, wrote, sent, tx, staged, stored>>
    BY <1>10 DEF Decode, dbVars
  <2>6. CASE returned
    BY <1>10, <2>4, <2>5, <2>6 DEF Decode, Continue, AfterAnswer
  <2>7. CASE ~returned
    BY <1>10, <2>4, <2>5, <2>7 DEF Decode, Continue, AfterThrow
  <2> QED BY <2>6, <2>7
<1>11. CASE Timeout
  BY <1>11 DEF Timeout, Continue, AfterThrow, mainVars, sharedVars, workerVars, dbVars, faultVars
<1>12. ASSUME NEW succeeds \in BOOLEAN, Execute(succeeds) PROVE InHand'
  <2>1. Calm' <=> Calm
    BY <1>12 DEF Execute, faultVars
  <2> SUFFICES ASSUME Calm PROVE InHand'
    BY <2>1
  <2>2. pc \in {"wait", "asleep", "status"} /\ ran + 1 = Len(sent) /\ alive
    BY <1>12, AllRan DEF Execute
  <2>3. sent[ran + 1] = LastMessage /\ Before
    BY <2>2
  <2>4. ran' = Len(sent) /\ (ran' \in good' <=> succeeds)
    BY <1>12, <2>2 DEF Execute
  <2>5. UNCHANGED <<op, pc, stmt, wrote, sent>>
    BY <1>12 DEF Execute, mainVars
  <2>6. IF succeeds THEN Done' ELSE Failed'
    BY <1>12, <2>2, <2>3, <2>5, StatementRun
  <2> QED BY <2>2, <2>3, <2>4, <2>5, <2>6
<1>13. CASE Erase
  BY <1>13 DEF Erase, Answer, mainVars, sharedVars, workerVars, dbVars, faultVars
<1>14. CASE WriteBody
  BY <1>14 DEF WriteBody, Answer, mainVars, sharedVars, workerVars, dbVars, faultVars
<1>15. CASE StoreLength
  BY <1>15 DEF StoreLength, Answer, mainVars, sharedVars, workerVars, dbVars, faultVars
<1>16. CASE StoreStatus
  BY <1>16 DEF StoreStatus, Answer, mainVars, sharedVars, workerVars, dbVars, faultVars
<1>17. CASE Notify
  BY <1>17 DEF Notify, Answer, mainVars, sharedVars, workerVars, dbVars, faultVars
<1>18. CASE WorkerDies
  BY <1>18 DEF WorkerDies, mainVars, sharedVars, workerVars, dbVars, faultVars
<1>19. CASE Crash
  BY <1>19 DEF Crash, Fresh, NoWords, mainVars, sharedVars, workerVars, dbVars, faultVars
<1>20. CASE Restart
  BY <1>20 DEF Restart, Fresh, NoWords, mainVars, sharedVars, workerVars, dbVars, faultVars
<1>21. CASE UNCHANGED vars
  BY <1>21 DEF vars, mainVars, sharedVars, workerVars, dbVars, faultVars
<1> QED
  BY <1>1, <1>2, <1>3, <1>4, <1>5, <1>6, <1>7, <1>8, <1>9, <1>10, <1>11, <1>12, <1>13,
     <1>14, <1>15, <1>16, <1>17, <1>18, <1>19, <1>20, <1>21
     DEF Next, Begin, Handle, Call, Work

-----------------------------------------------------------------------------
(* Every step of the bridge is a step of AtomicOperations, or of none of its *)
(* variables. Only three of them are more than the last: asking for a       *)
(* write, running the statement that makes writes durable, and the end.     *)
LEMMA InitPromise == Init => Promise!Init
  BY DEF Init, Promise!Init, Effect, Ops

LEMMA EndIsPromised ==
  ASSUME TypeOK, Turns, op \in Ops, pc # "idle", UNCHANGED <<wrote, stored>>,
         NEW end \in {"none", "ok", "failed", "lost"}, outcome' = [outcome EXCEPT ![op] = end],
         end = "ok" => Effect(op) = 1..wrote[op], end = "failed" => Effect(op) = {}
  PROVE  [Promise!Next]_(Promise!vars)
<1>1. Promise!InTurn(op)
  BY DEF TypeOK, MainTypes, Turns, Promise!InTurn, Ops
<1>2. UNCHANGED <<[o \in Ops |-> 1..wrote[o]], [o \in Ops |-> Effect(o)]>>
  BY DEF Effect
<1>3. CASE end = "none"
  <2>1. outcome' = outcome
    BY <1>3 DEF TypeOK, MainTypes, Turns
  <2> QED BY <1>2, <2>1 DEF Promise!vars
<1>4. CASE end = "ok"
  BY <1>1, <1>2, <1>4 DEF Promise!Next, Promise!Return
<1>5. CASE end = "failed"
  BY <1>1, <1>2, <1>5 DEF Promise!Next, Promise!Throw
<1>6. CASE end = "lost"
  BY <1>1, <1>2, <1>6 DEF Promise!Next, Promise!Lose
<1> QED BY <1>3, <1>4, <1>5, <1>6

LEMMA AskIsPromised ==
  ASSUME TypeOK, NEW o \in Ops, Promise!InTurn(o), Effect(o) = {}, wrote[o] < NumWrites,
         wrote' = [wrote EXCEPT ![o] = @ + 1], UNCHANGED <<outcome, stored>>
  PROVE  Promise!Next
<1> DEFINE w == wrote[o] + 1
<1>1. w \in 1..NumWrites
  BY BridgeAssumption DEF TypeOK, MainTypes
<1>2. \A p \in Ops : 1..wrote'[p] = IF p = o THEN (1..wrote[o]) \cup {w} ELSE 1..wrote[p]
  <2>1. wrote[o] \in Nat /\ wrote'[o] = w
    BY BridgeAssumption DEF TypeOK, MainTypes
  <2>2. 1..w = (1..wrote[o]) \cup {w}
    BY <2>1
  <2>3. \A p \in Ops : p # o => wrote'[p] = wrote[p]
    BY DEF TypeOK, MainTypes
  <2> QED BY <2>1, <2>2, <2>3
<1> HIDE DEF w
<1>3. [p \in Ops |-> 1..wrote[p]]' = [[p \in Ops |-> 1..wrote[p]] EXCEPT ![o] = @ \cup {w}]
  BY <1>2
<1>4. UNCHANGED [p \in Ops |-> Effect(p)]
  BY DEF Effect
<1>5. Promise!Ask(o, w)
  BY <1>3, <1>4 DEF Promise!Ask
<1>6. \E v \in 1..NumWrites : Promise!Ask(o, v)
  BY <1>1, <1>5 DEF Promise!Ask
<1> QED BY <1>6 DEF Promise!Next

LEMMA RunIsPromised ==
  ASSUME BridgeInv, AtomicInv, Calm, NEW succeeds \in BOOLEAN, Execute(succeeds)
  PROVE  [Promise!Next]_(Promise!vars)
<1>1. pc \in {"wait", "asleep", "status"} /\ op \in Ops /\ ran + 1 = Len(sent) /\ ran < Len(sent)
  <2>1. ran < Len(sent) /\ ran \in Nat /\ Len(sent) \in Nat
    BY DEF Execute, BridgeInv, TypeOK, WorkerTypes
  <2>2. /\ pc \notin {"wait", "asleep", "status"} => ran = Len(sent)
        /\ Len(sent) <= ran + 1
    BY AllRan DEF AtomicInv
  <2>3. pc # "idle" => op \in Ops
    BY DEF BridgeInv, TypeOK, MainTypes
  <2> QED BY <2>1, <2>2, <2>3
<1>2. sent[ran + 1] = LastMessage /\ Before
  BY <1>1 DEF AtomicInv, InHand, Posted
<1>3. UNCHANGED <<op, pc, stmt, wrote, outcome>>
  BY DEF Execute, mainVars
<1>4. IF succeeds THEN Done' ELSE Failed'
  BY <1>1, <1>2, StatementRun DEF AtomicInv
<1>5. \A o \in Ops : o # op => Effect(o)' = Effect(o)
  BY <1>1, <1>2 DEF Execute, Before, Closed, Open, Asked, Effect, LastMessage, BridgeInv, TypeOK,
     MainTypes, Kinds
<1>6. Effect(op) = {} /\ (Effect(op)' = {} \/ Effect(op)' = 1..wrote[op])
  BY <1>2, <1>3, <1>4 DEF Before, Done, Failed, Open, BridgeInv, TypeOK, MainTypes, Kinds, Effect
<1>7. CASE Effect(op)' = {}
  <2>1. UNCHANGED [o \in Ops |-> Effect(o)]
    BY <1>3, <1>5, <1>6, <1>7
  <2> QED BY <1>3, <2>1 DEF Promise!vars
<1>8. CASE Effect(op)' = 1..wrote[op]
  <2>1. [o \in Ops |-> Effect(o)]' = [[o \in Ops |-> Effect(o)] EXCEPT ![op] = 1..wrote[op]]
    BY <1>1, <1>3, <1>5, <1>8
  <2>2. Promise!InTurn(op)
    BY <1>1 DEF BridgeInv, TypeOK, MainTypes, AtomicInv, Turns, Promise!InTurn, Ops
  <2>3. Promise!Apply(op)
    BY <1>1, <1>3, <2>1, <2>2 DEF Promise!Apply
  <2> QED BY <1>1, <2>3 DEF Promise!Next
<1> QED BY <1>6, <1>7, <1>8

LEMMA StepIsPromised ==
  ASSUME BridgeInv, AtomicInv, [Next]_vars, Punctual', deaths' = 0
  PROVE  [Promise!Next]_(Promise!vars)
<1> DEFINE Quiet == UNCHANGED <<wrote, outcome, stored>>
<1>1. ASSUME Quiet PROVE [Promise!Next]_(Promise!vars)
  <2>1. UNCHANGED <<[o \in Ops |-> 1..wrote[o]], [o \in Ops |-> Effect(o)], outcome>>
    BY <1>1 DEF Effect
  <2> QED BY <2>1 DEF Promise!vars
<1>2. ASSUME NEW kind \in {"begin", "single"}, Start(kind) PROVE [Promise!Next]_(Promise!vars)
  <2>1. CASE kind = "begin"
    BY <1>1, <1>2, <2>1 DEF Start, dbVars
  <2>2. CASE kind = "single"
    <3> DEFINE o == op + 1
    <3>1. o \in Ops /\ wrote[o] = 0 /\ outcome[o] = "none"
      BY <1>2, BridgeAssumption DEF Start, BridgeInv, TypeOK, MainTypes, AtomicInv, Turns, Ops
    <3>2. Promise!InTurn(o)
      BY <1>2, <3>1 DEF Start, BridgeInv, TypeOK, MainTypes, AtomicInv, Turns, Ops, Promise!InTurn
    <3>3. Effect(o) = {}
      BY <3>1 DEF AtomicInv, Owners, Effect, BridgeInv, TypeOK, MainTypes
    <3>4. wrote' = [wrote EXCEPT ![o] = @ + 1] /\ UNCHANGED <<outcome, stored>>
      BY <1>2, <2>2, <3>1 DEF Start, dbVars, BridgeInv, TypeOK, MainTypes
    <3>5. wrote[o] < NumWrites
      BY <3>1, BridgeAssumption
    <3> QED BY <3>1, <3>2, <3>3, <3>4, <3>5, AskIsPromised DEF BridgeInv
  <2> QED BY <2>1, <2>2
<1>3. ASSUME NEW kind \in {"write", "commit"}, Proceed(kind) PROVE [Promise!Next]_(Promise!vars)
  <2>1. CASE kind = "commit"
    BY <1>1, <1>3, <2>1 DEF Proceed, dbVars
  <2>2. CASE kind = "write"
    <3>1. Calm /\ op \in Ops /\ UNCHANGED <<outcome, stored>>
      BY <1>3 DEF Proceed, Calm, Punctual, faultVars, dbVars, BridgeInv, TypeOK, MainTypes
    <3>2. Promise!InTurn(op)
      BY <1>3, <3>1 DEF Proceed, BridgeInv, TypeOK, MainTypes, AtomicInv, Turns, Ops, Promise!InTurn
    <3>3. Effect(op) = {} /\ wrote[op] < NumWrites /\ wrote' = [wrote EXCEPT ![op] = @ + 1]
      BY <1>3, <2>2, <3>1 DEF Proceed, AtomicInv, InHand, Open
    <3> QED BY <3>1, <3>2, <3>3, AskIsPromised DEF BridgeInv
  <2> QED BY <2>1, <2>2
<1>4. CASE HandlerThrows
  BY <1>4, EndIsPromised DEF HandlerThrows, Continue, AfterThrow, dbVars, BridgeInv, TypeOK, MainTypes, AtomicInv
<1>5. CASE Clear \/ Fill \/ Post \/ Wait \/ ReadStatus \/ ReadLength
  BY <1>1, <1>5 DEF Clear, Fill, Post, Wait, ReadStatus, ReadLength, dbVars
<1>6. ASSUME NEW returned \in BOOLEAN, Decode(returned) PROVE [Promise!Next]_(Promise!vars)
  <2>1. Calm /\ UNCHANGED <<wrote, stored>>
    BY <1>6 DEF Decode, Calm, Punctual, faultVars, dbVars
  <2>2. pc = "body" /\ op \in Ops /\ ran = Len(sent) /\ ran > 0 /\ got.status = ran /\ Whole
    BY <1>6, <2>1, AllRan DEF Decode, AtomicInv, InHand, Posted, BridgeInv, TypeOK, MainTypes
  <2>3. IF returned THEN Done ELSE Failed
    BY <1>6, <2>1, <2>2 DEF Decode, Succeeded, AtomicInv, InHand, Posted
  <2>4. CASE returned
    <3> DEFINE end == AfterAnswer(stmt).end
    <3>1. end \in {"none", "ok", "failed"} /\ outcome' = [outcome EXCEPT ![op] = end]
      BY <1>6, <2>4 DEF Decode, Continue, AfterAnswer, BridgeInv, TypeOK, MainTypes, Kinds
    <3>2. /\ end = "ok" => Effect(op) = 1..wrote[op]
          /\ end = "failed" => Effect(op) = {}
      BY <2>3, <2>4 DEF Done, AfterAnswer, BridgeInv, TypeOK, MainTypes, Kinds
    <3> HIDE DEF end
    <3> QED BY <2>1, <2>2, <3>1, <3>2, EndIsPromised DEF BridgeInv, AtomicInv
  <2>5. CASE ~returned
    <3> DEFINE end == AfterThrow(stmt).end
    <3>1. end \in {"none", "failed"} /\ outcome' = [outcome EXCEPT ![op] = end]
      BY <1>6, <2>5 DEF Decode, Continue, AfterThrow
    <3>2. end = "failed" => Effect(op) = {}
      BY <2>3, <2>5 DEF Failed
    <3> HIDE DEF end
    <3> QED BY <2>1, <2>2, <3>1, <3>2, EndIsPromised DEF BridgeInv, AtomicInv
  <2> QED BY <2>4, <2>5
<1>7. CASE Timeout
  BY <1>7 DEF Timeout, Punctual, AtomicInv, Owners, BridgeInv, TypeOK, MainTypes
<1>8. ASSUME NEW succeeds \in BOOLEAN, Execute(succeeds) PROVE [Promise!Next]_(Promise!vars)
  <2>1. Calm
    BY <1>8 DEF Execute, faultVars, Calm, Punctual
  <2> QED BY <1>8, <2>1, RunIsPromised
<1>9. CASE Erase \/ WriteBody \/ StoreLength \/ StoreStatus \/ Notify
  BY <1>1, <1>9 DEF Erase, WriteBody, StoreLength, StoreStatus, Notify, Answer, mainVars, dbVars
<1>10. CASE WorkerDies
  BY <1>10 DEF WorkerDies, BridgeInv, TypeOK, MainTypes
<1>11. CASE Crash
  <2>1. CASE pc = "idle"
    BY <1>1, <1>11, <2>1 DEF Crash, Fresh
  <2>2. CASE pc # "idle"
    BY <1>11, <2>2, EndIsPromised DEF Crash, Fresh, BridgeInv, TypeOK, MainTypes, AtomicInv
  <2> QED BY <2>1, <2>2
<1>12. CASE Restart
  BY <1>12 DEF Restart, Fresh, AtomicInv, Owners
<1>13. CASE UNCHANGED vars
  BY <1>1, <1>13 DEF vars, mainVars, dbVars
<1> QED
  BY <1>2, <1>3, <1>4, <1>5, <1>6, <1>7, <1>8, <1>9, <1>10, <1>11, <1>12, <1>13
     DEF Next, Begin, Handle, Call, Work

(* As long as every call waited for its answer and no worker died,           *)
(* transaction() does what its callers rely on: whatever statements fail, handlers throw and         *)
(* processes die, an operation is done whole or not at all, and told so.     *)
THEOREM OperationsAreAtomic == Spec => Atomic
<1>1. Init => BridgeInv /\ AtomicInv /\ Promise!Init
  BY InitInv, InitAtomic, InitPromise
<1>2. BridgeInv /\ AtomicInv /\ [Next]_vars => (BridgeInv /\ AtomicInv)'
  BY NextInv, TurnsStep, OwnersStep, InHandStep DEF BridgeInv, AtomicInv, TypeOK
<1>3. BridgeInv /\ AtomicInv /\ [Next]_vars
        => [Punctual' /\ deaths' = 0 => Promise!Next]_(Promise!vars)
  BY StepIsPromised
<1> QED BY <1>1, <1>2, <1>3, PTL DEF Spec, Atomic
=============================================================================
