---------------------------- MODULE RequestProofs ----------------------------
(***************************************************************************)
(* What internal requests and their warehouse tasks promise, for every     *)
(* value of the constants. The properties are about two tables that hold   *)
(* the same quantities, so the invariant says which requests can have a    *)
(* task at all, and what the statuses of its rows imply.                   *)
(***************************************************************************)
EXTENDS RequestFulfilment, SumTheorems, TLAPS

\* Every request has a number: its task takes its own from it.
Numbered == \A r \in Reqs : req[r].status # "NONE" => req[r].no \in Numbers

\* A request gets a task only once it is approved, and is never a draft again.
Begun ==
  \A n \in Numbers : task[n].status # "NONE" =>
    /\ req[task[n].req].status \notin {"NONE", "DRAFT", "SUBMITTED", "REJECTED"}
    /\ req[task[n].req].approved
    /\ Rows(line[task[n].req]) # {}

\* What the status of a request says of its approval and its lines.
Sound ==
  \A r \in Reqs :
    /\ req[r].status \in {"APPROVED", "PICKING", "PARTIALLY_ISSUED", "ISSUED"}
         => req[r].approved
    /\ req[r].status \notin {"NONE", "DRAFT", "CANCELLED"} => Rows(line[r]) # {}
    /\ req[r].status = "ISSUED" => ~(Total(line[r]) <= 0)

\* A task whose lines may still be picked has no line that only issuing finishes.
QuietRows ==
  \A n \in Numbers : task[n].status \in {"ASSIGNED", "IN_PROGRESS"} =>
    \A i \in Rows(pick[n]) :
      pick[n][i].status \notin {"PICKED", "SHORTED", "PARTIALLY_ISSUED"}

\* A row that was issued in full says ISSUED, or something that is not picked again.
FullRow(row) ==
  row.issued >= row.asked => row.status \in {"ISSUED", "PARTIALLY_ISSUED", "PICKED"}
CompleteRows ==
  \A n \in Numbers : task[n].status # "NONE" =>
    \A i \in Rows(pick[n]) : FullRow(pick[n][i])

\* Goods leave stock only on behalf of a task.
NoStray ==
  \A n \in Numbers, i \in Lines, b \in Bins :
    out[n][i][b] > 0 => task[n].status # "NONE"

PaperType ==
  /\ req \in [Reqs -> ReqRow]
  /\ line \in [Reqs -> [Lines -> LineRow]]
  /\ task \in [Numbers -> TaskRow]
  /\ pick \in [Numbers -> [Lines -> PickRow]]
StockType ==
  /\ bal \in [Bins -> Balance]
  /\ out \in [Numbers -> [Lines -> [Bins -> Nat]]]
  /\ adjusted \in [Bins -> Int]
  /\ free \in [Pallets -> Nat]

PaperInv ==
  /\ PaperType /\ NeverOverIssued /\ TaskAgrees /\ IssuedIsComplete
  /\ Numbered /\ Begun /\ Sound /\ QuietRows /\ CompleteRows
StockInv == StockType /\ NoStray
RequestInv == PaperInv /\ StockInv

-----------------------------------------------------------------------------
(* The rows that the handlers write.                                       *)

LEMMA BoundFacts ==
  /\ None \notin Reqs /\ None \notin Numbers
  /\ Reqs \subseteq Nat /\ Numbers \subseteq Nat
  /\ \A q \in Qtys : q \in Nat /\ q > 0
  BY BoundAssumption, NumberAssumption, QuantityAssumption DEF Reqs, None

LEMMA StatusOfLine ==
  ASSUME NEW asked, NEW issued, NEW short, NEW picked
  PROVE  LineStatus(asked, issued, short, picked) \in PickState
  BY DEF LineStatus, PickState

LEMMA StatusOfTask ==
  ASSUME NEW rows \in [Lines -> PickRow], NEW status \in TaskState \ {"NONE"}
  PROVE  /\ SyncedTask(rows, status) \in TaskState \ {"NONE"}
         /\ SyncedTask(rows, status) \in {"ASSIGNED", "IN_PROGRESS"} =>
              \A i \in Rows(rows) :
                rows[i].status \notin {"PICKED", "SHORTED", "PARTIALLY_ISSUED"}
  <1> DEFINE seen == {rows[i].status : i \in Rows(rows)}
  <1>1. \A i \in Rows(rows) : rows[i].status \in seen
    OBVIOUS
  <1>2. TaskStatus(rows, status) \in TaskState \ {"NONE"}
    BY DEF TaskStatus, TaskState
  <1>3. TaskStatus(rows, status) \in {"ASSIGNED", "IN_PROGRESS"} =>
          /\ "PARTIALLY_ISSUED" \notin seen
          /\ "SHORTED" \notin seen
          /\ "PICKED" \notin seen
    <2>1. seen = {} => "PARTIALLY_ISSUED" \notin seen /\ "SHORTED" \notin seen
                       /\ "PICKED" \notin seen
      OBVIOUS
    <2>2. seen = {"ISSUED"} \/ seen = {"CANCELLED"}
            => /\ "PARTIALLY_ISSUED" \notin seen /\ "SHORTED" \notin seen
               /\ "PICKED" \notin seen
      OBVIOUS
    <2> QED
      BY <2>1, <2>2 DEF TaskStatus
  <1> QED
    BY <1>1, <1>2, <1>3 DEF SyncedTask, TaskState

LEMMA StatusOfRequest ==
  ASSUME NEW rows, NEW status
  PROVE  LET s == SyncedStatus(rows, status)
         IN /\ s \in {"CANCELLED", "PICKING", "ISSUED", "PARTIALLY_ISSUED"}
            /\ s = "ISSUED" => Complete(rows) /\ ~(Total(rows) <= 0)
  BY DEF SyncedStatus

LEMMA StatusWritten ==
  ASSUME NEW rows \in [Reqs -> ReqRow], NEW r \in Reqs, NEW s \in ReqStatus
  PROVE  LET new == [rows EXCEPT ![r].status = s]
         IN /\ new \in [Reqs -> ReqRow] /\ new[r].status = s /\ new[r].no = rows[r].no
            /\ new[r].approved = rows[r].approved
            /\ \A q \in Reqs : q # r => new[q] = rows[q]
  <1>1. [rows[r] EXCEPT !.status = s] \in ReqRow
    BY DEF ReqRow
  <1> QED
    BY <1>1 DEF ReqRow

LEMMA MarkedRow ==
  ASSUME NEW row \in LineRow, NEW s \in LineState
  PROVE  /\ Marked(row, s) \in LineRow
         /\ Marked(row, s).asked = row.asked /\ Marked(row, s).issued = row.issued
  BY DEF Marked, LineRow

LEMMA MarkedRows ==
  ASSUME NEW rows \in [Lines -> LineRow], NEW s \in LineState
  PROVE  /\ SetStatus(rows, s) \in [Lines -> LineRow]
         /\ \A i \in Lines : /\ SetStatus(rows, s)[i].asked = rows[i].asked
                             /\ SetStatus(rows, s)[i].issued = rows[i].issued
         /\ Rows(SetStatus(rows, s)) = Rows(rows)
  BY MarkedRow DEF SetStatus, Rows

LEMMA EditedRow ==
  ASSUME NEW row \in LineRow, NEW q \in Nat
  PROVE  /\ Edited(row, q) \in LineRow
         /\ Edited(row, q).asked = q /\ Edited(row, q).issued = row.issued
  BY DEF Edited, LineRow, LineState

LEMMA FreshRow ==
  ASSUME NEW q \in Nat
  PROVE  LET row == [NoLine EXCEPT !.asked = q]
         IN row \in LineRow /\ row.asked = q /\ row.issued = 0
  BY DEF NoLine, LineRow, LineState

LEMMA ServedRow ==
  ASSUME NEW row \in LineRow, NEW q \in Int, NEW s \in LineState
  PROVE  /\ Served(row, q, s) \in LineRow
         /\ Served(row, q, s).asked = row.asked
         /\ Served(row, q, s).issued = row.issued + q
  <1>1. row.issued \in Int /\ row.issued + q \in Int
    BY DEF LineRow
  <1>2. Served(row, q, s).issued = row.issued + q
    BY DEF Served, LineRow
  <1>3. Served(row, q, s).asked = row.asked
    BY DEF Served, LineRow
  <1>4. Served(row, q, s) \in LineRow
    BY <1>1 DEF Served, LineRow
  <1> QED
    BY <1>2, <1>3, <1>4

LEMMA CountedRow ==
  ASSUME NEW row \in Balance, NEW onHand \in Int
  PROVE  Counted(row, onHand) \in Balance
  <1>1. Greater(0, onHand - row.reserved) \in Int
    BY DEF Balance, Greater
  <1> QED
    BY <1>1 DEF Counted, Balance

LEMMA PromisedRow ==
  ASSUME NEW row \in Balance, NEW q \in Nat
  PROVE  Promised(row, q) \in Balance
  <1>1. row.reserved + q \in Int /\ row.available - q \in Int
    BY DEF Balance
  <1> QED
    BY <1>1 DEF Promised, Balance

LEMMA DroppedRow ==
  ASSUME NEW row \in PickRow
  PROVE  /\ Dropped(row) \in PickRow
         /\ Dropped(row).asked = row.asked /\ Dropped(row).issued = row.issued
  BY DEF Dropped, PickRow, PickState

-----------------------------------------------------------------------------
LEMMA InitInv == Init => RequestInv
  <1> SUFFICES ASSUME Init PROVE RequestInv
    OBVIOUS
  <1> USE DEF Init
  <1>1. PaperType
    BY DEF PaperType, ReqRow, ReqStatus, LineRow, LineState, TaskRow, TaskState, PickRow,
           PickState, NoLine, NoPick
  <1>2. StockType
    BY StockAssumption DEF StockType, Balance
  <1>3. NeverOverIssued
    BY DEF NeverOverIssued, NoLine
  <1>4. TaskAgrees
    BY DEF TaskAgrees, NoLine
  <1>5. IssuedIsComplete /\ Numbered /\ Begun /\ Sound
    BY DEF IssuedIsComplete, Numbered, Begun, Sound
  <1>6. QuietRows /\ CompleteRows /\ NoStray
    BY DEF QuietRows, CompleteRows, NoStray
  <1> QED
    BY <1>1, <1>2, <1>3, <1>4, <1>5, <1>6 DEF RequestInv, PaperInv, StockInv

(* A request without a task: nothing ties its lines to one. *)
LEMMA NoTask ==
  ASSUME PaperInv, NEW r \in Reqs,
         req[r].status \in {"NONE", "DRAFT", "SUBMITTED", "REJECTED"}
  PROVE  /\ \A n \in Numbers : task[n].status # "NONE" => task[n].req # r
         /\ \A i \in Lines : line[r][i].issued = 0
  <1>1. \A n \in Numbers : task[n].status # "NONE" => task[n].req # r
    BY DEF PaperInv, Begun
  <1> QED
    BY <1>1 DEF PaperInv, TaskAgrees

(* Editing the lines of a request that has no task, or changing its status  *)
(* before it has one.                                                       *)
LEMMA PaperStep ==
  ASSUME PaperInv, NEW r \in Reqs,
         req[r].status \in {"NONE", "DRAFT", "SUBMITTED", "REJECTED"},
         UNCHANGED taskVars,
         req' \in [Reqs -> ReqRow], line' \in [Reqs -> [Lines -> LineRow]],
         \A q \in Reqs : q # r => req'[q] = req[q] /\ line'[q] = line[q],
         \A i \in Lines : line'[r][i].issued = 0,
         req'[r].no \in Numbers, req'[r].status \notin {"NONE", "ISSUED"},
         req'[r].status \in {"APPROVED", "PICKING", "PARTIALLY_ISSUED"} => req'[r].approved,
         req'[r].status \notin {"DRAFT", "CANCELLED"} => Rows(line'[r]) # {}
  PROVE  PaperInv'
  <1> USE DEF taskVars
  <1>0. \A n \in Numbers : task[n].status # "NONE" => task[n].req # r
    BY NoTask
  <1>1. PaperType'
    BY DEF PaperInv, PaperType
  <1>2. NeverOverIssued'
    <2>1. \A i \in Lines : line'[r][i].issued <= line'[r][i].asked
      BY DEF LineRow
    <2> QED
      BY <2>1 DEF PaperInv, NeverOverIssued
  <1>3. TaskAgrees'
    <2>1. ASSUME NEW n \in Numbers, task[n].status # "NONE"
          PROVE  /\ task[n].req \in Reqs /\ req'[task[n].req].no = n
                 /\ \A i \in Lines : /\ pick[n][i].asked = line'[task[n].req][i].asked
                                     /\ pick[n][i].issued = line'[task[n].req][i].issued
      <3>1. /\ task[n].req \in Reqs /\ req[task[n].req].no = n
            /\ \A i \in Lines : /\ pick[n][i].asked = line[task[n].req][i].asked
                                /\ pick[n][i].issued = line[task[n].req][i].issued
        BY <2>1 DEF PaperInv, TaskAgrees
      <3>2. req'[task[n].req] = req[task[n].req] /\ line'[task[n].req] = line[task[n].req]
        BY <2>1, <3>1, <1>0
      <3> QED
        BY <3>1, <3>2
    <2>2. ASSUME NEW q \in Reqs, \A n \in Numbers : task[n].status # "NONE" => task[n].req # q
          PROVE  \A i \in Lines : line'[q][i].issued = 0
      <3>1. \A i \in Lines : line[q][i].issued = 0
        BY <2>2 DEF PaperInv, TaskAgrees
      <3> QED
        BY <3>1
    <2> QED
      BY <2>1, <2>2 DEF TaskAgrees
  <1>4. IssuedIsComplete'
    BY DEF PaperInv, IssuedIsComplete
  <1>5. Numbered'
    BY DEF PaperInv, Numbered
  <1>6. Begun'
    <2>1. \A n \in Numbers : task[n].status # "NONE" => task[n].req \in Reqs
      BY DEF PaperInv, TaskAgrees
    <2> QED
      BY <1>0, <2>1 DEF PaperInv, Begun
  <1>7. Sound'
    <2>1. /\ req'[r].status \in {"APPROVED", "PICKING", "PARTIALLY_ISSUED", "ISSUED"}
               => req'[r].approved
          /\ req'[r].status \notin {"NONE", "DRAFT", "CANCELLED"} => Rows(line'[r]) # {}
          /\ req'[r].status = "ISSUED" => ~(Total(line'[r]) <= 0)
      OBVIOUS
    <2>2. \A q \in Reqs : q # r => req'[q] = req[q] /\ line'[q] = line[q]
      OBVIOUS
    <2> QED
      BY <2>1, <2>2 DEF PaperInv, Sound
  <1>8. QuietRows' /\ CompleteRows'
    BY DEF PaperInv, QuietRows, CompleteRows
  <1> QED
    BY <1>1, <1>2, <1>3, <1>4, <1>5, <1>6, <1>7, <1>8 DEF PaperInv

(* A change of the lines of an open task, as Sync writes it.                *)
LEMMA SyncStep ==
  ASSUME PaperInv, NEW n \in Numbers, task[n].status # "NONE",
         NEW rows \in [Lines -> PickRow], NEW lines \in [Lines -> LineRow],
         NEW status \in TaskState \ {"NONE"},
         Sync(n, rows, lines, status),
         \A i \in Lines : /\ rows[i].asked = pick[n][i].asked
                          /\ lines[i].asked = line[task[n].req][i].asked
                          /\ rows[i].issued = lines[i].issued
                          /\ lines[i].issued <= lines[i].asked,
         \A i \in Rows(rows) : FullRow(rows[i])
  PROVE  PaperInv'
  <1> DEFINE r == task[n].req
             synced == SyncedTask(rows, status)
             new == SyncedStatus(lines, synced)
  <1>0. /\ r \in Reqs /\ req[r].no = n /\ n # None
        /\ \A i \in Lines : pick[n][i].asked = line[r][i].asked
        /\ \A m \in Numbers : m # n /\ task[m].status # "NONE" => task[m].req # r
    BY BoundFacts DEF PaperInv, TaskAgrees
  <1>19. req \in [Reqs -> ReqRow] /\ req' = [req EXCEPT ![r].status = new]
         /\ new \in ReqStatus
    BY StatusOfRequest DEF Sync, PaperInv, PaperType, ReqStatus
  <1>1. /\ task'[n].status = synced /\ task'[n].req = r
        /\ \A m \in Numbers : m # n => task'[m] = task[m] /\ pick'[m] = pick[m]
        /\ pick'[n] = rows /\ line'[r] = lines
        /\ req'[r].status = new /\ req'[r].no = req[r].no /\ req'[r].approved = req[r].approved
        /\ \A q \in Reqs : q # r => req'[q] = req[q] /\ line'[q] = line[q]
    BY <1>0 DEF Sync, PaperInv, PaperType, TaskRow, ReqRow
  <1>2. /\ synced \in TaskState \ {"NONE"}
        /\ synced \in {"ASSIGNED", "IN_PROGRESS"} =>
             \A i \in Rows(rows) :
               rows[i].status \notin {"PICKED", "SHORTED", "PARTIALLY_ISSUED"}
    BY StatusOfTask
  <1>3. /\ new \in {"CANCELLED", "PICKING", "ISSUED", "PARTIALLY_ISSUED"}
        /\ new = "ISSUED" => Complete(lines) /\ ~(Total(lines) <= 0)
    BY StatusOfRequest
  <1>4. Rows(lines) = Rows(line[r])
    BY <1>0 DEF Rows
  <1>5. \A m \in Numbers : task'[m].status # "NONE" <=> task[m].status # "NONE"
    BY <1>1, <1>2
  <1>6. req[r].approved /\ Rows(line[r]) # {}
    BY DEF PaperInv, Begun
  <1> HIDE DEF r, synced, new
  <1>10. PaperType'
    <2>1. req' \in [Reqs -> ReqRow]
      BY <1>0, <1>19, StatusWritten
    <2>2. task' \in [Numbers -> TaskRow]
      BY <1>2 DEF Sync, PaperInv, PaperType, TaskRow, synced
    <2> QED
      BY <2>1, <2>2 DEF Sync, PaperInv, PaperType
  <1>11. NeverOverIssued'
    BY <1>1 DEF PaperInv, NeverOverIssued
  <1>12. TaskAgrees'
    <2>1. ASSUME NEW m \in Numbers, task'[m].status # "NONE"
          PROVE  /\ task'[m].req \in Reqs /\ req'[task'[m].req].no = m
                 /\ \A i \in Lines : /\ pick'[m][i].asked = line'[task'[m].req][i].asked
                                     /\ pick'[m][i].issued = line'[task'[m].req][i].issued
      <3>1. CASE m = n
        BY <3>1, <1>0, <1>1 DEF r
      <3>2. CASE m # n
        <4>1. task'[m] = task[m] /\ pick'[m] = pick[m] /\ task[m].status # "NONE"
          BY <3>2, <2>1, <1>1
        <4>2. /\ task[m].req \in Reqs /\ task[m].req # r /\ req[task[m].req].no = m
              /\ \A i \in Lines : /\ pick[m][i].asked = line[task[m].req][i].asked
                                  /\ pick[m][i].issued = line[task[m].req][i].issued
          BY <3>2, <4>1, <1>0 DEF PaperInv, TaskAgrees
        <4>3. req'[task[m].req] = req[task[m].req] /\ line'[task[m].req] = line[task[m].req]
          BY <4>2, <1>1
        <4> QED
          BY <4>1, <4>2, <4>3
      <3> QED
        BY <3>1, <3>2
    <2>2. ASSUME NEW q \in Reqs, \A m \in Numbers : task'[m].status # "NONE" => task'[m].req # q
          PROVE  \A i \in Lines : line'[q][i].issued = 0
      <3>1. q # r
        BY <2>2, <1>1, <1>2
      <3>2. \A m \in Numbers : task[m].status # "NONE" => task[m].req # q
        BY <2>2, <3>1, <1>1, <1>5 DEF r
      <3> QED
        BY <3>1, <3>2, <1>1 DEF PaperInv, TaskAgrees
    <2> QED
      BY <2>1, <2>2 DEF TaskAgrees
  <1>13. IssuedIsComplete'
    BY <1>1, <1>3 DEF PaperInv, IssuedIsComplete
  <1>14. Numbered'
    BY <1>0, <1>1 DEF PaperInv, Numbered
  <1>15. Begun'
    <2>1. ASSUME NEW m \in Numbers, task'[m].status # "NONE"
          PROVE  /\ req'[task'[m].req].status \notin {"NONE", "DRAFT", "SUBMITTED", "REJECTED"}
                 /\ req'[task'[m].req].approved
                 /\ Rows(line'[task'[m].req]) # {}
      <3>1. CASE m = n
        <4>1. task'[m].req = r /\ Rows(line'[r]) = Rows(line[r])
          BY <3>1, <1>1, <1>4
        <4> QED
          BY <4>1, <1>1, <1>3, <1>6 DEF r
      <3>2. CASE m # n
        <4>1. task'[m] = task[m] /\ task[m].status # "NONE"
          BY <3>2, <2>1, <1>1
        <4>2. task[m].req \in Reqs /\ task[m].req # r
          BY <3>2, <4>1, <1>0 DEF PaperInv, TaskAgrees
        <4>3. req'[task[m].req] = req[task[m].req] /\ line'[task[m].req] = line[task[m].req]
          BY <4>2, <1>1
        <4> QED
          BY <4>1, <4>3 DEF PaperInv, Begun
      <3> QED
        BY <3>1, <3>2
    <2> QED
      BY <2>1 DEF Begun
  <1>16. Sound'
    <2>1. ASSUME NEW q \in Reqs, q # r
          PROVE  req'[q] = req[q] /\ line'[q] = line[q]
      BY <2>1, <1>1
    <2>2. /\ req'[r].status \in {"APPROVED", "PICKING", "PARTIALLY_ISSUED", "ISSUED"}
               => req'[r].approved
          /\ req'[r].status \notin {"NONE", "DRAFT", "CANCELLED"} => Rows(line'[r]) # {}
          /\ req'[r].status = "ISSUED" => ~(Total(line'[r]) <= 0)
      BY <1>1, <1>3, <1>4, <1>6
    <2> QED
      BY <2>1, <2>2 DEF PaperInv, Sound
  <1>17. QuietRows'
    BY <1>1, <1>2 DEF PaperInv, QuietRows
  <1>18. CompleteRows'
    BY <1>1, <1>5 DEF PaperInv, CompleteRows
  <1> QED
    BY <1>10, <1>11, <1>12, <1>13, <1>14, <1>15, <1>16, <1>17, <1>18 DEF PaperInv

LEMMA PickKeeps ==
  ASSUME PaperInv, NEW n \in Numbers, NEW i \in Lines, NEW q \in Qtys, PickLine(n, i, q)
  PROVE  PaperInv'
  <1> DEFINE r == task[n].req
             p == pick[n][i]
             picked == Lesser(q, p.asked)
             short == p.asked - picked
             status == LineStatus(p.asked, 0, short, picked)
             row == [p EXCEPT !.picked = picked, !.short = short, !.status = status]
             mine == [line[r][i] EXCEPT !.status = status]
             rows == [pick[n] EXCEPT ![i] = row]
             lines == [line[r] EXCEPT ![i].status = status]
  <1>1. /\ task[n].status \in {"ASSIGNED", "IN_PROGRESS"}
        /\ i \in Rows(pick[n]) /\ p.status # "ISSUED"
        /\ Sync(n, rows, lines, task[n].status)
    BY DEF PickLine
  <1>2. /\ r \in Reqs /\ p \in PickRow /\ line[r] \in [Lines -> LineRow]
        /\ pick[n] \in [Lines -> PickRow]
        /\ \A j \in Lines : /\ pick[n][j].asked = line[r][j].asked
                            /\ pick[n][j].issued = line[r][j].issued
                            /\ line[r][j].issued <= line[r][j].asked
    <2>1. r \in Reqs /\ \A j \in Lines : /\ pick[n][j].asked = line[r][j].asked
                                         /\ pick[n][j].issued = line[r][j].issued
      BY <1>1 DEF PaperInv, TaskAgrees
    <2>2. pick[n] \in [Lines -> PickRow] /\ line[r] \in [Lines -> LineRow]
      BY <2>1 DEF PaperInv, PaperType
    <2>3. i \in Lines
      OBVIOUS
    <2> QED
      BY <2>1, <2>2, <2>3 DEF PaperInv, NeverOverIssued
  <1>3. status \in PickState
    BY StatusOfLine
  <1> HIDE DEF status
  <1>4. picked \in Int /\ short \in Nat
    BY <1>2, BoundFacts DEF Lesser, PickRow
  <1> HIDE DEF picked, short
  <1>5. row \in PickRow /\ row.asked = p.asked /\ row.issued = p.issued
    BY <1>2, <1>3, <1>4 DEF PickRow
  <1>6. lines \in [Lines -> LineRow]
        /\ \A j \in Lines : lines[j].asked = line[r][j].asked
                            /\ lines[j].issued = line[r][j].issued
    <2>1. mine \in LineRow /\ mine.asked = line[r][i].asked
          /\ mine.issued = line[r][i].issued
      BY <1>2, <1>3 DEF LineRow, LineState
    <2>2. lines = [line[r] EXCEPT ![i] = mine]
      BY <1>2
    <2> HIDE DEF mine, lines
    <2> QED
      BY <1>2, <2>1, <2>2
  <1>7. ~(p.issued >= p.asked)
    BY <1>1 DEF PaperInv, QuietRows, CompleteRows, FullRow
  <1> HIDE DEF row, lines
  <1>8. rows \in [Lines -> PickRow]
        /\ \A j \in Lines : rows[j].asked = pick[n][j].asked
                            /\ rows[j].issued = pick[n][j].issued
    BY <1>2, <1>5
  <1>9. \A j \in Rows(rows) : FullRow(rows[j])
    <2>1. FullRow(row)
      BY <1>5, <1>7 DEF FullRow
    <2>2. \A j \in Rows(rows) : j # i => j \in Rows(pick[n]) /\ rows[j] = pick[n][j]
      BY <1>2 DEF Rows
    <2>3. \A j \in Rows(rows) : j = i => rows[j] = row
      BY <1>2
    <2> QED
      BY <2>1, <2>2, <2>3, <1>1 DEF PaperInv, CompleteRows
  <1>10. task[n].status \in TaskState \ {"NONE"}
    BY <1>1 DEF TaskState
  <1> HIDE DEF rows
  <1>11. \A j \in Lines : /\ rows[j].asked = pick[n][j].asked
                          /\ lines[j].asked = line[task[n].req][j].asked
                          /\ rows[j].issued = lines[j].issued
                          /\ lines[j].issued <= lines[j].asked
    BY <1>2, <1>6, <1>8
  <1> QED
    BY <1>1, <1>6, <1>8, <1>9, <1>10, <1>11, SyncStep, SMTT(20)

LEMMA IssueKeeps ==
  ASSUME PaperInv, StockType, NEW n \in Numbers, NEW i \in Lines, NEW q \in Qtys,
         NEW b \in Bins, IssueLine(n, i, q, b)
  PROVE  PaperInv'
  <1> DEFINE r == task[n].req
             p == pick[n][i]
             target == Lesser(q, p.asked - p.issued)
             taken == Taken(target, b)
             short == p.short + Greater(0, target - taken)
             issued == p.issued + taken
             picked == Greater(p.picked, issued + short)
             status == LineStatus(p.asked, taken, short, picked)
             row == [p EXCEPT !.picked = picked, !.issued = issued,
                              !.short = short, !.status = status]
             mine == Served(line[r][i], taken, status)
             rows == [pick[n] EXCEPT ![i] = row]
             lines == [line[r] EXCEPT ![i] = mine]
  <1>1. /\ task[n].status \in {"IN_PROGRESS", "PICKED", "PARTIALLY_ISSUED", "EXCEPTION"}
        /\ i \in Rows(pick[n]) /\ target > 0
        /\ Sync(n, rows, lines, task[n].status)
    BY DEF IssueLine
  <1>2. /\ r \in Reqs /\ p \in PickRow /\ line[r] \in [Lines -> LineRow]
        /\ pick[n] \in [Lines -> PickRow]
        /\ \A j \in Lines : /\ pick[n][j].asked = line[r][j].asked
                            /\ pick[n][j].issued = line[r][j].issued
                            /\ line[r][j].issued <= line[r][j].asked
    <2>1. r \in Reqs /\ \A j \in Lines : /\ pick[n][j].asked = line[r][j].asked
                                         /\ pick[n][j].issued = line[r][j].issued
      BY <1>1 DEF PaperInv, TaskAgrees
    <2>2. pick[n] \in [Lines -> PickRow] /\ line[r] \in [Lines -> LineRow]
      BY <2>1 DEF PaperInv, PaperType
    <2>3. i \in Lines
      OBVIOUS
    <2> QED
      BY <2>1, <2>2, <2>3 DEF PaperInv, NeverOverIssued
  <1>3. p.asked \in Nat /\ p.issued \in Int /\ p.short \in Nat /\ p.picked \in Int
        /\ bal[b].available \in Int
    BY <1>2 DEF PickRow, StockType, Balance
  <1>4. target \in Int /\ target <= p.asked - p.issued
    BY <1>3, BoundFacts DEF Lesser
  <1> HIDE DEF target
  <1>5. taken \in Int /\ taken <= target
    BY <1>3, <1>4 DEF Taken, Lesser
  <1> HIDE DEF taken
  <1>6. short \in Nat /\ issued \in Int /\ issued <= p.asked
    BY <1>3, <1>4, <1>5 DEF Greater
  <1>7. picked \in Int /\ picked >= issued + short
    BY <1>3, <1>6 DEF Greater
  <1>8. issued >= p.asked => taken > 0
    BY <1>1, <1>3, <1>4, <1>5
  <1> HIDE DEF short, picked
  <1>9. issued >= p.asked => status \in {"ISSUED", "PARTIALLY_ISSUED", "PICKED"}
    BY <1>3, <1>5, <1>6, <1>7, <1>8 DEF LineStatus
  <1>10. status \in PickState
    BY StatusOfLine
  <1> HIDE DEF status, issued
  <1>11. /\ row \in PickRow /\ row.asked = p.asked /\ row.issued = issued
         /\ row.status = status
    BY <1>2, <1>6, <1>7, <1>10 DEF PickRow
  <1>12. /\ mine \in LineRow /\ mine.asked = p.asked /\ mine.issued = issued
    BY <1>2, <1>5, <1>10, ServedRow DEF LineState, issued
  <1> HIDE DEF row, mine
  <1>13. /\ rows \in [Lines -> PickRow] /\ lines \in [Lines -> LineRow]
         /\ rows[i] = row /\ lines[i] = mine
         /\ \A j \in Lines : j # i => rows[j] = pick[n][j] /\ lines[j] = line[r][j]
    BY <1>2, <1>11, <1>12
  <1> HIDE DEF rows, lines
  <1>14. \A j \in Lines : /\ rows[j].asked = pick[n][j].asked
                          /\ lines[j].asked = line[task[n].req][j].asked
                          /\ rows[j].issued = lines[j].issued
                          /\ lines[j].issued <= lines[j].asked
    <2> SUFFICES ASSUME NEW j \in Lines
                 PROVE  /\ rows[j].asked = pick[n][j].asked
                        /\ lines[j].asked = line[r][j].asked
                        /\ rows[j].issued = lines[j].issued
                        /\ lines[j].issued <= lines[j].asked
      OBVIOUS
    <2>1. CASE j = i
      BY <2>1, <1>2, <1>6, <1>11, <1>12, <1>13
    <2>2. CASE j # i
      BY <2>2, <1>2, <1>13
    <2> QED
      BY <2>1, <2>2
  <1>15. \A j \in Rows(rows) : FullRow(rows[j])
    <2>1. FullRow(row)
      BY <1>9, <1>11 DEF FullRow
    <2>2. \A j \in Rows(rows) : j # i => j \in Rows(pick[n]) /\ rows[j] = pick[n][j]
      BY <1>13 DEF Rows
    <2> QED
      BY <2>1, <2>2, <1>1, <1>13 DEF PaperInv, CompleteRows
  <1>16. task[n].status \in TaskState \ {"NONE"}
    BY <1>1 DEF TaskState
  <1> QED
    BY <1>1, <1>13, <1>14, <1>15, <1>16, SyncStep

LEMMA CloseKeeps ==
  ASSUME PaperInv, NEW n \in Numbers, CloseTask(n)
  PROVE  PaperInv'
  <1> DEFINE r == task[n].req
  <1>1. task[n].status # "NONE" /\ Sync(n, pick[n], line[r], "CLOSED")
    BY DEF CloseTask
  <1>2. /\ pick[n] \in [Lines -> PickRow] /\ line[r] \in [Lines -> LineRow]
        /\ \A i \in Lines : /\ pick[n][i].issued = line[r][i].issued
                            /\ line[r][i].issued <= line[r][i].asked
        /\ \A i \in Rows(pick[n]) : FullRow(pick[n][i])
    BY <1>1 DEF PaperInv, PaperType, TaskAgrees, NeverOverIssued, CompleteRows
  <1>3. "CLOSED" \in TaskState \ {"NONE"}
    BY DEF TaskState
  <1> QED
    BY <1>1, <1>2, <1>3, SyncStep

(* A new status for the request of a task, and its lines marked with one.   *)
LEMMA MarkKeeps ==
  ASSUME PaperInv, NEW r \in Reqs, NEW s \in LineState,
         req[r].status # "NONE",
         req'[r].no = req[r].no, req'[r].approved = req[r].approved,
         \A q \in Reqs : q # r => req'[q] = req[q],
         line' = [line EXCEPT ![r] = SetStatus(@, s)],
         \/ req'[r].status = "CANCELLED"
         \/ /\ req'[r].status \in {"APPROVED", "PICKING"}
            /\ req[r].approved /\ Rows(line[r]) # {}
  PROVE  /\ line' \in [Reqs -> [Lines -> LineRow]]
         /\ \A q \in Reqs : /\ Rows(line'[q]) = Rows(line[q])
                            /\ \A i \in Lines : /\ line'[q][i].asked = line[q][i].asked
                                                /\ line'[q][i].issued = line[q][i].issued
         /\ NeverOverIssued' /\ IssuedIsComplete' /\ Numbered' /\ Sound'
  <1> DEFINE lines == SetStatus(line[r], s)
  <1>1. line[r] \in [Lines -> LineRow] /\ line \in [Reqs -> [Lines -> LineRow]]
    BY DEF PaperInv, PaperType
  <1>2. /\ lines \in [Lines -> LineRow] /\ Rows(lines) = Rows(line[r])
        /\ \A i \in Lines : lines[i].asked = line[r][i].asked
                            /\ lines[i].issued = line[r][i].issued
    BY <1>1, MarkedRows
  <1>3. line' = [line EXCEPT ![r] = lines]
    BY <1>1
  <1> HIDE DEF lines
  <1>4. line'[r] = lines /\ \A q \in Reqs : q # r => line'[q] = line[q]
    BY <1>1, <1>3
  <1>5. line' \in [Reqs -> [Lines -> LineRow]]
    BY <1>1, <1>2, <1>3
  <1>6. \A q \in Reqs : /\ Rows(line'[q]) = Rows(line[q])
                        /\ \A i \in Lines : /\ line'[q][i].asked = line[q][i].asked
                                            /\ line'[q][i].issued = line[q][i].issued
    BY <1>2, <1>4
  <1>7. NeverOverIssued'
    BY <1>6 DEF PaperInv, NeverOverIssued
  <1>8. IssuedIsComplete'
    BY <1>4 DEF PaperInv, IssuedIsComplete
  <1>9. Numbered'
    BY DEF PaperInv, Numbered
  <1>10. Sound'
    <2>1. \A q \in Reqs : q # r => line'[q] = line[q] /\ req'[q] = req[q]
      BY <1>4
    <2>2. Rows(line'[r]) = Rows(line[r])
      BY <1>6
    <2> QED
      BY <2>1, <2>2 DEF PaperInv, Sound
  <1> QED
    BY <1>5, <1>6, <1>7, <1>8, <1>9, <1>10

LEMMA CancelRequestKeeps ==
  ASSUME PaperInv, NEW r \in Reqs, CancelRequest(r)
  PROVE  PaperInv'
  <1> USE DEF taskVars
  <1>1. /\ req[r].status # "NONE"
        /\ req' = [req EXCEPT ![r].status = "CANCELLED"]
        /\ line' = [line EXCEPT ![r] = SetStatus(@, "CANCELLED")]
        /\ UNCHANGED taskVars
    BY DEF CancelRequest
  <1>2. /\ req'[r].status = "CANCELLED" /\ req'[r].no = req[r].no
        /\ req'[r].approved = req[r].approved
        /\ \A q \in Reqs : q # r => req'[q] = req[q]
        /\ req' \in [Reqs -> ReqRow]
    <2>1. req \in [Reqs -> ReqRow] /\ "CANCELLED" \in ReqStatus
      BY DEF PaperInv, PaperType, ReqStatus
    <2> QED
      BY <2>1, <1>1, StatusWritten
  <1>3. "CANCELLED" \in LineState
    BY DEF LineState, PickState
  <1>4. /\ line' \in [Reqs -> [Lines -> LineRow]]
        /\ \A q \in Reqs : /\ Rows(line'[q]) = Rows(line[q])
                           /\ \A i \in Lines : /\ line'[q][i].asked = line[q][i].asked
                                               /\ line'[q][i].issued = line[q][i].issued
        /\ NeverOverIssued' /\ IssuedIsComplete' /\ Numbered' /\ Sound'
    BY <1>1, <1>2, <1>3, MarkKeeps
  <1>5. \A q \in Reqs : /\ req'[q].no = req[q].no /\ req'[q].approved = req[q].approved
                        /\ req'[q].status = req[q].status \/ req'[q].status = "CANCELLED"
    BY <1>2
  <1>6. TaskAgrees'
    BY <1>1, <1>4, <1>5 DEF PaperInv, TaskAgrees
  <1>7. Begun'
    <2>1. ASSUME NEW n \in Numbers, task[n].status # "NONE", NEW q, q = task[n].req
          PROVE  /\ req'[q].status \notin {"NONE", "DRAFT", "SUBMITTED", "REJECTED"}
                 /\ req'[q].approved /\ Rows(line'[q]) # {}
      <3>1. /\ q \in Reqs /\ req[q].approved /\ Rows(line[q]) # {}
            /\ req[q].status \notin {"NONE", "DRAFT", "SUBMITTED", "REJECTED"}
        BY <2>1 DEF PaperInv, TaskAgrees, Begun
      <3> QED
        BY <3>1, <1>4, <1>5
    <2> QED
      BY <2>1, <1>1 DEF Begun
  <1>8. PaperType' /\ QuietRows' /\ CompleteRows'
    BY <1>1, <1>2, <1>4 DEF PaperInv, PaperType, QuietRows, CompleteRows
  <1> QED
    BY <1>4, <1>6, <1>7, <1>8 DEF PaperInv

LEMMA CancelTaskKeeps ==
  ASSUME PaperInv, NEW n \in Numbers, CancelTask(n)
  PROVE  PaperInv'
  <1> DEFINE r == task[n].req
             rows == [i \in Lines |-> Dropped(pick[n][i])]
  <1>1. /\ task[n].status # "NONE"
        /\ \A i \in Rows(pick[n]) : pick[n][i].issued <= 0
        /\ task' = [task EXCEPT ![n].status = "CANCELLED"]
        /\ pick' = [pick EXCEPT ![n] = rows]
        /\ line' = [line EXCEPT ![r] = SetStatus(@, "ISSUE_READY")]
        /\ req' = [req EXCEPT ![r].status = "APPROVED"]
    BY DEF CancelTask, Cancellable
  <1>2. /\ r \in Reqs /\ req[r].approved /\ Rows(line[r]) # {} /\ req[r].status # "NONE"
        /\ pick[n] \in [Lines -> PickRow]
    BY <1>1 DEF PaperInv, PaperType, TaskAgrees, Begun
  <1>3. /\ rows \in [Lines -> PickRow]
        /\ \A i \in Lines : rows[i].asked = pick[n][i].asked
                            /\ rows[i].issued = pick[n][i].issued
    BY <1>2, DroppedRow
  <1> HIDE DEF rows, r
  <1>4. /\ req'[r].status = "APPROVED" /\ req'[r].no = req[r].no
        /\ req'[r].approved = req[r].approved
        /\ \A q \in Reqs : q # r => req'[q] = req[q]
        /\ req' \in [Reqs -> ReqRow]
    <2>1. req \in [Reqs -> ReqRow] /\ "APPROVED" \in ReqStatus
      BY DEF PaperInv, PaperType, ReqStatus
    <2>2. r \in Reqs /\ req' = [req EXCEPT ![r].status = "APPROVED"]
      BY <1>1, <1>2
    <2> QED
      BY <2>1, <2>2, StatusWritten
  <1>5. "ISSUE_READY" \in LineState
    BY DEF LineState
  <1>6. /\ line' \in [Reqs -> [Lines -> LineRow]]
        /\ \A q \in Reqs : /\ Rows(line'[q]) = Rows(line[q])
                           /\ \A i \in Lines : /\ line'[q][i].asked = line[q][i].asked
                                               /\ line'[q][i].issued = line[q][i].issued
        /\ NeverOverIssued' /\ IssuedIsComplete' /\ Numbered' /\ Sound'
    BY <1>1, <1>2, <1>4, <1>5, MarkKeeps
  <1>7. /\ task' \in [Numbers -> TaskRow] /\ pick' \in [Numbers -> [Lines -> PickRow]]
        /\ \A m \in Numbers :
             /\ task'[m].req = task[m].req
             /\ task'[m].status = task[m].status \/ (m = n /\ task'[m].status = "CANCELLED")
             /\ m # n => pick'[m] = pick[m]
        /\ pick'[n] = rows /\ task'[n].status = "CANCELLED"
    BY <1>1, <1>3 DEF PaperInv, PaperType, TaskRow, TaskState
  <1>8. \A m \in Numbers : task'[m].status # "NONE" <=> task[m].status # "NONE"
    BY <1>1, <1>7
  <1>9. \A q \in Reqs : req'[q].no = req[q].no /\ req'[q].approved = req[q].approved
    BY <1>4
  <1>10. TaskAgrees'
    <2>1. ASSUME NEW m \in Numbers, task'[m].status # "NONE"
          PROVE  /\ task'[m].req \in Reqs /\ req'[task'[m].req].no = m
                 /\ \A i \in Lines : /\ pick'[m][i].asked = line'[task'[m].req][i].asked
                                     /\ pick'[m][i].issued = line'[task'[m].req][i].issued
      <3>1. /\ task[m].req \in Reqs /\ req[task[m].req].no = m
            /\ \A i \in Lines : /\ pick[m][i].asked = line[task[m].req][i].asked
                                /\ pick[m][i].issued = line[task[m].req][i].issued
        BY <2>1, <1>8 DEF PaperInv, TaskAgrees
      <3>2. \A i \in Lines : pick'[m][i].asked = pick[m][i].asked
                             /\ pick'[m][i].issued = pick[m][i].issued
        BY <1>3, <1>7
      <3>3. task'[m].req = task[m].req
        BY <1>7
      <3> QED
        BY <3>1, <3>2, <3>3, <1>6, <1>9
    <2>2. ASSUME NEW q \in Reqs,
                 \A m \in Numbers : task'[m].status # "NONE" => task'[m].req # q
          PROVE  \A i \in Lines : line'[q][i].issued = 0
      <3>1. \A m \in Numbers : task[m].status # "NONE" => task[m].req # q
        BY <2>2, <1>7, <1>8
      <3>2. \A i \in Lines : line[q][i].issued = 0
        BY <3>1 DEF PaperInv, TaskAgrees
      <3> QED
        BY <3>2, <1>6
    <2> QED
      BY <2>1, <2>2 DEF TaskAgrees
  <1>11. Begun'
    <2>1. ASSUME NEW m \in Numbers, task[m].status # "NONE", NEW q, q = task[m].req
          PROVE  /\ req'[q].status \notin {"NONE", "DRAFT", "SUBMITTED", "REJECTED"}
                 /\ req'[q].approved /\ Rows(line'[q]) # {}
      <3>1. /\ q \in Reqs /\ req[q].approved /\ Rows(line[q]) # {}
            /\ req[q].status \notin {"NONE", "DRAFT", "SUBMITTED", "REJECTED"}
        BY <2>1 DEF PaperInv, TaskAgrees, Begun
      <3>2. req'[q].status = req[q].status \/ req'[q].status = "APPROVED"
        BY <3>1, <1>4
      <3> QED
        BY <3>1, <3>2, <1>6, <1>9
    <2> QED
      BY <2>1, <1>7, <1>8 DEF Begun
  <1>12. QuietRows'
    BY <1>7 DEF PaperInv, QuietRows
  <1>13. CompleteRows'
    <2>1. \A i \in Rows(rows) : i \in Rows(pick[n]) /\ ~(rows[i].issued >= rows[i].asked)
      BY <1>1, <1>2, <1>3 DEF Rows, PickRow
    <2> QED
      BY <2>1, <1>7, <1>8 DEF PaperInv, CompleteRows, FullRow
  <1> QED
    BY <1>4, <1>6, <1>7, <1>10, <1>11, <1>12, <1>13 DEF PaperInv, PaperType

LEMMA FreshPick ==
  ASSUME NEW q \in Nat
  PROVE  LET row == [NoPick EXCEPT !.asked = q]
         IN row \in PickRow /\ row.asked = q /\ row.issued = 0 /\ row.status = "PICK_PENDING"
  BY DEF NoPick, PickRow, PickState

LEMMA CreateTaskKeeps ==
  ASSUME PaperInv, NEW r \in Reqs, CreateTask(r)
  PROVE  PaperInv'
  <1> DEFINE n == req[r].no
             rows == [i \in Lines |-> [NoPick EXCEPT !.asked = line[r][i].asked]]
  <1>1. /\ req[r].status \in ReadyForTask /\ task[n].status = "NONE"
        /\ task' = [task EXCEPT ![n] = [status |-> "ASSIGNED", req |-> r]]
        /\ pick' = [pick EXCEPT ![n] = rows]
        /\ line' = [line EXCEPT ![r] = SetStatus(@, "PICK_PENDING")]
        /\ req' = [req EXCEPT ![r].status = "PICKING"]
    BY DEF CreateTask, NewTask
  <1>2. /\ req[r].approved /\ Rows(line[r]) # {}
        /\ req[r].status \notin {"NONE", "DRAFT", "SUBMITTED", "REJECTED"}
    BY <1>1 DEF PaperInv, PaperType, ReqRow, ReqStatus, Sound, ReadyForTask
  <1>3. n \in Numbers /\ line[r] \in [Lines -> LineRow]
    BY <1>2 DEF PaperInv, PaperType, Numbered
  <1>4. \A m \in Numbers : task[m].status # "NONE" => task[m].req # r
    BY <1>1 DEF PaperInv, TaskAgrees
  <1>5. \A i \in Lines : line[r][i].issued = 0
    BY <1>4 DEF PaperInv, TaskAgrees
  <1>6. /\ rows \in [Lines -> PickRow]
        /\ \A i \in Lines : /\ rows[i].asked = line[r][i].asked /\ rows[i].issued = 0
                            /\ rows[i].status = "PICK_PENDING"
    <2>1. \A i \in Lines : line[r][i].asked \in Nat
      BY <1>3 DEF LineRow
    <2> QED
      BY <2>1, FreshPick
  <1>7. /\ req'[r].status = "PICKING" /\ req'[r].no = req[r].no
        /\ req'[r].approved = req[r].approved
        /\ \A q \in Reqs : q # r => req'[q] = req[q]
        /\ req' \in [Reqs -> ReqRow]
    <2>1. req \in [Reqs -> ReqRow] /\ "PICKING" \in ReqStatus
      BY DEF PaperInv, PaperType, ReqStatus
    <2> QED
      BY <2>1, <1>1, StatusWritten
  <1>8. "PICK_PENDING" \in LineState
    BY DEF LineState, PickState
  <1>9. /\ line' \in [Reqs -> [Lines -> LineRow]]
        /\ \A q \in Reqs : /\ Rows(line'[q]) = Rows(line[q])
                           /\ \A i \in Lines : /\ line'[q][i].asked = line[q][i].asked
                                               /\ line'[q][i].issued = line[q][i].issued
        /\ NeverOverIssued' /\ IssuedIsComplete' /\ Numbered' /\ Sound'
    BY <1>1, <1>2, <1>7, <1>8, MarkKeeps
  <1> HIDE DEF n, rows
  <1>10. /\ task'[n].req = r /\ task'[n].status = "ASSIGNED" /\ pick'[n] = rows
         /\ \A m \in Numbers : m # n => task'[m] = task[m] /\ pick'[m] = pick[m]
         /\ task' \in [Numbers -> TaskRow] /\ pick' \in [Numbers -> [Lines -> PickRow]]
    BY <1>1, <1>3, <1>6 DEF PaperInv, PaperType, TaskRow, TaskState
  <1>11. TaskAgrees'
    <2>1. ASSUME NEW m \in Numbers, task'[m].status # "NONE"
          PROVE  /\ task'[m].req \in Reqs /\ req'[task'[m].req].no = m
                 /\ \A i \in Lines : /\ pick'[m][i].asked = line'[task'[m].req][i].asked
                                     /\ pick'[m][i].issued = line'[task'[m].req][i].issued
      <3>1. CASE m = n
        BY <3>1, <1>5, <1>6, <1>7, <1>9, <1>10 DEF n
      <3>2. CASE m # n
        <4>1. task'[m] = task[m] /\ pick'[m] = pick[m] /\ task[m].status # "NONE"
          BY <3>2, <2>1, <1>10
        <4>2. /\ task[m].req \in Reqs /\ task[m].req # r /\ req[task[m].req].no = m
              /\ \A i \in Lines : /\ pick[m][i].asked = line[task[m].req][i].asked
                                  /\ pick[m][i].issued = line[task[m].req][i].issued
          BY <4>1, <1>4 DEF PaperInv, TaskAgrees
        <4>3. /\ req'[task[m].req].no = m
              /\ \A i \in Lines : /\ line'[task[m].req][i].asked = line[task[m].req][i].asked
                                  /\ line'[task[m].req][i].issued = line[task[m].req][i].issued
          BY <4>2, <1>7, <1>9
        <4> QED
          BY <4>1, <4>2, <4>3
      <3> QED
        BY <3>1, <3>2
    <2>2. ASSUME NEW q \in Reqs,
                 \A m \in Numbers : task'[m].status # "NONE" => task'[m].req # q
          PROVE  \A i \in Lines : line'[q][i].issued = 0
      <3>1. q # r
        BY <2>2, <1>3, <1>10 DEF n
      <3>2. \A m \in Numbers : task[m].status # "NONE" => task[m].req # q
        <4>1. \A m \in Numbers : (m # n /\ task[m].status # "NONE") => task[m].req # q
          BY <2>2, <1>10
        <4> QED
          BY <4>1, <1>1
      <3>3. \A i \in Lines : line[q][i].issued = 0
        BY <3>2 DEF PaperInv, TaskAgrees
      <3> QED
        BY <3>3, <1>9
    <2> QED
      BY <2>1, <2>2 DEF TaskAgrees
  <1>12. Begun'
    <2>1. ASSUME NEW m \in Numbers, task'[m].status # "NONE", NEW q, q = task'[m].req
          PROVE  /\ req'[q].status \notin {"NONE", "DRAFT", "SUBMITTED", "REJECTED"}
                 /\ req'[q].approved /\ Rows(line'[q]) # {}
      <3>1. CASE m = n
        BY <3>1, <2>1, <1>2, <1>7, <1>9, <1>10
      <3>2. CASE m # n
        <4>1. q = task[m].req /\ task[m].status # "NONE"
          BY <3>2, <2>1, <1>10
        <4>2. /\ q \in Reqs /\ q # r /\ req[q].approved /\ Rows(line[q]) # {}
              /\ req[q].status \notin {"NONE", "DRAFT", "SUBMITTED", "REJECTED"}
          BY <4>1, <1>4 DEF PaperInv, TaskAgrees, Begun
        <4> QED
          BY <4>2, <1>7, <1>9
      <3> QED
        BY <3>1, <3>2
    <2> QED
      BY <2>1 DEF Begun
  <1>13. QuietRows'
    BY <1>6, <1>10 DEF PaperInv, QuietRows, Rows
  <1>14. CompleteRows'
    <2>1. \A i \in Rows(rows) : FullRow(rows[i])
      BY <1>6 DEF Rows, FullRow, PickRow
    <2> QED
      BY <2>1, <1>10 DEF PaperInv, CompleteRows
  <1> QED
    BY <1>7, <1>9, <1>10, <1>11, <1>12, <1>13, <1>14 DEF PaperInv, PaperType

LEMMA StartTaskKeeps ==
  ASSUME PaperInv, NEW n \in Numbers, StartTask(n)
  PROVE  PaperInv'
  <1> USE DEF paperVars
  <1>1. /\ task[n].status = "ASSIGNED" /\ UNCHANGED <<req, line, pick>>
        /\ task' = [task EXCEPT ![n].status = "IN_PROGRESS"]
    BY DEF StartTask
  <1>2. /\ task' \in [Numbers -> TaskRow]
        /\ \A m \in Numbers : /\ task'[m].req = task[m].req
                              /\ (task'[m].status # "NONE" <=> task[m].status # "NONE")
                              /\ (task'[m].status \in {"ASSIGNED", "IN_PROGRESS"}
                                    => task[m].status \in {"ASSIGNED", "IN_PROGRESS"})
    BY <1>1 DEF PaperInv, PaperType, TaskRow, TaskState
  <1>3. TaskAgrees'
    <2>1. \A m \in Numbers : task'[m].status # "NONE" =>
            /\ task'[m].req \in Reqs /\ req'[task'[m].req].no = m
            /\ \A i \in Lines : /\ pick'[m][i].asked = line'[task'[m].req][i].asked
                                /\ pick'[m][i].issued = line'[task'[m].req][i].issued
      BY <1>1, <1>2 DEF PaperInv, TaskAgrees
    <2>2. \A q \in Reqs : (\A m \in Numbers : task'[m].status # "NONE" => task'[m].req # q)
            => \A i \in Lines : line'[q][i].issued = 0
      BY <1>1, <1>2 DEF PaperInv, TaskAgrees
    <2> QED
      BY <2>1, <2>2 DEF TaskAgrees
  <1>6. Begun'
    <2>1. \A m \in Numbers : task[m].status # "NONE" =>
            /\ req[task[m].req].status \notin {"NONE", "DRAFT", "SUBMITTED", "REJECTED"}
            /\ req[task[m].req].approved /\ Rows(line[task[m].req]) # {}
      BY DEF PaperInv, Begun
    <2> QED
      BY <2>1, <1>1, <1>2 DEF Begun
  <1>4. PaperType' /\ NeverOverIssued' /\ IssuedIsComplete' /\ Numbered' /\ Sound'
    BY <1>1, <1>2 DEF PaperInv, PaperType, NeverOverIssued, IssuedIsComplete, Numbered, Sound
  <1>5. QuietRows' /\ CompleteRows'
    BY <1>1, <1>2 DEF PaperInv, QuietRows, CompleteRows
  <1> QED
    BY <1>3, <1>4, <1>5, <1>6 DEF PaperInv

LEMMA PaperSame ==
  ASSUME PaperInv, UNCHANGED <<req, line, task, pick>>
  PROVE  PaperInv'
  BY DEF PaperInv, PaperType, NeverOverIssued, TaskAgrees, IssuedIsComplete, Numbered,
         Begun, Sound, QuietRows, CompleteRows

-----------------------------------------------------------------------------
(* Every handler keeps the invariant.                                      *)

LEMMA PaperKeeps ==
  ASSUME RequestInv, [Next]_vars
  PROVE  PaperInv'
  <1> USE DEF vars, paperVars, taskVars, stockVars
  <1>0. PaperInv /\ StockType
    BY DEF RequestInv, StockInv
  <1>1. ASSUME NEW r \in Reqs, NEW n \in Numbers, NEW asked \in [Lines -> Qtys \cup {0}],
               CreateRequest(r, n, asked)
        PROVE  PaperInv'
    <2> DEFINE row == [status |-> "DRAFT", no |-> n, approved |-> FALSE]
               lines == [i \in Lines |-> [NoLine EXCEPT !.asked = asked[i]]]
    <2>1. row \in ReqRow
      BY DEF ReqRow, ReqStatus
    <2>2. lines \in [Lines -> LineRow] /\ \A i \in Lines : lines[i].issued = 0
      <3>1. \A i \in Lines : asked[i] \in Nat
        BY BoundFacts
      <3> QED
        BY <3>1, FreshRow
    <2>3. /\ req[r].status = "NONE" /\ req' = [req EXCEPT ![r] = row]
          /\ line' = [line EXCEPT ![r] = lines] /\ UNCHANGED taskVars
      BY <1>1 DEF CreateRequest
    <2> HIDE DEF row, lines
    <2>4. /\ req' \in [Reqs -> ReqRow] /\ line' \in [Reqs -> [Lines -> LineRow]]
          /\ \A q \in Reqs : q # r => req'[q] = req[q] /\ line'[q] = line[q]
          /\ req'[r] = row /\ line'[r] = lines
      BY <1>0, <2>1, <2>2, <2>3 DEF PaperInv, PaperType
    <2>5. row.no \in Numbers /\ row.status = "DRAFT"
      BY DEF row
    <2> QED
      BY <1>0, <2>2, <2>3, <2>4, <2>5, PaperStep
  <1>2. ASSUME NEW r \in Reqs, NEW i \in Lines, NEW new \in LineRow, new.issued = 0,
               Drafted(r), line' = [line EXCEPT ![r][i] = new],
               UNCHANGED <<req, taskVars>>
        PROVE  PaperInv'
    <2> DEFINE lines == [line[r] EXCEPT ![i] = new]
    <2>1. /\ req[r].status = "DRAFT" /\ req[r] \in ReqRow /\ req[r].no \in Numbers
          /\ line[r] \in [Lines -> LineRow] /\ req \in [Reqs -> ReqRow]
      BY <1>0, <1>2 DEF PaperInv, PaperType, Numbered, Drafted
    <2>2. lines \in [Lines -> LineRow] /\ \A j \in Lines : lines[j].issued = 0
      BY <1>0, <1>2, <2>1, NoTask
    <2>3. line' = [line EXCEPT ![r] = lines]
      BY <1>2, <2>1
    <2> HIDE DEF lines
    <2>4. /\ req' = req /\ line' \in [Reqs -> [Lines -> LineRow]] /\ line'[r] = lines
          /\ \A q \in Reqs : q # r => line'[q] = line[q]
      BY <1>0, <1>2, <2>2, <2>3 DEF PaperInv, PaperType
    <2>5. UNCHANGED taskVars
      BY <1>2
    <2> QED
      BY <1>0, <2>1, <2>2, <2>4, <2>5, PaperStep
  <1>3. ASSUME NEW r \in Reqs, NEW i \in Lines, NEW q \in Qtys, CreateLine(r, i, q)
        PROVE  PaperInv'
    <2>1. LET new == [NoLine EXCEPT !.asked = q] IN new \in LineRow /\ new.issued = 0
      BY BoundFacts, FreshRow
    <2> QED
      BY <1>2, <1>3, <2>1 DEF CreateLine
  <1>4. ASSUME NEW r \in Reqs, NEW i \in Lines, NEW q \in Qtys, UpdateLine(r, i, q)
        PROVE  PaperInv'
    <2>1. req[r].status = "DRAFT" /\ line[r][i] \in LineRow
      BY <1>0, <1>4 DEF UpdateLine, Drafted, PaperInv, PaperType
    <2>2. Edited(line[r][i], q) \in LineRow /\ Edited(line[r][i], q).issued = 0
      <3>1. line[r][i].issued = 0
        BY <1>0, <2>1, NoTask
      <3>2. q \in Nat
        BY BoundFacts
      <3> QED
        BY <2>1, <3>1, <3>2, EditedRow
    <2>3. line' = [line EXCEPT ![r][i] = Edited(line[r][i], q)]
      BY <1>0, <1>4 DEF UpdateLine, PaperInv, PaperType
    <2> QED
      BY <1>2, <1>4, <2>2, <2>3 DEF UpdateLine
  <1>5. ASSUME NEW r \in Reqs, NEW i \in Lines, DeleteLine(r, i)
        PROVE  PaperInv'
    <2>1. NoLine \in LineRow /\ NoLine.issued = 0
      BY DEF NoLine, LineRow, LineState
    <2> QED
      BY <1>2, <1>5, <2>1 DEF DeleteLine
  <1>6. ASSUME NEW r \in Reqs, NEW row \in ReqRow, NEW s \in LineState,
               req[r].status \in {"DRAFT", "SUBMITTED"}, Rows(line[r]) # {},
               row.no = req[r].no, row.status \in {"SUBMITTED", "APPROVED", "REJECTED"},
               row.status = "APPROVED" => row.approved,
               req' = [req EXCEPT ![r] = row],
               line' = [line EXCEPT ![r] = SetStatus(@, s)], UNCHANGED taskVars
        PROVE  PaperInv'
    <2> DEFINE lines == SetStatus(line[r], s)
    <2>1. line[r] \in [Lines -> LineRow] /\ line \in [Reqs -> [Lines -> LineRow]]
          /\ row.no \in Numbers
      BY <1>0, <1>6 DEF PaperInv, PaperType, Numbered
    <2>2. /\ lines \in [Lines -> LineRow] /\ Rows(lines) # {}
          /\ \A j \in Lines : lines[j].issued = 0
      <3>1. \A j \in Lines : line[r][j].issued = 0
        BY <1>0, <1>6, NoTask
      <3>2. /\ lines \in [Lines -> LineRow] /\ Rows(lines) = Rows(line[r])
            /\ \A j \in Lines : lines[j].issued = line[r][j].issued
        BY <2>1, MarkedRows
      <3> QED
        BY <1>6, <3>1, <3>2
    <2>3. line' = [line EXCEPT ![r] = lines]
      BY <1>6, <2>1
    <2> HIDE DEF lines
    <2>4. /\ req' \in [Reqs -> ReqRow] /\ line' \in [Reqs -> [Lines -> LineRow]]
          /\ \A q \in Reqs : q # r => req'[q] = req[q] /\ line'[q] = line[q]
          /\ req'[r] = row /\ line'[r] = lines
      BY <1>0, <1>6, <2>1, <2>2, <2>3 DEF PaperInv, PaperType
    <2>5. /\ req[r].status \in {"NONE", "DRAFT", "SUBMITTED", "REJECTED"}
          /\ row.status \notin {"NONE", "ISSUED", "PICKING", "PARTIALLY_ISSUED"}
          /\ row.status = "APPROVED" => row.approved
          /\ UNCHANGED taskVars
      BY <1>6
    <2> QED
      BY <1>0, <2>1, <2>2, <2>4, <2>5, PaperStep
  <1>7. ASSUME NEW r \in Reqs, Submit(r) \/ Approve(r) \/ Reject(r)
        PROVE  PaperInv'
    <2>1. req[r] \in ReqRow /\ req \in [Reqs -> ReqRow]
          /\ req[r].status \in {"DRAFT", "SUBMITTED"} /\ Rows(line[r]) # {}
      BY <1>0, <1>7 DEF Submit, Approve, Reject, Drafted, PaperInv, PaperType, Sound
    <2>2. {"REQUESTED", "ISSUE_READY", "REJECTED"} \subseteq LineState
      BY DEF LineState
    <2>3. CASE Submit(r)
      <3> DEFINE row == [req[r] EXCEPT !.status = "SUBMITTED"]
      <3>1. /\ row \in ReqRow /\ row.no = req[r].no /\ row.status = "SUBMITTED"
            /\ req' = [req EXCEPT ![r] = row]
        BY <2>1, <2>3 DEF Submit, ReqRow, ReqStatus
      <3> QED
        BY <1>6, <2>1, <2>2, <2>3, <3>1 DEF Submit
    <2>4. CASE Approve(r)
      <3> DEFINE row == [req[r] EXCEPT !.status = "APPROVED", !.approved = TRUE]
      <3>1. /\ row \in ReqRow /\ row.no = req[r].no /\ row.status = "APPROVED"
            /\ row.approved /\ req' = [req EXCEPT ![r] = row]
        BY <2>1, <2>4 DEF Approve, ReqRow, ReqStatus
      <3> QED
        BY <1>6, <2>1, <2>2, <2>4, <3>1 DEF Approve
    <2>5. CASE Reject(r)
      <3> DEFINE row == [req[r] EXCEPT !.status = "REJECTED"]
      <3>1. /\ row \in ReqRow /\ row.no = req[r].no /\ row.status = "REJECTED"
            /\ req' = [req EXCEPT ![r] = row]
        BY <2>1, <2>5 DEF Reject, ReqRow, ReqStatus
      <3> QED
        BY <1>6, <2>1, <2>2, <2>5, <3>1 DEF Reject
    <2> QED
      BY <1>7, <2>3, <2>4, <2>5
  <1>8. \A b \in Bins, delta \in Deltas : AdjustStock(b, delta) => PaperInv'
    BY <1>0, PaperSame DEF AdjustStock
  <1>9. \A take : Allocate(take) => PaperInv'
    BY <1>0, PaperSame DEF Allocate
  <1>10. UNCHANGED vars => PaperInv'
    BY <1>0, PaperSame
  <1> QED
    BY <1>0, <1>1, <1>3, <1>4, <1>5, <1>7, <1>8, <1>9, <1>10, CancelRequestKeeps,
       CreateTaskKeeps, StartTaskKeeps, PickKeeps, IssueKeeps, CloseKeeps, CancelTaskKeeps
    DEF Next

(* A new status of a task leaves every other task its own. *)
LEMMA StatusSet ==
  ASSUME NEW rows \in [Numbers -> TaskRow], NEW m, NEW s, s # "NONE",
         NEW n \in Numbers, rows[n].status # "NONE"
  PROVE  [rows EXCEPT ![m].status = s][n].status # "NONE"
  <1>1. CASE m = n
    BY <1>1 DEF TaskRow
  <1>2. CASE m # n
    BY <1>2
  <1> QED
    BY <1>1, <1>2

(* A task, once made, is never unmade.                                     *)
LEMMA TasksStay ==
  ASSUME PaperInv, [Next]_vars, NEW n \in Numbers, task[n].status # "NONE"
  PROVE  task'[n].status # "NONE"
  <1> USE DEF vars, paperVars, taskVars, stockVars
  <1>0. task \in [Numbers -> TaskRow]
    BY DEF PaperInv, PaperType
  <1>1. ASSUME NEW m \in Numbers, NEW rows, NEW lines, task[m].status # "NONE",
               Sync(m, rows, lines, task[m].status) \/ Sync(m, rows, lines, "CLOSED")
        PROVE  task'[n].status # "NONE"
    <2>1. /\ SyncedTask(rows, task[m].status) # "NONE"
          /\ SyncedTask(rows, "CLOSED") # "NONE"
      BY <1>1 DEF SyncedTask, TaskStatus
    <2>2. PICK s : s # "NONE" /\ task' = [task EXCEPT ![m].status = s]
      BY <1>1, <2>1 DEF Sync
    <2> QED
      BY <1>0, <2>2, StatusSet
  <1>2. \A m \in Numbers, i \in Lines, q \in Qtys : PickLine(m, i, q) => task'[n].status # "NONE"
    BY <1>1 DEF PickLine
  <1>3. \A m \in Numbers, i \in Lines, q \in Qtys, b \in Bins :
          IssueLine(m, i, q, b) => task'[n].status # "NONE"
    BY <1>1 DEF IssueLine
  <1>4. \A m \in Numbers : CloseTask(m) => task'[n].status # "NONE"
    BY <1>1 DEF CloseTask
  <1>5. \A m \in Numbers : CancelTask(m) \/ StartTask(m) => task'[n].status # "NONE"
    <2>1. ASSUME NEW m \in Numbers, CancelTask(m) \/ StartTask(m)
          PROVE  \E s : s # "NONE" /\ task' = [task EXCEPT ![m].status = s]
      BY <2>1 DEF CancelTask, StartTask
    <2> QED
      BY <1>0, <2>1, StatusSet
  <1>6. \A r \in Reqs : CreateTask(r) => task'[n].status # "NONE"
    <2>1. ASSUME NEW r \in Reqs, CreateTask(r)
          PROVE  \E m : task' = [task EXCEPT ![m] = [status |-> "ASSIGNED", req |-> r]]
      BY <2>1 DEF CreateTask
    <2>2. ASSUME NEW r \in Reqs, NEW m,
                 task' = [task EXCEPT ![m] = [status |-> "ASSIGNED", req |-> r]]
          PROVE  task'[n].status # "NONE"
      <3>1. CASE m = n
        BY <1>0, <2>2, <3>1
      <3>2. CASE m # n
        BY <1>0, <2>2, <3>2
      <3> QED
        BY <3>1, <3>2
    <2> QED
      BY <2>1, <2>2
  <1>7. UNCHANGED task => task'[n].status # "NONE"
    OBVIOUS
  <1> QED
    BY <1>2, <1>3, <1>4, <1>5, <1>6, <1>7
    DEF Next, CreateRequest, CreateLine, UpdateLine, DeleteLine, Submit, Approve, Reject,
        CancelRequest, AdjustStock, Allocate

LEMMA StockKeeps ==
  ASSUME RequestInv, [Next]_vars
  PROVE  StockInv'
  <1> USE DEF vars, paperVars, taskVars, stockVars
  <1>0. /\ PaperInv /\ NoStray
        /\ bal \in [Bins -> Balance] /\ out \in [Numbers -> [Lines -> [Bins -> Nat]]]
        /\ adjusted \in [Bins -> Int] /\ free \in [Pallets -> Nat]
    BY DEF RequestInv, StockInv, StockType
  <1>1. \A n \in Numbers : task[n].status # "NONE" => task'[n].status # "NONE"
    BY <1>0, TasksStay
  <1>2. UNCHANGED stockVars => StockInv'
    BY <1>0, <1>1 DEF StockInv, StockType, NoStray
  <1>3. ASSUME NEW n \in Numbers, NEW i \in Lines, NEW q \in Qtys, NEW b \in Bins,
               IssueLine(n, i, q, b), ~UNCHANGED stockVars
        PROVE  StockInv'
    <2>1. PICK taken : Withdraw(n, i, b, taken) /\ taken \in Nat
      <3> DEFINE target == Lesser(q, pick[n][i].asked - pick[n][i].issued)
      <3>1. Taken(target, b) > 0 => Withdraw(n, i, b, Taken(target, b))
        BY <1>3 DEF IssueLine
      <3>2. Taken(target, b) > 0
        BY <1>3 DEF IssueLine
      <3>3. pick[n][i].asked \in Nat /\ pick[n][i].issued \in Int /\ bal[b].available \in Int
        BY <1>0 DEF PaperInv, PaperType, PickRow, Balance
      <3>4. Taken(target, b) \in Int
        BY <3>3, BoundFacts DEF Taken, Lesser
      <3> QED
        BY <3>1, <3>2, <3>4
    <2>2. task[n].status # "NONE"
      BY <1>3 DEF IssueLine
    <2>3. Counted(bal[b], bal[b].onHand - taken) \in Balance
      <3>1. bal[b] \in Balance /\ bal[b].onHand - taken \in Int
        BY <1>0, <2>1 DEF Balance
      <3> QED
        BY <3>1, CountedRow
    <2>4. bal' \in [Bins -> Balance]
      BY <1>0, <2>1, <2>3 DEF Withdraw
    <2>5. /\ out' = [out EXCEPT ![n][i][b] = out[n][i][b] + taken]
          /\ out[n][i][b] + taken \in Nat
      BY <1>0, <2>1 DEF Withdraw
    <2>6. out' \in [Numbers -> [Lines -> [Bins -> Nat]]]
      BY <1>0, <2>5
    <2>7. \A m \in Numbers : m # n => out'[m] = out[m]
      BY <1>0, <2>5
    <2>8. NoStray'
      BY <1>0, <1>1, <2>2, <2>7 DEF NoStray
    <2> QED
      BY <1>0, <2>1, <2>4, <2>6, <2>8 DEF StockInv, StockType, Withdraw
  <1>4. ASSUME NEW b \in Bins, NEW delta \in Deltas, AdjustStock(b, delta)
        PROVE  StockInv'
    <2>1. bal[b] \in Balance /\ bal[b].onHand + delta \in Int /\ delta \in Int
      BY <1>0, QuantityAssumption DEF Balance
    <2>4. Counted(bal[b], bal[b].onHand + delta) \in Balance
      BY <2>1, CountedRow
    <2>2. bal' \in [Bins -> Balance]
      BY <1>0, <1>4, <2>4 DEF AdjustStock
    <2>3. adjusted' \in [Bins -> Int] /\ UNCHANGED <<out, free, task>>
      BY <1>0, <1>4, <2>1 DEF AdjustStock
    <2> QED
      BY <1>0, <2>2, <2>3 DEF StockInv, StockType, NoStray
  <1>5. ASSUME NEW take \in [Pallets -> Qtys \cup {0}], Allocate(take)
        PROVE  StockInv'
    <2>1. \A p \in Pallets : take[p] <= free[p]
      BY <1>5 DEF Allocate
    <2>2. free' \in [Pallets -> Nat]
      <3>1. \A p \in Pallets : take[p] \in Nat
        BY BoundFacts
      <3>2. \A p \in Pallets : free[p] - take[p] \in Nat
        BY <1>0, <2>1, <3>1
      <3> QED
        BY <1>5, <3>2 DEF Allocate
    <2>3. PICK promised \in [Bins -> Nat] :
            bal' = [b \in Bins |-> Promised(bal[b], promised[b])]
      BY <1>5 DEF Allocate
    <2>4. \A b \in Bins : Promised(bal[b], promised[b]) \in Balance
      BY <1>0, <2>3, PromisedRow
    <2>5. bal' \in [Bins -> Balance]
      BY <2>3, <2>4
    <2> QED
      BY <1>0, <1>5, <2>2, <2>5 DEF Allocate, StockInv, StockType, NoStray
  <1>6. /\ \A r \in Reqs, n \in Numbers : \A asked :
             CreateRequest(r, n, asked) => UNCHANGED stockVars
        /\ \A r \in Reqs, i \in Lines, q \in Qtys : CreateLine(r, i, q) => UNCHANGED stockVars
        /\ \A r \in Reqs, i \in Lines, q \in Qtys : UpdateLine(r, i, q) => UNCHANGED stockVars
        /\ \A r \in Reqs, i \in Lines : DeleteLine(r, i) => UNCHANGED stockVars
    BY DEF CreateRequest, CreateLine, UpdateLine, DeleteLine
  <1>7. /\ \A r \in Reqs : Submit(r) => UNCHANGED stockVars
        /\ \A r \in Reqs : Approve(r) => UNCHANGED stockVars
        /\ \A r \in Reqs : Reject(r) => UNCHANGED stockVars
        /\ \A r \in Reqs : CancelRequest(r) => UNCHANGED stockVars
        /\ \A r \in Reqs : CreateTask(r) => UNCHANGED stockVars
    BY DEF Submit, Approve, Reject, CancelRequest, CreateTask
  <1>8. \A n \in Numbers, i \in Lines, q \in Qtys : PickLine(n, i, q) => UNCHANGED stockVars
    BY DEF PickLine
  <1>10. /\ \A n \in Numbers : StartTask(n) => UNCHANGED stockVars
         /\ \A n \in Numbers : CloseTask(n) => UNCHANGED stockVars
         /\ \A n \in Numbers : CancelTask(n) => UNCHANGED stockVars
    BY DEF StartTask, CloseTask, CancelTask
  <1>9. \/ UNCHANGED stockVars
        \/ \E n \in Numbers, i \in Lines, q \in Qtys, b \in Bins : IssueLine(n, i, q, b)
        \/ \E b \in Bins, delta \in Deltas : AdjustStock(b, delta)
        \/ \E take \in [Pallets -> Qtys \cup {0}] : Allocate(take)
    <2>1. UNCHANGED vars => UNCHANGED stockVars
      OBVIOUS
    <2> HIDE DEF vars, paperVars, taskVars, stockVars
    <2>2. Next \/ UNCHANGED vars
      OBVIOUS
    <2> QED
      BY <2>1, <2>2, <1>6, <1>7, <1>8, <1>10, Zenon DEF Next
  <1> QED
    BY <1>2, <1>3, <1>4, <1>5, <1>9

-----------------------------------------------------------------------------
(* The invariant, for every value of the constants.                        *)
THEOREM RequestInvariant == Spec => []RequestInv
  <1>1. RequestInv /\ [Next]_vars => RequestInv'
    BY PaperKeeps, StockKeeps DEF RequestInv
  <1> QED
    BY InitInv, <1>1, PTL DEF Spec

(* The tables of requests, tasks and balances hold what the code writes.   *)
THEOREM RequestTypes == Spec => []TypeOK
  <1>1. RequestInv => TypeOK
    BY DEF RequestInv, PaperInv, StockInv, PaperType, StockType, TypeOK
  <1> QED
    BY RequestInvariant, <1>1, PTL

(* No line is issued beyond what was approved, by issueWarehouseTaskLine    *)
(* after any cancellation, close and restart of its task.                  *)
THEOREM NothingOverIssued == Spec => []NeverOverIssued
  <1>1. RequestInv => NeverOverIssued
    BY DEF RequestInv, PaperInv
  <1> QED
    BY RequestInvariant, <1>1, PTL

(* request_lines and warehouse_task_lines agree on every quantity.         *)
THEOREM TablesAgree == Spec => []TaskAgrees
  <1>1. RequestInv => TaskAgrees
    BY DEF RequestInv, PaperInv
  <1> QED
    BY RequestInvariant, <1>1, PTL

(* Goods leave stock only for a request that an approver approved.         *)
THEOREM IssueNeedsApproval == Spec => []ApprovedBeforeIssue
  <1>1. ASSUME RequestInv
        PROVE  ApprovedBeforeIssue
    <2>1. /\ \A n \in Numbers : task[n].status # "NONE" =>
               task[n].req \in Reqs /\ req[task[n].req].approved
          /\ NoStray
      BY <1>1 DEF RequestInv, PaperInv, StockInv, TaskAgrees, Begun
    <2> QED
      BY <2>1 DEF NoStray, ApprovedBeforeIssue
  <1> QED
    BY RequestInvariant, <1>1, PTL

(* A request that says ISSUED was issued in full.                          *)
THEOREM IssuedMeansComplete == Spec => []IssuedIsComplete
  <1>1. RequestInv => IssuedIsComplete
    BY DEF RequestInv, PaperInv
  <1> QED
    BY RequestInvariant, <1>1, PTL

-----------------------------------------------------------------------------
(* A request that is ISSUED is never touched again: each of its rows was    *)
(* issued in full, so no handler of its task finds anything left to do.    *)

FinalStep ==
  \A r \in Reqs : req[r].status = "ISSUED"
    => req'[r] = req[r] /\ \A i \in Lines : line'[r][i].issued = line[r][i].issued

\* Only request r and its lines change, and r is not ISSUED yet.
LEMMA OtherRequest ==
  ASSUME PaperInv, NEW r, NEW row, NEW lines, req[r].status # "ISSUED",
         req' = [req EXCEPT ![r] = row], line' = [line EXCEPT ![r] = lines]
  PROVE  FinalStep
  <1> SUFFICES ASSUME NEW q \in Reqs, req[q].status = "ISSUED"
               PROVE  req'[q] = req[q] /\ line'[q] = line[q]
    BY DEF FinalStep
  <1>1. q # r
    OBVIOUS
  <1> QED
    BY <1>1 DEF PaperInv, PaperType

LEMMA TaskOfIssued ==
  ASSUME PaperInv, NEW n \in Numbers, task[n].status # "NONE",
         req[task[n].req].status = "ISSUED"
  PROVE  /\ Rows(pick[n]) # {}
         /\ \A i \in Rows(pick[n]) : /\ pick[n][i].issued >= pick[n][i].asked
                                     /\ pick[n][i].issued > 0
                                     /\ FullRow(pick[n][i])
  <1> DEFINE r == task[n].req
  <1>1. /\ r \in Reqs /\ Rows(line[r]) # {} /\ Complete(line[r])
        /\ \A i \in Lines : /\ pick[n][i].asked = line[r][i].asked
                            /\ pick[n][i].issued = line[r][i].issued
        /\ pick[n] \in [Lines -> PickRow]
        /\ \A i \in Rows(pick[n]) : FullRow(pick[n][i])
    BY DEF PaperInv, PaperType, TaskAgrees, Begun, IssuedIsComplete, CompleteRows
  <1>2. Rows(pick[n]) = Rows(line[r])
    BY <1>1 DEF Rows
  <1>3. \A i \in Rows(pick[n]) : pick[n][i].issued >= pick[n][i].asked
    BY <1>1, <1>2 DEF Complete, Rows
  <1>4. \A i \in Rows(pick[n]) :
          pick[n][i].asked > 0 /\ pick[n][i].asked \in Nat /\ pick[n][i].issued \in Int
    BY <1>1 DEF Rows, PickRow
  <1> QED
    BY <1>1, <1>2, <1>3, <1>4

LEMMA FinalKept ==
  ASSUME RequestInv, [Next]_vars
  PROVE  FinalStep
  <1> USE DEF vars, paperVars, taskVars, stockVars
  <1>0. /\ PaperInv /\ req \in [Reqs -> ReqRow] /\ line \in [Reqs -> [Lines -> LineRow]]
        /\ \A n \in Numbers : pick[n] \in [Lines -> PickRow]
    BY DEF RequestInv, PaperInv, PaperType
  <1>1. UNCHANGED paperVars => FinalStep
    BY DEF FinalStep
  <1>2. \A r \in Reqs, n \in Numbers : \A asked : CreateRequest(r, n, asked) => FinalStep
    BY <1>0, OtherRequest DEF CreateRequest
  <1>3. ASSUME NEW r \in Reqs, NEW i \in Lines, NEW q,
               CreateLine(r, i, q) \/ UpdateLine(r, i, q) \/ DeleteLine(r, i)
        PROVE  FinalStep
    <2>1. req[r].status = "DRAFT" /\ req' = req
          /\ \A s \in Reqs : s # r => line'[s] = line[s]
      BY <1>0, <1>3 DEF CreateLine, UpdateLine, DeleteLine, Drafted
    <2> QED
      BY <2>1 DEF FinalStep
  <1>4. ASSUME NEW r \in Reqs,
               Submit(r) \/ Approve(r) \/ Reject(r) \/ CancelRequest(r) \/ CreateTask(r)
        PROVE  FinalStep
    <2>1. /\ req[r].status # "ISSUED"
          /\ \A q \in Reqs : q # r => req'[q] = req[q] /\ line'[q] = line[q]
      BY <1>0, <1>4 DEF Submit, Approve, Reject, CancelRequest, CreateTask, Drafted,
                        ReadyForTask
    <2> QED
      BY <2>1 DEF FinalStep
  <1>5. ASSUME NEW n \in Numbers, NEW i \in Lines, NEW q \in Qtys, PickLine(n, i, q)
        PROVE  FinalStep
    <2>1. /\ task[n].status \in {"ASSIGNED", "IN_PROGRESS"} /\ i \in Rows(pick[n])
          /\ pick[n][i].status # "ISSUED"
          /\ \E rows, lines, s : Sync(n, rows, lines, s)
      BY <1>5 DEF PickLine
    <2>2. pick[n][i].status \notin {"PICKED", "SHORTED", "PARTIALLY_ISSUED"}
      BY <1>0, <2>1 DEF PaperInv, QuietRows
    <2>3. req[task[n].req].status # "ISSUED"
      BY <1>0, <2>1, <2>2, TaskOfIssued DEF FullRow
    <2> QED
      BY <1>0, <2>1, <2>3 DEF Sync, FinalStep
  <1>6. ASSUME NEW n \in Numbers, NEW i \in Lines, NEW q \in Qtys, NEW b \in Bins,
               IssueLine(n, i, q, b)
        PROVE  FinalStep
    <2>1. /\ task[n].status # "NONE" /\ i \in Rows(pick[n])
          /\ Lesser(q, pick[n][i].asked - pick[n][i].issued) > 0
          /\ \E rows, lines, s : Sync(n, rows, lines, s)
      BY <1>6 DEF IssueLine
    <2>2. pick[n][i].asked \in Nat /\ pick[n][i].issued \in Int
      BY <1>0, <2>1 DEF Rows, PickRow
    <2>3. ~(pick[n][i].issued >= pick[n][i].asked)
      BY <2>1, <2>2, BoundFacts DEF Lesser
    <2>4. req[task[n].req].status # "ISSUED"
      BY <1>0, <2>1, <2>3, TaskOfIssued
    <2> QED
      BY <1>0, <2>1, <2>4 DEF Sync, FinalStep
  <1>7. ASSUME NEW n \in Numbers, CloseTask(n)
        PROVE  FinalStep
    <2> DEFINE r == task[n].req
    <2>1. task[n].status # "NONE" /\ Sync(n, pick[n], line[r], "CLOSED")
      BY <1>7 DEF CloseTask
    <2>2. r \in Reqs
      BY <1>0, <2>1 DEF PaperInv, TaskAgrees
    <2>3. line' = line /\ \A q \in Reqs : q # r => req'[q] = req[q]
      BY <1>0, <2>1, <2>2 DEF Sync
    <2>4. req[r].status = "ISSUED" => SyncedStatus(line[r], "CLOSED") = "ISSUED"
      BY <1>0, <2>2 DEF SyncedStatus, PaperInv, Sound, IssuedIsComplete
    <2>5. SyncedTask(pick[n], "CLOSED") = "CLOSED"
      BY DEF SyncedTask
    <2>6. req' = [req EXCEPT ![r].status = SyncedStatus(line[r], "CLOSED")]
      BY <2>1, <2>5 DEF Sync
    <2>7. req[r].status = "ISSUED" => req'[r] = req[r]
      BY <1>0, <2>2, <2>4, <2>6 DEF ReqRow
    <2> QED
      BY <2>3, <2>7 DEF FinalStep
  <1>8. ASSUME NEW n \in Numbers, CancelTask(n)
        PROVE  FinalStep
    <2>1. /\ task[n].status # "NONE" /\ \A i \in Rows(pick[n]) : pick[n][i].issued <= 0
          /\ \A q \in Reqs : q # task[n].req => req'[q] = req[q] /\ line'[q] = line[q]
      BY <1>0, <1>8 DEF CancelTask, Cancellable
    <2>2. \A i \in Rows(pick[n]) : pick[n][i].issued \in Int
      BY <1>0 DEF Rows, PickRow
    <2>3. req[task[n].req].status # "ISSUED"
      BY <1>0, <2>1, <2>2, TaskOfIssued
    <2> QED
      BY <2>1, <2>3 DEF FinalStep
  <1> QED
    BY <1>1, <1>2, <1>3, <1>4, <1>5, <1>6, <1>7, <1>8
    DEF Next, StartTask, AdjustStock, Allocate

(* An ISSUED request keeps its row and the quantities of its lines for ever, *)
(* whoever cancels, closes or starts again what belongs to it.             *)
THEOREM IssuedForGood == Spec => IssuedIsFinal
  <1>1. RequestInv /\ [Next]_vars => [FinalStep]_vars
    BY FinalKept
  <1>2. [FinalStep]_vars => [\A r \in Reqs : req[r].status = "ISSUED"
          => req'[r] = req[r] /\ \A i \in Lines : line'[r][i].issued = line[r][i].issued]_vars
    BY DEF FinalStep
  <1> QED
    BY RequestInvariant, <1>1, <1>2, PTL DEF Spec, IssuedIsFinal
-----------------------------------------------------------------------------
(* Balances and movements.                                                 *)

\* What the handlers rely on in a balance without looking: a promise is never
\* negative, and no more is available than is there.
Balanced == \A b \in Bins : bal[b].reserved >= 0 /\ bal[b].available <= bal[b].onHand

LEMMA PairsFinite == IsFiniteSet(Numbers \X Lines)
  <1>1. IsFiniteSet(Lines)
    BY BoundAssumption, FS_Interval DEF Lines
  <1> QED
    BY <1>1, NumberAssumption, FS_Product

LEMMA WithdrawnType ==
  ASSUME NEW moves \in [Numbers -> [Lines -> [Bins -> Nat]]], NEW b \in Bins
  PROVE  Withdrawn(moves, b) \in Int
  <1> DEFINE P == Numbers \X Lines
             f == [x \in P |-> moves[x[1]][x[2]][b]]
  <1>1. f \in [P -> Int] /\ IsFiniteSet(P)
    BY PairsFinite
  <1>2. SumFunction(f) \in Int
    <2> HIDE DEF f, P
    <2> QED BY <1>1, SumFunctionType
  <1> QED BY <1>2 DEF Withdrawn

\* One movement grows by q.
Grown(rows, new, n, i, b, q) == new = [rows EXCEPT ![n][i][b] = @ + q]

\* What left each bin, when one movement of bin b grows.
LEMMA WithdrawnGrows ==
  ASSUME NEW moves \in [Numbers -> [Lines -> [Bins -> Nat]]], NEW n \in Numbers,
         NEW i \in Lines, NEW b \in Bins, NEW q \in Nat, NEW c \in Bins,
         NEW more, Grown(moves, more, n, i, b, q)
  PROVE  Withdrawn(more, c) = IF c = b THEN Withdrawn(moves, b) + q ELSE Withdrawn(moves, c)
  <1> DEFINE P == Numbers \X Lines
             f == [x \in P |-> moves[x[1]][x[2]][c]]
             g == [x \in P |-> more[x[1]][x[2]][c]]
  <1>1. more = [moves EXCEPT ![n][i][b] = @ + q]
    BY DEF Grown
  <1>2. f \in [P -> Int] /\ g \in [P -> Int]
    BY <1>1
  <1>3. \A x \in P \ {<<n, i>>} : g[x] = f[x]
    BY <1>1
  <1>4. /\ <<n, i>> \in P /\ f[<<n, i>>] \in Int
        /\ g[<<n, i>>] = IF c = b THEN f[<<n, i>>] + q ELSE f[<<n, i>>]
    BY <1>1
  <1>5. SumFunction(g) = SumFunction(f) + g[<<n, i>>] - f[<<n, i>>] /\ SumFunction(f) \in Int
    <2>1. IsFiniteSet(P)
      BY PairsFinite
    <2> HIDE DEF f, g, P
    <2>2. SumFunction(g) = SumFunction(f) + g[<<n, i>>] - f[<<n, i>>]
      BY ONLY <1>2, <1>3, <1>4, <2>1, SumFunctionChanged
    <2> QED BY ONLY <1>2, <2>1, <2>2, SumFunctionType
  <1>6. SumFunction(f) = Withdrawn(moves, c) /\ SumFunction(g) = Withdrawn(more, c)
    BY DEF Withdrawn
  <1> HIDE DEF f, g, P
  <1>7. c = b => SumFunction(f) = Withdrawn(moves, b)
    BY <1>6
  <1>8. Withdrawn(more, c) = IF c = b THEN Withdrawn(moves, b) + q ELSE Withdrawn(moves, c)
    BY <1>4, <1>5, <1>6, <1>7
  <1> QED BY <1>8

\* Only three handlers write stock.
LEMMA StockWriters ==
  ASSUME [Next]_vars
  PROVE  \/ UNCHANGED stockVars
         \/ \E n \in Numbers, i \in Lines, q \in Qtys, b \in Bins : IssueLine(n, i, q, b)
         \/ \E b \in Bins, delta \in Deltas : AdjustStock(b, delta)
         \/ \E take \in [Pallets -> Qtys \cup {0}] : Allocate(take)
  <1>1. /\ \A r \in Reqs, n \in Numbers : \A asked :
             CreateRequest(r, n, asked) => UNCHANGED stockVars
        /\ \A r \in Reqs, i \in Lines, q \in Qtys : CreateLine(r, i, q) => UNCHANGED stockVars
        /\ \A r \in Reqs, i \in Lines, q \in Qtys : UpdateLine(r, i, q) => UNCHANGED stockVars
        /\ \A r \in Reqs, i \in Lines : DeleteLine(r, i) => UNCHANGED stockVars
    BY DEF CreateRequest, CreateLine, UpdateLine, DeleteLine
  <1>2. /\ \A r \in Reqs : Submit(r) => UNCHANGED stockVars
        /\ \A r \in Reqs : Approve(r) => UNCHANGED stockVars
        /\ \A r \in Reqs : Reject(r) => UNCHANGED stockVars
        /\ \A r \in Reqs : CancelRequest(r) => UNCHANGED stockVars
        /\ \A r \in Reqs : CreateTask(r) => UNCHANGED stockVars
    BY DEF Submit, Approve, Reject, CancelRequest, CreateTask
  <1>3. \A n \in Numbers, i \in Lines, q \in Qtys : PickLine(n, i, q) => UNCHANGED stockVars
    BY DEF PickLine
  <1>4. /\ \A n \in Numbers : StartTask(n) => UNCHANGED stockVars
        /\ \A n \in Numbers : CloseTask(n) => UNCHANGED stockVars
        /\ \A n \in Numbers : CancelTask(n) => UNCHANGED stockVars
    BY DEF StartTask, CloseTask, CancelTask
  <1>5. UNCHANGED vars => UNCHANGED stockVars
    BY DEF vars
  <1> QED
    BY <1>1, <1>2, <1>3, <1>4, <1>5, Zenon DEF Next

\* What an issue that writes stock takes: something, and no more than there is.
LEMMA WithdrawnQuantity ==
  ASSUME RequestInv, NEW n \in Numbers, NEW i \in Lines, NEW q \in Qtys, NEW b \in Bins,
         IssueLine(n, i, q, b), ~UNCHANGED stockVars
  PROVE  \E taken \in Nat : Withdraw(n, i, b, taken) /\ taken <= bal[b].available
  <1> DEFINE target == Lesser(q, pick[n][i].asked - pick[n][i].issued)
  <1>1. Taken(target, b) > 0 /\ Withdraw(n, i, b, Taken(target, b))
    BY DEF IssueLine
  <1>2. pick[n][i].asked \in Nat /\ pick[n][i].issued \in Int /\ bal[b].available \in Int
    BY DEF RequestInv, PaperInv, PaperType, PickRow, StockInv, StockType, Balance
  <1>3. Taken(target, b) \in Int /\ Taken(target, b) <= bal[b].available
    BY <1>2, BoundFacts DEF Taken, Lesser
  <1> QED
    BY <1>1, <1>3

\* A quantity counted into a balance that keeps its promises.
LEMMA CountedBalance ==
  ASSUME NEW row \in Balance, row.reserved >= 0, NEW onHand \in Nat
  PROVE  LET new == Counted(row, onHand)
         IN new.onHand = onHand /\ new.reserved = row.reserved /\ new.available <= onHand
  BY DEF Counted, Balance, Greater

BooksInv == StockReconciles /\ Balanced

LEMMA BooksInit == Init => BooksInv
  <1> SUFFICES ASSUME Init PROVE BooksInv
    OBVIOUS
  <1>1. ASSUME NEW b \in Bins PROVE Withdrawn(out, b) = 0
    <2> DEFINE P == Numbers \X Lines
               f == [x \in P |-> out[x[1]][x[2]][b]]
    <2>1. \A x \in P : f[x] = 0
      BY DEF Init
    <2>2. DOMAIN f = P /\ IsFiniteSet(P)
      BY PairsFinite
    <2>3. SumFunction(f) = 0
      <3> HIDE DEF f, P
      <3> QED BY <2>1, <2>2, SumFunctionZero
    <2> QED BY <2>3 DEF Withdrawn
  <1>2. \A b \in Bins : /\ bal[b].onHand = InitStock[b] /\ InitStock[b] \in Nat
                        /\ adjusted[b] = 0 /\ bal[b].reserved = 0
                        /\ bal[b].available = InitStock[b]
    BY StockAssumption DEF Init
  <1> QED
    BY <1>1, <1>2 DEF BooksInv, StockReconciles, Balanced

LEMMA BooksKeep ==
  ASSUME RequestInv, BooksInv, [Next]_vars
  PROVE  BooksInv'
  <1>0. /\ bal \in [Bins -> Balance] /\ adjusted \in [Bins -> Int]
        /\ out \in [Numbers -> [Lines -> [Bins -> Nat]]]
        /\ \A b \in Bins : InitStock[b] \in Nat
        /\ \A b \in Bins : /\ bal[b].onHand = InitStock[b] + adjusted[b] - Withdrawn(out, b)
                           /\ bal[b].onHand >= 0 /\ bal[b].onHand \in Int
                           /\ bal[b].reserved >= 0 /\ bal[b].available <= bal[b].onHand
    BY StockAssumption
    DEF RequestInv, StockInv, StockType, BooksInv, StockReconciles, Balanced, Balance
  <1>1. CASE UNCHANGED stockVars
    <2>1. \A b \in Bins : Withdrawn(out', b) = Withdrawn(out, b)
      BY <1>1 DEF stockVars
    <2> QED BY <1>0, <1>1, <2>1 DEF stockVars, BooksInv, StockReconciles, Balanced
  <1>6. \A b \in Bins : Withdrawn(out, b) \in Int
    BY <1>0, WithdrawnType
  <1>2. ASSUME NEW n \in Numbers, NEW i \in Lines, NEW q \in Qtys, NEW b \in Bins,
               IssueLine(n, i, q, b), ~UNCHANGED stockVars
        PROVE  BooksInv'
    <2>1. PICK taken \in Nat : Withdraw(n, i, b, taken) /\ taken <= bal[b].available
      BY <1>2, WithdrawnQuantity
    <2>2. \A c \in Bins : Withdrawn(out', c) = IF c = b THEN Withdrawn(out, b) + taken
                                             ELSE Withdrawn(out, c)
      <3>1. Grown(out, out', n, i, b, taken)
        BY <2>1 DEF Withdraw, Grown
      <3> QED BY <1>0, <3>1, WithdrawnGrows
    <2>3. bal[b] \in Balance /\ bal[b].onHand - taken \in Nat
      BY <1>0, <2>1 DEF Balance
    <2> DEFINE new == Counted(bal[b], bal[b].onHand - taken)
    <2>4. /\ new.onHand = bal[b].onHand - taken
          /\ new.reserved >= 0 /\ new.available <= new.onHand
      BY <1>0, <2>3, CountedBalance
    <2>5. /\ bal'[b] = new /\ \A c \in Bins : c # b => bal'[c] = bal[c]
          /\ adjusted' = adjusted
      BY <1>0, <2>1 DEF Withdraw
    <2> HIDE DEF new
    <2>6. ASSUME NEW c \in Bins
          PROVE  /\ bal'[c].onHand = InitStock[c] + adjusted'[c] - Withdrawn(out', c)
                 /\ bal'[c].onHand >= 0
                 /\ bal'[c].reserved >= 0 /\ bal'[c].available <= bal'[c].onHand
      <3>1. CASE c = b
        BY <1>0, <1>6, <2>2, <2>3, <2>4, <2>5, <3>1
      <3>2. CASE c # b
        BY <1>0, <2>2, <2>5, <3>2
      <3> QED BY <3>1, <3>2
    <2> QED BY <2>6 DEF BooksInv, StockReconciles, Balanced
  <1>3. ASSUME NEW b \in Bins, NEW delta \in Deltas, AdjustStock(b, delta)
        PROVE  BooksInv'
    <2>1. /\ delta \in Int /\ bal[b] \in Balance /\ bal[b].onHand + delta \in Nat
          /\ bal' = [bal EXCEPT ![b] = Counted(@, bal[b].onHand + delta)]
          /\ adjusted' = [adjusted EXCEPT ![b] = @ + delta] /\ out' = out
      BY <1>0, <1>3, QuantityAssumption DEF AdjustStock
    <2>2. \A c \in Bins : Withdrawn(out', c) = Withdrawn(out, c)
      BY <2>1
    <2> DEFINE new == Counted(bal[b], bal[b].onHand + delta)
    <2>3. /\ new.onHand = bal[b].onHand + delta
          /\ new.reserved >= 0 /\ new.available <= new.onHand
      BY <1>0, <2>1, CountedBalance
    <2>4. /\ bal'[b] = new /\ adjusted'[b] = adjusted[b] + delta
          /\ \A c \in Bins : c # b => bal'[c] = bal[c] /\ adjusted'[c] = adjusted[c]
      BY <1>0, <2>1
    <2> HIDE DEF new
    <2>5. ASSUME NEW c \in Bins
          PROVE  /\ bal'[c].onHand = InitStock[c] + adjusted'[c] - Withdrawn(out', c)
                 /\ bal'[c].onHand >= 0
                 /\ bal'[c].reserved >= 0 /\ bal'[c].available <= bal'[c].onHand
      <3>1. CASE c = b
        BY <1>0, <1>6, <2>1, <2>2, <2>3, <2>4, <3>1
      <3>2. CASE c # b
        BY <1>0, <2>2, <2>4, <3>2
      <3> QED BY <3>1, <3>2
    <2> QED BY <2>5 DEF BooksInv, StockReconciles, Balanced
  <1>4. ASSUME NEW take \in [Pallets -> Qtys \cup {0}], Allocate(take)
        PROVE  BooksInv'
    <2>1. PICK promised \in [Bins -> Nat] :
            bal' = [b \in Bins |-> Promised(bal[b], promised[b])]
      BY <1>4 DEF Allocate
    <2>2. out' = out /\ adjusted' = adjusted
      BY <1>4 DEF Allocate
    <2>3. \A c \in Bins : Withdrawn(out', c) = Withdrawn(out, c)
      BY <2>2
    <2>4. ASSUME NEW c \in Bins
          PROVE  /\ bal'[c].onHand = bal[c].onHand
                 /\ bal'[c].reserved >= 0 /\ bal'[c].available <= bal'[c].onHand
      <3>1. bal'[c] = Promised(bal[c], promised[c]) /\ promised[c] \in Nat /\ bal[c] \in Balance
        BY <1>0, <2>1
      <3> QED BY <1>0, <3>1 DEF Promised, Balance
    <2> QED BY <1>0, <2>2, <2>3, <2>4 DEF BooksInv, StockReconciles, Balanced
  <1> QED
    BY <1>1, <1>2, <1>3, <1>4, StockWriters

(* A balance is what the movements of its bin add up to, and never negative. *)
THEOREM StockAddsUp == Spec => []StockReconciles
  <1>1. RequestInv /\ BooksInv /\ [Next]_vars => BooksInv'
    BY BooksKeep
  <1>2. BooksInv => StockReconciles
    BY DEF BooksInv
  <1> QED
    BY BooksInit, RequestInvariant, <1>1, <1>2, PTL DEF Spec

-----------------------------------------------------------------------------
(* A request that was issued in full says so.                              *)

\* What was not asked for is not issued, and what nobody approved has no task.
BlankRow(row) == row.asked = 0 => row.issued = 0
Unapproved(row) ==
  row.status \in {"NONE", "DRAFT", "SUBMITTED", "REJECTED"} => ~row.approved

DoneInv ==
  \A r \in Reqs : /\ \A i \in Lines : BlankRow(line[r][i])
                  /\ Unapproved(req[r])
                  /\ req[r].approved /\ Complete(line[r]) => req[r].status = "ISSUED"

\* Lines that are issued in full, and are not all blank, come to something.
LEMMA CompleteTotal ==
  ASSUME NEW rows \in [Lines -> LineRow], Complete(rows), Rows(rows) # {},
         \A i \in Lines : BlankRow(rows[i])
  PROVE  ~(Total(rows) <= 0)
  <1> DEFINE f == [i \in Lines |-> rows[i].issued]
  <1>1. \A i \in Lines : rows[i].asked \in Nat /\ rows[i].issued \in Int
    BY DEF LineRow
  <1>2. f \in [Lines -> Nat]
    BY <1>1 DEF Complete, Rows, BlankRow
  <1>3. PICK i \in Lines : f[i] > 0
    BY <1>1 DEF Complete, Rows
  <1>4. IsFiniteSet(Lines)
    BY BoundAssumption, FS_Interval DEF Lines
  <1>5. f[i] <= SumFunction(f) /\ SumFunction(f) \in Nat
    <2> HIDE DEF f
    <2> QED BY <1>2, <1>4, SumFunctionNatural
  <1>6. f[i] \in Nat
    BY <1>2
  <1> QED
    BY <1>3, <1>5, <1>6 DEF Total

\* Lines of which some was asked and nothing issued are not complete.
LEMMA NothingIssued ==
  ASSUME NEW rows \in [Lines -> LineRow], Rows(rows) # {},
         \A i \in Rows(rows) : rows[i].issued <= 0
  PROVE  ~Complete(rows)
  <1>1. PICK i \in Rows(rows) : TRUE
    OBVIOUS
  <1>2. rows[i].asked > 0 /\ rows[i].asked \in Nat /\ rows[i].issued \in Int
    BY DEF Rows, LineRow
  <1> QED
    BY <1>1, <1>2 DEF Complete

\* A handler that writes one request.
LEMMA DoneStep ==
  ASSUME DoneInv, NEW r \in Reqs,
         \A q \in Reqs : q # r => req'[q] = req[q] /\ line'[q] = line[q],
         \A i \in Lines : BlankRow(line'[r][i]), Unapproved(req'[r]),
         req'[r].approved /\ Complete(line'[r]) => req'[r].status = "ISSUED"
  PROVE  DoneInv'
  BY DEF DoneInv

\* The lines that syncWarehouseRequest finds, and a task that is not cancelled.
LEMMA DoneSync ==
  ASSUME RequestInv, DoneInv, NEW n \in Numbers, task[n].status # "NONE",
         NEW rows, NEW lines \in [Lines -> LineRow], NEW status,
         Sync(n, rows, lines, status), SyncedTask(rows, status) # "CANCELLED",
         \A i \in Lines : /\ lines[i].asked = line[task[n].req][i].asked
                          /\ BlankRow(lines[i])
  PROVE  DoneInv'
  <1> DEFINE r == task[n].req
             new == SyncedStatus(lines, SyncedTask(rows, status))
  <1>1. r \in Reqs /\ Rows(line[r]) # {} /\ req \in [Reqs -> ReqRow]
        /\ line \in [Reqs -> [Lines -> LineRow]]
    BY DEF RequestInv, PaperInv, PaperType, TaskAgrees, Begun
  <1>2. req' = [req EXCEPT ![r].status = new] /\ line' = [line EXCEPT ![r] = lines]
    BY DEF Sync
  <1>3. Rows(lines) # {}
    BY <1>1 DEF Rows
  <1>4. Complete(lines) => new = "ISSUED"
    BY <1>3, CompleteTotal DEF SyncedStatus
  <1>5. new \in {"CANCELLED", "PICKING", "ISSUED", "PARTIALLY_ISSUED"}
    BY StatusOfRequest
  <1> HIDE DEF new, r
  <1>6. /\ req'[r].status = new /\ line'[r] = lines
        /\ \A q \in Reqs : q # r => req'[q] = req[q] /\ line'[q] = line[q]
    BY <1>1, <1>2 DEF ReqRow
  <1>7. \A i \in Lines : BlankRow(line'[r][i])
    BY <1>6
  <1>8. Unapproved(req'[r])
    BY <1>5, <1>6 DEF Unapproved
  <1> QED
    BY <1>1, <1>4, <1>6, <1>7, <1>8, DoneStep

\* A task with a line that is not cancelled does not become so.
LEMMA NotCancelled ==
  ASSUME NEW rows, NEW status, status \in TaskState \ {"CANCELLED"},
         NEW i \in Rows(rows), rows[i].status # "CANCELLED"
  PROVE  SyncedTask(rows, status) # "CANCELLED"
  <1>1. {rows[j].status : j \in Rows(rows)} # {"CANCELLED"}
    OBVIOUS
  <1> QED
    BY <1>1 DEF SyncedTask, TaskStatus, TaskState

LEMMA DonePick ==
  ASSUME RequestInv, DoneInv, NEW n \in Numbers, NEW i \in Lines, NEW q \in Qtys,
         PickLine(n, i, q)
  PROVE  DoneInv'
  <1> DEFINE r == task[n].req
             p == pick[n][i]
             picked == Lesser(q, p.asked)
             short == p.asked - picked
             status == LineStatus(p.asked, 0, short, picked)
             rows == [pick[n] EXCEPT ![i] = [p EXCEPT !.picked = picked, !.short = short,
                                                      !.status = status]]
             lines == [line[r] EXCEPT ![i].status = status]
  <1>1. /\ task[n].status \in {"ASSIGNED", "IN_PROGRESS"} /\ i \in Rows(pick[n])
        /\ Sync(n, rows, lines, task[n].status)
    BY DEF PickLine
  <1>2. /\ r \in Reqs /\ p \in PickRow /\ line[r] \in [Lines -> LineRow]
        /\ pick[n] \in [Lines -> PickRow]
    BY <1>1 DEF RequestInv, PaperInv, PaperType, TaskAgrees
  <1>3. status \in PickState /\ status # "CANCELLED"
    BY StatusOfLine DEF LineStatus
  <1> HIDE DEF status
  <1>4. rows[i].status = status /\ i \in Rows(rows)
    BY <1>1, <1>2 DEF Rows, PickRow
  <1>5. /\ lines \in [Lines -> LineRow]
        /\ \A j \in Lines : lines[j].asked = line[r][j].asked /\ lines[j].issued = line[r][j].issued
    BY <1>2, <1>3 DEF LineRow, LineState
  <1> HIDE DEF rows, lines
  <1>6. SyncedTask(rows, task[n].status) # "CANCELLED"
    BY <1>1, <1>3, <1>4, NotCancelled DEF TaskState
  <1>7. \A j \in Lines : BlankRow(lines[j])
    BY <1>2, <1>5 DEF DoneInv, BlankRow
  <1> QED
    BY <1>1, <1>5, <1>6, <1>7, DoneSync

LEMMA DoneIssue ==
  ASSUME RequestInv, DoneInv, NEW n \in Numbers, NEW i \in Lines, NEW q \in Qtys,
         NEW b \in Bins, IssueLine(n, i, q, b)
  PROVE  DoneInv'
  <1> DEFINE r == task[n].req
             p == pick[n][i]
             target == Lesser(q, p.asked - p.issued)
             taken == Taken(target, b)
             short == p.short + Greater(0, target - taken)
             issued == p.issued + taken
             picked == Greater(p.picked, issued + short)
             status == LineStatus(p.asked, taken, short, picked)
             rows == [pick[n] EXCEPT ![i] = [p EXCEPT !.picked = picked, !.issued = issued,
                                                      !.short = short, !.status = status]]
             lines == [line[r] EXCEPT ![i] = Served(@, taken, status)]
  <1>1. /\ task[n].status \in {"IN_PROGRESS", "PICKED", "PARTIALLY_ISSUED", "EXCEPTION"}
        /\ i \in Rows(pick[n]) /\ Sync(n, rows, lines, task[n].status)
    BY DEF IssueLine
  <1>2. /\ r \in Reqs /\ p \in PickRow /\ line[r] \in [Lines -> LineRow]
        /\ pick[n] \in [Lines -> PickRow] /\ pick[n][i].asked = line[r][i].asked
    BY <1>1 DEF RequestInv, PaperInv, PaperType, TaskAgrees
  <1>3. p.asked \in Nat /\ p.issued \in Int /\ bal[b].available \in Int /\ p.asked > 0
    BY <1>1, <1>2 DEF PickRow, RequestInv, StockInv, StockType, Balance, Rows
  <1>4. taken \in Int
    BY <1>3, BoundFacts DEF Taken, Lesser
  <1>5. status \in PickState /\ status # "CANCELLED"
    BY StatusOfLine DEF LineStatus
  <1> HIDE DEF status, taken, short, issued, picked
  <1>6. rows[i].status = status /\ i \in Rows(rows)
    BY <1>1, <1>2 DEF Rows, PickRow
  <1>7. /\ lines \in [Lines -> LineRow]
        /\ \A j \in Lines : lines[j].asked = line[r][j].asked
        /\ \A j \in Lines : j # i => lines[j] = line[r][j]
    <2>1. LET row == Served(line[r][i], taken, status)
          IN row \in LineRow /\ row.asked = line[r][i].asked
      BY <1>2, <1>4, <1>5, ServedRow DEF LineState
    <2> QED BY <1>2, <2>1
  <1> HIDE DEF rows, lines
  <1>8. SyncedTask(rows, task[n].status) # "CANCELLED"
    BY <1>1, <1>5, <1>6, NotCancelled DEF TaskState
  <1>9. \A j \in Lines : BlankRow(lines[j])
    BY <1>2, <1>3, <1>7 DEF DoneInv, BlankRow
  <1> QED
    BY <1>1, <1>7, <1>8, <1>9, DoneSync

LEMMA DoneClose ==
  ASSUME RequestInv, DoneInv, NEW n \in Numbers, CloseTask(n)
  PROVE  DoneInv'
  <1> DEFINE r == task[n].req
  <1>1. task[n].status # "NONE" /\ Sync(n, pick[n], line[r], "CLOSED")
    BY DEF CloseTask
  <1>2. r \in Reqs /\ line[r] \in [Lines -> LineRow]
    BY <1>1 DEF RequestInv, PaperInv, PaperType, TaskAgrees
  <1>3. SyncedTask(pick[n], "CLOSED") # "CANCELLED"
    BY DEF SyncedTask
  <1>4. \A j \in Lines : BlankRow(line[r][j])
    BY <1>2 DEF DoneInv
  <1> QED
    BY <1>1, <1>2, <1>3, <1>4, DoneSync

\* Marking lines leaves what they ask and what was issued of them.
LEMMA MarkedComplete ==
  ASSUME NEW rows \in [Lines -> LineRow], NEW s \in LineState
  PROVE  /\ Complete(SetStatus(rows, s)) <=> Complete(rows)
         /\ \A i \in Lines : BlankRow(rows[i]) => BlankRow(SetStatus(rows, s)[i])
  <1>1. /\ \A i \in Lines : /\ SetStatus(rows, s)[i].asked = rows[i].asked
                            /\ SetStatus(rows, s)[i].issued = rows[i].issued
        /\ Rows(SetStatus(rows, s)) = Rows(rows)
    BY MarkedRows
  <1>2. \A i \in Rows(rows) : i \in Lines
    BY DEF Rows
  <1> QED
    BY <1>1, <1>2 DEF Complete, BlankRow

\* A handler that marks the lines of one request, and gives it a status.
LEMMA DoneMark ==
  ASSUME RequestInv, DoneInv, NEW r \in Reqs, NEW s \in LineState, NEW row,
         req' = [req EXCEPT ![r] = row], line' = [line EXCEPT ![r] = SetStatus(@, s)],
         Unapproved(row),
         row.approved /\ Complete(line[r]) => row.status = "ISSUED"
  PROVE  DoneInv'
  <1>1. req \in [Reqs -> ReqRow] /\ line \in [Reqs -> [Lines -> LineRow]]
        /\ line[r] \in [Lines -> LineRow]
    BY DEF RequestInv, PaperInv, PaperType
  <1>2. /\ \A q \in Reqs : q # r => req'[q] = req[q] /\ line'[q] = line[q]
        /\ req'[r] = row /\ line'[r] = SetStatus(line[r], s)
    BY <1>1
  <1>3. \A i \in Lines : BlankRow(line'[r][i])
    BY <1>1, <1>2, MarkedComplete DEF DoneInv
  <1>4. Complete(line'[r]) <=> Complete(line[r])
    BY <1>1, <1>2, MarkedComplete
  <1> QED
    BY <1>2, <1>3, <1>4, DoneStep

\* Before approval nothing was issued, and there is something to issue.
LEMMA EarlyLines ==
  ASSUME RequestInv, NEW r \in Reqs, req[r].status \in {"NONE", "DRAFT", "SUBMITTED", "REJECTED"}
  PROVE  /\ \A i \in Lines : line[r][i].issued = 0
         /\ Rows(line[r]) # {} => ~Complete(line[r])
  <1>1. \A i \in Lines : line[r][i].issued = 0
    BY NoTask DEF RequestInv
  <1>2. line[r] \in [Lines -> LineRow]
    BY DEF RequestInv, PaperInv, PaperType
  <1>3. \A i \in Rows(line[r]) : line[r][i].issued <= 0
    BY <1>1 DEF Rows
  <1> QED
    BY <1>1, <1>2, <1>3, NothingIssued

\* The department's handlers.
LEMMA DonePaper ==
  ASSUME RequestInv, DoneInv, NEW r \in Reqs,
         Submit(r) \/ Approve(r) \/ Reject(r) \/ CancelRequest(r)
  PROVE  DoneInv'
  <1>1. /\ req \in [Reqs -> ReqRow] /\ req[r] \in ReqRow /\ Unapproved(req[r])
        /\ req[r].approved /\ Complete(line[r]) => req[r].status = "ISSUED"
    BY DEF RequestInv, PaperInv, PaperType, DoneInv
  <1>2. {"REQUESTED", "ISSUE_READY", "REJECTED", "CANCELLED"} \subseteq LineState
    BY DEF LineState, PickState
  <1>3. CASE Submit(r)
    <2> DEFINE row == [req[r] EXCEPT !.status = "SUBMITTED"]
    <2>1. /\ req' = [req EXCEPT ![r] = row] /\ row.approved = req[r].approved
          /\ ~row.approved /\ row.status = "SUBMITTED"
          /\ line' = [line EXCEPT ![r] = SetStatus(@, "REQUESTED")]
      BY <1>1, <1>3 DEF Submit, Drafted, ReqRow, Unapproved
    <2> HIDE DEF row
    <2> QED BY <1>2, <2>1, DoneMark DEF Unapproved
  <1>4. CASE Approve(r)
    <2> DEFINE row == [req[r] EXCEPT !.status = "APPROVED", !.approved = TRUE]
    <2>1. /\ req' = [req EXCEPT ![r] = row] /\ row.status = "APPROVED"
          /\ req[r].status = "SUBMITTED"
          /\ line' = [line EXCEPT ![r] = SetStatus(@, "ISSUE_READY")]
      BY <1>1, <1>4 DEF Approve, ReqRow
    <2>2. Rows(line[r]) # {}
      BY <2>1 DEF RequestInv, PaperInv, Sound
    <2>3. ~Complete(line[r])
      BY <2>1, <2>2, EarlyLines
    <2> HIDE DEF row
    <2> QED BY <1>2, <2>1, <2>3, DoneMark DEF Unapproved
  <1>5. CASE Reject(r)
    <2> DEFINE row == [req[r] EXCEPT !.status = "REJECTED"]
    <2>1. /\ req' = [req EXCEPT ![r] = row] /\ ~row.approved
          /\ line' = [line EXCEPT ![r] = SetStatus(@, "REJECTED")]
      BY <1>1, <1>5 DEF Reject, ReqRow, Unapproved
    <2> HIDE DEF row
    <2> QED BY <1>2, <2>1, DoneMark DEF Unapproved
  <1>6. CASE CancelRequest(r)
    <2> DEFINE row == [req[r] EXCEPT !.status = "CANCELLED"]
    <2>1. /\ req' = [req EXCEPT ![r] = row] /\ row.approved = req[r].approved
          /\ row.status = "CANCELLED" /\ req[r].status # "ISSUED"
          /\ line' = [line EXCEPT ![r] = SetStatus(@, "CANCELLED")]
      BY <1>1, <1>6 DEF CancelRequest, ReqRow
    <2> HIDE DEF row
    <2> QED BY <1>1, <1>2, <2>1, DoneMark DEF Unapproved
  <1> QED
    BY <1>3, <1>4, <1>5, <1>6

\* Drafts.
LEMMA DoneDraft ==
  ASSUME RequestInv, DoneInv, NEW r \in Reqs,
         req[r].status \in {"NONE", "DRAFT"}, ~req'[r].approved,
         \A q \in Reqs : q # r => req'[q] = req[q] /\ line'[q] = line[q],
         \A i \in Lines : line'[r][i].issued = 0
  PROVE  DoneInv'
  <1>1. (\A i \in Lines : BlankRow(line'[r][i])) /\ Unapproved(req'[r])
    BY DEF BlankRow, Unapproved
  <1> QED
    BY <1>1, DoneStep

LEMMA DoneEdit ==
  ASSUME RequestInv, DoneInv, NEW r \in Reqs, NEW i \in Lines,
         \/ \E q \in Qtys : CreateLine(r, i, q) \/ UpdateLine(r, i, q)
         \/ DeleteLine(r, i)
  PROVE  DoneInv'
  <1>1. /\ req' = req /\ req[r].status = "DRAFT"
    BY DEF CreateLine, UpdateLine, DeleteLine, Drafted
  <1>2. ~req'[r].approved
    BY <1>1 DEF DoneInv, Unapproved
  <1>3. /\ line \in [Reqs -> [Lines -> LineRow]] /\ line[r][i] \in LineRow
        /\ \A j \in Lines : line[r][j].issued = 0
    BY <1>1, EarlyLines DEF RequestInv, PaperInv, PaperType
  <1>4. PICK new : new.issued = 0 /\ line' = [line EXCEPT ![r][i] = new]
    <2>1. /\ NoLine.issued = 0
          /\ \A q \in Qtys : [NoLine EXCEPT !.asked = q].issued = 0
      BY DEF NoLine
    <2>2. \A q \in Qtys : Edited(line[r][i], q).issued = 0
      BY <1>3, BoundFacts, EditedRow
    <2> QED BY <1>3, <2>1, <2>2 DEF CreateLine, UpdateLine, DeleteLine
  <1>5. /\ \A p \in Reqs : p # r => line'[p] = line[p]
        /\ \A j \in Lines : line'[r][j].issued = 0
    BY <1>3, <1>4
  <1> QED
    BY <1>1, <1>2, <1>5, DoneDraft

LEMMA DoneCreate ==
  ASSUME RequestInv, DoneInv, NEW r \in Reqs, NEW n \in Numbers,
         NEW asked \in [Lines -> Qtys \cup {0}], CreateRequest(r, n, asked)
  PROVE  DoneInv'
  <1> DEFINE row == [status |-> "DRAFT", no |-> n, approved |-> FALSE]
             lines == [i \in Lines |-> [NoLine EXCEPT !.asked = asked[i]]]
  <1>1. /\ req[r].status = "NONE" /\ req' = [req EXCEPT ![r] = row]
        /\ line' = [line EXCEPT ![r] = lines]
    BY DEF CreateRequest
  <1>2. ~row.approved /\ \A i \in Lines : lines[i].issued = 0
    BY DEF NoLine
  <1>3. req \in [Reqs -> ReqRow] /\ line \in [Reqs -> [Lines -> LineRow]]
    BY DEF RequestInv, PaperInv, PaperType
  <1> HIDE DEF row, lines
  <1>4. /\ \A q \in Reqs : q # r => req'[q] = req[q] /\ line'[q] = line[q]
        /\ req'[r] = row /\ line'[r] = lines
    BY <1>1, <1>3
  <1> QED
    BY <1>1, <1>2, <1>4, DoneDraft

\* A task is made for a request of which nothing was issued.
LEMMA DoneTask ==
  ASSUME RequestInv, DoneInv, NEW r \in Reqs, CreateTask(r)
  PROVE  DoneInv'
  <1> DEFINE row == [req[r] EXCEPT !.status = "PICKING"]
  <1>1. /\ req[r].status \in ReadyForTask /\ task[req[r].no].status = "NONE"
        /\ req' = [req EXCEPT ![r] = row]
        /\ line' = [line EXCEPT ![r] = SetStatus(@, "PICK_PENDING")]
    BY DEF CreateTask, NewTask, RequestInv, PaperInv, PaperType
  <1>2. \A n \in Numbers : task[n].status # "NONE" => task[n].req # r
    BY <1>1 DEF RequestInv, PaperInv, TaskAgrees
  <1>3. \A i \in Lines : line[r][i].issued = 0
    BY <1>2 DEF RequestInv, PaperInv, TaskAgrees
  <1>4. Rows(line[r]) # {} /\ line[r] \in [Lines -> LineRow] /\ req[r] \in ReqRow
    BY <1>1 DEF RequestInv, PaperInv, PaperType, Sound, ReadyForTask
  <1>5. ~Complete(line[r])
    <2>1. \A i \in Rows(line[r]) : line[r][i].issued <= 0
      BY <1>3 DEF Rows
    <2> QED BY <1>4, <2>1, NothingIssued
  <1>6. row.status = "PICKING"
    BY <1>4 DEF ReqRow
  <1>7. "PICK_PENDING" \in LineState
    BY DEF LineState, PickState
  <1> HIDE DEF row
  <1> QED
    BY <1>1, <1>5, <1>6, <1>7, DoneMark DEF Unapproved

\* A task is cancelled only when nothing was issued of it.
LEMMA DoneCancel ==
  ASSUME RequestInv, DoneInv, NEW n \in Numbers, CancelTask(n)
  PROVE  DoneInv'
  <1> DEFINE r == task[n].req
             row == [req[r] EXCEPT !.status = "APPROVED"]
  <1>1. /\ task[n].status # "NONE" /\ \A i \in Rows(pick[n]) : pick[n][i].issued <= 0
        /\ req' = [req EXCEPT ![r].status = "APPROVED"]
        /\ line' = [line EXCEPT ![r] = SetStatus(@, "ISSUE_READY")]
    BY DEF CancelTask, Cancellable
  <1>2. /\ r \in Reqs /\ line[r] \in [Lines -> LineRow] /\ req \in [Reqs -> ReqRow]
        /\ \A i \in Lines : /\ pick[n][i].asked = line[r][i].asked
                            /\ pick[n][i].issued = line[r][i].issued
        /\ Rows(line[r]) # {}
    BY <1>1 DEF RequestInv, PaperInv, PaperType, TaskAgrees, Begun
  <1>3. ~Complete(line[r])
    <2>1. \A i \in Rows(line[r]) : line[r][i].issued <= 0
      BY <1>1, <1>2 DEF Rows
    <2> QED BY <1>2, <2>1, NothingIssued
  <1>4. row.status = "APPROVED" /\ req' = [req EXCEPT ![r] = row]
    BY <1>1, <1>2 DEF ReqRow
  <1>5. "ISSUE_READY" \in LineState
    BY DEF LineState
  <1> HIDE DEF row, r
  <1> QED
    BY <1>1, <1>2, <1>3, <1>4, <1>5, DoneMark DEF Unapproved, r

LEMMA DoneInit == Init => DoneInv
  BY DEF Init, DoneInv, BlankRow, Unapproved, NoLine

LEMMA DoneKeeps ==
  ASSUME RequestInv, DoneInv, [Next]_vars
  PROVE  DoneInv'
  <1>1. UNCHANGED <<req, line>> => DoneInv'
    BY DEF DoneInv
  <1>2. ASSUME NEW n \in Numbers, StartTask(n) PROVE DoneInv'
    BY <1>1, <1>2 DEF StartTask, paperVars
  <1>3. ASSUME NEW b \in Bins, NEW delta \in Deltas, AdjustStock(b, delta) PROVE DoneInv'
    BY <1>1, <1>3 DEF AdjustStock, paperVars
  <1>4. ASSUME NEW take \in [Pallets -> Qtys \cup {0}], Allocate(take) PROVE DoneInv'
    BY <1>1, <1>4 DEF Allocate, paperVars
  <1>5. CASE UNCHANGED vars
    BY <1>1, <1>5 DEF vars, paperVars
  <1> QED
    BY <1>2, <1>3, <1>4, <1>5, DoneCreate, DoneEdit, DonePaper, DoneTask, DonePick,
       DoneIssue, DoneClose, DoneCancel DEF Next

(* A request that was approved and issued in full is ISSUED.               *)
THEOREM CompleteMeansIssued == Spec => []CompleteIsIssued
  <1>1. RequestInv /\ DoneInv /\ [Next]_vars => DoneInv'
    BY DoneKeeps
  <1>2. DoneInv => CompleteIsIssued
    BY DEF DoneInv, CompleteIsIssued
  <1> QED
    BY DoneInit, RequestInvariant, <1>1, <1>2, PTL DEF Spec
=============================================================================
