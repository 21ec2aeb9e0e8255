---------------------------- MODULE StockProofs ----------------------------
(***************************************************************************)
(* Theorems about the four desks that write one stock: receiving, cycle    *)
(* counts, work done offline and its review.                               *)
(*                                                                         *)
(* First the book: every handler that changes what a bin holds writes one  *)
(* movement for it (Entry), and an entry keeps the book.  Then each desk   *)
(* in turn: what its rows say agrees with the movements written in its     *)
(* name, because no other handler writes under that name.                  *)
(***************************************************************************)
EXTENDS Receiving, CycleCount, OfflineSync, SyncReview,
        SumTheorems, SequenceTheorems, TLAPS

-----------------------------------------------------------------------------
(* Stock. The rows of balances and movements are passed as arguments: a    *)
(* replay works on copies of them.                                         *)

Balances == [Bins -> BalanceRow]
Ledgers == [References -> [Bins -> Int]]

SoundRow(row) ==
  /\ 0 <= row.onHand
  /\ row.onHand - row.reserved <= row.available
  /\ row.available <= row.onHand
ExplainedRow(row, ledger, b) ==
  row.onHand = Shelved[b] + SumFunction([r \in References |-> ledger[r][b]])
Book(rows, ledger) ==
  \A b \in Bins : SoundRow(rows[b]) /\ ExplainedRow(rows[b], ledger, b)

\* A bin's balance changes by the q that is written of it, and stays sound.
Entry(rows, ledger, r, b, q, rows2, ledger2) ==
  /\ rows2 = [rows EXCEPT ![b] = rows2[b]]
  /\ rows2[b] \in BalanceRow
  /\ rows2[b].onHand = rows[b].onHand + q
  /\ SoundRow(rows[b]) => SoundRow(rows2[b])
  /\ ledger2 = Explained(ledger, r, b, q)

LEMMA BookMeans ==
  Book(bal, moved) => \A b \in Bins : BinExplained(b) /\ BinSound(b)
BY DEF Book, SoundRow, ExplainedRow, BinExplained, BinSound

LEMMA ReferencesFinite == IsFiniteSet(References)
<1>1. IsFiniteSet({}) 
  BY FS_EmptySet
<1>2. IsFiniteSet({"manual_adjustment"} )
  BY FS_Singleton
<1>3. IsFiniteSet({"manual_adjustment"} \cup {"receive_session"})
  BY <1>2, FS_AddElement
<1>4. IsFiniteSet(({"manual_adjustment"} \cup {"receive_session"}) \cup {"cycle_count_session"})
  BY <1>3, FS_AddElement
<1>5. IsFiniteSet((({"manual_adjustment"} \cup {"receive_session"}) \cup {"cycle_count_session"})
                  \cup {"offline_batch"})
  BY <1>4, FS_AddElement
<1> DEFINE most == ((({"manual_adjustment"} \cup {"receive_session"})
                     \cup {"cycle_count_session"}) \cup {"offline_batch"})
<1>6. IsFiniteSet(most \cup {"sync_batch"})
  <2> HIDE DEF most
  <2> QED BY <1>5, FS_AddElement DEF most
<1>7. References = most \cup {"sync_batch"}
  BY DEF References
<1> QED BY <1>6, <1>7

LEMMA StockInitially ==
  ASSUME StockInit
  PROVE  /\ StockTypes /\ Book(bal, moved)
         /\ \A r \in References : \A b \in Bins : moved[r][b] = 0
<1>1. StockTypes
  BY StockAssumption DEF StockInit, StockTypes, BalanceRow
<1>2. ASSUME NEW b \in Bins
      PROVE  SoundRow(bal[b]) /\ ExplainedRow(bal[b], moved, b)
  <2>1. /\ bal[b].onHand = Shelved[b] /\ bal[b].reserved = Promises[b]
        /\ bal[b].available = Shelved[b] - Promises[b]
        /\ Shelved[b] \in Nat /\ Promises[b] \in Nat /\ Promises[b] <= Shelved[b]
    BY StockAssumption DEF StockInit
  <2> DEFINE f == [r \in References |-> moved[r][b]]
  <2>2. \A r \in References : f[r] = 0
    BY DEF StockInit
  <2>3. SumFunction(f) = 0
    <3> HIDE DEF f
    <3> QED BY <2>2, ReferencesFinite, SumFunctionZero DEF f
  <2> QED BY <2>1, <2>3 DEF SoundRow, ExplainedRow
<1>3. \A r \in References : \A b \in Bins : moved[r][b] = 0
  BY DEF StockInit
<1> QED BY <1>1, <1>2, <1>3 DEF Book

Rewritten(row, x, y) == [row EXCEPT !.onHand = x, !.available = y]

LEMMA RowRewritten ==
  ASSUME NEW row \in BalanceRow, NEW x \in Int, NEW y \in Int
  PROVE  /\ Rewritten(row, x, y) \in BalanceRow
         /\ Rewritten(row, x, y).onHand = x /\ Rewritten(row, x, y).available = y
         /\ Rewritten(row, x, y).reserved = row.reserved
BY DEF BalanceRow, Rewritten

LEMMA RowColumns ==
  ASSUME NEW row \in BalanceRow
  PROVE  row.onHand \in Int /\ row.available \in Int /\ row.reserved \in Nat
BY DEF BalanceRow

\* What is written of a bin explains what became of it.
LEMMA BinKeeps ==
  ASSUME NEW ledger \in Ledgers, NEW ledger2 \in Ledgers, NEW r \in References, NEW b \in Bins,
         NEW q \in Int, NEW row, row.onHand \in Int, NEW row2, row2.onHand = row.onHand + q,
         \A o \in References :
           ledger2[o][b] = IF o = r THEN ledger[o][b] + q ELSE ledger[o][b],
         ExplainedRow(row, ledger, b)
  PROVE  ExplainedRow(row2, ledger2, b)
<1> DEFINE f == [o \in References |-> ledger[o][b]]
           g == [o \in References |-> ledger2[o][b]]
<1>1. f \in [References -> Int] /\ g \in [References -> Int]
  BY DEF Ledgers
<1>2. (\A o \in References \ {r} : g[o] = f[o]) /\ g[r] = f[r] + q
  OBVIOUS
<1>3. row.onHand = Shelved[b] + SumFunction(f)
  BY DEF ExplainedRow
<1>4. f[r] \in Int /\ g[r] \in Int /\ Shelved[b] \in Int
  BY <1>1, StockAssumption
<1> HIDE DEF f, g
<1>5. SumFunction(g) = SumFunction(f) + g[r] - f[r] /\ SumFunction(f) \in Int
  BY <1>1, <1>2, ReferencesFinite, SumFunctionChanged, SumFunctionType
<1>6. row2.onHand = Shelved[b] + SumFunction(g)
  BY <1>2, <1>3, <1>4, <1>5
<1> QED BY <1>6 DEF ExplainedRow, g

\* An entry keeps the types, the book and what is written of other handlers.
LEMMA EntryKeeps ==
  ASSUME NEW rows \in Balances, NEW ledger \in Ledgers, NEW r \in References, NEW b \in Bins,
         NEW q \in Int, NEW rows2, NEW ledger2, Entry(rows, ledger, r, b, q, rows2, ledger2)
  PROVE  /\ rows2 \in Balances /\ ledger2 \in Ledgers
         /\ Book(rows, ledger) => Book(rows2, ledger2)
         /\ \A o \in References : o # r => ledger2[o] = ledger[o]
<1>1. /\ rows2 = [rows EXCEPT ![b] = rows2[b]] /\ rows2[b] \in BalanceRow
      /\ ledger2 = [ledger EXCEPT ![r][b] = @ + q]
  BY DEF Entry, Explained
<1>2. rows2 \in Balances /\ \A c \in Bins : c # b => rows2[c] = rows[c]
  BY <1>1 DEF Balances
<1>3. /\ ledger2 \in Ledgers
      /\ \A o \in References, c \in Bins :
           ledger2[o][c] = IF o = r /\ c = b THEN ledger[o][c] + q ELSE ledger[o][c]
      /\ \A o \in References : o # r => ledger2[o] = ledger[o]
  BY <1>1 DEF Ledgers
<1>4. ASSUME NEW c \in Bins, Book(rows, ledger)
      PROVE  SoundRow(rows2[c]) /\ ExplainedRow(rows2[c], ledger2, c)
  <2>1. SoundRow(rows[c]) /\ ExplainedRow(rows[c], ledger, c)
    BY <1>4 DEF Book
  <2>2. CASE c = b
    <3>1. \A o \in References :
            ledger2[o][b] = IF o = r THEN ledger[o][b] + q ELSE ledger[o][b]
      BY <1>3
    <3>2. rows2[b].onHand = rows[b].onHand + q /\ SoundRow(rows2[b])
      BY <2>1, <2>2 DEF Entry
    <3>3. rows[b].onHand \in Int /\ ExplainedRow(rows[b], ledger, b)
      BY <2>1, <2>2, RowColumns DEF Balances
    <3> QED BY <1>3, <2>2, <3>1, <3>2, <3>3, BinKeeps
  <2>3. CASE c # b
    <3>1. [o \in References |-> ledger[o][c]] = [o \in References |-> ledger2[o][c]]
      BY <1>3, <2>3
    <3> QED BY <1>2, <2>1, <2>3, <3>1 DEF ExplainedRow
  <2> QED BY <2>2, <2>3
<1> QED BY <1>2, <1>3, <1>4 DEF Book

\* More of what a bin holds and offers, unless it is more than it offers that goes.
LEMMA GainedKeeps ==
  ASSUME NEW row \in BalanceRow, NEW q \in Int,
         \/ 0 <= q \/ 0 <= row.available + q \/ 0 <= row.onHand + q
  PROVE  /\ Gained(row, q) \in BalanceRow /\ Gained(row, q).onHand = row.onHand + q
         /\ SoundRow(row) => SoundRow(Gained(row, q))
<1> DEFINE new == Gained(row, q)
<1>1. row.onHand + q \in Int /\ row.available + q \in Int
  BY RowColumns
<1>2. new = Rewritten(row, row.onHand + q, row.available + q)
  BY DEF Gained, Rewritten
<1> HIDE DEF new
<1>3. /\ new \in BalanceRow /\ new.onHand = row.onHand + q
      /\ new.available = row.available + q /\ new.reserved = row.reserved
  BY <1>1, <1>2, RowRewritten
<1>4. SoundRow(row) => SoundRow(new)
  BY <1>3, RowColumns DEF SoundRow
<1> QED BY <1>3, <1>4 DEF new

LEMMA GainedIsEntry ==
  ASSUME NEW rows \in Balances, NEW ledger, NEW r, NEW b \in Bins, NEW q \in Int,
         \/ 0 <= q \/ 0 <= rows[b].available + q \/ 0 <= rows[b].onHand + q
  PROVE  Entry(rows, ledger, r, b, q,
               [rows EXCEPT ![b] = Gained(@, q)], Explained(ledger, r, b, q))
<1> DEFINE new == Gained(rows[b], q)
           rows2 == [rows EXCEPT ![b] = Gained(@, q)]
<1>1. rows[b] \in BalanceRow
  BY DEF Balances
<1>2. /\ new \in BalanceRow /\ new.onHand = rows[b].onHand + q
      /\ SoundRow(rows[b]) => SoundRow(new)
  BY <1>1, GainedKeeps
<1>3. rows2 = [rows EXCEPT ![b] = new] /\ rows2[b] = new
  BY DEF Balances
<1> HIDE DEF new, rows2
<1> QED BY <1>2, <1>3 DEF Entry, rows2

\* What is counted in a bin.
LEMMA RecountedIsEntry ==
  ASSUME NEW rows \in Balances, NEW ledger, NEW r, NEW b \in Bins, NEW n \in Nat, NEW q \in Int,
         n = rows[b].onHand + q
  PROVE  Entry(rows, ledger, r, b, q,
               [rows EXCEPT ![b] = Recounted(@, n)], Explained(ledger, r, b, q))
<1> DEFINE new == Recounted(rows[b], n)
           rows2 == [rows EXCEPT ![b] = Recounted(@, n)]
<1>1. rows[b] \in BalanceRow
  BY DEF Balances
<1>2. /\ new \in BalanceRow /\ new.onHand = n /\ new.reserved = rows[b].reserved
      /\ new.available = IF n - new.reserved < 0 THEN 0 ELSE n - new.reserved
  <2> DEFINE left == AtLeastZero(n - rows[b].reserved)
  <2>1. left \in Int
    BY <1>1, RowColumns DEF AtLeastZero
  <2>2. left = IF n - rows[b].reserved < 0 THEN 0 ELSE n - rows[b].reserved
    BY DEF AtLeastZero
  <2> HIDE DEF left
  <2>3. new = Rewritten(rows[b], n, left)
    BY DEF Recounted, Rewritten, left
  <2> HIDE DEF new
  <2>4. n \in Int
    OBVIOUS
  <2>5. /\ new \in BalanceRow /\ new.onHand = n /\ new.available = left
        /\ new.reserved = rows[b].reserved
    BY <1>1, <2>1, <2>3, <2>4, RowRewritten
  <2> QED BY <2>2, <2>5
<1>3. rows2 = [rows EXCEPT ![b] = new] /\ rows2[b] = new
  BY DEF Balances
<1>4. new.reserved \in Nat /\ new.available \in Int
  BY <1>2, RowColumns
<1> HIDE DEF new
<1>5. SoundRow(rows[b]) => SoundRow(new)
  BY <1>2, <1>4 DEF SoundRow
<1> HIDE DEF rows2
<1> QED BY <1>2, <1>3, <1>5 DEF Entry, rows2

\* The hand adjustment is an entry of its own.
LEMMA AdjustKeeps ==
  ASSUME StockTypes, AdjustStock
  PROVE  /\ StockTypes' /\ (Book(bal, moved) => Book(bal', moved'))
         /\ \A r \in References : r # "manual_adjustment" => moved'[r] = moved[r]
<1>1. PICK b \in Bins, d \in HandDeltas :
        /\ bal[b].onHand + d >= 0
        /\ bal' = [bal EXCEPT ![b] = Recounted(@, @.onHand + d)]
        /\ moved' = Explained(moved, "manual_adjustment", b, d)
  BY DEF AdjustStock
<1>2. bal \in Balances /\ moved \in Ledgers /\ "manual_adjustment" \in References
  BY DEF StockTypes, Balances, Ledgers, References
<1>3. d \in Int /\ bal[b].onHand \in Int
  BY <1>2, StockAssumption DEF Balances, BalanceRow
<1> DEFINE n == bal[b].onHand + d
<1>4. n \in Nat /\ bal' = [bal EXCEPT ![b] = Recounted(@, n)]
  BY <1>1, <1>3
<1>5. n = bal[b].onHand + d
  OBVIOUS
<1> HIDE DEF n
<1>6. Entry(bal, moved, "manual_adjustment", b, d, bal', moved')
  <2> DEFINE bal2 == [bal EXCEPT ![b] = Recounted(@, n)]
             ledger2 == Explained(moved, "manual_adjustment", b, d)
  <2>1. Entry(bal, moved, "manual_adjustment", b, d, bal2, ledger2)
    BY <1>2, <1>3, <1>4, <1>5, RecountedIsEntry
  <2>2. bal' = bal2 /\ moved' = ledger2
    BY <1>1, <1>4
  <2> HIDE DEF bal2, ledger2
  <2> QED BY <2>1, <2>2
<1> QED BY <1>2, <1>3, <1>6, EntryKeeps DEF StockTypes, Balances, Ledgers

-----------------------------------------------------------------------------
(* Receiving.                                                              *)

PostedOf(rows) == {s \in Sessions : rows[s].status = "POSTED"}
\* What the posted sessions of a table say of a line, in one of its columns.
ColumnOf(rows, l, c) == [s \in PostedOf(rows) |-> rows[s].lines[l].got[c]]
Columns == {"received", "damaged", "short"}

ReceivingRowTypes ==
  /\ order \in OrderStatus
  /\ tally \in [OrderLines -> Quantities]
  /\ session \in [Sessions -> SessionRow]
\* A line that a session does not have carries nothing.
AbsentLinesEmpty ==
  \A s \in Sessions, l \in OrderLines :
    session[s].lines[l].ordered = 0 => session[s].lines[l].got = Nothing
ReceivingInv == ReceivingRowTypes /\ AbsentLinesEmpty /\ ReceiptsAgree

LEMMA PostedTotalColumns ==
  ASSUME NEW rows, NEW l
  PROVE  PostedTotal(rows, l) =
           [received |-> SumFunction(ColumnOf(rows, l, "received")),
            damaged |-> SumFunction(ColumnOf(rows, l, "damaged")),
            short |-> SumFunction(ColumnOf(rows, l, "short"))]
<1> DEFINE got == [s \in PostedOf(rows) |-> rows[s].lines[l].got]
<1>1. /\ [s \in DOMAIN got |-> got[s].received] = ColumnOf(rows, l, "received")
      /\ [s \in DOMAIN got |-> got[s].damaged] = ColumnOf(rows, l, "damaged")
      /\ [s \in DOMAIN got |-> got[s].short] = ColumnOf(rows, l, "short")
  BY DEF ColumnOf
<1>2. PostedTotal(rows, l) =
        [received |-> SumFunction([s \in DOMAIN got |-> got[s].received]),
         damaged |-> SumFunction([s \in DOMAIN got |-> got[s].damaged]),
         short |-> SumFunction([s \in DOMAIN got |-> got[s].short])]
  BY DEF PostedTotal, PostedOf
<1> QED BY <1>1, <1>2

LEMMA PostedFinite ==
  ASSUME NEW rows
  PROVE  IsFiniteSet(PostedOf(rows)) /\ PostedOf(rows) \in SUBSET Sessions
<1>1. PostedOf(rows) \in SUBSET Sessions
  BY DEF PostedOf
<1> QED BY <1>1, ReceivingAssumption, FS_Subset

LEMMA ColumnTypes ==
  ASSUME NEW rows \in [Sessions -> SessionRow], NEW l \in OrderLines, NEW c \in Columns
  PROVE  /\ ColumnOf(rows, l, c) \in [PostedOf(rows) -> Nat]
         /\ \A s \in Sessions : rows[s].lines[l].got[c] \in Nat
<1>1. ASSUME NEW s \in Sessions PROVE rows[s].lines[l].got[c] \in Nat
  <2>1. rows[s].lines[l].got \in Quantities
    BY DEF SessionRow, SessionLine
  <2> QED BY <2>1 DEF Quantities, Columns
<1> QED BY <1>1 DEF ColumnOf, PostedOf

LEMMA PostedTotalType ==
  ASSUME NEW rows \in [Sessions -> SessionRow], NEW l \in OrderLines
  PROVE  PostedTotal(rows, l) \in Quantities
<1>1. ASSUME NEW c \in Columns PROVE SumFunction(ColumnOf(rows, l, c)) \in Nat
  BY ColumnTypes, PostedFinite, SumFunctionNatural
<1> QED BY <1>1, PostedTotalColumns DEF Quantities, Columns

\* Sessions that are not posted do not matter.
LEMMA PostedTotalSame ==
  ASSUME NEW rows, NEW rows2, NEW l, PostedOf(rows2) = PostedOf(rows),
         \A s \in PostedOf(rows) : rows2[s].lines = rows[s].lines
  PROVE  PostedTotal(rows2, l) = PostedTotal(rows, l)
<1>1. \A c : ColumnOf(rows2, l, c) = ColumnOf(rows, l, c)
  BY DEF ColumnOf
<1> QED BY <1>1, PostedTotalColumns

\* One more session that is posted adds what it says.
LEMMA PostedTotalGrows ==
  ASSUME NEW rows \in [Sessions -> SessionRow], NEW rows2 \in [Sessions -> SessionRow],
         NEW l \in OrderLines, NEW s \in Sessions, s \notin PostedOf(rows),
         PostedOf(rows2) = PostedOf(rows) \cup {s},
         \A t \in PostedOf(rows2) : rows2[t].lines = rows[t].lines
  PROVE  PostedTotal(rows2, l) = Plus(PostedTotal(rows, l), rows[s].lines[l].got)
<1>1. ASSUME NEW c \in Columns
      PROVE  SumFunction(ColumnOf(rows2, l, c)) =
               SumFunction(ColumnOf(rows, l, c)) + rows[s].lines[l].got[c]
  <2> DEFINE f == ColumnOf(rows, l, c)
             g == ColumnOf(rows2, l, c)
  <2>1. /\ DOMAIN f = PostedOf(rows) /\ DOMAIN g = PostedOf(rows) \cup {s}
        /\ IsFiniteSet(PostedOf(rows))
    BY PostedFinite DEF ColumnOf
  <2>2. /\ \A t \in PostedOf(rows) : f[t] \in Int /\ g[t] = f[t]
        /\ g[s] = rows[s].lines[l].got[c] /\ g[s] \in Int
    BY ColumnTypes DEF ColumnOf, PostedOf
  <2> HIDE DEF f, g
  <2>3. SumFunction(g) = SumFunction(f) + g[s]
    <3> DEFINE P == PostedOf(rows)
               Q == P \cup {s}
    <3>1. /\ DOMAIN f = P /\ DOMAIN g = Q /\ IsFiniteSet(P) /\ s \notin P /\ Q = P \cup {s}
          /\ g[s] \in Int /\ \A t \in P : f[t] \in Int /\ g[t] = f[t]
      BY <2>1, <2>2
    <3> HIDE DEF P, Q
    <3> QED BY ONLY <3>1, SumFunctionExtended
  <2> QED BY <2>2, <2>3 DEF f, g
<1>2. "received" \in Columns /\ "damaged" \in Columns /\ "short" \in Columns
  BY DEF Columns
<1> DEFINE got == rows[s].lines[l].got
<1>3. /\ PostedTotal(rows2, l).received = PostedTotal(rows, l).received + got.received
      /\ PostedTotal(rows2, l).damaged = PostedTotal(rows, l).damaged + got.damaged
      /\ PostedTotal(rows2, l).short = PostedTotal(rows, l).short + got.short
  BY <1>1, <1>2, PostedTotalColumns
<1>4. PostedTotal(rows2, l) = [received |-> PostedTotal(rows2, l).received,
                               damaged |-> PostedTotal(rows2, l).damaged,
                               short |-> PostedTotal(rows2, l).short]
  BY PostedTotalColumns
<1> QED BY <1>3, <1>4 DEF Plus

LEMMA ReceivingInitially ==
  ASSUME ReceivingInit
  PROVE  ReceivingInv /\ StockTypes
<1>1. StockTypes /\ \A r \in References : \A b \in Bins : moved[r][b] = 0
  BY StockInitially DEF ReceivingInit
<1>2. NoSessionLine \in SessionLine /\ NoSessionLine.got = Nothing /\ Nothing \in Quantities
  <2>1. (CHOOSE b \in Bins : TRUE) \in Bins
    BY StockAssumption
  <2> QED BY <2>1 DEF NoSessionLine, SessionLine, Nothing, Quantities
<1>3. ReceivingRowTypes
  BY <1>2 DEF ReceivingInit, ReceivingRowTypes, OrderStatus, SessionRow
<1>4. AbsentLinesEmpty
  BY <1>2 DEF ReceivingInit, AbsentLinesEmpty
<1>5. ASSUME NEW l \in OrderLines
      PROVE  tally[l] = PostedTotal(session, l) /\ tally[l] = Nothing
  <2>1. PostedOf(session) = {}
    BY DEF ReceivingInit, PostedOf
  <2>2. ASSUME NEW c \in Columns PROVE SumFunction(ColumnOf(session, l, c)) = 0
    BY <2>1, FS_EmptySet, SumFunctionZero DEF ColumnOf
  <2>3. PostedTotal(session, l) = Nothing
    BY <2>2, PostedTotalColumns DEF Columns, Nothing
  <2> QED BY <2>3 DEF ReceivingInit
<1>6. AllReceived(tally) = 0 /\ AllProcessed(tally) = 0
  <2> DEFINE f == [l \in OrderLines |-> tally[l].received]
             g == [l \in OrderLines |-> Processed(tally[l])]
  <2>1. \A l \in OrderLines : f[l] = 0 /\ g[l] = 0
    BY <1>5 DEF Nothing, Processed
  <2>2. SumFunction(f) = 0 /\ SumFunction(g) = 0
    <3> HIDE DEF f, g
    <3> QED BY <2>1, ReceivingAssumption, SumFunctionZero DEF f, g
  <2> QED BY <2>2 DEF AllReceived, AllProcessed
<1>7. Explains(moved, "receive_session") = 0
  <2> DEFINE f == [b \in Bins |-> moved["receive_session"][b]]
  <2>1. \A b \in Bins : f[b] = 0
    BY <1>1 DEF References
  <2>2. SumFunction(f) = 0
    <3> HIDE DEF f
    <3> QED BY <2>1, StockAssumption, SumFunctionZero DEF f
  <2> QED BY <2>2 DEF Explains
<1>8. order = StatusFromTotals(tally)
  BY <1>6 DEF StatusFromTotals, ReceivingInit
<1> QED
  BY <1>1, <1>3, <1>4, <1>5, <1>6, <1>7, <1>8 DEF ReceivingInv, ReceiptsAgree

\* Nothing that matters to the three tables changes.
LEMMA ReceivingStays ==
  ASSUME ReceivingInv, UNCHANGED <<order, tally>>,
         moved'["receive_session"] = moved["receive_session"],
         session' \in [Sessions -> SessionRow], AbsentLinesEmpty',
         PostedOf(session') = PostedOf(session),
         \A s \in PostedOf(session) : session'[s].lines = session[s].lines
  PROVE  ReceivingInv'
<1>1. ReceivingRowTypes'
  BY DEF ReceivingInv, ReceivingRowTypes
<1>2. ASSUME NEW l \in OrderLines PROVE tally'[l] = PostedTotal(session', l)
  BY PostedTotalSame DEF ReceivingInv, ReceiptsAgree
<1>3. Explains(moved', "receive_session") = AllReceived(tally')
  BY DEF ReceivingInv, ReceiptsAgree, Explains
<1>4. order' = StatusFromTotals(tally')
  BY DEF ReceivingInv, ReceiptsAgree
<1> QED BY <1>1, <1>2, <1>3, <1>4 DEF ReceivingInv, ReceiptsAgree

\* A session that is not posted is rewritten, and still not posted.
LEMMA SessionRewritten ==
  ASSUME ReceivingInv, UNCHANGED <<order, tally>>,
         moved'["receive_session"] = moved["receive_session"],
         NEW s \in Sessions, NEW row \in SessionRow, session' = [session EXCEPT ![s] = row],
         session[s].status # "POSTED", row.status # "POSTED",
         \A l \in OrderLines : row.lines[l].ordered = 0 => row.lines[l].got = Nothing
  PROVE  ReceivingInv'
<1>1. /\ session' \in [Sessions -> SessionRow]
      /\ \A t \in Sessions : session'[t] = IF t = s THEN row ELSE session[t]
  BY DEF ReceivingInv, ReceivingRowTypes
<1>2. AbsentLinesEmpty'
  BY <1>1 DEF ReceivingInv, AbsentLinesEmpty
<1>3. /\ PostedOf(session') = PostedOf(session)
      /\ \A t \in PostedOf(session) : session'[t].lines = session[t].lines
  BY <1>1 DEF PostedOf
<1> QED BY <1>1, <1>2, <1>3, ReceivingStays

\* What all bins are brought is what all lines of the session received.
LEMMA BroughtAddsUp ==
  ASSUME ReceivingRowTypes, AbsentLinesEmpty, NEW s \in Sessions
  PROVE  /\ \A b \in Bins : Brought(s, b) \in Nat
         /\ SumFunction([b \in Bins |-> Brought(s, b)])
              = SumFunction([l \in OrderLines |-> session[s].lines[l].got.received])
<1> DEFINE f == [l \in OrderLines |-> session[s].lines[l].got.received]
           k == [l \in LinesOf(s) |-> session[s].lines[l].bin]
           g == [b \in Bins |-> Brought(s, b)]
<1>1. /\ LinesOf(s) \in SUBSET OrderLines /\ IsFiniteSet(LinesOf(s))
      /\ \A l \in OrderLines \ LinesOf(s) : session[s].lines[l].ordered = 0
  <2>1. LinesOf(s) \in SUBSET OrderLines
    BY DEF LinesOf
  <2>2. ASSUME NEW l \in OrderLines \ LinesOf(s) PROVE session[s].lines[l].ordered = 0
    <3>1. session[s].lines[l].ordered \in Nat
      BY DEF ReceivingRowTypes, SessionRow, SessionLine
    <3> QED BY <3>1 DEF LinesOf
  <2> QED BY <2>1, <2>2, ReceivingAssumption, FS_Subset
<1>2. ASSUME NEW l \in OrderLines
      PROVE  f[l] \in Nat /\ session[s].lines[l].bin \in Bins
  BY DEF ReceivingRowTypes, SessionRow, SessionLine, Quantities
<1>3. \A l \in OrderLines \ LinesOf(s) : f[l] = 0
  BY <1>1 DEF AbsentLinesEmpty, Nothing
<1>4. k \in [LinesOf(s) -> Bins]
  BY <1>1, <1>2
<1>5. ASSUME NEW b \in Bins
      PROVE  /\ g[b] = SumFunctionOnSet(f, Class(k, LinesOf(s), b))
             /\ g[b] \in Nat
  <2> DEFINE C == Class(k, LinesOf(s), b)
             h == [l \in C |-> session[s].lines[l].got.received]
  <2>1. C = {l \in LinesOf(s) : session[s].lines[l].bin = b}
    BY DEF Class
  <2>2. g[b] = SumFunction(h)
    BY <2>1 DEF Brought
  <2>3. IsFiniteSet(C) /\ C \in SUBSET OrderLines
    <3>1. C \in SUBSET LinesOf(s)
      BY <2>1
    <3> QED BY <1>1, <3>1, FS_Subset
  <2>4. DOMAIN h = C /\ \A l \in C : h[l] = f[l] /\ f[l] \in Nat
    BY <1>2, <2>3
  <2> HIDE DEF C, h, f, g
  <2>5. SumFunction(h) = SumFunctionOnSet(f, C) /\ SumFunctionOnSet(f, C) \in Nat
    BY <2>3, <2>4, SumIsOnDomain, SumSame, SumNatural
  <2> QED BY <2>2, <2>5 DEF C
<1> HIDE DEF f, k, g
<1>6. SumFunctionOnSet(g, Bins) = SumFunctionOnSet(f, LinesOf(s))
  <2>1. \A l \in LinesOf(s) : f[l] \in Int
    BY <1>1, <1>2
  <2>2. \A b \in Bins : g[b] = SumFunctionOnSet(f, Class(k, LinesOf(s), b))
    BY <1>5
  <2> QED BY <1>1, <1>4, <2>1, <2>2, StockAssumption, SumByClass
<1>7. SumFunctionOnSet(f, OrderLines) = SumFunctionOnSet(f, LinesOf(s))
  <2>1. \A l \in OrderLines : f[l] \in Int
    BY <1>2
  <2> QED BY <1>1, <1>3, <2>1, ReceivingAssumption, SumPadded
<1>8. SumFunction(g) = SumFunctionOnSet(g, Bins) /\ SumFunction(f) = SumFunctionOnSet(f, OrderLines)
  BY SumIsOnDomain DEF f, g
<1>9. \A b \in Bins : Brought(s, b) \in Nat
  BY <1>5 DEF g
<1> QED BY <1>6, <1>7, <1>8, <1>9 DEF f, g

\* What a posted session does to stock.
LEMMA PostingKeepsBook ==
  ASSUME ReceivingRowTypes, AbsentLinesEmpty, StockTypes, NEW s \in Sessions,
         bal' = Stocked(bal, s), moved' = Booked(moved, s)
  PROVE  /\ StockTypes' /\ (Book(bal, moved) => Book(bal', moved'))
         /\ \A r \in References : r # "receive_session" => moved'[r] = moved[r]
         /\ Explains(moved', "receive_session") = Explains(moved, "receive_session")
              + SumFunction([l \in OrderLines |-> session[s].lines[l].got.received])
<1>1. bal \in Balances /\ moved \in Ledgers /\ "receive_session" \in References
  BY DEF StockTypes, Balances, Ledgers, References
<1>2. \A b \in Bins : Brought(s, b) \in Nat
  BY BroughtAddsUp
<1>3. ASSUME NEW b \in Bins
      PROVE  /\ bal[b] \in BalanceRow /\ bal'[b] \in BalanceRow
             /\ bal'[b].onHand = bal[b].onHand + Brought(s, b)
             /\ SoundRow(bal[b]) => SoundRow(bal'[b])
  <2>1. bal[b] \in BalanceRow /\ Brought(s, b) \in Int /\ 0 <= Brought(s, b)
    BY <1>1, <1>2 DEF Balances
  <2>2. bal'[b] = Gained(bal[b], Brought(s, b))
    BY DEF Stocked
  <2> QED BY <2>1, <2>2, GainedKeeps
<1>4. bal' \in Balances
  <2>1. bal' = [b \in Bins |-> bal'[b]]
    BY DEF Stocked
  <2> QED BY <1>3, <2>1 DEF Balances
<1> DEFINE booked == [b \in Bins |-> moved["receive_session"][b] + Brought(s, b)]
<1>5. moved' = [moved EXCEPT !["receive_session"] = booked]
  BY DEF Booked
<1>6. booked \in [Bins -> Int] /\ \A b \in Bins :
         /\ booked[b] = moved["receive_session"][b] + Brought(s, b)
         /\ moved["receive_session"][b] \in Int
  BY <1>1, <1>2 DEF Ledgers
<1>7. /\ moved' \in Ledgers /\ moved'["receive_session"] = booked
      /\ \A r \in References : r # "receive_session" => moved'[r] = moved[r]
  <2> HIDE DEF booked
  <2> QED BY <1>1, <1>5, <1>6 DEF Ledgers
<1>8. ASSUME NEW b \in Bins, Book(bal, moved)
      PROVE  SoundRow(bal'[b]) /\ ExplainedRow(bal'[b], moved', b)
  <2>1. SoundRow(bal[b]) /\ ExplainedRow(bal[b], moved, b)
    BY <1>8 DEF Book
  <2>2. \A r \in References : moved'[r][b] =
          IF r = "receive_session" THEN moved[r][b] + Brought(s, b) ELSE moved[r][b]
    BY <1>6, <1>7
  <2>3. bal[b].onHand \in Int /\ Brought(s, b) \in Int
    BY <1>2, <1>3, RowColumns
  <2> QED BY <1>1, <1>3, <1>7, <2>1, <2>2, <2>3, BinKeeps
<1>9. Explains(moved', "receive_session") = Explains(moved, "receive_session")
        + SumFunction([b \in Bins |-> Brought(s, b)])
  <2> DEFINE f == [b \in Bins |-> moved["receive_session"][b]]
             g == [b \in Bins |-> Brought(s, b)]
             h == [b \in Bins |-> moved'["receive_session"][b]]
  <2>1. /\ DOMAIN f = Bins /\ DOMAIN g = Bins /\ DOMAIN h = Bins
        /\ \A b \in Bins : f[b] \in Int /\ g[b] \in Int /\ h[b] = f[b] + g[b]
    BY <1>2, <1>6, <1>7
  <2> HIDE DEF f, g, h
  <2>2. SumFunctionOnSet(h, Bins) = SumFunctionOnSet(f, Bins) + SumFunctionOnSet(g, Bins)
    BY <2>1, StockAssumption, SumPlus
  <2>3. SumFunction(h) = SumFunction(f) + SumFunction(g)
    BY <2>1, <2>2, SumIsOnDomain
  <2> QED BY <2>3 DEF f, g, h, Explains
<1> QED
  BY <1>4, <1>7, <1>8, <1>9, BroughtAddsUp DEF Book, StockTypes, Balances, Ledgers

LEMMA PostReceiveStep ==
  ASSUME ReceivingInv, StockTypes, NEW s \in Sessions, NEW over, PostReceiveSession(s, over)
  PROVE  ReceivingInv'
<1>1. /\ session[s].status = "IN_PROGRESS"
      /\ session' = [session EXCEPT ![s].status = "POSTED"]
      /\ tally' = [l \in OrderLines |-> Plus(tally[l], session[s].lines[l].got)]
      /\ order' = StatusFromTotals([l \in OrderLines |-> PostedTotal(session', l)])
      /\ bal' = Stocked(bal, s) /\ moved' = Booked(moved, s)
  BY DEF PostReceiveSession
<1>2. ReceivingRowTypes /\ AbsentLinesEmpty /\ ReceiptsAgree
  BY DEF ReceivingInv
<1> DEFINE row == [session[s] EXCEPT !.status = "POSTED"]
<1>3. row \in SessionRow /\ row.status = "POSTED" /\ row.lines = session[s].lines
  BY <1>2 DEF ReceivingRowTypes, SessionRow
<1>4. session' = [session EXCEPT ![s] = row]
  BY <1>1
<1> HIDE DEF row
<1>5. /\ session \in [Sessions -> SessionRow] /\ session' \in [Sessions -> SessionRow]
      /\ \A t \in Sessions : session'[t] = IF t = s THEN row ELSE session[t]
  BY <1>2, <1>3, <1>4 DEF ReceivingRowTypes
<1>6. AbsentLinesEmpty'
  BY <1>2, <1>3, <1>5 DEF AbsentLinesEmpty
<1>7. /\ s \notin PostedOf(session) /\ PostedOf(session') = PostedOf(session) \cup {s}
      /\ \A t \in PostedOf(session') : session'[t].lines = session[t].lines
  BY <1>1, <1>3, <1>5 DEF PostedOf
<1>8. ASSUME NEW l \in OrderLines
      PROVE  /\ tally'[l] = PostedTotal(session', l)
             /\ tally'[l] \in Quantities
             /\ tally[l].received \in Int /\ session[s].lines[l].got.received \in Int
             /\ tally'[l].received = tally[l].received + session[s].lines[l].got.received
  <2>1. PostedTotal(session', l) = Plus(PostedTotal(session, l), session[s].lines[l].got)
    BY <1>5, <1>7, PostedTotalGrows
  <2>2. tally'[l] = Plus(tally[l], session[s].lines[l].got)
    BY <1>1
  <2>3. tally[l] = PostedTotal(session, l)
    BY <1>2 DEF ReceiptsAgree
  <2>4. tally'[l] = PostedTotal(session', l)
    BY <2>1, <2>2, <2>3
  <2>5. tally'[l] \in Quantities
    BY <1>5, <2>4, PostedTotalType
  <2>6. tally[l] \in Quantities /\ session[s].lines[l].got \in Quantities
    BY <1>2 DEF ReceivingRowTypes, SessionRow, SessionLine
  <2>7. tally'[l].received = tally[l].received + session[s].lines[l].got.received
    BY <2>2 DEF Plus
  <2> QED BY <2>4, <2>5, <2>6, <2>7 DEF Quantities
<1>9. tally' = [l \in OrderLines |-> PostedTotal(session', l)]
  BY <1>1, <1>8
<1>10. order' = StatusFromTotals(tally')
  BY <1>1, <1>9
<1>11. AllReceived(tally') = AllReceived(tally)
         + SumFunction([l \in OrderLines |-> session[s].lines[l].got.received])
  <2> DEFINE f == [l \in OrderLines |-> tally[l].received]
             g == [l \in OrderLines |-> session[s].lines[l].got.received]
             h == [l \in OrderLines |-> tally'[l].received]
  <2>1. /\ DOMAIN f = OrderLines /\ DOMAIN g = OrderLines /\ DOMAIN h = OrderLines
        /\ \A l \in OrderLines : f[l] \in Int /\ g[l] \in Int /\ h[l] = f[l] + g[l]
    BY <1>8
  <2> HIDE DEF f, g, h
  <2>2. SumFunctionOnSet(h, OrderLines)
          = SumFunctionOnSet(f, OrderLines) + SumFunctionOnSet(g, OrderLines)
    BY <2>1, ReceivingAssumption, SumPlus
  <2>3. SumFunction(h) = SumFunction(f) + SumFunction(g)
    BY <2>1, <2>2, SumIsOnDomain
  <2> QED BY <2>3 DEF f, g, h, AllReceived
<1>12. Explains(moved', "receive_session") = AllReceived(tally')
  <2>1. Explains(moved', "receive_session") = Explains(moved, "receive_session")
          + SumFunction([l \in OrderLines |-> session[s].lines[l].got.received])
    BY <1>1, <1>2, PostingKeepsBook
  <2> QED BY <1>2, <1>11, <2>1 DEF ReceiptsAgree
<1>13. order' \in OrderStatus
  BY <1>10 DEF StatusFromTotals, OrderStatus
<1>14. ReceivingRowTypes'
  BY <1>5, <1>8, <1>9, <1>13 DEF ReceivingRowTypes
<1> QED BY <1>6, <1>8, <1>10, <1>12, <1>14 DEF ReceivingInv, ReceiptsAgree

Filled(line, got, bin) == [line EXCEPT !.got = got, !.bin = bin]

LEMMA LineFilled ==
  ASSUME NEW line \in SessionLine, NEW got \in Quantities, NEW bin \in Bins
  PROVE  /\ Filled(line, got, bin) \in SessionLine
         /\ Filled(line, got, bin).ordered = line.ordered
BY DEF SessionLine, Filled

LEMMA ReceivingStep ==
  ASSUME ReceivingInv, StockTypes, [ReceivingNext]_ReceivingVars
  PROVE  /\ ReceivingInv' /\ StockTypes'
         /\ (Book(bal, moved) => Book(bal', moved'))
         /\ moved'["cycle_count_session"] = moved["cycle_count_session"]
<1>1. ReceivingRowTypes /\ AbsentLinesEmpty
  BY DEF ReceivingInv
<1>2. ASSUME NEW s \in Sessions, NEW row, session' = [session EXCEPT ![s] = row],
             row \in SessionRow, session[s].status # "POSTED", row.status # "POSTED",
             \A l \in OrderLines : row.lines[l].ordered = 0 => row.lines[l].got = Nothing,
             UNCHANGED <<order, tally, StockVars>>
      PROVE  /\ ReceivingInv' /\ StockTypes'
             /\ (Book(bal, moved) => Book(bal', moved'))
             /\ moved'["cycle_count_session"] = moved["cycle_count_session"]
  <2>1. bal' = bal /\ moved' = moved /\ UNCHANGED <<order, tally>>
    BY <1>2 DEF StockVars
  <2>2. ReceivingInv'
    BY <1>2, <2>1, SessionRewritten
  <2> QED BY <2>1, <2>2 DEF StockTypes
<1>3. ASSUME NEW s \in Sessions PROVE /\ session[s] \in SessionRow
                                      /\ \A l \in OrderLines : session[s].lines[l] \in SessionLine
  BY <1>1 DEF ReceivingRowTypes, SessionRow
<1>4. ASSUME NEW s \in Sessions, CreateReceiveSession(s) PROVE
        \E row : /\ session' = [session EXCEPT ![s] = row]
                 /\ row \in SessionRow /\ session[s].status # "POSTED" /\ row.status # "POSTED"
                 /\ \A l \in OrderLines : row.lines[l].ordered = 0 => row.lines[l].got = Nothing
                 /\ UNCHANGED <<order, tally, StockVars>>
  <2> DEFINE row == [status |-> "DRAFT",
                     lines |-> [l \in OrderLines |->
                                  [NoSessionLine EXCEPT !.ordered = Remaining(l)]]]
  <2>1. /\ session' = [session EXCEPT ![s] = row] /\ session[s].status = "NONE"
        /\ UNCHANGED <<order, tally, StockVars>>
    BY <1>4 DEF CreateReceiveSession
  <2>2. ASSUME NEW l \in OrderLines
        PROVE  /\ [NoSessionLine EXCEPT !.ordered = Remaining(l)] \in SessionLine
               /\ [NoSessionLine EXCEPT !.ordered = Remaining(l)].got = Nothing
    <3>1. Remaining(l) \in Nat
      <4>1. PostedTotal(session, l) \in Quantities
        BY <1>1, PostedTotalType DEF ReceivingRowTypes
      <4>2. Processed(PostedTotal(session, l)) \in Nat /\ Ordered[l] \in Nat
        BY <4>1, ReceivingAssumption DEF Processed, Quantities
      <4> QED BY <4>2 DEF Remaining, AtLeastZero
    <3>2. (CHOOSE b \in Bins : TRUE) \in Bins
      BY StockAssumption
    <3> QED BY <3>1, <3>2 DEF NoSessionLine, SessionLine, Nothing, Quantities
  <2>3. row \in SessionRow /\ row.status = "DRAFT"
    BY <2>2 DEF SessionRow
  <2>4. \A l \in OrderLines : row.lines[l].got = Nothing
    BY <2>2
  <2> HIDE DEF row
  <2> QED BY <2>1, <2>3, <2>4
<1>5. ASSUME NEW s \in Sessions, StartReceiveSession(s) \/ CancelReceiveSession(s) PROVE
        \E row : /\ session' = [session EXCEPT ![s] = row]
                 /\ row \in SessionRow /\ session[s].status # "POSTED" /\ row.status # "POSTED"
                 /\ \A l \in OrderLines : row.lines[l].ordered = 0 => row.lines[l].got = Nothing
                 /\ UNCHANGED <<order, tally, StockVars>>
  <2>1. PICK status \in {"IN_PROGRESS", "CANCELLED"} :
          /\ session' = [session EXCEPT ![s].status = status] /\ session[s].status # "POSTED"
          /\ UNCHANGED <<order, tally, StockVars>>
    BY <1>5 DEF StartReceiveSession, CancelReceiveSession
  <2> DEFINE row == [session[s] EXCEPT !.status = status]
  <2>2. row \in SessionRow /\ row.status = status /\ row.lines = session[s].lines
    BY <1>3 DEF SessionRow
  <2>3. session' = [session EXCEPT ![s] = row]
    BY <2>1
  <2> HIDE DEF row
  <2>4. \A l \in OrderLines : row.lines[l].ordered = 0 => row.lines[l].got = Nothing
    BY <1>1, <2>2 DEF AbsentLinesEmpty
  <2>5. row.status # "POSTED"
    BY <2>2
  <2> QED BY <2>1, <2>2, <2>3, <2>4, <2>5
<1>6. ASSUME NEW s \in Sessions, NEW l \in OrderLines, NEW d \in Deliveries, NEW bin \in Bins,
             NEW over, RecordReceiveLine(s, l, d, bin, over)
      PROVE
        \E row : /\ session' = [session EXCEPT ![s] = row]
                 /\ row \in SessionRow /\ session[s].status # "POSTED" /\ row.status # "POSTED"
                 /\ \A k \in OrderLines : row.lines[k].ordered = 0 => row.lines[k].got = Nothing
                 /\ UNCHANGED <<order, tally, StockVars>>
  <2> DEFINE old == session[s].lines[l]
             got == Plus(old.got, d)
             line == [old EXCEPT !.got = got, !.bin = bin]
             row == [session[s] EXCEPT !.lines = [@ EXCEPT ![l] = line]]
  <2>1. /\ session' = [session EXCEPT ![s].lines[l].got = got, ![s].lines[l].bin = bin]
        /\ session[s].status = "IN_PROGRESS" /\ l \in LinesOf(s)
        /\ UNCHANGED <<order, tally, StockVars>>
    BY <1>6 DEF RecordReceiveLine
  <2>2. got \in Quantities
    <3>1. old.got \in Quantities /\ d \in [received : Nat, damaged : Nat, short : Nat]
      BY <1>3, ReceivingAssumption DEF SessionLine
    <3> QED BY <3>1 DEF Plus, Quantities
  <2>3. line \in SessionLine /\ line.ordered = old.ordered /\ old.ordered # 0
    <3>1. old \in SessionLine /\ old.ordered > 0
      BY <1>3, <2>1 DEF LinesOf
    <3>2. line = Filled(old, got, bin)
      BY DEF Filled
    <3> HIDE DEF old, got, line
    <3>3. old.ordered # 0
      BY <3>1 DEF SessionLine
    <3> QED BY <2>2, <3>1, <3>2, <3>3, LineFilled
  <2>4. session' = [session EXCEPT ![s] = row]
    <3> DEFINE once == [session EXCEPT ![s].lines[l].got = got]
               lines == [session[s].lines EXCEPT ![l] = [old EXCEPT !.got = got]]
    <3>1. session' = [once EXCEPT ![s].lines[l].bin = bin]
      BY <2>1
    <3>2. once = [session EXCEPT ![s] = [session[s] EXCEPT !.lines = lines]]
      OBVIOUS
    <3>3. once[s].lines = lines /\ lines[l] = [old EXCEPT !.got = got]
      BY <1>1, <1>3, <3>2 DEF ReceivingRowTypes, SessionRow
    <3>4. [lines EXCEPT ![l].bin = bin] = [session[s].lines EXCEPT ![l] = line]
      BY <1>3, <3>3 DEF SessionRow
    <3>5. /\ once[s] = [session[s] EXCEPT !.lines = lines]
          /\ DOMAIN session = Sessions /\ DOMAIN session[s] = {"status", "lines"}
      BY <1>1, <1>3, <3>2 DEF ReceivingRowTypes, SessionRow
    <3>6. [once[s] EXCEPT !.lines = [once[s].lines EXCEPT ![l].bin = bin]] = row
      <4>1. [once[s].lines EXCEPT ![l].bin = bin] = [session[s].lines EXCEPT ![l] = line]
        BY <3>3, <3>4
      <4> HIDE DEF once, lines, line
      <4>2. [once[s] EXCEPT !.lines = [session[s].lines EXCEPT ![l] = line]] = row
        BY <3>5
      <4> QED BY <4>1, <4>2
    <3>7. session' = [once EXCEPT ![s] = row]
      <4>1. session' = [once EXCEPT ![s] = [once[s] EXCEPT !.lines =
                                              [once[s].lines EXCEPT ![l].bin = bin]]]
        BY <3>1
      <4> HIDE DEF once, lines, line, row
      <4> QED BY <3>6, <4>1
    <3> HIDE DEF lines, row
    <3> QED BY <3>2, <3>5, <3>7
  <2> HIDE DEF line
  <2>5. /\ row \in SessionRow /\ row.status = "IN_PROGRESS"
        /\ \A k \in OrderLines : row.lines[k] = IF k = l THEN line ELSE session[s].lines[k]
    BY <1>3, <2>1, <2>3 DEF SessionRow
  <2> HIDE DEF row
  <2>6. \A k \in OrderLines : row.lines[k].ordered = 0 => row.lines[k].got = Nothing
    BY <1>1, <2>3, <2>5 DEF AbsentLinesEmpty
  <2> QED BY <2>1, <2>4, <2>5, <2>6
<1>7. ASSUME NEW s \in Sessions, NEW over, PostReceiveSession(s, over)
      PROVE  /\ ReceivingInv' /\ StockTypes'
             /\ (Book(bal, moved) => Book(bal', moved'))
             /\ moved'["cycle_count_session"] = moved["cycle_count_session"]
  <2>1. ReceivingInv'
    BY <1>7, PostReceiveStep
  <2>2. bal' = Stocked(bal, s) /\ moved' = Booked(moved, s)
    BY <1>7 DEF PostReceiveSession
  <2>3. "cycle_count_session" \in References
    BY DEF References
  <2> QED BY <1>1, <2>1, <2>2, <2>3, PostingKeepsBook
<1>8. CASE AdjustStock /\ UNCHANGED <<order, tally, session>>
  <2>1. /\ moved'["receive_session"] = moved["receive_session"]
        /\ moved'["cycle_count_session"] = moved["cycle_count_session"]
    BY <1>8, AdjustKeeps DEF References
  <2>2. PostedOf(session') = PostedOf(session) /\ session' = session /\ AbsentLinesEmpty'
    BY <1>1, <1>8 DEF PostedOf, AbsentLinesEmpty
  <2>3. ReceivingInv'
    BY <1>1, <1>8, <2>1, <2>2, ReceivingStays DEF ReceivingRowTypes
  <2> QED BY <1>8, <2>1, <2>3, AdjustKeeps
<1>9. CASE UNCHANGED ReceivingVars
  <2>1. UNCHANGED <<order, tally, session>> /\ bal' = bal /\ moved' = moved
    BY <1>9 DEF ReceivingVars, StockVars
  <2>2. PostedOf(session') = PostedOf(session) /\ session' = session /\ AbsentLinesEmpty'
    BY <1>1, <2>1 DEF PostedOf, AbsentLinesEmpty
  <2>3. ReceivingInv'
    BY <1>1, <2>1, <2>2, ReceivingStays DEF ReceivingRowTypes
  <2> QED BY <2>1, <2>3 DEF StockTypes
<1>10. ASSUME NEW s \in Sessions, CreateReceiveSession(s) \/ StartReceiveSession(s)
                 \/ CancelReceiveSession(s)
                 \/ (\E l \in OrderLines, d \in Deliveries, bin \in Bins, over \in Allowances :
                       RecordReceiveLine(s, l, d, bin, over))
       PROVE  /\ ReceivingInv' /\ StockTypes'
              /\ (Book(bal, moved) => Book(bal', moved'))
              /\ moved'["cycle_count_session"] = moved["cycle_count_session"]
  <2>1. PICK row : /\ session' = [session EXCEPT ![s] = row]
                   /\ row \in SessionRow /\ session[s].status # "POSTED" /\ row.status # "POSTED"
                   /\ \A k \in OrderLines : row.lines[k].ordered = 0 => row.lines[k].got = Nothing
                   /\ UNCHANGED <<order, tally, StockVars>>
    BY <1>4, <1>5, <1>6, <1>10
  <2> QED BY <1>2, <2>1
<1> QED BY <1>7, <1>8, <1>9, <1>10 DEF ReceivingNext

(* The lines of the order and the movements of stock add up to the sessions *)
(* that were posted, and its status is what those amount to, whatever      *)
(* sessions are open at once and however they end.                         *)
THEOREM ReceiptsAddUp == ReceivingSpec => []ReceiptsAgree
<1> DEFINE Inv == ReceivingInv /\ StockTypes
<1>1. ReceivingInit => Inv
  BY ReceivingInitially
<1>2. Inv /\ [ReceivingNext]_ReceivingVars => Inv'
  BY ReceivingStep
<1>3. Inv => ReceiptsAgree
  BY DEF ReceivingInv
<1> QED BY <1>1, <1>2, <1>3, PTL DEF ReceivingSpec

\* What the rows are, but for the quantities in them: they are sums.
CountShape ==
  /\ plan \in PlanRow
  /\ DOMAIN count = Counts
  /\ \A c \in Counts : DOMAIN count[c] = {"status", "expected"}
  /\ DOMAIN variance = Found
  /\ \A v \in Found : variance[v] = NoVariance \/
       /\ DOMAIN variance[v] = {"status", "severity", "of", "bin", "adjustment"}
       /\ variance[v].status \in {"OPEN", "APPROVED", "REJECTED", "WAIVED", "POSTED"}
       /\ variance[v].of \in Counts

CountInv == CountShape /\ CountIsDecided

LEMMA CountInitially == CountInit => CountInv
BY DEF CountInit, CountInv, CountShape, CountIsDecided, PlanRow, NoVariance

(* Nothing changes but the plan, which is posted neither before nor after. *)
LEMMA PlanMoves ==
  ASSUME CountInv, UNCHANGED <<count, variance>>, plan' \in PlanRow,
         plan.status # "POSTED", plan'.status # "POSTED"
  PROVE  CountInv'
BY DEF CountInv, CountShape, CountIsDecided

(* A session moves without being posted; if it is approved, no blocking    *)
(* variance of it is open or rejected.                                     *)
LEMMA CountMoves ==
  ASSUME CountInv, UNCHANGED <<plan, variance>>, NEW c \in Counts, NEW row,
         count' = [count EXCEPT ![c] = row], DOMAIN row = {"status", "expected"},
         count[c].status # "POSTED", row.status # "POSTED",
         row.status = "APPROVED" =>
           \A v \in Found : /\ variance[v].status \in {"OPEN", "REJECTED"}
                            /\ variance[v].of = c
                            => variance[v].severity # "BLOCKER"
  PROVE  CountInv'
<1>1. DOMAIN count' = Counts /\ \A d \in Counts : count'[d] = IF d = c THEN row ELSE count[d]
  BY DEF CountInv, CountShape
<1>2. CountShape'
  BY <1>1 DEF CountInv, CountShape
<1>3. CountIsDecided'
  BY <1>1 DEF CountInv, CountShape, CountIsDecided, NoVariance
<1> QED BY <1>2, <1>3 DEF CountInv

LEMMA CountStep == CountInv /\ [CountNext]_CountVars => CountInv'
<1> SUFFICES ASSUME CountInv, [CountNext]_CountVars PROVE CountInv'
  OBVIOUS
<1>0. /\ plan \in PlanRow /\ DOMAIN count = Counts /\ DOMAIN variance = Found
      /\ \A c \in Counts : DOMAIN count[c] = {"status", "expected"}
  BY DEF CountInv, CountShape
<1>1. CASE ScheduleCycleCountPlan \/ StartCycleCountPlan \/ CancelCycleCountPlan
  BY <1>0, <1>1, PlanMoves
     DEF ScheduleCycleCountPlan, StartCycleCountPlan, CancelCycleCountPlan, PlanRow
<1>2. ASSUME NEW b \in LineBins, AddPlanLine(b) PROVE CountInv'
  BY <1>0, <1>2, PlanMoves DEF AddPlanLine, PlanRow
<1>3. ASSUME NEW c \in Counts, CreateCountSession(c) PROVE CountInv'
  <2> DEFINE row == [status |-> "OPEN", expected |-> OnHand(bal)]
  <2>1. /\ count' = [count EXCEPT ![c] = row] /\ UNCHANGED <<plan, variance>>
        /\ count[c].status = "NONE"
    BY <1>3 DEF CreateCountSession
  <2>2. row.status = "OPEN" /\ DOMAIN row = {"status", "expected"}
    OBVIOUS
  <2> HIDE DEF row
  <2> QED BY <2>1, <2>2, CountMoves
<1>4. ASSUME NEW c \in Counts, NEW b \in LineBins, NEW n \in Tallies, NEW v \in Found,
             CountSessionLine(c, b, n, v)
      PROVE  CountInv'
  <2> DEFINE adjustment == n - count[c].expected
             row == [status |-> "OPEN", severity |-> Severity(adjustment, count[c].expected),
                     of |-> c, bin |-> b, adjustment |-> adjustment]
  <2>1. /\ variance' = [variance EXCEPT ![v] = row] /\ UNCHANGED <<plan, count>>
        /\ count[c].status = "OPEN"
    BY <1>4 DEF CountSessionLine
  <2>2. /\ row.status = "OPEN" /\ row.of = c
        /\ DOMAIN row = {"status", "severity", "of", "bin", "adjustment"}
    OBVIOUS
  <2> HIDE DEF row
  <2>3. \A w \in Found : variance'[w] = IF w = v THEN row ELSE variance[w]
    BY <1>0, <2>1
  <2>4. CountShape'
    BY <2>1, <2>2, <2>3 DEF CountInv, CountShape
  <2>5. CountIsDecided'
    BY <2>1, <2>2, <2>3 DEF CountInv, CountIsDecided
  <2> QED BY <2>4, <2>5 DEF CountInv
<1>5. ASSUME NEW c \in Counts, NEW whole \in BOOLEAN, SubmitSessionForReview(c, whole)
      PROVE  CountInv'
  <2> DEFINE row == [count[c] EXCEPT !.status = "REVIEW_PENDING"]
  <2>1. /\ count' = [count EXCEPT ![c] = row] /\ UNCHANGED variance
        /\ count[c].status = "OPEN"
    BY <1>5, <1>0 DEF SubmitSessionForReview
  <2>2. DOMAIN row = {"status", "expected"} /\ row.status = "REVIEW_PENDING"
    BY <1>0
  <2>3. /\ plan' \in PlanRow
        /\ plan' = plan \/ (plan.status = "IN_PROGRESS" /\ plan'.status = "REVIEW_PENDING")
    BY <1>0, <1>5 DEF SubmitSessionForReview, PlanRow
  <2> HIDE DEF row
  <2>4. \A d \in Counts : count'[d] = IF d = c THEN row ELSE count[d]
    BY <1>0, <2>1
  <2>5. CountShape'
    BY <2>1, <2>2, <2>3, <2>4 DEF CountInv, CountShape
  <2>6. CountIsDecided'
    BY <2>1, <2>2, <2>3, <2>4 DEF CountInv, CountShape, CountIsDecided, NoVariance
  <2> QED BY <2>5, <2>6 DEF CountInv
<1>6. ASSUME NEW c \in Counts, ApproveCountSession(c) PROVE CountInv'
  <2> DEFINE row == [count[c] EXCEPT !.status = "APPROVED"]
  <2>1. /\ count' = [count EXCEPT ![c] = row] /\ UNCHANGED <<plan, variance>>
        /\ count[c].status = "REVIEW_PENDING"
        /\ \A v \in Found : /\ variance[v].status \in {"OPEN", "REJECTED"}
                            /\ variance[v].of = c
                            => variance[v].severity # "BLOCKER"
    BY <1>6, <1>0 DEF ApproveCountSession, Undecided, VariancesOf
  <2>2. DOMAIN row = {"status", "expected"} /\ row.status = "APPROVED"
    BY <1>0
  <2> HIDE DEF row
  <2> QED BY <2>1, <2>2, CountMoves
<1>7. ASSUME NEW v \in Found, NEW decision \in {"APPROVED", "REJECTED", "WAIVED"},
             DecideVariance(v, decision)
      PROVE  CountInv'
  <2> DEFINE row == [variance[v] EXCEPT !.status = decision]
  <2>1. /\ variance' = [variance EXCEPT ![v] = row] /\ UNCHANGED <<plan, count>>
        /\ variance[v].status = "OPEN"
    BY <1>7, <1>0 DEF DecideVariance
  <2>2. DOMAIN variance[v] = {"status", "severity", "of", "bin", "adjustment"}
    BY <2>1 DEF CountInv, CountShape, NoVariance
  <2>3. /\ DOMAIN row = DOMAIN variance[v] /\ row.status = decision
        /\ row.of = variance[v].of /\ row.severity = variance[v].severity
    BY <2>2
  <2> HIDE DEF row
  <2>4. \A w \in Found : variance'[w] = IF w = v THEN row ELSE variance[w]
    BY <1>0, <2>1
  <2>5. CountShape'
    BY <2>1, <2>2, <2>3, <2>4 DEF CountInv, CountShape, NoVariance
  <2>6. CountIsDecided'
    BY <2>1, <2>3, <2>4 DEF CountInv, CountIsDecided
  <2> QED BY <2>5, <2>6 DEF CountInv
<1>8. ASSUME NEW c \in Counts, PostCountSession(c) PROVE CountInv'
  <2> DEFINE row == [count[c] EXCEPT !.status = "POSTED"]
  <2>1. /\ count' = [count EXCEPT ![c] = row]
        /\ count[c].status = "APPROVED"
        /\ plan' = [plan EXCEPT !.status = "POSTED"]
        /\ variance' = [v \in Found |-> IF v \in Posting(c)
                                        THEN [variance[v] EXCEPT !.status = "POSTED"]
                                        ELSE variance[v]]
    BY <1>8, <1>0 DEF PostCountSession
  <2>2. DOMAIN row = {"status", "expected"} /\ row.status = "POSTED"
    BY <1>0
  <2>3. plan' \in PlanRow /\ plan'.status = "POSTED"
    BY <1>0, <2>1 DEF PlanRow
  <2> HIDE DEF row
  <2>4. \A d \in Counts : count'[d] = IF d = c THEN row ELSE count[d]
    BY <1>0, <2>1
  <2>5. ASSUME NEW v \in Posting(c)
        PROVE  /\ v \in Found /\ variance[v].of = c /\ variance[v] # NoVariance
               /\ variance'[v].status = "POSTED" /\ variance'[v].of = c
               /\ DOMAIN variance'[v] = DOMAIN variance[v]
    <3>1. v \in Found /\ variance[v].of = c /\ variance[v].status = "APPROVED"
      BY DEF Posting, VariancesOf
    <3>2. DOMAIN variance[v] = {"status", "severity", "of", "bin", "adjustment"}
      BY <3>1 DEF CountInv, CountShape, NoVariance
    <3> DEFINE new == [variance[v] EXCEPT !.status = "POSTED"]
    <3>3. new.status = "POSTED" /\ new.of = c /\ DOMAIN new = DOMAIN variance[v]
      BY <3>1, <3>2
    <3>4. variance'[v] = new
      BY <2>1, <3>1
    <3> QED BY <3>1, <3>3, <3>4 DEF NoVariance
  <2>6. \A v \in Found \ Posting(c) : variance'[v] = variance[v]
    BY <2>1
  <2>7. CountShape'
    <3>1. DOMAIN variance' = Found
      BY <2>1
    <3>2. ASSUME NEW v \in Found
          PROVE  variance'[v] = NoVariance \/
                   /\ DOMAIN variance'[v] = {"status", "severity", "of", "bin", "adjustment"}
                   /\ variance'[v].status \in {"OPEN", "APPROVED", "REJECTED", "WAIVED", "POSTED"}
                   /\ variance'[v].of \in Counts
      BY <2>5, <2>6 DEF CountInv, CountShape
    <3> QED BY <2>1, <2>2, <2>3, <2>4, <3>1, <3>2, <1>0 DEF CountShape
  <2>8. CountIsDecided'
    <3>1. ASSUME NEW d \in Counts, count'[d].status \in {"APPROVED", "POSTED"}, NEW v \in Found,
                 variance'[v].status \in {"OPEN", "REJECTED"}, variance'[v].of = d
          PROVE  variance'[v].severity # "BLOCKER"
      BY <3>1, <2>1, <2>2, <2>4, <2>5, <2>6 DEF CountInv, CountIsDecided
    <3>2. ASSUME NEW v \in Found, variance'[v].status = "POSTED"
          PROVE  count'[variance'[v].of].status = "POSTED"
      <4>1. CASE v \in Posting(c)
        BY <4>1, <2>2, <2>4, <2>5
      <4>2. CASE v \notin Posting(c)
        <5>1. variance'[v] = variance[v] /\ variance[v].of \in Counts
          BY <4>2, <2>6, <3>2 DEF CountInv, CountShape, NoVariance
        <5> QED BY <5>1, <3>2, <2>2, <2>4 DEF CountInv, CountIsDecided
      <4> QED BY <4>1, <4>2
    <3>3. plan'.status = "POSTED" /\ count'[c].status = "POSTED"
      BY <2>2, <2>3, <2>4
    <3> QED BY <3>1, <3>2, <3>3 DEF CountIsDecided
  <2> QED BY <2>7, <2>8 DEF CountInv
<1>9. CASE UNCHANGED <<plan, count, variance>>
  BY <1>9 DEF CountInv, CountShape, CountIsDecided
<1> QED
  BY <1>1, <1>2, <1>3, <1>4, <1>5, <1>6, <1>7, <1>8, <1>9 DEF CountNext, CountVars

(* A count is approved and posted only with its blocking variances decided *)
(* in its favour or waived, stock moves only for the variances of posted   *)
(* counts, and the plan is done exactly when one of its counts is posted.  *)
THEOREM CountsDecided == CountSpec => []CountIsDecided
<1>1. CountSpec => []CountInv
  BY CountInitially, CountStep, PTL DEF CountSpec
<1> QED BY <1>1, PTL DEF CountInv

PostedVariances(rows) == {v \in Found : rows[v].status = "POSTED"}
CountRowTypes ==
  /\ plan \in PlanRow
  /\ count \in [Counts -> CountRow]
  /\ variance \in [Found -> VarianceRow \cup {NoVariance}]

LEMMA FoundFinite ==
  ASSUME NEW found \in SUBSET Found
  PROVE  IsFiniteSet(found)
<1>1. IsFiniteSet(Found)
  <2>1. MaxFound \in Int /\ 1 \in Int
    BY CountAssumption
  <2> QED BY <2>1, FS_Interval DEF Found
<1> QED BY <1>1, FS_Subset

LEMMA VarianceColumns ==
  ASSUME CountRowTypes, NEW v \in Found, variance[v] # NoVariance
  PROVE  /\ variance[v] \in VarianceRow /\ variance[v].adjustment \in Int
         /\ variance[v].bin \in Bins /\ variance[v].status # "NONE"
<1>1. variance[v] \in VarianceRow
  BY DEF CountRowTypes
<1> QED BY <1>1, CountAssumption DEF VarianceRow

LEMMA OnHandType ==
  ASSUME StockTypes
  PROVE  OnHand(bal) \in Int
<1> DEFINE f == [b \in Bins |-> bal[b].onHand]
<1>1. f \in [Bins -> Int]
  BY RowColumns DEF StockTypes
<1>2. SumFunction(f) \in Int
  <2> HIDE DEF f
  <2> QED BY <1>1, StockAssumption, SumFunctionType
<1> QED BY <1>2 DEF OnHand

-----------------------------------------------------------------------------
\* What the sum of all bins is after each variance.
Holds(posted) ==
  CHOOSE sum : sum = [n \in 0..Len(posted) |->
    IF n = 0 THEN OnHand(bal) ELSE Cardinality(Bins) * NextHolding(sum[n - 1], posted[n])]

LEMMA HoldingAfterType ==
  ASSUME CountRowTypes, StockTypes, NEW c \in Counts, NEW posted \in SetToSeqs(Posting(c))
  PROVE  HoldingAfter(posted) \in Int
<1> DEFINE L == Len(posted)
           bins == Cardinality(Bins)
           G == [n \in 1..L |-> [i \in Int |-> bins * NextHolding(i, posted[n])]]
<1>1. bins \in Nat /\ bins # 0
  BY StockAssumption, FS_CardinalityType, FS_EmptySet
<1>2. posted \in Seq(Posting(c)) /\ L \in Nat
  <2>1. IsFiniteSet(Posting(c))
    <3>1. Posting(c) \in SUBSET Found
      BY DEF Posting, VariancesOf
    <3> QED BY <3>1, FoundFinite
  <2>2. Cardinality(Posting(c)) \in Nat /\ posted \in [1..Cardinality(Posting(c)) -> Posting(c)]
    BY <2>1, FS_CardinalityType DEF SetToSeqs
  <2>3. posted \in Seq(Posting(c))
    BY <2>2, SeqDef
  <2> QED BY <2>3, LenProperties
<1>3. ASSUME NEW n \in 1..L, NEW i \in Int PROVE bins * NextHolding(i, posted[n]) \in Int
  <2>1. posted[n] \in Posting(c)
    BY <1>2, ElementOfSeq
  <2>2. variance[posted[n]].adjustment \in Int
    <3>1. posted[n] \in Found /\ variance[posted[n]].status = "APPROVED"
      BY <2>1 DEF Posting, VariancesOf
    <3>2. variance[posted[n]] # NoVariance
      BY <3>1 DEF NoVariance
    <3> QED BY <3>1, <3>2, VarianceColumns
  <2>3. NextHolding(i, posted[n]) \in Int
    BY <2>2 DEF NextHolding, AtLeastZero
  <2> HIDE DEF bins
  <2> QED BY <1>1, <2>3
<1>4. G \in [1..L -> [Int -> Int]]
  BY <1>3
<1>5. OnHand(bal) \in Int
  BY OnHandType
<1>6. PICK f \in [0..L -> Int] : Passes(f, G, OnHand(bal), L)
  <2> HIDE DEF G, L
  <2> QED BY <1>2, <1>4, <1>5, PassesExist
<1> DEFINE Step(sum) == [n \in 0..L |-> IF n = 0 THEN OnHand(bal)
                                        ELSE bins * NextHolding(sum[n - 1], posted[n])]
<1>7. f = Step(f)
  <2>1. ASSUME NEW n \in 0..L PROVE f[n] = Step(f)[n]
    <3>1. CASE n = 0
      BY <1>6, <3>1 DEF Passes
    <3>2. CASE n # 0
      <4>1. n \in 1..L /\ n - 1 \in 0..L
        BY <1>2, <3>2
      <4>2. f[n] = G[n][f[n - 1]] /\ f[n - 1] \in Int
        BY <1>6, <4>1 DEF Passes
      <4> QED BY <3>2, <4>1, <4>2
    <3> QED BY <3>1, <3>2
  <2>2. f = [n \in 0..L |-> f[n]]
    BY <1>6
  <2> QED BY <2>1, <2>2
<1> DEFINE sum == Holds(posted)
<1>8. sum = Step(sum)
  BY <1>7 DEF Holds
<1>9. \A n \in 0..L : sum[n] \in Int
  <2> HIDE DEF sum
  <2>1. sum[0] = OnHand(bal)
    <3>1. 0 \in 0..L
      BY <1>2
    <3> QED BY <1>8, <3>1
  <2>2. ASSUME NEW n \in 1..L, sum[n - 1] \in Int PROVE sum[n] \in Int
    <3>1. n \in 0..L /\ n # 0
      BY <1>2
    <3>2. sum[n] = bins * NextHolding(sum[n - 1], posted[n])
      BY <1>8, <3>1
    <3> QED BY <1>3, <2>2, <3>2
  <2> HIDE DEF L
  <2> QED BY <1>2, <1>5, <2>1, <2>2, StepsWithin
<1>10. sum[L] \in Int
  <2>1. L \in 0..L
    BY <1>2
  <2> QED BY <1>9, <2>1
<1>11. HoldingAfter(posted) = sum[L] \div bins
  BY DEF HoldingAfter, Holds
<1> HIDE DEF sum, bins, L
<1> QED BY <1>1, <1>10, <1>11

\* What the adjustments of an action's variances come to, bin by bin.
LEMMA PostingAddsUp ==
  ASSUME CountRowTypes, NEW c \in Counts
  PROVE  /\ \A b \in Bins : AdjustmentsIn(b, Posting(c)) \in Int
         /\ SumFunction([b \in Bins |-> AdjustmentsIn(b, Posting(c))])
              = Adjustments(variance, Posting(c))
         /\ Posting(c) = {} => \A b \in Bins : AdjustmentsIn(b, Posting(c)) = 0
<1> DEFINE P == Posting(c)
           f == [v \in P |-> variance[v].adjustment]
           k == [v \in P |-> variance[v].bin]
           g == [b \in Bins |-> AdjustmentsIn(b, P)]
<1>1. P \in SUBSET Found /\ IsFiniteSet(P)
  <2>1. P \in SUBSET Found
    BY DEF Posting, VariancesOf
  <2> QED BY <2>1, FoundFinite
<1>2. ASSUME NEW v \in P PROVE variance[v].adjustment \in Int /\ variance[v].bin \in Bins
  <2>1. v \in Found /\ variance[v].status = "APPROVED"
    BY DEF Posting, VariancesOf
  <2>2. variance[v] # NoVariance
    BY <2>1 DEF NoVariance
  <2> QED BY <2>1, <2>2, VarianceColumns
<1>3. k \in [P -> Bins] /\ \A v \in P : f[v] \in Int
  BY <1>2
<1>4. ASSUME NEW b \in Bins
      PROVE  g[b] = SumFunctionOnSet(f, Class(k, P, b)) /\ g[b] \in Int
  <2> DEFINE C == Class(k, P, b)
             h == [v \in C |-> variance[v].adjustment]
  <2>1. C = {v \in P : variance[v].bin = b}
    BY DEF Class
  <2>2. g[b] = SumFunction(h)
    BY <2>1 DEF AdjustmentsIn, Adjustments
  <2>3. C \in SUBSET P /\ IsFiniteSet(C)
    <3>1. C \in SUBSET P
      BY <2>1
    <3> QED BY <1>1, <3>1, FS_Subset
  <2>4. DOMAIN h = C /\ \A v \in C : h[v] = f[v] /\ f[v] \in Int
    BY <1>2, <2>3
  <2> HIDE DEF C, h, f, g
  <2>5. SumFunction(h) = SumFunctionOnSet(f, C) /\ SumFunctionOnSet(f, C) \in Int
    BY <2>3, <2>4, SumIsOnDomain, SumSame, SumType
  <2> QED BY <2>2, <2>5 DEF C
<1>5. SumFunctionOnSet(g, Bins) = SumFunctionOnSet(f, P)
  <2> HIDE DEF f, g, k, P
  <2> QED BY <1>1, <1>3, <1>4, StockAssumption, SumByClass
<1>6. SumFunction(g) = SumFunctionOnSet(g, Bins) /\ SumFunction(f) = SumFunctionOnSet(f, P)
  BY SumIsOnDomain
<1>7. Adjustments(variance, P) = SumFunction(f)
  BY DEF Adjustments
<1>8. \A b \in Bins : AdjustmentsIn(b, P) \in Int
  BY <1>4
<1>9. ASSUME P = {}, NEW b \in Bins PROVE AdjustmentsIn(b, P) = 0
  <2>1. g[b] = SumFunctionOnSet(f, {})
    <3>1. Class(k, P, b) = {}
      BY <1>9 DEF Class
    <3> QED BY <1>4, <3>1
  <2>2. g[b] = AdjustmentsIn(b, P)
    OBVIOUS
  <2> HIDE DEF f, g, P
  <2> QED BY <2>1, <2>2, SumEmpty
<1> QED BY <1>5, <1>6, <1>7, <1>8, <1>9

\* What is posted so far is the same.
LEMMA ExplainedStays ==
  ASSUME CountIsExplained, moved'["cycle_count_session"] = moved["cycle_count_session"],
         PostedVariances(variance') = PostedVariances(variance),
         \A v \in PostedVariances(variance) : variance'[v].adjustment = variance[v].adjustment
  PROVE  CountIsExplained'
<1>1. Adjustments(variance', PostedVariances(variance'))
        = Adjustments(variance, PostedVariances(variance))
  BY DEF Adjustments
<1>2. Explains(moved', "cycle_count_session") = Explains(moved, "cycle_count_session")
  BY DEF Explains
<1> QED BY <1>1, <1>2 DEF CountIsExplained, PostedVariances

CountStockInv == CountRowTypes /\ CountIsExplained

LEMMA CountStockInitially ==
  ASSUME CountInit
  PROVE  CountStockInv /\ StockTypes
<1>1. StockTypes /\ \A r \in References : \A b \in Bins : moved[r][b] = 0
  BY StockInitially DEF CountInit
<1>2. CountRowTypes
  BY DEF CountInit, CountRowTypes, PlanRow, CountRow
<1>3. PostedVariances(variance) = {}
  BY DEF CountInit, PostedVariances, NoVariance
<1>4. Adjustments(variance, {}) = 0
  <2> DEFINE f == [v \in {} |-> variance[v].adjustment]
  <2>1. SumFunction(f) = 0
    <3>1. DOMAIN f = {} /\ \A v \in {} : f[v] = 0
      OBVIOUS
    <3> HIDE DEF f
    <3> QED BY <3>1, FS_EmptySet, SumFunctionZero
  <2> QED BY <2>1 DEF Adjustments
<1>5. Explains(moved, "cycle_count_session") = 0
  <2> DEFINE f == [b \in Bins |-> moved["cycle_count_session"][b]]
  <2>1. \A b \in Bins : f[b] = 0
    BY <1>1 DEF References
  <2>2. SumFunction(f) = 0
    <3> HIDE DEF f
    <3> QED BY <2>1, StockAssumption, SumFunctionZero DEF f
  <2> QED BY <2>2 DEF Explains
<1>6. CountIsExplained
  BY <1>3, <1>4, <1>5 DEF CountIsExplained, PostedVariances
<1> QED BY <1>1, <1>2, <1>6 DEF CountStockInv

\* A posting that ends in the totals of one more count.
LEMMA PostCountStep ==
  ASSUME CountStockInv, StockTypes, NEW c \in Counts, PostCountSession(c)
  PROVE  /\ CountStockInv' /\ StockTypes'
         /\ NoCountPosted' => NoCountPosted /\ bal' = bal /\ moved' = moved
         /\ moved'["receive_session"] = moved["receive_session"]
<1> DEFINE P == Posting(c)
           old == PostedVariances(variance)
           added == [b \in Bins |-> moved["cycle_count_session"][b] + AdjustmentsIn(b, P)]
<1>1. PICK posted \in SetToSeqs(P) :
        bal' = IF posted = <<>> THEN bal ELSE Overwritten(HoldingAfter(posted))
  BY DEF PostCountSession
<1>2. /\ moved' = [moved EXCEPT !["cycle_count_session"] = added]
      /\ variance' = [v \in Found |-> IF v \in P THEN [variance[v] EXCEPT !.status = "POSTED"]
                                                 ELSE variance[v]]
      /\ count' = [count EXCEPT ![c].status = "POSTED"]
      /\ plan' = [plan EXCEPT !.status = "POSTED"]
  BY DEF PostCountSession
<1>3. CountRowTypes /\ CountIsExplained
  BY DEF CountStockInv
<1>4. \A b \in Bins : AdjustmentsIn(b, P) \in Int
  BY <1>3, PostingAddsUp
<1>5. moved \in Ledgers /\ bal \in Balances
  BY DEF StockTypes, Ledgers, Balances
<1>6. /\ added \in [Bins -> Int] /\ moved["cycle_count_session"] \in [Bins -> Int]
      /\ "cycle_count_session" \in References /\ "receive_session" \in References
  BY <1>4, <1>5 DEF Ledgers, References
<1>7. /\ moved' \in Ledgers /\ moved'["cycle_count_session"] = added
      /\ moved'["receive_session"] = moved["receive_session"]
  <2> HIDE DEF added
  <2> QED BY <1>2, <1>5, <1>6 DEF Ledgers
<1>8. bal' \in Balances
  <2>1. CASE posted = <<>>
    BY <1>1, <1>5, <2>1
  <2>2. CASE posted # <<>>
    <3>1. HoldingAfter(posted) \in Int
      BY <1>1, <1>3, HoldingAfterType
    <3>2. \A n \in Int : Overwritten(n) \in Balances
      BY <1>5 DEF Overwritten, Balances, BalanceRow
    <3> QED BY <1>1, <2>2, <3>1, <3>2
  <2> QED BY <2>1, <2>2
<1>9. ASSUME NEW v \in P
      PROVE  /\ v \in Found /\ variance[v].status = "APPROVED" /\ variance[v] \in VarianceRow
             /\ variance'[v] \in VarianceRow /\ variance'[v].status = "POSTED"
             /\ variance'[v].adjustment = variance[v].adjustment
  <2>1. v \in Found /\ variance[v].status = "APPROVED"
    BY DEF Posting, VariancesOf
  <2>2. variance[v] # NoVariance
    BY <2>1 DEF NoVariance
  <2>3. variance[v] \in VarianceRow
    BY <1>3, <2>1, <2>2, VarianceColumns
  <2>4. variance'[v] = [variance[v] EXCEPT !.status = "POSTED"]
    BY <1>2, <2>1
  <2> QED BY <2>1, <2>3, <2>4 DEF VarianceRow
<1>10. \A v \in Found \ P : variance'[v] = variance[v]
  BY <1>2
<1>11. CountRowTypes'
  <2>1. plan' \in PlanRow
    BY <1>2, <1>3 DEF CountRowTypes, PlanRow
  <2>2. count' \in [Counts -> CountRow]
    BY <1>2, <1>3 DEF CountRowTypes, CountRow
  <2>3. variance' \in [Found -> VarianceRow \cup {NoVariance}]
    <3>1. \A v \in Found : variance'[v] \in VarianceRow \cup {NoVariance}
      BY <1>3, <1>9, <1>10 DEF CountRowTypes
    <3>2. variance' = [v \in Found |-> variance'[v]]
      BY <1>2
    <3> QED BY <3>1, <3>2
  <2> QED BY <2>1, <2>2, <2>3 DEF CountRowTypes
<1>12. /\ PostedVariances(variance') = old \cup P /\ old \cap P = {}
       /\ P \in SUBSET Found /\ old \in SUBSET Found
  <2>1. P \in SUBSET Found /\ old \in SUBSET Found
    BY DEF PostedVariances, Posting, VariancesOf
  <2> HIDE DEF P
  <2> QED BY <1>9, <1>10, <2>1 DEF PostedVariances
<1>13. Adjustments(variance', old \cup P) = Adjustments(variance, old) + Adjustments(variance, P)
  <2> DEFINE f == [v \in old \cup P |-> variance'[v].adjustment]
             g == [v \in old |-> variance[v].adjustment]
             h == [v \in P |-> variance[v].adjustment]
  <2>1. IsFiniteSet(old) /\ IsFiniteSet(P)
    BY <1>12, FoundFinite
  <2>2. ASSUME NEW v \in old PROVE f[v] = g[v] /\ f[v] \in Int
    <3>1. v \in Found /\ variance[v].status = "POSTED" /\ v \notin P
      BY <1>12 DEF PostedVariances
    <3>2. variance[v] # NoVariance /\ variance'[v] = variance[v]
      BY <1>10, <3>1 DEF NoVariance
    <3> QED BY <1>3, <3>1, <3>2, VarianceColumns
  <2>3. ASSUME NEW v \in P PROVE f[v] = h[v] /\ f[v] \in Int
    BY <1>9 DEF VarianceRow
  <2>4. DOMAIN f = old \cup P /\ DOMAIN g = old /\ DOMAIN h = P
    OBVIOUS
  <2> HIDE DEF f, g, h, old, P
  <2>5. SumFunctionOnSet(f, old \cup P) = SumFunctionOnSet(f, old) + SumFunctionOnSet(f, P)
    <3>1. old \cap P = {} /\ \A v \in old \cup P : f[v] \in Int
      BY <1>12, <2>2, <2>3
    <3> QED BY <2>1, <3>1, SumUnion
  <2>6. SumFunctionOnSet(f, old) = SumFunctionOnSet(g, old)
    BY <2>1, <2>2, SumSame
  <2>7. SumFunctionOnSet(f, P) = SumFunctionOnSet(h, P)
    BY <2>1, <2>3, SumSame
  <2>8. /\ SumFunction(f) = SumFunctionOnSet(f, old \cup P)
        /\ SumFunction(g) = SumFunctionOnSet(g, old)
        /\ SumFunction(h) = SumFunctionOnSet(h, P)
    BY <2>4, SumIsOnDomain
  <2>9. SumFunction(f) = SumFunction(g) + SumFunction(h)
    BY <2>5, <2>6, <2>7, <2>8
  <2> QED BY <2>9 DEF Adjustments, f, g, h
<1>14. Explains(moved', "cycle_count_session")
         = Explains(moved, "cycle_count_session") + Adjustments(variance, P)
  <2> DEFINE f == [b \in Bins |-> moved["cycle_count_session"][b]]
             g == [b \in Bins |-> AdjustmentsIn(b, P)]
             h == [b \in Bins |-> moved'["cycle_count_session"][b]]
  <2>1. /\ DOMAIN f = Bins /\ DOMAIN g = Bins /\ DOMAIN h = Bins
        /\ \A b \in Bins : f[b] \in Int /\ g[b] \in Int /\ h[b] = f[b] + g[b]
    BY <1>4, <1>6, <1>7
  <2>2. SumFunction(g) = Adjustments(variance, P)
    BY <1>3, PostingAddsUp
  <2> HIDE DEF f, g, h, P, added
  <2>3. SumFunctionOnSet(h, Bins) = SumFunctionOnSet(f, Bins) + SumFunctionOnSet(g, Bins)
    BY <2>1, StockAssumption, SumPlus
  <2>4. SumFunction(h) = SumFunction(f) + SumFunction(g)
    BY <2>1, <2>3, SumIsOnDomain
  <2> QED BY <2>2, <2>4 DEF f, h, Explains
<1>15. CountIsExplained'
  BY <1>3, <1>12, <1>13, <1>14 DEF CountIsExplained, PostedVariances
<1>16. ASSUME NoCountPosted' PROVE NoCountPosted /\ bal' = bal /\ moved' = moved
  <2>1. P = {} /\ NoCountPosted
    <3>1. PostedVariances(variance') = {}
      BY <1>16 DEF NoCountPosted, PostedVariances
    <3> HIDE DEF P
    <3> QED BY <1>12, <3>1 DEF NoCountPosted, PostedVariances
  <2>2. posted = <<>>
    <3>1. posted \in [1..0 -> {}]
      BY <1>1, <2>1, FS_EmptySet DEF SetToSeqs
    <3>2. posted \in Seq({}) /\ 0 \in Nat
      BY <3>1, SeqDef
    <3>3. Len(posted) = 0
      BY <3>1, <3>2, LenProperties
    <3> QED BY <3>2, <3>3, EmptySeq
  <2>3. moved' = moved
    <3>1. \A b \in Bins : AdjustmentsIn(b, P) = 0
      BY <1>3, <2>1, PostingAddsUp
    <3>2. added = moved["cycle_count_session"]
      BY <1>6, <3>1
    <3> HIDE DEF added
    <3> QED BY <1>2, <1>5, <1>6, <3>2 DEF Ledgers
  <2> QED BY <1>1, <2>1, <2>2, <2>3
<1> QED
  BY <1>7, <1>8, <1>11, <1>15, <1>16 DEF CountStockInv, StockTypes, Ledgers, Balances

LEMMA PostedStay ==
  ASSUME CountStockInv, StockTypes, UNCHANGED <<bal, moved>>, CountRowTypes',
         PostedVariances(variance') = PostedVariances(variance),
         \A v \in PostedVariances(variance) : variance'[v].adjustment = variance[v].adjustment
  PROVE  /\ CountStockInv' /\ StockTypes'
         /\ NoCountPosted' => NoCountPosted /\ bal' = bal /\ moved' = moved
         /\ moved'["receive_session"] = moved["receive_session"]
<1>1. CountIsExplained'
  BY ExplainedStays DEF CountStockInv
<1>2. NoCountPosted' => NoCountPosted
  BY DEF NoCountPosted, PostedVariances
<1> QED BY <1>1, <1>2 DEF CountStockInv, StockTypes

LEMMA CountStockStep ==
  ASSUME CountStockInv, StockTypes, [CountNext]_CountVars
  PROVE  /\ CountStockInv' /\ StockTypes'
         /\ NoCountPosted' => NoCountPosted /\ (Book(bal, moved) => Book(bal', moved'))
         /\ moved'["receive_session"] = moved["receive_session"]
<1> DEFINE Goal == /\ CountStockInv' /\ StockTypes'
                   /\ NoCountPosted' => NoCountPosted /\ (Book(bal, moved) => Book(bal', moved'))
                   /\ moved'["receive_session"] = moved["receive_session"]
<1>0. /\ CountRowTypes /\ CountIsExplained
      /\ plan \in PlanRow /\ count \in [Counts -> CountRow]
      /\ variance \in [Found -> VarianceRow \cup {NoVariance}]
  BY DEF CountStockInv, CountRowTypes
\* The variances stay as they are, and so does stock.
<1>1. ASSUME variance' = variance, bal' = bal, moved' = moved, plan' \in PlanRow,
             count' \in [Counts -> CountRow]
      PROVE  Goal
  <2>1. CountRowTypes' /\ PostedVariances(variance') = PostedVariances(variance)
    BY <1>0, <1>1 DEF CountRowTypes, PostedVariances
  <2>2. UNCHANGED <<bal, moved>>
    BY <1>1
  <2>3. \A v \in PostedVariances(variance) : variance'[v].adjustment = variance[v].adjustment
    BY <1>1
  <2> QED BY <2>1, <2>2, <2>3, PostedStay
\* One of them is rewritten that is not posted, and is not posted then.
<1>2. ASSUME NEW v \in Found, NEW row \in VarianceRow, variance' = [variance EXCEPT ![v] = row],
             variance[v].status # "POSTED", row.status # "POSTED",
             UNCHANGED <<plan, count>>, bal' = bal, moved' = moved
      PROVE  Goal
  <2>1. CountRowTypes' /\ \A w \in Found : w # v => variance'[w] = variance[w]
    BY <1>0, <1>2 DEF CountRowTypes
  <2>2. variance'[v].status # "POSTED"
    BY <1>0, <1>2
  <2>3. PostedVariances(variance') = PostedVariances(variance)
    BY <1>2, <2>1, <2>2 DEF PostedVariances
  <2>4. \A w \in PostedVariances(variance) : variance'[w].adjustment = variance[w].adjustment
    BY <1>2, <2>1 DEF PostedVariances
  <2>5. UNCHANGED <<bal, moved>>
    BY <1>2
  <2> QED BY <2>1, <2>3, <2>4, <2>5, PostedStay
<1> HIDE DEF Goal
<1> SUFFICES Goal
  BY DEF Goal
<1>3. CASE ScheduleCycleCountPlan \/ StartCycleCountPlan \/ CancelCycleCountPlan
  <2>1. /\ count' = count /\ variance' = variance /\ bal' = bal /\ moved' = moved
        /\ \E status \in {"SCHEDULED", "IN_PROGRESS", "CANCELLED"} :
             plan' = [plan EXCEPT !.status = status]
    BY <1>3 DEF ScheduleCycleCountPlan, StartCycleCountPlan, CancelCycleCountPlan, StockVars
  <2>2. plan' \in PlanRow
    BY <1>0, <2>1 DEF PlanRow
  <2> QED BY <1>0, <1>1, <2>1, <2>2
<1>4. ASSUME NEW b \in LineBins, AddPlanLine(b) PROVE Goal
  BY <1>0, <1>1, <1>4 DEF AddPlanLine, PlanRow, StockVars
<1>5. ASSUME NEW c \in Counts, CreateCountSession(c) PROVE Goal
  <2>1. [status |-> "OPEN", expected |-> OnHand(bal)] \in CountRow
    BY OnHandType DEF CountRow
  <2>2. count' \in [Counts -> CountRow]
    BY <1>0, <1>5, <2>1 DEF CreateCountSession
  <2> QED BY <1>0, <1>1, <1>5, <2>2 DEF CreateCountSession, StockVars
<1>6. ASSUME NEW c \in Counts, NEW whole \in BOOLEAN, SubmitSessionForReview(c, whole)
      PROVE  Goal
  <2>1. count' \in [Counts -> CountRow]
    BY <1>0, <1>6 DEF SubmitSessionForReview, CountRow
  <2>2. plan' \in PlanRow
    BY <1>0, <1>6 DEF SubmitSessionForReview, PlanRow
  <2> QED BY <1>1, <1>6, <2>1, <2>2 DEF SubmitSessionForReview, StockVars
<1>7. ASSUME NEW c \in Counts, ApproveCountSession(c) PROVE Goal
  <2>1. count' \in [Counts -> CountRow]
    BY <1>0, <1>7 DEF ApproveCountSession, CountRow
  <2> QED BY <1>0, <1>1, <1>7, <2>1 DEF ApproveCountSession, StockVars
<1>8. ASSUME NEW c \in Counts, NEW b \in LineBins, NEW n \in Tallies, NEW v \in Found,
             CountSessionLine(c, b, n, v)
      PROVE  Goal
  <2> DEFINE adjustment == n - count[c].expected
             severity == Severity(adjustment, count[c].expected)
             row == [status |-> "OPEN", severity |-> severity, of |-> c, bin |-> b,
                     adjustment |-> adjustment]
  <2>1. /\ variance' = [variance EXCEPT ![v] = row] /\ variance[v] = NoVariance
        /\ UNCHANGED <<plan, count>> /\ bal' = bal /\ moved' = moved
    BY <1>8 DEF CountSessionLine, StockVars
  <2>2. adjustment \in Int
    BY <1>0, CountAssumption DEF CountRow
  <2>3. severity \in {"INFO", "WARNING", "BLOCKER"}
    BY DEF Severity
  <2> HIDE DEF adjustment, severity
  <2>4. row \in VarianceRow /\ row.status = "OPEN"
    BY <2>2, <2>3 DEF VarianceRow
  <2> HIDE DEF row
  <2>5. variance[v].status # "POSTED" /\ row.status # "POSTED"
    BY <2>1, <2>4 DEF NoVariance
  <2> QED BY <1>2, <2>1, <2>4, <2>5
<1>9. ASSUME NEW v \in Found, NEW decision \in {"APPROVED", "REJECTED", "WAIVED"},
             DecideVariance(v, decision)
      PROVE  Goal
  <2> DEFINE row == [variance[v] EXCEPT !.status = decision]
  <2>1. /\ variance' = [variance EXCEPT ![v] = row] /\ variance[v].status = "OPEN"
        /\ UNCHANGED <<plan, count>> /\ bal' = bal /\ moved' = moved
    BY <1>9 DEF DecideVariance, StockVars
  <2>2. variance[v] \in VarianceRow
    BY <1>0, <2>1 DEF NoVariance
  <2>3. row \in VarianceRow /\ row.status = decision
    BY <2>2 DEF VarianceRow
  <2> HIDE DEF row
  <2>4. variance[v].status # "POSTED" /\ row.status # "POSTED"
    BY <2>1, <2>3
  <2> QED BY <1>2, <2>1, <2>3, <2>4
<1>10. ASSUME NEW c \in Counts, PostCountSession(c) PROVE Goal
  <2>1. CountStockInv' /\ StockTypes' /\ moved'["receive_session"] = moved["receive_session"]
    BY <1>10, PostCountStep
  <2>2. NoCountPosted' => NoCountPosted /\ bal' = bal /\ moved' = moved
    BY <1>10, PostCountStep
  <2> QED BY <2>1, <2>2 DEF Goal
<1>11. CASE AdjustStock /\ UNCHANGED <<plan, count, variance>>
  <2>1. /\ StockTypes' /\ (Book(bal, moved) => Book(bal', moved'))
        /\ moved'["receive_session"] = moved["receive_session"]
        /\ moved'["cycle_count_session"] = moved["cycle_count_session"]
    BY <1>11, AdjustKeeps DEF References
  <2>2. /\ CountRowTypes' /\ PostedVariances(variance') = PostedVariances(variance)
        /\ \A v \in PostedVariances(variance) : variance'[v].adjustment = variance[v].adjustment
        /\ NoCountPosted' => NoCountPosted
    BY <1>0, <1>11 DEF CountRowTypes, PostedVariances, NoCountPosted
  <2>3. CountIsExplained'
    BY <1>0, <2>1, <2>2, ExplainedStays
  <2> QED BY <2>1, <2>2, <2>3 DEF Goal, CountStockInv
<1>12. CASE UNCHANGED <<plan, count, variance, bal, moved>>
  BY <1>0, <1>1, <1>12
<1> QED
  BY <1>3, <1>4, <1>5, <1>6, <1>7, <1>8, <1>9, <1>10, <1>11, <1>12
     DEF CountNext, CountVars, StockVars

(* What is written of counts as movements is what the variances that they  *)
(* posted say, each once.                                                  *)
THEOREM CountsExplained == CountSpec => [](CountTypes /\ CountIsExplained)
<1> DEFINE Inv == CountStockInv /\ StockTypes
<1>1. CountInit => Inv
  BY CountStockInitially
<1>2. Inv /\ [CountNext]_CountVars => Inv'
  BY CountStockStep
<1>3. Inv => CountTypes /\ CountIsExplained
  BY DEF CountStockInv, CountRowTypes, CountTypes
<1> QED BY <1>1, <1>2, <1>3, PTL DEF CountSpec

-----------------------------------------------------------------------------
(* Work done offline: tasks that are applied one after the other, each to  *)
(* what the ones before it left. What follows from stock as it is, written *)
(* under the reference r alone.                                            *)

Follows(rows, ledger, r) ==
  /\ rows \in Balances /\ ledger \in Ledgers
  /\ Book(bal, moved) => Book(rows, ledger)
  /\ \A o \in References : o # r => ledger[o] = moved[o]

LEMMA FollowsItself ==
  ASSUME StockTypes, NEW r
  PROVE  Follows(bal, moved, r)
BY DEF StockTypes, Follows, Balances, Ledgers

LEMMA FollowsOn ==
  ASSUME NEW r \in References, NEW rows, NEW ledger, Follows(rows, ledger, r),
         NEW b \in Bins, NEW q \in Int, NEW rows2, NEW ledger2,
         Entry(rows, ledger, r, b, q, rows2, ledger2)
  PROVE  Follows(rows2, ledger2, r)
<1>1. rows \in Balances /\ ledger \in Ledgers
  BY DEF Follows
<1>2. /\ rows2 \in Balances /\ ledger2 \in Ledgers
      /\ Book(rows, ledger) => Book(rows2, ledger2)
      /\ \A o \in References : o # r => ledger2[o] = ledger[o]
  BY <1>1, EntryKeeps
<1> QED BY <1>2 DEF Follows

-----------------------------------------------------------------------------
(* Sync batches.                                                           *)

SyncState(rows, ledger) == [bal |-> rows, moved |-> ledger]
SyncReach == {s \in [bal : Balances, moved : Ledgers] : Follows(s.bal, s.moved, "sync_batch")}

LEMMA AppliedStays ==
  ASSUME NEW s \in SyncReach, NEW n \in 1..Len(SyncTasks)
  PROVE  ApplySyncTask(s, SyncTasks[n]) \subseteq SyncReach
<1> DEFINE task == SyncTasks[n]
<1>1. task \in [kind : {"RECEIVE", "ISSUE", "COUNT"}, qty : Nat \ {0}]
  BY SyncAssumption, ElementOfSeq
<1> HIDE DEF task
<1>2. Follows(s.bal, s.moved, "sync_batch") /\ s.bal \in Balances /\ s.moved \in Ledgers
  BY DEF SyncReach
<1>3. ASSUME NEW b \in Bins, ~ShortOf(s.bal[b], task)
      PROVE  [bal |-> [s.bal EXCEPT ![b] = Applied(@, task)],
              moved |-> Explained(s.moved, "sync_batch", b,
                                  Applied(s.bal[b], task).onHand - s.bal[b].onHand)]
               \in SyncReach
  <2> DEFINE q == Applied(s.bal[b], task).onHand - s.bal[b].onHand
             rows2 == [s.bal EXCEPT ![b] = Applied(@, task)]
             ledger2 == Explained(s.moved, "sync_batch", b, q)
  <2>1. s.bal[b] \in BalanceRow /\ s.bal[b].onHand \in Int /\ s.bal[b].available \in Int
    BY <1>2, RowColumns DEF Balances
  <2>2. task.qty \in Nat \ {0} /\ task.kind \in {"RECEIVE", "ISSUE", "COUNT"}
    BY <1>1
  <2>3. q \in Int /\ Entry(s.bal, s.moved, "sync_batch", b, q, rows2, ledger2)
    <3>1. CASE task.kind = "COUNT"
      <4>1. Applied(s.bal[b], task) = Recounted(s.bal[b], task.qty)
        BY <3>1 DEF Applied
      <4>2. Recounted(s.bal[b], task.qty).onHand = task.qty
        BY <2>1 DEF Recounted, BalanceRow
      <4>3. q = task.qty - s.bal[b].onHand
        BY <4>1, <4>2
      <4>4. rows2 = [s.bal EXCEPT ![b] = Recounted(@, task.qty)]
        BY <4>1
      <4> HIDE DEF q, rows2
      <4>5. q \in Int /\ task.qty \in Nat /\ task.qty = s.bal[b].onHand + q
        BY <2>1, <2>2, <4>3
      <4> QED BY <1>2, <4>4, <4>5, RecountedIsEntry
    <3>2. CASE task.kind # "COUNT"
      <4> DEFINE n2 == IF task.kind = "RECEIVE" THEN task.qty ELSE -task.qty
      <4>1. Applied(s.bal[b], task) = Gained(s.bal[b], n2)
        BY <2>2, <3>2 DEF Applied
      <4>2. n2 \in Int /\ (0 <= n2 \/ 0 <= s.bal[b].available + n2)
        <5>1. CASE task.kind = "RECEIVE"
          BY <2>2, <5>1
        <5>2. CASE task.kind = "ISSUE"
          BY <1>3, <2>1, <2>2, <5>2 DEF ShortOf
        <5> QED BY <2>2, <3>2, <5>1, <5>2
      <4> HIDE DEF n2
      <4>3. Gained(s.bal[b], n2).onHand = s.bal[b].onHand + n2
        BY <2>1, <4>2, GainedKeeps
      <4>4. rows2 = [s.bal EXCEPT ![b] = Gained(@, n2)] /\ q = n2
        BY <2>1, <4>1, <4>2, <4>3
      <4> HIDE DEF q, rows2
      <4> QED BY <1>2, <4>2, <4>4, GainedIsEntry
    <3> QED BY <3>1, <3>2
  <2> HIDE DEF q, rows2, ledger2
  <2>4. Follows(rows2, ledger2, "sync_batch")
    BY <1>2, <2>3, FollowsOn DEF References
  <2>5. SyncState(rows2, ledger2) \in SyncReach
    BY <2>4 DEF SyncState, SyncReach, Follows
  <2> QED BY <2>5 DEF SyncState, rows2, ledger2, q
<1> QED BY <1>3 DEF ApplySyncTask, Fullest, task

\* The sets of states that the tasks may leave.
Leaves ==
  CHOOSE after : after = [n \in 0..Len(SyncTasks) |->
    IF n = 0 THEN {[bal |-> bal, moved |-> moved]}
    ELSE UNION {ApplySyncTask(s, SyncTasks[n]) : s \in after[n - 1]}]

LEMMA AllApplied ==
  ASSUME StockTypes
  PROVE  AppliedTasks \subseteq SyncReach
<1> DEFINE L == Len(SyncTasks)
           X == SUBSET SyncReach
           first == {[bal |-> bal, moved |-> moved]}
           Then(n, S) == UNION {ApplySyncTask(s, SyncTasks[n]) : s \in S}
           G == [n \in 1..L |-> [S \in X |-> Then(n, S)]]
           Step(after) == [n \in 0..L |-> IF n = 0 THEN first ELSE Then(n, after[n - 1])]
<1>1. L \in Nat
  BY SyncAssumption, LenProperties
<1>2. first \in X
  <2>1. Follows(bal, moved, "sync_batch")
    BY FollowsItself
  <2>2. bal \in Balances /\ moved \in Ledgers
    BY DEF StockTypes, Balances, Ledgers
  <2> QED BY <2>1, <2>2 DEF SyncReach
<1>3. ASSUME NEW n \in 1..L, NEW S \in X PROVE Then(n, S) \in X
  BY AppliedStays
<1>4. G \in [1..L -> [X -> X]]
  <2> HIDE DEF X, L, Then
  <2> QED BY <1>3
<1>5. PICK f \in [0..L -> X] : Passes(f, G, first, L)
  <2> HIDE DEF G, X, L, first
  <2> QED BY <1>1, <1>2, <1>4, PassesExist
<1>6. f = Step(f)
  <2>1. ASSUME NEW n \in 0..L PROVE f[n] = Step(f)[n]
    <3> HIDE DEF X, first, Then
    <3>1. CASE n = 0
      BY <1>5, <3>1 DEF Passes
    <3>2. CASE n # 0
      <4>1. n \in 1..L /\ n - 1 \in 0..L
        BY <1>1, <3>2
      <4>2. f[n] = G[n][f[n - 1]] /\ f[n - 1] \in X
        BY <1>5, <4>1 DEF Passes
      <4> QED BY <3>2, <4>1, <4>2
    <3> QED BY <3>1, <3>2
  <2>2. f = [n \in 0..L |-> f[n]]
    BY <1>5
  <2> HIDE DEF X, first, Then
  <2> QED BY <2>1, <2>2
<1> DEFINE after == Leaves
<1>7. after = Step(after)
  BY <1>6 DEF Leaves
<1>8. \A n \in 0..L : after[n] \in X
  <2> HIDE DEF after, X, Then, first
  <2>1. after[0] = first
    <3>1. 0 \in 0..L
      BY <1>1
    <3> QED BY <1>7, <3>1
  <2>2. ASSUME NEW n \in 1..L, after[n - 1] \in X PROVE after[n] \in X
    <3>1. n \in 0..L /\ n # 0
      BY <1>1
    <3>2. after[n] = Then(n, after[n - 1])
      BY <1>7, <3>1
    <3> QED BY <1>3, <2>2, <3>2
  <2> HIDE DEF L
  <2> QED BY <1>1, <1>2, <2>1, <2>2, StepsWithin
<1>9. AppliedTasks = after[L]
  BY DEF AppliedTasks, Leaves
<1>10. L \in 0..L
  BY <1>1
<1> HIDE DEF after, L
<1> QED BY <1>8, <1>9, <1>10

SyncRowTypes ==
  /\ review \in {"PENDING", "APPROVED", "REJECTED"}
  /\ conflict \in {"PENDING", "RESOLVED", "IGNORED"}

LEMMA SyncStep ==
  ASSUME SyncRowTypes, StockTypes, [SyncNext]_SyncVars
  PROVE  /\ SyncRowTypes' /\ StockTypes'
         /\ (Book(bal, moved) => Book(bal', moved'))
         /\ moved'["receive_session"] = moved["receive_session"]
         /\ moved'["cycle_count_session"] = moved["cycle_count_session"]
<1>1. CASE ApproveSyncBatch
  <2>1. PICK s \in AppliedTasks : bal' = s.bal /\ moved' = s.moved
    BY <1>1 DEF ApproveSyncBatch
  <2>2. s.bal \in Balances /\ s.moved \in Ledgers /\ Follows(s.bal, s.moved, "sync_batch")
    BY AllApplied DEF SyncReach
  <2>3. Follows(bal', moved', "sync_batch") /\ bal' \in Balances /\ moved' \in Ledgers
    BY <2>1, <2>2
  <2>4. SyncRowTypes'
    BY <1>1 DEF ApproveSyncBatch, SyncRowTypes
  <2> QED BY <2>3, <2>4 DEF Follows, StockTypes, Balances, Ledgers, References
<1>2. CASE AdjustStock /\ UNCHANGED <<review, conflict>>
  BY <1>2, AdjustKeeps DEF SyncRowTypes, References
<1>3. CASE RejectSyncBatch \/ \E status \in {"RESOLVED", "IGNORED"} : ResolveSyncConflict(status)
  <2>1. bal' = bal /\ moved' = moved /\ SyncRowTypes'
    BY <1>3 DEF RejectSyncBatch, ResolveSyncConflict, SyncRowTypes, StockVars
  <2> QED BY <2>1 DEF StockTypes
<1>4. CASE UNCHANGED <<review, conflict, bal, moved>>
  BY <1>4 DEF SyncRowTypes, StockTypes
<1> QED BY <1>1, <1>2, <1>3, <1>4 DEF SyncNext, SyncVars, StockVars

-----------------------------------------------------------------------------
(* Offline batches. The rows are passed as an argument, for the replay.    *)

BatchRows == [Batches -> BatchRow \cup {NoBatch}]
OfflineRowTypes == trust \in [Devices -> TrustStates] /\ offline \in BatchRows

\* Work was done for a quantity.
WorkDone(rows, qty) ==
  \E c \in Batches : \E j \in TasksOf(rows, c) :
    rows[c].tasks[j].applied > 0 /\ rows[c].tasks[j].qty = qty
Skipped(rows) ==
  \A b \in Batches : \A i \in TasksOf(rows, b) :
    rows[b].tasks[i].status = "POSTED" => WorkDone(rows, rows[b].tasks[i].qty)
\* Before a batch is validated, nothing was done with its tasks.
NotBegun(row) ==
  row.status \in {"CAPTURED", "UPLOADED"} =>
    \A i \in DOMAIN row.tasks : row.tasks[i].status = "CAPTURED" /\ row.tasks[i].applied = 0
Fresh(rows) == \A b \in Batches : IsBatch(rows, b) => NotBegun(rows[b])
Accounted(rows) == rows \in BatchRows /\ Skipped(rows) /\ Fresh(rows)

\* A batch may become this row: what it calls posted was done, and what was
\* done for it is still on record.
MayCall(rows, row) ==
  \A i \in DOMAIN row.tasks : row.tasks[i].status = "POSTED" =>
    row.tasks[i].applied > 0 \/ WorkDone(rows, row.tasks[i].qty)
OnRecord(rows, b, row) ==
  \A i \in TasksOf(rows, b) : rows[b].tasks[i].applied > 0 =>
    /\ i \in DOMAIN row.tasks /\ row.tasks[i].applied > 0
    /\ row.tasks[i].qty = rows[b].tasks[i].qty

LEMMA BatchIs ==
  ASSUME NEW rows \in BatchRows, NEW b \in Batches
  PROVE  IsBatch(rows, b) <=> rows[b].status # "NONE"
BY DEF BatchRows, IsBatch, NoBatch, BatchRow

LEMMA BatchRewritten ==
  ASSUME NEW rows, Accounted(rows), NEW b \in Batches, NEW row \in BatchRow,
         MayCall(rows, row), OnRecord(rows, b, row), NotBegun(row)
  PROVE  Accounted([rows EXCEPT ![b] = row])
<1> DEFINE rows2 == [rows EXCEPT ![b] = row]
<1>1. rows \in BatchRows /\ Skipped(rows) /\ Fresh(rows)
  BY DEF Accounted
<1>2. /\ rows2 \in BatchRows
      /\ \A c \in Batches : rows2[c] = IF c = b THEN row ELSE rows[c]
  BY <1>1 DEF BatchRows
<1>3. row # NoBatch
  BY DEF BatchRow, NoBatch
<1> HIDE DEF rows2
<1>4. /\ TasksOf(rows2, b) = DOMAIN row.tasks
      /\ \A c \in Batches : c # b => TasksOf(rows2, c) = TasksOf(rows, c)
  BY <1>2, <1>3 DEF TasksOf, IsBatch
<1>5. ASSUME NEW qty, WorkDone(rows, qty) PROVE WorkDone(rows2, qty)
  <2>0. PICK c \in Batches : \E j \in TasksOf(rows, c) :
          rows[c].tasks[j].applied > 0 /\ rows[c].tasks[j].qty = qty
    BY <1>5 DEF WorkDone
  <2>1. PICK j \in TasksOf(rows, c) :
          rows[c].tasks[j].applied > 0 /\ rows[c].tasks[j].qty = qty
    BY <2>0
  <2>2. /\ j \in TasksOf(rows2, c)
        /\ rows2[c].tasks[j].applied > 0 /\ rows2[c].tasks[j].qty = qty
    BY <1>2, <1>4, <2>1 DEF OnRecord
  <2> QED BY <2>2 DEF WorkDone
<1>6. ASSUME NEW c \in Batches, NEW i, i \in TasksOf(rows2, c), rows2[c].tasks[i].status = "POSTED"
      PROVE  WorkDone(rows2, rows2[c].tasks[i].qty)
  <2>1. CASE c = b
    <3>1. /\ i \in DOMAIN row.tasks /\ rows2[c].tasks[i] = row.tasks[i]
          /\ row.tasks[i].status = "POSTED"
      BY <1>2, <1>4, <1>6, <2>1
    <3>2. CASE row.tasks[i].applied > 0
      <4>1. rows2[c].tasks[i].applied > 0
        BY <3>1, <3>2
      <4> QED BY <1>6, <4>1 DEF WorkDone
    <3>3. CASE WorkDone(rows, row.tasks[i].qty)
      BY <1>5, <3>1, <3>3
    <3> QED BY <3>1, <3>2, <3>3 DEF MayCall
  <2>2. CASE c # b
    <3>1. rows2[c] = rows[c] /\ i \in TasksOf(rows, c) /\ rows[c].tasks[i].status = "POSTED"
      BY <1>2, <1>4, <1>6, <2>2
    <3>2. WorkDone(rows, rows[c].tasks[i].qty)
      BY <1>1, <3>1 DEF Skipped
    <3> QED BY <1>5, <3>1, <3>2
  <2> QED BY <2>1, <2>2
<1>7. Skipped(rows2)
  BY <1>6 DEF Skipped
<1>8. Fresh(rows2)
  BY <1>1, <1>2 DEF Fresh, IsBatch
<1> QED BY <1>2, <1>7, <1>8 DEF Accounted, rows2

-----------------------------------------------------------------------------
\* Replay: a task of the batch gets another status, and counts once more if
\* stock was changed for it.
Stamped(task, status, n) == [task EXCEPT !.status = status, !.applied = @ + n]
Restamped(row, i, status, n) == 
  [row EXCEPT !.tasks = [row.tasks EXCEPT ![i] = Stamped(row.tasks[i], status, n)]]

LEMMA TaskStamped ==
  ASSUME NEW task \in TaskRow, NEW status \in TaskStatus, NEW n \in Nat
  PROVE  /\ Stamped(task, status, n) \in TaskRow
         /\ Stamped(task, status, n).qty = task.qty
         /\ Stamped(task, status, n).status = status
         /\ Stamped(task, status, n).applied = task.applied + n
<1>1. task.applied + n \in Nat
  BY DEF TaskRow
<1> DEFINE m == task.applied + n
<1>2. Stamped(task, status, n) = [task EXCEPT !.status = status, !.applied = m]
  BY DEF Stamped
<1> HIDE DEF m
<1>3. /\ [task EXCEPT !.status = status, !.applied = m] \in TaskRow
      /\ [task EXCEPT !.status = status, !.applied = m].qty = task.qty
      /\ [task EXCEPT !.status = status, !.applied = m].status = status
      /\ [task EXCEPT !.status = status, !.applied = m].applied = m
  BY <1>1 DEF TaskRow, m
<1> QED BY <1>2, <1>3 DEF m

LEMMA BatchStamped ==
  ASSUME NEW row \in BatchRow, NEW i \in DOMAIN row.tasks, NEW status \in TaskStatus, NEW n \in Nat
  PROVE  /\ Restamped(row, i, status, n) \in BatchRow
         /\ Restamped(row, i, status, n).status = row.status
         /\ DOMAIN Restamped(row, i, status, n).tasks = DOMAIN row.tasks
         /\ \A j \in DOMAIN row.tasks : Restamped(row, i, status, n).tasks[j] =
              IF j = i THEN Stamped(row.tasks[i], status, n) ELSE row.tasks[j]
         /\ row.tasks[i] \in TaskRow
<1> DEFINE tasks2 == [row.tasks EXCEPT ![i] = Stamped(row.tasks[i], status, n)]
           new == Stamped(row.tasks[i], status, n)
<1>1. row.tasks \in Seq(TaskRow)
  BY DEF BatchRow
<1>2. DOMAIN row.tasks = 1..Len(row.tasks)
  BY <1>1, LenProperties
<1>3. row.tasks[i] \in TaskRow
  BY <1>1, <1>2, ElementOfSeq
<1>4. new \in TaskRow
  BY <1>3, TaskStamped
<1> HIDE DEF new
<1>5. tasks2 \in Seq(TaskRow)
  BY <1>1, <1>2, <1>4, ExceptSeq DEF new
<1>6. /\ DOMAIN tasks2 = DOMAIN row.tasks
      /\ \A j \in DOMAIN row.tasks : tasks2[j] = IF j = i THEN new ELSE row.tasks[j]
  BY DEF new
<1>7. Restamped(row, i, status, n) = [row EXCEPT !.tasks = tasks2]
  BY DEF Restamped
<1> HIDE DEF tasks2
<1>8. [row EXCEPT !.tasks = tasks2] \in BatchRow
  BY <1>5 DEF BatchRow
<1>9. /\ [row EXCEPT !.tasks = tasks2].tasks = tasks2
      /\ [row EXCEPT !.tasks = tasks2].status = row.status
  BY DEF BatchRow
<1> QED BY <1>3, <1>6, <1>7, <1>8, <1>9 DEF new

LEMMA ReplayAccounted ==
  ASSUME NEW rows, Accounted(rows), NEW b \in Batches, IsBatch(rows, b),
         rows[b].status = "VALIDATING", NEW i \in DOMAIN rows[b].tasks,
         NEW status \in TaskStatus, NEW n \in Nat,
         status = "POSTED" => n > 0 \/ AlreadyPosted(rows, b, i)
  PROVE  Accounted([rows EXCEPT ![b] = Restamped(rows[b], i, status, n)])
<1> DEFINE old == rows[b]
           row == Restamped(old, i, status, n)
<1>1. rows \in BatchRows /\ Skipped(rows) /\ old \in BatchRow
  BY DEF Accounted, BatchRows, IsBatch
<1>2. TasksOf(rows, b) = DOMAIN old.tasks
  BY DEF TasksOf
<1>3. /\ row \in BatchRow /\ row.status = "VALIDATING"
      /\ DOMAIN row.tasks = DOMAIN old.tasks
      /\ \A j \in DOMAIN old.tasks : row.tasks[j] =
           IF j = i THEN Stamped(old.tasks[i], status, n) ELSE old.tasks[j]
      /\ old.tasks[i] \in TaskRow
  BY <1>1, BatchStamped
<1> HIDE DEF row
<1>4. /\ row.tasks[i].qty = old.tasks[i].qty /\ row.tasks[i].status = status
      /\ row.tasks[i].applied = old.tasks[i].applied + n /\ old.tasks[i].applied \in Nat
  <2>1. old.tasks[i].applied \in Nat
    BY <1>3 DEF TaskRow
  <2>2. /\ Stamped(old.tasks[i], status, n).qty = old.tasks[i].qty
        /\ Stamped(old.tasks[i], status, n).status = status
        /\ Stamped(old.tasks[i], status, n).applied = old.tasks[i].applied + n
    BY <1>3, TaskStamped
  <2>3. row.tasks[i] = Stamped(old.tasks[i], status, n)
    BY <1>3
  <2> QED BY <2>1, <2>2, <2>3
<1>5. MayCall(rows, row)
  <2> SUFFICES ASSUME NEW j \in DOMAIN row.tasks, row.tasks[j].status = "POSTED"
               PROVE  row.tasks[j].applied > 0 \/ WorkDone(rows, row.tasks[j].qty)
    BY DEF MayCall
  <2>1. CASE j # i
    BY <1>1, <1>2, <1>3, <2>1 DEF Skipped
  <2>2. CASE j = i
    <3>1. CASE n > 0
      BY <1>4, <2>2, <3>1
    <3>2. CASE AlreadyPosted(rows, b, i)
      <4>0. PICK c \in Batches : \E k \in TasksOf(rows, c) :
              rows[c].tasks[k].qty = old.tasks[i].qty /\ rows[c].tasks[k].status = "POSTED"
        BY <3>2 DEF AlreadyPosted
      <4>1. PICK k \in TasksOf(rows, c) :
              rows[c].tasks[k].qty = old.tasks[i].qty /\ rows[c].tasks[k].status = "POSTED"
        BY <4>0
      <4>2. WorkDone(rows, rows[c].tasks[k].qty)
        BY <1>1, <4>1 DEF Skipped
      <4> QED BY <1>4, <2>2, <4>1, <4>2
    <3> QED BY <1>4, <2>2, <3>1, <3>2
  <2> QED BY <2>1, <2>2
<1>6. OnRecord(rows, b, row)
  BY <1>2, <1>3, <1>4 DEF OnRecord
<1>7. NotBegun(row)
  BY <1>3 DEF NotBegun
<1> QED BY <1>3, <1>5, <1>6, <1>7, BatchRewritten DEF row

-----------------------------------------------------------------------------
LEMMA SameStamp ==
  ASSUME NEW task \in TaskRow, NEW status \in TaskStatus
  PROVE  [task EXCEPT !.status = status] = Stamped(task, status, 0)
<1>1. task.applied + 0 = task.applied
  BY DEF TaskRow
<1>2. [task EXCEPT !.status = status] = [task EXCEPT !.status = status, !.applied = task.applied]
  BY DEF TaskRow
<1> DEFINE m == task.applied + 0
<1>3. Stamped(task, status, 0) = [task EXCEPT !.status = status, !.applied = m]
  BY DEF Stamped
<1>4. m = task.applied
  BY <1>1
<1> HIDE DEF m
<1> QED BY <1>2, <1>3, <1>4

LEMMA RowsEnded ==
  ASSUME NEW rows \in BatchRows, NEW b \in Batches, rows[b] \in BatchRow,
         NEW i \in DOMAIN rows[b].tasks, NEW status \in TaskStatus
  PROVE  [rows EXCEPT ![b].tasks[i].status = status]
           = [rows EXCEPT ![b] = Restamped(rows[b], i, status, 0)]
<1>1. rows[b].tasks[i] \in TaskRow
  BY BatchStamped
<1>2. [rows[b].tasks[i] EXCEPT !.status = status] = Stamped(rows[b].tasks[i], status, 0)
  BY <1>1, SameStamp
<1>3. [rows EXCEPT ![b].tasks[i].status = status]
        = [rows EXCEPT ![b] = [rows[b] EXCEPT !.tasks =
             [rows[b].tasks EXCEPT ![i] = [rows[b].tasks[i] EXCEPT !.status = status]]]]
  OBVIOUS
<1> QED BY <1>2, <1>3 DEF Restamped

PostedRows(rows, b, i) ==
  LET task == rows[b].tasks[i]
  IN  [rows EXCEPT ![b].tasks[i] = [task EXCEPT !.status = "POSTED", !.applied = @ + 1]]

LEMMA RowsPosted ==
  ASSUME NEW rows, NEW b, NEW i
  PROVE  PostedRows(rows, b, i) = [rows EXCEPT ![b] = Restamped(rows[b], i, "POSTED", 1)]
<1> DEFINE new == Stamped(rows[b].tasks[i], "POSTED", 1)
<1>1. PostedRows(rows, b, i) = [rows EXCEPT ![b].tasks[i] = new]
  BY DEF Stamped, PostedRows
<1> HIDE DEF new
<1>2. [rows EXCEPT ![b].tasks[i] = new]
        = [rows EXCEPT ![b] = [rows[b] EXCEPT !.tasks = [rows[b].tasks EXCEPT ![i] = new]]]
  OBVIOUS
<1> QED BY <1>1, <1>2 DEF Restamped, new

-----------------------------------------------------------------------------
OfflineState(rows, bals, ledger) == [rows |-> rows, bal |-> bals, moved |-> ledger]
OfflineReach(b, tasks) ==
  {s \in [rows : BatchRows, bal : Balances, moved : Ledgers] :
     /\ Follows(s.bal, s.moved, "offline_batch") /\ Accounted(s.rows)
     /\ IsBatch(s.rows, b) /\ s.rows[b].status = "VALIDATING"
     /\ DOMAIN s.rows[b].tasks = tasks}

\* Whatever becomes of a task, the batch is as it may be during a replay.
LEMMA ReachedRows ==
  ASSUME NEW b \in Batches, NEW D, NEW s \in OfflineReach(b, D), NEW i \in D,
         NEW status \in TaskStatus, NEW n \in Nat,
         status = "POSTED" => n > 0 \/ AlreadyPosted(s.rows, b, i),
         NEW rows2, rows2 = [s.rows EXCEPT ![b] = Restamped(s.rows[b], i, status, n)],
         NEW bals, NEW ledger, Follows(bals, ledger, "offline_batch")
  PROVE  OfflineState(rows2, bals, ledger) \in OfflineReach(b, D)
<1> DEFINE rows == s.rows
<1>1. /\ rows \in BatchRows /\ Accounted(rows) /\ IsBatch(rows, b)
      /\ rows[b].status = "VALIDATING" /\ DOMAIN rows[b].tasks = D
  BY DEF OfflineReach
<1>2. rows[b] \in BatchRow
  BY <1>1 DEF BatchRows, IsBatch
<1> HIDE DEF rows
<1>3. Accounted(rows2)
  BY <1>1, ReplayAccounted DEF rows
<1>4. /\ Restamped(rows[b], i, status, n) \in BatchRow
      /\ Restamped(rows[b], i, status, n).status = "VALIDATING"
      /\ DOMAIN Restamped(rows[b], i, status, n).tasks = D
  BY <1>1, <1>2, BatchStamped
<1>5. rows2 \in BatchRows /\ rows2[b] = Restamped(rows[b], i, status, n)
  BY <1>1, <1>3 DEF Accounted, BatchRows, rows
<1>6. IsBatch(rows2, b) /\ rows2[b].status = "VALIDATING" /\ DOMAIN rows2[b].tasks = D
  BY <1>4, <1>5, BatchIs
<1>7. bals \in Balances /\ ledger \in Ledgers
  BY DEF Follows
<1> QED BY <1>3, <1>5, <1>6, <1>7 DEF OfflineState, OfflineReach

LEMMA ReplayStays ==
  ASSUME NEW b \in Batches, NEW D, NEW s \in OfflineReach(b, D), NEW i \in D
  PROVE  ReplayTask(s, b, i) \subseteq OfflineReach(b, D)
<1> DEFINE task == s.rows[b].tasks[i]
           Posted(bin) ==
             [rows |-> PostedRows(s.rows, b, i),
              bal |-> [s.bal EXCEPT ![bin] = Gained(@, Change(task, s.bal[bin]))],
              moved |-> Explained(s.moved, "offline_batch", bin, Change(task, s.bal[bin]))]
<1>1. /\ s \in [rows : BatchRows, bal : Balances, moved : Ledgers]
      /\ s.rows \in BatchRows /\ s.bal \in Balances /\ s.moved \in Ledgers
      /\ IsBatch(s.rows, b) /\ i \in DOMAIN s.rows[b].tasks
      /\ Follows(s.bal, s.moved, "offline_batch")
  BY DEF OfflineReach
<1>2. s.rows[b] \in BatchRow
  BY <1>1 DEF BatchRows, IsBatch
<1>3. task \in TaskRow
  BY <1>1, <1>2, BatchStamped DEF TaskStatus
<1>4. task.qty \in Nat \ {0} /\ task.kind \in {"RECEIVE", "ISSUE", "COUNT"}
  BY <1>3, OfflineAssumption DEF TaskRow, Kinds
<1>5. ASSUME NEW status \in {"POSTED", "FAILED"},
             status = "POSTED" => AlreadyPosted(s.rows, b, i)
      PROVE  Ended(s, b, i, status) \in OfflineReach(b, D)
  <2> DEFINE rows2 == [s.rows EXCEPT ![b].tasks[i].status = status]
  <2>1. status \in TaskStatus
    BY DEF TaskStatus
  <2>2. rows2 = [s.rows EXCEPT ![b] = Restamped(s.rows[b], i, status, 0)]
    BY <1>1, <1>2, <2>1, RowsEnded
  <2>3. Ended(s, b, i, status) = OfflineState(rows2, s.bal, s.moved)
    <3>1. Ended(s, b, i, status) = [s EXCEPT !.rows = rows2]
      BY DEF Ended
    <3> HIDE DEF rows2
    <3> QED BY <1>1, <3>1 DEF OfflineState
  <2> HIDE DEF rows2
  <2> QED BY <1>1, <1>5, <2>1, <2>2, <2>3, ReachedRows
<1>6. ASSUME NEW bin \in Bins, ~Short(task, s.bal[bin])
      PROVE  Posted(bin) \in OfflineReach(b, D)
  <2> DEFINE q == Change(task, s.bal[bin])
             rows2 == PostedRows(s.rows, b, i)
             bals2 == [s.bal EXCEPT ![bin] = Gained(@, q)]
             ledger2 == Explained(s.moved, "offline_batch", bin, q)
  <2>1. s.bal[bin].onHand \in Int /\ s.bal[bin].available \in Int
    BY <1>1, RowColumns DEF Balances
  <2>2. /\ q \in Int
        /\ \/ 0 <= q \/ 0 <= s.bal[bin].available + q \/ 0 <= s.bal[bin].onHand + q
    <3> HIDE DEF task
    <3>1. CASE task.kind = "RECEIVE"
      BY <1>4, <3>1 DEF Change
    <3>2. CASE task.kind = "ISSUE"
      <4>1. q = -task.qty
        BY <3>2 DEF Change
      <4> QED BY <1>4, <1>6, <2>1, <3>2, <4>1 DEF Short
    <3>3. CASE task.kind = "COUNT"
      <4>1. q = task.qty - s.bal[bin].onHand
        BY <3>3 DEF Change
      <4> QED BY <1>4, <2>1, <4>1
    <3> QED BY <1>4, <3>1, <3>2, <3>3
  <2> HIDE DEF q
  <2>3. Entry(s.bal, s.moved, "offline_batch", bin, q, bals2, ledger2)
    BY <1>1, <2>2, GainedIsEntry
  <2> HIDE DEF bals2, ledger2
  <2>4. Follows(bals2, ledger2, "offline_batch")
    BY <1>1, <2>2, <2>3, FollowsOn DEF References
  <2>5. rows2 = [s.rows EXCEPT ![b] = Restamped(s.rows[b], i, "POSTED", 1)]
    BY RowsPosted
  <2> HIDE DEF rows2
  <2>6. "POSTED" \in TaskStatus /\ 1 \in Nat /\ 1 > 0
    BY DEF TaskStatus
  <2>7. OfflineState(rows2, bals2, ledger2) \in OfflineReach(b, D)
    BY <2>4, <2>5, <2>6, ReachedRows
  <2>8. Posted(bin) = OfflineState(rows2, bals2, ledger2)
    BY DEF OfflineState, rows2, bals2, ledger2, q
  <2> QED BY <2>7, <2>8
<1>7. ReplayTask(s, b, i) =
        IF AlreadyPosted(s.rows, b, i) THEN {Ended(s, b, i, "POSTED")}
        ELSE {IF Short(task, s.bal[bin]) THEN Ended(s, b, i, "FAILED") ELSE Posted(bin) :
                bin \in Fullest(s.bal)}
  BY DEF ReplayTask, PostedRows
<1>8. Fullest(s.bal) \subseteq Bins
  BY DEF Fullest
<1> HIDE DEF Posted, task
<1>9. CASE AlreadyPosted(s.rows, b, i)
  BY <1>5, <1>7, <1>9
<1>10. CASE ~AlreadyPosted(s.rows, b, i)
  BY <1>5, <1>6, <1>7, <1>8, <1>10
<1> QED BY <1>9, <1>10

-----------------------------------------------------------------------------
\* The sets of states that tasks replayed in this order may leave.
Replays(b, turns) ==
  CHOOSE after : after = [n \in 0..Len(turns) |->
    IF n = 0 THEN {[rows |-> offline, bal |-> bal, moved |-> moved]}
    ELSE UNION {ReplayTask(s, b, turns[n]) : s \in after[n - 1]}]

LEMMA AllReplayed ==
  ASSUME StockTypes, Accounted(offline), NEW b \in Batches, IsBatch(offline, b),
         offline[b].status = "VALIDATING",
         NEW D, D = DOMAIN offline[b].tasks, NEW turns \in Seq(D)
  PROVE  Replayed(b, turns) \subseteq OfflineReach(b, D)
<1> DEFINE L == Len(turns)
           R == OfflineReach(b, D)
           X == SUBSET R
           first == {[rows |-> offline, bal |-> bal, moved |-> moved]}
           Then(n, S) == UNION {ReplayTask(s, b, turns[n]) : s \in S}
           G == [n \in 1..L |-> [S \in X |-> Then(n, S)]]
           Step(after) == [n \in 0..L |-> IF n = 0 THEN first ELSE Then(n, after[n - 1])]
<1>1. L \in Nat
  BY LenProperties
<1>2. first \in X
  <2>1. Follows(bal, moved, "offline_batch")
    BY FollowsItself
  <2>2. bal \in Balances /\ moved \in Ledgers /\ offline \in BatchRows
    BY DEF StockTypes, Balances, Ledgers, Accounted
  <2> QED BY <2>1, <2>2 DEF OfflineReach
<1>3. ASSUME NEW n \in 1..L, NEW S \in X PROVE Then(n, S) \in X
  <2>1. turns[n] \in D
    BY ElementOfSeq
  <2>2. \A s \in S : ReplayTask(s, b, turns[n]) \subseteq R
    <3> TAKE s \in S
    <3>1. s \in OfflineReach(b, D)
      OBVIOUS
    <3> HIDE DEF X, R
    <3> QED BY <2>1, <3>1, ReplayStays DEF R
  <2> HIDE DEF R
  <2> QED BY <2>2
<1> HIDE DEF R
<1>4. G \in [1..L -> [X -> X]]
  <2> HIDE DEF X, L, Then
  <2> QED BY <1>3
<1>5. PICK f \in [0..L -> X] : Passes(f, G, first, L)
  <2> HIDE DEF G, X, L, first
  <2> QED BY <1>1, <1>2, <1>4, PassesExist
<1>6. f = Step(f)
  <2>1. ASSUME NEW n \in 0..L PROVE f[n] = Step(f)[n]
    <3> HIDE DEF X, first, Then
    <3>1. CASE n = 0
      BY <1>5, <3>1 DEF Passes
    <3>2. CASE n # 0
      <4>1. n \in 1..L /\ n - 1 \in 0..L
        BY <1>1, <3>2
      <4>2. f[n] = G[n][f[n - 1]] /\ f[n - 1] \in X
        BY <1>5, <4>1 DEF Passes
      <4> QED BY <3>2, <4>1, <4>2
    <3> QED BY <3>1, <3>2
  <2>2. f = [n \in 0..L |-> f[n]]
    BY <1>5
  <2> HIDE DEF X, first, Then
  <2> QED BY <2>1, <2>2
<1> DEFINE after == Replays(b, turns)
<1>7. after = Step(after)
  BY <1>6 DEF Replays
<1>8. \A n \in 0..L : after[n] \in X
  <2> HIDE DEF after, X, Then, first
  <2>1. after[0] = first
    <3>1. 0 \in 0..L
      BY <1>1
    <3> QED BY <1>7, <3>1
  <2>2. ASSUME NEW n \in 1..L, after[n - 1] \in X PROVE after[n] \in X
    <3>1. n \in 0..L /\ n # 0
      BY <1>1
    <3>2. after[n] = Then(n, after[n - 1])
      BY <1>7, <3>1
    <3> QED BY <1>3, <2>2, <3>2
  <2> HIDE DEF L
  <2> QED BY <1>1, <1>2, <2>1, <2>2, StepsWithin
<1>9. Replayed(b, turns) = after[L]
  BY DEF Replayed, Replays
<1>10. L \in 0..L
  BY <1>1
<1> HIDE DEF after, L
<1> QED BY <1>8, <1>9, <1>10 DEF R

LEMMA OrderOf ==
  ASSUME NEW n \in Nat, NEW S \in SUBSET (1..n), NEW turns \in SetToSeqs(S)
  PROVE  turns \in Seq(S)
<1>1. IsFiniteSet(1..n)
  BY FS_Interval
<1>2. Cardinality(S) \in Nat
  BY <1>1, FS_Subset, FS_CardinalityType
<1>3. turns \in [1..Cardinality(S) -> S]
  BY DEF SetToSeqs
<1> QED BY <1>2, <1>3, SeqDef

\* What a replay keeps.
LEMMA ReplayStep ==
  ASSUME OfflineRowTypes, Accounted(offline), StockTypes, NEW b \in Batches, ReplayOfflineBatch(b)
  PROVE  /\ OfflineRowTypes' /\ Accounted(offline') /\ StockTypes'
         /\ Follows(bal', moved', "offline_batch")
<1> DEFINE D == DOMAIN offline[b].tasks
           S == {i \in D : offline[b].tasks[i].status = "VALIDATED"}
<1>1. offline[b].status = "VALIDATING" /\ offline \in BatchRows
  BY DEF ReplayOfflineBatch, OfflineRowTypes
<1>2. IsBatch(offline, b) /\ offline[b] \in BatchRow
  BY <1>1, BatchIs DEF BatchRows, IsBatch
<1>3. D = 1..Len(offline[b].tasks) /\ Len(offline[b].tasks) \in Nat
  BY <1>2, LenProperties DEF BatchRow
<1>4. PICK turns \in SetToSeqs(S) : \E s \in Replayed(b, turns) :
         offline' = s.rows /\ bal' = s.bal /\ moved' = s.moved
  BY DEF ReplayOfflineBatch
<1>5. PICK s \in Replayed(b, turns) : offline' = s.rows /\ bal' = s.bal /\ moved' = s.moved
  BY <1>4
<1>6. S \subseteq D
  OBVIOUS
<1> HIDE DEF S
<1>7. turns \in Seq(S)
  BY <1>3, <1>4, <1>6, OrderOf
<1>8. turns \in Seq(D)
  BY <1>6, <1>7
<1> HIDE DEF D
<1>9. s \in OfflineReach(b, D)
  <2>1. D = DOMAIN offline[b].tasks
    BY DEF D
  <2>2. Replayed(b, turns) \subseteq OfflineReach(b, D)
    BY <1>1, <1>2, <1>8, <2>1, AllReplayed
  <2> QED BY <1>5, <2>2
<1>10. /\ Follows(bal', moved', "offline_batch") /\ Accounted(offline')
       /\ offline' \in BatchRows
  BY <1>5, <1>9 DEF OfflineReach
<1>11. trust' = trust
  BY DEF ReplayOfflineBatch
<1> QED BY <1>10, <1>11 DEF Follows, OfflineRowTypes, StockTypes, Balances, Ledgers

-----------------------------------------------------------------------------
\* The other handlers change one row of offline_batches, and no stock.
LEMMA CreateKeeps ==
  ASSUME Accounted(offline), NEW b \in Batches, NEW d \in Devices, CreateOfflineBatch(b, d)
  PROVE  Accounted(offline')
<1> DEFINE row == [status |-> "CAPTURED", device |-> d, tasks |-> <<>>, rounds |-> 0]
<1>1. row \in BatchRow
  <2>1. <<>> \in Seq(TaskRow) /\ 0 \in 0..MaxRounds
    BY EmptySeq, OfflineAssumption
  <2> QED BY <2>1 DEF BatchRow
<1>2. DOMAIN row.tasks = {}
  BY EmptySeq, LenProperties
<1>3. offline' = [offline EXCEPT ![b] = row] /\ TasksOf(offline, b) = {}
  BY DEF CreateOfflineBatch, TasksOf
<1> HIDE DEF row
<1>4. MayCall(offline, row) /\ OnRecord(offline, b, row) /\ NotBegun(row)
  BY <1>2, <1>3 DEF MayCall, OnRecord, NotBegun
<1> QED BY <1>1, <1>3, <1>4, BatchRewritten

LEMMA UploadKeeps ==
  ASSUME Accounted(offline), NEW b \in Batches, NEW n \in 1..MaxTasks, NEW tasks \in [1..n -> Work],
         UploadOfflineBatch(b, tasks)
  PROVE  Accounted(offline')
<1> DEFINE tasks2 == [i \in DOMAIN tasks |->
             [kind |-> tasks[i].kind, qty |-> tasks[i].qty, status |-> "CAPTURED", applied |-> 0]]
           row == [offline[b] EXCEPT !.status = "UPLOADED", !.tasks = tasks2]
<1>1. /\ offline \in BatchRows /\ offline[b].status \in {"CAPTURED", "UPLOADED"}
      /\ Fresh(offline)
  BY DEF UploadOfflineBatch, Accounted
<1>2. IsBatch(offline, b) /\ offline[b] \in BatchRow
  BY <1>1, BatchIs DEF BatchRows, IsBatch
<1>3. tasks2 \in Seq(TaskRow)
  <2>1. tasks2 \in [1..n -> TaskRow]
    BY DEF TaskRow, Work, TaskStatus
  <2>2. n \in Nat
    BY OfflineAssumption
  <2> HIDE DEF tasks2
  <2> QED BY <2>1, <2>2, SeqDef
<1>4. \A i \in DOMAIN tasks2 : tasks2[i].status = "CAPTURED" /\ tasks2[i].applied = 0
  OBVIOUS
<1>5. offline' = [offline EXCEPT ![b] = row]
  <2> HIDE DEF tasks2
  <2>1. offline' = [offline EXCEPT ![b].status = "UPLOADED", ![b].tasks = tasks2]
    BY DEF UploadOfflineBatch, tasks2
  <2> QED BY <1>1, <2>1 DEF BatchRows
<1> HIDE DEF tasks2
<1>6. row \in BatchRow /\ row.tasks = tasks2 /\ row.status = "UPLOADED"
  BY <1>2, <1>3 DEF BatchRow
<1> HIDE DEF row
<1>7. MayCall(offline, row) /\ NotBegun(row)
  BY <1>4, <1>6 DEF MayCall, NotBegun
<1>8. OnRecord(offline, b, row)
  BY <1>1, <1>2 DEF Fresh, NotBegun, OnRecord, TasksOf
<1> QED BY <1>5, <1>6, <1>7, <1>8, BatchRewritten

LEMMA ValidateKeeps ==
  ASSUME Accounted(offline), NEW b \in Batches, ValidateOfflineBatch(b)
  PROVE  Accounted(offline')
<1> DEFINE old == offline[b].tasks
           tasks2 == [i \in DOMAIN old |-> [old[i] EXCEPT !.status = "VALIDATED"]]
           row == [offline[b] EXCEPT !.tasks = tasks2, !.status = "VALIDATING", !.rounds = @ + 1]
<1>1. /\ offline \in BatchRows /\ offline[b].status \in {"UPLOADED", "VALIDATING"}
      /\ offline[b].rounds < MaxRounds
  BY DEF ValidateOfflineBatch, Accounted
<1>2. IsBatch(offline, b) /\ offline[b] \in BatchRow
  BY <1>1, BatchIs DEF BatchRows, IsBatch
<1>3. old \in Seq(TaskRow) /\ DOMAIN old = 1..Len(old) /\ Len(old) \in Nat
  BY <1>2, LenProperties DEF BatchRow
<1>4. ASSUME NEW i \in DOMAIN old
      PROVE  /\ tasks2[i] \in TaskRow /\ tasks2[i].status = "VALIDATED"
             /\ tasks2[i].qty = old[i].qty /\ tasks2[i].applied = old[i].applied
  <2>1. old[i] \in TaskRow
    BY <1>3, ElementOfSeq
  <2>2. tasks2[i] = [old[i] EXCEPT !.status = "VALIDATED"]
    OBVIOUS
  <2> HIDE DEF tasks2, old
  <2> QED BY <2>1, <2>2 DEF TaskRow, TaskStatus
<1>5. DOMAIN tasks2 = DOMAIN old /\ tasks2 \in Seq(TaskRow)
  <2>1. DOMAIN tasks2 = DOMAIN old /\ tasks2 = [i \in DOMAIN old |-> tasks2[i]]
    OBVIOUS
  <2> HIDE DEF tasks2, old
  <2>2. tasks2 \in [1..Len(old) -> TaskRow]
    BY <1>3, <1>4, <2>1
  <2> QED BY <1>3, <2>1, <2>2, SeqDef
<1>6. offline' = [offline EXCEPT ![b] = row]
  <2>1. offline' = [[offline EXCEPT ![b].tasks = tasks2]
                      EXCEPT ![b].status = "VALIDATING", ![b].rounds = @ + 1]
    BY DEF ValidateOfflineBatch
  <2> HIDE DEF tasks2
  <2> QED BY <1>1, <2>1 DEF BatchRows
<1> HIDE DEF tasks2, old
<1>7. row \in BatchRow /\ row.tasks = tasks2 /\ row.status = "VALIDATING"
  <2> DEFINE m == offline[b].rounds + 1
  <2>1. m \in 0..MaxRounds
    BY <1>1, <1>2, OfflineAssumption DEF BatchRow
  <2>2. row = [offline[b] EXCEPT !.tasks = tasks2, !.status = "VALIDATING", !.rounds = m]
    BY <1>2 DEF BatchRow
  <2> HIDE DEF m, row
  <2> QED BY <1>2, <1>5, <2>1, <2>2 DEF BatchRow
<1> HIDE DEF row
<1>8. MayCall(offline, row) /\ NotBegun(row)
  BY <1>4, <1>5, <1>7 DEF MayCall, NotBegun
<1>9. OnRecord(offline, b, row)
  <2>1. TasksOf(offline, b) = DOMAIN old
    BY <1>2 DEF TasksOf, old
  <2> QED BY <1>4, <1>5, <1>7, <2>1 DEF OnRecord, old
<1> QED BY <1>6, <1>7, <1>8, <1>9, BatchRewritten

LEMMA RejectKeeps ==
  ASSUME Accounted(offline), NEW b \in Batches, RejectOfflineBatch(b)
  PROVE  Accounted(offline')
<1> DEFINE row == [offline[b] EXCEPT !.status = "REJECTED"]
<1>1. /\ offline \in BatchRows /\ offline[b].status \in {"CAPTURED", "UPLOADED", "VALIDATING"}
      /\ Skipped(offline)
  BY DEF RejectOfflineBatch, Accounted
<1>2. IsBatch(offline, b) /\ offline[b] \in BatchRow
  BY <1>1, BatchIs DEF BatchRows, IsBatch
<1>3. offline' = [offline EXCEPT ![b] = row]
  BY DEF RejectOfflineBatch
<1>4. row \in BatchRow /\ row.tasks = offline[b].tasks /\ row.status = "REJECTED"
  BY <1>2 DEF BatchRow
<1> HIDE DEF row
<1>5. TasksOf(offline, b) = DOMAIN row.tasks
  BY <1>2, <1>4 DEF TasksOf
<1>6. MayCall(offline, row) /\ NotBegun(row) /\ OnRecord(offline, b, row)
  BY <1>1, <1>4, <1>5 DEF MayCall, NotBegun, OnRecord, Skipped
<1> QED BY <1>3, <1>4, <1>6, BatchRewritten

LEMMA OfflineStep ==
  ASSUME OfflineRowTypes, Accounted(offline), StockTypes, [OfflineNext]_OfflineVars
  PROVE  /\ OfflineRowTypes' /\ Accounted(offline') /\ StockTypes'
         /\ (Book(bal, moved) => Book(bal', moved'))
         /\ moved'["receive_session"] = moved["receive_session"]
         /\ moved'["cycle_count_session"] = moved["cycle_count_session"]
<1>1. ASSUME NEW b \in Batches, ReplayOfflineBatch(b)
      PROVE  /\ OfflineRowTypes' /\ Accounted(offline') /\ StockTypes'
             /\ (Book(bal, moved) => Book(bal', moved'))
             /\ moved'["receive_session"] = moved["receive_session"]
             /\ moved'["cycle_count_session"] = moved["cycle_count_session"]
  <2>1. /\ OfflineRowTypes' /\ Accounted(offline') /\ StockTypes'
        /\ Follows(bal', moved', "offline_batch")
    BY <1>1, ReplayStep
  <2> QED BY <2>1 DEF Follows, References
<1>2. CASE AdjustStock /\ UNCHANGED <<trust, offline>>
  BY <1>2, AdjustKeeps DEF OfflineRowTypes, References
<1>3. ASSUME NEW d \in Devices, TrustDevice(d) \/ SuspendDevice(d) \/ RevokeDevice(d)
      PROVE  /\ offline' = offline /\ bal' = bal /\ moved' = moved
             /\ trust' \in [Devices -> TrustStates]
  BY <1>3 DEF TrustDevice, SuspendDevice, RevokeDevice, Trust, OfflineRowTypes, TrustStates,
              StockVars
<1>4. ASSUME NEW b \in Batches,
             \/ \E d \in Devices : CreateOfflineBatch(b, d)
             \/ \E n \in 1..MaxTasks : \E tasks \in [1..n -> Work] : UploadOfflineBatch(b, tasks)
             \/ ValidateOfflineBatch(b)
             \/ RejectOfflineBatch(b)
      PROVE  Accounted(offline') /\ bal' = bal /\ moved' = moved /\ trust' = trust
  <2>1. Accounted(offline')
    BY <1>4, CreateKeeps, UploadKeeps, ValidateKeeps, RejectKeeps
  <2>2. bal' = bal /\ moved' = moved /\ trust' = trust
    BY <1>4 DEF CreateOfflineBatch, UploadOfflineBatch, ValidateOfflineBatch,
                RejectOfflineBatch, StockVars
  <2> QED BY <2>1, <2>2
<1>5. CASE UNCHANGED <<trust, offline, bal, moved>>
  BY <1>5 DEF OfflineRowTypes, StockTypes
<1>6. ASSUME NEW d \in Devices, TrustDevice(d) \/ SuspendDevice(d) \/ RevokeDevice(d)
      PROVE  OfflineRowTypes' /\ Accounted(offline') /\ StockTypes' /\ bal' = bal /\ moved' = moved
  BY <1>3, <1>6 DEF OfflineRowTypes, StockTypes
<1>7. ASSUME Accounted(offline'), bal' = bal, moved' = moved, trust' = trust
      PROVE  OfflineRowTypes' /\ StockTypes'
  BY <1>7 DEF OfflineRowTypes, StockTypes, Accounted
<1>8. CASE OfflineNext
  BY <1>1, <1>2, <1>4, <1>6, <1>7, <1>8 DEF OfflineNext
<1> QED BY <1>5, <1>8 DEF OfflineVars, StockVars

LEMMA OfflineInitially ==
  ASSUME OfflineInit
  PROVE  OfflineRowTypes /\ Accounted(offline) /\ StockTypes
<1>1. /\ StockTypes /\ trust \in [Devices -> TrustStates]
      /\ offline \in BatchRows /\ \A b \in Batches : ~IsBatch(offline, b)
  BY StockInitially DEF OfflineInit, TrustStates, BatchRows, IsBatch
<1> QED BY <1>1 DEF OfflineRowTypes, Accounted, Skipped, Fresh, TasksOf

(* A task is called posted only when stock was changed for it, or for      *)
(* another task with its payload (services.js, replayOfflineBatch).        *)
THEOREM PostedWasApplied == OfflineSpec => []SkippedWasApplied
<1> DEFINE Inv == OfflineRowTypes /\ Accounted(offline) /\ StockTypes
<1>1. OfflineInit => Inv
  BY OfflineInitially
<1>2. Inv /\ [OfflineNext]_OfflineVars => Inv'
  BY OfflineStep
<1>3. Inv => SkippedWasApplied
  BY DEF Accounted, Skipped, WorkDone, SkippedWasApplied
<1> QED BY <1>1, <1>2, <1>3, PTL DEF OfflineSpec
=============================================================================
