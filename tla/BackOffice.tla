----------------------------- MODULE BackOffice -----------------------------
(***************************************************************************)
(* The desks of opstrax-supplyops-v1 that work beside its warehouse floor, *)
(* requests and purchasing: asset custody, receiving, cycle counts, the    *)
(* two kinds of offline work, finance export, sourcing, the evidence       *)
(* vault, access reviews and the door, where users sign in.                *)
(*                                                                         *)
(* They meet in the rows of stock and nowhere else, and what one of them   *)
(* does to stock between two steps of another is, for that other, a        *)
(* balance that changed: AdjustStock. So a behaviour has one desk at work, *)
(* and the behaviours of the composition are those of each desk.           *)
(***************************************************************************)
EXTENDS AssetCustody, Receiving, CycleCount, OfflineSync, SyncReview,
        FinanceExport, Sourcing, Evidence, AccessReview, SignIn

VARIABLES
  desk         \* which desk is at work

CustodyRows == <<asset, cuts>>
ReceivingRows == <<order, tally, session>>
CountRows == <<plan, count, variance>>
OfflineRows == <<trust, offline>>
SyncRows == <<review, conflict>>
ExportRows == <<books, export, jobs>>
SourcingRows == <<rfq, quote>>
EvidenceRows == <<binaries, paper, links, trail>>
ReviewRows == <<access, halts>>
DoorRows == <<clock, person, attempt, callback, login, cached>>

BackOfficeVars ==
  <<desk, StockVars, CustodyRows, ReceivingRows, CountRows, OfflineRows, SyncRows,
    ExportRows, SourcingRows, EvidenceRows, ReviewRows, DoorRows>>

Desks == {"custody", "receiving", "counting", "offline", "sync", "finance", "sourcing",
          "evidence", "reviewing", "door"}

BackOfficeInit ==
  /\ desk \in Desks
  /\ AssetInit /\ ReceivingInit /\ CountInit /\ OfflineInit /\ SyncInit
  /\ ExportInit /\ SourcingInit /\ EvidenceInit /\ ReviewInit /\ SignInInit

\* One desk at work, the others at rest.
AtCustody ==
  /\ desk = "custody" /\ AssetNext
  /\ UNCHANGED <<desk, StockVars, ReceivingRows, CountRows, OfflineRows, SyncRows,
                 ExportRows, SourcingRows, EvidenceRows, ReviewRows, DoorRows>>
AtReceiving ==
  /\ desk = "receiving" /\ ReceivingNext
  /\ UNCHANGED <<desk, CustodyRows, CountRows, OfflineRows, SyncRows, ExportRows,
                 SourcingRows, EvidenceRows, ReviewRows, DoorRows>>
AtCounting ==
  /\ desk = "counting" /\ CountNext
  /\ UNCHANGED <<desk, CustodyRows, ReceivingRows, OfflineRows, SyncRows,
                 ExportRows, SourcingRows, EvidenceRows, ReviewRows, DoorRows>>
AtOffline ==
  /\ desk = "offline" /\ OfflineNext
  /\ UNCHANGED <<desk, CustodyRows, ReceivingRows, CountRows, SyncRows, ExportRows,
                 SourcingRows, EvidenceRows, ReviewRows, DoorRows>>
AtSync ==
  /\ desk = "sync" /\ SyncNext
  /\ UNCHANGED <<desk, CustodyRows, ReceivingRows, CountRows, OfflineRows,
                 ExportRows, SourcingRows, EvidenceRows, ReviewRows, DoorRows>>
AtFinance ==
  /\ desk = "finance" /\ ExportNext
  /\ UNCHANGED <<desk, StockVars, CustodyRows, ReceivingRows, CountRows,
                 OfflineRows, SyncRows, SourcingRows, EvidenceRows, ReviewRows, DoorRows>>
AtSourcing ==
  /\ desk = "sourcing" /\ SourcingNext
  /\ UNCHANGED <<desk, StockVars, CustodyRows, ReceivingRows, CountRows,
                 OfflineRows, SyncRows, ExportRows, EvidenceRows, ReviewRows, DoorRows>>
AtEvidence ==
  /\ desk = "evidence" /\ EvidenceNext
  /\ UNCHANGED <<desk, StockVars, CustodyRows, ReceivingRows, CountRows,
                 OfflineRows, SyncRows, ExportRows, SourcingRows, ReviewRows, DoorRows>>
AtReview ==
  /\ desk = "reviewing" /\ ReviewNext
  /\ UNCHANGED <<desk, StockVars, CustodyRows, ReceivingRows, CountRows,
                 OfflineRows, SyncRows, ExportRows, SourcingRows, EvidenceRows,
                 DoorRows>>
AtDoor ==
  /\ desk = "door" /\ SignInNext
  /\ UNCHANGED <<desk, StockVars, CustodyRows, ReceivingRows, CountRows,
                 OfflineRows, SyncRows, ExportRows, SourcingRows, EvidenceRows, ReviewRows>>

BackOfficeNext ==
  \/ AtCustody \/ AtReceiving \/ AtCounting \/ AtOffline \/ AtSync
  \/ AtFinance \/ AtSourcing \/ AtEvidence
  \/ AtReview \/ AtDoor

BackOfficeSpec == BackOfficeInit /\ [][BackOfficeNext]_BackOfficeVars

-----------------------------------------------------------------------------
(* Type invariant of all the desks.                                        *)
DesksTypeOK ==
  /\ desk \in Desks
  /\ AssetTypeOK /\ ReceivingTypes /\ CountTypes /\ OfflineTypes /\ SyncTypes
  /\ ExportTypes /\ SourcingTypes /\ EvidenceTypes /\ ReviewTypes /\ SignInTypes

(* Whatever receiving, offline work, sync batches and hand adjustments do   *)
(* to the stock of an item, each in its own way: what a bin holds is what  *)
(* its movements add up to, never less than nothing, and of what it holds  *)
(* exactly what is reserved is withheld, or all of it. The posting of a    *)
(* count ends that for the bins, but its movements are still those of the  *)
(* variances that it posted, each once.                                    *)
StockIsExplained ==
  /\ NoCountPosted => \A b \in Bins : BinExplained(b) /\ BinSound(b)
  /\ CountIsExplained
=============================================================================
