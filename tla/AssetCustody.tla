---------------------------- MODULE AssetCustody ----------------------------
(***************************************************************************)
(* The custody of one asset of opstrax-supplyops-v1 (asset-custody.js):    *)
(* its record, and the assignments, transfers, returns, maintenance cases  *)
(* and disposals that name it. No handler touches the rows of two assets.  *)
(*                                                                         *)
(* No handler opens a transaction: each of its statements is durable as it *)
(* runs, and a statement that fails, or a death of the process, leaves the *)
(* statements before it. An action gives the states its handler passes     *)
(* through, and Commit keeps the last of them or, when it is cut short, an *)
(* earlier one. Rows that are closed are never read again: only open rows  *)
(* are kept, counted by what they say.                                     *)
(***************************************************************************)
EXTENDS Integers, FiniteSets, Sequences

CONSTANTS
  Users,       \* who may hold an asset, request and approve
  Nobody,      \* a null custodian
  MaxOpen,     \* bound: open rows of one table that say the same
  MaxCuts      \* bound: handlers cut short

ASSUME AssetAssumption ==
  /\ Nobody \notin Users
  /\ MaxOpen \in Nat /\ MaxCuts \in Nat

VARIABLES
  asset,       \* the row of asset_records, and the open rows that name it
  cuts         \* handlers that were cut short so far

AssetVars == <<asset, cuts>>

AssetStatus == {"AVAILABLE", "ASSIGNED", "IN_TRANSFER", "RETURN_PENDING", "DAMAGED",
                "LOST", "QUARANTINED", "IN_MAINTENANCE", "DISPOSAL_PENDING", "DISPOSED"}
AssetRow ==
  [status : AssetStatus,
   holder : Users \cup {Nobody},      \* current_custodian_user_id
   active : [Users -> Nat],           \* asset_assignments: ACTIVE, by custodian
   leaving : [Users -> Nat],          \* asset_assignments: RETURN_PENDING
   transfers : [Users -> Nat],        \* asset_transfer_requests: PENDING_APPROVAL, by receiver
   returns : Nat,                     \* asset_return_requests: REQUESTED
   cases : Nat,                       \* asset_maintenance_cases: OPEN
   asked : [Users -> Nat],            \* asset_disposal_requests: APPROVAL_PENDING, by requester
   granted : [Users \X Users -> Nat], \* APPROVED, by requester and approver
   disposed : SUBSET (Users \X Users)]\* DISPOSED: who requested and who approved

AssetInit ==
  /\ asset = [status |-> "AVAILABLE", holder |-> Nobody,
              active |-> [u \in Users |-> 0], leaving |-> [u \in Users |-> 0],
              transfers |-> [u \in Users |-> 0], returns |-> 0, cases |-> 0,
              asked |-> [u \in Users |-> 0],
              granted |-> [p \in Users \X Users |-> 0], disposed |-> {}]
  /\ cuts = 0

-----------------------------------------------------------------------------
(* Statements: what one of them makes of the state it runs in.             *)

Gone == {"LOST", "DISPOSED"}     \* TERMINAL_STATES

Become(s, status) == [s EXCEPT !.status = status]
Held(s, status, u) == [s EXCEPT !.status = status, !.holder = u]
\* One ACTIVE assignment, if there is one, becomes RETURNED or RETURN_PENDING.
Returned(s) ==
  IF \E v \in Users : s.active[v] > 0
  THEN {[s EXCEPT !.active[v] = @ - 1] : v \in {v \in Users : s.active[v] > 0}}
  ELSE {s}
Leaving(s) ==
  IF \E v \in Users : s.active[v] > 0
  THEN {[s EXCEPT !.active[v] = @ - 1, !.leaving[v] = @ + 1] :
          v \in {v \in Users : s.active[v] > 0}}
  ELSE {s}
\* One RETURN_PENDING assignment, if there is one, becomes RETURNED.
Left(s) ==
  IF \E v \in Users : s.leaving[v] > 0
  THEN {[s EXCEPT !.leaving[v] = @ - 1] : v \in {v \in Users : s.leaving[v] > 0}}
  ELSE {s}

Commit(states) ==
  \E n \in 1..Len(states) :
    /\ n < Len(states) => cuts < MaxCuts
    /\ asset' = states[n]
    /\ cuts' = IF n < Len(states) THEN cuts + 1 ELSE cuts

\* A transfer of the asset waits for approval; u is who is to receive it now.
Pending(s, u) == \E v \in Users : s.transfers[v] > 0
Disposing(s) == \/ \E u \in Users : s.asked[u] > 0
                \/ \E p \in Users \X Users : s.granted[p] > 0

-----------------------------------------------------------------------------
Assign(u) ==
  /\ asset.status = "AVAILABLE"
  /\ asset.active[u] < MaxOpen
  /\ LET inserted == [asset EXCEPT !.active[u] = @ + 1]
     IN Commit(<<inserted, Held(inserted, "ASSIGNED", u)>>)

CreateTransferRequest(u) ==
  /\ asset.status \notin Gone
  /\ ~Pending(asset, u)
  /\ LET inserted == [asset EXCEPT !.transfers[u] = @ + 1]
     IN Commit(<<inserted, Become(inserted, "IN_TRANSFER")>>)

\* Fault for ApproveTransferRequest: no new assignment is written.
ApproveTransferRows(u) ==
  LET done == [asset EXCEPT !.transfers[u] = @ - 1]
  IN \E returned \in Returned(done) :
       Commit(<<done, returned, Held(returned, "ASSIGNED", u)>>)
(* Only the status of the transfer is looked at, not that of the asset.    *)
ApproveTransferRequest(u) ==
  /\ asset.transfers[u] > 0
  /\ asset.active[u] < MaxOpen
  /\ LET done == [asset EXCEPT !.transfers[u] = @ - 1]
         moved == Held(done, "ASSIGNED", u)
     IN \E returned \in Returned(moved) :
          Commit(<<done, moved, returned, [returned EXCEPT !.active[u] = @ + 1]>>)

CreateReturnRequest ==
  /\ asset.status \in {"ASSIGNED", "RETURN_PENDING"}
  /\ asset.returns < MaxOpen
  /\ LET inserted == [asset EXCEPT !.returns = @ + 1]
         pending == Become(inserted, "RETURN_PENDING")
     IN \E leaving \in Leaving(pending) : Commit(<<inserted, pending, leaving>>)

AcceptReturn(status) ==
  /\ asset.status = "RETURN_PENDING"
  /\ asset.returns > 0
  /\ LET accepted == [asset EXCEPT !.returns = @ - 1]
         back == Held(accepted, status, Nobody)
     IN \E left \in Left(back) : Commit(<<accepted, back, left>>)

ReportDamage == asset.status \notin Gone /\ Commit(<<Become(asset, "DAMAGED")>>)
ReportLoss == asset.status \notin Gone /\ Commit(<<Held(asset, "LOST", Nobody)>>)
Quarantine == asset.status \notin Gone /\ Commit(<<Become(asset, "QUARANTINED")>>)
ReleaseQuarantine ==
  asset.status = "QUARANTINED" /\ Commit(<<Become(asset, "AVAILABLE")>>)

OpenMaintenance ==
  /\ asset.status \notin Gone
  /\ asset.cases < MaxOpen
  /\ LET inserted == [asset EXCEPT !.cases = @ + 1]
     IN Commit(<<inserted, Become(inserted, "IN_MAINTENANCE")>>)

\* Fault for CloseMaintenance: a case that is closed may be closed again.
CloseMaintenanceAgain ==
  LET closed == [asset EXCEPT !.cases = @ - 1]
  IN IF asset.status = "IN_MAINTENANCE"
     THEN Commit(<<closed, Become(closed, "AVAILABLE")>>)
     ELSE Commit(<<closed>>)
CloseMaintenance ==
  /\ asset.cases > 0
  /\ LET closed == [asset EXCEPT !.cases = @ - 1]
     IN IF asset.status = "IN_MAINTENANCE"
        THEN Commit(<<closed, Become(closed, "AVAILABLE")>>)
        ELSE Commit(<<closed>>)

CreateDisposalRequest(u) ==
  /\ asset.status # "DISPOSED"
  /\ ~Disposing(asset)
  /\ LET inserted == [asset EXCEPT !.asked[u] = @ + 1]
     IN Commit(<<inserted, Become(inserted, "DISPOSAL_PENDING")>>)

\* Fault for ApproveDisposalRequest: who approves is not compared.
ApproveDisposalOwn(u, by) ==
  /\ asset.asked[u] > 0
  /\ Commit(<<[asset EXCEPT !.asked[u] = @ - 1, !.granted[<<u, by>>] = @ + 1]>>)
ApproveDisposalRequest(u, by) ==
  /\ asset.asked[u] > 0
  /\ by # u
  /\ Commit(<<[asset EXCEPT !.asked[u] = @ - 1, !.granted[<<u, by>>] = @ + 1]>>)

RejectDisposalRequest ==
  \/ \E u \in Users :
       /\ asset.asked[u] > 0
       /\ LET rejected == [asset EXCEPT !.asked[u] = @ - 1]
          IN Commit(<<rejected, Become(rejected, "AVAILABLE")>>)
  \/ \E p \in Users \X Users :
       /\ asset.granted[p] > 0
       /\ LET rejected == [asset EXCEPT !.granted[p] = @ - 1]
          IN Commit(<<rejected, Become(rejected, "AVAILABLE")>>)

PostDisposal(p) ==
  /\ asset.granted[p] > 0
  /\ LET posted == [asset EXCEPT !.granted[p] = @ - 1, !.disposed = @ \cup {p}]
     IN Commit(<<posted, Held(posted, "DISPOSED", Nobody)>>)

AssetNext ==
  \/ \E u \in Users : \/ Assign(u) \/ CreateTransferRequest(u)
                      \/ ApproveTransferRequest(u) \/ CreateDisposalRequest(u)
                      \/ \E by \in Users : ApproveDisposalRequest(u, by)
  \/ CreateReturnRequest
  \/ \E status \in {"AVAILABLE", "DAMAGED"} : AcceptReturn(status)
  \/ ReportDamage \/ ReportLoss \/ Quarantine \/ ReleaseQuarantine
  \/ OpenMaintenance \/ CloseMaintenance
  \/ RejectDisposalRequest
  \/ \E p \in Users \X Users : PostDisposal(p)

AssetSpec == AssetInit /\ [][AssetNext]_AssetVars

-----------------------------------------------------------------------------
(* Properties.                                                             *)

AssetTypeOK == asset \in AssetRow /\ cuts \in 0..MaxCuts

\* A state of the asset that is waited in has the open row that leads out of it.
WayOut ==
  /\ asset.status = "IN_TRANSFER" => \E u \in Users : asset.transfers[u] > 0
  /\ asset.status = "RETURN_PENDING" => asset.returns > 0
  /\ asset.status = "IN_MAINTENANCE" => asset.cases > 0
  /\ asset.status = "DISPOSAL_PENDING" => Disposing(asset)
\* Who is recorded as custodian has an assignment that says so.
HolderAssigned ==
  /\ asset.holder # Nobody => asset.active[asset.holder] + asset.leaving[asset.holder] > 0
  /\ asset.status = "ASSIGNED" => asset.holder # Nobody /\ asset.active[asset.holder] > 0
  /\ asset.status \in Gone => asset.holder = Nobody

(* However the asset is assigned, moved, repaired, lost and found, and as   *)
(* long as no handler is cut short, its record is backed by the rows of    *)
(* the other tables: what it waits for is there, and its custodian has an  *)
(* assignment.                                                             *)
StatusIsBacked == cuts = 0 => WayOut /\ HolderAssigned

(* Handlers cut short included: an asset written off was requested by one   *)
(* person and approved by another, and never two requests to move it, nor  *)
(* two to dispose of it, are open.                                         *)
AtMostOne(f) == \A a, b \in DOMAIN f : f[a] > 0 /\ f[b] > 0 => a = b /\ f[a] = 1
DisposalIsSound ==
  /\ asset.status = "DISPOSED" => \E p \in asset.disposed : p[1] # p[2]
  /\ AtMostOne(asset.transfers)
  /\ AtMostOne(asset.asked) /\ AtMostOne(asset.granted)
  /\ ~(\E u \in Users : asset.asked[u] > 0)
       \/ ~(\E p \in Users \X Users : asset.granted[p] > 0)
=============================================================================
