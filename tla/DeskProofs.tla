------------------------------ MODULE DeskProofs ------------------------------
(***************************************************************************)
(* Theorems about the desks that do not write stock (asset custody,        *)
(* finance export, sourcing, the evidence vault, sign-in and access        *)
(* reviews), and about the back office, where all ten desks are composed.  *)
(***************************************************************************)
EXTENDS BackOffice, StockProofs

-----------------------------------------------------------------------------
Sound(s) ==
  /\ AtMostOne(s.transfers) /\ AtMostOne(s.asked) /\ AtMostOne(s.granted)
  /\ ~(\E u \in Users : s.asked[u] > 0) \/ ~(\E p \in Users \X Users : s.granted[p] > 0)
  /\ \A p \in Users \X Users : s.granted[p] > 0 \/ p \in s.disposed => p[1] # p[2]
  /\ s.status = "DISPOSED" => s.disposed # {}

Backed(s) ==
  /\ s.status = "IN_TRANSFER" => \E u \in Users : s.transfers[u] > 0
  /\ s.status = "RETURN_PENDING" => s.returns > 0
  /\ s.status = "IN_MAINTENANCE" => s.cases > 0
  /\ s.status = "DISPOSAL_PENDING" => Disposing(s)
  /\ s.holder # Nobody => s.active[s.holder] + s.leaving[s.holder] > 0
  /\ s.status = "ASSIGNED" => s.holder # Nobody /\ s.active[s.holder] > 0
  /\ s.status \in Gone => s.holder = Nobody

AssetInv ==
  /\ asset \in AssetRow /\ Sound(asset)
  /\ cuts \in 0..MaxCuts /\ (cuts = 0 => Backed(asset))

-----------------------------------------------------------------------------
(* What Commit leaves of a handler that passes through good states.        *)

LEMMA Commits1 ==
  ASSUME AssetInv, NEW a \in AssetRow, Sound(a), Backed(asset) => Backed(a), Commit(<<a>>)
  PROVE  AssetInv'
BY AssetAssumption DEF Commit, AssetInv

LEMMA Commits2 ==
  ASSUME AssetInv, NEW a \in AssetRow, NEW b \in AssetRow, Sound(a), Sound(b),
         Backed(asset) => Backed(b), Commit(<<a, b>>)
  PROVE  AssetInv'
<1>1. /\ asset' = a \/ asset' = b
      /\ cuts' \in 0..MaxCuts /\ (cuts' = 0 => cuts = 0 /\ asset' = b)
  BY AssetAssumption DEF Commit, AssetInv
<1> QED BY <1>1 DEF AssetInv

LEMMA Commits3 ==
  ASSUME AssetInv, NEW a \in AssetRow, NEW b \in AssetRow, NEW c \in AssetRow,
         Sound(a), Sound(b), Sound(c), Backed(asset) => Backed(c), Commit(<<a, b, c>>)
  PROVE  AssetInv'
<1>1. /\ asset' = a \/ asset' = b \/ asset' = c
      /\ cuts' \in 0..MaxCuts /\ (cuts' = 0 => cuts = 0 /\ asset' = c)
  BY AssetAssumption DEF Commit, AssetInv
<1> QED BY <1>1 DEF AssetInv

LEMMA Commits4 ==
  ASSUME AssetInv, NEW a \in AssetRow, NEW b \in AssetRow, NEW c \in AssetRow,
         NEW d \in AssetRow, Sound(a), Sound(b), Sound(c), Sound(d),
         Backed(asset) => Backed(d), Commit(<<a, b, c, d>>)
  PROVE  AssetInv'
<1>1. /\ asset' = a \/ asset' = b \/ asset' = c \/ asset' = d
      /\ cuts' \in 0..MaxCuts /\ (cuts' = 0 => cuts = 0 /\ asset' = d)
  BY AssetAssumption DEF Commit, AssetInv
<1> QED BY <1>1 DEF AssetInv

-----------------------------------------------------------------------------
(* Counters of open rows of which one at most may be open.                 *)

LEMMA OneMore ==
  ASSUME NEW D, NEW f \in [D -> Nat], \A x \in D : ~(f[x] > 0), NEW u \in D
  PROVE  LET g == [f EXCEPT ![u] = @ + 1]
         IN g \in [D -> Nat] /\ AtMostOne(g) /\ \A x \in D : g[x] > 0 <=> x = u
BY DEF AtMostOne

LEMMA OneLess ==
  ASSUME NEW D, NEW f \in [D -> Nat], AtMostOne(f), NEW u \in D, f[u] > 0
  PROVE  LET g == [f EXCEPT ![u] = @ - 1]
         IN g \in [D -> Nat] /\ AtMostOne(g) /\ \A x \in D : ~(g[x] > 0)
BY DEF AtMostOne

(* A state stays sound as long as the open transfers and the disposals do   *)
(* not change and nothing is written off.                                  *)
LEMMA SoundStays ==
  ASSUME NEW s, NEW t, Sound(s), t.transfers = s.transfers, t.asked = s.asked,
         t.granted = s.granted, t.disposed = s.disposed,
         t.status = s.status \/ t.status # "DISPOSED"
  PROVE  Sound(t)
BY DEF Sound

LEMMA BecomeKeeps ==
  ASSUME NEW s \in AssetRow, NEW status \in AssetStatus, status # "DISPOSED", Sound(s)
  PROVE  LET t == Become(s, status)
         IN /\ t \in AssetRow /\ Sound(t) /\ t.status = status /\ t.holder = s.holder
            /\ t.active = s.active /\ t.leaving = s.leaving /\ t.transfers = s.transfers
            /\ t.returns = s.returns /\ t.cases = s.cases /\ t.asked = s.asked
<1> DEFINE t == Become(s, status)
<1>1. /\ t \in AssetRow /\ t.status = status /\ t.holder = s.holder
      /\ t.active = s.active /\ t.leaving = s.leaving /\ t.transfers = s.transfers
      /\ t.returns = s.returns /\ t.cases = s.cases /\ t.asked = s.asked
      /\ t.granted = s.granted /\ t.disposed = s.disposed
  BY DEF Become, AssetRow
<1> HIDE DEF t
<1>2. Sound(t)
  BY <1>1, SoundStays
<1> QED BY <1>1, <1>2 DEF t

LEMMA HeldKeeps ==
  ASSUME NEW s \in AssetRow, NEW status \in AssetStatus, NEW u \in Users \cup {Nobody}
  PROVE  LET t == Held(s, status, u)
         IN /\ t \in AssetRow /\ t.status = status /\ t.holder = u
            /\ t.active = s.active /\ t.leaving = s.leaving /\ t.transfers = s.transfers
            /\ t.asked = s.asked /\ t.granted = s.granted /\ t.disposed = s.disposed
            /\ Sound(s) /\ status # "DISPOSED" => Sound(t)
<1> DEFINE t == Held(s, status, u)
<1>1. /\ t \in AssetRow /\ t.status = status /\ t.holder = u
      /\ t.active = s.active /\ t.leaving = s.leaving /\ t.transfers = s.transfers
      /\ t.asked = s.asked /\ t.granted = s.granted /\ t.disposed = s.disposed
  BY DEF Held, AssetRow
<1> HIDE DEF t
<1>2. Sound(s) /\ status # "DISPOSED" => Sound(t)
  BY <1>1, SoundStays
<1> QED BY <1>1, <1>2 DEF t

(* Closing assignments.                                                    *)
LEMMA ReturnedKeeps ==
  ASSUME NEW s \in AssetRow, NEW t \in Returned(s) \cup Left(s)
  PROVE  /\ t \in AssetRow /\ t.status = s.status /\ t.holder = s.holder
         /\ t.transfers = s.transfers /\ t.returns = s.returns /\ t.cases = s.cases
         /\ t.asked = s.asked /\ t.granted = s.granted /\ t.disposed = s.disposed
BY DEF Returned, Left, AssetRow

LEMMA LeavingKeeps ==
  ASSUME NEW s \in AssetRow, NEW t \in Leaving(s)
  PROVE  /\ t \in AssetRow /\ t.status = s.status /\ t.holder = s.holder
         /\ t.transfers = s.transfers /\ t.returns = s.returns /\ t.cases = s.cases
         /\ t.asked = s.asked /\ t.granted = s.granted /\ t.disposed = s.disposed
         /\ \A u \in Users : t.active[u] + t.leaving[u] = s.active[u] + s.leaving[u]
<1>1. CASE t = s
  BY <1>1 DEF AssetRow
<1>2. ASSUME NEW v \in Users, s.active[v] > 0,
             t = [s EXCEPT !.active[v] = @ - 1, !.leaving[v] = @ + 1]
      PROVE  /\ t \in AssetRow /\ t.status = s.status /\ t.holder = s.holder
             /\ t.transfers = s.transfers /\ t.returns = s.returns /\ t.cases = s.cases
             /\ t.asked = s.asked /\ t.granted = s.granted /\ t.disposed = s.disposed
             /\ \A u \in Users : t.active[u] + t.leaving[u] = s.active[u] + s.leaving[u]
  <2> DEFINE f == [s.active EXCEPT ![v] = @ - 1]
             g == [s.leaving EXCEPT ![v] = @ + 1]
  <2>1. s.active \in [Users -> Nat] /\ s.leaving \in [Users -> Nat]
    BY DEF AssetRow
  <2>2. f \in [Users -> Nat] /\ g \in [Users -> Nat]
    BY <1>2, <2>1
  <2>3. \A u \in Users : f[u] + g[u] = s.active[u] + s.leaving[u]
    BY <1>2, <2>1
  <2>4. t = [s EXCEPT !.active = f, !.leaving = g]
    BY <1>2
  <2> HIDE DEF f, g
  <2> QED BY <2>2, <2>3, <2>4 DEF AssetRow
<1> QED BY <1>1, <1>2 DEF Leaving

-----------------------------------------------------------------------------
LEMMA AssetInitially == AssetInit => AssetInv
BY AssetAssumption
   DEF AssetInit, AssetInv, AssetRow, AssetStatus, Sound, Backed, AtMostOne, Gone

(* Handlers that write the record of the asset alone.                      *)
LEMMA OneStatement ==
  ASSUME AssetInv, ReportDamage \/ ReportLoss \/ Quarantine \/ ReleaseQuarantine
  PROVE  AssetInv'
<1>1. asset \in AssetRow /\ Sound(asset)
  BY DEF AssetInv
<1>2. ASSUME NEW status \in {"DAMAGED", "QUARANTINED", "AVAILABLE"}, asset.status \notin Gone,
             Commit(<<Become(asset, status)>>)
      PROVE  AssetInv'
  <2> DEFINE t == Become(asset, status)
  <2>1. /\ t \in AssetRow /\ Sound(t) /\ t.status = status /\ t.holder = asset.holder
        /\ t.active = asset.active /\ t.leaving = asset.leaving
    BY <1>1, BecomeKeeps DEF AssetStatus
  <2>2. Backed(asset) => Backed(t)
    BY <2>1 DEF Backed, Gone
  <2> HIDE DEF t
  <2> QED BY <1>2, <2>1, <2>2, Commits1 DEF t
<1>3. CASE ReportLoss
  <2> DEFINE t == Held(asset, "LOST", Nobody)
  <2>1. t \in AssetRow /\ Sound(t) /\ t.status = "LOST" /\ t.holder = Nobody
    BY <1>1, HeldKeeps DEF AssetStatus
  <2>2. Backed(t)
    BY <2>1 DEF Backed
  <2> HIDE DEF t
  <2> QED BY <1>3, <2>1, <2>2, Commits1 DEF t, ReportLoss
<1> QED BY <1>2, <1>3 DEF ReportDamage, Quarantine, ReleaseQuarantine, Gone

LEMMA AssignStep == ASSUME AssetInv, NEW u \in Users, Assign(u) PROVE AssetInv'
<1> DEFINE a == [asset EXCEPT !.active[u] = @ + 1]
           b == Held(a, "ASSIGNED", u)
<1>1. asset \in AssetRow /\ Sound(asset) /\ Commit(<<a, b>>)
  BY DEF AssetInv, Assign
<1>2. /\ a \in AssetRow /\ a.status = asset.status /\ a.transfers = asset.transfers
      /\ a.asked = asset.asked /\ a.granted = asset.granted /\ a.disposed = asset.disposed
      /\ a.active[u] > 0 /\ a.leaving[u] \in Nat /\ a.active[u] \in Nat
  BY <1>1 DEF AssetRow
<1> HIDE DEF a
<1>3. Sound(a)
  BY <1>1, <1>2, SoundStays
<1>4. /\ b \in AssetRow /\ Sound(b) /\ b.status = "ASSIGNED" /\ b.holder = u
      /\ b.active = a.active /\ b.leaving = a.leaving
  BY <1>2, <1>3, HeldKeeps DEF AssetStatus
<1> HIDE DEF b
<1>5. Backed(b)
  BY <1>2, <1>4, AssetAssumption DEF Backed, Gone
<1> QED BY <1>1, <1>2, <1>3, <1>4, <1>5, Commits2

LEMMA CreateTransferStep ==
  ASSUME AssetInv, NEW u \in Users, CreateTransferRequest(u) PROVE AssetInv'
<1> DEFINE a == [asset EXCEPT !.transfers[u] = @ + 1]
           b == Become(a, "IN_TRANSFER")
           f == [asset.transfers EXCEPT ![u] = @ + 1]
<1>1. /\ asset \in AssetRow /\ Sound(asset) /\ Commit(<<a, b>>)
      /\ asset.status \notin Gone /\ \A v \in Users : ~(asset.transfers[v] > 0)
  BY DEF AssetInv, CreateTransferRequest, Pending
<1>2. f \in [Users -> Nat] /\ AtMostOne(f) /\ f[u] > 0
  BY <1>1, OneMore DEF AssetRow
<1>3. /\ a \in AssetRow /\ a.transfers = f /\ a.status = asset.status
      /\ a.holder = asset.holder /\ a.active = asset.active /\ a.leaving = asset.leaving
      /\ a.asked = asset.asked /\ a.granted = asset.granted /\ a.disposed = asset.disposed
  BY <1>1, <1>2 DEF AssetRow
<1> HIDE DEF a, f
<1>4. Sound(a)
  BY <1>1, <1>2, <1>3 DEF Sound
<1>5. /\ b \in AssetRow /\ Sound(b) /\ b.status = "IN_TRANSFER" /\ b.holder = asset.holder
      /\ b.active = asset.active /\ b.leaving = asset.leaving /\ b.transfers = f
  BY <1>3, <1>4, BecomeKeeps DEF AssetStatus
<1> HIDE DEF b
<1>6. Backed(asset) => Backed(b)
  BY <1>2, <1>5 DEF Backed, Gone
<1> QED BY <1>1, <1>3, <1>4, <1>5, <1>6, Commits2

LEMMA ApproveTransferStep ==
  ASSUME AssetInv, NEW u \in Users, ApproveTransferRequest(u) PROVE AssetInv'
<1> DEFINE a == [asset EXCEPT !.transfers[u] = @ - 1]
           b == Held(a, "ASSIGNED", u)
           f == [asset.transfers EXCEPT ![u] = @ - 1]
<1>1. PICK c \in Returned(b) : Commit(<<a, b, c, [c EXCEPT !.active[u] = @ + 1]>>)
  BY DEF ApproveTransferRequest
<1> DEFINE d == [c EXCEPT !.active[u] = @ + 1]
<1>2. asset \in AssetRow /\ Sound(asset) /\ asset.transfers[u] > 0
  BY DEF AssetInv, ApproveTransferRequest
<1>3. f \in [Users -> Nat] /\ AtMostOne(f)
  BY <1>2, OneLess DEF AssetRow, Sound
<1>4. /\ a \in AssetRow /\ a.transfers = f /\ a.status = asset.status
      /\ a.asked = asset.asked /\ a.granted = asset.granted /\ a.disposed = asset.disposed
  BY <1>2, <1>3 DEF AssetRow
<1> HIDE DEF a, f
<1>5. Sound(a)
  BY <1>2, <1>3, <1>4 DEF Sound
<1>6. b \in AssetRow /\ Sound(b) /\ b.status = "ASSIGNED" /\ b.holder = u
  BY <1>4, <1>5, HeldKeeps DEF AssetStatus
<1> HIDE DEF b
<1>7. /\ c \in AssetRow /\ c.status = "ASSIGNED" /\ c.holder = u
      /\ c.transfers = b.transfers /\ c.asked = b.asked /\ c.granted = b.granted
      /\ c.disposed = b.disposed
  BY <1>6, ReturnedKeeps
<1>8. Sound(c)
  BY <1>6, <1>7, SoundStays
<1>9. /\ d \in AssetRow /\ d.status = "ASSIGNED" /\ d.holder = u /\ d.active[u] > 0
      /\ d.transfers = c.transfers /\ d.asked = c.asked /\ d.granted = c.granted
      /\ d.disposed = c.disposed /\ d.active[u] \in Nat /\ d.leaving[u] \in Nat
  BY <1>7 DEF AssetRow
<1>10. Commit(<<a, b, c, d>>)
  BY <1>1
<1> HIDE DEF d
<1>11. Sound(d) /\ Backed(d)
  BY <1>7, <1>8, <1>9, SoundStays, AssetAssumption DEF Backed, Gone
<1> QED BY <1>4, <1>5, <1>6, <1>7, <1>8, <1>9, <1>10, <1>11, Commits4

LEMMA CreateReturnStep == ASSUME AssetInv, CreateReturnRequest PROVE AssetInv'
<1> DEFINE a == [asset EXCEPT !.returns = @ + 1]
           b == Become(a, "RETURN_PENDING")
<1>1. PICK c \in Leaving(b) : Commit(<<a, b, c>>)
  BY DEF CreateReturnRequest
<1>2. /\ asset \in AssetRow /\ Sound(asset)
      /\ asset.status \in {"ASSIGNED", "RETURN_PENDING"}
  BY DEF AssetInv, CreateReturnRequest
<1>3. /\ a \in AssetRow /\ a.status = asset.status /\ a.transfers = asset.transfers
      /\ a.asked = asset.asked /\ a.granted = asset.granted /\ a.disposed = asset.disposed
      /\ a.returns > 0 /\ a.holder = asset.holder
      /\ a.active = asset.active /\ a.leaving = asset.leaving
  BY <1>2 DEF AssetRow
<1> HIDE DEF a
<1>4. Sound(a)
  BY <1>2, <1>3, SoundStays
<1>5. /\ b \in AssetRow /\ Sound(b) /\ b.status = "RETURN_PENDING" /\ b.holder = asset.holder
      /\ b.active = asset.active /\ b.leaving = asset.leaving /\ b.returns > 0
  BY <1>3, <1>4, BecomeKeeps DEF AssetStatus
<1> HIDE DEF b
<1>6. /\ c \in AssetRow /\ c.status = "RETURN_PENDING" /\ c.holder = asset.holder
      /\ c.transfers = b.transfers /\ c.asked = b.asked /\ c.granted = b.granted
      /\ c.disposed = b.disposed /\ c.returns > 0
      /\ \A u \in Users :
           c.active[u] + c.leaving[u] = asset.active[u] + asset.leaving[u]
  BY <1>5, LeavingKeeps
<1>7. Sound(c)
  BY <1>5, <1>6, SoundStays
<1>8. Backed(asset) => Backed(c)
  BY <1>2, <1>6 DEF Backed, Gone, AssetRow
<1> QED BY <1>1, <1>3, <1>4, <1>5, <1>6, <1>7, <1>8, Commits3

LEMMA AcceptReturnStep ==
  ASSUME AssetInv, NEW status \in {"AVAILABLE", "DAMAGED"}, AcceptReturn(status)
  PROVE  AssetInv'
<1> DEFINE a == [asset EXCEPT !.returns = @ - 1]
           b == Held(a, status, Nobody)
<1>1. PICK c \in Left(b) : Commit(<<a, b, c>>)
  BY DEF AcceptReturn
<1>2. asset \in AssetRow /\ Sound(asset) /\ asset.returns > 0
  BY DEF AssetInv, AcceptReturn
<1>3. /\ a \in AssetRow /\ a.status = asset.status /\ a.transfers = asset.transfers
      /\ a.asked = asset.asked /\ a.granted = asset.granted /\ a.disposed = asset.disposed
  BY <1>2 DEF AssetRow
<1> HIDE DEF a
<1>4. Sound(a)
  BY <1>2, <1>3, SoundStays
<1>5. b \in AssetRow /\ Sound(b) /\ b.status = status /\ b.holder = Nobody
  BY <1>3, <1>4, HeldKeeps DEF AssetStatus
<1> HIDE DEF b
<1>6. /\ c \in AssetRow /\ c.status = status /\ c.holder = Nobody
      /\ c.transfers = b.transfers /\ c.asked = b.asked /\ c.granted = b.granted
      /\ c.disposed = b.disposed
  BY <1>5, ReturnedKeeps
<1>7. Sound(c) /\ Backed(c)
  BY <1>5, <1>6, SoundStays DEF Backed
<1> QED BY <1>1, <1>3, <1>4, <1>5, <1>6, <1>7, Commits3

LEMMA MaintenanceStep ==
  ASSUME AssetInv, OpenMaintenance \/ CloseMaintenance PROVE AssetInv'
<1>1. asset \in AssetRow /\ Sound(asset)
  BY DEF AssetInv
<1>2. CASE OpenMaintenance
  <2> DEFINE a == [asset EXCEPT !.cases = @ + 1]
             b == Become(a, "IN_MAINTENANCE")
  <2>1. /\ a \in AssetRow /\ a.status = asset.status /\ a.transfers = asset.transfers
        /\ a.asked = asset.asked /\ a.granted = asset.granted /\ a.disposed = asset.disposed
        /\ a.cases > 0 /\ a.holder = asset.holder
        /\ a.active = asset.active /\ a.leaving = asset.leaving
    BY <1>1 DEF AssetRow
  <2>2. Commit(<<a, b>>) /\ asset.status \notin Gone
    BY <1>2 DEF OpenMaintenance
  <2> HIDE DEF a
  <2>3. Sound(a)
    BY <1>1, <2>1, SoundStays
  <2>4. /\ b \in AssetRow /\ Sound(b) /\ b.status = "IN_MAINTENANCE"
        /\ b.holder = asset.holder /\ b.cases > 0
        /\ b.active = asset.active /\ b.leaving = asset.leaving
    BY <2>1, <2>3, BecomeKeeps DEF AssetStatus
  <2> HIDE DEF b
  <2>5. Backed(asset) => Backed(b)
    BY <2>2, <2>4 DEF Backed, Gone
  <2> QED BY <2>1, <2>2, <2>3, <2>4, <2>5, Commits2
<1>3. CASE CloseMaintenance
  <2> DEFINE a == [asset EXCEPT !.cases = @ - 1]
             b == Become(a, "AVAILABLE")
  <2>0. asset.cases > 0
    BY <1>3 DEF CloseMaintenance
  <2>1. /\ a \in AssetRow /\ a.status = asset.status /\ a.transfers = asset.transfers
        /\ a.asked = asset.asked /\ a.granted = asset.granted /\ a.disposed = asset.disposed
        /\ a.holder = asset.holder /\ a.returns = asset.returns
        /\ a.active = asset.active /\ a.leaving = asset.leaving
    BY <1>1, <2>0 DEF AssetRow
  <2>2. IF asset.status = "IN_MAINTENANCE" THEN Commit(<<a, b>>) ELSE Commit(<<a>>)
    BY <1>3 DEF CloseMaintenance
  <2> HIDE DEF a
  <2>3. Sound(a)
    BY <1>1, <2>1, SoundStays
  <2>4. /\ b \in AssetRow /\ Sound(b) /\ b.status = "AVAILABLE" /\ b.holder = asset.holder
        /\ b.active = asset.active /\ b.leaving = asset.leaving
    BY <2>1, <2>3, BecomeKeeps DEF AssetStatus
  <2> HIDE DEF b
  <2>5. CASE asset.status = "IN_MAINTENANCE"
    <3>1. Backed(asset) => Backed(b)
      BY <2>4 DEF Backed, Gone
    <3> QED BY <2>1, <2>2, <2>3, <2>4, <2>5, <3>1, Commits2
  <2>6. CASE asset.status # "IN_MAINTENANCE"
    <3>1. Backed(asset) => Backed(a)
      BY <2>1, <2>6 DEF Backed, Disposing
    <3> QED BY <2>1, <2>2, <2>3, <2>6, <3>1, Commits1
  <2> QED BY <2>5, <2>6
<1> QED BY <1>2, <1>3

LEMMA CreateDisposalStep ==
  ASSUME AssetInv, NEW u \in Users, CreateDisposalRequest(u) PROVE AssetInv'
<1> DEFINE a == [asset EXCEPT !.asked[u] = @ + 1]
           b == Become(a, "DISPOSAL_PENDING")
           f == [asset.asked EXCEPT ![u] = @ + 1]
<1>1. /\ asset \in AssetRow /\ Sound(asset) /\ Commit(<<a, b>>)
      /\ asset.status # "DISPOSED" /\ \A v \in Users : ~(asset.asked[v] > 0)
      /\ \A p \in Users \X Users : ~(asset.granted[p] > 0)
  BY DEF AssetInv, CreateDisposalRequest, Disposing
<1>2. f \in [Users -> Nat] /\ AtMostOne(f) /\ f[u] > 0
  BY <1>1, OneMore DEF AssetRow
<1>3. /\ a \in AssetRow /\ a.asked = f /\ a.status = asset.status
      /\ a.holder = asset.holder /\ a.active = asset.active /\ a.leaving = asset.leaving
      /\ a.transfers = asset.transfers /\ a.granted = asset.granted
      /\ a.disposed = asset.disposed
  BY <1>1, <1>2 DEF AssetRow
<1> HIDE DEF a, f
<1>4. Sound(a)
  BY <1>1, <1>2, <1>3 DEF Sound
<1>5. /\ b \in AssetRow /\ Sound(b) /\ b.status = "DISPOSAL_PENDING"
      /\ b.holder = asset.holder /\ b.active = asset.active /\ b.leaving = asset.leaving
      /\ b.asked = f
  BY <1>3, <1>4, BecomeKeeps DEF AssetStatus
<1> HIDE DEF b
<1>6. Backed(asset) => Backed(b)
  BY <1>2, <1>5 DEF Backed, Gone, Disposing
<1> QED BY <1>1, <1>3, <1>4, <1>5, <1>6, Commits2

LEMMA ApproveDisposalStep ==
  ASSUME AssetInv, NEW u \in Users, NEW by \in Users, ApproveDisposalRequest(u, by)
  PROVE  AssetInv'
<1> DEFINE a == [asset EXCEPT !.asked[u] = @ - 1, !.granted[<<u, by>>] = @ + 1]
           f == [asset.asked EXCEPT ![u] = @ - 1]
           g == [asset.granted EXCEPT ![<<u, by>>] = @ + 1]
<1>1. /\ asset \in AssetRow /\ Sound(asset) /\ Commit(<<a>>)
      /\ asset.asked[u] > 0 /\ by # u
  BY DEF AssetInv, ApproveDisposalRequest
<1>2. f \in [Users -> Nat] /\ AtMostOne(f) /\ \A v \in Users : ~(f[v] > 0)
  BY <1>1, OneLess DEF AssetRow, Sound
<1>3. \A p \in Users \X Users : ~(asset.granted[p] > 0)
  BY <1>1 DEF Sound
<1>4. /\ g \in [Users \X Users -> Nat] /\ AtMostOne(g)
      /\ \A p \in Users \X Users : g[p] > 0 <=> p = <<u, by>>
  BY <1>1, <1>3, OneMore DEF AssetRow
<1>5. /\ a \in AssetRow /\ a.asked = f /\ a.granted = g /\ a.status = asset.status
      /\ a.holder = asset.holder /\ a.active = asset.active /\ a.leaving = asset.leaving
      /\ a.transfers = asset.transfers /\ a.returns = asset.returns
      /\ a.cases = asset.cases /\ a.disposed = asset.disposed
  BY <1>1, <1>2, <1>4 DEF AssetRow
<1> HIDE DEF a, f, g
<1>6. Sound(a)
  BY <1>1, <1>2, <1>4, <1>5 DEF Sound
<1>7. Backed(asset) => Backed(a)
  BY <1>4, <1>5 DEF Backed, Disposing
<1> QED BY <1>1, <1>5, <1>6, <1>7, Commits1

LEMMA RejectDisposalStep == ASSUME AssetInv, RejectDisposalRequest PROVE AssetInv'
<1>1. asset \in AssetRow /\ Sound(asset)
  BY DEF AssetInv
<1>2. ASSUME NEW a \in AssetRow, Sound(a), Commit(<<a, Become(a, "AVAILABLE")>>),
             a.status = asset.status, a.holder = asset.holder,
             a.active = asset.active, a.leaving = asset.leaving
      PROVE  AssetInv'
  <2> DEFINE b == Become(a, "AVAILABLE")
  <2>1. /\ b \in AssetRow /\ Sound(b) /\ b.status = "AVAILABLE" /\ b.holder = asset.holder
        /\ b.active = asset.active /\ b.leaving = asset.leaving
    BY <1>2, BecomeKeeps DEF AssetStatus
  <2>2. Backed(asset) => Backed(b)
    BY <2>1 DEF Backed, Gone
  <2> HIDE DEF b
  <2> QED BY <1>2, <2>1, <2>2, Commits2 DEF b
<1>3. ASSUME NEW u \in Users, asset.asked[u] > 0,
             Commit(<<[asset EXCEPT !.asked[u] = @ - 1],
                      Become([asset EXCEPT !.asked[u] = @ - 1], "AVAILABLE")>>)
      PROVE  AssetInv'
  <2> DEFINE a == [asset EXCEPT !.asked[u] = @ - 1]
             f == [asset.asked EXCEPT ![u] = @ - 1]
  <2>1. f \in [Users -> Nat] /\ AtMostOne(f) /\ \A v \in Users : ~(f[v] > 0)
    BY <1>1, <1>3, OneLess DEF AssetRow, Sound
  <2>2. /\ a \in AssetRow /\ a.asked = f /\ a.status = asset.status
        /\ a.holder = asset.holder /\ a.active = asset.active /\ a.leaving = asset.leaving
        /\ a.transfers = asset.transfers /\ a.granted = asset.granted
        /\ a.disposed = asset.disposed
    BY <1>1, <2>1 DEF AssetRow
  <2>3. Commit(<<a, Become(a, "AVAILABLE")>>)
    BY <1>3
  <2> HIDE DEF a, f
  <2>4. Sound(a)
    BY <1>1, <2>1, <2>2 DEF Sound
  <2> QED BY <1>2, <2>2, <2>3, <2>4
<1>4. ASSUME NEW p \in Users \X Users, asset.granted[p] > 0,
             Commit(<<[asset EXCEPT !.granted[p] = @ - 1],
                      Become([asset EXCEPT !.granted[p] = @ - 1], "AVAILABLE")>>)
      PROVE  AssetInv'
  <2> DEFINE a == [asset EXCEPT !.granted[p] = @ - 1]
             f == [asset.granted EXCEPT ![p] = @ - 1]
  <2>1. /\ f \in [Users \X Users -> Nat] /\ AtMostOne(f)
        /\ \A q \in Users \X Users : ~(f[q] > 0)
    BY <1>1, <1>4, OneLess DEF AssetRow, Sound
  <2>2. /\ a \in AssetRow /\ a.granted = f /\ a.status = asset.status
        /\ a.holder = asset.holder /\ a.active = asset.active /\ a.leaving = asset.leaving
        /\ a.transfers = asset.transfers /\ a.asked = asset.asked
        /\ a.disposed = asset.disposed
    BY <1>1, <2>1 DEF AssetRow
  <2>3. Commit(<<a, Become(a, "AVAILABLE")>>)
    BY <1>4
  <2> HIDE DEF a, f
  <2>4. Sound(a)
    BY <1>1, <2>1, <2>2 DEF Sound
  <2> QED BY <1>2, <2>2, <2>3, <2>4
<1> QED BY <1>3, <1>4 DEF RejectDisposalRequest

LEMMA PostDisposalStep ==
  ASSUME AssetInv, NEW p \in Users \X Users, PostDisposal(p) PROVE AssetInv'
<1> DEFINE a == [asset EXCEPT !.granted[p] = @ - 1, !.disposed = @ \cup {p}]
           b == Held(a, "DISPOSED", Nobody)
           f == [asset.granted EXCEPT ![p] = @ - 1]
<1>1. /\ asset \in AssetRow /\ Sound(asset) /\ Commit(<<a, b>>) /\ asset.granted[p] > 0
  BY DEF AssetInv, PostDisposal
<1>2. /\ f \in [Users \X Users -> Nat] /\ AtMostOne(f)
      /\ \A q \in Users \X Users : ~(f[q] > 0)
  BY <1>1, OneLess DEF AssetRow, Sound
<1>3. /\ a \in AssetRow /\ a.granted = f /\ a.disposed = asset.disposed \cup {p}
      /\ a.status = asset.status /\ a.transfers = asset.transfers /\ a.asked = asset.asked
  BY <1>1, <1>2 DEF AssetRow
<1> HIDE DEF a, f
<1>4. Sound(a)
  BY <1>1, <1>2, <1>3 DEF Sound
<1>5. /\ b \in AssetRow /\ b.status = "DISPOSED" /\ b.holder = Nobody
      /\ b.transfers = a.transfers /\ b.asked = a.asked /\ b.granted = a.granted
      /\ b.disposed = a.disposed
  <2>1. a \in AssetRow /\ "DISPOSED" \in AssetStatus /\ Nobody \in Users \cup {Nobody}
    BY <1>3 DEF AssetStatus
  <2> QED BY <2>1, HeldKeeps
<1> HIDE DEF b
<1>6. Sound(b)
  BY <1>3, <1>4, <1>5 DEF Sound
<1>7. Backed(b)
  BY <1>5 DEF Backed
<1> QED BY <1>1, <1>3, <1>4, <1>5, <1>6, <1>7, Commits2

-----------------------------------------------------------------------------
LEMMA AssetStep == AssetInv /\ [AssetNext]_AssetVars => AssetInv'
<1> SUFFICES ASSUME AssetInv, [AssetNext]_AssetVars PROVE AssetInv'
  OBVIOUS
<1>1. CASE AssetNext
  BY <1>1, OneStatement, AssignStep, CreateTransferStep, ApproveTransferStep,
     CreateReturnStep, AcceptReturnStep, MaintenanceStep, CreateDisposalStep,
     ApproveDisposalStep, RejectDisposalStep, PostDisposalStep DEF AssetNext
<1>2. CASE UNCHANGED AssetVars
  BY <1>2 DEF AssetVars, AssetInv
<1> QED BY <1>1, <1>2

LEMMA AssetSuffices == AssetInv => AssetTypeOK /\ StatusIsBacked /\ DisposalIsSound
<1> SUFFICES ASSUME AssetInv PROVE AssetTypeOK /\ StatusIsBacked /\ DisposalIsSound
  OBVIOUS
<1>1. AssetTypeOK /\ StatusIsBacked
  BY DEF AssetInv, AssetTypeOK, StatusIsBacked, Backed, WayOut, HolderAssigned
<1>2. asset.status = "DISPOSED" => \E p \in asset.disposed : p[1] # p[2]
  BY DEF AssetInv, Sound, AssetRow
<1>3. DisposalIsSound
  BY <1>2 DEF AssetInv, Sound, DisposalIsSound
<1> QED BY <1>1, <1>3

(* The invariant from which the two theorems about custody follow.         *)
THEOREM AssetInvariant == AssetSpec => []AssetInv
BY AssetInitially, AssetStep, PTL DEF AssetSpec

(* As long as no handler is cut short, what an asset waits for is open and *)
(* its custodian has an assignment, although none of its handlers looks at *)
(* more than one row.                                                      *)
THEOREM CustodyBacked == AssetSpec => [](AssetTypeOK /\ StatusIsBacked)
BY AssetInvariant, AssetSuffices, PTL

(* Wherever handlers are cut short: an asset is written off by two persons, *)
(* and no two transfers or disposals of it are ever open.                  *)
THEOREM DisposalsSound == AssetSpec => []DisposalIsSound
BY AssetInvariant, AssetSuffices, PTL

-----------------------------------------------------------------------------
(* Finance export. ExportsAgree is inductive together with the types.      *)

ExportInv == ExportTypes /\ ExportsAgree

LEMMA ExportInitially == ExportInit => ExportInv
BY ExportAssumption
   DEF ExportInit, ExportInv, ExportTypes, ExportsAgree, ExportRow, JobRow, Blocking

LEMMA IssuesAreBlocking == ExportIssues \subseteq Blocking
BY DEF ExportIssues

(* A change of the status of the batch that adds no job.                   *)
LEMMA BatchMoves ==
  ASSUME ExportInv, ExportTypes', UNCHANGED jobs,
         export.payload = export'.payload,
         \/ export'.status = "FAILED_VALIDATION" /\ export'.errors # {}
         \/ /\ export'.status \in {"VALIDATED", "APPROVED", "GENERATED"}
            /\ export'.errors = {}
         \/ export'.status = "DRAFT"
  PROVE  ExportInv'
BY DEF ExportInv, ExportsAgree, Carried

(* A sequence whose rows are changed in place is a sequence of its length.  *)
LEMMA RowsInPlace ==
  ASSUME NEW S, NEW s \in Seq(S), NEW t \in [DOMAIN s -> S]
  PROVE  t \in Seq(S) /\ Len(t) = Len(s) /\ DOMAIN t = DOMAIN s
<1>1. DOMAIN s = 1..Len(s) /\ Len(s) \in Nat
  OBVIOUS
<1>2. t \in Seq(S)
  BY <1>1, SeqDef
<1> QED BY <1>1, <1>2, LenProperties

LEMMA ExportStep == ExportInv /\ [ExportNext]_ExportVars => ExportInv'
<1> SUFFICES ASSUME ExportInv, [ExportNext]_ExportVars PROVE ExportInv'
  OBVIOUS
<1> USE ExportAssumption
<1> USE DEF ExportInv
<1>1. ASSUME NEW d \in Documents, BooksChange(d) PROVE ExportInv'
  BY <1>1 DEF BooksChange, ExportTypes, ExportsAgree, Carried
<1>2. CASE CreateExportBatch
  <2>1. ExportTypes'
    BY <1>2 DEF CreateExportBatch, ExportTypes, ExportRow
  <2> QED BY <1>2, <2>1, BatchMoves DEF CreateExportBatch, ExportTypes, ExportRow
<1>3. CASE ValidateExportBatch
  <2>1. ExportTypes'
    BY <1>3, IssuesAreBlocking DEF ValidateExportBatch, ExportTypes, ExportRow
  <2>2. /\ export'.errors = ExportIssues
        /\ export'.status = IF ExportIssues = {} THEN "VALIDATED" ELSE "FAILED_VALIDATION"
        /\ export.payload = export'.payload /\ UNCHANGED jobs
    BY <1>3 DEF ValidateExportBatch, ExportTypes, ExportRow
  <2> QED BY <2>1, <2>2, BatchMoves
<1>4. CASE ApproveExportBatch
  <2>1. ExportTypes'
    BY <1>4 DEF ApproveExportBatch, ExportTypes, ExportRow
  <2> QED BY <1>4, <2>1, BatchMoves DEF ApproveExportBatch, ExportTypes, ExportRow
<1>5. CASE GenerateExportBatch
  <2>1. ExportTypes'
    BY <1>5 DEF GenerateExportBatch, ExportTypes, ExportRow
  <2>2. /\ export'.status = "GENERATED" /\ export'.errors = {}
    BY <1>5 DEF GenerateExportBatch, ExportTypes, ExportRow
  <2> QED BY <2>1, <2>2 DEF ExportsAgree
<1>6. CASE CancelExportBatch
  <2>0. /\ jobs \in Seq(JobRow) /\ jobs' \in [DOMAIN jobs -> JobRow]
        /\ \A j \in DOMAIN jobs :
             jobs'[j] = [jobs[j] EXCEPT !.job = "CANCELLED", !.transfer = "CANCELLED"]
    <3>1. \A j \in DOMAIN jobs : jobs[j] \in JobRow
      BY DEF ExportTypes
    <3> QED BY <3>1, <1>6 DEF CancelExportBatch, ExportTypes, JobRow
  <2>a. jobs' \in Seq(JobRow) /\ Len(jobs') = Len(jobs) /\ DOMAIN jobs' = DOMAIN jobs
    BY <2>0, RowsInPlace
  <2>1. ExportTypes'
    BY <2>a, <1>6 DEF CancelExportBatch, ExportTypes, ExportRow
  <2>2. export'.status = "CANCELLED"
    BY <1>6 DEF CancelExportBatch, ExportTypes, ExportRow
  <2>3. \A j \in DOMAIN jobs' : jobs'[j].transfer = "CANCELLED" /\ jobs'[j].job = "CANCELLED"
    <3> SUFFICES ASSUME NEW j \in DOMAIN jobs
                 PROVE  jobs'[j].transfer = "CANCELLED" /\ jobs'[j].job = "CANCELLED"
      BY <2>a
    <3> DEFINE old == jobs[j]
    <3>1. old \in JobRow
      BY DEF ExportTypes
    <3>2. jobs'[j] = [old EXCEPT !.job = "CANCELLED", !.transfer = "CANCELLED"]
      BY <2>0
    <3> HIDE DEF old
    <3> QED BY <3>1, <3>2 DEF JobRow
  <2> QED BY <2>1, <2>2, <2>3 DEF ExportsAgree
<1>7. ASSUME NEW connected \in BOOLEAN, DispatchExportBatch(connected) PROVE ExportInv'
  <2> DEFINE new == [job |-> IF connected THEN "QUEUED" ELSE "BLOCKED",
                     transfer |-> IF connected THEN "QUEUED" ELSE "FAILED",
                     payload |-> export.payload]
  <2>1. /\ jobs' = Append(jobs, new) /\ new \in JobRow
        /\ export' = [export EXCEPT !.status = IF connected THEN "DISPATCH_QUEUED"
                                                            ELSE "DISPATCH_FAILED"]
        /\ export.errors = {} /\ Len(jobs) < MaxDispatches /\ UNCHANGED books
    BY <1>7 DEF DispatchExportBatch, ExportTypes, ExportRow, JobRow
  <2>2. /\ jobs' \in Seq(JobRow) /\ Len(jobs') = Len(jobs) + 1
        /\ jobs'[Len(jobs')] = new /\ Len(jobs') \in DOMAIN jobs'
    BY <2>1 DEF ExportTypes
  <2>3. ExportTypes'
    BY <2>1, <2>2 DEF ExportTypes, ExportRow
  <2>4. /\ export'.payload = export.payload /\ export'.errors = {}
        /\ export'.status = IF connected THEN "DISPATCH_QUEUED" ELSE "DISPATCH_FAILED"
    BY <2>1 DEF ExportTypes, ExportRow
  <2>5. connected => Carried("QUEUED")'
    BY <2>2, <2>4 DEF Carried
  <2>6. ~connected => Carried("FAILED")'
    BY <2>2, <2>4 DEF Carried
  <2> QED BY <2>3, <2>4, <2>5, <2>6 DEF ExportsAgree
<1>8. ASSUME NEW j \in DOMAIN jobs, RetryIntegrationJob(j) \/ CancelIntegrationJob(j)
      PROVE  ExportInv'
  <2>0. PICK s \in {"RETRYING", "CANCELLED"} :
          jobs' = [jobs EXCEPT ![j] = [jobs[j] EXCEPT !.job = s]]
    BY <1>8 DEF RetryIntegrationJob, CancelIntegrationJob
  <2>a. \A i \in DOMAIN jobs : jobs[i] \in JobRow
    BY DEF ExportTypes
  <2>b. [jobs[j] EXCEPT !.job = s] \in JobRow /\ jobs \in Seq(JobRow)
    BY <2>a DEF JobRow, ExportTypes
  <2>c. jobs' \in [DOMAIN jobs -> JobRow]
    BY <2>0, <2>a, <2>b
  <2>1. /\ jobs' \in Seq(JobRow) /\ Len(jobs') = Len(jobs) /\ DOMAIN jobs' = DOMAIN jobs
        /\ UNCHANGED <<books, export>>
    BY <1>8, <2>b, <2>c, RowsInPlace DEF RetryIntegrationJob, CancelIntegrationJob
  <2>2. \A i \in DOMAIN jobs :
          /\ jobs'[i].transfer = jobs[i].transfer /\ jobs'[i].payload = jobs[i].payload
          /\ jobs'[i].job \in {jobs[i].job, "RETRYING", "CANCELLED"}
    BY <2>0, <2>a, <2>b, <2>c DEF JobRow
  <2> QED BY <2>1, <2>2 DEF ExportTypes, ExportsAgree, Carried
<1>9. CASE UNCHANGED ExportVars
  BY <1>9 DEF ExportVars, ExportTypes, ExportsAgree, Carried
<1> QED
  BY <1>1, <1>2, <1>3, <1>4, <1>5, <1>6, <1>7, <1>8, <1>9 DEF ExportNext

(* The rows of a batch and its jobs hold only what the handlers write, and  *)
(* status, errors, payload and jobs agree, whatever is validated, sent and *)
(* retried again.                                                          *)
THEOREM ExportsSound == ExportSpec => [](ExportTypes /\ ExportsAgree)
<1>1. ExportSpec => []ExportInv
  BY ExportInitially, ExportStep, PTL DEF ExportSpec
<1> QED BY <1>1, PTL DEF ExportInv

-----------------------------------------------------------------------------
(* Sourcing. AwardStands is inductive together with the types.             *)

SourcingInv == SourcingTypes /\ AwardStands

LEMMA SourcingInitially == SourcingInit => SourcingInv
BY SourcingAssumption
   DEF SourcingInit, SourcingInv, SourcingTypes, AwardStands, RfqRow, Made, Absent

(* Only the request changes, and not what it awarded.                      *)
LEMMA RfqMoves ==
  ASSUME SourcingInv, UNCHANGED quote, rfq' \in RfqRow, rfq'.awarded = rfq.awarded,
         \/ rfq'.status = rfq.status
         \/ rfq'.status = "EVALUATED"
         \/ rfq.status \in {"NONE", "DRAFT", "SENT"}
  PROVE  SourcingInv'
BY DEF SourcingInv, SourcingTypes, AwardStands, Made

(* Only one quote changes, and if it was awarded it keeps that and its     *)
(* total.                                                                  *)
LEMMA QuoteMoves ==
  ASSUME SourcingInv, UNCHANGED rfq, NEW q \in Quotes, NEW row \in QuoteRow,
         quote' = [quote EXCEPT ![q] = row],
         IF q \in Made
         THEN /\ row.wasAwarded = quote[q].wasAwarded
              /\ row.wasAwarded => /\ row.total = quote[q].total /\ row.at = quote[q].at
                                   /\ row.status \in {"AWARDED", "REJECTED", "EXPIRED"}
         ELSE ~row.wasAwarded
  PROVE  SourcingInv'
<1> USE DEF SourcingInv, SourcingTypes
<1>1. quote' \in [Quotes -> QuoteRow \cup {Absent}]
  OBVIOUS
<1>2. row # Absent
  BY DEF QuoteRow, Absent
<1>3. \A r \in Quotes : quote'[r] = IF r = q THEN row ELSE quote[r]
  OBVIOUS
<1>4. Made' = Made \cup {q}
  BY <1>2, <1>3 DEF Made
<1>5. {r \in Made' : quote'[r].wasAwarded} = {r \in Made : quote[r].wasAwarded}
  BY <1>3, <1>4 DEF Made
<1> QED BY <1>1, <1>3, <1>4, <1>5 DEF AwardStands, Made

LEMMA SourcingStep == SourcingInv /\ [SourcingNext]_SourcingVars => SourcingInv'
<1> SUFFICES ASSUME SourcingInv, [SourcingNext]_SourcingVars PROVE SourcingInv'
  OBVIOUS
<1> USE SourcingAssumption
<1>0. rfq \in RfqRow /\ quote \in [Quotes -> QuoteRow \cup {Absent}]
  BY DEF SourcingInv, SourcingTypes
<1>q. \A q \in Made : quote[q] \in QuoteRow
  BY <1>0 DEF Made
<1>p. \A q \in Quotes : quote[q].status # "NONE" => q \in Made
  BY DEF Made, Absent
<1>1. ASSUME NEW l \in RfqLines, NEW n \in LineQtys,
             CreateRfqRequest(l, n) \/ CreateRfqLine(l, n) \/ UpdateRfqLine(l, n)
      PROVE  SourcingInv'
  <2>1. /\ UNCHANGED quote /\ rfq' \in RfqRow /\ rfq'.awarded = rfq.awarded
        /\ rfq'.status = rfq.status \/ rfq.status = "NONE"
    <3>1. CASE CreateRfqRequest(l, n)
      BY <1>0, <3>1 DEF CreateRfqRequest, RfqRow
    <3>2. CASE CreateRfqLine(l, n)
      BY <1>0, <3>2 DEF CreateRfqLine, RfqRow
    <3>3. CASE UpdateRfqLine(l, n)
      BY <1>0, <3>3 DEF UpdateRfqLine, RfqRow
    <3> QED BY <1>1, <3>1, <3>2, <3>3
  <2> QED BY <2>1, RfqMoves
<1>2. ASSUME NEW l \in RfqLines, DeleteRfqLine(l) PROVE SourcingInv'
  BY <1>0, <1>2, RfqMoves DEF DeleteRfqLine, RfqRow
<1>3. CASE SendRfqRequest \/ EvaluateRfqRequest \/ CancelRfqRequest
  BY <1>0, <1>3, RfqMoves DEF SendRfqRequest, EvaluateRfqRequest, CancelRfqRequest, RfqRow
<1>4. ASSUME NEW q \in Quotes, NEW n \in Prices, CreateVendorQuote(q, n) PROVE SourcingInv'
  <2> DEFINE row == [status |-> "DRAFT", total |-> n, wasAwarded |-> FALSE, at |-> n]
  <2>1. row \in QuoteRow /\ ~row.wasAwarded
    BY DEF QuoteRow
  <2>2. quote' = [quote EXCEPT ![q] = row] /\ UNCHANGED rfq /\ q \notin Made
    BY <1>4 DEF CreateVendorQuote
  <2> HIDE DEF row
  <2> QED BY <2>1, <2>2, QuoteMoves
<1>a. ASSUME NEW q \in Made, quote[q].wasAwarded
      PROVE  quote[q].status \in {"AWARDED", "REJECTED", "EXPIRED"}
  BY <1>a DEF SourcingInv, AwardStands
<1>5. ASSUME NEW q \in Quotes, NEW n \in Prices, UpdateVendorQuote(q, n) PROVE SourcingInv'
  <2> DEFINE row == [quote[q] EXCEPT !.total = n]
  <2>1. /\ quote' = [quote EXCEPT ![q] = row] /\ UNCHANGED rfq /\ q \in Made
        /\ quote[q].status \in {"DRAFT", "SUBMITTED"} /\ quote[q] \in QuoteRow
    BY <1>5, <1>q, <1>0 DEF UpdateVendorQuote
  <2>2. row \in QuoteRow /\ row.wasAwarded = quote[q].wasAwarded /\ ~quote[q].wasAwarded
    BY <2>1, <1>a DEF QuoteRow
  <2> HIDE DEF row
  <2> QED BY <2>1, <2>2, QuoteMoves
<1>6. ASSUME NEW q \in Quotes, SubmitVendorQuote(q) \/ ShortlistVendorQuote(q)
      PROVE  SourcingInv'
  <2> PICK s \in {"SUBMITTED", "SHORTLISTED"} :
        /\ quote' = [quote EXCEPT ![q].status = s] /\ UNCHANGED rfq
        /\ quote[q].status \in {"DRAFT", "SUBMITTED", "SHORTLISTED"}
    BY <1>6 DEF SubmitVendorQuote, ShortlistVendorQuote
  <2> DEFINE row == [quote[q] EXCEPT !.status = s]
  <2>1. quote' = [quote EXCEPT ![q] = row] /\ q \in Made /\ quote[q] \in QuoteRow
    BY <1>0, <1>p, <1>q
  <2>2. row \in QuoteRow /\ row.wasAwarded = quote[q].wasAwarded /\ ~quote[q].wasAwarded
    BY <2>1, <1>a DEF QuoteRow
  <2> HIDE DEF row
  <2> QED BY <2>1, <2>2, QuoteMoves
<1>7. ASSUME NEW q \in Quotes, AwardQuote(q) PROVE SourcingInv'
  <2> DEFINE row == [quote[q] EXCEPT !.status = "AWARDED", !.wasAwarded = TRUE,
                                     !.at = quote[q].total]
  <2>1. quote' = [quote EXCEPT ![q] = row] /\ q \in Made /\ quote[q] \in QuoteRow
    BY <1>7, <1>0, <1>q DEF AwardQuote
  <2>2. /\ row \in QuoteRow /\ row # Absent /\ row.wasAwarded /\ row.total = row.at
        /\ row.status = "AWARDED"
    BY <2>1 DEF QuoteRow, Absent
  <2>3. rfq' \in RfqRow /\ rfq'.status = "AWARDED" /\ rfq'.awarded = q
    BY <1>7, <1>0 DEF AwardQuote, RfqRow
  <2> HIDE DEF row
  <2>4. \A r \in Quotes : quote'[r] = IF r = q THEN row ELSE quote[r]
    BY <2>1, <1>0
  <2>5. Made' = Made
    BY <2>1, <2>2, <2>4 DEF Made
  <2>6. {r \in Made' : quote'[r].wasAwarded} = {r \in Made : quote[r].wasAwarded} \cup {q}
    BY <2>1, <2>2, <2>4, <2>5 DEF Made
  <2>7. quote' \in [Quotes -> QuoteRow \cup {Absent}]
    BY <1>0, <2>1, <2>2
  <2> QED BY <2>1, <2>2, <2>3, <2>4, <2>5, <2>6, <2>7
          DEF SourcingInv, SourcingTypes, AwardStands, Made
<1>8. ASSUME NEW q \in Quotes, NEW s \in {"REJECTED", "EXPIRED"}, CloseVendorQuote(q, s)
      PROVE  SourcingInv'
  <2> DEFINE row == [quote[q] EXCEPT !.status = s]
  <2>1. /\ quote' = [quote EXCEPT ![q] = row] /\ UNCHANGED rfq
        /\ q \in Made /\ quote[q] \in QuoteRow
    BY <1>8, <1>0, <1>q DEF CloseVendorQuote
  <2>2. /\ row \in QuoteRow /\ row.wasAwarded = quote[q].wasAwarded /\ row.status = s
        /\ row.total = quote[q].total /\ row.at = quote[q].at
    BY <2>1 DEF QuoteRow
  <2> HIDE DEF row
  <2> QED BY <2>1, <2>2, QuoteMoves
<1>9. CASE UNCHANGED SourcingVars
  BY <1>9 DEF SourcingVars, SourcingInv, SourcingTypes, AwardStands, Made
<1> QED
  BY <1>1, <1>2, <1>3, <1>4, <1>5, <1>6, <1>7, <1>8, <1>9 DEF SourcingNext

(* A request has an awarded quote exactly when some quote was awarded, and *)
(* a quote keeps the total it was awarded with, in whatever order its       *)
(* handlers are called.                                                    *)
THEOREM AwardsStand == SourcingSpec => [](SourcingTypes /\ AwardStands)
<1>1. SourcingSpec => []SourcingInv
  BY SourcingInitially, SourcingStep, PTL DEF SourcingSpec
<1> QED BY <1>1, PTL DEF SourcingInv

-----------------------------------------------------------------------------
(* The evidence vault. A document that is not on record has no trail: that *)
(* is what makes the property inductive.                                   *)

NoTrailYet == \A d \in Papers : paper[d] = NoPaper => trail[d].all = {}
EvidenceInv == EvidenceTypes /\ EvidenceIsKept /\ NoTrailYet

LEMMA EvidenceInitially == EvidenceInit => EvidenceInv
BY DEF EvidenceInit, EvidenceInv, EvidenceTypes, EvidenceIsKept, NoTrailYet, Trail, NoPaper

(* One row and its trail change together, and no link is lost.             *)
LEMMA PaperMoves ==
  ASSUME EvidenceInv, NEW d \in Papers, NEW row \in PaperRow, NEW action,
         action \in {"CREATED"} \cup Stamps, d \in binaries',
         binaries \subseteq binaries', binaries' \subseteq Papers,
         links \subseteq links', links' \subseteq Papers \X Subjects,
         \A l \in links' \ links : l[1] = d,
         paper' = [paper EXCEPT ![d] = row], trail' = Recorded(d, action),
         action = IF row.state = "PENDING" THEN "CREATED" ELSE row.state,
         trail[d].all \cup {action} = {"CREATED"} \cup row.stamps,
         "LINKED" \in row.stamps => \E e \in Subjects : <<d, e>> \in links'
  PROVE  EvidenceInv'
<1> USE DEF EvidenceInv
<1>1. paper' \in [Papers -> PaperRow \cup {NoPaper}]
  BY DEF EvidenceTypes
<1>2. \A p \in Papers : paper'[p] = IF p = d THEN row ELSE paper[p]
  BY DEF EvidenceTypes
<1>3. /\ trail' \in [Papers -> Trail]
      /\ \A p \in Papers : p # d => trail'[p] = trail[p]
      /\ trail'[d].last = action /\ trail'[d].all = trail[d].all \cup {action}
  BY DEF Recorded, EvidenceTypes, Trail
<1>4. row # NoPaper
  BY DEF PaperRow, NoPaper, Stamps
<1>5. EvidenceTypes' /\ NoTrailYet'
  BY <1>1, <1>2, <1>3, <1>4 DEF EvidenceTypes, NoTrailYet
<1>6. ASSUME NEW p \in Papers, paper'[p] # NoPaper
      PROVE  /\ p \in binaries'
             /\ trail'[p].last = IF paper'[p].state = "PENDING" THEN "CREATED"
                                                              ELSE paper'[p].state
             /\ trail'[p].all = {"CREATED"} \cup paper'[p].stamps
             /\ "LINKED" \in paper'[p].stamps => \E e \in Subjects : <<p, e>> \in links'
  <2>1. CASE p = d
    BY <2>1, <1>2, <1>3
  <2>2. CASE p # d
    BY <2>2, <1>2, <1>3, <1>6 DEF EvidenceIsKept
  <2> QED BY <2>1, <2>2
<1>7. \A l \in links' : paper'[l[1]] # NoPaper
  BY <1>2, <1>4 DEF EvidenceIsKept, EvidenceTypes
<1> QED BY <1>5, <1>6, <1>7 DEF EvidenceIsKept

(* A document that is stamped keeps the stamps it has.                     *)
LEMMA StampMoves ==
  ASSUME EvidenceInv, NEW d \in Papers, NEW state \in Stamps, Stamp(d, state),
         links \subseteq links', links' \subseteq Papers \X Subjects,
         \A l \in links' \ links : l[1] = d,
         state = "LINKED" => \E e \in Subjects : <<d, e>> \in links'
  PROVE  EvidenceInv'
<1> DEFINE row == [state |-> state, stamps |-> paper[d].stamps \cup {state}]
<1>1. paper[d] \in PaperRow /\ paper[d] # NoPaper
  BY DEF EvidenceInv, EvidenceTypes, Stamp
<1>2. /\ paper' = [paper EXCEPT ![d] = row] /\ trail' = Recorded(d, state)
      /\ UNCHANGED binaries
  BY <1>1 DEF Stamp, PaperRow
<1>3. row \in PaperRow /\ row.state = state /\ row.state # "PENDING"
  BY <1>1 DEF PaperRow, Stamps
<1>4. /\ d \in binaries /\ binaries \subseteq Papers
      /\ trail[d].all = {"CREATED"} \cup paper[d].stamps
      /\ "LINKED" \in paper[d].stamps => \E e \in Subjects : <<d, e>> \in links
  BY <1>1 DEF EvidenceInv, EvidenceTypes, EvidenceIsKept
<1>5. "LINKED" \in row.stamps => \E e \in Subjects : <<d, e>> \in links'
  BY <1>4
<1>6. trail[d].all \cup {state} = {"CREATED"} \cup row.stamps
  BY <1>4
<1> HIDE DEF row
<1> QED BY <1>2, <1>3, <1>4, <1>5, <1>6, PaperMoves

LEMMA EvidenceStep == EvidenceInv /\ [EvidenceNext]_EvidenceVars => EvidenceInv'
<1> SUFFICES ASSUME EvidenceInv, [EvidenceNext]_EvidenceVars PROVE EvidenceInv'
  OBVIOUS
<1>0. links \subseteq Papers \X Subjects
  BY DEF EvidenceInv, EvidenceTypes
<1>1. ASSUME NEW d \in Papers, NEW whole \in BOOLEAN, UploadDocument(d, whole)
      PROVE  EvidenceInv'
  <2>1. CASE whole
    <3> DEFINE row == [state |-> "PENDING", stamps |-> {}]
    <3>1. row \in PaperRow /\ row.state = "PENDING" /\ row.stamps = {}
      BY DEF PaperRow
    <3>2. /\ paper' = [paper EXCEPT ![d] = row] /\ trail' = Recorded(d, "CREATED")
          /\ binaries' = binaries \cup {d} /\ links' = links /\ paper[d] = NoPaper
      BY <1>1, <2>1 DEF UploadDocument
    <3>3. trail[d].all = {}
      BY <3>2 DEF EvidenceInv, NoTrailYet
    <3>4. binaries' \subseteq Papers
      BY <3>2 DEF EvidenceInv, EvidenceTypes
    <3> HIDE DEF row
    <3> QED BY <3>1, <3>2, <3>3, <3>4, <1>0, PaperMoves
  <2>2. CASE ~whole
    BY <1>1, <2>2
       DEF UploadDocument, EvidenceInv, EvidenceTypes, EvidenceIsKept, NoTrailYet
  <2> QED BY <2>1, <2>2
<1>2. ASSUME NEW d \in Papers, NEW e \in Subjects, LinkEvidence(d, e) PROVE EvidenceInv'
  BY <1>0, <1>2, StampMoves DEF LinkEvidence, Stamps
<1>3. ASSUME NEW d \in Papers, NEW e \in Subjects, IssueWithEvidence(d, e)
      PROVE  EvidenceInv'
  <2>1. /\ links' = links \cup {<<d, e>>} /\ paper[d] # NoPaper
        /\ UNCHANGED <<binaries, paper, trail>>
    BY <1>3 DEF IssueWithEvidence
  <2>2. links \subseteq links' /\ links' \subseteq Papers \X Subjects
    BY <1>0, <2>1
  <2>3. EvidenceTypes' /\ NoTrailYet'
    BY <2>1, <2>2 DEF EvidenceInv, EvidenceTypes, NoTrailYet
  <2>4. \A l \in links' : paper'[l[1]] # NoPaper
    BY <2>1 DEF EvidenceInv, EvidenceIsKept
  <2>5. ASSUME NEW p \in Papers, paper[p] # NoPaper, "LINKED" \in paper[p].stamps
        PROVE  \E f \in Subjects : <<p, f>> \in links'
    BY <2>2, <2>5 DEF EvidenceInv, EvidenceIsKept
  <2> QED BY <2>1, <2>3, <2>4, <2>5 DEF EvidenceInv, EvidenceIsKept
<1>4. ASSUME NEW d \in Papers, NEW decision \in {"VERIFIED", "REJECTED"},
             VerifyEvidence(d, decision)
      PROVE  EvidenceInv'
  BY <1>0, <1>4, StampMoves DEF VerifyEvidence, Stamps
<1>5. ASSUME NEW d \in Papers, ArchiveEvidence(d) PROVE EvidenceInv'
  BY <1>0, <1>5, StampMoves DEF ArchiveEvidence, Stamps
<1>6. CASE UNCHANGED EvidenceVars
  BY <1>6 DEF EvidenceVars, EvidenceInv, EvidenceTypes, EvidenceIsKept, NoTrailYet
<1> QED BY <1>1, <1>2, <1>3, <1>4, <1>5, <1>6 DEF EvidenceNext

(* What is on record can be downloaded, and its custody events say what    *)
(* became of it, uploads that were cut short included.                     *)
THEOREM EvidenceKept == EvidenceSpec => [](EvidenceTypes /\ EvidenceIsKept)
<1>1. EvidenceSpec => []EvidenceInv
  BY EvidenceInitially, EvidenceStep, PTL DEF EvidenceSpec
<1> QED BY <1>1, PTL DEF EvidenceInv

-----------------------------------------------------------------------------
(* Sign-in. What the cache holds of a session was true when it was stored: *)
(* it is not revoked, and kept for at most CacheTtl after the session was  *)
(* valid and its user active.                                              *)

CacheIsRecent ==
  \A s \in SessionIds : cached[s] > 0 =>
    /\ login[s] # NoLogin /\ login[s].status = "LIVE"
    /\ cached[s] <= login[s].until + CacheTtl
    /\ cached[s] <= clock + CacheTtl
    /\ ~person.active => cached[s] <= person.since + CacheTtl
SignInInv == SignInTypes /\ CacheIsRecent

LEMMA SignInInitially == SignInInit => SignInInv
BY SignInAssumption
   DEF SignInInit, SignInInv, SignInTypes, CacheIsRecent, AttemptRow, Times

LEMMA CacheSuffices == SignInInv => SessionsAreCurrent
<1> SUFFICES ASSUME SignInInv, NEW s \in SessionIds, login[s] # NoLogin, Answered(s)
             PROVE  /\ login[s].status = "LIVE"
                    /\ clock <= login[s].until + CacheTtl
                    /\ ~person.active => clock <= person.since + CacheTtl
  BY DEF SessionsAreCurrent
<1>1. /\ login[s] \in LoginRow /\ cached[s] \in Nat /\ clock \in Nat
      /\ person.since \in Nat /\ login[s].until \in Nat /\ CacheTtl \in Nat
  BY SignInAssumption DEF SignInInv, SignInTypes, LoginRow, Times
<1>2. CASE InCache(s)
  BY <1>1, <1>2 DEF InCache, SignInInv, CacheIsRecent
<1>3. CASE Valid(s)
  BY <1>1, <1>3 DEF Valid
<1> QED BY <1>2, <1>3 DEF Answered

LEMMA SignInStep == SignInInv /\ [SignInNext]_SignInVars => SignInInv'
<1> SUFFICES ASSUME SignInInv, [SignInNext]_SignInVars PROVE SignInInv'
  OBVIOUS
<1> USE DEF SignInInv
<1>0. /\ clock \in 0..LastTick /\ LastTick \in Nat
      /\ RequestTtl \in Nat \ {0} /\ SessionTtl \in Nat \ {0} /\ CacheTtl \in Nat \ {0}
  BY SignInAssumption DEF SignInTypes
<1>t. clock + RequestTtl \in Times /\ clock + SessionTtl \in Times /\ clock + CacheTtl \in Times
  BY <1>0 DEF Times
<1>n. \A s \in SessionIds : cached[s] \in Nat /\ (login[s] # NoLogin => login[s].until \in Nat)
  BY <1>0 DEF SignInTypes, LoginRow, Times
<1>1. CASE Tick
  <2>1. SignInTypes'
    BY <1>0, <1>1 DEF Tick, SignInTypes
  <2> QED BY <2>1, <1>0, <1>1, <1>n DEF Tick, CacheIsRecent
<1>2. CASE ChangePerson
  <2>1. /\ person'.active = ~person.active /\ person'.since = clock
        /\ UNCHANGED <<clock, attempt, callback, login, cached>>
        /\ person' \in [active : BOOLEAN, since : 0..LastTick]
    BY <1>0, <1>2 DEF ChangePerson, SignInTypes
  <2> QED BY <2>1 DEF SignInTypes, CacheIsRecent
<1>3. CASE RestartServer
  BY <1>0, <1>3 DEF RestartServer, SignInTypes, CacheIsRecent, Times
<1>4. ASSUME NEW a \in Attempts,
             GetLoginUrl(a) \/ \E c \in Callbacks : BeginLogin(c, a)
      PROVE  SignInInv'
  <2>1. UNCHANGED <<clock, person, login, cached>>
    BY <1>4 DEF GetLoginUrl, BeginLogin
  <2>2. attempt' \in [Attempts -> AttemptRow] /\ callback' \in [Callbacks -> Attempts \cup {Free}]
    BY <1>t, <1>4 DEF GetLoginUrl, BeginLogin, SignInTypes, AttemptRow
  <2> QED BY <2>1, <2>2 DEF SignInTypes, CacheIsRecent
<1>5. ASSUME NEW c \in Callbacks, AbandonLogin(c) PROVE SignInInv'
  BY <1>5 DEF AbandonLogin, SignInTypes, CacheIsRecent
<1>6. ASSUME NEW s \in SessionIds, login[s] = NoLogin, UNCHANGED <<clock, person, cached>>,
             login' = [login EXCEPT ![s] = [status |-> "LIVE", until |-> clock + SessionTtl]],
             attempt' \in [Attempts -> AttemptRow],
             callback' \in [Callbacks -> Attempts \cup {Free}]
      PROVE  SignInInv'
  <2>1. [status |-> "LIVE", until |-> clock + SessionTtl] \in LoginRow
    BY <1>t DEF LoginRow
  <2>2. cached[s] = 0
    BY <1>6, <1>n DEF CacheIsRecent
  <2> QED BY <1>6, <2>1, <2>2 DEF SignInTypes, CacheIsRecent
<1>7. ASSUME NEW c \in Callbacks, NEW s \in SessionIds, CompleteLogin(c, s) PROVE SignInInv'
  <2>1. callback[c] \in Attempts
    BY <1>7 DEF CompleteLogin, SignInTypes
  <2>2. /\ attempt' \in [Attempts -> AttemptRow]
        /\ callback' \in [Callbacks -> Attempts \cup {Free}]
    BY <1>7, <2>1 DEF CompleteLogin, SignInTypes, AttemptRow
  <2> QED BY <1>6, <1>7, <2>2 DEF CompleteLogin
<1>8. ASSUME NEW s \in SessionIds, CreateDemoSession(s) PROVE SignInInv'
  BY <1>6, <1>8 DEF CreateDemoSession, SignInTypes
<1>9. ASSUME NEW s \in SessionIds, ReadSession(s) PROVE SignInInv'
  <2>1. /\ cached' = [cached EXCEPT ![s] = clock + CacheTtl]
        /\ UNCHANGED <<clock, person, attempt, callback, login>>
        /\ login[s] # NoLogin /\ login[s].status = "LIVE" /\ login[s].until > clock
        /\ person.active
    BY <1>9 DEF ReadSession, Valid
  <2>2. SignInTypes'
    BY <1>t, <2>1 DEF SignInTypes
  <2> QED BY <1>0, <1>n, <2>1, <2>2 DEF CacheIsRecent, SignInTypes
<1>10. ASSUME NEW s \in SessionIds, LogoutSession(s) PROVE SignInInv'
  <2>1. /\ login' = [login EXCEPT ![s].status = "REVOKED"] /\ cached' = [cached EXCEPT ![s] = 0]
        /\ UNCHANGED <<clock, person, attempt, callback>> /\ login[s] \in LoginRow
    BY <1>10 DEF LogoutSession, SignInTypes
  <2>2. SignInTypes'
    BY <1>0, <2>1 DEF SignInTypes, LoginRow, Times
  <2> QED BY <2>1, <2>2 DEF CacheIsRecent, SignInTypes
<1>11. CASE UNCHANGED SignInVars
  BY <1>11 DEF SignInVars, SignInTypes, CacheIsRecent
<1> QED
  BY <1>1, <1>2, <1>3, <1>4, <1>5, <1>7, <1>8, <1>9, <1>10, <1>11 DEF SignInNext

(* A session that was logged out is never answered, and one that expired   *)
(* or whose user was disabled for no longer than the cache keeps it, for   *)
(* any lifetimes.                                                          *)
THEOREM SessionsCurrent == SignInSpec => [](SignInTypes /\ SessionsAreCurrent)
<1>1. SignInSpec => []SignInInv
  BY SignInInitially, SignInStep, PTL DEF SignInSpec
<1>2. SignInInv => SignInTypes /\ SessionsAreCurrent
  BY CacheSuffices DEF SignInInv
<1> QED BY <1>1, <1>2, PTL

-----------------------------------------------------------------------------
(* Access reviews. A review cut short while it was made has more entries   *)
(* on its row than it has: what its entries come to never reaches them.    *)

ReviewRowOK(row) ==
  /\ Cardinality(row.entries) <= row.total
  /\ row.status = "NONE" =>
       row.decision = [u \in Staff |-> Open] /\ row.reviewed = 0 /\ row.revoked = 0
  /\ row.status = "COMPLETED" => Decided(row) = row.entries /\ AddsUp(row)
  /\ halts = 0 /\ row.status = "IN_PROGRESS" => Decided(row) # row.entries /\ AddsUp(row)
ReviewInv == ReviewTypes /\ \A r \in Reviews : ReviewRowOK(access[r])

LEMMA ReviewInitially == ReviewInit => ReviewInv
<1> SUFFICES ASSUME ReviewInit PROVE ReviewInv
  OBVIOUS
<1>1. ReviewTypes
  BY ReviewAssumption DEF ReviewInit, ReviewTypes, AccessRow
<1>2. ASSUME NEW r \in Reviews PROVE ReviewRowOK(access[r])
  <2>1. /\ access[r].status = "NONE" /\ access[r].entries = {} /\ access[r].total = 0
        /\ access[r].reviewed = 0 /\ access[r].revoked = 0
        /\ access[r].decision = [u \in Staff |-> Open]
    BY DEF ReviewInit
  <2> QED BY <2>1, FS_EmptySet DEF ReviewRowOK
<1> QED BY <1>1, <1>2 DEF ReviewInv

(* The entries of a review, and those of them that are decided, are finite. *)
LEMMA EntriesFinite ==
  ASSUME NEW row \in AccessRow
  PROVE  /\ IsFiniteSet(row.entries) /\ Cardinality(row.entries) \in Nat
         /\ Cardinality(Decided(row)) \in Nat /\ Cardinality(Revoked(row)) \in Nat
         /\ Cardinality(Decided(row)) <= Cardinality(row.entries)
         /\ Cardinality(row.entries) = Cardinality(Decided(row))
              => Decided(row) = row.entries
<1>1. IsFiniteSet(row.entries)
  BY ReviewAssumption, FS_Subset DEF AccessRow
<1>2. Decided(row) \in SUBSET row.entries /\ Revoked(row) \in SUBSET row.entries
  BY DEF Decided, Revoked
<1>3. IsFiniteSet(Decided(row)) /\ IsFiniteSet(Revoked(row))
  BY <1>1, <1>2, FS_Subset
<1> QED BY <1>1, <1>2, <1>3, FS_Subset, FS_CardinalityType

(* A review that is made, whole or in part.                                *)
LEMMA ReviewMade ==
  ASSUME ReviewInv, NEW r \in Reviews, NEW people \in SUBSET Staff,
         CreateAccessReview(r, people)
  PROVE  ReviewInv'
<1>1. PICK entries \in SUBSET people :
        /\ access' = [access EXCEPT ![r].status = "IN_PROGRESS",
                                    ![r].total = Cardinality(people),
                                    ![r].entries = entries]
        /\ IF entries = people THEN ToTheEnd ELSE CutShort
  BY DEF CreateAccessReview
<1>2. /\ access[r] \in AccessRow /\ halts \in 0..MaxHalts /\ MaxHalts \in Nat
      /\ access[r].decision = [u \in Staff |-> Open]
      /\ access[r].reviewed = 0 /\ access[r].revoked = 0 /\ people # {}
  BY ReviewAssumption DEF ReviewInv, ReviewTypes, ReviewRowOK, CreateAccessReview
<1>3. IsFiniteSet(people) /\ Cardinality(people) \in Nat
  BY ReviewAssumption, FS_Subset, FS_CardinalityType
<1>4. Cardinality(entries) <= Cardinality(people)
  BY <1>3, FS_Subset
<1>5. halts' \in 0..MaxHalts /\ (halts' = 0 => halts = 0 /\ entries = people)
  BY <1>1, <1>2 DEF ToTheEnd, CutShort
<1>6. access'[r] = [access[r] EXCEPT !.status = "IN_PROGRESS",
                                     !.total = Cardinality(people), !.entries = entries]
  BY <1>1 DEF ReviewInv, ReviewTypes
<1>7. access'[r] \in AccessRow
  BY <1>2, <1>3, <1>6 DEF AccessRow
<1>8. ReviewTypes'
  BY <1>1, <1>5, <1>6, <1>7 DEF ReviewInv, ReviewTypes
<1>9. Decided(access'[r]) = {} /\ Revoked(access'[r]) = {}
  BY <1>2, <1>6 DEF Decided, Revoked, AccessRow, Open
<1>10. ReviewRowOK(access[r])'
  <2>1. access'[r].total = Cardinality(people) /\ access'[r].entries = entries
        /\ access'[r].status = "IN_PROGRESS"
        /\ access'[r].reviewed = 0 /\ access'[r].revoked = 0
    BY <1>2, <1>6 DEF AccessRow
  <2>2. AddsUp(access'[r]) \/ entries # people
    BY <1>9, <2>1, FS_EmptySet DEF AddsUp
  <2> QED BY <1>2, <1>4, <1>5, <1>9, <2>1, <2>2 DEF ReviewRowOK, AddsUp
<1>11. ASSUME NEW q \in Reviews, q # r PROVE ReviewRowOK(access[q])'
  <2>1. access'[q] = access[q] /\ ReviewRowOK(access[q])
    BY <1>1, <1>11 DEF ReviewInv, ReviewTypes
  <2> QED BY <1>5, <2>1 DEF ReviewRowOK, AddsUp, Decided, Revoked
<1> QED BY <1>8, <1>10, <1>11 DEF ReviewInv

(* A row whose entries were counted says what they say.                    *)
LEMMA CountedAddsUp ==
  ASSUME NEW row \in AccessRow, Cardinality(row.entries) <= row.total
  PROVE  /\ Counted(row) \in AccessRow
         /\ Counted(row).status = "COMPLETED"
              => Decided(Counted(row)) = row.entries /\ AddsUp(Counted(row))
         /\ Counted(row).status = "IN_PROGRESS" /\ row.total = Cardinality(row.entries)
              => Decided(Counted(row)) # row.entries /\ AddsUp(Counted(row))
         /\ Counted(row).status # "NONE"
         /\ Counted(row).entries = row.entries /\ Counted(row).total = row.total
<1> DEFINE c == Counted(row)
<1>1. /\ c.reviewed = Cardinality(Decided(row)) /\ c.revoked = Cardinality(Revoked(row))
      /\ c.entries = row.entries /\ c.total = row.total /\ c.decision = row.decision
      /\ c.status = IF Cardinality(Decided(row)) >= row.total THEN "COMPLETED"
                    ELSE "IN_PROGRESS"
  BY DEF Counted, AccessRow
<1>2. c \in AccessRow
  BY EntriesFinite DEF Counted, AccessRow
<1>3. Decided(c) = Decided(row) /\ Revoked(c) = Revoked(row)
  BY <1>1 DEF Decided, Revoked
<1>4. row.total \in Nat
  BY DEF AccessRow
<1>5. ASSUME c.status = "COMPLETED"
      PROVE  Decided(c) = row.entries /\ c.total = Cardinality(c.entries)
  <2>1. Cardinality(Decided(row)) >= row.total
    BY <1>1, <1>5
  <2>2. Cardinality(row.entries) = Cardinality(Decided(row))
        /\ Cardinality(row.entries) = row.total
    BY <1>4, <2>1, EntriesFinite
  <2> QED BY <1>1, <1>3, <2>2, EntriesFinite
<1>6. ASSUME c.status = "IN_PROGRESS", row.total = Cardinality(row.entries)
      PROVE  Decided(c) # row.entries
  <2>1. ~(Cardinality(Decided(row)) >= row.total)
    BY <1>1, <1>6
  <2> QED BY <1>3, <1>4, <1>6, <2>1
<1>7. c.status # "NONE"
  BY <1>1
<1> HIDE DEF c
<1> QED BY <1>1, <1>2, <1>3, <1>5, <1>6, <1>7 DEF AddsUp, c

(* An entry that is decided, and the review counted or not.                *)
LEMMA EntryDecided ==
  ASSUME ReviewInv, NEW r \in Reviews, NEW u \in Staff, NEW decision \in Decisions,
         ReviewAccessEntry(r, u, decision)
  PROVE  ReviewInv'
<1> DEFINE written == [access[r] EXCEPT !.decision[u] = decision]
<1>1. /\ access[r] \in AccessRow /\ halts \in 0..MaxHalts /\ MaxHalts \in Nat
      /\ access[r].status = "IN_PROGRESS" /\ ReviewRowOK(access[r])
  BY ReviewAssumption DEF ReviewInv, ReviewTypes, ReviewAccessEntry
<1>2. /\ written \in AccessRow /\ written.status = "IN_PROGRESS"
      /\ written.entries = access[r].entries /\ written.total = access[r].total
  BY <1>1 DEF AccessRow
<1>3. /\ Cardinality(written.entries) <= written.total
      /\ halts = 0 => written.total = Cardinality(written.entries)
  BY <1>1, <1>2 DEF ReviewRowOK, AddsUp
<1>4. \/ access' = [access EXCEPT ![r] = Counted(written)] /\ UNCHANGED halts
      \/ access' = [access EXCEPT ![r] = written] /\ halts' = halts + 1 /\ halts < MaxHalts
  BY DEF ReviewAccessEntry, ToTheEnd, CutShort
<1>5. halts' \in 0..MaxHalts /\ (halts' = 0 => halts = 0)
  BY <1>1, <1>4
<1> HIDE DEF written
<1>6. access'[r] \in AccessRow /\ ReviewRowOK(access[r])'
  <2>1. CASE access' = [access EXCEPT ![r] = Counted(written)] /\ UNCHANGED halts
    <3>1. access'[r] = Counted(written)
      BY <2>1 DEF ReviewInv, ReviewTypes
    <3> QED BY <1>2, <1>3, <2>1, <3>1, CountedAddsUp DEF ReviewRowOK
  <2>2. CASE access' = [access EXCEPT ![r] = written] /\ halts' = halts + 1
    <3>1. access'[r] = written /\ halts' # 0
      BY <1>1, <2>2 DEF ReviewInv, ReviewTypes
    <3> QED BY <1>2, <1>3, <3>1 DEF ReviewRowOK
  <2> QED BY <1>4, <2>1, <2>2
<1>7. ReviewTypes'
  BY <1>4, <1>5, <1>6 DEF ReviewInv, ReviewTypes
<1>8. ASSUME NEW q \in Reviews, q # r PROVE ReviewRowOK(access[q])'
  <2>1. access'[q] = access[q] /\ ReviewRowOK(access[q])
    BY <1>4, <1>8 DEF ReviewInv, ReviewTypes
  <2> QED BY <1>5, <2>1 DEF ReviewRowOK, AddsUp, Decided, Revoked
<1> QED BY <1>6, <1>7, <1>8 DEF ReviewInv

LEMMA ReviewStep == ReviewInv /\ [ReviewNext]_ReviewVars => ReviewInv'
<1> SUFFICES ASSUME ReviewInv, [ReviewNext]_ReviewVars PROVE ReviewInv'
  OBVIOUS
<1>1. ASSUME NEW r \in Reviews, NEW people \in SUBSET Staff, CreateAccessReview(r, people)
      PROVE  ReviewInv'
  BY <1>1, ReviewMade
<1>2. ASSUME NEW r \in Reviews, NEW u \in Staff, NEW decision \in Decisions,
             ReviewAccessEntry(r, u, decision)
      PROVE  ReviewInv'
  BY <1>2, EntryDecided
<1>3. CASE UNCHANGED ReviewVars
  <2>1. access' = access /\ halts' = halts
    BY <1>3 DEF ReviewVars
  <2>2. ReviewTypes'
    BY <2>1 DEF ReviewInv, ReviewTypes
  <2>3. ASSUME NEW r \in Reviews PROVE ReviewRowOK(access[r])'
    <3>1. access'[r] = access[r] /\ ReviewRowOK(access[r])
      BY <2>1 DEF ReviewInv
    <3> QED BY <2>1, <3>1 DEF ReviewRowOK, AddsUp, Decided, Revoked
  <2> QED BY <2>2, <2>3 DEF ReviewInv
<1> QED BY <1>1, <1>2, <1>3 DEF ReviewNext

LEMMA ReviewSuffices == ReviewInv => ReviewTypes /\ ReviewIsHonest
BY DEF ReviewInv, ReviewRowOK, ReviewIsHonest

(* A review is completed only when everybody on it was decided on, for any *)
(* number of users and of handlers cut short.                              *)
THEOREM ReviewsHonest == ReviewSpec => [](ReviewTypes /\ ReviewIsHonest)
BY ReviewInitially, ReviewStep, ReviewSuffices, PTL DEF ReviewSpec

-----------------------------------------------------------------------------
(* The back office. Each desk keeps its own invariant, the desks at rest    *)
(* keep theirs because no other handler writes under the reference that    *)
(* their rows are compared with, and all of them keep the book.            *)

\* The desks that look at their own rows alone.
RowDesks ==
  AssetInv /\ ExportInv /\ SourcingInv /\ EvidenceInv /\ ReviewInv /\ SignInInv
\* The desks that write stock.
StockDesks ==
  /\ ReceivingInv /\ CountInv /\ CountStockInv
  /\ OfflineRowTypes /\ Accounted(offline) /\ SyncRowTypes
Kept == StockTypes /\ (NoCountPosted => Book(bal, moved))
BackOfficeInv == desk \in Desks /\ RowDesks /\ StockDesks /\ Kept

LEMMA BackOfficeInitially == BackOfficeInit => BackOfficeInv
<1> SUFFICES ASSUME BackOfficeInit PROVE BackOfficeInv
  OBVIOUS
<1>1. RowDesks
  BY AssetInitially, ExportInitially, SourcingInitially, EvidenceInitially, ReviewInitially,
     SignInInitially DEF BackOfficeInit, RowDesks
<1>2. /\ ReceivingInv /\ CountInv /\ CountStockInv
      /\ OfflineRowTypes /\ Accounted(offline)
  BY ReceivingInitially, CountInitially, CountStockInitially, OfflineInitially DEF BackOfficeInit
<1>3. SyncRowTypes
  BY DEF BackOfficeInit, SyncInit, SyncRowTypes
<1>4. Kept
  BY StockInitially DEF BackOfficeInit, SyncInit, Kept
<1> QED BY <1>1, <1>2, <1>3, <1>4 DEF BackOfficeInv, BackOfficeInit, StockDesks

\* A step that is taken elsewhere is, for a desk with rows of its own, none.
LEMMA RowDesksStep ==
  ASSUME RowDesks, [BackOfficeNext]_BackOfficeVars
  PROVE  RowDesks'
<1>1. [AssetNext]_AssetVars
  BY DEF BackOfficeNext, BackOfficeVars, AtCustody, AtReceiving, AtCounting, AtOffline, AtSync,
         AtFinance, AtSourcing, AtEvidence, AtReview, AtDoor, CustodyRows, AssetVars
<1>2. [ExportNext]_ExportVars
  BY DEF BackOfficeNext, BackOfficeVars, AtCustody, AtReceiving, AtCounting, AtOffline, AtSync,
         AtFinance, AtSourcing, AtEvidence, AtReview, AtDoor, ExportRows, ExportVars
<1>3. [SourcingNext]_SourcingVars
  BY DEF BackOfficeNext, BackOfficeVars, AtCustody, AtReceiving, AtCounting, AtOffline, AtSync,
         AtFinance, AtSourcing, AtEvidence, AtReview, AtDoor, SourcingRows, SourcingVars
<1>4. [EvidenceNext]_EvidenceVars
  BY DEF BackOfficeNext, BackOfficeVars, AtCustody, AtReceiving, AtCounting, AtOffline, AtSync,
         AtFinance, AtSourcing, AtEvidence, AtReview, AtDoor, EvidenceRows, EvidenceVars
<1>5. [ReviewNext]_ReviewVars
  BY DEF BackOfficeNext, BackOfficeVars, AtCustody, AtReceiving, AtCounting, AtOffline, AtSync,
         AtFinance, AtSourcing, AtEvidence, AtReview, AtDoor, ReviewRows, ReviewVars
<1>6. [SignInNext]_SignInVars
  BY DEF BackOfficeNext, BackOfficeVars, AtCustody, AtReceiving, AtCounting, AtOffline, AtSync,
         AtFinance, AtSourcing, AtEvidence, AtReview, AtDoor, DoorRows, SignInVars
<1>7. /\ AssetInv /\ ExportInv /\ SourcingInv /\ EvidenceInv /\ ReviewInv /\ SignInInv
  BY DEF RowDesks
<1>8. AssetInv' /\ ExportInv' /\ SourcingInv'
  BY <1>1, <1>2, <1>3, <1>7, AssetStep, ExportStep, SourcingStep
<1>9. EvidenceInv' /\ ReviewInv' /\ SignInInv'
  BY <1>4, <1>5, <1>6, <1>7, EvidenceStep, ReviewStep, SignInStep
<1> QED BY <1>8, <1>9 DEF RowDesks

\* What is left of each stock desk while another is at work.
LEMMA ReceivingRests ==
  ASSUME ReceivingInv, order' = order, tally' = tally, session' = session,
         moved'["receive_session"] = moved["receive_session"]
  PROVE  ReceivingInv'
<1>1. session' \in [Sessions -> SessionRow]
  BY DEF ReceivingInv, ReceivingRowTypes
<1>2. AbsentLinesEmpty'
  BY DEF ReceivingInv, AbsentLinesEmpty
<1> QED BY <1>1, <1>2, ReceivingStays

LEMMA CountRests ==
  ASSUME CountInv, plan' = plan, count' = count, variance' = variance
  PROVE  CountInv' /\ NoCountPosted' = NoCountPosted
BY DEF CountInv, CountShape, CountIsDecided, NoCountPosted

LEMMA CountStockRests ==
  ASSUME CountStockInv, plan' = plan, count' = count, variance' = variance,
         moved'["cycle_count_session"] = moved["cycle_count_session"]
  PROVE  CountStockInv'
<1>1. CountRowTypes'
  BY DEF CountStockInv, CountRowTypes
<1>2. CountIsExplained'
  BY ExplainedStays DEF CountStockInv
<1> QED BY <1>1, <1>2 DEF CountStockInv

LEMMA OfflineRests ==
  ASSUME OfflineRowTypes, Accounted(offline), trust' = trust, offline' = offline
  PROVE  OfflineRowTypes' /\ Accounted(offline')
BY DEF OfflineRowTypes

LEMMA SyncRests ==
  ASSUME SyncRowTypes, review' = review, conflict' = conflict
  PROVE  SyncRowTypes'
BY DEF SyncRowTypes

LEMMA StockDesksStep ==
  ASSUME StockDesks, Kept, [BackOfficeNext]_BackOfficeVars
  PROVE  StockDesks' /\ Kept'
<1>0. /\ ReceivingInv /\ CountInv /\ CountStockInv
      /\ OfflineRowTypes /\ Accounted(offline) /\ SyncRowTypes
      /\ StockTypes /\ (NoCountPosted => Book(bal, moved))
  BY DEF StockDesks, Kept
<1> DEFINE Goal == StockDesks' /\ Kept'
<1>1. CASE AtReceiving
  <2>1. /\ [ReceivingNext]_ReceivingVars /\ plan' = plan /\ count' = count /\ variance' = variance
        /\ trust' = trust /\ offline' = offline /\ review' = review /\ conflict' = conflict
    BY <1>1 DEF AtReceiving, CountRows, OfflineRows, SyncRows
  <2>2. /\ ReceivingInv' /\ StockTypes' /\ (Book(bal, moved) => Book(bal', moved'))
        /\ moved'["cycle_count_session"] = moved["cycle_count_session"]
    BY <1>0, <2>1, ReceivingStep
  <2>3. CountInv' /\ NoCountPosted' = NoCountPosted /\ CountStockInv'
    BY <1>0, <2>1, <2>2, CountRests, CountStockRests
  <2>4. OfflineRowTypes' /\ Accounted(offline') /\ SyncRowTypes'
    BY <1>0, <2>1, OfflineRests, SyncRests
  <2> QED BY <1>0, <2>2, <2>3, <2>4 DEF StockDesks, Kept
<1>2. CASE AtCounting
  <2>1. /\ [CountNext]_CountVars /\ order' = order /\ tally' = tally /\ session' = session
        /\ trust' = trust /\ offline' = offline /\ review' = review /\ conflict' = conflict
    BY <1>2 DEF AtCounting, ReceivingRows, OfflineRows, SyncRows
  <2>2. /\ CountStockInv' /\ StockTypes' /\ moved'["receive_session"] = moved["receive_session"]
        /\ NoCountPosted' => NoCountPosted /\ (Book(bal, moved) => Book(bal', moved'))
    BY <1>0, <2>1, CountStockStep
  <2>3. CountInv'
    BY <1>0, <2>1, CountStep
  <2>4. ReceivingInv'
    BY <1>0, <2>1, <2>2, ReceivingRests
  <2>5. OfflineRowTypes' /\ Accounted(offline') /\ SyncRowTypes'
    BY <1>0, <2>1, OfflineRests, SyncRests
  <2> QED BY <1>0, <2>2, <2>3, <2>4, <2>5 DEF StockDesks, Kept
<1>3. CASE AtOffline
  <2>1. /\ [OfflineNext]_OfflineVars /\ order' = order /\ tally' = tally /\ session' = session
        /\ plan' = plan /\ count' = count /\ variance' = variance
        /\ review' = review /\ conflict' = conflict
    BY <1>3 DEF AtOffline, ReceivingRows, CountRows, SyncRows
  <2>2. /\ OfflineRowTypes' /\ Accounted(offline') /\ StockTypes'
        /\ (Book(bal, moved) => Book(bal', moved'))
        /\ moved'["receive_session"] = moved["receive_session"]
        /\ moved'["cycle_count_session"] = moved["cycle_count_session"]
    BY <1>0, <2>1, OfflineStep
  <2>3. CountInv' /\ NoCountPosted' = NoCountPosted /\ CountStockInv'
    BY <1>0, <2>1, <2>2, CountRests, CountStockRests
  <2>4. ReceivingInv' /\ SyncRowTypes'
    BY <1>0, <2>1, <2>2, ReceivingRests, SyncRests
  <2> QED BY <1>0, <2>2, <2>3, <2>4 DEF StockDesks, Kept
<1>4. CASE AtSync
  <2>1. /\ [SyncNext]_SyncVars /\ order' = order /\ tally' = tally /\ session' = session
        /\ plan' = plan /\ count' = count /\ variance' = variance
        /\ trust' = trust /\ offline' = offline
    BY <1>4 DEF AtSync, ReceivingRows, CountRows, OfflineRows
  <2>2. /\ SyncRowTypes' /\ StockTypes' /\ (Book(bal, moved) => Book(bal', moved'))
        /\ moved'["receive_session"] = moved["receive_session"]
        /\ moved'["cycle_count_session"] = moved["cycle_count_session"]
    BY <1>0, <2>1, SyncStep
  <2>3. CountInv' /\ NoCountPosted' = NoCountPosted /\ CountStockInv'
    BY <1>0, <2>1, <2>2, CountRests, CountStockRests
  <2>4. ReceivingInv' /\ OfflineRowTypes' /\ Accounted(offline')
    BY <1>0, <2>1, <2>2, ReceivingRests, OfflineRests
  <2> QED BY <1>0, <2>2, <2>3, <2>4 DEF StockDesks, Kept
<1>5. CASE \/ AtCustody \/ AtFinance \/ AtSourcing \/ AtEvidence \/ AtReview \/ AtDoor
           \/ UNCHANGED BackOfficeVars
  <2>1. /\ order' = order /\ tally' = tally /\ session' = session
        /\ plan' = plan /\ count' = count /\ variance' = variance
        /\ trust' = trust /\ offline' = offline /\ review' = review /\ conflict' = conflict
        /\ bal' = bal /\ moved' = moved
    BY <1>5 DEF AtCustody, AtFinance, AtSourcing, AtEvidence, AtReview, AtDoor, BackOfficeVars,
                ReceivingRows, CountRows, OfflineRows, SyncRows, StockVars
  <2>2. CountInv' /\ NoCountPosted' = NoCountPosted /\ CountStockInv'
    BY <1>0, <2>1, CountRests, CountStockRests
  <2>3. ReceivingInv' /\ OfflineRowTypes' /\ Accounted(offline') /\ SyncRowTypes'
    BY <1>0, <2>1, ReceivingRests, OfflineRests, SyncRests
  <2>4. StockTypes'
    BY <1>0, <2>1 DEF StockTypes
  <2> QED BY <1>0, <2>1, <2>2, <2>3, <2>4 DEF StockDesks, Kept
<1> QED BY <1>1, <1>2, <1>3, <1>4, <1>5 DEF BackOfficeNext

LEMMA BackOfficeStep == BackOfficeInv /\ [BackOfficeNext]_BackOfficeVars => BackOfficeInv'
<1> SUFFICES ASSUME BackOfficeInv, [BackOfficeNext]_BackOfficeVars PROVE BackOfficeInv'
  OBVIOUS
<1>1. desk' = desk
  BY DEF BackOfficeNext, BackOfficeVars, AtCustody, AtReceiving, AtCounting, AtOffline, AtSync,
         AtFinance, AtSourcing, AtEvidence, AtReview, AtDoor
<1> QED BY <1>1, RowDesksStep, StockDesksStep DEF BackOfficeInv

(* The invariant of the composition: each desk's own, and the book of stock. *)
THEOREM BackOfficeInvariant == BackOfficeSpec => []BackOfficeInv
BY BackOfficeInitially, BackOfficeStep, PTL DEF BackOfficeSpec

(* The rows of all ten desks, and of the stock that four of them write, are *)
(* of their types.                                                         *)
THEOREM DesksTyped == BackOfficeSpec => []DesksTypeOK
<1>1. BackOfficeInv => DesksTypeOK
  <2> SUFFICES ASSUME BackOfficeInv PROVE DesksTypeOK
    OBVIOUS
  <2>1. /\ AssetTypeOK /\ ExportTypes /\ SourcingTypes /\ EvidenceTypes /\ ReviewTypes
        /\ SignInTypes
    BY DEF BackOfficeInv, RowDesks, AssetInv, AssetTypeOK, ExportInv, SourcingInv,
           EvidenceInv, ReviewInv, SignInInv
  <2>2. ReceivingTypes /\ CountTypes /\ OfflineTypes /\ SyncTypes
    BY DEF BackOfficeInv, StockDesks, Kept, ReceivingInv, ReceivingRowTypes, ReceivingTypes,
           CountStockInv, CountRowTypes, CountTypes, OfflineRowTypes, BatchRows, OfflineTypes,
           SyncRowTypes, SyncTypes
  <2> QED BY <2>1, <2>2 DEF BackOfficeInv, DesksTypeOK
<1> QED BY <1>1, BackOfficeInvariant, PTL

(* Receiving, offline work, sync batches and hand adjustments write one     *)
(* stock, and until a count is posted every bin is what its movements say; *)
(* those of counts are what the posted variances say at all times.         *)
THEOREM StockExplained == BackOfficeSpec => []StockIsExplained
<1>1. BackOfficeInv => StockIsExplained
  BY BookMeans DEF BackOfficeInv, StockDesks, Kept, CountStockInv, StockIsExplained
<1> QED BY <1>1, BackOfficeInvariant, PTL

(* Each desk's own property holds with the nine others beside it.          *)
THEOREM DesksSound ==
  BackOfficeSpec => [](/\ StatusIsBacked /\ DisposalIsSound /\ ReceiptsAgree /\ CountIsDecided
                       /\ SkippedWasApplied /\ ExportsAgree /\ AwardStands /\ EvidenceIsKept
                       /\ ReviewIsHonest /\ SessionsAreCurrent)
<1> DEFINE Claims == /\ StatusIsBacked /\ DisposalIsSound /\ ReceiptsAgree /\ CountIsDecided
                     /\ SkippedWasApplied /\ ExportsAgree /\ AwardStands /\ EvidenceIsKept
                     /\ ReviewIsHonest /\ SessionsAreCurrent
<1>1. BackOfficeInv => Claims
  <2> SUFFICES ASSUME BackOfficeInv PROVE Claims
    OBVIOUS
  <2>1. AssetInv /\ ExportInv /\ SourcingInv /\ EvidenceInv /\ ReviewInv /\ SignInInv
    BY DEF BackOfficeInv, RowDesks
  <2>2. StatusIsBacked /\ DisposalIsSound
    BY <2>1, AssetSuffices
  <2>3. ReceiptsAgree /\ CountIsDecided /\ SkippedWasApplied
    BY DEF BackOfficeInv, StockDesks, ReceivingInv, CountInv, Accounted, Skipped, WorkDone,
           SkippedWasApplied
  <2>4. ExportsAgree /\ AwardStands /\ EvidenceIsKept
    BY <2>1 DEF ExportInv, SourcingInv, EvidenceInv
  <2>5. ReviewIsHonest /\ SessionsAreCurrent
    BY <2>1, ReviewSuffices, CacheSuffices
  <2> QED BY <2>2, <2>3, <2>4, <2>5
<1> QED BY <1>1, BackOfficeInvariant, PTL
=============================================================================
