------------------------- MODULE ScanLifecycleProofs -------------------------
(***************************************************************************)
(* Proofs about ScanLifecycle, for any number of callers, commits, scans   *)
(* and faults: the types, that git, scans and refreshes run one at a time, *)
(* that no label is ahead of what was read, that every row left 'running'  *)
(* has a fault of its own, and what a failed scan keeps.                   *)
(***************************************************************************)
EXTENDS ScanLifecycle, FiniteSetTheorems, TLAPS

-----------------------------------------------------------------------------
(* The types, by the parts of the state *)

Answers == Commits \cup {Failed}

TreeOK == remote \in Commits \ {0} /\ tree \in Commits

StoredRows == [status : {"running", "ok", "error"}, commit : Commits]

RowsOK ==
    /\ rows \in Seq(StoredRows)
    /\ repo \in [status : {"configured", "ok", "error"}, commit : Commits]

ServicesOK == found \in Inventories /\ hosts \in Inventories /\ entry \in Inventories

CallersOK ==
    /\ pc \in [Callers -> Places]
    /\ got \in [Callers -> Answers] /\ seen \in [Callers -> Answers]
    /\ copy \in [Callers -> Inventories]

ProcessOK ==
    /\ phase \in {"boot", "up", "stopping"}
    /\ syncing \subseteq Callers /\ scanning \subseteq Scanners /\ refreshing \subseteq Pingers
    /\ faults \in 0..MaxFaults

\* TypeOK says of each part what it must.
LEMMA TypeParts == TypeOK <=> TreeOK /\ RowsOK /\ ServicesOK /\ CallersOK /\ ProcessOK
BY DEF TypeOK, TreeOK, RowsOK, StoredRows, ServicesOK, CallersOK, Answers, ProcessOK

\* Commits are numbers, and Failed is none of them.
LEMMA CommitFacts ==
    /\ Commits \subseteq Nat /\ 0 \in Commits
    /\ Failed \in Nat /\ Failed \notin Commits
    /\ \A c \in Commits : c < Failed
BY CommitAssumption DEF Commits, Failed

\* Services that were read are of the type that is stored.
LEMMA ServicesType ==
    ASSUME NEW content \in Commits, NEW label \in Commits
    PROVE  Services(content, label) \in Inventories /\ NoServices \in Inventories
BY CommitFacts DEF Services, NoServices, Inventories

-----------------------------------------------------------------------------
(* What the helpers of the actions do *)

\* A caller that rests has nothing in hand; the others have what they had.
LEMMA RestEffect ==
    ASSUME CallersOK, NEW c \in Callers, Rest(c)
    PROVE  /\ got' \in [Callers -> Answers] /\ seen' \in [Callers -> Answers]
           /\ copy' \in [Callers -> Inventories]
           /\ got'[c] = 0 /\ seen'[c] = 0
           /\ \A d \in Callers : d # c => got'[d] = got[d] /\ seen'[d] = seen[d] /\ copy'[d] = copy[d]
<1>1. 0 \in Answers /\ NoServices \in Inventories
  BY CommitFacts, ServicesType DEF Answers
<1> QED  BY <1>1 DEF CallersOK, Rest

\* When memory is gone every caller is idle, and no flight is left.
LEMMA ResetEffect ==
    ASSUME Reset
    PROVE  /\ pc' = [c \in Callers |-> "idle"] /\ got' = [c \in Callers |-> 0]
           /\ seen' = [c \in Callers |-> 0] /\ copy' = [c \in Callers |-> NoServices]
           /\ syncing' = {} /\ scanning' = {} /\ refreshing' = {}
           /\ entry' = NoServices /\ phase' = "boot"
BY DEF Reset

\* A fault is counted up to its bound.
LEMMA FaultEffect ==
    ASSUME ProcessOK, Fault \/ FaultOrCancelled \/ UNCHANGED faults
    PROVE  faults' \in 0..MaxFaults /\ faults <= faults' /\ (Fault => faults' = faults + 1)
BY ScanBoundAssumption DEF ProcessOK, Fault, FaultOrCancelled

\* An answer reaches those who wait for it.
LEMMA AnswerEffect ==
    ASSUME CallersOK, NEW c \in Callers, NEW result \in Answers, Answer(c, result)
    PROVE  /\ got' \in [Callers -> Answers]
           /\ \A d \in Callers : got'[d] = got[d] \/ (pc[d] = "sync" /\ got'[d] = result)
           /\ syncing' = syncing \ {c}
BY DEF CallersOK, Answer

-----------------------------------------------------------------------------
(* Who changes what *)

\* The remote and the working tree.
LEMMA TreeFrame ==
    ASSUME [Next]_vars
    PROVE  \/ UNCHANGED <<remote, tree>>
           \/ Push
           \/ \E c \in Callers : SyncOk(c) \/ SyncFail(c)
BY DEF Next, vars, stored, local, flights, ScanStep, PingStep, Interrupted, RequestScan, Parse, FinishOk,
       FinishError, FinishFails, EndScan, LeaveScan, Ask, UseEntry, StartRefresh, AskCommit, ReadInventory,
       StoreHosts, FinishRefresh, BootFails, Prune, Stop, Exit, Crash

\* The rows of the scans and that of the repository.
LEMMA RowsFrame ==
    ASSUME [Next]_vars
    PROVE  \/ UNCHANGED <<rows, repo>>
           \/ Prune
           \/ \E s \in Scanners : RequestScan(s) \/ FinishOk(s) \/ FinishError(s)
BY DEF Next, vars, stored, local, flights, ScanStep, PingStep, Push, SyncOk, SyncFail, Answer, Interrupted,
       Parse, FinishFails, EndScan, LeaveScan, Ask, UseEntry, StartRefresh, AskCommit, ReadInventory,
       StoreHosts, FinishRefresh, BootFails, Stop, Exit, Crash

\* The stored services and the cached inventory.
LEMMA ServicesFrame ==
    ASSUME [Next]_vars
    PROVE  \/ UNCHANGED <<found, hosts, entry>>
           \/ \E s \in Scanners : FinishOk(s)
           \/ \E p \in Pingers : StoreHosts(p) \/ FinishRefresh(p)
           \/ UNCHANGED <<found, hosts>> /\ Reset
BY DEF Next, vars, stored, local, flights, ScanStep, PingStep, Push, SyncOk, SyncFail, Answer, Interrupted,
       RequestScan, Parse, FinishError, FinishFails, EndScan, LeaveScan, Ask, UseEntry, StartRefresh,
       AskCommit, ReadInventory, BootFails, Prune, Stop, Exit, Crash

-----------------------------------------------------------------------------
(* Type correctness *)

\* Commits are pushed one by one, and the working tree moves to what the remote has.
LEMMA StepTree == ASSUME TreeOK, [Next]_vars PROVE TreeOK'
<1>1. CASE Push  BY <1>1, CommitAssumption DEF Push, TreeOK, Commits
<1>2. ASSUME NEW c \in Callers, SyncOk(c) \/ SyncFail(c) PROVE TreeOK'
  BY <1>2 DEF SyncOk, SyncFail, Answer, TreeOK
<1>3. CASE UNCHANGED <<remote, tree>>  BY <1>3 DEF TreeOK
<1> QED  BY <1>1, <1>2, <1>3, TreeFrame

\* The ids that PruneTerminalScans keeps are ids, and their order has no gap.
LEMMA OrderFacts ==
    ASSUME RowsOK, NEW kept \in SUBSET DOMAIN rows, NEW f \in Orders(kept)
    PROVE  /\ Cardinality(kept) \in Nat /\ Cardinality(kept) <= Len(rows)
           /\ kept # DOMAIN rows => Cardinality(kept) < Len(rows)
           /\ f \in [1..Cardinality(kept) -> kept]
           /\ \A i, j \in 1..Cardinality(kept) : f[i] = f[j] => i = j
           /\ \A k \in kept : \E i \in 1..Cardinality(kept) : f[i] = k
           /\ [i \in DOMAIN f |-> rows[f[i]]] \in Seq(StoredRows)
           /\ Len([i \in DOMAIN f |-> rows[f[i]]]) = Cardinality(kept)
<1> DEFINE n == Cardinality(kept)
           t == [i \in DOMAIN f |-> rows[f[i]]]
<1>1. Len(rows) \in Nat /\ DOMAIN rows = 1..Len(rows)  BY DEF RowsOK
<1>2. IsFiniteSet(DOMAIN rows) /\ Cardinality(DOMAIN rows) = Len(rows)  BY <1>1, FS_Interval
<1>3. IsFiniteSet(kept) /\ n <= Len(rows) /\ (kept # DOMAIN rows => n # Len(rows))
  BY <1>2, FS_Subset
<1>4. n \in Nat  BY <1>3, FS_CardinalityType
<1>5. f \in [1..n -> kept] /\ DOMAIN f = 1..n /\ \A i, j \in 1..n : i < j => f[i] < f[j]
  BY DEF Orders
<1> HIDE DEF n
<1>6. \A i \in 1..n : f[i] \in Nat  BY <1>1, <1>5
<1>7. ASSUME NEW i \in 1..n, NEW j \in 1..n, f[i] = f[j] PROVE i = j
  <2>1. i \in Nat /\ j \in Nat  BY <1>4
  <2>2. ~(i < j) /\ ~(j < i)  BY <1>5, <1>6, <1>7
  <2> QED  BY <2>1, <2>2
<1>8. \A k \in kept : \E i \in 1..n : f[i] = k
  <2>1. f \in Injection(1..n, kept)  BY <1>5, <1>7 DEF Injection, IsInjective
  <2>2. IsFiniteSet(1..n) /\ Cardinality(1..n) = n  BY <1>4, FS_Interval
  <2>3. f \in Surjection(1..n, kept)  BY <1>3, <2>1, <2>2, FS_Injection DEF n
  <2> QED  BY <2>3 DEF Surjection
<1>9. t \in Seq(StoredRows) /\ Len(t) = n
  <2>1. \A i \in 1..n : rows[f[i]] \in StoredRows  BY <1>1, <1>5 DEF RowsOK
  <2>2. t \in [1..n -> StoredRows]  BY <1>5, <2>1
  <2> HIDE DEF t
  <2> QED  BY <1>4, <2>2
<1> QED  BY <1>3, <1>4, <1>5, <1>7, <1>8, <1>9 DEF n

\* A scan that has not failed holds commits; a failed one stores what was there or
\* its own.
LEMMA StepRows == ASSUME TypeOK, CommitInv, [Next]_vars PROVE RowsOK'
<1>0. RowsOK /\ CallersOK  BY TypeParts
<1>1. CASE UNCHANGED <<rows, repo>>  BY <1>0, <1>1 DEF RowsOK
<1>2. CASE Prune
  <2>0. PICK k \in DOMAIN rows : \E f \in Orders(Kept(rows, k)) : rows' = [i \in DOMAIN f |-> rows[f[i]]]
    BY <1>2 DEF Prune
  <2>1. PICK f \in Orders(Kept(rows, k)) : rows' = [i \in DOMAIN f |-> rows[f[i]]]
    BY <2>0
  <2>2. Kept(rows, k) \in SUBSET DOMAIN rows  BY DEF Kept
  <2>3. rows' \in Seq(StoredRows)  BY <1>0, <2>1, <2>2, OrderFacts
  <2> QED  BY <1>0, <1>2, <2>3 DEF RowsOK, Prune
<1>3. ASSUME NEW s \in Scanners, RequestScan(s) PROVE RowsOK'
  <2>1. ScanRow("running", 0) \in StoredRows  BY CommitFacts DEF ScanRow, StoredRows
  <2>2. rows' = rows \/ rows' = Append(rows, ScanRow("running", 0))  BY <1>3 DEF RequestScan
  <2> QED  BY <1>0, <1>3, <2>1, <2>2 DEF RowsOK, RequestScan
<1>4. ASSUME NEW row \in StoredRows, rows' = [rows EXCEPT ![OwnRow] = row],
             repo' \in [status : {"configured", "ok", "error"}, commit : Commits]
      PROVE  RowsOK'
  <2>1. Len(rows) \in Nat /\ rows \in [1..Len(rows) -> StoredRows]  BY <1>0 DEF RowsOK
  <2>2. rows' \in [1..Len(rows) -> StoredRows]  BY <1>4, <2>1
  <2>3. rows' \in Seq(StoredRows)  BY <2>1, <2>2
  <2> QED  BY <1>4, <2>3 DEF RowsOK
<1>5. ASSUME NEW s \in Scanners, FinishOk(s) PROVE RowsOK'
  <2>1. s \in Callers  BY DEF Callers
  <2>2. got[s] \in Commits  BY <1>0, <1>5, <2>1 DEF FinishOk, CommitInv, CallersOK, Answers
  <2>3. ScanRow("ok", got[s]) \in StoredRows /\ repo' \in [status : {"configured", "ok", "error"}, commit : Commits]
    BY <1>5, <2>2 DEF FinishOk, ScanRow, RepoRow, StoredRows
  <2> QED  BY <1>4, <1>5, <2>3 DEF FinishOk
<1>6. ASSUME NEW s \in Scanners, FinishError(s) PROVE RowsOK'
  <2>1. PICK prior \in PriorCommits(s) :
            rows' = [rows EXCEPT ![OwnRow] = ScanRow("error", prior)] /\ repo' = RepoRow("error", prior)
    BY <1>6 DEF FinishError
  <2>2. got[s] \in Answers /\ repo.commit \in Commits  BY <1>0 DEF RowsOK, CallersOK, Callers
  <2>3. prior \in Commits  BY <2>1, <2>2, CommitFacts DEF PriorCommits, Result, Answers
  <2>4. ScanRow("error", prior) \in StoredRows /\ repo' \in [status : {"configured", "ok", "error"}, commit : Commits]
    BY <2>1, <2>3 DEF ScanRow, RepoRow, StoredRows
  <2> QED  BY <1>4, <2>1, <2>4
<1> QED  BY <1>1, <1>2, <1>3, <1>5, <1>6, RowsFrame

\* Services are stored with what was read and the commit that was answered before.
LEMMA StepServices == ASSUME TypeOK, CommitInv, [Next]_vars PROVE ServicesOK'
<1>0. ServicesOK /\ CallersOK  BY TypeParts
<1>1. CASE UNCHANGED <<found, hosts, entry>>  BY <1>0, <1>1 DEF ServicesOK, Inventories
<1>2. ASSUME NEW c \in Callers, pc[c] \in {"finish", "store", "done"}, seen[c] # Failed
      PROVE  Services(seen[c], got[c]) \in Inventories /\ NoServices \in Inventories
  <2>1. seen[c] \in Commits /\ got[c] \in Commits  BY <1>0, <1>2 DEF CommitInv, CallersOK, Answers
  <2> QED  BY <2>1, ServicesType
<1>3. ASSUME NEW s \in Scanners, FinishOk(s) PROVE ServicesOK'
  <2>1. pc[s] = "finish" /\ seen[s] # Failed /\ s \in Callers  BY <1>3 DEF FinishOk, Callers
  <2> QED  BY <1>0, <1>2, <1>3, <2>1 DEF FinishOk, ServicesOK, Inventories
<1>4. ASSUME NEW p \in Pingers, StoreHosts(p) PROVE ServicesOK'
  <2>1. pc[p] = "store" /\ p \in Callers  BY <1>4 DEF StoreHosts, Callers
  <2>2. seen[p] # Failed  BY <2>1 DEF CommitInv
  <2> QED  BY <1>0, <1>2, <1>4, <2>1, <2>2 DEF StoreHosts, ServicesOK, Inventories
<1>5. ASSUME NEW p \in Pingers, FinishRefresh(p) PROVE ServicesOK'
  <2>1. pc[p] = "done" /\ p \in Callers  BY <1>5 DEF FinishRefresh, Callers
  <2> QED  BY <1>0, <1>2, <1>5, <2>1 DEF FinishRefresh, ServicesOK, stored, Inventories
<1>6. CASE UNCHANGED <<found, hosts>> /\ Reset
  BY <1>0, <1>6, ResetEffect, ServicesType, CommitFacts DEF ServicesOK, Inventories
<1> QED  BY <1>1, <1>3, <1>4, <1>5, <1>6, ServicesFrame

\* The steps that change where callers are or what they have in hand.
LEMMA CallersFrame ==
    ASSUME [Next]_vars
    PROVE  \/ UNCHANGED local
           \/ \E c \in Callers : SyncOk(c) \/ SyncFail(c) \/ Interrupted(c)
           \/ \E s \in Scanners : RequestScan(s) \/ ScanStep(s) \/ FinishFails(s)
           \/ \E p \in Pingers : Ask(p) \/ PingStep(p)
           \/ Reset
BY DEF Next, vars, local, stored, Push, BootFails, Prune, Stop, Exit, Crash

\* Where a caller goes, it has a place, and what it has in hand is an answer, a
\* commit that was read, or a copy of the cached inventory.
LEMMA StepCallers == ASSUME TypeOK, [Next]_vars PROVE CallersOK'
<1>0. TreeOK /\ ServicesOK /\ CallersOK  BY TypeParts
<1>1. remote \in Answers /\ tree \in Answers /\ Failed \in Answers /\ 0 \in Answers
  BY <1>0, CommitFacts DEF TreeOK, Answers
<1>2. NoServices \in Inventories  BY CommitFacts, ServicesType
<1>3. CASE UNCHANGED local  BY <1>0, <1>3 DEF CallersOK, local
<1>4. CASE Reset  BY <1>1, <1>2, <1>4, ResetEffect DEF CallersOK, Places
<1>5. ASSUME NEW c \in Callers, SyncOk(c) \/ SyncFail(c) PROVE CallersOK'
  <2>1. PICK result \in Answers : Answer(c, result)  BY <1>1, <1>5 DEF SyncOk, SyncFail
  <2> QED  BY <1>0, <2>1, AnswerEffect DEF CallersOK, Answer
<1>6. ASSUME NEW c \in Callers, Interrupted(c) PROVE CallersOK'
  BY <1>0, <1>1, <1>6 DEF CallersOK, Interrupted
<1>7. ASSUME NEW s \in Scanners, RequestScan(s) PROVE CallersOK'
  BY <1>0, <1>7 DEF CallersOK, RequestScan, Places
<1>8. ASSUME NEW s \in Scanners, Parse(s) PROVE CallersOK'
  BY <1>0, <1>1, <1>8 DEF CallersOK, Parse, Places
<1>9. ASSUME NEW s \in Scanners, FinishOk(s) \/ FinishError(s) \/ FinishFails(s) PROVE CallersOK'
  <2>1. s \in Callers /\ Rest(s) /\ pc' = [pc EXCEPT ![s] = "leave"]
    BY <1>9 DEF Callers, FinishOk, FinishError, FinishFails
  <2> QED  BY <1>0, <2>1, RestEffect DEF CallersOK, Places
<1>10. ASSUME NEW s \in Scanners, EndScan(s) \/ LeaveScan(s) PROVE CallersOK'
  BY <1>0, <1>10 DEF CallersOK, EndScan, LeaveScan, Places
<1>11. ASSUME NEW p \in Pingers, Ask(p) PROVE CallersOK'
  BY <1>0, <1>11 DEF CallersOK, ServicesOK, Ask, Places
<1>12. ASSUME NEW p \in Pingers, UseEntry(p) \/ FinishRefresh(p) PROVE CallersOK'
  <2>1. p \in Callers /\ Rest(p) /\ pc' = [pc EXCEPT ![p] = "idle"]
    BY <1>12 DEF Callers, UseEntry, FinishRefresh
  <2> QED  BY <1>0, <2>1, RestEffect DEF CallersOK, Places
<1>13. ASSUME NEW p \in Pingers, StartRefresh(p) PROVE CallersOK'
  BY <1>0, <1>1, <1>2, <1>13 DEF CallersOK, StartRefresh, Places
<1>14. ASSUME NEW p \in Pingers, AskCommit(p) PROVE CallersOK'
  BY <1>0, <1>1, <1>14 DEF CallersOK, AskCommit, Places
<1>15. ASSUME NEW p \in Pingers, ReadInventory(p) PROVE CallersOK'
  BY <1>0, <1>1, <1>15 DEF CallersOK, ReadInventory, Places
<1>16. ASSUME NEW p \in Pingers, StoreHosts(p) PROVE CallersOK'
  BY <1>0, <1>1, <1>16 DEF CallersOK, StoreHosts, Places
<1> QED  BY <1>3, <1>4, <1>5, <1>6, <1>7, <1>8, <1>9, <1>10, <1>11, <1>12, <1>13, <1>14, <1>15, <1>16,
            CallersFrame DEF ScanStep, PingStep

\* Every step counts no fault or one, up to the bound.
LEMMA StepFaults ==
    ASSUME ProcessOK, [Next]_vars
    PROVE  faults' \in 0..MaxFaults /\ faults <= faults'
<1>1. Fault \/ FaultOrCancelled \/ UNCHANGED faults
  BY DEF Next, vars, ScanStep, PingStep, Push, SyncOk, SyncFail, Interrupted, RequestScan, Parse, FinishOk,
         FinishError, FinishFails, EndScan, LeaveScan, Ask, UseEntry, StartRefresh, AskCommit, ReadInventory,
         StoreHosts, FinishRefresh, BootFails, Prune, Stop, Exit, Crash
<1> QED  BY <1>1, FaultEffect

\* Who enters and leaves the flights, and when the process goes on.
LEMMA FlightsFrame ==
    ASSUME [Next]_vars
    PROVE  \/ UNCHANGED <<phase, flights>>
           \/ \E c \in Callers : UNCHANGED <<phase, scanning, refreshing>> /\ syncing' = syncing \ {c}
           \/ \E s \in Scanners : RequestScan(s) \/ EndScan(s)
           \/ \E p \in Pingers : StartRefresh(p) \/ FinishRefresh(p)
           \/ Stop \/ Reset
BY DEF Next, vars, flights, ScanStep, PingStep, Push, SyncOk, SyncFail, Answer, Interrupted, Parse, FinishOk,
       FinishError, FinishFails, LeaveScan, Ask, UseEntry, AskCommit, ReadInventory,
       StoreHosts, BootFails, Prune, Exit, Crash

\* Only callers synchronise, only scanners scan, and only pingers refresh.
LEMMA StepProcess == ASSUME TypeOK, [Next]_vars PROVE ProcessOK'
<1>0. ProcessOK  BY TypeParts
<1>1. faults' \in 0..MaxFaults  BY <1>0, StepFaults
<1>2. Scanners \subseteq Callers /\ Pingers \subseteq Callers  BY DEF Callers
<1>3. CASE UNCHANGED <<phase, flights>>  BY <1>0, <1>1, <1>3 DEF ProcessOK, flights
<1>4. ASSUME NEW c \in Callers, UNCHANGED <<phase, scanning, refreshing>>, syncing' = syncing \ {c}
      PROVE  ProcessOK'
  BY <1>0, <1>1, <1>4 DEF ProcessOK
<1>5. ASSUME NEW s \in Scanners, RequestScan(s) \/ EndScan(s) PROVE ProcessOK'
  BY <1>0, <1>1, <1>2, <1>5 DEF ProcessOK, RequestScan, EndScan, SyncCall
<1>6. ASSUME NEW p \in Pingers, StartRefresh(p) \/ FinishRefresh(p) PROVE ProcessOK'
  BY <1>0, <1>1, <1>2, <1>6 DEF ProcessOK, StartRefresh, FinishRefresh, SyncCall
<1>7. CASE Stop \/ Reset  BY <1>0, <1>1, <1>7, ResetEffect DEF ProcessOK, Stop, flights
<1> QED  BY <1>3, <1>4, <1>5, <1>6, <1>7, FlightsFrame

-----------------------------------------------------------------------------
(* Commits, from the remote to what is stored *)

\* What CommitInv says of what one caller has read.
InHand(c) ==
    /\ pc[c] = "store" => seen[c] # Failed
    /\ pc[c] \in {"finish", "store", "done"} /\ seen[c] # Failed => got[c] # Failed /\ got[c] <= seen[c]

\* The tree does not go back, and no answer is ahead of it.
LEMMA StepCommitInv == ASSUME TypeOK, FlightInv, CommitInv, [Next]_vars PROVE CommitInv'
<1>0. TreeOK /\ CallersOK  BY TypeParts
<1>1. remote \in Nat /\ tree \in Nat /\ remote \in Commits /\ tree \in Commits /\ Failed \notin Commits
      /\ \A c \in Commits : c \in Nat
  BY <1>0, CommitFacts DEF TreeOK
<1>2. tree' \in Nat /\ remote' \in Nat /\ tree <= tree' /\ tree' <= remote'
  BY <1>1, TreeFrame DEF CommitInv, Push, SyncOk, SyncFail, Answer
<1>3. \A c \in Callers : (got[c] # Failed => got[c] \in Nat) /\ (seen[c] # Failed => seen[c] \in Nat)
  BY <1>0, <1>1 DEF CallersOK, Answers
<1>4. ASSUME NEW c \in Callers, got'[c] # Failed PROVE got'[c] <= tree'
  <2>1. CASE got'[c] = got[c]  BY <1>1, <1>2, <1>3, <1>4, <2>1 DEF CommitInv
  <2>2. CASE got'[c] = 0  BY <1>2, <2>2
  <2>3. CASE got'[c] = tree  BY <1>1, <1>2, <2>3
  <2>4. ASSUME NEW d \in Callers, SyncOk(d) PROVE got'[c] <= tree'
    <3>1. got'[c] = got[c] \/ got'[c] = remote  BY <1>0, <2>4, <1>1, AnswerEffect DEF SyncOk, Answers
    <3>2. tree' = remote  BY <2>4 DEF SyncOk
    <3> QED  BY <1>1, <2>1, <3>1, <3>2
  <2>5. ASSUME NEW d \in Callers, SyncFail(d) PROVE got'[c] <= tree'
    <3>1. got'[c] = got[c] \/ got'[c] = Failed  BY <1>0, <2>5, AnswerEffect DEF SyncFail, Answers
    <3> QED  BY <1>4, <2>1, <3>1
  <2>6. ASSUME NEW d \in Callers, Interrupted(d) PROVE got'[c] <= tree'
    BY <1>0, <1>4, <2>1, <2>6 DEF Interrupted, CallersOK
  <2>7. CASE UNCHANGED local  BY <2>1, <2>7 DEF local
  <2>8. CASE Reset  BY <2>2, <2>8, ResetEffect
  <2>9. ASSUME NEW s \in Scanners, RequestScan(s) \/ ScanStep(s) \/ FinishFails(s) PROVE got'[c] <= tree'
    <3>1. got'[c] = got[c] \/ got'[c] = 0
      BY <1>0, <2>9 DEF Callers, CallersOK, RequestScan, ScanStep, Parse, FinishOk, FinishError, FinishFails,
                        EndScan, LeaveScan, Rest
    <3> QED  BY <2>1, <2>2, <3>1
  <2>10. ASSUME NEW p \in Pingers, Ask(p) \/ PingStep(p) PROVE got'[c] <= tree'
    <3>1. got'[c] = got[c] \/ got'[c] = 0 \/ got'[c] = tree \/ got'[c] = Failed
      BY <1>0, <2>10 DEF Callers, CallersOK, Ask, PingStep, UseEntry, StartRefresh, AskCommit, ReadInventory,
                         StoreHosts, FinishRefresh, Rest
    <3> QED  BY <1>4, <2>1, <2>2, <2>3, <3>1
  <2> QED  BY <2>4, <2>5, <2>6, <2>7, <2>8, <2>9, <2>10, CallersFrame
<1> USE DEF InHand
<1>5. ASSUME NEW c \in Callers
      PROVE  InHand(c)'
  <2>1. CASE pc'[c] = pc[c] /\ got'[c] = got[c] /\ seen'[c] = seen[c]  BY <2>1 DEF CommitInv
  <2>2. CASE pc'[c] \notin {"finish", "store", "done"}  BY <2>2
  <2>3. CASE UNCHANGED local  BY <2>1, <2>3 DEF local
  <2>4. CASE Reset  BY <2>2, <2>4, ResetEffect
  <2>5. ASSUME NEW d \in Callers, SyncOk(d) \/ SyncFail(d) \/ Interrupted(d) PROVE InHand(c)'
    <3>1. pc' = pc /\ seen' = seen /\ (pc[c] = "sync" \/ got'[c] = got[c])
      BY <1>0, <2>5 DEF SyncOk, SyncFail, Answer, Interrupted, CallersOK
    <3> QED  BY <2>1, <2>2, <3>1
  <2>6. ASSUME NEW s \in Scanners, RequestScan(s) \/ ScanStep(s) \/ FinishFails(s) PROVE InHand(c)'
    <3>1. CASE Parse(s) /\ c = s
      <4>1. pc'[c] = "finish" /\ got'[c] = got[c]  BY <1>0, <3>1 DEF Parse, CallersOK
      <4>2. seen'[c] = Failed \/ (got[c] # Failed /\ seen'[c] = tree)  BY <1>0, <3>1 DEF Parse, CallersOK
      <4> QED  BY <4>1, <4>2 DEF CommitInv
    <3>2. CASE Parse(s) /\ c # s
      BY <1>0, <2>1, <3>2 DEF Parse, CallersOK
    <3>3. CASE FinishOk(s) \/ FinishError(s) \/ FinishFails(s)
      <4>1. s \in Callers /\ Rest(s) /\ pc' = [pc EXCEPT ![s] = "leave"]
        BY <3>3 DEF Callers, FinishOk, FinishError, FinishFails
      <4>2. CASE c = s  BY <1>0, <2>2, <4>1, <4>2 DEF CallersOK
      <4>3. CASE c # s  BY <1>0, <2>1, <4>1, <4>3, RestEffect DEF CallersOK
      <4> QED  BY <4>2, <4>3
    <3>4. CASE RequestScan(s) \/ EndScan(s) \/ LeaveScan(s)
      <4>1. got' = got /\ seen' = seen /\ (pc'[c] = pc[c] \/ pc'[c] \in {"idle", "joined", "sync"})
        BY <1>0, <3>4 DEF RequestScan, EndScan, LeaveScan, CallersOK
      <4> QED  BY <2>1, <2>2, <4>1
    <3> QED  BY <2>6, <3>1, <3>2, <3>3, <3>4 DEF ScanStep
  <2>7. ASSUME NEW p \in Pingers, Ask(p) \/ PingStep(p) PROVE InHand(c)'
    <3>1. CASE c # p
      <4>1. pc'[c] = pc[c] /\ got'[c] = got[c] /\ seen'[c] = seen[c]
        BY <1>0, <2>7, <3>1 DEF Callers, CallersOK, Ask, PingStep, UseEntry, StartRefresh, AskCommit, ReadInventory,
                                StoreHosts, FinishRefresh, Rest
      <4> QED  BY <2>1, <4>1
    <3>2. CASE c = p /\ (Ask(p) \/ UseEntry(p) \/ StartRefresh(p) \/ AskCommit(p) \/ FinishRefresh(p))
      <4>1. pc'[c] \in {"start", "idle", "sync", "inventory"}
        BY <1>0, <3>2 DEF CallersOK, Ask, UseEntry, StartRefresh, AskCommit, FinishRefresh
      <4> QED  BY <2>2, <4>1
    <3>3. CASE c = p /\ ReadInventory(p)
      <4>1. got'[c] = got[c] /\ pc'[c] = IF seen'[c] = Failed THEN "done" ELSE "store"
        BY <1>0, <3>3 DEF CallersOK, ReadInventory
      <4>2. seen'[c] = Failed \/ (got[c] # Failed /\ seen'[c] = tree)
        BY <1>0, <3>3 DEF CallersOK, ReadInventory
      <4> QED  BY <4>1, <4>2 DEF CommitInv
    <3>4. CASE c = p /\ StoreHosts(p)
      <4>1. pc[c] = "store" /\ pc'[c] = "done" /\ got'[c] = got[c] /\ (seen'[c] = seen[c] \/ seen'[c] = Failed)
        BY <1>0, <3>4 DEF CallersOK, StoreHosts
      <4> QED  BY <4>1 DEF CommitInv
    <3> QED  BY <2>7, <3>1, <3>2, <3>3, <3>4 DEF PingStep
  <2> QED  BY <2>3, <2>4, <2>5, <2>6, <2>7, CallersFrame
<1> QED  BY <1>2, <1>4, <1>5 DEF CommitInv

\* Services that are stored or cached were read after the commit that labels them
\* was answered.
LEMMA StepLabels == ASSUME TypeOK, CommitInv, LabelsNotAhead, [Next]_vars PROVE LabelsNotAhead'
<1>0. CallersOK  BY TypeParts
<1>1. NoServices.label <= NoServices.content  BY DEF NoServices, Services
<1>2. ASSUME NEW c \in Callers, pc[c] \in {"finish", "store", "done"}, seen[c] # Failed
      PROVE  Services(seen[c], got[c]).label <= Services(seen[c], got[c]).content
  BY <1>2 DEF CommitInv, Services
<1>3. CASE UNCHANGED <<found, hosts, entry>>  BY <1>3 DEF LabelsNotAhead
<1>4. ASSUME NEW s \in Scanners, FinishOk(s) PROVE LabelsNotAhead'
  <2>1. pc[s] = "finish" /\ seen[s] # Failed /\ s \in Callers  BY <1>4 DEF FinishOk, Callers
  <2> QED  BY <1>1, <1>2, <1>4, <2>1 DEF FinishOk, LabelsNotAhead
<1>5. ASSUME NEW p \in Pingers, StoreHosts(p) PROVE LabelsNotAhead'
  <2>1. pc[p] = "store" /\ p \in Callers  BY <1>5 DEF StoreHosts, Callers
  <2>2. seen[p] # Failed  BY <2>1 DEF CommitInv
  <2> QED  BY <1>1, <1>2, <1>5, <2>1, <2>2 DEF StoreHosts, LabelsNotAhead
<1>6. ASSUME NEW p \in Pingers, FinishRefresh(p) PROVE LabelsNotAhead'
  <2>1. pc[p] = "done" /\ p \in Callers  BY <1>6 DEF FinishRefresh, Callers
  <2> QED  BY <1>2, <1>6, <2>1 DEF FinishRefresh, stored, LabelsNotAhead
<1>7. CASE UNCHANGED <<found, hosts>> /\ Reset  BY <1>1, <1>7, ResetEffect DEF LabelsNotAhead
<1> QED  BY <1>3, <1>4, <1>5, <1>6, <1>7, ServicesFrame

-----------------------------------------------------------------------------
(* The flights *)

\* What FlightInv says of one scanner, of one pinger, and of the flights.
ScannerOK(s) ==
    /\ pc[s] \in {"idle", "joined", "sync", "finish", "leave"}
    /\ s \in scanning <=> pc[s] \in {"sync", "finish", "leave"}
PingerOK(p) ==
    /\ pc[p] \in {"idle", "start", "sync", "inventory", "store", "done"}
    /\ p \in refreshing <=> pc[p] \in {"sync", "inventory", "store", "done"}
Alone(flight) == \A c, d \in flight : c = d

\* No flight is joined by a second caller: who finds it taken waits or goes away.
LEMMA StepFlights ==
    ASSUME TypeOK, FlightInv, [Next]_vars
    PROVE  Alone(syncing') /\ Alone(scanning') /\ Alone(refreshing')
<1>1. Alone(syncing) /\ Alone(scanning) /\ Alone(refreshing)  BY DEF FlightInv, Alone
<1>2. CASE UNCHANGED <<phase, flights>>  BY <1>1, <1>2 DEF flights, Alone
<1>3. ASSUME NEW c \in Callers, UNCHANGED <<phase, scanning, refreshing>>, syncing' = syncing \ {c}
      PROVE  Alone(syncing') /\ Alone(scanning') /\ Alone(refreshing')
  BY <1>1, <1>3 DEF Alone
<1>4. ASSUME NEW s \in Scanners, RequestScan(s) \/ EndScan(s)
      PROVE  Alone(syncing') /\ Alone(scanning') /\ Alone(refreshing')
  BY <1>1, <1>4 DEF Alone, RequestScan, EndScan, SyncCall
<1>5. ASSUME NEW p \in Pingers, StartRefresh(p) \/ FinishRefresh(p)
      PROVE  Alone(syncing') /\ Alone(scanning') /\ Alone(refreshing')
  BY <1>1, <1>5 DEF Alone, StartRefresh, FinishRefresh, SyncCall
<1>6. CASE Stop \/ Reset  BY <1>1, <1>6, ResetEffect DEF Alone, Stop, flights
<1> QED  BY <1>2, <1>3, <1>4, <1>5, <1>6, FlightsFrame

\* A scanner is in the scans' flight from its row's beginning to its last step.
LEMMA StepScanner ==
    ASSUME TypeOK, FlightInv, [Next]_vars, NEW s \in Scanners
    PROVE  ScannerOK(s)'
<1>0. CallersOK /\ s \in Callers /\ ScannerOK(s)  BY TypeParts DEF Callers, FlightInv, ScannerOK
<1>1. CASE pc'[s] = pc[s] /\ (s \in scanning' <=> s \in scanning)  BY <1>0, <1>1 DEF ScannerOK
<1>2. CASE UNCHANGED vars  BY <1>1, <1>2 DEF vars, local, flights
<1>3. CASE Push \/ Prune \/ Stop  BY <1>1, <1>3 DEF Push, Prune, Stop, local, flights
<1>4. CASE Reset  BY <1>0, <1>4, ResetEffect DEF ScannerOK
<1>5. ASSUME NEW c \in Callers, SyncOk(c) \/ SyncFail(c) \/ Interrupted(c) PROVE ScannerOK(s)'
  BY <1>1, <1>5 DEF SyncOk, SyncFail, Answer, Interrupted, flights
<1>6. ASSUME NEW p \in Pingers, Ask(p) \/ PingStep(p) PROVE ScannerOK(s)'
  <2>1. p # s /\ p \in Callers  BY CallerAssumption DEF Callers
  <2>2. pc'[s] = pc[s] /\ scanning' = scanning
    BY <1>0, <1>6, <2>1 DEF CallersOK, Ask, PingStep, UseEntry, StartRefresh, AskCommit, ReadInventory,
                            StoreHosts, FinishRefresh, flights
  <2> QED  BY <1>1, <2>2
<1>7. ASSUME NEW r \in Scanners, RequestScan(r) PROVE ScannerOK(s)'
  <2>1. scanning = {} \/ scanning' = scanning  BY <1>7 DEF RequestScan
  <2>2. CASE r = s  BY <1>0, <1>7, <2>2 DEF RequestScan, CallersOK, ScannerOK
  <2>3. CASE r # s  BY <1>0, <1>1, <1>7, <2>3 DEF RequestScan, CallersOK
  <2> QED  BY <2>2, <2>3
<1>8. ASSUME NEW r \in Scanners, Parse(r) \/ FinishOk(r) \/ FinishError(r) \/ FinishFails(r) PROVE ScannerOK(s)'
  <2>1. scanning' = scanning /\ pc[r] \in {"sync", "finish"}
        /\ (pc' = [pc EXCEPT ![r] = "finish"] \/ pc' = [pc EXCEPT ![r] = "leave"])
    BY <1>8 DEF Parse, FinishOk, FinishError, FinishFails, flights
  <2> QED  BY <1>0, <1>1, <2>1 DEF CallersOK, ScannerOK
<1>9. ASSUME NEW r \in Scanners, EndScan(r) \/ LeaveScan(r) PROVE ScannerOK(s)'
  <2>1. CASE EndScan(r)  BY <1>0, <2>1 DEF EndScan, CallersOK, ScannerOK
  <2>2. CASE LeaveScan(r)  BY <1>0, <2>2 DEF LeaveScan, CallersOK, ScannerOK, flights
  <2> QED  BY <1>9, <2>1, <2>2
<1> QED  BY <1>2, <1>3, <1>4, <1>5, <1>6, <1>7, <1>8, <1>9 DEF Next, ScanStep, BootFails, Exit, Crash

\* A ping check is in the refreshes' flight while it carries a refresh.
LEMMA StepPinger ==
    ASSUME TypeOK, FlightInv, [Next]_vars, NEW p \in Pingers
    PROVE  PingerOK(p)'
<1>0. CallersOK /\ p \in Callers /\ PingerOK(p)  BY TypeParts DEF Callers, FlightInv, PingerOK
<1>1. CASE pc'[p] = pc[p] /\ (p \in refreshing' <=> p \in refreshing)  BY <1>0, <1>1 DEF PingerOK
<1>2. CASE UNCHANGED vars  BY <1>1, <1>2 DEF vars, local, flights
<1>3. CASE Push \/ Prune \/ Stop  BY <1>1, <1>3 DEF Push, Prune, Stop, local, flights
<1>4. CASE Reset  BY <1>0, <1>4, ResetEffect DEF PingerOK
<1>5. ASSUME NEW c \in Callers, SyncOk(c) \/ SyncFail(c) \/ Interrupted(c) PROVE PingerOK(p)'
  BY <1>1, <1>5 DEF SyncOk, SyncFail, Answer, Interrupted, flights
<1>6. ASSUME NEW s \in Scanners, RequestScan(s) \/ ScanStep(s) \/ FinishFails(s) PROVE PingerOK(p)'
  <2>1. p # s /\ s \in Callers /\ pc[p] # "joined"  BY <1>0, CallerAssumption DEF Callers, PingerOK
  <2>2. pc'[p] = pc[p] /\ refreshing' = refreshing
    BY <1>0, <1>6, <2>1 DEF CallersOK, RequestScan, ScanStep, Parse, FinishOk, FinishError, FinishFails,
                            EndScan, LeaveScan, flights
  <2> QED  BY <1>1, <2>2
<1>7. ASSUME NEW q \in Pingers, Ask(q) \/ UseEntry(q) \/ AskCommit(q) \/ ReadInventory(q) \/ StoreHosts(q)
      PROVE  PingerOK(p)'
  <2>1. refreshing' = refreshing
    BY <1>7 DEF Ask, UseEntry, AskCommit, ReadInventory, StoreHosts, flights
  <2>2. CASE q # p
    BY <1>0, <1>1, <1>7, <2>1, <2>2 DEF CallersOK, Ask, UseEntry, AskCommit, ReadInventory, StoreHosts
  <2>3. CASE q = p
    BY <1>0, <1>7, <2>1, <2>3 DEF CallersOK, PingerOK, Ask, UseEntry, AskCommit, ReadInventory, StoreHosts
  <2> QED  BY <2>2, <2>3
<1>8. ASSUME NEW q \in Pingers, StartRefresh(q) PROVE PingerOK(p)'
  BY <1>0, <1>8 DEF CallersOK, PingerOK, StartRefresh
<1>9. ASSUME NEW q \in Pingers, FinishRefresh(q) PROVE PingerOK(p)'
  BY <1>0, <1>9 DEF CallersOK, PingerOK, FinishRefresh
<1> QED  BY <1>2, <1>3, <1>4, <1>5, <1>6, <1>7, <1>8, <1>9 DEF Next, PingStep, BootFails, Exit, Crash

\* FlightInv is kept by every step.
LEMMA StepFlightInv == ASSUME TypeOK, FlightInv, [Next]_vars PROVE FlightInv'
BY StepFlights, StepScanner, StepPinger DEF FlightInv, ScannerOK, PingerOK, Alone

-----------------------------------------------------------------------------
(* Rows that stay 'running' *)

\* The running rows can be counted.
LEMMA RunningIsFinite ==
    ASSUME RowsOK
    PROVE  IsFiniteSet(Running) /\ Cardinality(Running) \in Nat
<1>1. Len(rows) \in Nat /\ DOMAIN rows = 1..Len(rows)  BY DEF RowsOK
<1>2. IsFiniteSet(DOMAIN rows)  BY <1>1, FS_Interval
<1>3. Running \in SUBSET DOMAIN rows  BY DEF Running
<1>4. IsFiniteSet(Running)  BY <1>2, <1>3, FS_Subset
<1> QED  BY <1>4, FS_CardinalityType

\* Who works is in the scans' flight, so there is one at most.
LEMMA WorkingIsAlone ==
    ASSUME FlightInv
    PROVE  Working \subseteq scanning /\ \A s, r \in Working : s = r
BY DEF FlightInv, Working

\* A scan that ends takes its row off the running ones and no longer works.
LEMMA FinishClosesRow ==
    ASSUME RowsOK, CallersOK, FlightInv, RowsInv, NEW s \in Scanners, FinishOk(s) \/ FinishError(s)
    PROVE  /\ Working # {} /\ Working' = {} /\ OwnRow \in Running
           /\ Running' = Running \ {OwnRow}
           /\ UNCHANGED <<phase, scanning, faults>>
<1>1. s \in Working /\ s \in Callers  BY DEF FinishOk, FinishError, Working, Callers
<1>2. OwnRow \in Running  BY <1>1 DEF RowsInv
<1>3. pc' = [pc EXCEPT ![s] = "leave"]  BY DEF FinishOk, FinishError
<1>4. Working' = {}
  <2>1. \A r \in Working : r = s  BY <1>1, WorkingIsAlone
  <2>2. \A r \in Scanners : pc'[r] = IF r = s THEN "leave" ELSE pc[r]  BY <1>1, <1>3 DEF CallersOK, Callers
  <2> QED  BY <2>1, <2>2 DEF Working
<1>5. PICK row : rows' = [rows EXCEPT ![OwnRow] = row] /\ row.status # "running"
  <2>1. CASE FinishOk(s)
    <3>1. rows' = [rows EXCEPT ![OwnRow] = ScanRow("ok", got[s])]  BY <2>1 DEF FinishOk
    <3>2. ScanRow("ok", got[s]).status # "running"  BY DEF ScanRow
    <3> QED  BY <3>1, <3>2
  <2>2. CASE FinishError(s)
    <3>1. PICK prior : rows' = [rows EXCEPT ![OwnRow] = ScanRow("error", prior)]  BY <2>2 DEF FinishError
    <3>2. ScanRow("error", prior).status # "running"  BY DEF ScanRow
    <3> QED  BY <3>1, <3>2
  <2> QED  BY <2>1, <2>2
<1>6. Len(rows) \in Nat /\ DOMAIN rows = 1..Len(rows)  BY DEF RowsOK
<1>7. DOMAIN rows' = DOMAIN rows /\ \A i \in DOMAIN rows : rows'[i] = IF i = OwnRow THEN row ELSE rows[i]
  BY <1>5
<1>8. Running' = Running \ {OwnRow}  BY <1>5, <1>7 DEF Running
<1> QED  BY <1>1, <1>2, <1>4, <1>8 DEF FinishOk, FinishError, flights

\* Retention deletes no row that is running, and the last one stays the last.
LEMMA PruneKeepsRunning ==
    ASSUME RowsOK, Prune
    PROVE  /\ Cardinality(Running') <= Cardinality(Running)
           /\ Cardinality(Running') \in Nat
           /\ OwnRow \in Running => OwnRow' \in Running'
<1>1. PICK k \in DOMAIN rows : \E f \in Orders(Kept(rows, k)) : rows' = [i \in DOMAIN f |-> rows[f[i]]]
  BY DEF Prune
<1> DEFINE kept == Kept(rows, k)
           n == Cardinality(kept)
<1>2. PICK f \in Orders(kept) : rows' = [i \in DOMAIN f |-> rows[f[i]]]  BY <1>1
<1>3. kept \in SUBSET DOMAIN rows  BY DEF Kept
<1>4. \A i \in Running : i \in kept  BY DEF Running, Kept, Terminal
<1> HIDE DEF kept
<1>5. /\ n \in Nat /\ f \in [1..n -> kept]
      /\ \A i, j \in 1..n : f[i] = f[j] => i = j
      /\ \A l \in kept : \E i \in 1..n : f[i] = l
      /\ rows' \in Seq(StoredRows) /\ Len(rows') = n
  BY <1>2, <1>3, OrderFacts
<1>6. \A i, j \in 1..n : i < j => f[i] < f[j]  BY <1>2, <1>5 DEF Orders
<1>7. Len(rows) \in Nat /\ DOMAIN rows = 1..Len(rows)  BY DEF RowsOK
<1> HIDE DEF n
<1>8. DOMAIN rows' = 1..n /\ \A i \in 1..n : rows'[i] = rows[f[i]]  BY <1>2, <1>5
<1>9. \A i \in 1..n : i \in Running' <=> f[i] \in Running  BY <1>3, <1>5, <1>8 DEF Running
<1>10. Running' \subseteq 1..n  BY <1>8 DEF Running
<1>11. Cardinality(Running') <= Cardinality(Running) /\ Cardinality(Running') \in Nat
  <2> DEFINE g == [i \in Running' |-> f[i]]
  <2>1. g \in Injection(Running', Running)  BY <1>5, <1>9, <1>10 DEF Injection, IsInjective
  <2>2. IsFiniteSet(Running)  BY RunningIsFinite
  <2>3. IsFiniteSet(Running') /\ Cardinality(Running') <= Cardinality(Running)  BY <2>1, <2>2, FS_Injection
  <2> QED  BY <2>3, FS_CardinalityType
<1>12. ASSUME OwnRow \in Running PROVE OwnRow' \in Running'
  <2>1. PICK i \in 1..n : f[i] = Len(rows)  BY <1>4, <1>5, <1>12 DEF OwnRow
  <2>2. f[n] \in 1..Len(rows) /\ n \in 1..n  BY <1>3, <1>5, <1>7, <2>1
  <2>3. ~(i < n)  BY <1>6, <1>7, <2>1, <2>2
  <2>4. i = n  BY <1>5, <2>3
  <2> QED  BY <1>5, <1>9, <1>12, <2>1, <2>2, <2>4 DEF OwnRow
<1> QED  BY <1>11, <1>12

\* The other steps leave the rows and who works, and stop no process.
Leaves ==
    /\ rows' = rows /\ Working' = Working /\ scanning' \subseteq scanning
    /\ phase' = phase \/ (phase = "boot" /\ phase' = "up")

\* Which steps those are.
LEMMA RowsInvFrame ==
    ASSUME TypeOK, FlightInv, [Next]_vars
    PROVE  \/ Leaves \/ Prune \/ Stop
           \/ \E s \in Scanners : RequestScan(s) \/ FinishOk(s) \/ FinishError(s) \/ FinishFails(s)
           \/ BootFails \/ Exit \/ Crash
<1>0. CallersOK  BY TypeParts
<1>1. ASSUME UNCHANGED <<rows, pc, scanning, phase>> PROVE Leaves  BY <1>1 DEF Leaves, Working
<1>2. CASE UNCHANGED vars  BY <1>1, <1>2 DEF vars, stored, local, flights
<1>3. CASE Push  BY <1>1, <1>3 DEF Push, stored, local, flights
<1>4. ASSUME NEW c \in Callers, SyncOk(c) \/ SyncFail(c) \/ Interrupted(c) PROVE Leaves
  BY <1>1, <1>4 DEF SyncOk, SyncFail, Answer, Interrupted, stored, flights
<1>5. ASSUME NEW s \in Scanners, Parse(s) \/ EndScan(s) \/ LeaveScan(s) PROVE Leaves
  <2>1. rows' = rows /\ scanning' \subseteq scanning /\ phase' = phase
    BY <1>5 DEF Parse, EndScan, LeaveScan, stored, flights
  <2>2. \A r \in Scanners : pc'[r] \in {"sync", "finish"} <=> pc[r] \in {"sync", "finish"}
    <3>1. CASE Parse(s)  BY <1>0, <3>1 DEF Parse, CallersOK, Callers
    <3>2. CASE EndScan(s)  BY <1>0, <3>2 DEF EndScan, CallersOK, Callers
    <3>3. CASE LeaveScan(s)  BY <1>0, <3>3 DEF LeaveScan, CallersOK, Callers
    <3> QED  BY <1>5, <3>1, <3>2, <3>3
  <2> QED  BY <2>1, <2>2 DEF Leaves, Working
<1>6. ASSUME NEW p \in Pingers, Ask(p) \/ PingStep(p) PROVE Leaves
  <2>1. /\ rows' = rows /\ scanning' = scanning
        /\ phase' = phase \/ (phase = "boot" /\ phase' = "up")
    BY <1>6 DEF Ask, PingStep, UseEntry, StartRefresh, AskCommit, ReadInventory, StoreHosts, FinishRefresh,
                stored, flights
  <2>2. p \in Callers /\ p \notin Scanners  BY CallerAssumption DEF Callers
  <2>3. \A r \in Scanners : pc'[r] = pc[r]
    BY <1>0, <1>6, <2>2 DEF CallersOK, Callers, Ask, PingStep, UseEntry, StartRefresh, AskCommit, ReadInventory,
                            StoreHosts, FinishRefresh
  <2> QED  BY <2>1, <2>3 DEF Leaves, Working
<1> QED  BY <1>2, <1>3, <1>4, <1>5, <1>6 DEF Next, ScanStep

\* Every row that is left running has a fault of its own: RowsInv is kept.
LEMMA StepRowsInv == ASSUME TypeOK, CommitInv, FlightInv, RowsInv, [Next]_vars PROVE RowsInv'
<1>0. RowsOK /\ CallersOK /\ ProcessOK  BY TypeParts
<1> DEFINE Card == Cardinality(Running)
           Stopping == IF phase = "stopping" THEN 1 ELSE 0
           Works == IF Working = {} THEN 0 ELSE 1
<1>1. IsFiniteSet(Running) /\ Card \in Nat  BY <1>0, RunningIsFinite
<1>2. faults \in Nat /\ faults' \in Nat /\ faults <= faults'
  BY <1>0, StepFaults, ScanBoundAssumption DEF ProcessOK
<1>3. /\ phase = "boot" => scanning = {} /\ Working = {}
      /\ Working # {} => OwnRow \in Running
      /\ Card + Stopping <= faults + Works
  BY WorkingIsAlone DEF RowsInv
<1>4. Working \subseteq scanning /\ \A s, r \in Working : s = r  BY WorkingIsAlone
<1>5. CASE Leaves
  <2>1. Running' = Running /\ OwnRow' = OwnRow  BY <1>5 DEF Leaves, Running, OwnRow
  <2>2. phase' = "boot" => scanning' = {}  BY <1>3, <1>5 DEF Leaves
  <2>3. Card' = Card /\ Works' = Works /\ Stopping' = Stopping  BY <1>5, <2>1 DEF Leaves
  <2>4. Card' + Stopping' <= faults' + Works'  BY <1>1, <1>2, <1>3, <2>3
  <2> QED  BY <1>3, <1>5, <2>1, <2>2, <2>4 DEF Leaves, RowsInv
<1>6. CASE Prune
  <2>1. phase = "up" /\ phase' = phase /\ scanning' = scanning /\ Working' = Working
    BY <1>6 DEF Prune, local, flights, Working
  <2>2. Card' <= Card /\ Card' \in Nat /\ (OwnRow \in Running => OwnRow' \in Running')
    BY <1>0, <1>6, PruneKeepsRunning
  <2>3. Stopping' = Stopping /\ Works' = Works  BY <2>1
  <2>4. Card' + Stopping' <= faults' + Works'  BY <1>1, <1>2, <1>3, <2>2, <2>3
  <2> QED  BY <1>3, <2>1, <2>2, <2>4 DEF RowsInv
<1>7. CASE Stop
  <2>1. phase = "up" /\ phase' = "stopping" /\ faults' = faults + 1
    BY <1>7 DEF Stop, Fault
  <2>2. rows' = rows /\ Working' = Working  BY <1>7 DEF Stop, stored, local, Working
  <2>3. Running' = Running /\ OwnRow' = OwnRow  BY <2>2 DEF Running, OwnRow
  <2>4. Card' = Card /\ Works' = Works /\ Stopping' = 1 /\ Stopping = 0  BY <2>1, <2>2, <2>3
  <2>5. Card' + Stopping' <= faults' + Works'  BY <1>1, <1>2, <1>3, <2>1, <2>4
  <2> QED  BY <1>3, <2>1, <2>2, <2>3, <2>5 DEF RowsInv
<1>8. ASSUME NEW s \in Scanners, RequestScan(s) PROVE RowsInv'
  <2>1. s \in Callers /\ phase = "up" /\ phase' = phase  BY <1>8 DEF RequestScan, Callers
  <2>2. CASE scanning # {}
    <3>1. rows' = rows /\ Working' = Working
      BY <1>0, <1>8, <2>1, <2>2 DEF RequestScan, Working, CallersOK, Callers
    <3>2. Running' = Running /\ OwnRow' = OwnRow  BY <3>1 DEF Running, OwnRow
    <3>3. Card' = Card /\ Works' = Works /\ Stopping' = Stopping  BY <2>1, <3>1, <3>2
    <3>4. Card' + Stopping' <= faults' + Works'  BY <1>1, <1>2, <1>3, <3>3
    <3> QED  BY <1>3, <2>1, <3>1, <3>2, <3>4 DEF RowsInv
  <2>3. CASE scanning = {}
    <3>1. rows' = Append(rows, ScanRow("running", 0)) /\ pc' = [pc EXCEPT ![s] = "sync"]
      BY <1>8, <2>3 DEF RequestScan
    <3>2. Len(rows) \in Nat /\ DOMAIN rows = 1..Len(rows)  BY <1>0 DEF RowsOK
    <3>3. /\ Len(rows') = Len(rows) + 1 /\ DOMAIN rows' = 1..(Len(rows) + 1)
          /\ \A i \in 1..Len(rows) : rows'[i] = rows[i]
          /\ rows'[Len(rows) + 1].status = "running"
      BY <1>0, <3>1 DEF RowsOK, ScanRow
    <3>4. Running' = Running \cup {Len(rows) + 1} /\ Len(rows) + 1 \notin Running
      BY <3>2, <3>3 DEF Running
    <3>5. Card' = Card + 1  BY <1>1, <3>4, FS_AddElement
    <3>6. Working = {} /\ s \in Working'  BY <1>0, <1>4, <2>1, <2>3, <3>1 DEF Working, CallersOK
    <3>7. Works = 0 /\ Works' = 1 /\ Stopping' = Stopping  BY <2>1, <3>6
    <3>8. Card' + Stopping' <= faults' + Works'  BY <1>1, <1>2, <1>3, <3>5, <3>7
    <3>9. OwnRow' \in Running'  BY <3>3, <3>4 DEF OwnRow
    <3> QED  BY <2>1, <3>8, <3>9 DEF RowsInv
  <2> QED  BY <2>2, <2>3
<1>9. ASSUME NEW s \in Scanners, FinishOk(s) \/ FinishError(s) PROVE RowsInv'
  <2>1. /\ Working # {} /\ Working' = {} /\ OwnRow \in Running
        /\ Running' = Running \ {OwnRow}
        /\ UNCHANGED <<phase, scanning, faults>>
    BY <1>0, <1>9, FinishClosesRow
  <2>2. Card' = Card - 1  BY <1>1, <2>1, FS_RemoveElement
  <2>3. Works = 1 /\ Works' = 0 /\ Stopping' = Stopping  BY <2>1
  <2>4. Card' + Stopping' <= faults' + Works'  BY <1>1, <1>2, <1>3, <2>1, <2>2, <2>3
  <2> QED  BY <1>3, <2>1, <2>4 DEF RowsInv
<1>10. ASSUME NEW s \in Scanners, FinishFails(s) PROVE RowsInv'
  <2>1. rows' = rows /\ scanning' = scanning /\ phase' = phase /\ faults' = faults + 1
    BY <1>10 DEF FinishFails, Fault, stored, flights
  <2>2. s \in Working /\ pc' = [pc EXCEPT ![s] = "leave"] /\ s \in Callers
    BY <1>10 DEF FinishFails, Working, Callers
  <2>3. \A r \in Scanners : pc'[r] = IF r = s THEN "leave" ELSE pc[r]  BY <1>0, <2>2 DEF CallersOK, Callers
  <2>4. \A r \in Working : r = s  BY <1>4, <2>2
  <2>5. Working' = {}  BY <2>3, <2>4 DEF Working
  <2>6. Running' = Running  BY <2>1 DEF Running
  <2>7. Card' = Card /\ Works' = 0 /\ Works = 1 /\ Stopping' = Stopping  BY <2>1, <2>2, <2>5, <2>6
  <2>8. Card' + Stopping' <= faults' + Works'  BY <1>1, <1>2, <1>3, <2>1, <2>7
  <2> QED  BY <1>3, <2>1, <2>5, <2>8 DEF RowsInv
<1>11. CASE BootFails \/ Exit \/ Crash
  <2>1. Reset /\ rows' = rows  BY <1>11 DEF BootFails, Exit, Crash, stored
  <2>2. phase' = "boot" /\ scanning' = {} /\ Working' = {}  BY <2>1, ResetEffect DEF Working, Callers
  <2>3. Running' = Running  BY <2>1 DEF Running
  <2>4. Card' = Card /\ Works' = 0 /\ Stopping' = 0  BY <2>2, <2>3
  <2>5. Card <= faults'
    <3>1. CASE BootFails  BY <1>1, <1>2, <1>3, <3>1 DEF BootFails
    <3>2. CASE Exit  BY <1>1, <1>2, <1>3, <3>2 DEF Exit
    <3>3. CASE Crash
      <4>1. faults' = faults + 1  BY <3>3 DEF Crash, Fault
      <4> QED  BY <1>1, <1>2, <1>3, <4>1
    <3> QED  BY <1>11, <3>1, <3>2, <3>3
  <2>6. Card' + Stopping' <= faults' + Works'  BY <1>1, <1>2, <2>4, <2>5
  <2> QED  BY <2>2, <2>6 DEF RowsInv
<1> QED  BY <1>5, <1>6, <1>7, <1>8, <1>9, <1>10, <1>11, RowsInvFrame

-----------------------------------------------------------------------------
(* The theorems *)

\* A new process over an empty database and a repository with one commit.
LEMMA InitLifecycle == ASSUME Init PROVE LifecycleInv
<1>1. TypeOK
  <2>1. TreeOK  BY CommitAssumption DEF Init, TreeOK, Commits
  <2>2. RowsOK  BY CommitFacts DEF Init, RowsOK, RepoRow
  <2>3. ServicesOK  BY CommitFacts, ServicesType DEF Init, ServicesOK
  <2>4. CallersOK  BY CommitFacts, ServicesType DEF Init, CallersOK, Answers, Places
  <2>5. ProcessOK  BY ScanBoundAssumption DEF Init, ProcessOK
  <2> QED  BY <2>1, <2>2, <2>3, <2>4, <2>5, TypeParts
<1>2. FlightInv  BY DEF Init, FlightInv, Callers
<1>3. CommitInv  BY DEF Init, CommitInv
<1>4. LabelsNotAhead  BY DEF Init, LabelsNotAhead, NoServices, Services
<1>5. RowsInv
  <2>1. Running = {} /\ Working = {}  BY DEF Init, Running, Working, Callers
  <2>2. Cardinality(Running) = 0  BY <2>1, FS_EmptySet
  <2> QED  BY <2>1, <2>2 DEF Init, RowsInv
<1> QED  BY <1>1, <1>2, <1>3, <1>4, <1>5 DEF LifecycleInv

\* LifecycleInv is inductive.
LEMMA StepLifecycle == ASSUME LifecycleInv, [Next]_vars PROVE LifecycleInv'
<1>1. TypeOK /\ FlightInv /\ CommitInv /\ LabelsNotAhead /\ RowsInv  BY DEF LifecycleInv
<1>2. TreeOK' /\ RowsOK' /\ ServicesOK' /\ CallersOK' /\ ProcessOK'
  BY <1>1, TypeParts, StepTree, StepRows, StepServices, StepCallers, StepProcess
<1>3. TypeOK'  BY <1>2, TypeParts, PTL
<1>4. FlightInv' /\ CommitInv' /\ LabelsNotAhead' /\ RowsInv'
  BY <1>1, StepFlightInv, StepCommitInv, StepLabels, StepRowsInv
<1> QED  BY <1>3, <1>4 DEF LifecycleInv

\* In every reachable state callers, flights, commits and rows fit together: the
\* inductive invariant of the properties below.
THEOREM LifecycleIsSound == Spec => []LifecycleInv
<1>1. Init => LifecycleInv  BY InitLifecycle
<1>2. LifecycleInv /\ [Next]_vars => LifecycleInv'  BY StepLifecycle
<1> QED  BY <1>1, <1>2, PTL DEF Spec

\* TypeOK holds; what scans and refreshes store are commits that were pushed, and
\* never the mark of a failure.
THEOREM TypesHold == Spec => []TypeOK
<1>1. LifecycleInv => TypeOK  BY DEF LifecycleInv
<1> QED  BY <1>1, LifecycleIsSound, PTL

\* A set whose members are all the same has one at most.
LEMMA OneAtMost ==
    ASSUME NEW flight, Alone(flight)
    PROVE  Cardinality(flight) <= 1
<1>1. CASE flight = {}  BY <1>1, FS_EmptySet
<1>2. CASE flight # {}
  <2>1. PICK c \in flight : TRUE  BY <1>2
  <2>2. flight = {c}  BY <2>1 DEF Alone
  <2>3. Cardinality({c}) = 1  BY FS_Singleton
  <2> QED  BY <2>2, <2>3
<1> QED  BY <1>1, <1>2

\* OneAtATime holds for any number of callers: git, scans and refreshes do not
\* overlap with their like, however callers join, are cancelled or crash.
THEOREM NoneOverlap == Spec => []OneAtATime
<1>1. LifecycleInv => OneAtATime  BY OneAtMost DEF LifecycleInv, FlightInv, OneAtATime, Alone
<1> QED  BY <1>1, LifecycleIsSound, PTL

\* LabelsNotAhead holds: no stored or cached inventory is labelled with a commit
\* that is newer than what was read.
THEOREM OldIsNeverNew == Spec => []LabelsNotAhead
<1>1. LifecycleInv => LabelsNotAhead  BY DEF LifecycleInv
<1> QED  BY <1>1, LifecycleIsSound, PTL

\* RunningRowsExplained holds: every row that stays 'running' beside that of the
\* scan that runs is the trace of a fault of its own.
THEOREM RowsAreExplained == Spec => []RunningRowsExplained
<1>1. ASSUME LifecycleInv PROVE RunningRowsExplained
  <2>1. RowsOK /\ ProcessOK /\ FlightInv /\ RowsInv  BY <1>1, TypeParts DEF LifecycleInv
  <2>2. Cardinality(Running) \in Nat /\ faults \in Nat
    BY <2>1, RunningIsFinite, ScanBoundAssumption DEF ProcessOK
  <2>3. Cardinality(scanning) \in Nat /\ (Working # {} => Cardinality(scanning) = 1)
    <3>1. Alone(scanning)  BY <2>1 DEF FlightInv, Alone
    <3>2. CASE scanning = {}
      <4>1. Working = {}  BY <2>1, <3>2, WorkingIsAlone
      <4> QED  BY <3>2, <4>1, FS_EmptySet
    <3>3. CASE scanning # {}
      <4>1. PICK c \in scanning : TRUE  BY <3>3
      <4>2. scanning = {c}  BY <3>1, <4>1 DEF Alone
      <4>3. Cardinality({c}) = 1  BY FS_Singleton
      <4> QED  BY <4>2, <4>3
    <3> QED  BY <3>2, <3>3
  <2>4. Cardinality(Running) <= faults + (IF Working = {} THEN 0 ELSE 1)
    BY <2>1, <2>2 DEF RowsInv
  <2>5. Cardinality(Running) <= faults + Cardinality(scanning)  BY <2>2, <2>3, <2>4
  <2> QED  BY <2>5 DEF RunningRowsExplained, Running
<1> QED  BY <1>1, LifecycleIsSound, PTL

\* The step in which a scan's row turns from 'running' to 'error' is FinishError.
LEMMA FailsByFinishing ==
    ASSUME TypeOK, [Next]_vars, Len(rows') = Len(rows), NEW i \in DOMAIN rows, Fails(i)
    PROVE  \E s \in Scanners : FinishError(s)
<1>0. RowsOK  BY TypeParts
<1>1. Len(rows) \in Nat /\ DOMAIN rows = 1..Len(rows)  BY <1>0 DEF RowsOK
<1>2. rows[i].status = "running" /\ rows'[i].status = "error"  BY DEF Fails
<1>3. CASE UNCHANGED rows  BY <1>2, <1>3
<1>4. ~Prune
  <2> SUFFICES ASSUME Prune PROVE FALSE  OBVIOUS
  <2>1. PICK k \in DOMAIN rows : /\ Kept(rows, k) # DOMAIN rows
                                 /\ \E f \in Orders(Kept(rows, k)) : rows' = [j \in DOMAIN f |-> rows[f[j]]]
    BY DEF Prune
  <2>2. Kept(rows, k) \in SUBSET DOMAIN rows  BY DEF Kept
  <2>3. PICK f \in Orders(Kept(rows, k)) : rows' = [j \in DOMAIN f |-> rows[f[j]]]  BY <2>1
  <2>4. Cardinality(Kept(rows, k)) < Len(rows)  BY <1>0, <2>1, <2>2, <2>3, OrderFacts
  <2>5. Len(rows') = Cardinality(Kept(rows, k))  BY <1>0, <2>2, <2>3, OrderFacts
  <2> QED  BY <1>1, <2>4, <2>5
<1>5. ASSUME NEW s \in Scanners, RequestScan(s) PROVE UNCHANGED rows
  <2>1. rows' = rows \/ rows' = Append(rows, ScanRow("running", 0))  BY <1>5 DEF RequestScan
  <2>2. Len(Append(rows, ScanRow("running", 0))) = Len(rows) + 1  BY <1>0 DEF RowsOK
  <2> QED  BY <1>1, <2>1, <2>2
<1>6. ASSUME NEW s \in Scanners, FinishOk(s) PROVE FALSE
  <2>1. rows' = [rows EXCEPT ![OwnRow] = ScanRow("ok", got[s])]  BY <1>6 DEF FinishOk
  <2>2. rows'[i] = rows[i] \/ rows'[i] = ScanRow("ok", got[s])  BY <1>1, <2>1
  <2> QED  BY <1>2, <2>2 DEF ScanRow
<1> QED  BY <1>3, <1>4, <1>5, <1>6, RowsFrame

\* A scan that fails keeps the services and the hosts, whether or not the store
\* could say what the last commit was.
THEOREM FailedScanKeepsServices ==
    Spec => [][(Len(rows') = Len(rows) /\ \E i \in DOMAIN rows : Fails(i)) => UNCHANGED <<found, hosts>>]_vars
<1>1. LifecycleInv /\ [Next]_vars =>
          [(Len(rows') = Len(rows) /\ \E i \in DOMAIN rows : Fails(i)) => UNCHANGED <<found, hosts>>]_vars
  BY FailsByFinishing DEF LifecycleInv, FinishError
<1> QED  BY <1>1, LifecycleIsSound, PTL DEF Spec

\* FailedScanKeeps holds as long as the last commit can be read: priorSuccessfulCommit
\* answers with the attempt's own commit otherwise.
THEOREM FailedScansKeep ==
    ASSUME ~ReadsFail
    PROVE  Spec => FailedScanKeeps
<1>1. ASSUME NEW s \in Scanners, FinishError(s)
      PROVE  repo'.commit = repo.commit /\ UNCHANGED <<found, hosts>>
  <2>1. PICK prior \in PriorCommits(s) : repo' = RepoRow("error", prior)  BY <1>1 DEF FinishError
  <2>2. prior = repo.commit  BY <2>1 DEF PriorCommits
  <2> QED  BY <1>1, <2>1, <2>2 DEF FinishError, RepoRow
<1>2. LifecycleInv /\ [Next]_vars =>
          [(Len(rows') = Len(rows) /\ \E i \in DOMAIN rows : Fails(i)) =>
               repo'.commit = repo.commit /\ UNCHANGED <<found, hosts>>]_vars
  BY <1>1, FailsByFinishing DEF LifecycleInv
<1> QED  BY <1>2, LifecycleIsSound, PTL DEF Spec, FailedScanKeeps
=============================================================================
