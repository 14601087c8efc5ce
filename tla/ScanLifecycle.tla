---------------------------- MODULE ScanLifecycle ----------------------------
(***************************************************************************)
(* Scans of one repository and the host inventory a ping target reads from *)
(* it (internal/scanner/scanner.go, repo_singleflight.go;                  *)
(* internal/storage/services.go; internal/monitor/ping.go;                 *)
(* internal/app/app.go: New, Close).                                       *)
(*                                                                         *)
(* Requests for a scan join the scan that runs; scans and ping checks join *)
(* the git synchronisation that runs, which goes on without them.  The     *)
(* working tree is read after the synchronisation has ended, so another    *)
(* one may move it meanwhile.  Each scan has a row, from before its first  *)
(* step to its last; a scan that fails keeps what the last one has stored. *)
(*                                                                         *)
(* Commits are numbered as they are pushed; 0 is "none", and Failed stands *)
(* for an error in place of a commit.                                      *)
(***************************************************************************)
EXTENDS Naturals, Sequences, FiniteSets, FiniteSetsExt

CONSTANTS
    Scanners,       \* callers of scanOne: the scheduled loop, POST /api/scan
    Pingers,        \* callers of syncPingTarget
    Main,           \* the pinger whose first check is New's, before the loops start
    Actions,        \* callers that Close waits for
    Empty,          \* commits whose inventory lists no host
    ReadsFail,      \* whether reading the last commit may fail
    MaxCommit,      \* bound: commits pushed
    MaxRows,        \* bound: scan rows kept
    MaxFaults       \* bound: failures of git, files or the store, and stops

Callers == Scanners \cup Pingers
Commits == 0..MaxCommit
Failed  == MaxCommit + 1

ASSUME CallerAssumption == /\ Scanners \cap Pingers = {}
                           /\ Main \in Pingers
                           /\ Actions \subseteq Callers \ {Main}
ASSUME CommitAssumption == /\ MaxCommit \in Nat \ {0}
                           /\ Empty \subseteq Commits \ {0}
ASSUME ScanBoundAssumption  == /\ ReadsFail \in BOOLEAN
                               /\ MaxRows \in Nat \ {0}
                               /\ MaxFaults \in Nat

VARIABLES
    remote,     \* newest commit of the remote
    tree,       \* commit that is checked out in the working tree
    rows,       \* scans, by id
    repo,       \* the row of repositories
    found,      \* services of the repository, but for its hosts
    hosts,      \* its host services
    entry,      \* ping inventory cache
    phase,      \* of the process
    pc,         \* where each caller is
    got,        \* what each caller's synchronisation answered
    seen,       \* what each caller read from the working tree
    copy,       \* cache entry each ping check has taken
    syncing,    \* repoSyncFlights: callers whose synchronisation runs
    scanning,   \* repoScanFlights: callers whose scan runs
    refreshing, \* running refreshes of the inventory
    faults

stored == <<rows, repo, found, hosts>>
local  == <<pc, got, seen, copy>>
flights == <<syncing, scanning, refreshing>>
vars == <<remote, tree, stored, entry, phase, local, flights, faults>>

-----------------------------------------------------------------------------
(* Rows *)

ScanRow(status, commit)  == [status |-> status, commit |-> commit]
RepoRow(status, commit)  == [status |-> status, commit |-> commit]
\* Services as read from one commit, labelled with another.
Services(content, label) == [content |-> content, label |-> label]
NoServices               == Services(0, 0)

Terminal(row)  == row.status \in {"ok", "error"}
\* LatestTerminalScansByRepository.
TerminalIds(s) == {i \in DOMAIN s : Terminal(s[i])}
Newest(s)      == IF TerminalIds(s) = {} THEN ScanRow("none", 0) ELSE s[Max(TerminalIds(s))]

Places == {"idle", "joined", "sync", "finish", "leave",
           "start", "inventory", "store", "done"}

\* The caller no longer has anything in hand.
Rest(c) == /\ got'  = [got EXCEPT ![c] = 0]
           /\ seen' = [seen EXCEPT ![c] = 0]
           /\ copy' = [copy EXCEPT ![c] = NoServices]

Fault == faults < MaxFaults /\ faults' = faults + 1

\* The context that New and the loops share, and those of the actions, is done.
Cancelled == phase = "stopping"
FaultOrCancelled == Fault \/ (Cancelled /\ UNCHANGED faults)

-----------------------------------------------------------------------------
(* The repository and its synchronisation *)

Push == /\ remote < MaxCommit
        /\ remote' = remote + 1
        /\ UNCHANGED <<tree, stored, entry, phase, local, flights, faults>>

\* doDetached by caller c, which goes to wait for the answer.
SyncCall(c) == syncing' = IF syncing = {} THEN {c} ELSE syncing

\* The synchronisation that c has begun ends, and answers everyone who waits for it.
Answer(c, result) ==
    /\ c \in syncing
    /\ syncing' = syncing \ {c}
    /\ got' = [d \in Callers |-> IF pc[d] = "sync" /\ got[d] = 0 THEN result ELSE got[d]]
    /\ UNCHANGED <<remote, stored, entry, phase, pc, seen, copy, scanning, refreshing>>

\* syncRepoUnshared: clone, or checkout and pull, move the working tree to what the
\* remote holds then; the commit is asked for afterwards.
SyncOk(c)   == Answer(c, remote) /\ tree' = remote /\ UNCHANGED faults
SyncFail(c) == Answer(c, Failed) /\ tree' \in {tree, remote} /\ Fault

\* The context of a waiting caller ends.
Interrupted(c) ==
    /\ Cancelled
    /\ pc[c] = "sync" /\ got[c] = 0
    /\ got' = [got EXCEPT ![c] = Failed]
    /\ UNCHANGED <<remote, tree, stored, entry, phase, pc, seen, copy, flights, faults>>

-----------------------------------------------------------------------------
(* Scans *)

\* Mutant: a request never joins.
RequestScanAlone(s) ==
    /\ phase = "up" /\ pc[s] = "idle"
    /\ Len(rows) < MaxRows
    /\ rows' = Append(rows, ScanRow("running", 0))
    /\ scanning' = scanning \cup {s}
    /\ SyncCall(s)
    /\ pc' = [pc EXCEPT ![s] = "sync"]
    /\ UNCHANGED <<remote, tree, repo, found, hosts, entry, phase, got, seen, copy, refreshing, faults>>

\* scanOne joins the scan that runs, or starts one, whose row comes first.
RequestScan(s) ==
    /\ phase = "up" /\ pc[s] = "idle"
    /\ IF scanning # {}
       THEN /\ pc' = [pc EXCEPT ![s] = "joined"]
            /\ UNCHANGED <<rows, scanning, syncing>>
       ELSE /\ Len(rows) < MaxRows
            /\ rows' = Append(rows, ScanRow("running", 0))
            /\ scanning' = {s}
            /\ SyncCall(s)
            /\ pc' = [pc EXCEPT ![s] = "sync"]
    /\ UNCHANGED <<remote, tree, repo, found, hosts, entry, phase, got, seen, copy, refreshing, faults>>

\* parseRepo reads what the working tree holds by now; parsing, or reading the
\* services to compare the routes with, may fail.
Parse(s) ==
    /\ s \in Scanners /\ pc[s] = "sync" /\ got[s] # 0
    /\ \/ /\ got[s] # Failed
          /\ seen' = [seen EXCEPT ![s] = tree]
          /\ UNCHANGED faults
       \/ /\ got[s] # Failed
          /\ seen' = [seen EXCEPT ![s] = Failed]
          /\ Fault
       \/ /\ got[s] = Failed
          /\ seen' = [seen EXCEPT ![s] = Failed]
          /\ UNCHANGED faults
    /\ pc' = [pc EXCEPT ![s] = "finish"]
    /\ UNCHANGED <<remote, tree, stored, entry, phase, got, copy, flights>>

\* The row of the scan that s runs: the last one, for scans do not overlap.
OwnRow == Len(rows)

FinishOk(s) ==
    /\ pc[s] = "finish" /\ seen[s] # Failed
    /\ rows'  = [rows EXCEPT ![OwnRow] = ScanRow("ok", got[s])]
    /\ repo'  = RepoRow("ok", got[s])
    /\ found' = Services(seen[s], got[s])
    /\ hosts' = IF seen[s] \in Empty THEN NoServices ELSE Services(seen[s], got[s])
    /\ pc'    = [pc EXCEPT ![s] = "leave"]
    /\ Rest(s)
    /\ UNCHANGED <<remote, tree, entry, phase, flights, faults>>

\* The commit of a scan's result, if it got as far.
Result(s) == IF got[s] = Failed THEN 0 ELSE got[s]

\* Mutant: the commit of the failed attempt is stored.
PriorCommitsOwn(s) == {Result(s)}

\* priorSuccessfulCommit, or the attempt's own when that cannot be read.
PriorCommits(s) == {repo.commit} \cup (IF ReadsFail THEN {Result(s)} ELSE {})

FinishError(s) ==
    /\ pc[s] = "finish" /\ seen[s] = Failed
    /\ \E prior \in PriorCommits(s) :
          /\ rows' = [rows EXCEPT ![OwnRow] = ScanRow("error", prior)]
          /\ repo' = RepoRow("error", prior)
    /\ pc' = [pc EXCEPT ![s] = "leave"]
    /\ Rest(s)
    /\ UNCHANGED <<remote, tree, found, hosts, entry, phase, flights, faults>>

\* The transaction fails: the row stays as it is.
FinishFails(s) ==
    /\ pc[s] = "finish"
    /\ Fault
    /\ pc' = [pc EXCEPT ![s] = "leave"]
    /\ Rest(s)
    /\ UNCHANGED <<remote, tree, stored, entry, phase, flights>>

\* do: the scan leaves its group and answers those who have joined.
EndScan(s) ==
    /\ s \in Scanners /\ pc[s] = "leave"
    /\ scanning' = scanning \ {s}
    /\ pc' = [c \in Callers |-> IF c = s \/ pc[c] = "joined" THEN "idle" ELSE pc[c]]
    /\ UNCHANGED <<remote, tree, stored, entry, phase, got, seen, copy, syncing, refreshing, faults>>

\* A request that has joined ends with its context.
LeaveScan(s) ==
    /\ Cancelled /\ pc[s] = "joined"
    /\ pc' = [pc EXCEPT ![s] = "idle"]
    /\ UNCHANGED <<remote, tree, stored, entry, phase, got, seen, copy, flights, faults>>

\* PruneTerminalScans, when the rows up to the k-th are past the horizon.
Kept(s, k) == {i \in DOMAIN s : i > k \/ ~Terminal(s[i]) \/ i = Max(TerminalIds(s))}

\* The ids in kept, in their order.
Orders(kept) == {f \in [1..Cardinality(kept) -> kept] : \A i, j \in DOMAIN f : i < j => f[i] < f[j]}

Prune ==
    /\ \E k \in DOMAIN rows :
          LET kept == Kept(rows, k)
          IN  /\ kept # DOMAIN rows
              /\ \E f \in Orders(kept) : rows' = [i \in DOMAIN f |-> rows[f[i]]]
    /\ phase = "up"
    /\ UNCHANGED <<remote, tree, repo, found, hosts, entry, phase, local, flights, faults>>

-----------------------------------------------------------------------------
(* The inventory of a ping target *)

\* Mutant: the cached inventory is believed until it expires.
CacheStaleNever(e) == FALSE

\* pingInventoryCacheStale: an inventory without hosts leaves no row to hold the commit.
CacheStale(e) == IF hosts = NoServices THEN e.content \notin Empty ELSE hosts.label # e.label

\* syncPingTarget takes the cache entry and sees that no refresh runs.  While one
\* does, a check is answered from the entry at once, which changes nothing: there
\* is an entry, for New has failed without, and nobody forces a refresh after New.
Ask(p) ==
    /\ p \in Pingers /\ pc[p] = "idle"
    /\ phase = "up" \/ (phase = "boot" /\ p = Main)
    /\ refreshing = {}
    /\ pc' = [pc EXCEPT ![p] = "start"]
    /\ copy' = [copy EXCEPT ![p] = entry]
    /\ UNCHANGED <<remote, tree, stored, entry, phase, got, seen, flights, faults>>

\* A check that has an entry of age "young" compares it with the stored hosts;
\* this may fail.
Fresh(p, young) == phase # "boot" /\ young /\ ~CacheStale(copy[p])

UseEntry(p) ==
    /\ pc[p] = "start"
    /\ \/ Fresh(p, TRUE) /\ UNCHANGED faults
       \/ refreshing # {} /\ UNCHANGED faults
       \/ phase # "boot" /\ FaultOrCancelled
    /\ pc' = [pc EXCEPT ![p] = "idle"]
    /\ Rest(p)
    /\ UNCHANGED <<remote, tree, stored, entry, phase, flights>>

\* Mutant: the refresh that has begun meanwhile is not noticed.
StartRefreshAlways(p) ==
    /\ pc[p] = "start"
    /\ \E young \in BOOLEAN : ~Fresh(p, young)
    /\ refreshing' = refreshing \cup {p}
    /\ IF Cancelled THEN got' = [got EXCEPT ![p] = Failed] /\ UNCHANGED syncing
       ELSE SyncCall(p) /\ UNCHANGED got
    /\ copy' = [copy EXCEPT ![p] = NoServices]
    /\ pc' = [pc EXCEPT ![p] = "sync"]
    /\ UNCHANGED <<remote, tree, stored, entry, phase, seen, scanning, faults>>

\* startRefresh, and the synchronisation it begins with.
StartRefresh(p) ==
    /\ pc[p] = "start"
    /\ \E young \in BOOLEAN : ~Fresh(p, young)
    /\ refreshing = {}
    /\ refreshing' = {p}
    /\ IF Cancelled THEN got' = [got EXCEPT ![p] = Failed] /\ UNCHANGED syncing
       ELSE SyncCall(p) /\ UNCHANGED got
    /\ copy' = [copy EXCEPT ![p] = NoServices]
    /\ pc' = [pc EXCEPT ![p] = "sync"]
    /\ UNCHANGED <<remote, tree, stored, entry, phase, seen, scanning, faults>>

\* CurrentCommit asks for the commit of the working tree as it is by now.
AskCommit(p) ==
    /\ p \in Pingers /\ pc[p] = "sync" /\ got[p] # 0
    /\ \/ got[p] # Failed /\ ~Cancelled /\ got' = [got EXCEPT ![p] = tree] /\ UNCHANGED faults
       \/ got[p] # Failed /\ got' = [got EXCEPT ![p] = Failed] /\ FaultOrCancelled
       \/ got[p] = Failed /\ UNCHANGED <<got, faults>>
    /\ pc' = [pc EXCEPT ![p] = "inventory"]
    /\ UNCHANGED <<remote, tree, stored, entry, phase, seen, copy, flights>>

\* Mutant: a file that cannot be read counts as read.
ReadInventoryStores(p) ==
    /\ pc[p] = "inventory"
    /\ seen' = [seen EXCEPT ![p] = IF got[p] = Failed THEN Failed ELSE tree]
    /\ pc' = [pc EXCEPT ![p] = "store"]
    /\ UNCHANGED <<remote, tree, stored, entry, phase, got, copy, flights, faults>>

\* ServicesForTarget reads the inventory file.
ReadInventory(p) ==
    /\ pc[p] = "inventory"
    /\ \/ got[p] # Failed /\ seen' = [seen EXCEPT ![p] = tree] /\ UNCHANGED faults
       \/ got[p] # Failed /\ seen' = [seen EXCEPT ![p] = Failed] /\ Fault
       \/ got[p] = Failed /\ seen' = [seen EXCEPT ![p] = Failed] /\ UNCHANGED faults
    /\ pc' = [pc EXCEPT ![p] = IF seen'[p] = Failed THEN "done" ELSE "store"]
    /\ UNCHANGED <<remote, tree, stored, entry, phase, got, copy, flights>>

\* Mutant: the commit is asked for after the file has been read.
StoreHostsLate(p) ==
    /\ pc[p] = "store" /\ ~Cancelled
    /\ hosts' = IF seen[p] \in Empty THEN NoServices ELSE Services(seen[p], tree)
    /\ pc' = [pc EXCEPT ![p] = "done"]
    /\ UNCHANGED <<remote, tree, rows, repo, found, entry, phase, got, seen, copy, flights, faults>>

\* ReplaceRuntimeServices.
StoreHosts(p) ==
    /\ pc[p] = "store"
    /\ \/ /\ ~Cancelled
          /\ hosts' = IF seen[p] \in Empty THEN NoServices ELSE Services(seen[p], got[p])
          /\ UNCHANGED <<seen, faults>>
       \/ /\ seen' = [seen EXCEPT ![p] = Failed] /\ FaultOrCancelled
          /\ UNCHANGED hosts
    /\ pc' = [pc EXCEPT ![p] = "done"]
    /\ UNCHANGED <<remote, tree, rows, repo, found, entry, phase, got, copy, flights>>

\* Memory of the process is gone; what it had committed is not.
Reset == /\ pc' = [c \in Callers |-> "idle"]
         /\ got' = [c \in Callers |-> 0]
         /\ seen' = [c \in Callers |-> 0]
         /\ copy' = [c \in Callers |-> NoServices]
         /\ syncing' = {} /\ scanning' = {} /\ refreshing' = {}
         /\ entry' = NoServices
         /\ phase' = "boot"

\* finishRefresh: the cache takes what was read.
FinishRefresh(p) ==
    /\ pc[p] = "done" /\ (seen[p] = Failed => phase # "boot")
    /\ entry' = IF seen[p] = Failed THEN entry ELSE Services(seen[p], got[p])
    /\ refreshing' = refreshing \ {p}
    /\ pc' = [pc EXCEPT ![p] = "idle"]
    /\ phase' = IF phase = "boot" THEN "up" ELSE phase
    /\ Rest(p)
    /\ UNCHANGED <<remote, tree, stored, syncing, scanning, faults>>

\* New fails without its inventory: the process ends, and is started again.
BootFails ==
    /\ phase = "boot"
    /\ pc[Main] = "done" /\ seen[Main] = Failed
    /\ Reset
    /\ UNCHANGED <<remote, tree, stored, faults>>

-----------------------------------------------------------------------------
(* The process *)

Stop == /\ phase = "up"
        /\ Fault
        /\ phase' = "stopping"
        /\ UNCHANGED <<remote, tree, stored, entry, local, flights>>

\* Close waits for the actions, not for the loops.
Exit == /\ phase = "stopping"
        /\ \A c \in Actions : pc[c] = "idle"
        /\ Reset
        /\ UNCHANGED <<remote, tree, stored, faults>>

Crash == /\ Fault
         /\ Reset
         /\ UNCHANGED <<remote, tree, stored>>

Init ==
    /\ remote = 1 /\ tree = 0
    /\ rows = <<>>
    /\ repo = RepoRow("configured", 0)
    /\ found = NoServices /\ hosts = NoServices
    /\ entry = NoServices
    /\ phase = "boot"
    /\ pc = [c \in Callers |-> "idle"]
    /\ got = [c \in Callers |-> 0]
    /\ seen = [c \in Callers |-> 0]
    /\ copy = [c \in Callers |-> NoServices]
    /\ syncing = {} /\ scanning = {} /\ refreshing = {}
    /\ faults = 0

ScanStep(s) == \/ Parse(s) \/ FinishOk(s) \/ FinishError(s) \/ EndScan(s) \/ LeaveScan(s)

PingStep(p) == \/ UseEntry(p) \/ StartRefresh(p) \/ AskCommit(p)
               \/ ReadInventory(p) \/ StoreHosts(p) \/ FinishRefresh(p)

Next ==
    \/ Push
    \/ \E c \in Callers : SyncOk(c) \/ SyncFail(c) \/ Interrupted(c)
    \/ \E s \in Scanners : RequestScan(s) \/ ScanStep(s) \/ FinishFails(s)
    \/ \E p \in Pingers : Ask(p) \/ PingStep(p)
    \/ BootFails
    \/ Prune
    \/ Stop \/ Exit \/ Crash

Spec == Init /\ [][Next]_vars

\* Every goroutine is carried on; git commands end, for they have a timeout; the
\* loops ask again and again, and retention is maintained; a process that has
\* been told to stop does so.  How often POST /api/scan or /api/monitor come is
\* left open.
Fairness ==
    /\ \A c \in Callers : WF_vars(SyncOk(c)) /\ WF_vars(Interrupted(c))
    /\ \A s \in Scanners : WF_vars(ScanStep(s)) /\ (s \notin Actions => WF_vars(RequestScan(s)))
    /\ \A p \in Pingers : WF_vars(PingStep(p)) /\ (p \notin Actions => WF_vars(Ask(p)))
    /\ WF_vars(BootFails) /\ WF_vars(Prune) /\ WF_vars(Exit)

FairSpec == Spec /\ Fairness

-----------------------------------------------------------------------------
(* Properties *)

Inventories == [content : Commits, label : Commits]

\* The type of the state; what is parsed or stored is a commit that was pushed.
TypeOK ==
    /\ remote \in Commits \ {0} /\ tree \in Commits
    /\ rows \in Seq([status : {"running", "ok", "error"}, commit : Commits])
    /\ repo \in [status : {"configured", "ok", "error"}, commit : Commits]
    /\ found \in Inventories /\ hosts \in Inventories /\ entry \in Inventories
    /\ phase \in {"boot", "up", "stopping"}
    /\ pc \in [Callers -> Places]
    /\ got \in [Callers -> Commits \cup {Failed}] /\ seen \in [Callers -> Commits \cup {Failed}]
    /\ copy \in [Callers -> Inventories]
    /\ syncing \subseteq Callers
    /\ scanning \subseteq Scanners /\ refreshing \subseteq Pingers
    /\ faults \in 0..MaxFaults

\* One synchronisation of the repository runs at a time, one scan, and one
\* refresh of its inventory, whoever asks and whoever has gone away since: two git
\* commands in one working tree, or two scans whose rows and services overtake
\* each other, are what the groups of repo_singleflight.go are there to prevent.
OneAtATime == /\ Cardinality(syncing) <= 1
              /\ Cardinality(scanning) <= 1
              /\ Cardinality(refreshing) <= 1

\* A commit that is named as the origin of stored services is never newer than
\* what was read: they may be from a later commit, which the next scan or refresh
\* puts right, but an old file is never taken for a new one.
LabelsNotAhead == \A i \in {found, hosts, entry} : i.label <= i.content

\* A row that stays 'running' after its scan is the trace of one fault of its own:
\* a stop, a crash, or a failed last transaction.  Nothing else leaves one behind.
RunningRowsExplained ==
    Cardinality({i \in DOMAIN rows : rows[i].status = "running"}) <= faults + Cardinality(scanning)

\* A failed scan changes its own row and the status of the repository only: not
\* the last commit, nor any service.
Fails(i) == rows[i].status = "running" /\ rows'[i].status = "error"
FailedScanKeeps ==
    [][(Len(rows') = Len(rows) /\ \E i \in DOMAIN rows : Fails(i)) =>
            repo'.commit = repo.commit /\ UNCHANGED <<found, hosts>>]_vars

\* Whatever overtook what, the stored services, their label, the last commit and
\* the cached inventory settle on what the repository holds, once it rests.
SameHosts(i, c) == i.content = c \/ {i.content, c} \subseteq Empty
Settled == /\ repo.commit = remote
           /\ found = Services(remote, remote)
           /\ hosts = IF remote \in Empty THEN NoServices ELSE Services(remote, remote)
           /\ SameHosts(entry, remote)
Settles == <>[]Settled
-----------------------------------------------------------------------------
(* The inductive invariants of the safety properties *)

\* The callers that are in a scan, and those that are in a refresh, are the ones
\* whose flights say so; no flight has two.
FlightInv ==
    /\ \A s \in Scanners : /\ pc[s] \in {"idle", "joined", "sync", "finish", "leave"}
                           /\ s \in scanning <=> pc[s] \in {"sync", "finish", "leave"}
    /\ \A p \in Pingers : /\ pc[p] \in {"idle", "start", "sync", "inventory", "store", "done"}
                          /\ p \in refreshing <=> pc[p] \in {"sync", "inventory", "store", "done"}
    /\ \A flight \in {syncing, scanning, refreshing} : \A c, d \in flight : c = d

\* What a synchronisation answered is not newer than the working tree, and what was
\* read from the tree is not older than the answer that came before it.
CommitInv ==
    /\ tree <= remote
    /\ \A c \in Callers : got[c] # Failed => got[c] <= tree
    /\ \A c \in Callers : pc[c] = "store" => seen[c] # Failed
    /\ \A c \in Callers : pc[c] \in {"finish", "store", "done"} /\ seen[c] # Failed =>
                               got[c] # Failed /\ got[c] <= seen[c]

\* The scanners whose row is still open, and the rows that are.
Working == {s \in Scanners : pc[s] \in {"sync", "finish"}}
Running == {i \in DOMAIN rows : rows[i].status = "running"}

\* The last row is that of the scan that works, and a process that has been told
\* to stop has counted a fault that no row stands for.
RowsInv ==
    /\ phase = "boot" => scanning = {}
    /\ Working # {} => OwnRow \in Running
    /\ Cardinality(Running) + (IF phase = "stopping" THEN 1 ELSE 0)
          <= faults + (IF Working = {} THEN 0 ELSE 1)

LifecycleInv == TypeOK /\ FlightInv /\ CommitInv /\ LabelsNotAhead /\ RowsInv
=============================================================================
