--------------------------- MODULE StoreOpening ---------------------------
(***************************************************************************)
(* The key that hashes the dedupe keys of alerts, and the openings of the  *)
(* store that read, create, verify and replace it (internal/storage:       *)
(* storage.go, migrations.go, the guard of alerts.go).  The key lives in a *)
(* file beside the database, its fingerprint in the database; the two      *)
(* cannot change in one step, several processes open the same store, and   *)
(* any of them may stop between two steps.                                 *)
(*                                                                         *)
(* One alert is looked at.  rows[k] says what the table knows of it under  *)
(* the hash of key k; rows[0] is a row of an older version with no hash.   *)
(* A key is a number, 0 stands for no key and no file, Corrupt for a file  *)
(* that holds no key.                                                      *)
(***************************************************************************)
EXTENDS Integers, FiniteSets

CONSTANTS
    Processes,      \* dashboard processes on one data directory
    Tokens,         \* values of alerting.resetToken
    Default,        \* the token that stands when none is configured
    MaxKeys,        \* bound: keys ever generated
    MaxTampers,     \* bound: times the operator touches the key file
    MaxFaults,      \* bound: crashes and failed writes
    None

\* What an opening notes on its way to a reset, and what locks the alert state.
Notes == {"marked", "rows", "prefer", "missing", "existing", "corrupt", "first"}
Locks == {"opening", "stale", "fault"}

ASSUME StoreOpeningAssumption == /\ Default \in Tokens
                                 /\ None \notin Tokens \cup Processes \cup Notes \cup Locks
                                 /\ MaxKeys \in Nat \ {0}
                                 /\ MaxTampers \in Nat
                                 /\ MaxFaults \in Nat

Missing == 0
Corrupt == -1
Keys == 1..MaxKeys

VARIABLES
    file,           \* alert-dedupe.key
    lastKey,        \* the last key that was generated
    fingerprint,    \* storage_metadata: the key whose fingerprint is stored
    marker,         \* storage_metadata: token of a reset that has begun
    consumed,       \* alert_dedupe_reset_consumed: tokens already used
    writer,         \* the process whose transaction holds the write lock
    rows,           \* the alert, by the key of its hash
    pc,             \* where each process stands in OpenWithOptions
    opt,            \* its reset token, None when the reset flag is off
    key,            \* the key it holds, or is about to use
    how,            \* the mode of its reset, and what it saw on the way there
    wipe,           \* store.resetAlertState
    cause,          \* why its alert state is locked, None when it is not
    alone,          \* ghost: processes whose last opening met no other opening
    tampers, faults

vars == <<file, lastKey, fingerprint, marker, consumed, writer, rows, pc, opt, key,
          how, wipe, cause, alone, tampers, faults>>
stored == <<fingerprint, marker, consumed, rows>>
limits == <<alone, tampers, faults>>

Places == {"down", "start", "read", "retry", "verify", "count", "stamp", "missing",
           "fresh", "reset", "remove", "create", "fill", "commit", "recheck",
           "hash", "wipe", "up"}
Modes == Notes \cup {None}
Causes == Locks \cup {None}

\* The type of the state: what the openings read is a key file, a fingerprint or a
\* token that there can be.
TypeOK ==
    /\ file \in Keys \cup {Missing, Corrupt}
    /\ lastKey \in 0..MaxKeys
    /\ fingerprint \in Keys \cup {0}
    /\ marker \in Tokens \cup {None}
    /\ consumed \subseteq Tokens
    /\ writer \in Processes \cup {None}
    /\ rows \in [Keys \cup {0} -> {"none", "pending", "closed"}]
    /\ pc \in [Processes -> Places]
    /\ opt \in [Processes -> Tokens \cup {None}]
    /\ key \in [Processes -> Keys \cup {0}]
    /\ how \in [Processes -> Modes]
    /\ wipe \in [Processes -> BOOLEAN]
    /\ cause \in [Processes -> Causes]
    /\ alone \subseteq Processes
    /\ tampers \in 0..MaxTampers
    /\ faults \in 0..MaxFaults

\* A new data directory, one whose rows were never hashed, and one of a version
\* that had the key but did not store its fingerprint.
Init ==
    /\ \E old \in {"none", "unhashed", "hashed"} :
        /\ file = IF old = "hashed" THEN 1 ELSE Missing
        /\ lastKey = file
        /\ rows = [k \in Keys \cup {0} |->
                      IF \/ old = "unhashed" /\ k = 0
                         \/ old = "hashed" /\ k = 1
                      THEN "pending" ELSE "none"]
    /\ fingerprint = 0
    /\ marker = None
    /\ consumed = {}
    /\ writer = None
    /\ pc = [p \in Processes |-> "down"]
    /\ opt = [p \in Processes |-> None]
    /\ key = [p \in Processes |-> 0]
    /\ how = [p \in Processes |-> None]
    /\ wipe = [p \in Processes |-> FALSE]
    /\ cause = [p \in Processes |-> None]
    /\ alone = {}
    /\ tampers = 0
    /\ faults = 0
-----------------------------------------------------------------------------
(* What the steps of an opening have in common. *)

At(p, place) == pc[p] = place
Armed(p) == opt[p] # None                       \* resetOnMissingKey
TokenOf(p) == IF Armed(p) THEN opt[p] ELSE Default
\* databaseHasKeyBackedAlertRows
KeyBacked == \E k \in Keys : rows[k] # "none"

Quiet == \A p \in Processes : pc[p] \in {"down", "up"}

Goto(p, place) == pc' = [pc EXCEPT ![p] = place]
Take(p, k) == key' = [key EXCEPT ![p] = k]
Note(p, m) == how' = [how EXCEPT ![p] = m]

\* The opening goes on with key k; w: the rows are to be reset by the migration.
Loaded(p, k, w) ==
    /\ Goto(p, "hash")
    /\ Take(p, k)
    /\ wipe' = [wipe EXCEPT ![p] = w]
    /\ Note(p, None)
    /\ UNCHANGED cause

\* lockedAlertDedupeKeyResult: the store opens without its alerts; the steps of
\* the migration that concern alerts are skipped.
Locked(p, why) ==
    /\ Goto(p, "up")
    /\ Take(p, 0)
    /\ wipe' = [wipe EXCEPT ![p] = FALSE]
    /\ Note(p, None)
    /\ cause' = [cause EXCEPT ![p] = why]

\* The opening goes on at another place, which is all that changes.
Move(p, place) == Goto(p, place) /\ UNCHANGED <<key, how, wipe, cause>>

\* A readable key is verified, or completes a reset that is marked as begun.
Readable(p, marked) ==
    IF marked
    THEN Goto(p, "reset") /\ Note(p, "prefer") /\ UNCHANGED <<key, wipe, cause>>
    ELSE Goto(p, "verify") /\ Take(p, file) /\ Note(p, None) /\ UNCHANGED <<wipe, cause>>

Reset(p, mode) == Goto(p, "reset") /\ Note(p, mode) /\ UNCHANGED <<key, wipe, cause>>
-----------------------------------------------------------------------------
(* loadOrCreateAlertDedupeKey. *)

\* A process starts; the operator changes the token only to ask for a further reset.
Open(p) ==
    /\ At(p, "down")
    /\ Goto(p, "start")
    /\ \E o \in Tokens \cup {None} :
        /\ o \in Tokens \ {Default} => marker # None \/ consumed # {}
        /\ opt' = [opt EXCEPT ![p] = o]
    /\ alone' = IF Quiet THEN alone \cup {p}
                ELSE {q \in alone \ {p} : pc[q] \in {"down", "up"}}
    /\ UNCHANGED <<file, lastKey, stored, writer, key, how, wipe, cause, tampers, faults>>

ReadMarker(p) ==
    /\ At(p, "start")
    /\ Goto(p, "read")
    /\ Note(p, IF marker # None THEN "marked" ELSE None)
    /\ UNCHANGED <<key, wipe, cause>>

ReadKey(p) ==
    /\ At(p, "read")
    /\ IF file \in Keys THEN Readable(p, how[p] = "marked")
       ELSE IF file = Corrupt THEN Move(p, "retry")
       ELSE IF how[p] = "marked" THEN Reset(p, "missing")
       ELSE Move(p, "missing")

\* The attempts of readAlertDedupeKeyWithRetry, a fifth of a second in all, outlast
\* a creator that is still filling the file, but not one that has died.
GivesUp == file \in Keys \/ \A q \in Processes : ~At(q, "fill")

\* A mutant of Retry: the last attempt is taken for a key whatever it read.
RetryTrusting(p) ==
    /\ At(p, "retry")
    /\ GivesUp
    /\ Readable(p, how[p] = "marked")

Retry(p) ==
    /\ At(p, "retry")
    /\ GivesUp
    /\ IF file \in Keys THEN Readable(p, how[p] = "marked")
       ELSE IF how[p] = "marked" \/ Armed(p) THEN Reset(p, "corrupt")
       ELSE Locked(p, "opening")

ReadRows(p) ==
    /\ At(p, "missing")
    /\ IF KeyBacked /\ ~Armed(p) THEN Locked(p, "opening")
       ELSE Goto(p, "fresh") /\ Note(p, IF KeyBacked THEN "rows" ELSE None)
            /\ UNCHANGED <<key, wipe, cause>>

ReadFingerprint(p) ==
    /\ At(p, "fresh")
    /\ IF fingerprint # 0 /\ ~Armed(p)
       THEN IF file \in Keys THEN Readable(p, FALSE) ELSE Locked(p, "opening")
       ELSE IF fingerprint # 0 \/ how[p] = "rows" THEN Reset(p, "missing")
       ELSE Goto(p, "create") /\ Note(p, "first") /\ UNCHANGED <<key, wipe, cause>>

\* A mutant of Verify: a key that does not match always locks, also when the flag is set.
VerifyStrict(p) ==
    /\ At(p, "verify")
    /\ IF fingerprint = 0 THEN Move(p, "count")
       ELSE IF fingerprint = key[p] THEN Loaded(p, key[p], FALSE)
       ELSE Locked(p, "opening")

\* verifyAlertDedupeKeyFingerprint.
Verify(p) ==
    /\ At(p, "verify")
    /\ IF fingerprint = 0 THEN Move(p, "count")
       ELSE IF fingerprint = key[p] THEN Loaded(p, key[p], FALSE)
       ELSE IF Armed(p) THEN Reset(p, "existing")
       ELSE Locked(p, "opening")

CountRows(p) ==
    /\ At(p, "count")
    /\ IF ~KeyBacked THEN Move(p, "stamp")
       ELSE IF Armed(p) THEN Reset(p, "existing")
       ELSE Locked(p, "opening")

\* writeAlertDedupeKeyFingerprint, outside of any transaction.
Stamp(p) ==
    /\ At(p, "stamp")
    /\ writer = None
    /\ fingerprint' = key[p]
    /\ Loaded(p, key[p], FALSE)
    /\ UNCHANGED <<file, lastKey, marker, consumed, writer, rows, opt, limits>>
-----------------------------------------------------------------------------
(* resetAlertDedupeKeyWithLock: what it writes to the database shows when    *)
(* it commits, what it does to the file shows at once.                       *)

\* A mutant of Spent: the ledger of used tokens is not consulted.
SpentNever(p) == FALSE

\* alertDedupeResetTokenConsumedTx, which a reset already begun need not pass.
Spent(p) == marker = None /\ TokenOf(p) \in consumed

\* Under the write lock the key and its fingerprint are looked at again, since
\* another opening may have completed the reset; only then the token counts.
StartReset(p) ==
    LET agrees == file \in Keys /\ fingerprint = file
        adopts == how[p] = "prefer" /\ file \in Keys
    IN  /\ At(p, "reset")
        /\ writer = None
        /\ \/ /\ agrees
              /\ Loaded(p, file, marker # None)
              /\ UNCHANGED writer
           \/ /\ ~agrees /\ adopts
              /\ Goto(p, "commit") /\ Take(p, file) /\ UNCHANGED <<how, wipe, cause>>
              /\ writer' = p
           \/ /\ ~agrees /\ ~adopts /\ Spent(p)
              /\ Locked(p, "opening")
              /\ UNCHANGED writer
           \/ /\ ~agrees /\ ~adopts /\ ~Spent(p)
              /\ Move(p, IF file = Missing THEN "create" ELSE "remove")
              /\ writer' = p

\* os.Remove, or the rename that moves a corrupt key aside.
Remove(p) ==
    /\ At(p, "remove")
    /\ file' = Missing
    /\ Move(p, "create")
    /\ UNCHANGED <<lastKey, writer>>

\* createAlertDedupeKey: of several creators the first one makes the file, empty,
\* and fills it; the others read what it wrote, or give up.
Create(p) ==
    /\ At(p, "create")
    /\ \/ /\ file = Missing /\ lastKey < MaxKeys
          /\ file' = Corrupt
          /\ lastKey' = lastKey + 1
          /\ Goto(p, "fill") /\ Take(p, lastKey') /\ UNCHANGED <<how, wipe, cause>>
          /\ UNCHANGED writer
       \/ /\ file \in Keys
          /\ Goto(p, IF how[p] = "first" THEN "stamp" ELSE "commit")
          /\ Take(p, file) /\ UNCHANGED <<how, wipe, cause>>
          /\ UNCHANGED <<file, lastKey, writer>>
       \/ /\ file = Corrupt /\ GivesUp
          /\ Locked(p, "opening")
          /\ writer' = IF writer = p THEN None ELSE writer
          /\ UNCHANGED <<file, lastKey>>

\* The key goes to the file this process made, which may have been removed.
Fill(p) ==
    /\ At(p, "fill")
    /\ file' = IF file = Corrupt /\ lastKey = key[p] THEN key[p] ELSE file
    /\ Move(p, IF how[p] = "first" THEN "stamp" ELSE "commit")
    /\ UNCHANGED <<lastKey, writer>>

\* A mutant of Commit: the new fingerprint is committed without the marker.
CommitUnmarked(p) ==
    /\ At(p, "commit")
    /\ writer' = None
    /\ IF file = key[p]
       THEN fingerprint' = key[p] /\ Move(p, "recheck")
       ELSE Locked(p, "opening") /\ UNCHANGED fingerprint
    /\ UNCHANGED <<file, lastKey, marker, consumed, rows, opt, limits>>

\* The marker of a reset that was interrupted keeps its token.
Commit(p) ==
    /\ At(p, "commit")
    /\ writer' = None
    /\ IF file = key[p]
       THEN /\ fingerprint' = key[p]
            /\ marker' = IF marker = None THEN TokenOf(p) ELSE marker
            /\ Move(p, "recheck")
       ELSE Locked(p, "opening") /\ UNCHANGED <<fingerprint, marker>>
    /\ UNCHANGED <<file, lastKey, consumed, rows, opt, limits>>

Recheck(p) ==
    /\ At(p, "recheck")
    /\ IF file = key[p] /\ fingerprint = key[p] THEN Loaded(p, key[p], TRUE)
       ELSE Locked(p, "opening")
-----------------------------------------------------------------------------
(* The steps of the migration that use the key. *)

\* Rows of an older version get their hash, with the key this process loaded.
Hash(p) ==
    /\ At(p, "hash")
    /\ writer = None
    /\ rows' = IF rows[0] = "none" THEN rows
               ELSE [rows EXCEPT ![0] = "none",
                                 ![key[p]] = IF "pending" \in {rows[0], @} THEN "pending" ELSE "closed"]
    /\ Move(p, IF wipe[p] THEN "wipe" ELSE "up")
    /\ UNCHANGED <<file, lastKey, fingerprint, marker, consumed, writer, opt, limits>>

\* A mutant of Wipe: the marker is left behind.
WipeKeepsMarker(p) ==
    /\ At(p, "wipe")
    /\ writer = None
    /\ IF file \in Keys
       THEN /\ fingerprint' = file
            /\ rows' = [k \in DOMAIN rows |-> IF rows[k] = "pending" THEN "closed" ELSE rows[k]]
            /\ consumed' = consumed \cup {IF marker = None THEN TokenOf(p) ELSE marker}
            /\ UNCHANGED marker
            /\ Goto(p, "up") /\ Take(p, file) /\ UNCHANGED <<how, wipe, cause>>
       ELSE Locked(p, "opening") /\ UNCHANGED stored
    /\ UNCHANGED <<file, lastKey, writer, opt, limits>>

\* resetAlertStateAfterMissingKey, one transaction.
Wipe(p) ==
    /\ At(p, "wipe")
    /\ writer = None
    /\ IF file \in Keys
       THEN /\ fingerprint' = file
            /\ rows' = [k \in DOMAIN rows |-> IF rows[k] = "pending" THEN "closed" ELSE rows[k]]
            /\ consumed' = consumed \cup {IF marker = None THEN TokenOf(p) ELSE marker}
            /\ marker' = None
            /\ Goto(p, "up") /\ Take(p, file) /\ UNCHANGED <<how, wipe, cause>>
       ELSE Locked(p, "opening") /\ UNCHANGED stored
    /\ UNCHANGED <<file, lastKey, writer, opt, limits>>
-----------------------------------------------------------------------------
(* An open store. *)

Unlocked(p) == At(p, "up") /\ cause[p] = None
\* ensureAlertDedupeKeyCurrent
Current(p) == file = key[p] /\ fingerprint = key[p]

Enqueue(p) ==
    /\ Unlocked(p) /\ Current(p) /\ writer = None
    /\ rows' = [rows EXCEPT ![key[p]] = "pending"]
    /\ UNCHANGED <<file, lastKey, fingerprint, marker, consumed, writer, pc, opt, key,
                   how, wipe, cause, limits>>

\* A claim and its completion look at no hash: any pending row is delivered.
Deliver(p) ==
    /\ Unlocked(p) /\ Current(p) /\ writer = None
    /\ \E k \in DOMAIN rows : rows[k] = "pending" /\ rows' = [rows EXCEPT ![k] = "closed"]
    /\ UNCHANGED <<file, lastKey, fingerprint, marker, consumed, writer, pc, opt, key,
                   how, wipe, cause, limits>>

\* A write by a process whose key is not the current one locks its alert state.
NoticeStale(p) ==
    /\ Unlocked(p) /\ ~Current(p)
    /\ cause' = [cause EXCEPT ![p] = "stale"]
    /\ UNCHANGED <<file, lastKey, stored, writer, pc, opt, key, how, wipe, limits>>

\* Retention, whose horizon of days no opening outlasts.
Prune(p) ==
    /\ Quiet
    /\ At(p, "up") /\ writer = None
    /\ \E k \in DOMAIN rows : rows[k] = "closed" /\ rows' = [rows EXCEPT ![k] = "none"]
    /\ UNCHANGED <<file, lastKey, fingerprint, marker, consumed, writer, pc, opt, key,
                   how, wipe, cause, limits>>

\* The process ends: what it held in memory is gone, its transaction rolls back.
End(p) ==
    /\ pc' = [pc EXCEPT ![p] = "down"]
    /\ opt' = [opt EXCEPT ![p] = None]
    /\ Take(p, 0)
    /\ Note(p, None)
    /\ wipe' = [wipe EXCEPT ![p] = FALSE]
    /\ cause' = [cause EXCEPT ![p] = None]
    /\ writer' = IF writer = p THEN None ELSE writer
    /\ UNCHANGED <<file, lastKey, stored, alone, tampers>>

Close(p) == At(p, "up") /\ End(p) /\ UNCHANGED faults

Crash(p) ==
    /\ pc[p] \notin {"down", "up"}
    /\ faults < MaxFaults
    /\ faults' = faults + 1
    /\ End(p)

\* A query or a write of the opening fails; a file that is being filled is removed.
Fail(p) ==
    /\ pc[p] \notin {"down", "up"}
    /\ faults < MaxFaults
    /\ faults' = faults + 1
    /\ Locked(p, "fault")
    /\ writer' = IF writer = p THEN None ELSE writer
    /\ file' = IF At(p, "fill") THEN Missing ELSE file
    /\ UNCHANGED <<lastKey, stored, opt, alone, tampers>>

\* The operator loses or damages the key file, or restores a copy made while alerts
\* were hashed with it; no opening is under way.
Tamper ==
    /\ Quiet
    /\ tampers < MaxTampers
    /\ tampers' = tampers + 1
    /\ file' \in ({Missing, Corrupt} \cup {k \in Keys : rows[k] # "none"}) \ {file}
    /\ UNCHANGED <<lastKey, stored, writer, pc, opt, key, how, wipe, cause, alone, faults>>
-----------------------------------------------------------------------------
Looks(p) ==
    /\ \/ ReadMarker(p) \/ ReadKey(p) \/ Retry(p) \/ ReadRows(p) \/ ReadFingerprint(p)
       \/ Verify(p) \/ CountRows(p) \/ Recheck(p)
    /\ UNCHANGED <<file, lastKey, stored, writer, opt, limits>>

Replaces(p) ==
    /\ \/ StartReset(p) /\ UNCHANGED <<file, lastKey>>
       \/ Remove(p) \/ Create(p) \/ Fill(p)
    /\ UNCHANGED <<stored, opt, limits>>

Opens(p) == Looks(p) \/ Replaces(p) \/ Stamp(p) \/ Commit(p) \/ Hash(p) \/ Wipe(p)

Uses(p) == Enqueue(p) \/ Deliver(p) \/ NoticeStale(p) \/ Prune(p)

Next ==
    \/ \E p \in Processes : Open(p) \/ Opens(p) \/ Uses(p) \/ Close(p) \/ Crash(p) \/ Fail(p)
    \/ Tamper

Spec == Init /\ [][Next]_vars
FairSpec == Spec /\ \A p \in Processes : WF_vars(Opens(p))
-----------------------------------------------------------------------------
(* Properties. *)

\* resetAlertDedupeKeyWithLock commits the new fingerprint and the marker together,
\* resetAlertStateAfterMissingKey drops the marker with the old rows: an alert that
\* is pending under a former key is either marked to be reset or out of everyone's
\* reach, because file and fingerprint disagree.  So it is wherever a process stops
\* while stores are opened one after another, however many openings overlap while none
\* is interrupted, and when two overlap and one thing fails; a second failure can leave
\* the old rows unmarked, because the late stamp of ensureAlertDedupeKeyFingerprint is
\* outside of the lock.
OldRowsMarked ==
    marker = None /\ fingerprint = file /\ file \in Keys =>
        \A k \in Keys : rows[k] = "pending" => k = fingerprint

\* README, "alerting.resetOnMissingKey": an opening with the flag and a token that
\* was not used yet ends with alerts, whatever an earlier one left half done, as
\* long as no other opening runs beside it and none of its writes fails.
ArmedOpens ==
    \A p \in alone : cause[p] = "opening" /\ Armed(p) => opt[p] \in consumed

\* README: "The reset flag is one-shot".  No reset begins for a token that was
\* consumed: not while at most two processes open the store at once, whatever fails, nor
\* while nothing fails, however many they are.  A third opening can come between where one
\* of them was interrupted.
TokenOneShot == [][marker' \notin {None, marker} => marker' \notin consumed]_vars

\* A reset that was interrupted is completed by the next opening, by this token or
\* another and with or without the flag, unless that one fails as well.
ResetFinished ==
    \A p \in Processes :
        At(p, "start") /\ marker # None
            ~> marker = None \/ At(p, "down") \/ cause[p] # None
-----------------------------------------------------------------------------
(* The inductive invariants of the safety properties. *)

Opening(p) == pc[p] \notin {"down", "up"}

\* No process opens the store while another one does.
OneOpener == \A p, q \in Processes : Opening(p) /\ Opening(q) => p = q

HoldsKey(p) == pc[p] \in {"verify", "count", "stamp", "fill", "commit", "recheck", "hash", "wipe"}

\* An opening that holds a key and an open store with its alerts have one; only an
\* open store is locked.
KeyInv ==
    /\ \A p \in Processes : HoldsKey(p) \/ Unlocked(p) => key[p] \in Keys
    /\ \A p \in Processes : Opening(p) \/ At(p, "down") => cause[p] = None

\* The token of p may start a reset, or one has begun.
MayReset(p) == marker # None \/ TokenOf(p) \notin consumed
\* There is nothing a key was used for.
NoKeyUsed == fingerprint = 0 /\ ~KeyBacked

\* What an opening that meets no other one still knows from its earlier steps.
Knows(p) ==
    /\ pc[p] \in {"read", "retry"} /\ how[p] = "marked" => marker # None
    /\ pc[p] \in {"missing", "fresh", "create"} => file = Missing
    /\ At(p, "fresh") /\ how[p] # "rows" /\ fingerprint = 0 => ~KeyBacked
    /\ pc[p] \in {"verify", "count", "stamp", "commit", "recheck", "hash", "wipe"} => file = key[p]
    /\ At(p, "count") => fingerprint = 0
    /\ At(p, "stamp") => NoKeyUsed
    /\ At(p, "reset") => how[p] # "first" /\ (how[p] = "prefer" => marker # None)
    /\ pc[p] \in {"remove", "commit"} => MayReset(p)
    /\ At(p, "remove") => how[p] # "first"
    /\ pc[p] \in {"create", "fill"} => IF how[p] = "first" THEN NoKeyUsed ELSE MayReset(p)
    /\ At(p, "fill") => file = Corrupt /\ lastKey = key[p]
    /\ pc[p] \in {"recheck", "hash", "wipe"} => fingerprint = key[p]

\* A process of alone that is opening the store is the only one.
AloneInv ==
    \A p \in alone :
        /\ Opening(p) => Knows(p) /\ \A q \in Processes : Opening(q) => q = p
        /\ cause[p] = "opening" /\ Armed(p) => opt[p] \in consumed

\* While no two processes open the store at once, every opening is of that kind.
OpenersKnow == \A p \in Processes : Opening(p) => Knows(p)
-----------------------------------------------------------------------------
(* Openings that overlap: what their steps outside of the lock take for granted. *)

\* The two steps that go on what was read before they hold the write lock.  The first
\* fingerprint is stored without a look at the rows and at what another opening stored
\* since; a marked reset is taken up without a look whether it still is marked.
StampInTime == \A p \in Processes : Stamp(p) => NoKeyUsed \/ fingerprint = key[p]
AdoptInTime == \A p \in Processes : StartReset(p) /\ At(p, "commit")' => marker # None

\* OldRowsMarked, wherever the key file is.
NoOldRow == marker = None /\ fingerprint # 0 =>
                \A k \in Keys : rows[k] = "pending" => k = fingerprint

\* A key that was loaded and is not the current one any more meets rows of an older
\* version only while a reset is marked; who is about to reset has left none.
OverlapInv ==
    /\ \A p \in Processes :
          At(p, "hash") => /\ fingerprint # 0
                           /\ fingerprint = key[p] \/ marker # None \/ rows[0] = "none"
    /\ \A p \in Processes : At(p, "wipe") => rows[0] = "none"
    /\ NoOldRow

\* At most two processes open the store at once.
TwoOpeners == \A p, q, r \in Processes :
    Opening(p) /\ Opening(q) /\ Opening(r) => p = q \/ q = r \/ p = r

\* An opening that goes on a mark it read.
Recalls(p) ==
    \/ pc[p] \in {"read", "retry"} /\ how[p] = "marked"
    \/ At(p, "reset") /\ how[p] = "prefer"

\* Where an opening can be that found neither a mark nor a key that does not match.
Calm(p) ==
    \/ ~Opening(p) \/ pc[p] \in {"start", "hash", "wipe"}
    \/ At(p, "read") /\ how[p] # "marked"
    \/ At(p, "verify") /\ key[p] = file

\* When the reset whose mark an opening recalls is completed, its key stays current:
\* nobody else has seen anything to reset.
CompletedInv ==
    \A p \in Processes :
        Recalls(p) /\ marker = None => /\ file \in Keys /\ fingerprint = file
                                       /\ \A q \in Processes \ {p} : Calm(q)

\* Within a reset, between its two looks at the key file.
Resetting(p) ==
    \/ pc[p] \in {"remove", "commit"}
    \/ pc[p] \in {"create", "fill"} /\ how[p] # "first"

\* A reset holds the lock from its look at the used tokens until it marks its own.
LockInv ==
    \A p \in Processes :
        /\ Resetting(p) => writer = p /\ MayReset(p)
        /\ pc[p] \in {"reset", "remove"} => how[p] # "first"
-----------------------------------------------------------------------------
(* Openings that nothing interrupts, as many at once as there are. *)

Uninterrupted == faults = 0

\* The key file is damaged, not being written.
Spoilt == file = Corrupt /\ \A p \in Processes : ~At(p, "fill")

\* About to create the first key of the store; or to store its fingerprint, unless there
\* turns out to be a row hashed with another one.
First(p) == pc[p] \in {"create", "fill"} /\ how[p] = "first"
Stamping(p) == At(p, "stamp") \/ (At(p, "count") /\ ~KeyBacked)

\* Past the commit of a reset, or sent on to reset the old rows once more.
Finishing(p) == pc[p] \in {"recheck", "wipe"} \/ (At(p, "hash") /\ wipe[p])

\* File and fingerprint agree, nobody is replacing them, and whoever will store a
\* fingerprint or look at it again has that key.
Settled ==
    /\ file \in Keys /\ fingerprint = file /\ writer = None
    /\ \A p \in Processes : Stamping(p) \/ At(p, "recheck") => key[p] = file

\* Where no key was used yet, a damaged file is what brings an opening to a reset, and
\* a key that was read stays where it is.
PristineAt(p) ==
    /\ At(p, "remove") \/ (At(p, "reset") /\ writer = None) => Spoilt
    /\ pc[p] \in {"verify", "count", "stamp", "commit"} => file = key[p]
    /\ At(p, "retry") /\ writer = None => file # Missing

\* What an opening can rely on while others run beside it.
PlaceAt(p) ==
    /\ pc[p] \in {"hash", "wipe"} => fingerprint # 0
    /\ Resetting(p) <=> writer = p
    /\ pc[p] \in {"reset", "remove"} => how[p] # "first"
    /\ At(p, "fresh") /\ how[p] = "rows" => KeyBacked
    /\ At(p, "reset") /\ how[p] # "corrupt" => fingerprint # 0 \/ KeyBacked
    /\ (At(p, "fresh") /\ how[p] # "rows") \/ First(p) \/ At(p, "stamp") => fingerprint # 0 \/ ~KeyBacked
    /\ At(p, "fill") => file = Corrupt /\ lastKey = key[p]
    /\ At(p, "remove") => file # Missing
    /\ pc[p] \in {"missing", "fresh", "create"} => ~Spoilt
    /\ NoKeyUsed => PristineAt(p)

\* Only one process fills the file, and none removes it meanwhile.
FillInv == \A p, q \in Processes : At(p, "fill") /\ pc[q] \in {"fill", "remove"} => p = q

\* A mark is the one of a reset that will be finished.
MarkInv == marker # None => \E p \in Processes : Finishing(p)

\* Once there is a fingerprint, those who will store one, recall a mark or finish a
\* reset go on that of the key in the file.
Relies(p) ==
    \/ fingerprint # 0 /\ (First(p) \/ Stamping(p))
    \/ Recalls(p) \/ Finishing(p)

UninterruptedInv ==
    /\ \A p \in Processes : PlaceAt(p)
    /\ FillInv
    /\ MarkInv
    /\ \A p \in Processes : Relies(p) => Settled
=============================================================================
