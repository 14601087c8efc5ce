------------------------- MODULE StoreOpeningProofs -------------------------
(***************************************************************************)
(* What holds of the openings of the store for any number of processes,    *)
(* tokens, keys, faults and tampers.                                       *)
(***************************************************************************)
EXTENDS StoreOpening, TLAPS

-----------------------------------------------------------------------------
(* The type of the state *)

\* The operations that end an opening, or send it on, keep the types of what the
\* process holds in memory.
Memory == <<pc, key, how, wipe, cause>>

MemoryOK ==
    /\ pc \in [Processes -> Places]
    /\ key \in [Processes -> Keys \cup {0}]
    /\ how \in [Processes -> Modes]
    /\ wipe \in [Processes -> BOOLEAN]
    /\ cause \in [Processes -> Causes]

LEMMA LoadedOK ==
    ASSUME MemoryOK, NEW p \in Processes, NEW k \in Keys, NEW w \in BOOLEAN, Loaded(p, k, w)
    PROVE  MemoryOK'
  BY DEF MemoryOK, Loaded, Goto, Take, Note, Places, Modes, Notes

LEMMA LockedOK ==
    ASSUME MemoryOK, NEW p \in Processes, NEW why \in Causes, Locked(p, why)
    PROVE  MemoryOK'
  BY DEF MemoryOK, Locked, Goto, Take, Note, Places, Modes, Notes

LEMMA MoveOK ==
    ASSUME MemoryOK, NEW p \in Processes, NEW place \in Places, Move(p, place)
    PROVE  MemoryOK'
  BY DEF MemoryOK, Move, Goto, Places

LEMMA ReadableOK ==
    ASSUME MemoryOK, NEW p \in Processes, file \in Keys, NEW b \in BOOLEAN, Readable(p, b)
    PROVE  MemoryOK'
  BY DEF MemoryOK, Readable, Goto, Take, Note, Places, Modes, Notes

LEMMA ResetOK ==
    ASSUME MemoryOK, NEW p \in Processes, NEW m \in Modes, Reset(p, m)
    PROVE  MemoryOK'
  BY DEF MemoryOK, Reset, Goto, Note, Places

\* The steps that only look keep the types.
LEMMA LooksOK ==
    ASSUME MemoryOK, KeyInv, NEW p \in Processes, Looks(p)
    PROVE  MemoryOK'
  <1>0. "opening" \in Causes
    BY DEF Causes, Locks
  <1>1. CASE ReadMarker(p)
    BY <1>1 DEF ReadMarker, MemoryOK, Goto, Note, Places, Modes, Notes
  <1>2. CASE ReadKey(p)
    BY <1>2, ReadableOK, MoveOK, ResetOK DEF ReadKey, Places, Modes, Notes
  <1>3. CASE Retry(p)
    BY <1>0, <1>3, ReadableOK, LockedOK, ResetOK DEF Retry, Modes, Notes
  <1>4. CASE ReadRows(p)
    <2>1. CASE Locked(p, "opening")
      BY <1>0, <2>1, LockedOK
    <2>2. CASE ~Locked(p, "opening")
      BY <1>4, <2>2 DEF ReadRows, MemoryOK, Goto, Note, Places, Modes, Notes
    <2> QED
      BY <2>1, <2>2
  <1>5. CASE ReadFingerprint(p)
    <2>1. CASE fingerprint # 0 /\ ~Armed(p)
      BY <1>0, <1>5, <2>1, ReadableOK, LockedOK DEF ReadFingerprint
    <2>2. CASE ~ (fingerprint # 0 /\ ~Armed(p)) /\ (fingerprint # 0 \/ how[p] = "rows")
      BY <1>5, <2>2, ResetOK DEF ReadFingerprint, Modes, Notes
    <2>3. CASE ~ (fingerprint # 0 \/ how[p] = "rows")
      BY <1>5, <2>3 DEF ReadFingerprint, MemoryOK, Goto, Note, Places, Modes, Notes
    <2> QED
      BY <2>1, <2>2, <2>3
  <1>6. CASE Verify(p)
    <2>1. key[p] \in Keys
      BY <1>6 DEF KeyInv, HoldsKey, Verify, At
    <2> QED
      BY <1>0, <1>6, <2>1, MoveOK, LoadedOK, ResetOK, LockedOK DEF Verify, Places, Modes, Notes
  <1>7. CASE CountRows(p)
    BY <1>0, <1>7, MoveOK, ResetOK, LockedOK DEF CountRows, Places, Modes, Notes
  <1>8. CASE Recheck(p)
    <2>1. key[p] \in Keys
      BY <1>8 DEF KeyInv, HoldsKey, Recheck, At
    <2> QED
      BY <1>0, <1>8, <2>1, LoadedOK, LockedOK DEF Recheck
  <1> QED
    BY <1>1, <1>2, <1>3, <1>4, <1>5, <1>6, <1>7, <1>8 DEF Looks

\* The rest of the types.
StoredOK ==
    /\ file \in Keys \cup {Missing, Corrupt}
    /\ lastKey \in 0..MaxKeys
    /\ fingerprint \in Keys \cup {0}
    /\ marker \in Tokens \cup {None}
    /\ consumed \subseteq Tokens
    /\ writer \in Processes \cup {None}
    /\ rows \in [Keys \cup {0} -> {"none", "pending", "closed"}]
    /\ opt \in [Processes -> Tokens \cup {None}]
    /\ alone \subseteq Processes
    /\ tampers \in 0..MaxTampers
    /\ faults \in 0..MaxFaults

LEMMA TypeParts == TypeOK <=> StoredOK /\ MemoryOK
  BY DEF TypeOK, StoredOK, MemoryOK

\* The token of a process is one.
LEMMA TokenType == ASSUME StoredOK, NEW p \in Processes PROVE TokenOf(p) \in Tokens
  BY StoreOpeningAssumption DEF StoredOK, TokenOf, Armed

\* The type of the state is kept by every step.
LEMMA StepTypeOK == TypeOK /\ KeyInv /\ [Next]_vars => TypeOK'
  <1> SUFFICES ASSUME StoredOK, MemoryOK, KeyInv, [Next]_vars PROVE StoredOK' /\ MemoryOK'
    BY TypeParts, PTL
  <1>0. "opening" \in Causes /\ "fault" \in Causes /\ "stale" \in Causes /\ None \in Causes
    BY DEF Causes, Locks
  <1>mm. ASSUME UNCHANGED Memory PROVE MemoryOK'
    BY <1>mm DEF Memory, MemoryOK
  <1>en. ASSUME NEW p \in Processes, End(p) PROVE /\ MemoryOK'
                                                /\ opt' \in [Processes -> Tokens \cup {None}]
                                                /\ writer' \in Processes \cup {None}
                                                /\ UNCHANGED <<file, lastKey, stored, alone, tampers>>
    BY <1>0, <1>en DEF End, MemoryOK, StoredOK, Take, Note, Places, Modes, Notes
  <1>1. ASSUME NEW p \in Processes, Open(p) PROVE StoredOK' /\ MemoryOK'
    <2>1. MemoryOK'
      BY <1>1 DEF Open, Goto, MemoryOK, Places
    <2>2. opt' \in [Processes -> Tokens \cup {None}] /\ alone' \subseteq Processes
      BY <1>1 DEF Open, StoredOK
    <2> QED
      BY <1>1, <2>1, <2>2 DEF Open, StoredOK, stored
  <1>2. ASSUME NEW p \in Processes, Looks(p) PROVE StoredOK' /\ MemoryOK'
    BY <1>2, LooksOK DEF Looks, StoredOK, stored, limits
  <1>3. ASSUME NEW p \in Processes, Replaces(p) PROVE StoredOK' /\ MemoryOK'
    <2>0. UNCHANGED <<stored, opt, limits>>
      BY <1>3 DEF Replaces
    <2>1. CASE StartReset(p) /\ UNCHANGED <<file, lastKey>>
      <3>1. writer' \in Processes \cup {None}
        BY <2>1 DEF StartReset, StoredOK
      <3>2. MemoryOK'
        <4>1. CASE file \in Keys /\ Loaded(p, file, marker # None)
          BY <4>1, LoadedOK
        <4>2. CASE file \in Keys /\ Goto(p, "commit") /\ Take(p, file) /\ UNCHANGED <<how, wipe, cause>>
          BY <4>2 DEF MemoryOK, Goto, Take, Places
        <4>3. CASE Locked(p, "opening")
          BY <1>0, <4>3, LockedOK
        <4>4. CASE Move(p, IF file = Missing THEN "create" ELSE "remove")
          BY <4>4, MoveOK DEF Places
        <4> QED
          BY <2>1, <4>1, <4>2, <4>3, <4>4 DEF StartReset
      <3> QED
        BY <2>0, <2>1, <3>1, <3>2 DEF StoredOK, stored, limits
    <2>2. CASE Remove(p)
      BY <2>0, <2>2, MoveOK DEF Remove, StoredOK, stored, limits, Places
    <2>3. CASE Create(p)
      <3>1. /\ file' \in Keys \cup {Missing, Corrupt} /\ lastKey' \in 0..MaxKeys
            /\ writer' \in Processes \cup {None}
        BY <2>3, StoreOpeningAssumption DEF Create, StoredOK
      <3>2. MemoryOK'
        <4>1. CASE file = Missing
          <5>1. lastKey' \in Keys /\ key' = [key EXCEPT ![p] = lastKey']
                /\ UNCHANGED <<how, wipe, cause>> /\ pc' = [pc EXCEPT ![p] = "fill"]
            BY <2>3, <4>1, StoreOpeningAssumption
               DEF Create, StoredOK, Keys, Missing, Corrupt, Goto, Take
          <5> QED
            BY <5>1 DEF MemoryOK, Places
        <4>2. CASE file \in Keys
          <5>1. key' = [key EXCEPT ![p] = file] /\ UNCHANGED <<how, wipe, cause>>
                /\ \E place \in {"stamp", "commit"} : pc' = [pc EXCEPT ![p] = place]
            BY <2>3, <4>2, StoreOpeningAssumption DEF Create, Keys, Missing, Corrupt, Goto, Take
          <5> QED
            BY <4>2, <5>1 DEF MemoryOK, Places
        <4>3. CASE file = Corrupt
          <5>1. Locked(p, "opening")
            BY <2>3, <4>3, StoreOpeningAssumption DEF Create, Keys, Missing, Corrupt
          <5> QED
            BY <1>0, <5>1, LockedOK
        <4> QED
          BY <4>1, <4>2, <4>3 DEF StoredOK
      <3> QED
        BY <2>0, <3>1, <3>2 DEF StoredOK, stored, limits
    <2>4. CASE Fill(p)
      <3>1. key[p] \in Keys
        BY <2>4 DEF Fill, KeyInv, HoldsKey, At
      <3> QED
        BY <2>0, <2>4, <3>1, MoveOK DEF Fill, StoredOK, stored, limits, Places
    <2> QED
      BY <1>3, <2>1, <2>2, <2>3, <2>4 DEF Replaces
  <1>4. ASSUME NEW p \in Processes, Stamp(p) PROVE StoredOK' /\ MemoryOK'
    <2>1. key[p] \in Keys
      BY <1>4 DEF Stamp, KeyInv, HoldsKey, At
    <2> QED
      BY <1>4, <2>1, LoadedOK DEF Stamp, StoredOK, limits
  <1>5. ASSUME NEW p \in Processes, Commit(p) PROVE StoredOK' /\ MemoryOK'
    <2>1. key[p] \in Keys
      BY <1>5 DEF Commit, KeyInv, HoldsKey, At
    <2>2. MemoryOK'
      BY <1>0, <1>5, MoveOK, LockedOK DEF Commit, Places
    <2>3. fingerprint' \in Keys \cup {0} /\ marker' \in Tokens \cup {None} /\ writer' = None
      BY <1>5, <2>1, TokenType DEF Commit, StoredOK
    <2> QED
      BY <1>5, <2>2, <2>3 DEF Commit, StoredOK, limits
  <1>6. ASSUME NEW p \in Processes, Hash(p) PROVE StoredOK' /\ MemoryOK'
    <2>1. rows' \in [Keys \cup {0} -> {"none", "pending", "closed"}]
      BY <1>6 DEF Hash, StoredOK
    <2>2. MemoryOK'
      BY <1>6, MoveOK DEF Hash, Places
    <2> QED
      BY <1>6, <2>1, <2>2 DEF Hash, StoredOK, limits
  <1>7. ASSUME NEW p \in Processes, Wipe(p) PROVE StoredOK' /\ MemoryOK'
    <2>1. CASE file \in Keys
      <3>1. rows' \in [Keys \cup {0} -> {"none", "pending", "closed"}]
        BY <1>7, <2>1 DEF Wipe, StoredOK
      <3>2. consumed' \subseteq Tokens
        BY <1>7, <2>1, TokenType DEF Wipe, StoredOK
      <3>3. MemoryOK'
        BY <1>7, <2>1 DEF Wipe, MemoryOK, Goto, Take, Places
      <3> QED
        BY <1>7, <2>1, <3>1, <3>2, <3>3 DEF Wipe, StoredOK, limits
    <2>2. CASE file \notin Keys
      BY <1>0, <1>7, <2>2, LockedOK DEF Wipe, StoredOK, stored, limits
    <2> QED
      BY <2>1, <2>2
  <1>8. ASSUME NEW p \in Processes, Uses(p) PROVE StoredOK' /\ MemoryOK'
    <2>1. CASE NoticeStale(p)
      BY <1>0, <2>1 DEF NoticeStale, StoredOK, MemoryOK, stored, limits
    <2>2. CASE ~NoticeStale(p)
      <3>1. rows' \in [Keys \cup {0} -> {"none", "pending", "closed"}]
        BY <1>8, <2>2 DEF Uses, Enqueue, Deliver, Prune, StoredOK
      <3>2. UNCHANGED <<file, lastKey, fingerprint, marker, consumed, writer, opt, limits>>
            /\ UNCHANGED Memory
        BY <1>8, <2>2 DEF Uses, Enqueue, Deliver, Prune, Memory
      <3> QED
        BY <1>mm, <3>1, <3>2 DEF StoredOK, limits
    <2> QED
      BY <2>1, <2>2
  <1>9. ASSUME NEW p \in Processes, Close(p) \/ Crash(p) PROVE StoredOK' /\ MemoryOK'
    <2>1. End(p) /\ faults' \in 0..MaxFaults
      BY <1>9, StoreOpeningAssumption DEF Close, Crash, StoredOK
    <2> QED
      BY <1>en, <2>1 DEF StoredOK, stored
  <1>10. ASSUME NEW p \in Processes, Fail(p) PROVE StoredOK' /\ MemoryOK'
    <2>1. faults' \in 0..MaxFaults /\ file' \in Keys \cup {Missing, Corrupt}
          /\ writer' \in Processes \cup {None}
      BY <1>10, StoreOpeningAssumption DEF Fail, StoredOK
    <2> QED
      BY <1>0, <1>10, <2>1, LockedOK DEF Fail, StoredOK, stored
  <1>11. CASE Tamper
    BY <1>11, <1>mm, StoreOpeningAssumption DEF Tamper, StoredOK, stored, Memory
  <1>12. CASE UNCHANGED vars
    BY <1>12, <1>mm DEF vars, StoredOK, Memory
  <1> QED
    BY <1>1, <1>2, <1>3, <1>4, <1>5, <1>6, <1>7, <1>8, <1>9, <1>10, <1>11, <1>12 DEF Next, Opens

-----------------------------------------------------------------------------
(* Who holds a key *)

\* What KeyInv says of process p.
KeyAt(p) ==
    /\ HoldsKey(p) \/ Unlocked(p) => key[p] \in Keys
    /\ Opening(p) \/ At(p, "down") => cause[p] = None

\* A step of one process changes nothing that the others remember.
OthersKeep(p) ==
    \A q \in Processes \ {p} : /\ pc'[q] = pc[q] /\ key'[q] = key[q] /\ how'[q] = how[q]
                               /\ wipe'[q] = wipe[q] /\ cause'[q] = cause[q]

LEMMA LoadedEffect ==
    ASSUME MemoryOK, NEW p \in Processes, NEW k, NEW w, Loaded(p, k, w)
    PROVE  /\ OthersKeep(p)
           /\ pc'[p] = "hash" /\ key'[p] = k /\ wipe'[p] = w /\ how'[p] = None
           /\ cause'[p] = cause[p]
  BY DEF MemoryOK, Loaded, Goto, Take, Note, OthersKeep

LEMMA LockedEffect ==
    ASSUME MemoryOK, NEW p \in Processes, NEW why, Locked(p, why)
    PROVE  OthersKeep(p) /\ pc'[p] = "up" /\ cause'[p] = why
  BY DEF MemoryOK, Locked, Goto, Take, Note, OthersKeep

LEMMA MoveEffect ==
    ASSUME MemoryOK, NEW p \in Processes, NEW place, Move(p, place)
    PROVE  /\ OthersKeep(p)
           /\ pc'[p] = place /\ key'[p] = key[p] /\ how'[p] = how[p] /\ wipe'[p] = wipe[p]
           /\ cause'[p] = cause[p]
  BY DEF MemoryOK, Move, Goto, OthersKeep

LEMMA ReadableEffect ==
    ASSUME MemoryOK, NEW p \in Processes, NEW b \in BOOLEAN, Readable(p, b)
    PROVE  /\ OthersKeep(p) /\ cause'[p] = cause[p]
           /\ b => pc'[p] = "reset" /\ how'[p] = "prefer"
           /\ ~b => pc'[p] = "verify" /\ key'[p] = file
  BY DEF MemoryOK, Readable, Goto, Take, Note, OthersKeep

LEMMA ResetEffect ==
    ASSUME MemoryOK, NEW p \in Processes, NEW m, Reset(p, m)
    PROVE  OthersKeep(p) /\ pc'[p] = "reset" /\ how'[p] = m /\ cause'[p] = cause[p]
  BY DEF MemoryOK, Reset, Goto, Note, OthersKeep

LEMMA EndEffect ==
    ASSUME MemoryOK, NEW p \in Processes, End(p)
    PROVE  /\ OthersKeep(p) /\ pc'[p] = "down" /\ cause'[p] = None
  BY DEF MemoryOK, End, Take, Note, OthersKeep

\* What an opening does keeps to itself, and leaves it with a key wherever it needs
\* one.
LEMMA OpensEffect ==
    ASSUME StoredOK, MemoryOK, NEW p \in Processes, KeyAt(p), Opens(p)
    PROVE  OthersKeep(p) /\ KeyAt(p)'
  <1>1. Opening(p)
    BY DEF Opens, Looks, Replaces, ReadMarker, ReadKey, Retry, ReadRows, ReadFingerprint, Verify,
           CountRows, Recheck, StartReset, Remove, Create, Fill, Stamp, Commit, Hash, Wipe,
           Opening, At
  <1>2. cause[p] = None
    BY <1>1 DEF KeyAt
  <1>hk. HoldsKey(p) => key[p] \in Keys
    BY DEF KeyAt
  <1>ld. ASSUME NEW k \in Keys, NEW w, Loaded(p, k, w) PROVE OthersKeep(p) /\ KeyAt(p)'
    BY <1>2, <1>ld, LoadedEffect DEF KeyAt, HoldsKey, Unlocked, Opening, At
  <1>lk. ASSUME NEW why, why # None, Locked(p, why) PROVE OthersKeep(p) /\ KeyAt(p)'
    BY <1>lk, LockedEffect DEF KeyAt, HoldsKey, Unlocked, Opening, At
  <1>rs. ASSUME NEW m, Reset(p, m) PROVE OthersKeep(p) /\ KeyAt(p)'
    BY <1>2, <1>rs, ResetEffect DEF KeyAt, HoldsKey, Unlocked, Opening, At
  <1>rd. ASSUME file \in Keys, NEW b \in BOOLEAN, Readable(p, b) PROVE OthersKeep(p) /\ KeyAt(p)'
    BY <1>2, <1>rd, ReadableEffect DEF KeyAt, HoldsKey, Unlocked, Opening, At
  <1>mv. ASSUME NEW place, Move(p, place),
                place \in {"retry", "missing", "reset", "remove", "create"} \/ HoldsKey(p)
         PROVE  OthersKeep(p) /\ KeyAt(p)'
    BY <1>1, <1>2, <1>hk, <1>mv, MoveEffect DEF KeyAt, HoldsKey, Unlocked, Opening, At
  <1>0. "opening" # None
    BY StoreOpeningAssumption DEF Locks
  <1>3. CASE Looks(p)
    <2>1. CASE ReadMarker(p)
      BY <1>2, <2>1 DEF ReadMarker, Goto, Note, MemoryOK, OthersKeep, KeyAt, HoldsKey, Unlocked, Opening, At
    <2>2. CASE ReadKey(p)
      BY <1>rd, <1>rs, <1>mv, <2>2 DEF ReadKey
    <2>3. CASE Retry(p)
      BY <1>0, <1>rd, <1>rs, <1>lk, <2>3 DEF Retry
    <2>4. CASE ReadRows(p)
      <3>1. CASE Locked(p, "opening")
        BY <1>0, <1>lk, <3>1
      <3>2. CASE ~Locked(p, "opening")
        BY <1>2, <2>4, <3>2
           DEF ReadRows, Goto, Note, MemoryOK, OthersKeep, KeyAt, HoldsKey, Unlocked, Opening, At
      <3> QED
        BY <3>1, <3>2
    <2>5. CASE ReadFingerprint(p)
      <3>1. CASE Goto(p, "create") /\ Note(p, "first") /\ UNCHANGED <<key, wipe, cause>>
        BY <1>2, <3>1 DEF Goto, Note, MemoryOK, OthersKeep, KeyAt, HoldsKey, Unlocked, Opening, At
      <3> QED
        BY <1>0, <1>rd, <1>rs, <1>lk, <2>5, <3>1 DEF ReadFingerprint
    <2>6. CASE Verify(p)
      <3>1. HoldsKey(p)
        BY <2>6 DEF Verify, HoldsKey, At
      <3> QED
        BY <1>0, <1>hk, <1>mv, <1>ld, <1>rs, <1>lk, <2>6, <3>1 DEF Verify
    <2>7. CASE CountRows(p)
      <3>1. HoldsKey(p)
        BY <2>7 DEF CountRows, HoldsKey, At
      <3> QED
        BY <1>0, <1>mv, <1>rs, <1>lk, <2>7, <3>1 DEF CountRows
    <2>8. CASE Recheck(p)
      <3>1. HoldsKey(p)
        BY <2>8 DEF Recheck, HoldsKey, At
      <3> QED
        BY <1>0, <1>hk, <1>ld, <1>lk, <2>8, <3>1 DEF Recheck
    <2> QED
      BY <1>3, <2>1, <2>2, <2>3, <2>4, <2>5, <2>6, <2>7, <2>8 DEF Looks
  <1>4. CASE Replaces(p)
    <2>tk. ASSUME NEW place, NEW k \in Keys, Goto(p, place), Take(p, k), UNCHANGED <<how, wipe, cause>>,
                  place # "down"
           PROVE  OthersKeep(p) /\ KeyAt(p)'
      BY <1>2, <2>tk DEF Goto, Take, MemoryOK, OthersKeep, KeyAt, HoldsKey, Unlocked, Opening, At
    <2>1. CASE StartReset(p)
      <3>1. CASE Move(p, IF file = Missing THEN "create" ELSE "remove")
        BY <1>mv, <3>1
      <3> QED
        BY <1>0, <1>ld, <1>lk, <2>tk, <2>1, <3>1 DEF StartReset
    <2>2. CASE Remove(p)
      BY <1>mv, <2>2 DEF Remove
    <2>3. CASE Create(p)
      <3>1. CASE file = Missing
        <4>1. lastKey' \in Keys /\ Goto(p, "fill") /\ Take(p, lastKey') /\ UNCHANGED <<how, wipe, cause>>
          BY <2>3, <3>1, StoreOpeningAssumption DEF Create, StoredOK, Keys, Missing, Corrupt
        <4> QED
          BY <2>tk, <4>1
      <3>2. CASE file \in Keys
        <4>1. \E place \in {"stamp", "commit"} : Goto(p, place) /\ Take(p, file) /\ UNCHANGED <<how, wipe, cause>>
          BY <2>3, <3>2, StoreOpeningAssumption DEF Create, Keys, Missing, Corrupt
        <4> QED
          BY <2>tk, <3>2, <4>1
      <3>3. CASE file = Corrupt
        <4>1. Locked(p, "opening")
          BY <2>3, <3>3, StoreOpeningAssumption DEF Create, Keys, Missing, Corrupt
        <4> QED
          BY <1>0, <1>lk, <4>1
      <3> QED
        BY <3>1, <3>2, <3>3 DEF StoredOK
    <2>4. CASE Fill(p)
      <3>1. HoldsKey(p)
        BY <2>4 DEF Fill, HoldsKey, At
      <3> QED
        BY <1>mv, <2>4, <3>1 DEF Fill
    <2> QED
      BY <1>4, <2>1, <2>2, <2>3, <2>4 DEF Replaces
  <1>5. CASE Stamp(p) \/ Commit(p) \/ Hash(p) \/ Wipe(p)
    <2>1. HoldsKey(p)
      BY <1>5 DEF Stamp, Commit, Hash, Wipe, HoldsKey, At
    <2>2. CASE Stamp(p)
      BY <1>hk, <1>ld, <2>1, <2>2 DEF Stamp
    <2>3. CASE Commit(p)
      BY <1>0, <1>lk, <1>mv, <2>1, <2>3 DEF Commit
    <2>4. CASE Hash(p)
      <3>1. Move(p, IF wipe[p] THEN "wipe" ELSE "up")
        BY <2>4 DEF Hash
      <3> QED
        BY <1>mv, <2>1, <3>1
    <2>5. CASE Wipe(p)
      <3>1. CASE file \in Keys
        BY <1>2, <2>5, <3>1
           DEF Wipe, Goto, Take, MemoryOK, OthersKeep, KeyAt, HoldsKey, Unlocked, Opening, At
      <3> QED
        BY <1>0, <1>lk, <2>5, <3>1 DEF Wipe
    <2> QED
      BY <1>5, <2>2, <2>3, <2>4, <2>5
  <1> QED
    BY <1>3, <1>4, <1>5 DEF Opens

\* Of the other steps of a process.
LEMMA OwnEffect ==
    ASSUME MemoryOK, NEW p \in Processes, KeyAt(p),
           Open(p) \/ Uses(p) \/ Close(p) \/ Crash(p) \/ Fail(p)
    PROVE  OthersKeep(p) /\ KeyAt(p)'
  <1>1. CASE Open(p)
    BY <1>1 DEF Open, Goto, MemoryOK, OthersKeep, KeyAt, HoldsKey, Unlocked, Opening, At
  <1>2. CASE NoticeStale(p)
    <2>1. "stale" # None
      BY StoreOpeningAssumption DEF Locks
    <2> QED
      BY <1>2, <2>1 DEF NoticeStale, MemoryOK, OthersKeep, KeyAt, HoldsKey, Unlocked, Opening, At
  <1>3. CASE Enqueue(p) \/ Deliver(p) \/ Prune(p)
    BY <1>3 DEF Enqueue, Deliver, Prune, OthersKeep, KeyAt, HoldsKey, Unlocked, Opening, At
  <1>4. CASE Close(p) \/ Crash(p)
    <2>1. End(p)
      BY <1>4 DEF Close, Crash
    <2> QED
      BY <2>1, EndEffect DEF KeyAt, HoldsKey, Unlocked, Opening, At
  <1>5. CASE Fail(p)
    <2>1. Locked(p, "fault") /\ "fault" # None
      BY <1>5, StoreOpeningAssumption DEF Fail, Locks
    <2> QED
      BY <2>1, LockedEffect DEF KeyAt, HoldsKey, Unlocked, Opening, At
  <1> QED
    BY <1>1, <1>2, <1>3, <1>4, <1>5 DEF Uses

\* KeyInv is kept by every step.
LEMMA StepKeyInv == TypeOK /\ KeyInv /\ [Next]_vars => KeyInv'
  <1> SUFFICES ASSUME StoredOK, MemoryOK, KeyInv, [Next]_vars,
                      NEW q \in Processes
               PROVE  KeyAt(q)'
    BY TypeParts DEF KeyInv, KeyAt
  <1>0. \A p \in Processes : KeyAt(p)
    BY DEF KeyInv, KeyAt
  <1>1. ASSUME NEW p \in Processes, OthersKeep(p) /\ KeyAt(p)' PROVE KeyAt(q)'
    <2>1. CASE q # p
      BY <1>0, <1>1, <2>1 DEF OthersKeep, KeyAt, HoldsKey, Unlocked, Opening, At
    <2> QED
      BY <1>1, <2>1
  <1>2. ASSUME UNCHANGED <<pc, key, cause>> PROVE KeyAt(q)'
    BY <1>0, <1>2 DEF KeyAt, HoldsKey, Unlocked, Opening, At
  <1> QED
    BY <1>0, <1>1, <1>2, OpensEffect, OwnEffect DEF Next, Tamper, vars

\* Every state has its type, and whoever holds a key, or an open store with its
\* alerts, has one: no opening takes an unreadable file or no file at all for a key
\* (readAlertDedupeKeyWithRetry, createAlertDedupeKey), whatever was lost, damaged or
\* half written.
THEOREM TypeCorrect == Spec => [](TypeOK /\ KeyInv)
  <1>1. Init => TypeOK
    BY StoreOpeningAssumption DEF Init, TypeOK, Keys, Missing, Places, Modes, Notes, Causes, Locks
  <1>2. Init => KeyInv
    BY DEF Init, KeyInv, HoldsKey, Unlocked, Opening, At
  <1> QED
    BY <1>1, <1>2, StepTypeOK, StepKeyInv, PTL DEF Spec

\* TypeOK, the part of it that the runs check.
THEOREM TypesHold == Spec => []TypeOK
  BY TypeCorrect, PTL

-----------------------------------------------------------------------------
(* What an opening that meets no other one knows *)

Solo(p) == \A q \in Processes : Opening(q) => q = p

\* The steps of the opening itself.
LEMMA OpensKnows ==
    ASSUME StoredOK, MemoryOK, NEW p \in Processes, KeyAt(p), Opening(p), Solo(p), Knows(p), Opens(p)
    PROVE  Opening(p)' => Knows(p)'
  <1>0. /\ None \notin Notes \cup Locks /\ Missing \notin Keys /\ Corrupt \notin Keys
        /\ Missing # Corrupt /\ 0 \notin Keys
    BY StoreOpeningAssumption DEF Keys, Missing, Corrupt
  <1>k. HoldsKey(p) => key[p] \in Keys
    BY DEF KeyAt
  <1>lk. ASSUME NEW why, Locked(p, why) PROVE ~Opening(p)'
    BY <1>lk, LockedEffect DEF Opening
  <1>1. CASE Looks(p)
    <2>0. UNCHANGED <<file, lastKey, fingerprint, marker, consumed, rows, opt>>
      BY <1>1 DEF Looks, stored
    <2>ld. ASSUME NEW w, Loaded(p, key[p], w), file = key[p], fingerprint = key[p] PROVE Knows(p)'
      BY <2>0, <2>ld, LoadedEffect DEF Knows, At
    <2>rs. ASSUME NEW m \in Notes, Reset(p, m), m # "first", m = "prefer" => marker # None PROVE Knows(p)'
      BY <2>0, <2>rs, ResetEffect DEF Knows, At
    <2>rd. ASSUME NEW b \in BOOLEAN, Readable(p, b), b => marker # None PROVE Knows(p)'
      BY <2>0, <2>rd, ReadableEffect DEF Knows, At
    <2>1. CASE ReadMarker(p)
      <3>1. pc'[p] = "read" /\ (how'[p] = "marked" => marker # None)
        BY <1>0, <2>1 DEF ReadMarker, Goto, Note, MemoryOK, Notes
      <3> QED
        BY <2>0, <3>1 DEF Knows, At
    <2>2. CASE ReadKey(p)
      <3>1. CASE file \in Keys
        BY <2>2, <2>rd, <3>1 DEF ReadKey, Knows, At
      <3>2. CASE file = Corrupt
        <4>1. pc'[p] = "retry" /\ how'[p] = how[p]
          BY <1>0, <2>2, <3>2, MoveEffect DEF ReadKey
        <4> QED
          BY <2>0, <2>2, <4>1 DEF ReadKey, Knows, At
      <3>3. CASE file = Missing /\ how[p] = "marked"
        BY <1>0, <2>2, <2>rs, <3>3 DEF ReadKey, Knows, At, Notes
      <3>4. CASE file = Missing /\ how[p] # "marked"
        <4>1. pc'[p] = "missing"
          BY <1>0, <2>2, <3>4, MoveEffect DEF ReadKey
        <4> QED
          BY <2>0, <3>4, <4>1 DEF Knows, At
      <3> QED
        BY <3>1, <3>2, <3>3, <3>4 DEF StoredOK
    <2>3. CASE Retry(p)
      <3>1. CASE file \in Keys
        BY <2>3, <2>rd, <3>1 DEF Retry, Knows, At
      <3>2. CASE file \notin Keys
        BY <2>3, <2>rs, <1>lk, <3>2 DEF Retry, Notes
      <3> QED
        BY <3>1, <3>2
    <2>4. CASE ReadRows(p)
      <3>1. CASE Locked(p, "opening")
        BY <1>lk, <3>1
      <3>2. CASE ~Locked(p, "opening")
        <4>1. pc'[p] = "fresh" /\ how'[p] = IF KeyBacked THEN "rows" ELSE None
          BY <2>4, <3>2 DEF ReadRows, Goto, Note, MemoryOK
        <4>2. file = Missing
          BY <2>4 DEF ReadRows, Knows, At
        <4> QED
          BY <1>0, <2>0, <4>1, <4>2 DEF Knows, At, KeyBacked, Notes
      <3> QED
        BY <3>1, <3>2
    <2>5. CASE ReadFingerprint(p)
      <3>0. file = Missing /\ (how[p] # "rows" /\ fingerprint = 0 => ~KeyBacked)
        BY <2>5 DEF ReadFingerprint, Knows, At
      <3>1. CASE fingerprint # 0 /\ ~Armed(p)
        BY <1>0, <1>lk, <2>5, <3>0, <3>1 DEF ReadFingerprint
      <3>2. CASE ~ (fingerprint # 0 /\ ~Armed(p)) /\ (fingerprint # 0 \/ how[p] = "rows")
        BY <2>5, <2>rs, <3>2 DEF ReadFingerprint, Notes
      <3>3. CASE fingerprint = 0 /\ how[p] # "rows"
        <4>1. pc'[p] = "create" /\ how'[p] = "first"
          BY <2>5, <3>3 DEF ReadFingerprint, Goto, Note, MemoryOK
        <4>2. NoKeyUsed'
          BY <2>0, <3>0, <3>3 DEF NoKeyUsed, KeyBacked
        <4> QED
          BY <2>0, <3>0, <4>1, <4>2 DEF Knows, At
      <3> QED
        BY <3>1, <3>2, <3>3
    <2>6. CASE Verify(p)
      <3>0. file = key[p]
        BY <2>6 DEF Verify, Knows, At
      <3>1. CASE fingerprint = 0
        <4>1. pc'[p] = "count" /\ key'[p] = key[p]
          BY <2>6, <3>1, MoveEffect DEF Verify
        <4> QED
          BY <2>0, <3>0, <3>1, <4>1 DEF Knows, At
      <3>2. CASE fingerprint # 0
        BY <1>lk, <2>6, <2>ld, <2>rs, <3>0, <3>2 DEF Verify, Notes
      <3> QED
        BY <3>1, <3>2
    <2>7. CASE CountRows(p)
      <3>0. file = key[p] /\ fingerprint = 0
        BY <2>7 DEF CountRows, Knows, At
      <3>1. CASE ~KeyBacked
        <4>1. pc'[p] = "stamp" /\ key'[p] = key[p]
          BY <2>7, <3>1, MoveEffect DEF CountRows
        <4>2. NoKeyUsed'
          BY <2>0, <3>0, <3>1 DEF NoKeyUsed, KeyBacked
        <4> QED
          BY <2>0, <3>0, <4>1, <4>2 DEF Knows, At
      <3>2. CASE KeyBacked
        BY <1>lk, <2>7, <2>rs, <3>2 DEF CountRows, Notes
      <3> QED
        BY <3>1, <3>2
    <2>8. CASE Recheck(p)
      BY <1>lk, <2>8, <2>ld DEF Recheck
    <2> QED
      BY <1>1, <2>1, <2>2, <2>3, <2>4, <2>5, <2>6, <2>7, <2>8 DEF Looks
  <1>2. CASE Replaces(p)
    <2>0. UNCHANGED <<fingerprint, marker, consumed, rows, opt>>
      BY <1>2 DEF Replaces, stored
    <2>1. NoKeyUsed' = NoKeyUsed /\ MayReset(p)' = MayReset(p)
      BY <2>0 DEF NoKeyUsed, KeyBacked, MayReset, TokenOf, Armed
    <2>2. CASE StartReset(p) /\ UNCHANGED <<file, lastKey>>
      <3>0. At(p, "reset") /\ how[p] # "first" /\ (how[p] = "prefer" => marker # None)
        BY <2>2 DEF StartReset, Knows
      <3>1. CASE file \in Keys /\ fingerprint = file
        <4>1. Loaded(p, file, marker # None)
          BY <2>2, <3>1 DEF StartReset
        <4>2. pc'[p] = "hash" /\ key'[p] = file
          BY <4>1, LoadedEffect
        <4> QED
          BY <2>0, <2>2, <3>1, <4>2 DEF Knows, At
      <3>2. CASE Goto(p, "commit") /\ Take(p, file) /\ how[p] = "prefer"
        <4>1. pc'[p] = "commit" /\ key'[p] = file
          BY <3>2 DEF Goto, Take, MemoryOK
        <4>2. MayReset(p)
          BY <3>0, <3>2 DEF MayReset
        <4> QED
          BY <2>1, <2>2, <4>1, <4>2 DEF Knows, At
      <3>3. CASE Move(p, IF file = Missing THEN "create" ELSE "remove") /\ ~Spent(p)
        <4>1. pc'[p] = (IF file = Missing THEN "create" ELSE "remove") /\ how'[p] = how[p]
          BY <3>3, MoveEffect
        <4>2. MayReset(p)
          BY <3>3 DEF MayReset, Spent
        <4> QED
          BY <2>1, <2>2, <3>0, <4>1, <4>2 DEF Knows, At
      <3> QED
        BY <1>lk, <2>2, <3>1, <3>2, <3>3 DEF StartReset
    <2>3. CASE Remove(p)
      <3>1. pc'[p] = "create" /\ how'[p] = how[p] /\ how[p] # "first" /\ MayReset(p) /\ file' = Missing
        BY <2>3, MoveEffect DEF Remove, Knows, At
      <3> QED
        BY <2>1, <3>1 DEF Knows, At
    <2>4. CASE Create(p)
      <3>1. file = Missing /\ (IF how[p] = "first" THEN NoKeyUsed ELSE MayReset(p))
        BY <2>4 DEF Create, Knows, At
      <3>2. pc'[p] = "fill" /\ how'[p] = how[p] /\ file' = Corrupt /\ key'[p] = lastKey'
        BY <1>0, <2>4, <3>1 DEF Create, Goto, Take, MemoryOK
      <3> QED
        BY <2>1, <3>1, <3>2 DEF Knows, At
    <2>5. CASE Fill(p)
      <3>1. file = Corrupt /\ lastKey = key[p] /\ (IF how[p] = "first" THEN NoKeyUsed ELSE MayReset(p))
        BY <2>5 DEF Fill, Knows, At
      <3>2. /\ pc'[p] = (IF how[p] = "first" THEN "stamp" ELSE "commit")
            /\ key'[p] = key[p] /\ file' = key[p]
        BY <2>5, <3>1, MoveEffect DEF Fill
      <3> QED
        BY <2>1, <3>1, <3>2 DEF Knows, At
    <2> QED
      BY <1>2, <2>2, <2>3, <2>4, <2>5 DEF Replaces
  <1>3. CASE Stamp(p)
    <2>1. pc'[p] = "hash" /\ key'[p] = key[p]
      BY <1>3, LoadedEffect DEF Stamp
    <2>2. file = key[p]
      BY <1>3 DEF Stamp, Knows, At
    <2> QED
      BY <1>3, <2>1, <2>2 DEF Knows, At, Stamp
  <1>4. CASE Commit(p)
    <2>1. file = key[p]
      BY <1>4 DEF Commit, Knows, At
    <2>2. pc'[p] = "recheck" /\ key'[p] = key[p] /\ fingerprint' = key[p] /\ file' = file
      BY <1>4, <2>1, MoveEffect DEF Commit
    <2> QED
      BY <2>1, <2>2 DEF Knows, At
  <1>5. CASE Hash(p)
    <2>1. file = key[p] /\ fingerprint = key[p]
      BY <1>5 DEF Hash, Knows, At
    <2>2. pc'[p] \in {"wipe", "up"} /\ key'[p] = key[p]
      BY <1>5, MoveEffect DEF Hash
    <2> QED
      BY <1>5, <2>1, <2>2 DEF Knows, At, Hash, Opening
  <1>6. CASE Wipe(p)
    <2>1. CASE file \in Keys
      BY <1>6, <2>1 DEF Wipe, Goto, MemoryOK, Opening
    <2> QED
      BY <1>6, <1>lk, <2>1 DEF Wipe
  <1> QED
    BY <1>1, <1>2, <1>3, <1>4, <1>5, <1>6 DEF Opens

\* The steps of the others leave it what it knows: of the processes that are up only
\* those with the current key write rows, and then there is a fingerprint.
LEMMA OthersLeave ==
    ASSUME StoredOK, MemoryOK, KeyInv, NEW p \in Processes, Opening(p), Solo(p), Knows(p),
           NEW q \in Processes \ {p}, Open(q) \/ Uses(q) \/ Close(q)
    PROVE  Knows(p)'
  <1>1. OthersKeep(q) /\ opt'[p] = opt[p]
    <2>1. OthersKeep(q)
      BY OwnEffect DEF KeyInv, KeyAt
    <2>2. opt'[p] = opt[p]
      BY DEF Open, Uses, Enqueue, Deliver, NoticeStale, Prune, Close, End, StoredOK
    <2> QED
      BY <2>1, <2>2
  <1>2. UNCHANGED <<file, lastKey, fingerprint, marker, consumed>>
    BY DEF Open, Uses, Enqueue, Deliver, NoticeStale, Prune, Close, End, stored
  <1>3. fingerprint = 0 => rows' = rows
    <2>1. ASSUME Enqueue(q) \/ Deliver(q) PROVE fingerprint # 0
      <3>1. fingerprint = key[q] /\ key[q] \in Keys
        BY <2>1 DEF Enqueue, Deliver, Current, KeyInv
      <3> QED
        BY <3>1 DEF Keys
    <2>2. ~Prune(q)
      BY DEF Prune, Quiet, Opening
    <2> QED
      BY <2>1, <2>2 DEF Open, Uses, NoticeStale, Close, End, stored
  <1>4. fingerprint = 0 => KeyBacked' = KeyBacked
    BY <1>3 DEF KeyBacked
  <1>5. NoKeyUsed => NoKeyUsed'
    BY <1>2, <1>4 DEF NoKeyUsed
  <1>6. MayReset(p)' = MayReset(p)
    BY <1>1, <1>2 DEF MayReset, TokenOf, Armed
  <1>7. pc'[p] = pc[p] /\ key'[p] = key[p] /\ how'[p] = how[p]
    BY <1>1 DEF OthersKeep
  <1> QED
    BY <1>2, <1>4, <1>5, <1>6, <1>7 DEF Knows, At

-----------------------------------------------------------------------------
(* Openings with the reset flag *)

\* Of the steps of an opening that meets no other one, only the look at the used
\* tokens locks the alert state of an opening with the flag.
LEMMA ArmedIsSpent ==
    ASSUME StoredOK, MemoryOK, NEW p \in Processes, KeyAt(p), Opening(p), Knows(p), Opens(p),
           Armed(p), cause'[p] = "opening"
    PROVE  opt[p] \in consumed
  <1>0. /\ "opening" # None /\ cause[p] = None
        /\ Missing \notin Keys /\ Corrupt \notin Keys /\ Missing # Corrupt
    BY StoreOpeningAssumption DEF Locks, KeyAt, Keys, Missing, Corrupt
  <1>1. ~Opening(p)'
    <2>1. KeyAt(p)'
      BY OpensEffect
    <2> QED
      BY <1>0, <2>1 DEF KeyAt
  <1>2. ASSUME UNCHANGED cause PROVE FALSE
    BY <1>0, <1>2
  <1>3. ASSUME NEW k, NEW w, Loaded(p, k, w) PROVE FALSE
    BY <1>2, <1>3 DEF Loaded
  <1>4. ASSUME NEW place, Move(p, place) PROVE FALSE
    BY <1>2, <1>4 DEF Move
  <1>5. ASSUME NEW m, Reset(p, m) PROVE FALSE
    BY <1>2, <1>5 DEF Reset
  <1>6. ~Looks(p)
    <2>1. ~ReadMarker(p) /\ ~ReadKey(p)
      BY <1>2, <1>4, <1>5 DEF ReadMarker, ReadKey, Readable
    <2>2. ~Retry(p)
      BY <1>2, <1>5 DEF Retry, Readable
    <2>3. ~ReadRows(p) /\ ~ReadFingerprint(p)
      BY <1>2, <1>5 DEF ReadRows, ReadFingerprint
    <2>4. ~Verify(p) /\ ~CountRows(p)
      BY <1>3, <1>4, <1>5 DEF Verify, CountRows
    <2>5. ~Recheck(p)
      BY <1>3 DEF Recheck, Knows, At
    <2> QED
      BY <2>1, <2>2, <2>3, <2>4, <2>5 DEF Looks
  <1>7. ~Remove(p) /\ ~Fill(p) /\ ~Stamp(p) /\ ~Hash(p)
    BY <1>3, <1>4 DEF Remove, Fill, Stamp, Hash
  <1>8. ~Create(p)
    BY <1>0, <1>2 DEF Create, Knows, At
  <1>9. ~Commit(p)
    BY <1>4 DEF Commit, Knows, At
  <1>10. ~Wipe(p)
    BY <1>2 DEF Wipe, Knows, At, KeyAt, HoldsKey
  <1>11. StartReset(p)
    BY <1>6, <1>7, <1>8, <1>9, <1>10 DEF Opens, Replaces
  <1>12. Spent(p)
    BY <1>2, <1>3, <1>4, <1>11 DEF StartReset
  <1> QED
    BY <1>12 DEF Spent, TokenOf

\* What a process of alone knows, and what its lock means, is kept by every step.
LEMMA StepAloneInv == TypeOK /\ KeyInv /\ AloneInv /\ [Next]_vars => AloneInv'
  <1> SUFFICES ASSUME StoredOK, MemoryOK, KeyInv, AloneInv, [Next]_vars,
                      NEW p \in alone'
               PROVE  /\ Opening(p)' => Knows(p)' /\ Solo(p)'
                      /\ cause'[p] = "opening" /\ Armed(p)' => opt'[p] \in consumed'
    BY TypeParts DEF AloneInv, Solo
  <1>0. /\ \A q \in Processes : KeyAt(q)
        /\ "opening" # None /\ "opening" # "fault" /\ "opening" # "stale"
    BY StoreOpeningAssumption DEF KeyInv, KeyAt, Locks
  <1>in. \A q \in alone : q \in Processes
    BY DEF StoredOK
  <1>sl. ASSUME NEW q \in Processes, p \in alone, OthersKeep(q), Opening(q) \/ ~Opening(q)',
                Opening(p)'
         PROVE  Solo(p)'
    <2>1. CASE q = p
      BY <1>in, <1>sl, <2>1 DEF AloneInv, Solo, OthersKeep, Opening
    <2>2. CASE q # p
      BY <1>in, <1>sl, <2>2 DEF AloneInv, Solo, OthersKeep, Opening
    <2> QED
      BY <2>1, <2>2
  <1>1. ASSUME NEW x \in Processes, Open(x)
        PROVE  /\ Opening(p)' => Knows(p)' /\ Solo(p)'
               /\ cause'[p] = "opening" /\ Armed(p)' => opt'[p] \in consumed'
    <2>0. /\ OthersKeep(x) /\ pc'[x] = "start" /\ cause'[x] = None /\ consumed' = consumed
          /\ \A q \in Processes \ {x} : opt'[q] = opt[q]
      <3>1. OthersKeep(x)
        BY <1>0, <1>1, OwnEffect
      <3> QED
        BY <1>0, <1>1, <3>1 DEF Open, Goto, MemoryOK, StoredOK, KeyAt, At, stored
    <2>1. CASE p = x
      <3>1. x \notin alone \/ Quiet
        BY <1>1, <2>1 DEF Open
      <3>2. Quiet
        BY <1>1, <2>1 DEF Open
      <3>3. Solo(p)'
        BY <2>0, <2>1, <3>2 DEF Solo, Quiet, OthersKeep, Opening
      <3> QED
        BY <1>0, <2>0, <2>1, <3>3 DEF Knows, At
    <2>2. CASE p # x
      <3>1. p \in alone /\ p \in Processes /\ ~Opening(p)
        BY <1>in, <1>1, <2>2 DEF Open, Quiet, Opening
      <3> QED
        BY <2>0, <2>2, <3>1 DEF OthersKeep, Opening, AloneInv, Armed
    <2> QED
      BY <2>1, <2>2
  <1>2. ASSUME NEW x \in Processes, Opens(x)
        PROVE  /\ Opening(p)' => Knows(p)' /\ Solo(p)'
               /\ cause'[p] = "opening" /\ Armed(p)' => opt'[p] \in consumed'
    <2>0. OthersKeep(x) /\ Opening(x)
      <3>1. OthersKeep(x)
        BY <1>0, <1>2, OpensEffect
      <3>2. Opening(x)
        BY <1>2 DEF Opens, Looks, Replaces, ReadMarker, ReadKey, Retry, ReadRows, ReadFingerprint,
           Verify, CountRows, Recheck, StartReset, Remove, Create, Fill, Stamp, Commit, Hash, Wipe,
           Opening, At
      <3> QED
        BY <3>1, <3>2
    <2>1. alone' = alone /\ opt' = opt
      BY <1>2 DEF Opens, Looks, Replaces, Stamp, Commit, Hash, Wipe, limits
    <2>2. consumed \subseteq consumed'
      BY <1>2 DEF Opens, Looks, Replaces, Stamp, Commit, Hash, Wipe, stored
    <2>3. CASE p = x
      <3>1. Knows(p) /\ Solo(p)
        BY <1>in, <2>0, <2>1, <2>3 DEF AloneInv, Solo
      <3>2. Opening(p)' => Knows(p)' /\ Solo(p)'
        BY <1>0, <1>2, <1>sl, <2>0, <2>1, <2>3, <3>1, OpensKnows
      <3>3. cause'[p] = "opening" /\ Armed(p) => opt[p] \in consumed
        BY <1>0, <1>2, <2>0, <2>3, <3>1, ArmedIsSpent
      <3> QED
        BY <2>1, <2>2, <3>2, <3>3 DEF Armed
    <2>4. CASE p # x
      <3>1. ~Opening(p)
        BY <2>0, <2>1, <2>4 DEF AloneInv
      <3> QED
        BY <1>in, <2>0, <2>1, <2>2, <2>4, <3>1 DEF OthersKeep, Opening, AloneInv, Armed
    <2> QED
      BY <2>3, <2>4
  <1>3. ASSUME NEW x \in Processes, Uses(x) \/ Close(x)
        PROVE  /\ Opening(p)' => Knows(p)' /\ Solo(p)'
               /\ cause'[p] = "opening" /\ Armed(p)' => opt'[p] \in consumed'
    <2>0. OthersKeep(x) /\ ~Opening(x) /\ ~Opening(x)'
      <3>1. OthersKeep(x)
        BY <1>0, <1>3, OwnEffect
      <3>2. pc[x] = "up" /\ pc'[x] \in {"up", "down"}
        BY <1>3 DEF Uses, Enqueue, Deliver, NoticeStale, Prune, Unlocked, Close, End, At, MemoryOK
      <3> QED
        BY <3>1, <3>2 DEF Opening
    <2>1. alone' = alone /\ consumed' = consumed /\ \A q \in Processes \ {x} : opt'[q] = opt[q]
      BY <1>3 DEF Uses, Enqueue, Deliver, NoticeStale, Prune, Close, End, StoredOK, stored, limits
    <2>2. CASE p = x
      <3>1. cause'[p] = "opening" => cause[p] = "opening" /\ opt'[p] = opt[p]
        BY <1>0, <1>3, <2>2
           DEF Uses, Enqueue, Deliver, NoticeStale, Prune, Close, End, MemoryOK
      <3> QED
        BY <2>0, <2>1, <2>2, <3>1 DEF AloneInv, Armed
    <2>3. CASE p # x
      <3>1. Opening(p)' = Opening(p) /\ cause'[p] = cause[p] /\ opt'[p] = opt[p]
        BY <1>in, <2>0, <2>1, <2>3 DEF OthersKeep, Opening
      <3>2. ASSUME Opening(p) PROVE Knows(p)' /\ Solo(p)'
        <4>1. Knows(p) /\ Solo(p)
          BY <2>1, <3>2 DEF AloneInv, Solo
        <4> QED
          BY <1>in, <1>3, <1>sl, <2>0, <2>1, <2>3, <3>1, <3>2, <4>1, OthersLeave
      <3> QED
        BY <2>1, <3>1, <3>2 DEF AloneInv, Armed
    <2> QED
      BY <2>2, <2>3
  <1>4. ASSUME NEW x \in Processes, Crash(x) \/ Fail(x)
        PROVE  /\ Opening(p)' => Knows(p)' /\ Solo(p)'
               /\ cause'[p] = "opening" /\ Armed(p)' => opt'[p] \in consumed'
    <2>0. OthersKeep(x) /\ Opening(x) /\ ~Opening(x)' /\ cause'[x] # "opening"
      <3>1. OthersKeep(x)
        BY <1>0, <1>4, OwnEffect
      <3>2. CASE Crash(x)
        BY <1>0, <3>1, <3>2, EndEffect DEF Crash, Opening
      <3>3. CASE Fail(x)
        BY <1>0, <3>1, <3>3, LockedEffect DEF Fail, Opening
      <3> QED
        BY <1>4, <3>2, <3>3
    <2>1. alone' = alone /\ consumed' = consumed /\ \A q \in Processes \ {x} : opt'[q] = opt[q]
      BY <1>4 DEF Crash, Fail, End, StoredOK, stored
    <2>2. CASE p = x
      BY <2>0, <2>2
    <2>3. CASE p # x
      <3>1. ~Opening(p)
        BY <2>0, <2>1, <2>3 DEF AloneInv
      <3> QED
        BY <1>in, <2>0, <2>1, <2>3, <3>1 DEF OthersKeep, Opening, AloneInv, Armed
    <2> QED
      BY <2>2, <2>3
  <1>5. CASE Tamper
    <2>1. Quiet /\ UNCHANGED <<pc, cause, opt, consumed, alone>>
      BY <1>5 DEF Tamper, stored
    <2>2. ~Opening(p)' /\ p \in alone
      BY <1>in, <2>1 DEF Quiet, Opening
    <2> QED
      BY <2>1, <2>2 DEF AloneInv, Armed
  <1>6. CASE UNCHANGED vars
    <2>1. UNCHANGED <<file, lastKey, fingerprint, marker, consumed, rows, pc, opt, key, how, cause, alone>>
      BY <1>6 DEF vars
    <2> QED
      BY <2>1 DEF AloneInv, Knows, Solo, Opening, At, Armed, MayReset, TokenOf, NoKeyUsed, KeyBacked
  <1> QED
    BY <1>1, <1>2, <1>3, <1>4, <1>5, <1>6 DEF Next

\* loadOrCreateAlertDedupeKey, resetAlertDedupeKeyWithLock: an opening with the reset
\* flag that meets no other opening and none of whose writes fails ends with its
\* alerts, unless its token had been used, whatever earlier openings left half done
\* and whatever happened to the key file.
THEOREM ArmedOpeningsSucceed == Spec => []ArmedOpens
  <1>1. Init => AloneInv
    BY DEF Init, AloneInv
  <1>2. AloneInv => ArmedOpens
    BY DEF AloneInv, ArmedOpens
  <1> QED
    BY <1>1, <1>2, StepAloneInv, TypeCorrect, PTL DEF Spec

-----------------------------------------------------------------------------
(* Openings that overlap *)

\* What OverlapInv says of process p.
OverlapAt(p) ==
    /\ At(p, "hash") => /\ fingerprint # 0
                        /\ fingerprint = key[p] \/ marker # None \/ rows[0] = "none"
    /\ At(p, "wipe") => rows[0] = "none"

\* What a step may do to marker, fingerprint and the rows of an older version, so that
\* a process which it does not move still hashes in time.
Orderly ==
    /\ fingerprint # 0 => fingerprint' # 0
    /\ rows[0] = "none" => rows'[0] = "none"
    /\ fingerprint # 0 => \/ fingerprint' = fingerprint /\ (marker # None => marker' # None)
                          \/ marker' # None
                          \/ rows'[0] = "none"

LEMMA OrderlyKeeps ==
    ASSUME Orderly, NEW p \in Processes, OverlapAt(p), pc'[p] = pc[p], key'[p] = key[p]
    PROVE  OverlapAt(p)'
  BY DEF Orderly, OverlapAt, At

\* Every step is orderly: a fingerprint is replaced by a marked reset, or when old rows
\* are gone, and so is a mark.
LEMMA StepOrderly ==
    ASSUME StoredOK, KeyInv, OverlapInv, [Next]_vars, StampInTime
    PROVE  Orderly
  <1>0. 0 \notin Keys
    BY DEF Keys
  <1>u. ASSUME UNCHANGED <<fingerprint, marker>>, rows[0] = "none" => rows'[0] = "none"
        PROVE  Orderly
    BY <1>u DEF Orderly
  <1>1. ASSUME NEW p \in Processes, Open(p) \/ Looks(p) \/ Replaces(p) PROVE Orderly
    BY <1>1, <1>u DEF Open, Looks, Replaces, stored
  <1>2. ASSUME NEW p \in Processes, Stamp(p) PROVE Orderly
    <2>1. fingerprint = 0 \/ fingerprint = key[p]
      BY <1>2 DEF StampInTime, NoKeyUsed
    <2> QED
      BY <1>2, <2>1 DEF Stamp, Orderly
  <1>3. ASSUME NEW p \in Processes, Commit(p) PROVE Orderly
    <2>1. CASE file = key[p]
      <3>1. marker' # None
        BY <1>3, <2>1, TokenType, StoreOpeningAssumption DEF Commit
      <3>2. fingerprint' # 0
        BY <1>0, <1>3, <2>1 DEF Commit, KeyInv, HoldsKey, At
      <3> QED
        BY <1>3, <3>1, <3>2 DEF Orderly, Commit
    <2>2. CASE file # key[p]
      BY <1>3, <1>u, <2>2 DEF Commit
    <2> QED
      BY <2>1, <2>2
  <1>4. ASSUME NEW p \in Processes, Hash(p) PROVE Orderly
    <2>1. key[p] \in Keys
      BY <1>4 DEF Hash, KeyInv, HoldsKey, At
    <2>2. rows'[0] = "none"
      BY <1>0, <1>4, <2>1 DEF Hash, StoredOK
    <2> QED
      BY <1>4, <1>u, <2>2 DEF Hash
  <1>5. ASSUME NEW p \in Processes, Wipe(p) PROVE Orderly
    <2>1. CASE file \in Keys
      <3>1. rows[0] = "none"
        BY <1>5 DEF Wipe, OverlapInv
      <3>2. fingerprint' # 0 /\ rows'[0] = "none"
        BY <1>0, <1>5, <2>1, <3>1 DEF Wipe, StoredOK
      <3> QED
        BY <3>2 DEF Orderly
    <2>2. CASE file \notin Keys
      BY <1>5, <1>u, <2>2 DEF Wipe, stored
    <2> QED
      BY <2>1, <2>2
  <1>6. ASSUME NEW p \in Processes, Uses(p) PROVE Orderly
    <2>1. CASE Enqueue(p)
      <3>1. key[p] # 0
        BY <1>0, <2>1 DEF Enqueue, KeyInv
      <3> QED
        BY <1>u, <2>1, <3>1 DEF Enqueue, StoredOK
    <2>2. CASE Deliver(p) \/ Prune(p)
      BY <1>u, <2>2 DEF Deliver, Prune, StoredOK
    <2>3. CASE NoticeStale(p)
      BY <1>u, <2>3 DEF NoticeStale, stored
    <2> QED
      BY <1>6, <2>1, <2>2, <2>3 DEF Uses
  <1>7. ASSUME NEW p \in Processes, Close(p) \/ Crash(p) \/ Fail(p) PROVE Orderly
    BY <1>7, <1>u DEF Close, Crash, Fail, End, stored
  <1>8. CASE Tamper \/ UNCHANGED vars
    BY <1>8, <1>u DEF Tamper, vars, stored
  <1> QED
    BY <1>1, <1>2, <1>3, <1>4, <1>5, <1>6, <1>7, <1>8 DEF Next, Opens

\* An opening comes to hash and to reset the old rows with the key of the fingerprint,
\* and to the latter when the rows of an older version are gone.
LEMMA OpensOverlap ==
    ASSUME StoredOK, MemoryOK, KeyInv, OverlapInv, NEW p \in Processes, Opens(p)
    PROVE  OverlapAt(p)'
  <1>0. 0 \notin Keys /\ (HoldsKey(p) => key[p] \in Keys)
    BY DEF Keys, KeyInv
  <1>el. ASSUME pc'[p] \notin {"hash", "wipe"} PROVE OverlapAt(p)'
    BY <1>el DEF OverlapAt, At
  <1>lk. ASSUME NEW why, Locked(p, why) PROVE OverlapAt(p)'
    BY <1>el, <1>lk, LockedEffect
  <1>rs. ASSUME NEW m, Reset(p, m) PROVE OverlapAt(p)'
    BY <1>el, <1>rs, ResetEffect
  <1>rd. ASSUME NEW b \in BOOLEAN, Readable(p, b) PROVE OverlapAt(p)'
    BY <1>el, <1>rd, ReadableEffect
  <1>mv. ASSUME NEW place, Move(p, place), place \notin {"hash", "wipe"} PROVE OverlapAt(p)'
    BY <1>el, <1>mv, MoveEffect
  <1>go. ASSUME NEW place, Goto(p, place), place \notin {"hash", "wipe"} PROVE OverlapAt(p)'
    BY <1>el, <1>go DEF Goto, MemoryOK
  <1>ld. ASSUME NEW k \in Keys, NEW w, Loaded(p, k, w), fingerprint' = k PROVE OverlapAt(p)'
    BY <1>0, <1>ld, LoadedEffect DEF OverlapAt, At
  <1>1. CASE Looks(p)
    <2>0. fingerprint' = fingerprint
      BY <1>1 DEF Looks, stored
    <2>1. CASE ReadMarker(p) \/ ReadKey(p) \/ Retry(p)
      BY <1>rs, <1>rd, <1>mv, <1>go, <1>lk, <2>1 DEF ReadMarker, ReadKey, Retry
    <2>2. CASE ReadRows(p) \/ ReadFingerprint(p)
      BY <1>rs, <1>rd, <1>go, <1>lk, <2>2 DEF ReadRows, ReadFingerprint
    <2>3. CASE Verify(p)
      <3>1. key[p] \in Keys
        BY <1>0, <2>3 DEF Verify, HoldsKey, At
      <3> QED
        BY <1>rs, <1>mv, <1>ld, <1>lk, <2>0, <2>3, <3>1 DEF Verify
    <2>4. CASE CountRows(p)
      BY <1>rs, <1>mv, <1>lk, <2>4 DEF CountRows
    <2>5. CASE Recheck(p)
      <3>1. key[p] \in Keys
        BY <1>0, <2>5 DEF Recheck, HoldsKey, At
      <3> QED
        BY <1>ld, <1>lk, <2>0, <2>5, <3>1 DEF Recheck
    <2> QED
      BY <1>1, <2>1, <2>2, <2>3, <2>4, <2>5 DEF Looks
  <1>2. CASE Replaces(p)
    <2>0. fingerprint' = fingerprint
      BY <1>2 DEF Replaces, stored
    <2>1. CASE StartReset(p)
      <3>1. CASE Move(p, IF file = Missing THEN "create" ELSE "remove")
        BY <1>mv, <3>1
      <3> QED
        BY <1>go, <1>ld, <1>lk, <2>0, <2>1, <3>1 DEF StartReset
    <2>2. CASE Remove(p)
      BY <1>mv, <2>2 DEF Remove
    <2>3. CASE Create(p)
      <3>1. CASE Goto(p, IF how[p] = "first" THEN "stamp" ELSE "commit")
        BY <1>go, <3>1
      <3> QED
        BY <1>go, <1>lk, <2>3, <3>1 DEF Create
    <2>4. CASE Fill(p)
      <3>1. Move(p, IF how[p] = "first" THEN "stamp" ELSE "commit")
        BY <2>4 DEF Fill
      <3> QED
        BY <1>mv, <3>1
    <2> QED
      BY <1>2, <2>1, <2>2, <2>3, <2>4 DEF Replaces
  <1>3. CASE Stamp(p)
    <2>1. key[p] \in Keys
      BY <1>0, <1>3 DEF Stamp, HoldsKey, At
    <2> QED
      BY <1>3, <1>ld, <2>1 DEF Stamp
  <1>4. CASE Commit(p)
    BY <1>4, <1>mv, <1>lk DEF Commit
  <1>5. CASE Hash(p)
    <2>1. key[p] \in Keys
      BY <1>0, <1>5 DEF Hash, HoldsKey, At
    <2>2. rows'[0] = "none"
      BY <1>0, <1>5, <2>1 DEF Hash, StoredOK
    <2>3. pc'[p] \in {"wipe", "up"}
      BY <1>5, MoveEffect DEF Hash
    <2> QED
      BY <2>2, <2>3 DEF OverlapAt, At
  <1>6. CASE Wipe(p)
    BY <1>6, <1>go, <1>lk DEF Wipe
  <1> QED
    BY <1>1, <1>2, <1>3, <1>4, <1>5, <1>6 DEF Opens

\* No step leaves an old row unmarked.
LEMMA StepNoOldRow ==
    ASSUME StoredOK, KeyInv, OverlapInv, [Next]_vars, StampInTime
    PROVE  NoOldRow'
  <1>0. NoOldRow
    BY DEF OverlapInv
  <1>fr. ASSUME UNCHANGED <<marker, fingerprint>>,
                \A k \in Keys : rows'[k] = "pending" => rows[k] = "pending" \/ k = fingerprint
         PROVE  NoOldRow'
    BY <1>0, <1>fr DEF NoOldRow
  <1>1. ASSUME NEW p \in Processes, Open(p) \/ Looks(p) \/ Replaces(p) PROVE NoOldRow'
    BY <1>1, <1>fr DEF Open, Looks, Replaces, stored
  <1>2. ASSUME NEW p \in Processes, Stamp(p) PROVE NoOldRow'
    <2>1. CASE NoKeyUsed
      BY <1>2, <2>1 DEF Stamp, NoOldRow, NoKeyUsed, KeyBacked
    <2>2. CASE fingerprint = key[p]
      BY <1>2, <1>fr, <2>2 DEF Stamp
    <2> QED
      BY <1>2, <2>1, <2>2 DEF StampInTime
  <1>3. ASSUME NEW p \in Processes, Commit(p) PROVE NoOldRow'
    <2>1. CASE file = key[p]
      <3>1. marker' # None
        BY <1>3, <2>1, TokenType, StoreOpeningAssumption DEF Commit
      <3> QED
        BY <3>1 DEF NoOldRow
    <2>2. CASE file # key[p]
      BY <1>3, <1>fr, <2>2 DEF Commit
    <2> QED
      BY <2>1, <2>2
  <1>4. ASSUME NEW p \in Processes, Hash(p) PROVE NoOldRow'
    <2>0. fingerprint = key[p] \/ marker # None \/ rows' = rows
      BY <1>4 DEF Hash, OverlapInv
    <2>1. CASE fingerprint = key[p]
      <3>1. \A k \in Keys : k # key[p] => rows'[k] = rows[k] \/ rows'[k] = "none"
        BY <1>4 DEF Hash, StoredOK
      <3> QED
        BY <1>4, <1>fr, <2>1, <3>1 DEF Hash
    <2>2. CASE marker # None
      BY <1>4, <2>2 DEF Hash, NoOldRow
    <2>3. CASE rows' = rows
      BY <1>4, <1>fr, <2>3 DEF Hash
    <2> QED
      BY <2>0, <2>1, <2>2, <2>3
  <1>5. ASSUME NEW p \in Processes, Wipe(p) PROVE NoOldRow'
    <2>1. CASE file \in Keys
      <3>1. \A k \in Keys : rows'[k] # "pending"
        BY <1>5, <2>1 DEF Wipe, StoredOK
      <3> QED
        BY <3>1 DEF NoOldRow
    <2>2. CASE file \notin Keys
      BY <1>5, <1>fr, <2>2 DEF Wipe, stored
    <2> QED
      BY <2>1, <2>2
  <1>6. ASSUME NEW p \in Processes, Uses(p) PROVE NoOldRow'
    <2>1. CASE Enqueue(p)
      BY <1>fr, <2>1 DEF Enqueue, Current, StoredOK
    <2>2. CASE Deliver(p) \/ Prune(p)
      BY <1>fr, <2>2 DEF Deliver, Prune, StoredOK
    <2>3. CASE NoticeStale(p)
      BY <1>fr, <2>3 DEF NoticeStale, stored
    <2> QED
      BY <1>6, <2>1, <2>2, <2>3 DEF Uses
  <1>7. ASSUME NEW p \in Processes, Close(p) \/ Crash(p) \/ Fail(p) PROVE NoOldRow'
    BY <1>7, <1>fr DEF Close, Crash, Fail, End, stored
  <1>8. CASE Tamper \/ UNCHANGED vars
    BY <1>8, <1>fr DEF Tamper, vars, stored
  <1> QED
    BY <1>1, <1>2, <1>3, <1>4, <1>5, <1>6, <1>7, <1>8 DEF Next, Opens

\* OverlapInv is kept by every step that stores a first fingerprint in time.
LEMMA StepOverlapInv ==
    TypeOK /\ KeyInv /\ OverlapInv /\ [Next]_vars /\ (StampInTime \/ UNCHANGED vars) => OverlapInv'
  <1> SUFFICES ASSUME StoredOK, MemoryOK, KeyInv, OverlapInv, [Next]_vars, StampInTime
               PROVE  OverlapInv'
    <2>1. CASE UNCHANGED vars
      BY <2>1 DEF vars, OverlapInv, NoOldRow, At
    <2> QED
      BY <2>1, TypeParts
  <1>0. /\ \A p \in Processes : KeyAt(p)
        /\ \A p \in Processes : OverlapAt(p)
    BY DEF KeyInv, KeyAt, OverlapInv, OverlapAt
  <1>1. ASSUME NEW q \in Processes PROVE OverlapAt(q)'
    <2>1. Orderly
      BY StepOrderly
    <2>2. ASSUME NEW p \in Processes \ {q}, OthersKeep(p) PROVE OverlapAt(q)'
      BY <1>0, <2>1, <2>2, OrderlyKeeps DEF OthersKeep
    <2>3. ASSUME UNCHANGED <<pc, key>> PROVE OverlapAt(q)'
      BY <1>0, <2>1, <2>3, OrderlyKeeps
    <2>4. CASE Opens(q)
      BY <2>4, OpensOverlap
    <2>5. CASE Open(q) \/ Uses(q) \/ Close(q) \/ Crash(q) \/ Fail(q)
      <3>1. pc'[q] \notin {"hash", "wipe"}
        BY <2>5, LockedEffect, EndEffect
           DEF Open, Uses, Enqueue, Deliver, NoticeStale, Prune, Unlocked, Close, Crash, Fail,
               Goto, At, MemoryOK
      <3> QED
        BY <3>1 DEF OverlapAt, At
    <2>6. ASSUME NEW p \in Processes \ {q},
                 Opens(p) \/ Open(p) \/ Uses(p) \/ Close(p) \/ Crash(p) \/ Fail(p)
          PROVE  OverlapAt(q)'
      BY <1>0, <2>2, <2>6, OpensEffect, OwnEffect
    <2>7. CASE Tamper \/ UNCHANGED vars
      BY <2>3, <2>7 DEF Tamper, vars
    <2> QED
      BY <2>4, <2>5, <2>6, <2>7 DEF Next
  <1>2. NoOldRow'
    BY StepNoOldRow
  <1> QED
    BY <1>1, <1>2 DEF OverlapInv, OverlapAt

\* resetAlertDedupeKeyWithLock and resetAlertStateAfterMissingKey, however many openings
\* overlap and wherever each of them crashes, fails or locks: no alert stays pending
\* under a former key where it could be taken for one of the present key, unless
\* writeAlertDedupeKeyFingerprint stores a first fingerprint after another opening did.
\* That late write alone is what can leave old rows behind.
THEOREM OldRowsUnlessLate == Spec /\ [][StampInTime]_vars => []OldRowsMarked
  <1>1. Init => OverlapInv
    BY DEF Init, OverlapInv, NoOldRow, At
  <1>2. TypeOK /\ KeyInv /\ OverlapInv /\ [Next]_vars /\ [StampInTime]_vars => OverlapInv'
    BY StepOverlapInv
  <1>3. TypeOK /\ OverlapInv => OldRowsMarked
    <2> SUFFICES ASSUME TypeOK, OverlapInv, marker = None, fingerprint = file, file \in Keys,
                        NEW k \in Keys, rows[k] = "pending"
                 PROVE  k = fingerprint
      BY DEF OldRowsMarked
    <2>1. fingerprint # 0
      BY DEF Keys
    <2> QED
      BY <2>1 DEF OverlapInv, NoOldRow
  <1> QED
    BY <1>1, <1>2, <1>3, TypeCorrect, PTL DEF Spec

\* What LockInv says of process p.
LockAt(p) ==
    /\ Resetting(p) => writer = p /\ MayReset(p)
    /\ pc[p] \in {"reset", "remove"} => how[p] # "first"

\* The steps of an opening: it is at a reset without a doubt, gets the lock where a
\* token may still start one, and keeps it until its own is marked.
LEMMA OpensLock ==
    ASSUME StoredOK, MemoryOK, NEW p \in Processes, LockAt(p), Opens(p), AdoptInTime
    PROVE  LockAt(p)'
  <1>0. Missing \notin Keys /\ Corrupt \notin Keys /\ Missing # Corrupt
    BY DEF Keys, Missing, Corrupt
  <1>el. ASSUME pc'[p] \notin {"reset", "remove", "create", "fill", "commit"} PROVE LockAt(p)'
    BY <1>el DEF LockAt, Resetting
  <1>lk. ASSUME NEW why, Locked(p, why) PROVE LockAt(p)'
    BY <1>el, <1>lk, LockedEffect
  <1>ld. ASSUME NEW k, NEW w, Loaded(p, k, w) PROVE LockAt(p)'
    BY <1>el, <1>ld, LoadedEffect
  <1>rs. ASSUME NEW m, Reset(p, m), m # "first" PROVE LockAt(p)'
    BY <1>rs, ResetEffect DEF LockAt, Resetting
  <1>rd. ASSUME NEW b \in BOOLEAN, Readable(p, b) PROVE LockAt(p)'
    BY <1>rd, ReadableEffect DEF LockAt, Resetting
  <1>mv. ASSUME NEW place, Move(p, place), place \notin {"reset", "remove", "create", "fill", "commit"}
         PROVE  LockAt(p)'
    BY <1>el, <1>mv, MoveEffect
  <1>mr. UNCHANGED <<marker, consumed, opt>> => MayReset(p)' = MayReset(p)
    BY DEF MayReset, TokenOf, Armed
  <1>1. CASE Looks(p)
    <2>1. CASE ReadMarker(p)
      BY <1>el, <2>1 DEF ReadMarker, Goto, MemoryOK
    <2>2. CASE ReadKey(p) \/ Retry(p)
      BY <1>rs, <1>rd, <1>mv, <1>lk, <2>2 DEF ReadKey, Retry
    <2>3. CASE ReadRows(p)
      BY <1>el, <1>lk, <2>3 DEF ReadRows, Goto, MemoryOK
    <2>4. CASE ReadFingerprint(p)
      <3>1. CASE Goto(p, "create") /\ Note(p, "first")
        BY <3>1 DEF Goto, Note, MemoryOK, LockAt, Resetting
      <3> QED
        BY <1>rs, <1>rd, <1>lk, <2>4, <3>1 DEF ReadFingerprint
    <2>5. CASE Verify(p) \/ CountRows(p) \/ Recheck(p)
      BY <1>rs, <1>mv, <1>ld, <1>lk, <2>5 DEF Verify, CountRows, Recheck
    <2> QED
      BY <1>1, <2>1, <2>2, <2>3, <2>4, <2>5 DEF Looks
  <1>2. CASE Replaces(p)
    <2>0. MayReset(p)' = MayReset(p)
      BY <1>2, <1>mr DEF Replaces, stored
    <2>1. CASE StartReset(p)
      <3>1. At(p, "reset") /\ how[p] # "first"
        BY <2>1 DEF StartReset, LockAt, At
      <3>2. CASE Goto(p, "commit") /\ UNCHANGED how /\ writer' = p
        <4>1. pc'[p] = "commit"
          BY <3>2 DEF Goto, MemoryOK
        <4>2. marker # None
          BY <2>1, <4>1 DEF AdoptInTime, At
        <4> QED
          BY <2>0, <3>2, <4>1, <4>2 DEF LockAt, Resetting, MayReset
      <3>3. CASE Move(p, IF file = Missing THEN "create" ELSE "remove") /\ ~Spent(p) /\ writer' = p
        <4>1. pc'[p] \in {"create", "remove"} /\ how'[p] = how[p]
          BY <3>3, MoveEffect
        <4>2. MayReset(p)
          BY <3>3 DEF MayReset, Spent
        <4> QED
          BY <2>0, <3>1, <3>3, <4>1, <4>2 DEF LockAt, Resetting
      <3> QED
        BY <1>ld, <1>lk, <2>1, <3>2, <3>3 DEF StartReset
    <2>2. CASE Remove(p)
      <3>1. writer = p /\ MayReset(p) /\ how[p] # "first"
        BY <2>2 DEF Remove, LockAt, Resetting, At
      <3>2. pc'[p] = "create" /\ how'[p] = how[p] /\ writer' = writer
        BY <2>2, MoveEffect DEF Remove
      <3> QED
        BY <2>0, <3>1, <3>2 DEF LockAt, Resetting
    <2>3. CASE Create(p)
      <3>0. how[p] # "first" => writer = p /\ MayReset(p)
        BY <2>3 DEF Create, LockAt, Resetting, At
      <3>1. CASE Locked(p, "opening")
        BY <1>lk, <3>1
      <3>2. CASE ~Locked(p, "opening")
        <4>1. UNCHANGED <<how, writer>>
          BY <2>3, <3>2 DEF Create
        <4>2. \/ pc' = [pc EXCEPT ![p] = "fill"]
              \/ pc' = [pc EXCEPT ![p] = IF how[p] = "first" THEN "stamp" ELSE "commit"]
          BY <2>3, <3>2 DEF Create, Goto
        <4>3. pc'[p] = "fill" \/ pc'[p] = IF how[p] = "first" THEN "stamp" ELSE "commit"
          BY <4>2 DEF MemoryOK
        <4> QED
          BY <2>0, <3>0, <4>1, <4>3 DEF LockAt, Resetting
      <3> QED
        BY <3>1, <3>2
    <2>4. CASE Fill(p)
      <3>1. how[p] # "first" => writer = p /\ MayReset(p)
        BY <2>4 DEF Fill, LockAt, Resetting, At
      <3>2. /\ pc'[p] = IF how[p] = "first" THEN "stamp" ELSE "commit"
            /\ how'[p] = how[p] /\ writer' = writer
        BY <2>4, MoveEffect DEF Fill
      <3> QED
        BY <2>0, <3>1, <3>2 DEF LockAt, Resetting
    <2> QED
      BY <1>2, <2>1, <2>2, <2>3, <2>4 DEF Replaces
  <1>3. CASE Stamp(p)
    BY <1>3, <1>ld DEF Stamp
  <1>4. CASE Commit(p)
    BY <1>4, <1>mv, <1>lk DEF Commit
  <1>5. CASE Hash(p)
    <2>1. Move(p, IF wipe[p] THEN "wipe" ELSE "up")
      BY <1>5 DEF Hash
    <2> QED
      BY <1>mv, <2>1
  <1>6. CASE Wipe(p)
    BY <1>6, <1>el, <1>lk DEF Wipe, Goto, MemoryOK
  <1> QED
    BY <1>1, <1>2, <1>3, <1>4, <1>5, <1>6 DEF Opens

\* Nobody else touches the lock, the mark or the used tokens while q holds the lock.
LEMMA OthersRespect ==
    ASSUME StoredOK, LockInv, NEW q \in Processes, NEW p \in Processes \ {q},
           Open(p) \/ Opens(p) \/ Uses(p) \/ Close(p) \/ Crash(p) \/ Fail(p),
           writer = q
    PROVE  writer' = q /\ UNCHANGED <<marker, consumed>>
  <1>0. writer # None /\ writer # p
    BY StoreOpeningAssumption
  <1>1. CASE Open(p) \/ Uses(p) \/ Close(p) \/ Crash(p) \/ Fail(p)
    BY <1>0, <1>1 DEF Open, Uses, Enqueue, Deliver, NoticeStale, Prune, Close, Crash, Fail, End, stored
  <1>2. CASE Looks(p) \/ Replaces(p)
    BY <1>0, <1>2 DEF Looks, Replaces, StartReset, Remove, Create, Fill, stored
  <1>3. CASE Commit(p)
    BY <1>0, <1>3 DEF Commit, LockInv, Resetting, At
  <1>4. CASE Stamp(p) \/ Hash(p) \/ Wipe(p)
    BY <1>0, <1>4 DEF Stamp, Hash, Wipe
  <1> QED
    BY <1>1, <1>2, <1>3, <1>4 DEF Opens

\* LockInv is kept by every step that takes a marked reset up in time.
LEMMA StepLockInv ==
    TypeOK /\ KeyInv /\ LockInv /\ [Next]_vars /\ (AdoptInTime \/ UNCHANGED vars) => LockInv'
  <1> SUFFICES ASSUME StoredOK, MemoryOK, KeyInv, LockInv, [Next]_vars, AdoptInTime
               PROVE  LockInv'
    <2>1. CASE UNCHANGED vars
      BY <2>1 DEF vars, LockInv, Resetting, MayReset, TokenOf, Armed
    <2> QED
      BY <2>1, TypeParts
  <1>0. /\ \A p \in Processes : KeyAt(p)
        /\ \A p \in Processes : LockAt(p)
    BY DEF KeyInv, KeyAt, LockInv, LockAt
  <1>1. ASSUME NEW q \in Processes PROVE LockAt(q)'
    <2>1. CASE Opens(q)
      BY <1>0, <2>1, OpensLock
    <2>2. CASE Open(q) \/ Uses(q) \/ Close(q) \/ Crash(q) \/ Fail(q)
      <3>1. pc'[q] \in {"start", "up", "down"}
        BY <2>2, LockedEffect, EndEffect
           DEF Open, Uses, Enqueue, Deliver, NoticeStale, Prune, Unlocked, Close, Crash, Fail,
               Goto, At, MemoryOK
      <3> QED
        BY <3>1 DEF LockAt, Resetting
    <2>3. ASSUME NEW p \in Processes \ {q},
                 Opens(p) \/ Open(p) \/ Uses(p) \/ Close(p) \/ Crash(p) \/ Fail(p)
          PROVE  LockAt(q)'
      <3>1. pc'[q] = pc[q] /\ how'[q] = how[q]
        BY <1>0, <2>3, OpensEffect, OwnEffect DEF OthersKeep
      <3>2. opt'[q] = opt[q]
        BY <2>3 DEF Opens, Looks, Replaces, Stamp, Commit, Hash, Wipe, Open, Uses, Enqueue, Deliver,
           NoticeStale, Prune, Close, Crash, Fail, End, StoredOK
      <3>3. writer = q => writer' = q /\ UNCHANGED <<marker, consumed>>
        BY <2>3, OthersRespect
      <3> QED
        BY <1>0, <3>1, <3>2, <3>3 DEF LockAt, Resetting, MayReset, TokenOf, Armed
    <2>4. CASE Tamper \/ UNCHANGED vars
      BY <1>0, <2>4 DEF Tamper, vars, stored, LockAt, Resetting, MayReset, TokenOf, Armed
    <2> QED
      BY <2>1, <2>2, <2>3, <2>4 DEF Next
  <1> QED
    BY <1>1 DEF LockInv, LockAt

\* alertDedupeResetTokenConsumedTx, however many openings overlap: no reset ever begins
\* for a token that was used, unless resetAlertDedupeKeyWithLock takes up a reset that it
\* had read as marked and that another opening has completed since.  That mode, which
\* does not look at the used tokens, alone is what can spend a token twice.
THEOREM TokensUnlessAdopted == Spec /\ [][AdoptInTime]_vars => TokenOneShot
  <1>1. Init => LockInv
    BY DEF Init, LockInv, Resetting
  <1>2. TypeOK /\ KeyInv /\ LockInv /\ [Next]_vars /\ [AdoptInTime]_vars => LockInv'
    BY StepLockInv
  <1>3. LockInv /\ [Next]_vars => (marker' \notin {None, marker} => marker' \notin consumed)
    <2> SUFFICES ASSUME LockInv, [Next]_vars, marker' \notin {None, marker}
                 PROVE  marker' \notin consumed
      OBVIOUS
    <2>1. PICK p \in Processes : Commit(p)
      BY DEF Next, vars, stored, Open, Opens, Looks, Replaces, Stamp, Hash, Wipe, Uses, Enqueue,
         Deliver, NoticeStale, Prune, Close, Crash, Fail, End, Tamper
    <2>2. marker = None /\ marker' = TokenOf(p)
      BY <2>1 DEF Commit
    <2>3. MayReset(p)
      BY <2>1 DEF LockInv, Resetting, At, Commit
    <2> QED
      BY <2>2, <2>3 DEF MayReset
  <1> QED
    BY <1>1, <1>2, <1>3, TypeCorrect, PTL DEF Spec, TokenOneShot

-----------------------------------------------------------------------------
(* Openings one after the other *)

\* What the one opening knows is kept.
LEMMA StepKnows ==
    ASSUME StoredOK, MemoryOK, KeyInv, OneOpener, OneOpener', [Next]_vars,
           \A p \in Processes : Opening(p) => Knows(p)
    PROVE  \A p \in Processes : Opening(p)' => Knows(p)'
  <1> SUFFICES ASSUME NEW p \in Processes, Opening(p)' PROVE Knows(p)'
    OBVIOUS
  <1>0. \A q \in Processes : KeyAt(q)
    BY DEF KeyInv, KeyAt
  <1>so. Opening(p) => Knows(p) /\ Solo(p)
    BY DEF OneOpener, Solo
  <1>1. ASSUME NEW x \in Processes, Open(x) PROVE Knows(p)'
    <2>1. pc'[x] = "start"
      BY <1>1 DEF Open, Goto, MemoryOK
    <2>2. p = x
      BY <2>1 DEF OneOpener, Opening
    <2> QED
      BY <2>1, <2>2 DEF Knows, At
  <1>2. ASSUME NEW x \in Processes, Opens(x) PROVE Knows(p)'
    <2>1. OthersKeep(x) /\ Opening(x)
      <3>1. OthersKeep(x)
        BY <1>0, <1>2, OpensEffect
      <3>2. Opening(x)
        BY <1>2 DEF Opens, Looks, Replaces, ReadMarker, ReadKey, Retry, ReadRows, ReadFingerprint,
           Verify, CountRows, Recheck, StartReset, Remove, Create, Fill, Stamp, Commit, Hash, Wipe,
           Opening, At
      <3> QED
        BY <3>1, <3>2
    <2>2. p = x
      BY <2>1 DEF OneOpener, OthersKeep, Opening
    <2> QED
      BY <1>0, <1>2, <1>so, <2>1, <2>2, OpensKnows
  <1>3. ASSUME NEW x \in Processes, Uses(x) \/ Close(x) PROVE Knows(p)'
    <2>1. OthersKeep(x) /\ ~Opening(x)'
      <3>1. OthersKeep(x)
        BY <1>0, <1>3, OwnEffect
      <3>2. pc'[x] \in {"up", "down"}
        BY <1>3 DEF Uses, Enqueue, Deliver, NoticeStale, Prune, Unlocked, Close, End, At, MemoryOK
      <3> QED
        BY <3>1, <3>2 DEF Opening
    <2>2. p # x /\ Opening(p)
      BY <2>1 DEF OthersKeep, Opening
    <2> QED
      BY <1>3, <1>so, <2>2, OthersLeave
  <1>4. ASSUME NEW x \in Processes, Crash(x) \/ Fail(x) PROVE Knows(p)'
    <2>1. OthersKeep(x) /\ Opening(x) /\ ~Opening(x)'
      <3>1. OthersKeep(x)
        BY <1>0, <1>4, OwnEffect
      <3>2. CASE Crash(x)
        BY <3>1, <3>2, EndEffect DEF Crash, Opening
      <3>3. CASE Fail(x)
        BY <3>1, <3>3, LockedEffect DEF Fail, Opening
      <3> QED
        BY <1>4, <3>2, <3>3
    <2> QED
      BY <2>1 DEF OneOpener, OthersKeep, Opening
  <1>5. CASE Tamper
    BY <1>5 DEF Tamper, Quiet, Opening
  <1>6. CASE UNCHANGED vars
    <2>1. UNCHANGED <<file, lastKey, fingerprint, marker, consumed, rows, pc, opt, key, how>>
      BY <1>6 DEF vars
    <2> QED
      BY <1>so, <2>1 DEF Knows, Opening, At, Armed, MayReset, TokenOf, NoKeyUsed, KeyBacked
  <1> QED
    BY <1>1, <1>2, <1>3, <1>4, <1>5, <1>6 DEF Next

\* Every opening knows what it can know that meets no other one, as long as no two
\* processes open the store at once.
LEMMA OpenersKnowing == Spec /\ []OneOpener => []OpenersKnow
  <1>1. Init => OpenersKnow
    BY DEF Init, OpenersKnow, Opening
  <1>2. TypeOK /\ KeyInv /\ OpenersKnow /\ OneOpener /\ OneOpener' /\ [Next]_vars => OpenersKnow'
    BY StepKnows, TypeParts DEF OpenersKnow
  <1> QED
    BY <1>1, <1>2, TypeCorrect, PTL DEF Spec

\* The same, of openings that follow one another: then the first fingerprint is in time.
THEOREM OldRowsAreMarked == Spec /\ []OneOpener => []OldRowsMarked
  <1>1. OpenersKnow => StampInTime
    BY DEF OpenersKnow, StampInTime, Knows, Opening, Stamp, At
  <1> QED
    BY <1>1, OpenersKnowing, OldRowsUnlessLate, PTL

-----------------------------------------------------------------------------
(* Two openings at a time *)

\* A step of p itself recalls a mark only if one is there, or if it recalled it before
\* and has changed nothing.
LEMMA OwnRecall ==
    ASSUME StoredOK, MemoryOK, NEW p \in Processes,
           Open(p) \/ Opens(p) \/ Uses(p) \/ Close(p) \/ Crash(p) \/ Fail(p),
           Recalls(p)', marker' = None
    PROVE  Recalls(p) /\ UNCHANGED <<file, fingerprint, marker>>
  <1>0. None # "marked" /\ None # "prefer"
    BY StoreOpeningAssumption DEF Notes
  <1>el. ASSUME pc'[p] \notin {"read", "retry", "reset"} PROVE FALSE
    BY <1>el DEF Recalls, At
  <1>lk. ASSUME NEW why, Locked(p, why) PROVE FALSE
    BY <1>el, <1>lk, LockedEffect
  <1>ld. ASSUME NEW k, NEW w, Loaded(p, k, w) PROVE FALSE
    BY <1>el, <1>ld, LoadedEffect
  <1>rs. ASSUME NEW m, Reset(p, m), m # "prefer" PROVE FALSE
    BY <1>rs, ResetEffect DEF Recalls, At
  <1>rd. ASSUME Readable(p, FALSE) PROVE FALSE
    BY <1>el, <1>rd, ReadableEffect
  <1>mv. ASSUME NEW place, Move(p, place), place \notin {"read", "retry", "reset"} PROVE FALSE
    BY <1>el, <1>mv, MoveEffect
  <1>go. ASSUME NEW place, Goto(p, place), place \notin {"read", "retry", "reset"} PROVE FALSE
    BY <1>el, <1>go DEF Goto, MemoryOK
  <1>1. CASE Looks(p)
    <2>0. UNCHANGED <<file, fingerprint, marker>>
      BY <1>1 DEF Looks, stored
    <2>1. ~ReadMarker(p)
      <3> SUFFICES ASSUME ReadMarker(p) PROVE FALSE
        OBVIOUS
      <3>1. pc'[p] = "read" /\ how'[p] = None
        BY <2>0 DEF ReadMarker, Goto, Note, MemoryOK
      <3> QED
        BY <1>0, <3>1 DEF Recalls, At
    <2>2. CASE ReadKey(p)
      <3>1. CASE how[p] = "marked"
        BY <2>0, <2>2, <3>1 DEF ReadKey, Recalls, At
      <3>2. CASE how[p] # "marked"
        <4>1. CASE Move(p, "retry")
          BY <3>2, <4>1, MoveEffect DEF Recalls, At
        <4> QED
          BY <1>rd, <1>mv, <2>2, <3>2, <4>1 DEF ReadKey
      <3> QED
        BY <3>1, <3>2
    <2>3. CASE Retry(p)
      <3>1. CASE how[p] = "marked"
        BY <2>0, <2>3, <3>1 DEF Retry, Recalls, At
      <3>2. CASE how[p] # "marked"
        BY <1>rd, <1>rs, <1>lk, <2>3, <3>2 DEF Retry
      <3> QED
        BY <3>1, <3>2
    <2>4. ~ReadRows(p) /\ ~ReadFingerprint(p)
      BY <1>rs, <1>rd, <1>go, <1>lk DEF ReadRows, ReadFingerprint
    <2>5. ~Verify(p) /\ ~CountRows(p) /\ ~Recheck(p)
      BY <1>rs, <1>mv, <1>ld, <1>lk DEF Verify, CountRows, Recheck
    <2> QED
      BY <1>1, <2>1, <2>2, <2>3, <2>4, <2>5 DEF Looks
  <1>2. ~Replaces(p)
    <2>1. ~StartReset(p)
      <3>1. CASE Move(p, IF file = Missing THEN "create" ELSE "remove")
        BY <1>mv, <3>1
      <3> QED
        BY <1>go, <1>ld, <1>lk, <3>1 DEF StartReset
    <2>2. ~Create(p)
      <3>1. CASE Goto(p, IF how[p] = "first" THEN "stamp" ELSE "commit")
        BY <1>go, <3>1
      <3> QED
        BY <1>go, <1>lk, <3>1 DEF Create
    <2>3. ~Remove(p) /\ ~Fill(p)
      <3>1. CASE Move(p, IF how[p] = "first" THEN "stamp" ELSE "commit")
        BY <1>mv, <3>1
      <3> QED
        BY <1>mv, <3>1 DEF Remove, Fill
    <2> QED
      BY <2>1, <2>2, <2>3 DEF Replaces
  <1>3. ~Stamp(p) /\ ~Commit(p) /\ ~Wipe(p)
    BY <1>ld, <1>mv, <1>lk, <1>go DEF Stamp, Commit, Wipe
  <1>4. ~Hash(p)
    <2>1. CASE Move(p, IF wipe[p] THEN "wipe" ELSE "up")
      BY <1>mv, <2>1
    <2> QED
      BY <2>1 DEF Hash
  <1>5. ~(Open(p) \/ Uses(p) \/ Close(p) \/ Crash(p) \/ Fail(p))
    <2> SUFFICES ASSUME Open(p) \/ Uses(p) \/ Close(p) \/ Crash(p) \/ Fail(p) PROVE FALSE
      OBVIOUS
    <2>1. pc'[p] \in {"start", "up", "down"}
      BY LockedEffect, EndEffect
         DEF Open, Uses, Enqueue, Deliver, NoticeStale, Prune, Unlocked, Close, Crash, Fail,
             Goto, At, MemoryOK
    <2> QED
      BY <1>el, <2>1
  <1> QED
    BY <1>1, <1>2, <1>3, <1>4, <1>5 DEF Opens

\* While the key is current and no reset is marked, a process that has seen nothing to
\* reset goes on like that, and leaves the key as it is.
LEMMA CalmStays ==
    ASSUME StoredOK, MemoryOK, NEW q \in Processes, Calm(q),
           Open(q) \/ Opens(q) \/ Uses(q) \/ Close(q) \/ Crash(q) \/ Fail(q),
           marker = None, file \in Keys, fingerprint = file
    PROVE  Calm(q)' /\ file' = file /\ fingerprint' = fingerprint
  <1>0. None # "marked" /\ 0 \notin Keys
    BY StoreOpeningAssumption DEF Notes, Keys
  <1>1. CASE Open(q) \/ Uses(q) \/ Close(q) \/ Crash(q) \/ Fail(q)
    <2>1. pc'[q] \in {"start", "up", "down"}
      BY <1>1, LockedEffect, EndEffect
         DEF Open, Uses, Enqueue, Deliver, NoticeStale, Prune, Unlocked, Close, Crash, Fail,
             Goto, At, MemoryOK
    <2>2. ~At(q, "fill")
      BY DEF Calm, Opening, At
    <2>3. file' = file /\ fingerprint' = fingerprint
      BY <1>1, <2>2 DEF Open, Uses, Enqueue, Deliver, NoticeStale, Prune, Close, Crash, Fail, End,
         stored
    <2> QED
      BY <2>1, <2>3 DEF Calm, Opening
  <1>2. CASE ReadMarker(q) /\ Looks(q)
    <2>1. pc'[q] = "read" /\ how'[q] = None
      BY <1>2 DEF ReadMarker, Goto, Note, MemoryOK
    <2> QED
      BY <1>0, <1>2, <2>1 DEF Calm, At, Looks, stored
  <1>3. CASE ReadKey(q) /\ Looks(q)
    <2>1. how[q] # "marked"
      BY <1>3 DEF ReadKey, Calm, Opening, At
    <2>2. Readable(q, FALSE)
      BY <1>3, <2>1 DEF ReadKey
    <2> QED
      BY <1>3, <2>2, ReadableEffect DEF Calm, At, Looks, stored
  <1>4. CASE Verify(q) /\ Looks(q)
    <2>1. key[q] = file
      BY <1>4 DEF Verify, Calm, Opening, At
    <2>2. Loaded(q, key[q], FALSE)
      BY <1>0, <1>4, <2>1 DEF Verify
    <2> QED
      BY <1>4, <2>2, LoadedEffect DEF Calm, At, Looks, stored
  <1>5. CASE Hash(q)
    <2>1. pc'[q] \in {"wipe", "up"}
      BY <1>5, MoveEffect DEF Hash
    <2> QED
      BY <1>5, <2>1 DEF Calm, Opening, Hash
  <1>6. CASE Wipe(q)
    BY <1>6 DEF Wipe, Goto, MemoryOK, Calm, Opening
  <1>7. Opens(q) => \/ Looks(q) /\ (ReadMarker(q) \/ ReadKey(q) \/ Verify(q))
                    \/ Hash(q) \/ Wipe(q)
    BY DEF Calm, Opening, At, Opens, Looks, Replaces, Retry, ReadRows, ReadFingerprint, CountRows,
           Recheck, StartReset, Remove, Create, Fill, Stamp, Commit
  <1> QED
    BY <1>1, <1>2, <1>3, <1>4, <1>5, <1>6, <1>7

\* CompletedInv is kept by the steps between states in which two processes at most
\* open the store.
LEMMA StepCompleted ==
    TypeOK /\ KeyInv /\ CompletedInv /\ TwoOpeners /\ [Next]_vars => CompletedInv'
  <1> SUFFICES ASSUME StoredOK, MemoryOK, KeyInv, CompletedInv, TwoOpeners, [Next]_vars,
                      NEW p \in Processes, Recalls(p)', marker' = None
               PROVE  /\ file' \in Keys /\ fingerprint' = file'
                      /\ \A q \in Processes \ {p} : Calm(q)'
    BY TypeParts DEF CompletedInv
  <1>0. \A q \in Processes : KeyAt(q)
    BY DEF KeyInv, KeyAt
  <1>1. ASSUME UNCHANGED <<file, fingerprint, marker>>, Recalls(p),
               \A q \in Processes \ {p} : pc'[q] = pc[q] /\ how'[q] = how[q] /\ key'[q] = key[q]
        PROVE  /\ file' \in Keys /\ fingerprint' = file'
               /\ \A q \in Processes \ {p} : Calm(q)'
    BY <1>1 DEF CompletedInv, Calm, Opening, At
  <1>2. CASE Open(p) \/ Opens(p) \/ Uses(p) \/ Close(p) \/ Crash(p) \/ Fail(p)
    <2>1. Recalls(p) /\ UNCHANGED <<file, fingerprint, marker>>
      BY <1>2, OwnRecall
    <2>2. OthersKeep(p)
      BY <1>0, <1>2, OpensEffect, OwnEffect
    <2> QED
      BY <1>1, <2>1, <2>2 DEF OthersKeep
  <1>3. ASSUME NEW x \in Processes \ {p},
               Open(x) \/ Opens(x) \/ Uses(x) \/ Close(x) \/ Crash(x) \/ Fail(x)
        PROVE  /\ file' \in Keys /\ fingerprint' = file'
               /\ \A q \in Processes \ {p} : Calm(q)'
    <2>0. OthersKeep(x)
      BY <1>0, <1>3, OpensEffect, OwnEffect
    <2>1. Recalls(p) /\ Opening(p)
      BY <2>0 DEF OthersKeep, Recalls, Opening, At
    <2>2. CASE marker = None
      <3>1. file \in Keys /\ fingerprint = file /\ \A q \in Processes \ {p} : Calm(q)
        BY <2>1, <2>2 DEF CompletedInv
      <3>2. Calm(x)' /\ file' = file /\ fingerprint' = fingerprint
        BY <1>3, <2>2, <3>1, CalmStays
      <3>3. \A q \in Processes \ {p} : q # x => Calm(q)'
        BY <2>0, <3>1, <3>2 DEF OthersKeep, Calm, Opening, At
      <3> QED
        BY <3>1, <3>2, <3>3
    <2>3. CASE marker # None
      <3>1. Wipe(x) /\ file \in Keys
        BY <1>3, <2>3, TokenType, StoreOpeningAssumption
           DEF Open, Opens, Looks, Replaces, Stamp, Commit, Hash, Wipe, Uses, Enqueue, Deliver,
               NoticeStale, Prune, Close, Crash, Fail, End, stored
      <3>2. fingerprint' = file /\ file' = file /\ pc'[x] = "up" /\ Opening(x)
        BY <3>1 DEF Wipe, Goto, MemoryOK, Opening, At
      <3>3. \A q \in Processes \ {p, x} : ~Opening(q)
        BY <2>1, <3>2 DEF TwoOpeners
      <3>4. \A q \in Processes \ {p} : ~Opening(q)'
        BY <2>0, <3>2, <3>3 DEF OthersKeep, Opening
      <3> QED
        BY <3>1, <3>2, <3>4 DEF Calm
    <2> QED
      BY <2>2, <2>3
  <1>4. CASE Tamper
    BY <1>4 DEF Tamper, Quiet, Recalls, At
  <1>5. CASE UNCHANGED vars
    <2>1. UNCHANGED <<file, fingerprint, marker, pc, how, key>>
      BY <1>5 DEF vars
    <2>2. Recalls(p)
      BY <2>1 DEF Recalls, At
    <2> QED
      BY <1>1, <2>1, <2>2
  <1> QED
    BY <1>2, <1>3, <1>4, <1>5 DEF Next

\* README, "The reset flag is one-shot", for openings of which two at most overlap,
\* with any crashes, failures and changes of the key file: no reset ever begins for a
\* token that was used.  It takes a third opening to replace the key between the
\* completion of a reset and the one that has read its mark (and an interrupted one, see
\* TokensUninterrupted).
THEOREM TokensAreOneShot == Spec /\ []TwoOpeners => TokenOneShot
  <1>1. Init => CompletedInv
    BY DEF Init, CompletedInv, Recalls, At
  <1>2. MemoryOK /\ CompletedInv => AdoptInTime
    <2> SUFFICES ASSUME MemoryOK, CompletedInv, NEW p \in Processes, StartReset(p), At(p, "commit")',
                        marker = None
                 PROVE  FALSE
      BY DEF AdoptInTime
    <2>1. how[p] = "prefer" /\ At(p, "reset") /\ ~(file \in Keys /\ fingerprint = file)
      BY LoadedEffect, LockedEffect, MoveEffect DEF StartReset, At
    <2> QED
      BY <2>1 DEF CompletedInv, Recalls
  <1>3. TypeOK /\ CompletedInv => AdoptInTime
    BY <1>2, TypeParts
  <1>4. Spec /\ []TwoOpeners => []CompletedInv
    BY <1>1, StepCompleted, TypeCorrect, PTL DEF Spec
  <1> QED
    BY <1>3, <1>4, TokensUnlessAdopted, TypeCorrect, PTL
-----------------------------------------------------------------------------
(* Openings that nothing interrupts *)

\* A step of x that is no fault.
Step(x) == Open(x) \/ Opens(x) \/ Uses(x) \/ Close(x)

\* While a process opens the store, a fingerprint and the rows under a key stay, and
\* before there is a fingerprint no rows come to be under one.
LEMMA StoreGrows ==
    ASSUME StoredOK, KeyInv, UninterruptedInv, NEW x \in Processes, Step(x),
           NEW p \in Processes, Opening(p)
    PROVE  /\ fingerprint # 0 => fingerprint' # 0
           /\ KeyBacked => KeyBacked'
           /\ fingerprint = 0 => KeyBacked' = KeyBacked
  <1>0. 0 \notin Keys
    BY DEF Keys
  <1>u. ASSUME UNCHANGED <<fingerprint, rows>>
        PROVE  /\ fingerprint # 0 => fingerprint' # 0
               /\ KeyBacked => KeyBacked'
               /\ fingerprint = 0 => KeyBacked' = KeyBacked
    BY <1>u DEF KeyBacked
  <1>1. CASE Open(x) \/ Looks(x) \/ Replaces(x) \/ NoticeStale(x) \/ Close(x)
    BY <1>1, <1>u DEF Open, Looks, Replaces, NoticeStale, Close, End, stored
  <1>2. CASE Stamp(x)
    <2>1. key[x] \in Keys
      BY <1>2 DEF Stamp, KeyInv, HoldsKey, At
    <2> QED
      BY <1>0, <1>2, <2>1 DEF Stamp, KeyBacked
  <1>3. CASE Commit(x)
    <2>1. key[x] \in Keys
      BY <1>3 DEF Commit, KeyInv, HoldsKey, At
    <2>2. rows' = rows /\ fingerprint' \in {fingerprint, key[x]}
      BY <1>3 DEF Commit
    <2> QED
      BY <1>0, <2>1, <2>2 DEF KeyBacked
  <1>4. CASE Hash(x)
    <2>1. fingerprint # 0 /\ fingerprint' = fingerprint
      BY <1>4 DEF Hash, UninterruptedInv, PlaceAt, At
    <2>2. \A k \in Keys : rows[k] # "none" => rows'[k] # "none"
      BY <1>0, <1>4 DEF Hash, StoredOK
    <2> QED
      BY <2>1, <2>2 DEF KeyBacked
  <1>5. CASE Wipe(x)
    <2>1. fingerprint # 0
      BY <1>5 DEF Wipe, UninterruptedInv, PlaceAt, At
    <2>2. fingerprint' # 0 /\ \A k \in Keys : rows[k] # "none" => rows'[k] # "none"
      BY <1>0, <1>5, <2>1 DEF Wipe, StoredOK, stored
    <2> QED
      BY <2>1, <2>2 DEF KeyBacked
  <1>6. CASE Enqueue(x) \/ Deliver(x)
    <2>1. fingerprint # 0 /\ fingerprint' = fingerprint
      BY <1>0, <1>6 DEF Enqueue, Deliver, Current, KeyInv
    <2>2. \A k \in Keys : rows[k] # "none" => rows'[k] # "none"
      BY <1>6 DEF Enqueue, Deliver, StoredOK
    <2> QED
      BY <2>1, <2>2 DEF KeyBacked
  <1>7. ~Prune(x)
    BY DEF Prune, Quiet, Opening
  <1> QED
    BY <1>1, <1>2, <1>3, <1>4, <1>5, <1>6, <1>7 DEF Step, Opens, Uses

\* Three steps change the key file: one removes it, one makes it and goes on to fill it,
\* one fills it.
LEMMA FileSteps ==
    ASSUME StoredOK, MemoryOK, UninterruptedInv, NEW x \in Processes, Step(x)
    PROVE  \/ file' = file /\ lastKey' = lastKey /\ ~At(x, "fill") /\ pc'[x] # "fill"
           \/ At(x, "remove") /\ file' = Missing /\ writer' = writer /\ pc'[x] = "create"
           \/ /\ At(x, "create") /\ file = Missing /\ file' = Corrupt /\ writer' = writer
              /\ pc'[x] = "fill" /\ lastKey' = lastKey + 1 /\ key'[x] = lastKey'
           \/ /\ At(x, "fill") /\ file' = key[x] /\ writer' = writer /\ key'[x] = key[x]
              /\ pc'[x] \in {"stamp", "commit"}
  <1>0. Missing \notin Keys /\ Corrupt \notin Keys /\ Missing # Corrupt
    BY DEF Keys, Missing, Corrupt
  <1>lk. ASSUME NEW why, Locked(x, why) PROVE pc'[x] # "fill"
    BY <1>lk, LockedEffect
  <1>ld. ASSUME NEW k, NEW w, Loaded(x, k, w) PROVE pc'[x] # "fill"
    BY <1>ld, LoadedEffect
  <1>rs. ASSUME NEW m, Reset(x, m) PROVE pc'[x] # "fill"
    BY <1>rs, ResetEffect
  <1>rd. ASSUME NEW b \in BOOLEAN, Readable(x, b) PROVE pc'[x] # "fill"
    BY <1>rd, ReadableEffect
  <1>mv. ASSUME NEW place, Move(x, place), place # "fill" PROVE pc'[x] # "fill"
    BY <1>mv, MoveEffect
  <1>go. ASSUME NEW place, Goto(x, place), place # "fill" PROVE pc'[x] # "fill"
    BY <1>go DEF Goto, MemoryOK
  <1>1. CASE Remove(x)
    BY <1>1, MoveEffect DEF Remove
  <1>2. CASE Create(x)
    <2>1. CASE file = Missing
      BY <1>0, <1>2, <2>1 DEF Create, Goto, Take, MemoryOK
    <2>2. CASE file \in Keys
      <3>1. Goto(x, IF how[x] = "first" THEN "stamp" ELSE "commit")
        BY <1>0, <1>2, <2>2 DEF Create
      <3> QED
        BY <1>0, <1>2, <1>go, <2>2, <3>1 DEF Create, At
    <2>3. CASE file = Corrupt
      BY <1>0, <1>2, <1>lk, <2>3 DEF Create, At
    <2> QED
      BY <2>1, <2>2, <2>3 DEF StoredOK
  <1>3. CASE Fill(x)
    <2>1. file = Corrupt /\ lastKey = key[x]
      BY <1>3 DEF Fill, UninterruptedInv, PlaceAt, At
    <2>2. pc'[x] \in {"stamp", "commit"} /\ key'[x] = key[x]
      BY <1>3, MoveEffect DEF Fill
    <2> QED
      BY <1>3, <2>1, <2>2 DEF Fill
  <1>4. CASE StartReset(x) /\ UNCHANGED <<file, lastKey>>
    <2>1. CASE Move(x, IF file = Missing THEN "create" ELSE "remove")
      BY <1>4, <1>mv, <2>1 DEF StartReset, At
    <2> QED
      BY <1>4, <1>go, <1>ld, <1>lk, <2>1 DEF StartReset, At
  <1>5. CASE Looks(x)
    <2>0. UNCHANGED <<file, lastKey>>
      BY <1>5 DEF Looks
    <2>1. CASE ReadMarker(x) \/ ReadKey(x) \/ Retry(x)
      BY <1>go, <1>rs, <1>rd, <1>mv, <1>lk, <2>0, <2>1 DEF ReadMarker, ReadKey, Retry, At
    <2>2. CASE ReadRows(x) \/ ReadFingerprint(x)
      BY <1>go, <1>rs, <1>rd, <1>lk, <2>0, <2>2 DEF ReadRows, ReadFingerprint, At
    <2>3. CASE Verify(x) \/ CountRows(x) \/ Recheck(x)
      BY <1>rs, <1>mv, <1>ld, <1>lk, <2>0, <2>3 DEF Verify, CountRows, Recheck, At
    <2> QED
      BY <1>5, <2>1, <2>2, <2>3 DEF Looks
  <1>6. CASE Stamp(x) \/ Commit(x) \/ Wipe(x)
    BY <1>6, <1>go, <1>ld, <1>mv, <1>lk DEF Stamp, Commit, Wipe, At
  <1>7. CASE Hash(x)
    <2>1. Move(x, IF wipe[x] THEN "wipe" ELSE "up")
      BY <1>7 DEF Hash
    <2> QED
      BY <1>7, <1>mv, <2>1 DEF Hash, At
  <1>8. CASE Open(x) \/ Uses(x) \/ Close(x)
    <2>1. pc'[x] \in {"start", "up", "down"}
      BY <1>8, EndEffect
         DEF Open, Uses, Enqueue, Deliver, NoticeStale, Prune, Unlocked, Close, Goto, At, MemoryOK
    <2> QED
      BY <1>8, <2>1 DEF Open, Uses, Enqueue, Deliver, NoticeStale, Prune, Unlocked, Close, End, At
  <1> QED
    BY <1>1, <1>2, <1>3, <1>4, <1>5, <1>6, <1>7, <1>8 DEF Step, Opens, Replaces

\* The lock is taken when it is free, and given up by who holds it: that is the commit
\* of a reset, which finds its key in the file while none was used before.
LEMMA WriterSteps ==
    ASSUME StoredOK, MemoryOK, KeyInv, UninterruptedInv, NEW x \in Processes, Step(x)
    PROVE  \/ writer' = writer
           \/ /\ writer = None /\ writer' = x /\ Resetting(x)'
              /\ At(x, "reset") /\ file' = file /\ fingerprint' = fingerprint
              /\ ~(file \in Keys /\ fingerprint = file)
           \/ /\ writer = x /\ writer' = None /\ At(x, "commit") /\ file' = file
              /\ NoKeyUsed => file = key[x] /\ fingerprint' = key[x]
  <1>0. None \notin Processes /\ Missing \notin Keys /\ Corrupt \notin Keys /\ Missing # Corrupt
    BY StoreOpeningAssumption DEF Keys, Missing, Corrupt
  <1>1. CASE Looks(x) \/ Remove(x) \/ Fill(x) \/ Stamp(x) \/ Hash(x) \/ Wipe(x) \/ Open(x) \/ Uses(x)
    BY <1>1 DEF Looks, Remove, Fill, Stamp, Hash, Wipe, Open, Uses, Enqueue, Deliver, NoticeStale, Prune
  <1>2. CASE Replaces(x) /\ StartReset(x) /\ UNCHANGED <<file, lastKey>>
    <2>0. At(x, "reset") /\ how[x] # "first" /\ writer = None
      BY <1>2 DEF StartReset, UninterruptedInv, PlaceAt, At
    <2>1. CASE Goto(x, "commit") /\ writer' = x /\ ~(file \in Keys /\ fingerprint = file)
      <3>1. pc'[x] = "commit"
        BY <2>1 DEF Goto, MemoryOK
      <3> QED
        BY <1>2, <2>0, <2>1, <3>1 DEF Resetting, Replaces, stored
    <2>2. CASE /\ Move(x, IF file = Missing THEN "create" ELSE "remove") /\ writer' = x
               /\ ~(file \in Keys /\ fingerprint = file)
      <3>1. pc'[x] \in {"create", "remove"} /\ how'[x] = how[x]
        BY <2>2, MoveEffect
      <3> QED
        BY <1>2, <2>0, <2>2, <3>1 DEF Resetting, Replaces, stored
    <2> QED
      BY <1>2, <2>1, <2>2 DEF StartReset
  <1>3. CASE Create(x)
    <2>1. ~Spoilt
      BY <1>3 DEF Create, UninterruptedInv, PlaceAt, At
    <2>2. ~(file = Corrupt /\ GivesUp)
      BY <1>0, <2>1 DEF GivesUp, Spoilt
    <2> QED
      BY <1>3, <2>2 DEF Create
  <1>4. CASE Commit(x)
    <2>1. writer = x /\ At(x, "commit")
      BY <1>4 DEF Commit, UninterruptedInv, PlaceAt, Resetting, At
    <2>2. NoKeyUsed => file = key[x]
      BY <2>1 DEF UninterruptedInv, PlaceAt, PristineAt, At
    <2> QED
      BY <1>4, <2>1, <2>2 DEF Commit
  <1>5. CASE Close(x)
    <2>1. writer # x
      BY <1>5 DEF Close, UninterruptedInv, PlaceAt, Resetting, At
    <2> QED
      BY <1>5, <2>1 DEF Close, End
  <1> QED
    BY <1>1, <1>2, <1>3, <1>4, <1>5 DEF Step, Opens, Replaces

\* A file is not damaged by a step that is no fault, and a damaged one is mended only
\* by who removes it.
LEMMA SpoiltSteps ==
    ASSUME StoredOK, MemoryOK, KeyInv, UninterruptedInv, NEW x \in Processes, Step(x), OthersKeep(x)
    PROVE  /\ Spoilt' => Spoilt
           /\ Spoilt => Spoilt' \/ At(x, "remove")
  <1>0. Missing \notin Keys /\ Corrupt \notin Keys /\ Missing # Corrupt
    BY DEF Keys, Missing, Corrupt
  <1>1. CASE file' = file /\ ~At(x, "fill") /\ pc'[x] # "fill"
    BY <1>1 DEF Spoilt, At, OthersKeep
  <1>2. CASE file' = Missing /\ At(x, "remove")
    BY <1>0, <1>2 DEF Spoilt
  <1>3. CASE file = Missing /\ pc'[x] = "fill"
    BY <1>0, <1>3 DEF Spoilt, At
  <1>4. CASE At(x, "fill") /\ file' = key[x]
    <2>1. key[x] \in Keys
      BY <1>4 DEF KeyInv, HoldsKey, At
    <2> QED
      BY <1>0, <1>4, <2>1 DEF Spoilt
  <1> QED
    BY <1>1, <1>2, <1>3, <1>4, FileSteps

\* What a process relies on where it is, it can still rely on after a step of another.
LEMMA OtherPlace ==
    ASSUME StoredOK, MemoryOK, KeyInv, UninterruptedInv, NEW x \in Processes, Step(x), OthersKeep(x),
           NEW q \in Processes \ {x}
    PROVE  PlaceAt(q)'
  <1>0. /\ None \notin Processes /\ Missing \notin Keys /\ Corrupt \notin Keys /\ Missing # Corrupt
        /\ PlaceAt(q) /\ PlaceAt(x)
    BY StoreOpeningAssumption DEF Keys, Missing, Corrupt, UninterruptedInv
  <1>k. pc'[q] = pc[q] /\ key'[q] = key[q] /\ how'[q] = how[q]
    BY DEF OthersKeep
  <1>w. (writer' = q) <=> (writer = q)
    BY <1>0, WriterSteps
  <1>r. Resetting(q)' <=> Resetting(q)
    BY <1>k DEF Resetting
  <1>1. CASE ~Opening(q)
    <2>1. /\ ~Resetting(q) /\ ~First(q)' /\ ~Opening(q)'
          /\ pc'[q] \in {"up", "down"}
      BY <1>1, <1>k DEF Opening, Resetting, First
    <2> QED
      BY <1>0, <1>w, <1>r, <2>1 DEF PlaceAt, PristineAt, At
  <1>2. CASE Opening(q)
    <2>1. /\ fingerprint # 0 => fingerprint' # 0
          /\ KeyBacked => KeyBacked'
          /\ fingerprint = 0 => KeyBacked' = KeyBacked
      BY <1>2, StoreGrows
    <2>2. /\ Spoilt' => Spoilt
          /\ Spoilt => Spoilt' \/ At(x, "remove")
      BY SpoiltSteps
    <2>3. NoKeyUsed' => NoKeyUsed
      BY <2>1 DEF NoKeyUsed
    <2>hk. HoldsKey(q) => key[q] \in Keys
      BY DEF KeyInv
    <2>4. At(q, "fill") => file' = Corrupt /\ lastKey' = key[q]
      <3> SUFFICES ASSUME At(q, "fill") PROVE file' = file /\ lastKey' = lastKey
        BY <1>0 DEF PlaceAt
      <3>1. file = Corrupt /\ ~At(x, "fill") /\ ~At(x, "remove")
        BY <1>0 DEF PlaceAt, UninterruptedInv, FillInv, At
      <3> QED
        BY <1>0, <3>1, FileSteps
    <2>5. At(q, "remove") => file' # Missing
      <3> SUFFICES ASSUME At(q, "remove") PROVE file' # Missing
        OBVIOUS
      <3>1. file # Missing /\ writer = q
        BY <1>0 DEF PlaceAt, Resetting, At
      <3>2. ~At(x, "remove") /\ ~At(x, "fill")
        BY <1>0, <3>1 DEF PlaceAt, Resetting, At, UninterruptedInv, FillInv
      <3> QED
        BY <3>1, <3>2, FileSteps
    <2>6. ASSUME NoKeyUsed' PROVE PristineAt(q)'
      <3>0. NoKeyUsed /\ PristineAt(q) /\ PristineAt(x)
        BY <1>0, <2>3, <2>6 DEF PlaceAt
      <3>1. writer' = None => writer = None
        <4>1. ASSUME writer = x, At(x, "commit"), fingerprint' = key[x] PROVE FALSE
          <5>1. key[x] \in Keys /\ 0 \notin Keys
            BY <4>1 DEF KeyInv, HoldsKey, At, Keys
          <5> QED
            BY <2>6, <4>1, <5>1 DEF NoKeyUsed
        <4> QED
          BY <1>0, <3>0, <4>1, WriterSteps
      <3>2. At(x, "remove") => writer = x /\ writer' = x
        <4>1. At(x, "remove") => writer = x
          BY <1>0 DEF PlaceAt, Resetting, At
        <4> QED
          BY <4>1, <1>0, WriterSteps DEF At
      <3>3. At(q, "remove") \/ (At(q, "reset") /\ writer' = None) => Spoilt'
        <4>1. At(q, "remove") => writer = q
          BY <1>0 DEF PlaceAt, Resetting, At
        <4> QED
          BY <1>0, <2>2, <3>0, <3>1, <3>2, <4>1 DEF PristineAt
      <3>4. ASSUME pc[q] \in {"verify", "count", "stamp", "commit"} PROVE file' = key[q]
        <4>1. file = key[q] /\ key[q] \in Keys
          BY <2>hk, <3>0, <3>4 DEF PristineAt, HoldsKey
        <4>2. ~At(x, "remove") /\ ~At(x, "fill")
          BY <1>0, <3>0, <4>1 DEF PristineAt, PlaceAt, Spoilt
        <4> QED
          BY <1>0, <4>1, <4>2, FileSteps
      <3>5. ASSUME At(q, "retry"), writer' = None PROVE file' # Missing
        <4>1. file # Missing /\ writer = None
          BY <3>0, <3>1, <3>5 DEF PristineAt
        <4>2. ~At(x, "remove")
          BY <1>0, <3>2, <4>1
        <4>3. At(x, "fill") => key[x] \in Keys
          BY DEF KeyInv, HoldsKey, At
        <4> QED
          BY <1>0, <4>1, <4>2, <4>3, FileSteps
      <3> QED
        BY <1>k, <3>3, <3>4, <3>5 DEF PristineAt, At
    <2>7. (Resetting(q) <=> writer = q)'
      BY <1>0, <1>w, <1>r DEF PlaceAt
    <2> QED
      BY <1>0, <1>k, <2>1, <2>2, <2>4, <2>5, <2>6, <2>7 DEF PlaceAt, At, First
  <1> QED
    BY <1>1, <1>2

\* What a process relies on where its own step takes it.
LEMMA OwnPlace ==
    ASSUME StoredOK, MemoryOK, KeyInv, UninterruptedInv, NEW x \in Processes, Step(x)
    PROVE  PlaceAt(x)'
  <1>0. /\ None \notin Processes /\ Missing \notin Keys /\ Corrupt \notin Keys /\ Missing # Corrupt
        /\ 0 \notin Keys
    BY StoreOpeningAssumption DEF Keys, Missing, Corrupt
  <1>at. PlaceAt(x)
    BY DEF UninterruptedInv
  <1>hk. HoldsKey(x) => key[x] \in Keys
    BY DEF KeyInv
  <1>st. Relies(x) => file \in Keys /\ fingerprint = file
    BY DEF UninterruptedInv, Settled
  <1>ok. ASSUME pc'[x] \in {"start", "recheck", "up", "down"}, writer' # x PROVE PlaceAt(x)'
    BY <1>ok DEF PlaceAt, PristineAt, Resetting, First, At
  <1>ld. ASSUME NEW k, NEW w, Loaded(x, k, w), fingerprint' # 0, writer' # x PROVE PlaceAt(x)'
    BY <1>ld, LoadedEffect DEF PlaceAt, NoKeyUsed, Resetting, First, At
  <1>lk. ASSUME NEW why, Locked(x, why), writer' # x PROVE PlaceAt(x)'
    BY <1>lk, <1>ok, LockedEffect
  <1>1. CASE Looks(x)
    <2>0. UNCHANGED <<file, lastKey, fingerprint, rows, writer>> /\ ~Resetting(x)
      BY <1>1 DEF Looks, stored, ReadMarker, ReadKey, Retry, ReadRows, ReadFingerprint, Verify,
                  CountRows, Recheck, Resetting, At
    <2>1. writer' # x
      BY <1>at, <2>0 DEF PlaceAt
    <2>2. KeyBacked' = KeyBacked /\ NoKeyUsed' = NoKeyUsed
      BY <2>0 DEF NoKeyUsed, KeyBacked
    <2>rs. ASSUME NEW m, m # "first", Reset(x, m),
                  \/ fingerprint # 0 \/ KeyBacked
                  \/ m = "corrupt" /\ (NoKeyUsed /\ writer' = None => Spoilt')
           PROVE  PlaceAt(x)'
      BY <2>0, <2>1, <2>2, <2>rs, ResetEffect DEF PlaceAt, PristineAt, NoKeyUsed, Resetting, First, At
    <2>rd. ASSUME NEW b \in BOOLEAN, Readable(x, b), b => fingerprint # 0 PROVE PlaceAt(x)'
      BY <2>0, <2>1, <2>2, <2>rd, ReadableEffect
         DEF PlaceAt, PristineAt, NoKeyUsed, Resetting, First, At
    <2>3. CASE ReadMarker(x)
      <3>1. pc'[x] = "read"
        BY <2>3 DEF ReadMarker, Goto, MemoryOK
      <3> QED
        BY <2>1, <3>1 DEF PlaceAt, PristineAt, Resetting, First, At
    <2>4. CASE ReadKey(x)
      <3>0. how[x] = "marked" => file \in Keys /\ fingerprint # 0
        BY <1>0, <1>st, <2>4 DEF ReadKey, Relies, Recalls, At
      <3>1. CASE Move(x, "retry") /\ file = Corrupt
        BY <1>0, <2>0, <2>1, <3>1, MoveEffect DEF PlaceAt, PristineAt, Resetting, First, At
      <3>2. CASE Move(x, "missing") /\ file = Missing
        <4>1. ~Spoilt'
          BY <1>0, <2>0, <3>2 DEF Spoilt
        <4> QED
          BY <2>1, <3>2, <4>1, MoveEffect DEF PlaceAt, PristineAt, Resetting, First, At
      <3> QED
        BY <2>4, <2>rd, <3>0, <3>1, <3>2 DEF ReadKey, StoredOK
    <2>5. CASE Retry(x)
      <3>0. how[x] = "marked" => file \in Keys /\ fingerprint # 0
        BY <1>0, <1>st, <2>5 DEF Retry, Relies, Recalls, At
      <3>1. CASE Reset(x, "corrupt") /\ file \notin Keys
        <4>1. NoKeyUsed /\ writer = None => file = Corrupt
          BY <1>at, <2>5, <3>1 DEF Retry, PlaceAt, PristineAt, StoredOK
        <4>2. \A q \in Processes : ~At(q, "fill")
          BY <2>5, <3>1 DEF Retry, GivesUp
        <4>3. \A q \in Processes : ~At(q, "fill")'
          BY <3>1, <4>2, ResetEffect DEF OthersKeep, At
        <4> QED
          BY <2>0, <2>rs, <3>1, <4>1, <4>3 DEF Spoilt
      <3> QED
        BY <1>lk, <2>1, <2>5, <2>rd, <3>0, <3>1 DEF Retry
    <2>6. CASE ReadRows(x)
      <3>1. CASE /\ Goto(x, "fresh") /\ Note(x, IF KeyBacked THEN "rows" ELSE None)
                 /\ UNCHANGED <<key, wipe, cause>>
        <4>1. /\ pc'[x] = "fresh" /\ how'[x] = IF KeyBacked THEN "rows" ELSE None
              /\ \A q \in Processes : At(q, "fill")' <=> At(q, "fill")
          BY <2>6, <3>1 DEF ReadRows, Goto, Note, MemoryOK, At
        <4>2. ~Spoilt'
          BY <1>at, <2>0, <2>6, <4>1 DEF PlaceAt, ReadRows, Spoilt, At
        <4>3. None # "rows"
          BY StoreOpeningAssumption DEF Notes
        <4> QED
          BY <2>0, <2>1, <2>2, <4>1, <4>2, <4>3 DEF PlaceAt, PristineAt, Resetting, First, At
      <3> QED
        BY <1>lk, <2>1, <2>6, <3>1 DEF ReadRows
    <2>7. CASE ReadFingerprint(x)
      <3>1. CASE /\ Goto(x, "create") /\ Note(x, "first") /\ UNCHANGED <<key, wipe, cause>>
                 /\ fingerprint = 0 /\ how[x] # "rows"
        <4>1. /\ pc'[x] = "create" /\ how'[x] = "first"
              /\ \A q \in Processes : At(q, "fill")' <=> At(q, "fill")
          BY <2>7, <3>1 DEF ReadFingerprint, Goto, Note, MemoryOK, At
        <4>2. ~Spoilt' /\ ~KeyBacked
          BY <1>at, <2>0, <2>7, <3>1, <4>1 DEF PlaceAt, ReadFingerprint, Spoilt, At
        <4> QED
          BY <2>0, <2>1, <2>2, <4>1, <4>2 DEF PlaceAt, PristineAt, Resetting, First, At
      <3>2. how[x] = "rows" => KeyBacked
        BY <1>at, <2>7 DEF PlaceAt, ReadFingerprint, At
      <3> QED
        BY <1>lk, <2>1, <2>7, <2>rd, <2>rs, <3>1, <3>2 DEF ReadFingerprint
    <2>8. CASE Verify(x)
      <3>1. CASE Move(x, "count")
        BY <1>at, <2>0, <2>1, <2>2, <2>8, <3>1, MoveEffect
           DEF Verify, PlaceAt, PristineAt, Resetting, First, At
      <3> QED
        BY <1>ld, <1>lk, <2>0, <2>1, <2>8, <2>rs, <3>1 DEF Verify
    <2>9. CASE CountRows(x)
      <3>1. CASE Move(x, "stamp") /\ ~KeyBacked
        BY <1>at, <2>0, <2>1, <2>2, <2>9, <3>1, MoveEffect
           DEF CountRows, PlaceAt, PristineAt, Resetting, First, At
      <3> QED
        BY <1>lk, <2>0, <2>1, <2>9, <2>rs, <3>1 DEF CountRows
    <2>10. CASE Recheck(x)
      <3>1. key[x] # 0
        BY <1>0, <1>hk, <2>10 DEF Recheck, HoldsKey, At
      <3> QED
        BY <1>ld, <1>lk, <2>0, <2>1, <2>10, <3>1 DEF Recheck
    <2> QED
      BY <1>1, <2>3, <2>4, <2>5, <2>6, <2>7, <2>8, <2>9, <2>10 DEF Looks
  <1>2. CASE StartReset(x) /\ UNCHANGED <<file, lastKey>> /\ Replaces(x)
    <2>0. /\ At(x, "reset") /\ how[x] # "first" /\ writer = None
          /\ UNCHANGED <<file, lastKey, fingerprint, rows>>
      BY <1>2, <1>at DEF StartReset, PlaceAt, At, Replaces, stored
    <2>1. CASE Loaded(x, file, marker # None) /\ UNCHANGED writer /\ fingerprint = file /\ file \in Keys
      BY <1>0, <1>ld, <2>0, <2>1
    <2>2. CASE Goto(x, "commit") /\ Take(x, file) /\ UNCHANGED <<how, wipe, cause>> /\ writer' = x
      <3>1. pc'[x] = "commit" /\ key'[x] = file
        BY <2>2 DEF Goto, Take, MemoryOK
      <3> QED
        BY <2>0, <2>2, <3>1 DEF PlaceAt, PristineAt, Resetting, First, At
    <2>3. CASE Locked(x, "opening") /\ UNCHANGED writer
      BY <1>0, <1>lk, <2>0, <2>3
    <2>4. CASE Move(x, IF file = Missing THEN "create" ELSE "remove") /\ writer' = x
      <3>0. /\ how'[x] = how[x] /\ OthersKeep(x)
            /\ pc'[x] = IF file = Missing THEN "create" ELSE "remove"
        BY <2>4, MoveEffect
      <3>1. Spoilt' = Spoilt
        BY <2>0, <3>0 DEF Spoilt, OthersKeep, At
      <3>2. KeyBacked' = KeyBacked /\ NoKeyUsed' = NoKeyUsed
        BY <2>0 DEF NoKeyUsed, KeyBacked
      <3>3. CASE file = Missing
        <4>1. ~Spoilt'
          BY <1>0, <3>1, <3>3 DEF Spoilt
        <4> QED
          BY <2>0, <2>4, <3>0, <3>3, <4>1 DEF PlaceAt, PristineAt, Resetting, First, At
      <3>4. CASE file # Missing
        <4>1. NoKeyUsed' => Spoilt'
          BY <1>at, <2>0, <3>1, <3>2 DEF PlaceAt, PristineAt
        <4> QED
          BY <2>0, <2>4, <3>0, <3>4, <4>1 DEF PlaceAt, PristineAt, Resetting, First, At
      <3> QED
        BY <3>3, <3>4
    <2> QED
      BY <1>2, <2>1, <2>2, <2>3, <2>4 DEF StartReset
  <1>3. CASE Remove(x)
    <2>1. /\ pc'[x] = "create" /\ how'[x] = how[x] /\ how[x] # "first"
          /\ writer = x /\ writer' = writer /\ file' = Missing
      BY <1>3, <1>at, MoveEffect DEF Remove, PlaceAt, Resetting, At
    <2>2. ~Spoilt'
      BY <1>0, <2>1 DEF Spoilt
    <2> QED
      BY <2>1, <2>2 DEF PlaceAt, PristineAt, Resetting, First, At
  <1>4. CASE Create(x) /\ Replaces(x)
    <2>0. UNCHANGED <<fingerprint, rows>> /\ At(x, "create") /\ ~(file = Corrupt /\ GivesUp)
      BY <1>0, <1>4, <1>at DEF Create, Replaces, stored, PlaceAt, Spoilt, GivesUp, At
    <2>1. KeyBacked' = KeyBacked /\ NoKeyUsed' = NoKeyUsed
      BY <2>0 DEF NoKeyUsed, KeyBacked
    <2>2. CASE file = Missing
      <3>1. /\ pc'[x] = "fill" /\ key'[x] = lastKey' /\ how'[x] = how[x]
            /\ file' = Corrupt /\ writer' = writer
        BY <1>0, <1>4, <2>2 DEF Create, Goto, Take, MemoryOK
      <3> QED
        BY <1>at, <2>0, <2>1, <3>1 DEF PlaceAt, PristineAt, Resetting, First, At
    <2>3. CASE file \in Keys
      <3>1. /\ pc'[x] = (IF how[x] = "first" THEN "stamp" ELSE "commit")
            /\ key'[x] = file /\ how'[x] = how[x] /\ file' = file /\ writer' = writer
        BY <1>0, <1>4, <2>3 DEF Create, Goto, Take, MemoryOK
      <3> QED
        BY <1>at, <2>0, <2>1, <3>1 DEF PlaceAt, PristineAt, Resetting, First, At
    <2> QED
      BY <1>4, <2>0, <2>2, <2>3 DEF Create
  <1>5. CASE Fill(x) /\ Replaces(x)
    <2>0. UNCHANGED <<fingerprint, rows, writer>> /\ At(x, "fill") /\ file' = key[x]
      BY <1>5, <1>at DEF Fill, Replaces, stored, PlaceAt
    <2>1. KeyBacked' = KeyBacked /\ NoKeyUsed' = NoKeyUsed
      BY <2>0 DEF NoKeyUsed, KeyBacked
    <2>2. /\ pc'[x] = (IF how[x] = "first" THEN "stamp" ELSE "commit")
          /\ key'[x] = key[x] /\ how'[x] = how[x]
      BY <1>5, MoveEffect DEF Fill
    <2> QED
      BY <1>at, <2>0, <2>1, <2>2 DEF PlaceAt, PristineAt, Resetting, First, At
  <1>6. CASE Stamp(x)
    <2>1. key[x] \in Keys
      BY <1>6, <1>hk DEF Stamp, HoldsKey, At
    <2> QED
      BY <1>0, <1>6, <1>ld, <2>1 DEF Stamp
  <1>7. CASE Commit(x)
    <2>1. pc'[x] \in {"recheck", "up"} /\ writer' = None
      BY <1>7, MoveEffect, LockedEffect DEF Commit
    <2> QED
      BY <1>0, <1>ok, <2>1
  <1>8. CASE Hash(x)
    <2>1. /\ pc'[x] \in {"wipe", "up"} /\ writer' # x
          /\ fingerprint # 0 /\ fingerprint' = fingerprint
      BY <1>0, <1>8, <1>at, MoveEffect DEF Hash, PlaceAt, At
    <2> QED
      BY <2>1 DEF PlaceAt, NoKeyUsed, Resetting, First, At
  <1>9. CASE Wipe(x)
    <2>1. pc'[x] = "up" /\ writer' # x
      BY <1>0, <1>9, LockedEffect DEF Wipe, Goto, MemoryOK
    <2> QED
      BY <1>ok, <2>1
  <1>10. CASE Open(x) \/ Uses(x) \/ Close(x)
    <2>1. pc'[x] \in {"start", "up", "down"} /\ ~Resetting(x)
      BY <1>10, EndEffect
         DEF Open, Uses, Enqueue, Deliver, NoticeStale, Prune, Unlocked, Close, Goto, At, MemoryOK,
             Resetting
    <2>2. writer' = writer \/ writer' = None
      BY <1>10 DEF Open, Uses, Enqueue, Deliver, NoticeStale, Prune, Close, End
    <2> QED
      BY <1>0, <1>at, <1>ok, <2>1, <2>2 DEF PlaceAt
  <1> QED
    BY <1>1, <1>2, <1>3, <1>4, <1>5, <1>6, <1>7, <1>8, <1>9, <1>10 DEF Step, Opens, Replaces

\* What lies behind a step of x that takes it where it relies on something.
Goes(x) ==
    /\ pc'[x] = "remove" => At(x, "reset") /\ writer = None
    /\ pc'[x] = "count" => fingerprint = 0 /\ fingerprint' = fingerprint
    /\ pc'[x] = "stamp" => /\ fingerprint' = fingerprint
                           /\ \/ Stamping(x) /\ key'[x] = key[x]
                              \/ First(x) /\ file \in Keys /\ key'[x] = file
                              \/ First(x) /\ At(x, "fill")
    /\ First(x)' => fingerprint' = fingerprint /\ (First(x) \/ fingerprint = 0)
    /\ pc'[x] = "recheck" => Commit(x) /\ file = key[x] /\ key'[x] = key[x]
    /\ Recalls(x)' => Recalls(x) \/ marker # None
    /\ Finishing(x)' => pc'[x] = "recheck" \/ Finishing(x) \/ marker # None

LEMMA StepGoes ==
    ASSUME StoredOK, MemoryOK, UninterruptedInv, NEW x \in Processes, Step(x)
    PROVE  Goes(x)
  <1>0. Missing \notin Keys /\ Corrupt \notin Keys /\ Missing # Corrupt
    BY DEF Keys, Missing, Corrupt
  <1>ra. pc[x] \in {"reset", "remove"} => how[x] # "first"
    BY DEF UninterruptedInv, PlaceAt
  <1>ok. ASSUME pc'[x] \in {"start", "up", "down", "missing", "fresh", "verify", "commit"}
         PROVE  Goes(x)
    BY <1>ok DEF Goes, First, Recalls, Finishing, At
  <1>ld. ASSUME NEW k, NEW w, Loaded(x, k, w), w => Finishing(x) \/ marker # None PROVE Goes(x)
    <2>1. pc'[x] = "hash" /\ wipe'[x] = w
      BY <1>ld, LoadedEffect
    <2>2. Finishing(x)' => Finishing(x) \/ marker # None
      BY <1>ld, <2>1 DEF Finishing, At
    <2> QED
      BY <2>1, <2>2 DEF Goes, First, Recalls, At
  <1>lk. ASSUME NEW why, Locked(x, why) PROVE Goes(x)
    BY <1>lk, <1>ok, LockedEffect
  <1>rs. ASSUME NEW m \in {"missing", "existing", "corrupt"}, Reset(x, m) PROVE Goes(x)
    BY <1>rs, ResetEffect DEF Goes, First, Recalls, Finishing, At
  <1>rd. ASSUME NEW b \in BOOLEAN, Readable(x, b), b => Recalls(x) PROVE Goes(x)
    BY <1>rd, <1>ok, ReadableEffect DEF Goes, First, Recalls, Finishing, At
  <1>1. CASE Looks(x)
    <2>0. fingerprint' = fingerprint
      BY <1>1 DEF Looks, stored
    <2>1. CASE ReadMarker(x)
      <3>1. pc'[x] = "read" /\ how'[x] = (IF marker # None THEN "marked" ELSE None)
        BY <2>1 DEF ReadMarker, Goto, Note, MemoryOK
      <3>2. None # "marked"
        BY StoreOpeningAssumption DEF Notes
      <3> QED
        BY <3>1, <3>2 DEF Goes, First, Recalls, Finishing, At
    <2>2. CASE ReadKey(x)
      <3>0. how[x] = "marked" => Recalls(x)
        BY <2>2 DEF ReadKey, Recalls, At
      <3>1. CASE Move(x, "retry") \/ Move(x, "missing")
        <4>1. pc'[x] \in {"retry", "missing"} /\ how'[x] = how[x]
          BY <3>1, MoveEffect
        <4> QED
          BY <3>0, <4>1 DEF Goes, First, Recalls, Finishing, At
      <3> QED
        BY <1>rd, <1>rs, <2>2, <3>0, <3>1 DEF ReadKey
    <2>3. CASE Retry(x)
      <3>0. how[x] = "marked" => Recalls(x)
        BY <2>3 DEF Retry, Recalls, At
      <3> QED
        BY <1>rd, <1>rs, <1>lk, <2>3, <3>0 DEF Retry
    <2>4. CASE ReadRows(x)
      <3>1. CASE Goto(x, "fresh")
        BY <1>ok, <3>1 DEF Goto, MemoryOK
      <3> QED
        BY <1>lk, <2>4, <3>1 DEF ReadRows
    <2>5. CASE ReadFingerprint(x)
      <3>1. CASE Goto(x, "create") /\ fingerprint = 0
        BY <2>0, <3>1 DEF Goto, MemoryOK, Goes, First, Recalls, Finishing, At
      <3> QED
        BY <1>rd, <1>rs, <1>lk, <2>5, <3>1 DEF ReadFingerprint
    <2>6. CASE Verify(x)
      <3>1. CASE Move(x, "count") /\ fingerprint = 0
        BY <2>0, <3>1, MoveEffect DEF Goes, First, Recalls, Finishing, At
      <3> QED
        BY <1>ld, <1>rs, <1>lk, <2>6, <3>1 DEF Verify
    <2>7. CASE CountRows(x)
      <3>1. CASE Move(x, "stamp") /\ ~KeyBacked
        BY <2>0, <2>7, <3>1, MoveEffect
           DEF CountRows, Goes, First, Stamping, Recalls, Finishing, At
      <3> QED
        BY <1>rs, <1>lk, <2>7, <3>1 DEF CountRows
    <2>8. CASE Recheck(x)
      <3>1. Finishing(x)
        BY <2>8 DEF Recheck, Finishing, At
      <3> QED
        BY <1>ld, <1>lk, <2>8, <3>1 DEF Recheck
    <2> QED
      BY <1>1, <2>1, <2>2, <2>3, <2>4, <2>5, <2>6, <2>7, <2>8 DEF Looks
  <1>2. CASE StartReset(x) /\ Replaces(x)
    <2>1. CASE Move(x, IF file = Missing THEN "create" ELSE "remove")
      <3>1. pc'[x] \in {"create", "remove"} /\ how'[x] = how[x]
        BY <2>1, MoveEffect
      <3>2. fingerprint' = fingerprint /\ At(x, "reset") /\ writer = None
        BY <1>2 DEF StartReset, Replaces, stored
      <3> QED
        BY <1>ra, <3>1, <3>2 DEF Goes, First, Recalls, Finishing, At
    <2>2. CASE Goto(x, "commit")
      BY <1>ok, <2>2 DEF Goto, MemoryOK
    <2> QED
      BY <1>2, <1>ld, <1>lk, <2>1, <2>2 DEF StartReset
  <1>3. CASE Remove(x) /\ Replaces(x)
    <2>1. pc'[x] = "create" /\ how'[x] = how[x] /\ At(x, "remove") /\ fingerprint' = fingerprint
      BY <1>3, MoveEffect DEF Remove, Replaces, stored
    <2> QED
      BY <1>ra, <2>1 DEF Goes, First, Recalls, Finishing, At
  <1>4. CASE Create(x) /\ Replaces(x)
    <2>0. fingerprint' = fingerprint /\ At(x, "create")
      BY <1>4 DEF Create, Replaces, stored
    <2>1. CASE file = Missing
      <3>1. pc'[x] = "fill" /\ how'[x] = how[x]
        BY <1>0, <1>4, <2>1 DEF Create, Goto, Take, MemoryOK
      <3> QED
        BY <2>0, <3>1 DEF Goes, First, Recalls, Finishing, At
    <2>2. CASE file \in Keys
      <3>1. /\ pc'[x] = (IF how[x] = "first" THEN "stamp" ELSE "commit")
            /\ key'[x] = file /\ how'[x] = how[x]
        BY <1>0, <1>4, <2>2 DEF Create, Goto, Take, MemoryOK
      <3> QED
        BY <2>0, <2>2, <3>1 DEF Goes, First, Recalls, Finishing, At
    <2>3. CASE file = Corrupt
      BY <1>0, <1>4, <1>lk, <2>3 DEF Create
    <2> QED
      BY <2>1, <2>2, <2>3 DEF StoredOK
  <1>5. CASE Fill(x) /\ Replaces(x)
    <2>1. /\ pc'[x] = (IF how[x] = "first" THEN "stamp" ELSE "commit")
          /\ fingerprint' = fingerprint /\ At(x, "fill")
      BY <1>5, MoveEffect DEF Fill, Replaces, stored
    <2> QED
      BY <2>1 DEF Goes, First, Recalls, Finishing, At
  <1>6. CASE Stamp(x)
    BY <1>6, <1>ld DEF Stamp
  <1>7. CASE Commit(x)
    <2>1. CASE file = key[x]
      <3>1. pc'[x] = "recheck" /\ key'[x] = key[x]
        BY <1>7, <2>1, MoveEffect DEF Commit
      <3> QED
        BY <1>7, <2>1, <3>1 DEF Goes, First, Recalls, Finishing, At
    <2> QED
      BY <1>7, <1>lk, <2>1 DEF Commit
  <1>8. CASE Hash(x)
    <2>1. CASE wipe[x]
      <3>1. pc'[x] = "wipe" /\ Finishing(x)
        BY <1>8, <2>1, MoveEffect DEF Hash, Finishing
      <3> QED
        BY <3>1 DEF Goes, First, Recalls, At
    <2>2. CASE ~wipe[x]
      <3>1. pc'[x] = "up"
        BY <1>8, <2>2, MoveEffect DEF Hash
      <3> QED
        BY <1>ok, <3>1
    <2> QED
      BY <2>1, <2>2
  <1>9. CASE Wipe(x) \/ Open(x) \/ Uses(x) \/ Close(x)
    <2>1. pc'[x] \in {"start", "up", "down"}
      BY <1>9, LockedEffect, EndEffect
         DEF Wipe, Open, Uses, Enqueue, Deliver, NoticeStale, Prune, Unlocked, Close, Goto, At, MemoryOK
    <2> QED
      BY <1>ok, <2>1
  <1> QED
    BY <1>1, <1>2, <1>3, <1>4, <1>5, <1>6, <1>7, <1>8, <1>9 DEF Step, Opens, Replaces

\* Only one process comes to fill the file, and none to remove it meanwhile.
LEMMA OneFiller ==
    ASSUME StoredOK, MemoryOK, KeyInv, UninterruptedInv, NEW x \in Processes, Step(x), OthersKeep(x)
    PROVE  FillInv'
  <1> SUFFICES ASSUME NEW p \in Processes, NEW q \in Processes, p # q,
                      pc'[p] = "fill", pc'[q] \in {"fill", "remove"}
               PROVE  FALSE
    BY DEF FillInv, At
  <1>0. /\ Missing \notin Keys /\ Corrupt \notin Keys /\ Missing # Corrupt /\ None \notin Processes
        /\ \A r \in Processes : PlaceAt(r)
    BY StoreOpeningAssumption DEF Keys, Missing, Corrupt, UninterruptedInv
  <1>1. pc'[x] = "fill" => file = Missing
    BY FileSteps DEF At
  <1>2. CASE p # x /\ q # x
    BY <1>2 DEF OthersKeep, UninterruptedInv, FillInv, At
  <1>3. CASE p = x
    <2>1. pc[q] \in {"fill", "remove"}
      BY <1>3 DEF OthersKeep
    <2> QED
      BY <1>0, <1>1, <1>3, <2>1 DEF PlaceAt, At
  <1>4. CASE q = x
    <2>1. pc[p] = "fill" /\ file = Corrupt
      BY <1>0, <1>4 DEF OthersKeep, PlaceAt, At
    <2>2. pc'[x] = "remove" /\ At(x, "reset") /\ writer = None
      BY <1>0, <1>1, <1>4, <2>1, StepGoes DEF Goes
    <2>3. First(p)
      BY <1>0, <2>1, <2>2 DEF PlaceAt, Resetting, First
    <2>4. fingerprint = 0
      BY <1>0, <2>1, <2>3 DEF UninterruptedInv, Relies, Settled
    <2>5. NoKeyUsed
      BY <1>0, <2>3, <2>4 DEF PlaceAt, NoKeyUsed
    <2> QED
      BY <1>0, <2>1, <2>2, <2>5 DEF PlaceAt, PristineAt, Spoilt, At
  <1> QED
    BY <1>2, <1>3, <1>4

\* Where file and fingerprint have come to agree, no step of an opening parts them.
LEMMA SettledStays ==
    ASSUME StoredOK, MemoryOK, KeyInv, UninterruptedInv, NEW x \in Processes, Step(x), OthersKeep(x),
           Settled
    PROVE  Settled'
  <1>0. /\ Missing \notin Keys /\ Corrupt \notin Keys /\ 0 \notin Keys /\ None \notin Processes
        /\ file \in Keys /\ fingerprint = file /\ writer = None /\ PlaceAt(x)
    BY StoreOpeningAssumption DEF Settled, Keys, Missing, Corrupt, UninterruptedInv
  <1>1. ~Resetting(x) /\ ~At(x, "commit") /\ ~At(x, "fill")
    BY <1>0 DEF PlaceAt, Resetting, At
  <1>2. file' = file
    BY <1>0, <1>1, FileSteps DEF Resetting, At
  <1>3. writer' = writer
    BY <1>0, <1>1, WriterSteps
  <1>4. fingerprint' = fingerprint
    <2>1. CASE Stamp(x)
      BY <1>0, <2>1 DEF Stamp, Settled, Stamping
    <2>2. CASE Wipe(x)
      BY <1>0, <2>2 DEF Wipe, stored
    <2>3. ~Commit(x)
      BY <1>1 DEF Commit
    <2> QED
      BY <2>1, <2>2, <2>3 DEF Step, Opens, Looks, Replaces, Hash, Open, Uses, Enqueue, Deliver,
                              NoticeStale, Prune, Close, End, stored
  <1>5. ASSUME NEW p \in Processes, (Stamping(p) \/ At(p, "recheck"))' PROVE key'[p] = file
    <2>1. CASE p = x
      <3>1. pc'[x] # "count" /\ pc'[x] # "recheck"
        BY <1>0, <1>1, StepGoes DEF Goes, Commit
      <3>2. pc'[x] = "stamp"
        BY <1>5, <2>1, <3>1 DEF Stamping, At
      <3> QED
        BY <1>0, <1>1, <2>1, <3>2, StepGoes DEF Goes, Settled
    <2>2. CASE p # x
      <3>1. pc'[p] = pc[p] /\ key'[p] = key[p]
        BY <2>2 DEF OthersKeep
      <3>2. Opening(p)
        BY <1>5, <3>1 DEF Stamping, Opening, At
      <3>3. KeyBacked => KeyBacked'
        BY <3>2, StoreGrows
      <3>4. Stamping(p) \/ At(p, "recheck")
        BY <1>5, <3>1, <3>3 DEF Stamping, At
      <3> QED
        BY <3>1, <3>4 DEF Settled
    <2> QED
      BY <2>1, <2>2
  <1> QED
    BY <1>0, <1>2, <1>3, <1>4, <1>5 DEF Settled

\* They come to agree when the first fingerprint is stored, or a reset commits its own.
LEMMA ComesToSettle ==
    ASSUME StoredOK, MemoryOK, KeyInv, UninterruptedInv, NEW x \in Processes, Step(x), OthersKeep(x),
           ~Settled, (Stamp(x) /\ NoKeyUsed) \/ (Commit(x) /\ file = key[x])
    PROVE  Settled'
  <1>0. 0 \notin Keys /\ \A p \in Processes : PlaceAt(p) /\ ~Relies(p)
    BY DEF Keys, UninterruptedInv
  <1>1. key[x] \in Keys
    BY DEF Stamp, Commit, KeyInv, HoldsKey, At
  <1>2. file = key[x] /\ file' = file
    BY <1>0 DEF PlaceAt, PristineAt, Stamp, Commit, At
  <1>3. fingerprint' = key[x] /\ writer' = None
    BY <1>2 DEF Stamp, Commit
  <1>4. ASSUME NEW p \in Processes, (Stamping(p) \/ At(p, "recheck"))' PROVE key'[p] = file
    <2>1. CASE p = x
      <3>1. key'[x] = key[x]
        BY LoadedEffect, MoveEffect, <1>2 DEF Stamp, Commit
      <3> QED
        BY <1>2, <2>1, <3>1
    <2>2. CASE p # x
      <3>1. pc'[p] = pc[p] /\ key'[p] = key[p]
        BY <2>2 DEF OthersKeep
      <3>2. ~At(p, "recheck")
        BY <1>0 DEF Relies, Finishing, At
      <3>3. Opening(p)
        BY <1>4, <3>1 DEF Stamping, Opening, At
      <3>4. Stamping(p)
        BY <1>4, <3>1, <3>2, <3>3, StoreGrows DEF Stamping, At
      <3>5. fingerprint = 0
        BY <1>0, <3>4 DEF Relies
      <3>6. NoKeyUsed
        BY <1>0, <3>4, <3>5 DEF Stamping, PlaceAt, NoKeyUsed
      <3> QED
        BY <1>0, <3>1, <3>4, <3>6 DEF Stamping, PlaceAt, PristineAt, At
    <2> QED
      BY <2>1, <2>2
  <1> QED
    BY <1>1, <1>2, <1>3, <1>4 DEF Settled

\* Whoever relies on it finds them to agree.
LEMMA ReliesSettled ==
    ASSUME StoredOK, MemoryOK, KeyInv, UninterruptedInv, NEW x \in Processes, Step(x), OthersKeep(x),
           NEW p \in Processes, Relies(p)'
    PROVE  Settled'
  <1> SUFFICES ASSUME ~Settled PROVE Settled'
    BY SettledStays
  <1>0. /\ 0 \notin Keys /\ marker = None
        /\ \A q \in Processes : PlaceAt(q) /\ ~Relies(q)
    BY DEF Keys, UninterruptedInv, MarkInv, Relies
  <1>1. CASE p # x
    <2>1. pc'[p] = pc[p] /\ key'[p] = key[p] /\ how'[p] = how[p] /\ wipe'[p] = wipe[p]
      BY <1>1 DEF OthersKeep
    <2>2. ~(Recalls(p) \/ Finishing(p))'
      BY <1>0, <2>1 DEF Relies, Recalls, Finishing, At
    <2>3. fingerprint' # 0 /\ (First(p) \/ Stamping(p))'
      BY <2>2 DEF Relies
    <2>4. Opening(p)
      BY <2>1, <2>3 DEF First, Stamping, Opening, At
    <2>5. First(p) \/ Stamping(p)
      BY <2>1, <2>3, <2>4, StoreGrows DEF First, Stamping, At
    <2>6. NoKeyUsed
      BY <1>0, <2>5 DEF Relies, PlaceAt, Stamping, NoKeyUsed
    <2>7. Stamp(x) \/ (Commit(x) /\ file = key[x])
      <3>1. ~Wipe(x)
        BY <1>0, <2>6 DEF Wipe, PlaceAt, NoKeyUsed, At
      <3>2. fingerprint' # fingerprint
        BY <2>3, <2>6 DEF NoKeyUsed
      <3>3. Stamp(x) \/ Commit(x)
        BY <3>1, <3>2 DEF Step, Opens, Looks, Replaces, Hash, Open, Uses, Enqueue, Deliver,
                          NoticeStale, Prune, Close, End, stored
      <3>4. Commit(x) => file = key[x]
        BY <3>2 DEF Commit
      <3> QED
        BY <3>3, <3>4
    <2> QED
      BY <2>6, <2>7, ComesToSettle
  <1>2. CASE p = x
    <2>0. Goes(x) /\ ~Relies(x)
      BY <1>0, StepGoes
    <2>1. ~Recalls(x)'
      BY <1>0, <2>0 DEF Goes, Relies
    <2>2. ASSUME (First(x) \/ Stamping(x))', fingerprint' # 0 PROVE FALSE
      <3>1. ~First(x)'
        BY <2>0, <2>2 DEF Goes, Relies
      <3>2. pc'[x] = "stamp"
        BY <2>0, <2>2, <3>1 DEF Goes, Stamping, At
      <3> QED
        BY <2>0, <2>2, <3>2 DEF Goes, Relies
    <2>3. pc'[x] = "recheck"
      BY <1>0, <1>2, <2>0, <2>1, <2>2 DEF Relies, Goes
    <2> QED
      BY <2>0, <2>3, ComesToSettle DEF Goes
  <1> QED
    BY <1>1, <1>2

\* A mark goes with the process that finishes its reset.
LEMMA MarkFinished ==
    ASSUME StoredOK, MemoryOK, KeyInv, UninterruptedInv, NEW x \in Processes, Step(x), OthersKeep(x)
    PROVE  MarkInv'
  <1> SUFFICES ASSUME marker' # None PROVE \E p \in Processes : Finishing(p)'
    BY DEF MarkInv
  <1>1. CASE Commit(x) /\ file = key[x]
    <2>1. pc'[x] = "recheck"
      BY <1>1, MoveEffect DEF Commit
    <2> QED
      BY <2>1 DEF Finishing, At
  <1>2. CASE ~(Commit(x) /\ file = key[x])
    <2>1. marker # None /\ (Wipe(x) => file \notin Keys)
      BY <1>2 DEF Step, Opens, Looks, Replaces, Stamp, Commit, Hash, Wipe, Open, Uses, Enqueue,
                  Deliver, NoticeStale, Prune, Close, End, stored
    <2>2. PICK p \in Processes : Finishing(p)
      BY <2>1 DEF UninterruptedInv, MarkInv
    <2>3. Settled
      BY <2>2 DEF UninterruptedInv, Relies
    <2>4. CASE p # x
      BY <2>2, <2>4 DEF OthersKeep, Finishing, At
    <2>5. CASE p = x
      <3>1. ~Wipe(x) /\ pc[x] \in {"recheck", "hash"}
        <4>1. ~Wipe(x)
          BY <2>1, <2>3 DEF Settled
        <4>2. ~At(x, "wipe")
          BY <4>1 DEF Step, Opens, Looks, Replaces, ReadMarker, ReadKey, Retry, ReadRows,
                      ReadFingerprint, Verify, CountRows, Recheck, StartReset, Remove, Create, Fill,
                      Stamp, Commit, Hash, Open, Uses, Enqueue, Deliver, NoticeStale, Prune, Unlocked,
                      Close, At
        <4> QED
          BY <2>2, <2>5, <4>1, <4>2 DEF Finishing, At
      <3>2. (Looks(x) /\ Recheck(x)) \/ Hash(x)
        BY <3>1 DEF Step, Opens, Looks, Replaces, ReadMarker, ReadKey, Retry, ReadRows,
                    ReadFingerprint, Verify, CountRows, StartReset, Remove, Create, Fill,
                    Stamp, Commit, Wipe, Open, Uses, Enqueue, Deliver, NoticeStale, Prune, Unlocked,
                    Close, At
      <3>3. CASE Recheck(x)
        <4>1. file = key[x] /\ fingerprint = key[x]
          BY <2>3, <3>3 DEF Recheck, Settled
        <4>2. pc'[x] = "hash" /\ wipe'[x]
          BY <3>3, <4>1, LoadedEffect DEF Recheck
        <4> QED
          BY <4>2 DEF Finishing, At
      <3>4. CASE Hash(x)
        <4>1. wipe[x]
          BY <2>2, <2>5, <3>4 DEF Finishing, Hash, At
        <4>2. pc'[x] = "wipe"
          BY <3>4, <4>1, MoveEffect DEF Hash
        <4> QED
          BY <4>2 DEF Finishing, At
      <3> QED
        BY <3>2, <3>3, <3>4
    <2> QED
      BY <2>4, <2>5
  <1> QED
    BY <1>1, <1>2

\* While no process opens the store, nobody relies on anything.
LEMMA QuietHolds ==
    ASSUME UninterruptedInv, Quiet, UNCHANGED <<pc, marker, writer>>
    PROVE  UninterruptedInv'
  <1>1. marker' = None
    BY DEF UninterruptedInv, MarkInv, Quiet, Finishing, At
  <1>2. ASSUME NEW p \in Processes PROVE PlaceAt(p)' /\ ~Relies(p)'
    <2>1. pc'[p] \in {"down", "up"}
      BY DEF Quiet
    <2>2. writer' # p
      BY <2>1 DEF UninterruptedInv, PlaceAt, Resetting
    <2> QED
      BY <2>1, <2>2 DEF PlaceAt, PristineAt, Resetting, First, Stamping, Recalls, Finishing, Relies, At
  <1>3. FillInv'
    BY DEF Quiet, FillInv, At
  <1> QED
    BY <1>1, <1>2, <1>3 DEF UninterruptedInv, MarkInv

\* UninterruptedInv is kept by every step that is no fault.
LEMMA StepUninterrupted ==
    TypeOK /\ KeyInv /\ UninterruptedInv /\ [Next]_vars /\ Uninterrupted' => UninterruptedInv'
  <1> SUFFICES ASSUME StoredOK, MemoryOK, KeyInv, UninterruptedInv, [Next]_vars, faults' = 0
               PROVE  UninterruptedInv'
    BY TypeParts DEF Uninterrupted
  <1>1. ASSUME NEW x \in Processes, Step(x) PROVE UninterruptedInv'
    <2>1. OthersKeep(x)
      BY <1>1, OpensEffect, OwnEffect DEF Step, KeyInv, KeyAt
    <2>2. \A p \in Processes : PlaceAt(p)'
      BY <1>1, <2>1, OwnPlace, OtherPlace
    <2>3. FillInv' /\ MarkInv'
      BY <1>1, <2>1, OneFiller, MarkFinished
    <2>4. \A p \in Processes : Relies(p)' => Settled'
      BY <1>1, <2>1, ReliesSettled
    <2> QED
      BY <2>2, <2>3, <2>4 DEF UninterruptedInv
  <1>2. ASSUME NEW x \in Processes, Crash(x) \/ Fail(x) PROVE FALSE
    BY <1>2 DEF Crash, Fail, StoredOK, MemoryOK
  <1>3. CASE Tamper
    BY <1>3, QuietHolds DEF Tamper, stored
  <1>4. CASE UNCHANGED vars
    BY <1>4 DEF vars, UninterruptedInv, PlaceAt, PristineAt, FillInv, MarkInv, Relies, Settled, Spoilt,
       First, Stamping, Finishing, Recalls, Resetting, NoKeyUsed, KeyBacked, At
  <1> QED
    BY <1>1, <1>2, <1>3, <1>4 DEF Next, Step

LEMMA UninterruptedHolds == Spec /\ []Uninterrupted => []UninterruptedInv
  <1>1. Init => UninterruptedInv
    BY StoreOpeningAssumption
       DEF Init, UninterruptedInv, PlaceAt, PristineAt, FillInv, MarkInv, Relies,
           First, Stamping, Finishing, Recalls, Resetting, At
  <1> QED
    BY <1>1, StepUninterrupted, TypeCorrect, PTL DEF Spec

\* However many processes open the store at once, and whatever the operator does to the
\* key file in between: as long as none of them crashes and none of their writes fails,
\* no alert is left pending under a former key where it could be taken for one of the
\* present key.  The late stamp of ensureAlertDedupeKeyFingerprint then stores what is
\* stored already.
THEOREM RowsUninterrupted == Spec /\ []Uninterrupted => []OldRowsMarked
  <1>1. UninterruptedInv => StampInTime
    <2> SUFFICES ASSUME UninterruptedInv, NEW p \in Processes, Stamp(p), ~NoKeyUsed
                 PROVE  fingerprint = key[p]
      BY DEF StampInTime
    <2>1. At(p, "stamp") /\ PlaceAt(p)
      BY DEF Stamp, UninterruptedInv
    <2>2. Relies(p)
      BY <2>1 DEF PlaceAt, NoKeyUsed, Relies, Stamping
    <2> QED
      BY <2>1, <2>2 DEF UninterruptedInv, Settled, Stamping
  <1> QED
    BY <1>1, UninterruptedHolds, OldRowsUnlessLate, PTL

\* Nor does a reset begin for a token that was used: who recalls the mark of a reset
\* finds the key of its file committed, and takes up none.
THEOREM TokensUninterrupted == Spec /\ []Uninterrupted => TokenOneShot
  <1>1. TypeOK /\ UninterruptedInv => AdoptInTime
    <2> SUFFICES ASSUME MemoryOK, UninterruptedInv, NEW p \in Processes, StartReset(p), At(p, "commit")'
                 PROVE  FALSE
      BY TypeParts DEF AdoptInTime
    <2>1. how[p] = "prefer" /\ At(p, "reset") /\ ~(file \in Keys /\ fingerprint = file)
      BY LoadedEffect, LockedEffect, MoveEffect DEF StartReset, At
    <2> QED
      BY <2>1 DEF UninterruptedInv, Relies, Recalls, Settled
  <1> QED
    BY <1>1, UninterruptedHolds, TypeCorrect, TokensUnlessAdopted, PTL
=============================================================================
