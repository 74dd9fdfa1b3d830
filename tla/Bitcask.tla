------------------------------ MODULE Bitcask ------------------------------
(***************************************************************************)
(* One Bitcask directory and the process that has it open: the data files *)
(* on disk, the Database (one writing file and a map of stable files),    *)
(* the keydir, the shared file-id generator, client gets that look up the *)
(* keydir and then read a file, and the process crashing and reopening   *)
(* the directory.                                                          *)
(*                                                                         *)
(* Data is abstracted to what the properties tell apart: a row is         *)
(* [key, val] with val a model value or Tombstone, a row location is      *)
(* [fid, off] with off the row's index in its file, and a file holds at   *)
(* most MaxRowsPerFile rows (max_data_file_size counted in rows).         *)
(***************************************************************************)
EXTENDS Integers, Sequences, FiniteSets, TLC

CONSTANTS
    Key, Val,
    Tombstone,      \* TOMBSTONE_VALUE, written as the value of a delete
    NoLoc,          \* keydir has no entry for the key
    NoValue,        \* get returns None
    NotFound,       \* get fails with TargetFileIdNotFound
    NoMeta,         \* there is no merge.meta file
    Clients,        \* threads that call get
    Mergers,        \* threads that call merge
    MergeLock,      \* whether merge takes a single-slot merge lock
    CursorAtHeader, \* whether a reopened writable file writes from its header
    MaxRowsPerFile, \* rollover threshold
    MaxWrites,      \* bound on put and delete calls
    MaxMerges,      \* bound on merge calls
    MaxCrashes,     \* bound on process crashes
    MaxFailures     \* bound on failing I/O steps

ASSUME MaxRowsPerFile \in Nat \ {0}
ASSUME {MergeLock, CursorAtHeader} \subseteq BOOLEAN
ASSUME {MaxWrites, MaxMerges, MaxCrashes, MaxFailures} \subseteq Nat

VARIABLES
    \* on disk
    data,       \* data file id -> sequence of rows
    readonly,   \* ids of data files whose permission is read-only
    mergeDir,   \* ids of the data files under merge/
    meta,       \* content of merge/merge.meta, or NoMeta
    \* in the process
    nextId,     \* FileIdGenerator.file_id, the last id handed out
    db,         \* main Database: [writing |-> id, stable |-> set of ids,
                \* off |-> the writing file's write offset, in rows]
    keydir,     \* key -> row location or NoLoc
    getPc, getKey, getLoc, getRes,   \* per client: the get in progress
    iterRes,    \* per client: the rows its last foreach saw, in order
    wChecked,   \* clients whose put or delete passed check_db_error and
                \* wait for the keydir write lock
    \* per merger thread
    mPhase, mSnap, mKnownMax, mTodo, mdb, mKd,
    \* the process
    dbError,    \* Database.is_error is Some: the sticky error is set
    dPhase,     \* "None", or "Deleting" while drop deletes stable files
    dropped,    \* ids of files drop has unlinked (still open, still readable)
    \* bounds
    writes, merges, crashes, failures

diskVars   == <<data, readonly, mergeDir, meta>>
clientVars == <<getPc, getKey, getLoc, getRes, iterRes, wChecked>>
mergeVars  == <<mPhase, mSnap, mKnownMax, mTodo, mdb, mKd>>
procVars   == <<dbError, dPhase, dropped>>
boundVars  == <<writes, merges, crashes, failures>>
vars == <<diskVars, nextId, db, keydir, clientVars, mergeVars, procVars, procVars, boundVars>>

Row == [key : Key, val : Val \cup {Tombstone}]
Loc == [fid : Nat, off : Nat \ {0}]
NoDb == [writing |-> 0, stable |-> {}, off |-> 0]
EmptyKeyDir == [k \in Key |-> NoLoc]

MaxOf(S) == CHOOSE m \in S : \A x \in S : x <= m

\* Restriction of the disk to the files with ids in S.
Keep(f, S) == [x \in DOMAIN f \cap S |-> f[x]]

LOCAL KD == INSTANCE KeyDirRebuild

\* FileIdGenerator::generate_next_file_id: the id after the last one.
GenerateNextFileId == nextId + 1

(***************************************************************************)
(* Database write path.                                                   *)
(***************************************************************************)
\* DataStorage::new: the disk d with a new, empty data file n (the header
\* is all it holds).
NewStorage(d, n) == (n :> <<>>) @@ d

\* DataStorage::transit_to_readonly: flush file f and make it read-only.
TransitToReadonly(f) == readonly \cup {f}

\* DataStorage::write_row reports StorageOverflow when the row would not
\* fit after the writing file's write offset.
Overflow(d) == d.off >= MaxRowsPerFile

\* DataStorage::write_row: the row goes at the write offset o of file s.
\* Below the end of the file it replaces the row there (rows of one size;
\* a row of another size would also garble the next one).
WriteRowAt(s, o, r) == IF o < Len(s) THEN [s EXCEPT ![o + 1] = r] ELSE Append(s, r)

\* A step that changes a Database dv (the main database or one merger's)
\* is split into its effect on the disk and the id generator, an action
\* below, and dv's next value, an operator the caller assigns.

\* The Database after do_flush_writing_file: the new writing file is the
\* next generated id and the old one is among the stable storages.
RolledDb(dv) == [writing |-> GenerateNextFileId, stable |-> dv.stable \cup {dv.writing}, off |-> 0]

\* do_flush_writing_file when the writing file is not empty: generate the
\* next id, create the new writing file (holding `first`, the row a
\* retried write puts into it), transit the old one to read-only and
\* insert it into the stable storages (RolledDb).
RollWritingFile(dv, inMerge, first) ==
    LET n == GenerateNextFileId IN
    /\ nextId' = n
    /\ data' = [NewStorage(data, n) EXCEPT ![n] = first]
    /\ readonly' = TransitToReadonly(dv.writing)
    /\ mergeDir' = IF inMerge THEN mergeDir \cup {n} ELSE mergeDir

\* The Database after do_flush_writing_file fails at transit_to_readonly,
\* after mem::replace has already installed the new writing file: the old
\* file, consumed by the failed call, is in neither the writing slot nor
\* the stable map (its rows stay on disk).
FailedRollDb(dv) == [writing |-> GenerateNextFileId, stable |-> dv.stable, off |-> 0]

\* The disk effect of that failed flush: the new file exists, the old one
\* is not made read-only.
RollFails(dv, inMerge) ==
    LET n == GenerateNextFileId IN
    /\ nextId' = n
    /\ data' = NewStorage(data, n)
    /\ mergeDir' = IF inMerge THEN mergeDir \cup {n} ELSE mergeDir
    /\ UNCHANGED readonly

\* Database::do_flush_writing_file: an empty writing file is kept.
DoFlushWritingFile(dv, inMerge) ==
    IF data[dv.writing] = <<>>
    THEN UNCHANGED <<nextId, data, readonly, mergeDir>>
    ELSE RollWritingFile(dv, inMerge, <<>>)

\* The Database after do_flush_writing_file.
FlushedDb(dv) == IF data[dv.writing] = <<>> THEN dv ELSE RolledDb(dv)

\* Database::flush_writing_file: do_flush_writing_file under the writing
\* file's mutex.
FlushWritingFile(dv, inMerge) == DoFlushWritingFile(dv, inMerge)

\* Database::get_max_file_id: the id of the writing file.
GetMaxFileId(d) == d.writing

\* Database::get_file_ids: the writing file and the stable files.
GetFileIds(d) == {d.writing} \cup d.stable

\* Mutant: the offset of the last row instead of the new one.
WriteLocOffByOne(d) ==
    IF Overflow(d) THEN [fid |-> GenerateNextFileId, off |-> 0]
    ELSE [fid |-> d.writing, off |-> d.off]

\* Where Database::write puts the row: the RowLocation it returns.
WriteLoc(d) ==
    IF Overflow(d) THEN [fid |-> GenerateNextFileId, off |-> 1]
    ELSE [fid |-> d.writing, off |-> d.off + 1]

\* Database::write: write_row; on StorageOverflow flush and retry.
DbWrite(dv, inMerge, row) ==
    IF Overflow(dv) THEN RollWritingFile(dv, inMerge, <<row>>)
    ELSE /\ data' = [data EXCEPT ![dv.writing] = WriteRowAt(@, dv.off, row)]
         /\ UNCHANGED <<nextId, readonly, mergeDir>>

\* The Database after Database::write: the row advances the write offset
\* of the writing file, the new one after a rollover.
WrittenDb(dv) ==
    LET w == IF Overflow(dv) THEN RolledDb(dv) ELSE dv IN [w EXCEPT !.off = @ + 1]

\* Database::get_file_to_read: the stable storage with id f, or
\* TargetFileIdNotFound.
GetFileToRead(d, f) == f \in d.stable

\* Database::read_value: the writing file, else a stable file, else
\* TargetFileIdNotFound.
ReadValue(d, loc) ==
    IF loc.fid = d.writing \/ GetFileToRead(d, loc.fid)
    THEN data[loc.fid][loc.off].val
    ELSE NotFound

\* Database::check_db_error: calls fail fast with DatabaseBroken once the
\* sticky error is set.
CheckDbError == dbError = FALSE

\* Database::mark_db_error.
MarkDbError == dbError' = TRUE

\* No drop holds the keydir write lock, nor a merge: Bitcask::merge binds
\* the guard it takes for the overlay to `kd` and keeps it until it
\* returns, after load_files and the purge.
KeydirUnlocked ==
    /\ dPhase = "None"
    /\ \A m \in Mergers : mPhase[m] \notin {"Overlaid", "Loaded"}

(***************************************************************************)
(* Opening a directory.                                                   *)
(***************************************************************************)
\* MergeManager::recover_merge: with merge.meta present the merge had
\* committed: its files are moved into place and the files older than the
\* recorded id are purged; without it the merge directory is removed.
\* The files drop has unlinked are gone once the process has died.
RecoveredData ==
    LET ids == DOMAIN data \ dropped IN
    IF meta # NoMeta
    THEN Keep(data, {f \in ids : f >= meta \/ f \in mergeDir})
    ELSE Keep(data, ids \ mergeDir)

\* Mutant: a generator that is not synchronised with the files on disk.
OpenGeneratorUnsynced(ids) == 0

\* Database::open: the generator, fresh on every open, is set to the
\* largest data file id in the directory, if there is one.
OpenGenerator(ids) == IF ids = {} THEN 0 ELSE MaxOf(ids)

\* open_storages: the storages sorted by id; the last is the newest.
OpenStoragesNewest(ids) == MaxOf(ids)

\* DataStorage::is_readonly: the permission the file had when it was opened.
IsReadonly(f) == f \in readonly

\* DataStorage::open of a writable file f: open_by_file with the write
\* offset at FILE_HEADER_SIZE.  The loop after it iterates the Result, not
\* the rows, and so leaves the offset where it is.  Spec 9 asks for the
\* end of the last row, which is what CursorAtHeader = FALSE stands for.
OpenWriteOffset(f) == IF CursorAtHeader THEN 0 ELSE Len(data[f])

\* prepare_load_storages over the ids in the directory: the newest file is
\* reused for writing unless it is read-only (or there is none), in which
\* case a file with the next id is created.
LoadedDb(ids, gen) ==
    LET f == OpenStoragesNewest(ids) IN
    IF ids = {} \/ IsReadonly(f)
    THEN [writing |-> gen + 1, stable |-> ids, off |-> 0]
    ELSE [writing |-> f, stable |-> ids \ {f}, off |-> OpenWriteOffset(f)]

\* Mutant: KeyDir::new with spec 4.6's first-seen-wins rule, fed in the
\* ascending order DatabaseRecoverIter yields rows.
RecoveredKeyDirFirstSeenWins(d) == KD!Rebuild(KD!CodeOrder(d))

\* KeyDir::new over the recovery iterator of the reopened database: the
\* iterator yields rows oldest first, each replacing the older rows of its
\* key (KeyDir::new is not under src/).
RecoveredKeyDir(d) == KD!LastWins(KD!CodeOrder(d))

(***************************************************************************)
(* Actions.                                                               *)
(***************************************************************************)
Init ==
    /\ data = (1 :> <<>>)
    /\ readonly = {}
    /\ mergeDir = {}
    /\ meta = NoMeta
    /\ nextId = 1
    /\ db = [writing |-> 1, stable |-> {}, off |-> 0]
    /\ keydir = EmptyKeyDir
    /\ getPc = [c \in Clients |-> "idle"]
    /\ getKey = [c \in Clients |-> CHOOSE k \in Key : TRUE]
    /\ getLoc = [c \in Clients |-> NoLoc]
    /\ getRes = [c \in Clients |-> NoValue]
    /\ iterRes = [c \in Clients |-> <<>>]
    /\ wChecked = {}
    /\ mPhase = [m \in Mergers |-> "Idle"]
    /\ mSnap = [m \in Mergers |-> EmptyKeyDir]
    /\ mKnownMax = [m \in Mergers |-> 0]
    /\ mTodo = [m \in Mergers |-> {}]
    /\ mdb = [m \in Mergers |-> NoDb]
    /\ mKd = [m \in Mergers |-> EmptyKeyDir]
    /\ writes = 0
    /\ merges = 0
    /\ dbError = FALSE
    /\ dPhase = "None"
    /\ dropped = {}
    /\ crashes = 0
    /\ failures = 0

\* Bitcask::put and Bitcask::delete, first step: check_db_error, before
\* the keydir write lock is taken.  The write budget counts the calls
\* that passed the check, so a client that passed it can always go on.
WriteCheck(c) ==
    /\ CheckDbError
    /\ getPc[c] = "idle"
    /\ c \notin wChecked
    /\ writes + Cardinality(wChecked) < MaxWrites
    /\ wChecked' = wChecked \cup {c}
    /\ UNCHANGED <<diskVars, nextId, db, keydir, getPc, getKey, getLoc, getRes,
                   iterRes, mergeVars, procVars, boundVars>>

\* The lock is taken and the rest of the call runs under it; the sticky
\* error is not checked again.
Locked(c) ==
    /\ c \in wChecked
    /\ KeydirUnlocked
    /\ wChecked' = wChecked \ {c}

\* Bitcask::put: under the keydir write lock, Database::write then index
\* the new row.
Put(c, k, v) ==
    /\ Locked(c)
    /\ DbWrite(db, FALSE, [key |-> k, val |-> v])
    /\ db' = WrittenDb(db)
    /\ keydir' = [keydir EXCEPT ![k] = WriteLoc(db)]
    /\ writes' = writes + 1
    /\ UNCHANGED <<meta, getPc, getKey, getLoc, getRes, iterRes, mergeVars, procVars,
                   merges, crashes, failures>>

\* Bitcask::delete: under the keydir write lock, a key the keydir holds
\* gets a tombstone row and leaves the keydir.
Delete(c, k) ==
    /\ Locked(c)
    /\ keydir[k] # NoLoc
    /\ DbWrite(db, FALSE, [key |-> k, val |-> Tombstone])
    /\ db' = WrittenDb(db)
    /\ keydir' = [keydir EXCEPT ![k] = NoLoc]
    /\ writes' = writes + 1
    /\ UNCHANGED <<meta, getPc, getKey, getLoc, getRes, iterRes, mergeVars, procVars,
                   merges, crashes, failures>>

\* Bitcask::delete of a key the keydir does not hold: nothing is written.
DeleteAbsent(c, k) ==
    /\ Locked(c)
    /\ keydir[k] = NoLoc
    /\ UNCHANGED <<diskVars, nextId, db, keydir, getPc, getKey, getLoc, getRes,
                   iterRes, mergeVars, procVars, boundVars>>

\* Mutant: put's failure leaves the sticky error unset.
PutRollFailsUnmarked(c, k, v) ==
    /\ Locked(c)
    /\ failures < MaxFailures
    /\ Overflow(db)
    /\ RollFails(db, FALSE)
    /\ db' = FailedRollDb(db)
    /\ failures' = failures + 1
    /\ UNCHANGED <<meta, keydir, getPc, getKey, getLoc, getRes, iterRes, mergeVars, procVars,
                   writes, merges, crashes>>

\* Bitcask::put when Database::write fails: the overflowing row makes
\* do_flush_writing_file fail; put marks the sticky error and returns the
\* error without indexing the row.
PutRollFails(c, k, v) ==
    /\ Locked(c)
    /\ failures < MaxFailures
    /\ Overflow(db)
    /\ RollFails(db, FALSE)
    /\ db' = FailedRollDb(db)
    /\ MarkDbError
    /\ failures' = failures + 1
    /\ UNCHANGED <<meta, keydir, getPc, getKey, getLoc, getRes, iterRes, mergeVars, dPhase, dropped,
                   writes, merges, crashes>>

\* Bitcask::delete when Database::write fails the same way: the error is
\* returned with `?`, the sticky error is not marked and the key stays in
\* the keydir.
DeleteRollFails(c, k) ==
    /\ Locked(c)
    /\ failures < MaxFailures
    /\ keydir[k] # NoLoc
    /\ Overflow(db)
    /\ RollFails(db, FALSE)
    /\ db' = FailedRollDb(db)
    /\ failures' = failures + 1
    /\ UNCHANGED <<meta, keydir, getPc, getKey, getLoc, getRes, iterRes, mergeVars, procVars,
                   writes, merges, crashes>>

\* Bitcask::put of a value that max_value_size admits but whose row is
\* longer than max_data_file_size: write_row overflows even on an empty
\* file, so Database::write flushes the writing file (an empty one is
\* kept), retries, overflows again and returns StorageOverflow; put marks
\* the sticky error and returns it.
PutOversized(c, k) ==
    /\ Locked(c)
    /\ DoFlushWritingFile(db, FALSE)
    /\ db' = FlushedDb(db)
    /\ MarkDbError
    /\ UNCHANGED <<meta, keydir, getPc, getKey, getLoc, getRes, iterRes, mergeVars, dPhase, dropped,
                   boundVars>>

\* Bitcask::get, first half: copy the keydir entry under the read lock.
\* A key without an entry returns None at once.
GetLookup(c, k) ==
    /\ CheckDbError
    /\ KeydirUnlocked
    /\ getPc[c] = "idle"
    /\ c \notin wChecked
    /\ getKey' = [getKey EXCEPT ![c] = k]
    /\ IF keydir[k] = NoLoc
       THEN /\ getRes' = [getRes EXCEPT ![c] = NoValue]
            /\ UNCHANGED <<getPc, getLoc>>
       ELSE /\ getPc' = [getPc EXCEPT ![c] = "reading"]
            /\ getLoc' = [getLoc EXCEPT ![c] = keydir[k]]
            /\ UNCHANGED getRes
    /\ UNCHANGED <<diskVars, nextId, db, keydir, iterRes, wChecked, mergeVars, procVars, boundVars>>

\* Bitcask::get, second half, after the read lock is released:
\* Database::read_value, then a tombstone reads as None.
GetRead(c) ==
    /\ getPc[c] = "reading"
    /\ LET v == ReadValue(db, getLoc[c]) IN
       getRes' = [getRes EXCEPT ![c] = IF v = Tombstone THEN NoValue ELSE v]
    /\ getPc' = [getPc EXCEPT ![c] = "idle"]
    /\ UNCHANGED <<diskVars, nextId, db, keydir, getKey, getLoc, iterRes, wChecked, mergeVars, procVars, boundVars>>

\* The process dies, losing everything but the files, and Bitcask::open
\* opens the directory again: recover_merge, then Database::open (a fresh
\* generator set to the largest id on disk, prepare_load_storages), then
\* KeyDir::new.  Nothing else can happen while the directory is closed.
CrashRestart ==
    /\ crashes < MaxCrashes
    /\ LET d1   == RecoveredData
           ids  == DOMAIN d1
           gen  == OpenGenerator(ids)
           d    == LoadedDb(ids, gen)
           d2   == IF d.writing \in ids THEN d1 ELSE NewStorage(d1, d.writing)
       IN  /\ data' = d2
           /\ readonly' = readonly \cap ids
           /\ mergeDir' = {}
           /\ meta' = NoMeta
           /\ nextId' = IF d.writing \in ids THEN gen ELSE gen + 1
           /\ db' = d
           /\ keydir' = RecoveredKeyDir(d2)
    /\ crashes' = crashes + 1
    /\ getPc' = [c \in Clients |-> "idle"]
    /\ getLoc' = [c \in Clients |-> NoLoc]
    /\ wChecked' = {}
    /\ mPhase' = [m \in Mergers |-> "Idle"]
    /\ mSnap' = [m \in Mergers |-> EmptyKeyDir]
    /\ mKnownMax' = [m \in Mergers |-> 0]
    /\ mTodo' = [m \in Mergers |-> {}]
    /\ mdb' = [m \in Mergers |-> NoDb]
    /\ mKd' = [m \in Mergers |-> EmptyKeyDir]
    /\ dbError' = FALSE
    /\ dPhase' = "None"
    /\ dropped' = {}
    /\ UNCHANGED <<getKey, getRes, iterRes, writes, merges, failures>>

\* Database::iter: the ids of the writing and stable files, the opened
\* files sorted by id and then reversed.
IterFileIds(d) == KD!Descending({d.writing} \cup d.stable)

\* DataStorage::iter and StorageIter: a file's rows, from its first.
StorageIterRows(f) == data[f]

\* Mutant: the files taken from the front of the reversed list.
DatabaseIterRowsFront(d) ==
    LET ids == IterFileIds(d) IN KD!FlattenSeq([j \in 1..Len(ids) |-> StorageIterRows(ids[j])])

\* DatabaseIter: new() and next() pop the next file from the back of the
\* list, so files come in ascending id, each scanned from its first row;
\* every row is yielded, stale or tombstone.
DatabaseIterRows(d) ==
    LET ids == IterFileIds(d) IN
    KD!FlattenSeq([j \in 1..Len(ids) |-> StorageIterRows(ids[Len(ids) + 1 - j])])

\* Bitcask::foreach (and fold): under the keydir read lock, so between
\* puts and deletes, pass every row Database::iter yields to f.
Foreach(c) ==
    /\ CheckDbError
    /\ KeydirUnlocked
    /\ getPc[c] = "idle"
    /\ c \notin wChecked
    /\ iterRes' = [iterRes EXCEPT ![c] = DatabaseIterRows(db)]
    /\ UNCHANGED <<diskVars, nextId, db, keydir, getPc, getKey, getLoc, getRes,
                   wChecked, mergeVars, procVars, boundVars>>

(***************************************************************************)
(* Drop.  Bitcask::drop holds the keydir write lock throughout while      *)
(* Database::drop flushes the writing file and deletes the stable files   *)
(* one at a time, in the DashMap's order.  An unlinked file stays         *)
(* readable through the handle the stable map keeps open.                 *)
(***************************************************************************)
\* Mutant: a drop that deletes only the stable files, leaving the rows of
\* the writing file in place.
DropStartNoFlush ==
    /\ KeydirUnlocked
    /\ writes < MaxWrites
    /\ dPhase' = "Deleting"
    /\ UNCHANGED <<diskVars, nextId, db, keydir, clientVars, mergeVars, dbError, dropped, boundVars>>

\* Bitcask::drop takes the keydir write lock; Database::drop flushes the
\* writing file into the stable map (do_flush_writing_file).
DropStart ==
    /\ KeydirUnlocked
    /\ writes < MaxWrites
    /\ DoFlushWritingFile(db, FALSE)
    /\ db' = FlushedDb(db)
    /\ dPhase' = "Deleting"
    /\ UNCHANGED <<meta, keydir, clientVars, mergeVars, dbError, dropped, boundVars>>

\* SelfFs::delete_file of one stable file.
DropDeleteFile(f) ==
    /\ dPhase = "Deleting"
    /\ f \in db.stable \ dropped
    /\ dropped' = dropped \cup {f}
    /\ UNCHANGED <<diskVars, nextId, db, keydir, clientVars, mergeVars, dbError, dPhase, boundVars>>

\* Mutant: the failed drop does not mark the sticky error.
DropDeleteFailsUnmarked(f) ==
    /\ dPhase = "Deleting"
    /\ f \in db.stable \ dropped
    /\ failures < MaxFailures
    /\ dPhase' = "None"
    /\ failures' = failures + 1
    /\ UNCHANGED <<diskVars, nextId, db, keydir, clientVars, mergeVars, dbError, dropped, writes, merges, crashes>>

\* delete_file fails: Database::drop returns the error at once, leaving
\* the stable map as it is; Bitcask::drop marks the sticky error and
\* returns, releasing the lock without clearing the keydir.
DropDeleteFails(f) ==
    /\ dPhase = "Deleting"
    /\ f \in db.stable \ dropped
    /\ failures < MaxFailures
    /\ MarkDbError
    /\ dPhase' = "None"
    /\ failures' = failures + 1
    /\ UNCHANGED <<diskVars, nextId, db, keydir, clientVars, mergeVars, dropped, writes, merges, crashes>>

\* Every stable file is deleted: stable_storages.clear() closes them, and
\* Bitcask::drop clears the keydir and releases the lock.
DropFinish ==
    /\ dPhase = "Deleting"
    /\ db.stable \subseteq dropped
    /\ data' = Keep(data, DOMAIN data \ dropped)
    /\ readonly' = readonly \ dropped
    /\ db' = [db EXCEPT !.stable = {}]
    /\ keydir' = EmptyKeyDir
    /\ dPhase' = "None"
    /\ dropped' = {}
    /\ writes' = writes + 1
    /\ UNCHANGED <<mergeDir, meta, nextId, clientVars, mergeVars, dbError, merges, crashes, failures>>

DropStep ==
    \/ DropStart
    \/ \E f \in db.stable : DropDeleteFile(f) \/ DropDeleteFails(f)
    \/ DropFinish

(***************************************************************************)
(* Merge, as Bitcask::merge runs it on the calling thread.  Every thread  *)
(* in Mergers may call it; the older facade takes no merge lock.  Only    *)
(* the snapshot takes the keydir write lock, and the overlay takes it     *)
(* until merge returns; clients may run between the other steps.          *)
(***************************************************************************)
\* The state of a merger that is not merging.
MergeIdle(m) ==
    /\ mPhase' = [mPhase EXCEPT ![m] = "Idle"]
    /\ mSnap' = [mSnap EXCEPT ![m] = EmptyKeyDir]
    /\ mKnownMax' = [mKnownMax EXCEPT ![m] = 0]
    /\ mTodo' = [mTodo EXCEPT ![m] = {}]
    /\ mdb' = [mdb EXCEPT ![m] = NoDb]
    /\ mKd' = [mKd EXCEPT ![m] = EmptyKeyDir]

\* With MergeLock, merge as the src/ facade runs it: Bitcask::merge calls
\* check_db_error, then MergeManager::merge takes its single-slot merge
\* lock (spec 4.7 step 1), so a merge starts only while no other merge
\* runs.  The bitcask crate's facade does neither (MergeLock = FALSE).
MergeLockFree(m) ==
    \/ ~MergeLock
    \/ CheckDbError /\ \A o \in Mergers : mPhase[o] = "Idle"

\* merge: create_merge_file_dir (merge/ must be empty), then
\* flush_writing_file: under the keydir write lock roll the writing file,
\* take the writing file's id as known_max_file_id and clone the keydir.
MergeSnapshot(m) ==
    /\ KeydirUnlocked
    /\ mPhase[m] = "Idle"
    /\ MergeLockFree(m)
    /\ merges < MaxMerges
    /\ mergeDir = {}
    /\ FlushWritingFile(db, FALSE)
    /\ db' = FlushedDb(db)
    /\ mKnownMax' = [mKnownMax EXCEPT ![m] = GetMaxFileId(db')]
    /\ mSnap' = [mSnap EXCEPT ![m] = keydir]
    /\ mPhase' = [mPhase EXCEPT ![m] = "Snapshot"]
    /\ merges' = merges + 1
    /\ UNCHANGED <<meta, keydir, clientVars, mTodo, mdb, mKd, procVars, writes, crashes, failures>>

\* Database::open of the merge database: with a generator of its own.
MergeOpenDbOwnGenerator(m) ==
    /\ mPhase[m] = "Snapshot"
    /\ nextId' = 1
    /\ data' = NewStorage(data, 1)
    /\ mergeDir' = mergeDir \cup {1}
    /\ mdb' = [mdb EXCEPT ![m] = [writing |-> 1, stable |-> {}, off |-> 0]]
    /\ mTodo' = [mTodo EXCEPT ![m] = {k \in Key : mSnap[m][k] # NoLoc}]
    /\ mKd' = [mKd EXCEPT ![m] = EmptyKeyDir]
    /\ mPhase' = [mPhase EXCEPT ![m] = "Copying"]
    /\ UNCHANGED <<readonly, meta, db, keydir, clientVars, mSnap, mKnownMax, procVars, boundVars>>

\* write_merged_files: Database::open on merge/ with the shared generator.
\* update_file_id sets the generator to the largest id in merge/, if any,
\* and prepare_load_storages reuses the newest file there unless it is
\* read-only, or creates one with the next id.
MergeOpenDb(m) ==
    /\ mPhase[m] = "Snapshot"
    /\ LET gen == IF mergeDir = {} THEN nextId ELSE MaxOf(mergeDir)
           d   == LoadedDb(mergeDir, gen)
       IN  /\ nextId' = IF d.writing \in mergeDir THEN gen ELSE gen + 1
           /\ data' = IF d.writing \in mergeDir THEN data ELSE NewStorage(data, d.writing)
           /\ mergeDir' = mergeDir \cup {d.writing}
           /\ mdb' = [mdb EXCEPT ![m] = d]
    /\ mTodo' = [mTodo EXCEPT ![m] = {k \in Key : mSnap[m][k] # NoLoc}]
    /\ mKd' = [mKd EXCEPT ![m] = EmptyKeyDir]
    /\ mPhase' = [mPhase EXCEPT ![m] = "Copying"]
    /\ UNCHANGED <<readonly, meta, db, keydir, clientVars, mSnap, mKnownMax, procVars, boundVars>>

\* Mutant: the value is copied but its new location is not recorded.
MergeCopyNoIndex(m, k) ==
    /\ mPhase[m] = "Copying"
    /\ k \in mTodo[m]
    /\ LET v == ReadValue(db, mSnap[m][k]) IN
       /\ v # NotFound
       /\ IF v = Tombstone
          THEN UNCHANGED <<data, readonly, mergeDir, nextId, mdb>>
          ELSE /\ DbWrite(mdb[m], TRUE, [key |-> k, val |-> v])
               /\ mdb' = [mdb EXCEPT ![m] = WrittenDb(mdb[m])]
    /\ mTodo' = [mTodo EXCEPT ![m] = @ \ {k}]
    /\ UNCHANGED <<meta, db, keydir, clientVars, mPhase, mSnap, mKnownMax, mKd, procVars, boundVars>>

\* write_merged_files, one entry of the cloned keydir: read its value from
\* the main database and, unless it is a tombstone, write it into the
\* merge database and checked_put its new location.
MergeCopy(m, k) ==
    /\ mPhase[m] = "Copying"
    /\ k \in mTodo[m]
    /\ LET v == ReadValue(db, mSnap[m][k]) IN
       /\ v # NotFound
       /\ IF v = Tombstone
          THEN UNCHANGED <<data, readonly, mergeDir, nextId, mdb, mKd>>
          ELSE /\ DbWrite(mdb[m], TRUE, [key |-> k, val |-> v])
               /\ mdb' = [mdb EXCEPT ![m] = WrittenDb(mdb[m])]
               /\ mKd' = IF mKd[m][k] = NoLoc
                         THEN [mKd EXCEPT ![m][k] = WriteLoc(mdb[m])] ELSE mKd
    /\ mTodo' = [mTodo EXCEPT ![m] = @ \ {k}]
    /\ UNCHANGED <<meta, db, keydir, clientVars, mPhase, mSnap, mKnownMax, procVars, boundVars>>

\* write_merged_files: read_value of a snapshot entry fails with
\* TargetFileIdNotFound and merge returns the error; the files already
\* written stay under merge/.
MergeReadFails(m, k) ==
    /\ mPhase[m] = "Copying"
    /\ k \in mTodo[m]
    /\ ReadValue(db, mSnap[m][k]) = NotFound
    /\ MergeIdle(m)
    /\ UNCHANGED <<diskVars, nextId, db, keydir, clientVars, procVars, boundVars>>

\* An I/O error while write_merged_files writes or flushes the merge
\* database: merge returns it at once, without mark_db_error and without
\* removing what it wrote under merge/.
MergeWriteFails(m) ==
    /\ mPhase[m] = "Copying"
    /\ failures < MaxFailures
    /\ MergeIdle(m)
    /\ failures' = failures + 1
    /\ UNCHANGED <<diskVars, nextId, db, keydir, clientVars, procVars, writes, merges, crashes>>

\* write_merged_files: merge_db.flush_writing_file and get_file_ids.
MergeFlush(m) ==
    /\ mPhase[m] = "Copying"
    /\ mTodo[m] = {}
    /\ FlushWritingFile(mdb[m], TRUE)
    /\ mdb' = [mdb EXCEPT ![m] = FlushedDb(mdb[m])]
    /\ mPhase' = [mPhase EXCEPT ![m] = "Flushed"]
    /\ UNCHANGED <<meta, db, keydir, clientVars, mSnap, mKnownMax, mTodo, mKd, procVars, boundVars>>

\* Commit, first half: merge.meta records the id below which files are
\* obsolete; from now on reopening completes the merge.
MergeWriteMeta(m) ==
    /\ mPhase[m] = "Flushed"
    /\ meta' = mKnownMax[m]
    /\ mPhase' = [mPhase EXCEPT ![m] = "MetaWritten"]
    /\ UNCHANGED <<data, readonly, mergeDir, nextId, db, keydir, clientVars,
                   mSnap, mKnownMax, mTodo, mdb, mKd, procVars, boundVars>>

\* commit_merge_files: move every file under merge/ into the database
\* directory.
MergeCommitFiles(m) ==
    /\ mPhase[m] = "MetaWritten"
    /\ mergeDir' = {}
    /\ mPhase' = [mPhase EXCEPT ![m] = "Committed"]
    /\ UNCHANGED <<data, readonly, meta, nextId, db, keydir, clientVars,
                   mSnap, mKnownMax, mTodo, mdb, mKd, procVars, boundVars>>

\* Take the keydir write lock, held until merge returns, and put every
\* entry of the merged keydir into the live keydir.
MergeOverlay(m) ==
    /\ KeydirUnlocked
    /\ mPhase[m] = "Committed"
    /\ keydir' = [k \in Key |-> IF mKd[m][k] # NoLoc THEN mKd[m][k] ELSE keydir[k]]
    /\ mPhase' = [mPhase EXCEPT ![m] = "Overlaid"]
    /\ UNCHANGED <<diskVars, nextId, db, clientVars, mSnap, mKnownMax, mTodo, mdb, mKd, procVars, boundVars>>

\* Mutant: the merged files are added to the stable files and the
\* writing file is kept.
MergeLoadFilesAddOnly(m) ==
    /\ mPhase[m] = "Overlaid"
    /\ db' = [db EXCEPT !.stable = @ \cup GetFileIds(mdb[m])]
    /\ mPhase' = [mPhase EXCEPT ![m] = "Loaded"]
    /\ UNCHANGED <<diskVars, nextId, keydir, clientVars, mSnap, mKnownMax, mTodo, mdb, mKd, procVars, boundVars>>

\* database.load_files(file_ids), Database::reload_data_files: the merge
\* database's file ids become the main database's files, the newest one
\* writing (a new writing file if it is read-only), the rest stable.
MergeLoadFiles(m) ==
    /\ mPhase[m] = "Overlaid"
    /\ LET ids == GetFileIds(mdb[m])
           d   == LoadedDb(ids, nextId)
       IN  /\ db' = d
           /\ nextId' = IF d.writing \in ids THEN nextId ELSE d.writing
           /\ data' = IF d.writing \in ids THEN data ELSE NewStorage(data, d.writing)
    /\ mPhase' = [mPhase EXCEPT ![m] = "Loaded"]
    /\ UNCHANGED <<readonly, mergeDir, meta, keydir, clientVars, mSnap, mKnownMax, mTodo, mdb, mKd, procVars, boundVars>>

\* purge_outdated_files(known_max_file_id): delete the data files older
\* than the file that was writing after the snapshot, then merge.meta;
\* merge returns.
MergePurge(m) ==
    /\ mPhase[m] = "Loaded"
    /\ LET gone == {f \in DOMAIN data : f < mKnownMax[m]} IN
       /\ data' = Keep(data, DOMAIN data \ gone)
       /\ readonly' = readonly \ gone
    /\ meta' = NoMeta
    /\ MergeIdle(m)
    /\ UNCHANGED <<mergeDir, nextId, db, keydir, clientVars, procVars, boundVars>>

\* The merge steps after the snapshot.
MergeRest(m) ==
    \/ MergeOpenDb(m)
    \/ \E k \in Key : MergeCopy(m, k)
    \/ MergeFlush(m)
    \/ MergeWriteMeta(m)
    \/ MergeCommitFiles(m)
    \/ MergeOverlay(m)
    \/ MergeLoadFiles(m)
    \/ MergePurge(m)

\* A merge that fails in write_merged_files on an I/O error.
MergeStep == \E m \in Mergers : MergeSnapshot(m) \/ MergeRest(m) \/ MergeWriteFails(m)

\* A merge that fails because a snapshot entry no longer reads; it takes a
\* concurrent merge or drop to unload the file.
MergeReadFailure == \E m \in Mergers : \E k \in Key : MergeReadFails(m, k)

AllMergersIdle == \A m \in Mergers : mPhase[m] = "Idle"

ClientStep ==
    \/ \E c \in Clients : WriteCheck(c)
    \/ \E c \in Clients : \E k \in Key : \E v \in Val : Put(c, k, v)
    \/ \E c \in Clients : \E k \in Key : Delete(c, k) \/ DeleteAbsent(c, k)
    \/ \E c \in Clients : \E k \in Key : GetLookup(c, k)
    \/ \E c \in Clients : GetRead(c)
    \/ \E c \in Clients : Foreach(c)

\* Writes that fail when the rollover does.
PutFailure == \E c \in Clients : \E k \in Key : \E v \in Val : PutRollFails(c, k, v)

WriteFailure == PutFailure \/ \E c \in Clients : \E k \in Key : DeleteRollFails(c, k)

\* A crash while no drop is under way: no file is unlinked.
CrashOutsideDrop == dropped = {} /\ CrashRestart

\* Clients, the merger and crashes interleave freely.
Next == ClientStep \/ MergeStep \/ MergeReadFailure \/ CrashRestart

Spec == Init /\ [][Next]_vars

\* Puts of a value too long for a data file.
PutOversize == \E c \in Clients : \E k \in Key : PutOversized(c, k)

\* Clients, failing and oversized puts, and crashes (no merge).
CrashNext == ClientStep \/ PutFailure \/ PutOversize \/ CrashRestart

CrashSpec == Init /\ [][CrashNext]_vars

\* Clients whose puts and deletes may fail, and crashes.
WriteFailureSpec == Init /\ [][ClientStep \/ WriteFailure \/ CrashRestart]_vars

\* Clients and drop, which may fail, and crashes while no drop is deleting
\* files.
DropNext == ClientStep \/ DropStep \/ CrashOutsideDrop

DropSpec == Init /\ [][DropNext]_vars

\* Drop after a put whose rollover failed.
DropAfterFailureSpec == Init /\ [][DropNext \/ PutFailure]_vars

\* The same with a crash at any point of a drop.
DropCrashSpec == Init /\ [][ClientStep \/ DropStep \/ CrashRestart]_vars

\* Clients that call put, delete and get only while no merge runs, as the
\* repository's tests call merge between other operations on one thread
\* (a get whose lookup preceded the merge reads after it).
SerialNext ==
    \/ AllMergersIdle /\ ClientStep
    \/ MergeStep
    \/ CrashRestart

SerialSpec == Init /\ [][SerialNext]_vars

\* Gets may run during a merge; puts and deletes only outside one.
ReadDuringMergeNext ==
    \/ AllMergersIdle /\ ClientStep
    \/ \E c \in Clients : \E k \in Key : GetLookup(c, k)
    \/ \E c \in Clients : GetRead(c)
    \/ MergeStep \/ CrashRestart

ReadDuringMergeSpec == Init /\ [][ReadDuringMergeNext]_vars

(***************************************************************************)
(* Properties.                                                            *)
(***************************************************************************)
TypeOK ==
    /\ DOMAIN data \subseteq Nat \ {0}
    /\ \A f \in DOMAIN data : data[f] \in Seq(Row)
    /\ readonly \subseteq DOMAIN data
    /\ mergeDir \subseteq DOMAIN data
    /\ meta \in Nat \cup {NoMeta}
    /\ nextId \in Nat
    /\ DOMAIN db = {"writing", "stable", "off"} /\ db.writing \in Nat /\ db.stable \subseteq Nat
    /\ db.off \in 0..MaxRowsPerFile
    /\ keydir \in [Key -> Loc \cup {NoLoc}]
    /\ getPc \in [Clients -> {"idle", "reading"}]
    /\ getKey \in [Clients -> Key]
    /\ getLoc \in [Clients -> Loc \cup {NoLoc}]
    /\ getRes \in [Clients -> Val \cup {NoValue, NotFound}]
    /\ iterRes \in [Clients -> Seq(Row)]
    /\ wChecked \subseteq Clients
    /\ mPhase \in [Mergers -> {"Idle", "Snapshot", "Copying", "Flushed",
                              "MetaWritten", "Committed", "Overlaid", "Loaded"}]
    /\ mSnap \in [Mergers -> [Key -> Loc \cup {NoLoc}]]
    /\ mKd \in [Mergers -> [Key -> Loc \cup {NoLoc}]]
    /\ mTodo \in [Mergers -> SUBSET Key]
    /\ mKnownMax \in [Mergers -> Nat]
    /\ dbError \in BOOLEAN
    /\ dPhase \in {"None", "Deleting"}
    /\ dropped \subseteq db.stable

\* The value a row location denotes; a location into a file that no
\* longer exists denotes nothing.
ValueAt(loc) ==
    IF loc = NoLoc \/ loc.fid \notin DOMAIN data THEN NoValue
    ELSE IF data[loc.fid][loc.off].val = Tombstone THEN NoValue
    ELSE data[loc.fid][loc.off].val

\* What get returns for each key.
VisibleStore == [k \in Key |-> ValueAt(keydir[k])]

KV == INSTANCE KVStore WITH store <- VisibleStore, writes <- writes, Absent <- NoValue

\* Refinement of the dictionary: put and delete change what get returns as
\* a dictionary update would, and rollover, crash and reopen change nothing
\* a caller can observe (spec 8: read-your-writes, delete semantics,
\* durability under reopen).
Refinement == KV!Spec

\* Unless the sticky error is set, every keydir entry points at a row, in
\* a file the Database has loaded, whose key is the entry's key and whose
\* value is not a tombstone, and that outside a drop has not been unlinked
\* (spec 3, the keydir invariant that put, delete, drop and reopen
\* maintain; spec 5: a write that corrupts the database's state sets the
\* sticky error, after which every call fails fast).
KeydirPointsToLiveRow ==
    \A k \in Key : dbError = FALSE /\ keydir[k] # NoLoc =>
        LET l == keydir[k] IN
        /\ l.fid \in ({db.writing} \cup db.stable) \ mergeDir
        /\ l.fid \in DOMAIN data
        /\ dPhase = "None" => l.fid \notin dropped
        /\ l.off <= Len(data[l.fid])
        /\ data[l.fid][l.off].key = k
        /\ data[l.fid][l.off].val # Tombstone

\* No file on disk, in the directory or under merge/, has an id the
\* generator has not yet handed out, so the next id it hands out names a
\* new file (update_file_id on open, the generator shared with merge).
GeneratorAheadOfDisk ==
    \A f \in DOMAIN data : f <= nextId

\* Outside a merge, the writing file is the newest file in the directory,
\* so recovery's newest-file-first order is the order rows were written.
WritingFileIsNewest ==
    AllMergersIdle =>
        \A f \in DOMAIN data \ mergeDir : f <= db.writing

\* What a fold that keeps, for each key, the last value the iteration
\* passed for it (a tombstone meaning absent) computes.
LastValue(s, k) ==
    LET at == {i \in 1..Len(s) : s[i].key = k}
        v  == s[MaxOf(at)].val
    IN  IF at = {} \/ v = Tombstone THEN NoValue ELSE v

FoldLastWins(s) == [k \in Key |-> LastValue(s, k)]

\* foreach yields stale rows, but in write order: a caller that folds the
\* rows keeping the last value of each key, dropping tombstones, gets what
\* get returns for every key.  This needs Database::iter's file order to
\* agree with the order the rows were written, across rollover, reopen
\* and merge (merged files get the largest ids).
ForeachLastWins ==
    [][\A c \in Clients :
         iterRes'[c] # iterRes[c] => FoldLastWins(iterRes'[c]) = VisibleStore']_vars

\* Drop holds the keydir write lock until it has deleted every stable
\* file, so no caller sees its steps: a crash in the middle of
\* Database::drop reopens either the database as it was or an empty one
\* (spec: drop "removes all data"; nothing else but merge deletes a file).
DropCrashAtomic ==
    [][dPhase = "Deleting" /\ crashes' = crashes + 1 =>
         VisibleStore' \in {VisibleStore, [k \in Key |-> NoValue]}]_vars

\* The merge database is open while write_merged_files copies.
MergeDbOpen(m) == mPhase[m] = "Copying"

\* Every data file is written through one handle: the writing files of
\* the main database and of the open merge databases are distinct (each
\* DataStorage keeps its own write offset, so a second writer would write
\* over the first's rows).
SingleWriterPerFile ==
    \A m \in Mergers : MergeDbOpen(m) =>
        /\ mdb[m].writing # db.writing
        /\ \A o \in Mergers \ {m} : MergeDbOpen(o) => mdb[m].writing # mdb[o].writing

\* A get never fails with TargetFileIdNotFound: every location it copies
\* from the keydir is still in a loaded file when it reads (spec 4.7,
\* "concurrent gets succeed" while a merge runs).
GetNeverFails == \A c \in Clients : getRes[c] # NotFound
=============================================================================
