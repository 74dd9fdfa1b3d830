# TLA+ models of Bitcask

This directory holds TLA+ models of the Bitcask key-value store in this
repository, the TLC configurations that check them, and `PROJECT.json`. That
file records the components, runs, mutants, source map, findings and hazards
in machine-readable form.

## The system

Bitcask keeps a directory of append-only **data files**, each named by a
numeric id.

- Exactly one file is the **writing file**. The others are read-only
  **stable files**.
- An in-memory **keydir** maps every live key to the location (file id,
  offset) of its newest row.
- A delete appends a **tombstone** row.

The parts and how they interact:

| Part | Code | Role |
|---|---|---|
| Facade | `src/src/bitcask.rs` (and the older facade `src/bitcask/src/bitcask.rs`) | `open`, `put`, `get`, `delete`, `foreach/fold`, `merge`, `drop`, `sync`, `stats`. Every call but `drop` and the older `merge` first calls `check_db_error`. `put` and `delete` then take the keydir write lock and hold it around append + index. The src/ facade's `merge` hands over to `MergeManager::merge`, which takes a single-slot merge lock (spec 4.7); the older facade's `merge` has no lock. `get` copies the location under the read lock, releases it, then reads the file. `drop` holds the write lock while `Database::drop` runs. |
| Database | `src/bitcask/src/database/core.rs` | The writing file, the map of stable files and the sticky error (`mark_db_error`, `check_db_error`). `write` appends and, on `StorageOverflow`, rolls the writing file (`do_flush_writing_file`: new id, new file, `mem::replace`, old file to read-only, into the stable map) and retries. `open` sets the id generator to the largest id on disk and picks or creates the writing file (`prepare_load_storages`). `iter` and `recovery_iter` stream rows. `drop` rolls the writing file, then deletes the stable files one by one. |
| DataStorage | `src/lib/database/src/data_storage/mod.rs` | One data file: `write_row`, `read_value`, `transit_to_readonly`, forward scan. |
| File-id generator | `src/src/file_id.rs` | A counter shared by the main database and the merge database. |
| Row codec | `src/bitcask/src/database/common.rs` | `RowToWrite::new_with_timestamp` computes the CRC-32/CKSUM digest of timestamp, key_size, value_size, key and value; `to_bytes` lays the row out as crc, timestamp, sizes, key, value. The tombstone value. |
| Keydir, merge manager, hint files, file manager | not under `src/` | Modelled from `spec.md` where needed (marked `spec_modelled` in the map). |

Merge, as written in `Bitcask::merge` of the older facade:
1. create `merge/`;
2. under the keydir write lock, roll the writing file and clone the keydir;
3. open a second Database on `merge/` with the shared generator;
4. copy every live value of the clone into it;
5. flush it;
6. write `merge.meta`;
7. commit the merged files into the directory;
8. take the write lock and overlay the merged locations onto the keydir;
9. `load_files`;
10. purge older files, and return, releasing the lock taken in step 8.

Puts, gets and a crash may happen between any two of steps 1-8; from step
8 to the end only a crash, or a get that looked its key up before, can.

On open, `recover_merge` finishes or discards a merge, `Database::open`
loads the files, and `KeyDir::new` rebuilds the keydir from the recovery
iterator.

## Modules

| Module | Models |
|---|---|
| `KVStore` | The abstract specification: the dictionary callers see. `Put`, `Delete` (only of a present key, because `Bitcask::delete` writes nothing otherwise), and a `writes` counter. The counter ties every change of the dictionary to a call. |
| `KeyDirRebuild` | The recovery iterator and the keydir rebuild, as pure operators. `FileScan` is `recovered_iter`. `RecoveryFileIds` is `recovery_iter`'s sort-and-reverse. `HintRows` is the hint writer's output (spec 4.3): one record per most recent occurrence of a key in a file, tombstones flagged. `HintedOrder` is the order `DatabaseRecoverIter` really yields, with `recovered_iter` reading a hint in place of its data file where there is one (`core.rs:431-436`). `DatabaseRecoverIter` `pop()`s from the back of `recovery_iter`'s descending list, so files come in ascending id order, rows in write order. `CodeOrder` is that order with no hints. `LastWins` is a keydir built over rows in that order, each row replacing what came before; `KeyDir::new` is not in this repository, and this is the only fold that is right over the order the code hands it. `RebuildStep` and `Rebuild` are spec 4.6's first-seen-wins fold, which expects newest rows first; over the code's order it is the mutant of the recovery. `Latest` is the reference: the newest row of each key. |
| `RowCodec` | The row codec as operators over byte sequences (bytes are 0..255). `BE` is `to_be_bytes`. `CrcTable`, `CrcUpdate`, `Digest` and `Crc` are the crc crate's `CRC_32_CKSUM` as `Crc::new` and `Digest::update`/`finalize` compute it: the table is built from the bit-at-a-time shift register (`RegisterStep`), and the register is four bytes because TLC integers stop at 2^31 - 1. An `ASSUME` checks the catalogue's check value (`"123456789"` digests to 0x765E7680). `NewWithTimestamp` and `ToBytes` are `new_with_timestamp` and `to_bytes`. `ReadRow` reads a row at its offset as spec 3 and 4.1 describe the formatter, which is not under src/: it reads the header, takes the sizes from it, reads the body, and fails with `CrcCheckFailed` when the CRC recomputed from the timestamp to the end of the value differs, or with a short read past the end of the file. |
| `MC_Algorithms` | The inputs of both pure algorithms, each as an initial state. For the rebuild: every disk of up to three files (ids 1 to 3) holding up to two rows over two keys. For the codec: every row of a one-byte key, a value of zero to two bytes and a timestamp of 0 or 1700000000, followed in its file by nothing or by another row, with a byte position from the timestamp to the end of the value. |
| `Bitcask` | One directory and the process that has it open. |
| `MC_Bitcask` | The instance TLC runs. |

### The `Bitcask` module

Variables:
- disk: `data` (file id to sequence of rows), `readonly`, `mergeDir`
  (files under `merge/`), `meta`;
- process: `nextId` (the generator), `db` (writing id, stable ids, and
  the writing file's write offset `off`, counted in rows),
  `keydir`, per-client get state (`getPc/getKey/getLoc/getRes`) and the
  result of the client's last foreach (`iterRes`);
- the set `wChecked` of clients whose put or delete has passed
  `check_db_error` and waits for the keydir write lock;
- per thread in `Mergers`, the merge's state (`mPhase`, the snapshot,
  `known_max_file_id`, the keys still to copy, the merge database, the
  merged keydir), each a function of the thread;
- the sticky error `dbError`, and drop's progress: `dPhase` and the
  files it has unlinked, `dropped` (still readable through the handles the
  stable map keeps open);
- bounds on writes, merges, crashes and failures.

Actions and helpers:
- `WriteRowAt` is `write_row`: the row goes at the write offset. It is
  appended at the end of the file, and replaces the row there when the
  offset is inside the file. `Overflow` compares the offset with the row
  bound.
- `OpenWriteOffset` is `DataStorage::open`'s write offset for a writable
  file, which every reopen (`LoadedDb`, `prepare_load_storages`) reuses as
  the writing file. The constant `CursorAtHeader` chooses between two
  offsets. `TRUE` is the code: `FILE_HEADER_SIZE`, because the loop that
  should advance it iterates the `Result` and reads no row. `FALSE` is
  the offset spec 9 requires: the end of the last row. Every passing run
  uses `FALSE`, so that it checks the rest of the system; reopen_overwrite
  uses `TRUE`.
- `PutOversized` is a put of a value that `max_value_size` admits but
  whose row does not fit in a data file. It overflows, flushes, overflows
  again and marks the sticky error.
- `put` and `delete` are two steps. `WriteCheck(c)` is `check_db_error`.
  `Put`, `Delete` and `DeleteAbsent` are the body under the keydir write
  lock (`Locked(c)`), which the sticky error no longer guards.
  `KeydirUnlocked` holds when neither a drop nor the end of a merge holds
  the write lock. The write bound counts the calls that passed the check.
- `Foreach` is atomic under the read lock, guarded by `CheckDbError`.
- `PutRollFails` and `DeleteRollFails` are a put and a delete whose
  rollover fails at `transit_to_readonly` (`RollFails`): the new writing
  file is installed, the old one is in neither slot. `put` marks the sticky
  error; `delete` does not.
- `get` is two actions: `GetLookup` under the read lock and `GetRead`
  after it.
- `DbWrite` and `RollWritingFile` are `Database::write` and
  `do_flush_writing_file`, including the retry in the new file. Each is
  used for the main database and for a merger's. The action gives the
  effect on the files and the id generator. A pure operator gives the
  Database's next value, and the caller assigns it to `db` or `mdb[m]`.
  These operators are `WrittenDb`, `RolledDb`, `FlushedDb` and
  `FailedRollDb`.
- `CrashRestart` is a process crash followed by `Bitcask::open`:
  `recover_merge`, a fresh generator set to the largest id on disk,
  `prepare_load_storages`, then the keydir rebuild in the spec's order.
  Every written row survives: the model is of a process crash, not of
  lost OS buffers. Files `drop` unlinked are gone, and the sticky error is
  cleared.
- `drop` is four actions: `DropStart` (the write lock and the roll of the
  writing file), `DropDeleteFile(f)` for each stable file in any order (the
  DashMap's), `DropDeleteFails(f)` (the error is returned, marked, and the
  lock released with keydir and stable map untouched) and `DropFinish`
  (`stable_storages.clear()`, `kd.clear()`).
- There is one action per merge step, taken by a thread `m` in `Mergers`:
  `MergeSnapshot`, `MergeOpenDb`, `MergeCopy(k)`, `MergeFlush`,
  `MergeWriteMeta`, `MergeCommitFiles`, `MergeOverlay`, `MergeLoadFiles`,
  `MergePurge`.
  - `MergeLockFree` guards the snapshot. With the constant `MergeLock`
    it is the src/ facade's `check_db_error` plus the merge manager's
    lock; without it, it is the older facade's nothing.
  - `MergeWriteFails` (a write to the merge database fails) and
    `MergeReadFails(k)` (a snapshot entry no longer reads) return the
    error; the thread goes idle and its files stay in `merge/`.
  - `MergeOpenDb` is `Database::open` on `merge/` with the shared
    generator: `update_file_id` to the largest id there, if any, then
    `prepare_load_storages`, which reuses the newest file unless it is
    read-only.
  - `load_files`, which the older facade calls, is modelled as
    `Database::reload_data_files`.
  - `purge_outdated_files(known_max_file_id)` deletes the files with
    smaller ids and `merge.meta`.

The refinement mapping sends `store` to `VisibleStore`: for each key, what
`get` returns when it follows the keydir. `KVStore` has a `Clear` action for
`drop`, taken at `DropFinish`, where `kd.clear()` makes it visible.

Data is abstracted:
- a row is `[key, val]`;
- a location is `[fid, off]`, with `off` the row's index;
- a file's size limit is a number of rows (`MaxRowsPerFile`);
- CRC, timestamps and byte layout are left out, since no property of
  this module distinguishes them; `RowCodec` models them.

Several next-state relations give the scheduling and fault assumptions of
the runs:
- `Next`: clients, the mergers and crashes interleave freely. Merge runs on
  the caller's thread while other threads call `put` and `get`, which is
  what the code permits.
- `SerialNext`: clients act only while no merge runs (merges may fail
  with a write error), as in
  `tests/test_read_write.rs`, which calls `merge` between operations on
  one thread.
- `ReadDuringMergeNext`: gets, but not puts, during a merge.
- `CrashNext`: clients, puts whose rollover fails, oversized puts, and
  crashes.
- `WriteFailureSpec`: the same with failing deletes too.
- `DropNext`: clients, drop (which may fail), and crashes while no file is
  unlinked (`CrashOutsideDrop`); `DropCrashSpec` lets a crash hit drop
  anywhere; `DropAfterFailureSpec` adds failing puts.

## Runs

| Run | Config | Expect | What it shows |
|---|---|---|---|
| algorithms | `MC_Algorithms.cfg` | pass | On every disk of three files of up to two rows, a last-wins keydir over the rows in the order `recovery_iter` and `DatabaseRecoverIter` yield them is the newest live row of every key, so the sort-and-reverse and the pop from the back must agree (`RecoveryInWriteOrder`). With a hint for any set of stable files the same rebuild gives the keydir of the plain data-file scan (`HintEquivalence`, spec 8.6). A row encoded by `new_with_timestamp` and `to_bytes` reads back with its timestamp, key and value and ends where `write_row` puts the next row. With any one byte from its timestamp to the end of its value corrupted, the read fails, whether the row is the last in its file or another row follows (`RowReadBack`, spec 4.1 and 8.4). 10,959 states (10,647 disks and 312 codec cases), about 15 seconds. |
| bitcask_crash | `MC_Bitcask_crash.cfg` | pass | See below. About 593,000 states, about a minute and a half. |
| bitcask_merge | `MC_Bitcask_merge.cfg` | pass | See below. About 396,000 states, about 2 minutes. |
| bitcask_drop | `MC_Bitcask_drop.cfg` | pass | See below. About 1,172,000 states, under 2 minutes. |
| merge_concurrent | `MC_Bitcask_merge_concurrent.cfg` | violation | Two concurrent merges of the older facade share one writing file in `merge/`. |
| merge_put | `MC_Bitcask_merge_put.cfg` | violation | A put during a merge is reverted by the overlay. |
| merge_put_crash | `MC_Bitcask_merge_put_crash.cfg` | violation | A put during a merge is lost by a crash once `merge.meta` exists. |
| merge_get | `MC_Bitcask_merge_get.cfg` | violation | A get that looked up before the merge and reads after `load_files` fails. |
| delete_fail | `MC_Bitcask_delete_fail.cfg` | violation | A failed delete leaves a keydir entry into an unloaded file, with no sticky error. |
| drop_crash | `MC_Bitcask_drop_crash.cfg` | violation | A crash between two deletions of `drop` brings an overwritten value back. |
| reopen_overwrite | `MC_Bitcask_reopen.cfg` | violation | With `DataStorage::open` as written, the first put after a reopen overwrites the first row of the reused writing file. |
| drop_broken | `MC_Bitcask_drop_broken.cfg` | violation | After a put's rollover failed, drop deletes only the stable files and returns, and a reopen restores the orphaned writing file's rows. |

**bitcask_crash**: puts, deletes, gets and foreach, with rollover, one put
whose rollover fails, oversized puts, and two crash-and-reopen cycles.
It checks:
- `Refinement`: the system implements `KVStore`, so put, delete, a failed
  put and reopen behave as a dictionary;
- `KeydirPointsToLiveRow`: unless the sticky error is set, every keydir
  entry points at a live row of its key in a loaded file (so the failed
  put must mark the error);
- `GeneratorAheadOfDisk`: the generator is ahead of every file on disk;
- `ForeachLastWins`: folding foreach's rows so that the last row of a key
  wins gives what get returns, which needs `Database::iter`'s file order to
  be the write order;
- `TypeOK`.

The run does not check deadlock: a database with the sticky error set
refuses every call until it is reopened, and the crash bound ends the
reopening.

**bitcask_drop**: clients, drop, one failing file deletion and one crash,
at a point where no drop has unlinked a file. It checks `Refinement` (a
completed drop is a `Clear` that survives a reopen, because drop first
rolls the writing file into the stable map it deletes) and
`KeydirPointsToLiveRow` (a failed drop leaves entries into unlinked files
and must set the sticky error). No deadlock check, for the reason above.
The run reaches a put that passed `check_db_error`, waited for the lock
while a drop failed and marked the error, and then wrote: both properties
hold through it, so the check-before-lock gap in `put` and `delete`
(`src/src/bitcask.rs:194`, `:302`) does no harm beyond the failed drop's.

**bitcask_merge**: two threads that merge, under the merge manager's lock
(`MergeLock = TRUE`), with `SerialSpec`: clients do not write while a
merge runs, as in the repository's tests. A crash may hit every step of a
merge. It checks:
- `Refinement`: the merge changes nothing a get sees (spec 8.5 and 8.9);
- `ForeachLastWins`, across merged files;
- `WritingFileIsNewest`;
- `GeneratorAheadOfDisk`, with the generator shared by two mergers.

One merge may fail with a write error, and the properties still hold: a
failed merge changes nothing a get sees.

### Findings

Each is a counterexample trace of TLC, recorded in `PROJECT.json`.

1. **Overlay clobbers concurrent puts** (`src/bitcask/src/bitcask.rs:162-165`).
   The trace is put k1=v1, merge snapshot, put k1=v2, copy, flush, meta,
   commit, overlay. After it, `get(k1)` = v1. Spec 4.7 claims the overlay
   never clobbers a newer write.
2. **Merged files outrank concurrent puts after a crash**
   (`src/bitcask/src/bitcask.rs:186`).
   - The merge database draws ids from the shared generator after the
     snapshot's rollover, so merged files get larger ids than the writing
     file that receives concurrent puts.
   - A crash after `merge.meta` makes recovery, which reads newest ids
     first, restore the merged, older value.
   - Spec 4.7 claims the opposite ordering of ids.
3. **Gets fail during a merge** (`src/bitcask/src/bitcask.rs:167`). A get
   that copied its row location before the merge reads after `load_files`
   has replaced the stable map by the merged files, and returns
   `TargetFileIdNotFound`. (The merge holds the keydir write lock from the
   overlay to its end, so no lookup can see the merged locations early.)
4. **A failed delete does not set the sticky error**
   (`src/src/bitcask.rs:306`). When the rollover fails at
   `transit_to_readonly` (`core.rs:355`), the old writing file has left
   the Database. `put` marks the error; `delete` returns it with `?`, so
   the keydir keeps entries into the lost file and the database keeps
   serving. Spec 5 says any write that corrupts state sets the error.
5. **A crash during drop resurrects old values**
   (`src/bitcask/src/database/core.rs:310`). Drop deletes the stable files
   one by one in map order. The trace puts k1=v1 twice, then k1=v2 in a new
   file, drops, deletes the newer file and crashes: the reopened database
   has k1=v1.
6. **A reopened writing file is written from its start**
   (`src/lib/database/src/data_storage/mod.rs:165`).
   - `DataStorage::open` opens a writable file with its write offset at
     `FILE_HEADER_SIZE`.
   - The loop after it (`mod.rs:169-173`) calls `iter()` on the `Result`
     that `open_by_file` returned, so it never reads a row, and the offset
     stays at the header. (`DataStorage::iter` would not help either: it
     opens a handle of its own.)
   - `prepare_load_storages` reuses the newest writable file as the
     writing file on every reopen (`core.rs:540-548`).
   - The trace is put k1=v1, crash, put k2=v2. The new row replaces
     k1's, and `get(k1)` returns v2.
   - Spec 9 says the loop advances the cursor to the end of the file.
   - The finding assumes `FileDataStorage`, which is not under `src/`,
     writes at the offset it is given.
7. **Concurrent merges share a file** (`src/bitcask/src/bitcask.rs:155`).
   The older facade's `merge` takes no lock. Two threads both pass the
   empty-`merge/` check and snapshot. The first opens `merge/` and creates
   file 3. The second's `Database::open` on `merge/` finds file 3
   writable, reuses it as its own writing file, and sets the shared
   generator back to 3. Two handles with separate write offsets then
   write one file. Spec 4.7 step 1 requires a merge lock (`MergeInProgress`).
8. **drop ignores the sticky error** (`src/src/bitcask.rs:315`). After a
   put's rollover failed, the orphaned old file is in no slot. drop does
   not call `check_db_error`: it deletes the stable files and returns Ok,
   and a reopen restores the orphan's rows (drop_broken, `Refinement`
   under `DropAfterFailureSpec`). Spec 4.5 says every call on a broken
   database fails fast.

### Differences from the spec without a run

- **An oversized value breaks the database** (`src/bitcask/src/database/core.rs:141`).
  Options do not require `max_value_size` to fit in
  `max_data_file_size`. A put of such a value overflows, and the retry
  after the flush overflows again. `StorageOverflow` reaches `put`, which
  marks the sticky error, and every later call fails until a reopen.
  Spec 7 says `StorageOverflow` never escapes the core. bitcask_crash
  runs through this path (`PutOversized`). `Refinement` and
  `KeydirPointsToLiveRow` hold there: the failed put changes nothing a
  get observes.

- **Recovery order** (`src/bitcask/src/database/core.rs:499`).
  `recovery_iter` sorts the ids descending, but `DatabaseRecoverIter`
  pops from the back, so it yields ascending ids with rows in forward
  order. The first-seen-wins rebuild of spec 4.6 needs the reverse.
  `KeyDir::new` is not in this repository; the model takes it to be
  last-wins, the fold that is right over the code's order, and `Bitcask`
  reopens with it over `CodeOrder`. `RecoveredKeyDirFirstSeenWins`, spec
  4.6's fold over the code's order, is the mutant that `Refinement`
  rejects in bitcask_crash.
- **foreach yields every row** (`src/src/bitcask.rs:265-298`). The code
  passes every stored row, stale or tombstone, to the callback; spec 6
  says "all live key/value pairs". This is plain from the code. The model
  checks what the rows do give: folded last-wins, they are what get
  returns (`ForeachLastWins`).

### Mutants

Every property of a passing run has a mutant in `PROJECT.json`: an operator
defined just before the definition it replaces, written as a plausible
slip in that code. TLC must find the property violated when the mutant is
used. They are:
- a write location off by one;
- a generator that is not synchronised on open;
- spec 4.6's first-seen-wins rebuild over the code's recovery order;
- a merge database with a private generator;
- a failed put or a failed drop that does not mark the sticky error;
- a drop that does not roll the writing file first;
- `Database::iter` taking files from the front of the reversed list;
- `load_files` that only adds files;
- a copy that does not record the new location;
- `recovery_iter` ids sorted but not reversed, so recovery replays the newest file first;
- a hint writer that leaves out deleted keys;
- `to_bytes` writing `value_size` before `key_size`.

## Bounds

All `MC_Bitcask` runs use:
- 2 keys and 2 values, so that a key can be overwritten with a different
  value and a second key can sit in another file;
- 1 client;
- `MaxRowsPerFile = 2`: three writes already roll the writing file, and a
  merge snapshot rolls it again.

| Run | Writes | Merges | Crashes | Failures |
|---|---|---|---|---|
| crash | 4 | 0 | 2 | 1 |
| merge (2 mergers) | 2 | 2 | 1 | 1 |
| drop | 4 | 0 | 1 | 1 |

A drop counts as a write. Four writes let a drop follow three puts that
fill one file and start another, so drop has two stable files to delete in
either order. Every finding needs only one merge, one failure and at most
one crash, and appears within these bounds. Two merges with two
threads let the second merge start while the first is in `merge/` when
the lock is missing (merge_concurrent); under the lock they run one after
the other. The merge run has two writes, so that two mergers, a crash and
a failure fit in two minutes. The snapshot rolls a non-empty writing
file, so two writes and two merges still give several files, merged
files and a reused or new writing file after `load_files`. The rebuild check enumerates every disk of up to three files,
so both orders of two versions of a key, within a file and across files,
are covered.

The codec check corrupts each byte from the timestamp to the end of the
value. It tries all eight single-bit flips of every byte, and all 255
other values of every byte of `key_size` and `value_size`. The size bytes
decide how far the read goes, so any value of them can matter. For the
other bytes, a change keeps the length of the digested span, and CRC-32
detects every error burst of up to 32 bits in a span of fixed length.
One bit flip per bit position therefore shows whether the byte is
covered. The value sizes 0, 1 and 2 make `key_size` and `value_size`
differ in both directions. A following row gives a corrupted size
something to read into other than the end of the file.

## Fairness

No run assumes fairness, and no run checks liveness. Clients and crashes
get none: nothing obliges a caller to call. A merge runs its steps one
after another on the calling thread with no waiting, so that it finishes
once started is a matter of straight-line code, and a liveness property
over the model's chain of merge steps would only restate that chain.

## Not modelled yet, and the plan

Only one I/O failure point is modelled for writes (`transit_to_readonly`
after `mem::replace`, the one that leaves the Database inconsistent) and
one for drop (a file deletion). A write that lands inside a file replaces
one row of the same size. A row of another size would also garble the
next row, so recovery would lose the rest of the file. A crash in the
middle of an append (a torn last row) is not modelled. Recovery's scan
stops at such a row. Under spec 9's cursor, the torn row is cut off
before new writes, which makes it the same as a clean crash. Under the
code's cursor, the overwrite at the header comes first.

The row codec is checked apart from the `Bitcask` model, whose rows stay
`[key, val]`. Composing them would encode every row of every state, which
is out of TLC's reach here. Spec 8.4 says `get` returns `CrcCheckFailed`
for any corrupted byte. In `ReadRow`, a corrupted size byte can instead
end in a short read past the end of the file. That depends on the
formatter, which is not under src/, so it is not a finding.

Hint files are modelled as their contents only. The asynchronous writer
and the deletion of hints in the purge are not modelled; recovery without
a hint reads the data file, which the hint check covers.

Also planned:
- file-id monotonicity across restarts after an aborted merge (spec 8.7),
  as a history-variable property.

Left out on purpose:
- option validation and the directory lock (single process);
- `stats`;
- the `sync` interval thread: a crash here is a process crash, so every
  appended row survives.
