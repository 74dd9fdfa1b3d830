--------------------------- MODULE KeyDirRebuild ---------------------------
(***************************************************************************)
(* Rebuilding the keydir when a database is opened.                       *)
(*                                                                         *)
(* A disk is a function from data-file id to the sequence of rows of that *)
(* file; a row is [key, val], val being Tombstone for a delete.  The      *)
(* recovery iterator turns a disk into a sequence of recovered rows, and  *)
(* the rebuild algorithm folds that sequence into a keydir.  The order    *)
(* of the recovered rows is what decides which version of a key wins.     *)
(***************************************************************************)
EXTENDS Integers, Sequences, SequencesExt, FiniteSets

CONSTANTS Key, Tombstone, NoLoc

\* The rows of data file f in the order a sequential scan of the file
\* yields them (read_next_row from the first row to the end of the file),
\* as RecoveredRow records.
FileScan(data, f) ==
    [i \in 1..Len(data[f]) |->
        [key |-> data[f][i].key, fid |-> f, off |-> i,
         tomb |-> data[f][i].val = Tombstone]]

\* The ids of S in descending order (SetToSortSeq enumerates all
\* functions onto S, too slow for a check on every state).
Descending(S) ==
    [i \in 1..Cardinality(S) |-> CHOOSE x \in S : Cardinality({y \in S : y > x}) = i - 1]

\* Mutant: the ids sorted but not reversed.
RecoveryFileIdsUnreversed(ids) == Reverse(Descending(ids))

\* Database::recovery_iter: the ids of the stable files and of the writing
\* file, sorted and then reversed, i.e. in descending order.
RecoveryFileIds(ids) == Descending(ids)

(***************************************************************************)
(* Hint files (spec 4.3, 4.5): a hint is written for a stable data file   *)
(* and read in its place by recovered_iter when present.                  *)
(***************************************************************************)
\* Mutant: a hint writer that leaves deleted keys out.
HintRowsNoTombstones(data, f) ==
    SelectSeq(FileScan(data, f),
              LAMBDA r : ~r.tomb /\ \A j \in r.off + 1..Len(data[f]) : data[f][j].key # r.key)

\* The hint writer: one scan of the file, one record per most recent
\* occurrence of each key (earlier ones are superseded), tombstones kept
\* with their flag.
HintRows(data, f) ==
    SelectSeq(FileScan(data, f),
              LAMBDA r : \A j \in r.off + 1..Len(data[f]) : data[f][j].key # r.key)

\* DatabaseRecoverIter with a hint file for every file in H: new() and
\* next() take the next file id with pop(), from the back of the
\* descending list, and recovered_iter yields the file's hint records if
\* it has a hint, else its rows from its start.  Rows come out in
\* ascending file id and ascending offset.
HintedOrder(data, H) ==
    LET ids  == RecoveryFileIds(DOMAIN data)
        f(j) == ids[Len(ids) + 1 - j]
    IN  FlattenSeq([j \in 1..Len(ids) |->
                      IF f(j) \in H THEN HintRows(data, f(j)) ELSE FileScan(data, f(j))])

\* The recovery iterator when no file has a hint.
CodeOrder(data) == HintedOrder(data, {})

\* One step of the rebuild of spec 4.6, which expects the rows newest
\* first: a key already in the keydir was seen in a newer row and is
\* skipped; a tombstone puts the key in the tombstone set; a live row is
\* indexed unless a newer tombstone for its key was seen.
RebuildStep(acc, r) ==
    IF acc.kd[r.key] # NoLoc THEN acc
    ELSE IF r.tomb THEN [acc EXCEPT !.tombs = @ \cup {r.key}]
    ELSE IF r.key \in acc.tombs THEN acc
    ELSE [acc EXCEPT !.kd[r.key] = [fid |-> r.fid, off |-> r.off]]

\* KeyDir::new as spec 4.6 describes it: fold the recovery iterator, from
\* its first row on, into an empty keydir (written as a recursion:
\* FoldLeft evaluates a function over every subset of the rows).
RECURSIVE RebuildFrom(_, _)
RebuildFrom(acc, rows) ==
    IF rows = <<>> THEN acc ELSE RebuildFrom(RebuildStep(acc, Head(rows)), Tail(rows))

Rebuild(rows) ==
    RebuildFrom([kd |-> [k \in Key |-> NoLoc], tombs |-> {}], rows).kd

\* KeyDir::new as the code's ascending recovery order needs it: each row
\* replaces what an older row of its key put in the keydir, and a
\* tombstone removes the key.
LastWinsStep(kd, r) ==
    [kd EXCEPT ![r.key] = IF r.tomb THEN NoLoc ELSE [fid |-> r.fid, off |-> r.off]]

RECURSIVE LastWinsFrom(_, _)
LastWinsFrom(kd, rows) ==
    IF rows = <<>> THEN kd ELSE LastWinsFrom(LastWinsStep(kd, Head(rows)), Tail(rows))

LastWins(rows) == LastWinsFrom([k \in Key |-> NoLoc], rows)

(***************************************************************************)
(* Reference: the keydir a disk denotes.  A key is live when its newest   *)
(* row, newest meaning the greatest (file id, offset), is not a           *)
(* tombstone, and then the keydir points at that row.                     *)
(***************************************************************************)
Newer(a, b) == a.fid > b.fid \/ (a.fid = b.fid /\ a.off > b.off)

LocsOf(data, k) ==
    UNION {{[fid |-> f, off |-> i] : i \in {j \in 1..Len(data[f]) : data[f][j].key = k}} :
           f \in DOMAIN data}

Latest(data) ==
    [k \in Key |->
        LET locs == LocsOf(data, k)
            m    == CHOOSE l \in locs : \A o \in locs : ~Newer(o, l)
        IN  IF locs = {} \/ data[m.fid][m.off].val = Tombstone THEN NoLoc ELSE m]
=============================================================================
