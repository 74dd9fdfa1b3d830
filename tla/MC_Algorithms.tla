------------------------- MODULE MC_Algorithms -------------------------
(***************************************************************************)
(* Checks the two pure algorithms over bounded inputs.  The only variable *)
(* is the input, every input is an initial state, and nothing changes it: *)
(*   - a disk of at most three data files of at most two rows each, for   *)
(*     the keydir rebuild;                                                 *)
(*   - an encoded row, the bytes that follow it in its file, and a byte   *)
(*     position from the timestamp to the end of the value, for the row   *)
(*     codec.                                                              *)
(***************************************************************************)
EXTENDS KeyDirRebuild, RowCodec

CONSTANTS Val, FileIds, MaxRows

VARIABLE input

Row == [key : Key, val : Val \cup {Tombstone}]

Disks == UNION {[ids -> UNION {[1..n -> Row] : n \in 0..MaxRows}] : ids \in SUBSET FileIds \ {{}}}

\* Codec inputs: a one-byte key, values of zero to two bytes, a zero and a
\* present-day timestamp, and a row followed by the end of the file or by
\* another row.
CodecKeys == {<<107>>}

CodecValues == {<<>>, <<118>>, <<1, 2>>}

CodecTimestamps == {0, 1700000000}

CodecRows == {NewWithTimestamp(k, v, t) : k \in CodecKeys, v \in CodecValues, t \in CodecTimestamps}

Following == {<<>>, ToBytes(NewWithTimestamp(<<1>>, <<2>>, 0))}

CodecCases == UNION {[row : {r}, following : Following, at : 5..r.size] : r \in CodecRows}

Init == input \in [disk : Disks] \cup CodecCases

Next == UNCHANGED input

Spec == Init /\ [][Next]_input

IsDisk == "disk" \in DOMAIN input

\* The recovery iterator (recovery_iter's sort and reverse, and
\* DatabaseRecoverIter popping ids from the back of that list) yields the
\* rows of a disk in the order they were written, oldest file and oldest
\* row first, so that a keydir built by letting every row replace the
\* older ones of its key maps every key to its newest row unless that row
\* is a tombstone.  Feeding the rows in any other file order makes an
\* older version win on reopen.
RecoveryInWriteOrder == IsDisk => LastWins(CodeOrder(input.disk)) = Latest(input.disk)

\* Hint equivalence (spec 8.6): whichever stable files have a hint file,
\* the writing file (the newest) never having one, recovered_iter reading
\* the hints in place of their data files yields the keydir the data files
\* alone yield.  A hint drops the earlier rows of a key, so a tombstone in
\* it must still remove the key's rows in older files.
HintEquivalence ==
    IsDisk =>
        LET data == input.disk
        IN  \A H \in SUBSET (DOMAIN data \ {Max(DOMAIN data)}) :
                LastWins(HintedOrder(data, H)) = LastWins(CodeOrder(data))

\* The corruptions of byte p of buf: every single-bit flip, and, in the
\* key_size and value_size fields, every other value, since those bytes
\* decide how far the read goes.
Corruptions(buf, p) ==
    IF p \in 13..28 THEN Byte \ {buf[p]} ELSE {XorByte[buf[p], 2^j] : j \in 0..7}

\* A row as new_with_timestamp and to_bytes encode it reads back, at its
\* offset, with its timestamp, key and value, and the read ends exactly at
\* the size write_row adds to the offset; and with any one byte from the
\* timestamp to the end of the value corrupted the read fails, whatever
\* follows the row in its file (spec 4.1 and 8.4, CRC coverage).
RowReadBack ==
    ~IsDisk =>
        LET r   == input.row
            buf == ToBytes(r) \o input.following
        IN  /\ ReadRow(buf) = [status |-> "ok", timestamp |-> BE(r.timestamp, 8),
                               key |-> r.key, value |-> r.value, size |-> r.size]
            /\ \A b \in Corruptions(buf, input.at) :
                   ReadRow([buf EXCEPT ![input.at] = b]).status # "ok"

=============================================================================
