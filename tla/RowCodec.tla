------------------------------ MODULE RowCodec ------------------------------
(***************************************************************************)
(* The row codec: RowToWrite::new_with_timestamp and RowToWrite::to_bytes  *)
(* of src/bitcask/src/database/common.rs, the CRC-32/CKSUM digest they     *)
(* feed, and the reading of a row at its offset as the spec lays it out   *)
(* (sections 3 and 4.1; the formatter is not under src/).                  *)
(*                                                                         *)
(* Bytes are the naturals 0..255 and a byte buffer is a sequence of them.  *)
(* A 32-bit CRC register is four bytes, most significant first, since TLC  *)
(* integers stop at 2^31 - 1.                                              *)
(***************************************************************************)
EXTENDS Integers, Sequences, Bitwise

Byte == 0..255

\* u64::to_be_bytes (w = 8) and u32::to_be_bytes (w = 4): w bytes of n,
\* most significant first.
RECURSIVE BE(_, _)
BE(n, w) == IF w = 0 THEN <<>> ELSE BE(n \div 256, w - 1) \o <<n % 256>>

XorByte == [p \in Byte \X Byte |-> p[1] ^^ p[2]]

XorWord(x, y) == <<XorByte[x[1], y[1]], XorByte[x[2], y[2]], XorByte[x[3], y[3]], XorByte[x[4], y[4]]>>

(***************************************************************************)
(* CRC_32_CKSUM of the crc crate: width 32, polynomial 0x04C11DB7, initial *)
(* register 0, input and output not reflected, final XOR 0xFFFFFFFF.       *)
(* Crc::new builds the byte table from the bit-at-a-time shift register;  *)
(* Digest::update runs the table over the bytes; finalize complements.    *)
(***************************************************************************)
CksumPoly == <<4, 193, 29, 183>>

ShiftedByte(hi, lo) == ((hi * 2) % 256) + (lo \div 128)

ShiftWord(x) == <<ShiftedByte(x[1], x[2]), ShiftedByte(x[2], x[3]), ShiftedByte(x[3], x[4]), ShiftedByte(x[4], 0)>>

RegisterStep(x) == IF x[1] >= 128 THEN XorWord(ShiftWord(x), CksumPoly) ELSE ShiftWord(x)

RECURSIVE RegisterSteps(_, _)
RegisterSteps(x, n) == IF n = 0 THEN x ELSE RegisterSteps(RegisterStep(x), n - 1)

\* The table is built once, as Crc::new builds it, and not entry by entry at
\* each lookup.
CrcTable == CHOOSE t \in {[i \in Byte |-> RegisterSteps(<<i, 0, 0, 0>>, 8)]} : TRUE

CrcUpdate(x, b) == XorWord(<<x[2], x[3], x[4], 0>>, CrcTable[XorByte[x[1], b]])

\* Digest::update over bs from register x.  The test of the new register
\* at each byte, always true, has TLC evaluate it there rather than build
\* a chain of unevaluated updates as deep as the buffer is long.
RECURSIVE Digest(_, _)
Digest(x, bs) ==
    IF bs = <<>> THEN x
    ELSE LET y == CrcUpdate(x, Head(bs))
         IN  IF y[1] \in Byte THEN Digest(y, Tail(bs)) ELSE y

Crc(bs) == XorWord(Digest(<<0, 0, 0, 0>>, bs), <<255, 255, 255, 255>>)

\* The catalogue's check value of CRC-32/CKSUM: the digest of "123456789"
\* is 0x765E7680.
ASSUME Crc(<<49, 50, 51, 52, 53, 54, 55, 56, 57>>) = <<118, 94, 118, 128>>

\* DATA_FILE_KEY_OFFSET: crc, timestamp, key_size and value_size (spec 4.1;
\* the constants module is not under src/).
HEADER_ROW == 4 + 8 + 8 + 8

\* The row put and delete hand to write_row.  Its crc is the digest of
\* timestamp, key_size and value_size as big-endian u64s, then key and value.
NewWithTimestamp(key, value, timestamp) ==
    [crc |-> Crc(BE(timestamp, 8) \o BE(Len(key), 8) \o BE(Len(value), 8) \o key \o value),
     timestamp |-> timestamp, key_size |-> Len(key), value_size |-> Len(value),
     key |-> key, value |-> value, size |-> HEADER_ROW + Len(key) + Len(value)]

\* A to_bytes that writes value_size before key_size.
ToBytesSizesSwapped(row) ==
    row.crc \o BE(row.timestamp, 8) \o BE(row.value_size, 8) \o BE(row.key_size, 8)
        \o row.key \o row.value

\* The bytes write_row appends: the fields in the order of the layout.
ToBytes(row) ==
    row.crc \o BE(row.timestamp, 8) \o BE(row.key_size, 8) \o BE(row.value_size, 8)
        \o row.key \o row.value

(***************************************************************************)
(* Reading the row at the start of buf, the file from the row's offset on: *)
(* the fixed header gives key_size and value_size, the body is read after  *)
(* it, and the CRC is recomputed over everything from the timestamp to the *)
(* end of the value.  A size field of 256 or more reaches past every       *)
(* buffer of the model, so it is read as 256; reading past the end of the  *)
(* file is a short read.                                                   *)
(***************************************************************************)
SizeField(bs) == IF \A i \in 1..7 : bs[i] = 0 THEN bs[8] ELSE 256

ReadFailed(status) == [status |-> status, timestamp |-> <<>>, key |-> <<>>, value |-> <<>>, size |-> 0]

ReadRow(buf) ==
    IF Len(buf) < HEADER_ROW THEN ReadFailed("ShortRead")
    ELSE LET ks  == SizeField(SubSeq(buf, 13, 20))
             vs  == SizeField(SubSeq(buf, 21, 28))
             end == HEADER_ROW + ks + vs
         IN  IF end > Len(buf) THEN ReadFailed("ShortRead")
             ELSE IF Crc(SubSeq(buf, 5, end)) # SubSeq(buf, 1, 4) THEN ReadFailed("CrcCheckFailed")
             ELSE [status |-> "ok", timestamp |-> SubSeq(buf, 5, 12),
                   key |-> SubSeq(buf, HEADER_ROW + 1, HEADER_ROW + ks),
                   value |-> SubSeq(buf, HEADER_ROW + ks + 1, end), size |-> end]

=============================================================================
