------------------------------- MODULE ZkDecode -------------------------------
(***************************************************************************)
(* How src/adapters/device_zkteco_tcp.rs turns the bytes of a device's     *)
(* table into records.  A table travels as a header of four bytes, the     *)
(* size of what follows, and its records one after the other.  A packet    *)
(* brings a piece of it, [table, of, from, len]: len bytes of the table,   *)
(* from byte from on; of is the sequence of the table's records.           *)
(*                                                                         *)
(* What a client got is [table, of, len, whole]: len bytes, and whether    *)
(* they are the beginning of one table, without a hole.                    *)
(***************************************************************************)
EXTENDS Integers, Sequences

Header == 4

\* Bytes that are no record of the device, read as records.
Garbled == <<0>>

Nothing == [table |-> "none", of |-> <<>>, len |-> 0, whole |-> TRUE]

\* The bytes of one more packet are put behind those that came.
Extended(got, piece) ==
  [table |-> IF got.len = 0 THEN piece.table ELSE got.table,
   of |-> IF got.len = 0 THEN piece.of ELSE got.of,
   len |-> got.len + piece.len,
   whole |-> /\ piece.from = got.len
             /\ got.len = 0 \/ (/\ got.whole
                               /\ piece.table = got.table
                               /\ piece.of = got.of)]

-----------------------------------------------------------------------------
\* The first of the three formats whose size divides the table's.
detect_record_size(total, have) ==
  LET fits(s) == total % s = 0 /\ have >= s
  IN IF fits(8) THEN 8 ELSE IF fits(16) THEN 16 ELSE 40

\* Mutant: the guess is taken even when the number of records is known.
AttendanceSizeGuessed(total, have, count) == detect_record_size(total, have)

\* The format of an attendance record: the table's size over the number of
\* records, or the guess when that is no format.
AttendanceSize(total, have, count) ==
  IF count > 0 /\ total \div count \in {8, 16, 40}
  THEN total \div count
  ELSE detect_record_size(total, have)

\* User records have 28 bytes, or 72 when the size over the number is not 28.
UserSize(total, count) ==
  IF count > 0 /\ total \div count = 28 THEN 28 ELSE 72

\* The whole records of format used in what came, when they were written with
\* the format size: chunks_exact, or chunks without the shorter last one.
Decoded(got, size, used) ==
  IF used = size THEN SubSeq(got.of, 1, (got.len - Header) \div size) ELSE Garbled

\* The beginning of the table that was asked for.  A table with a hole is read
\* across it, and that of another kind as if it were of this one: what is read
\* are no records of the device, or not as many, whatever bytes the hole took.
Readable(got, table) == got.whole /\ got.table = table

\* A header that did not come, or that says zero, is an empty table.
decode_attendance_data(got, size, count) ==
  IF got.len < Header THEN <<>>
  ELSE IF ~Readable(got, "log") THEN Garbled
  ELSE LET total == size * Len(got.of)
           have == got.len - Header
       IN IF total = 0 \/ have = 0 THEN <<>>
          ELSE Decoded(got, size, AttendanceSize(total, have, count))

decode_users(got, size, count) ==
  IF got.len < Header THEN <<>>
  ELSE IF ~Readable(got, "users") THEN Garbled
  ELSE LET total == size * Len(got.of)
       IN IF total = 0 \/ got.len = Header THEN <<>>
          ELSE Decoded(got, size, UserSize(total, count))

\* Templates say their own size: the ones that came whole, joined with the
\* users by uid.  Here every template has size bytes.
decode_templates(got, size) ==
  IF got.len < Header THEN <<>>
  ELSE IF ~Readable(got, "templates") THEN Garbled
  ELSE Decoded(got, size, size)

=============================================================================
