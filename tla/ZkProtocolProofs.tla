--------------------------- MODULE ZkProtocolProofs ---------------------------
(***************************************************************************)
(* What ZkProtocol guarantees for every script of calls, every chunk and   *)
(* piece size, every number of records and of faults.                      *)
(***************************************************************************)
EXTENDS ZkProtocol, SequenceTheorems, TLAPS

-----------------------------------------------------------------------------
\* Arithmetic.

LEMMA DivMod ==
  ASSUME NEW a \in Nat, NEW b \in Nat \ {0}
  PROVE  /\ a \div b \in Nat
         /\ a % b \in 0..(b - 1)
         /\ a = (a \div b) * b + (a % b)
BY SMT

LEMMA Distribute ==
  ASSUME NEW k \in Int, NEW b \in Int
  PROVE  (k - 1) * b + b = k * b
BY SMT

LEMMA TimesMonotonic ==
  ASSUME NEW k \in Nat, NEW n \in Nat, k <= n, NEW b \in Nat
  PROVE  k * b <= n * b
BY SMT

\* The number of pieces of b that a is cut into.
LEMMA RoundedUp ==
  ASSUME NEW a \in Nat \ {0}, NEW b \in Nat \ {0}
  PROVE  /\ (a + b - 1) \div b \in Nat \ {0}
         /\ ((a + b - 1) \div b) * b >= a
         /\ ((a + b - 1) \div b) * b < a + b
BY SMT

\* A part of n records of size b holds at most n of them.
LEMMA PartOfRecords ==
  ASSUME NEW a \in Nat, NEW b \in Nat \ {0}, NEW n \in Nat, a <= b * n
  PROVE  a \div b \in 0..n
<1>1. /\ a \div b \in Nat
      /\ (a \div b) * b <= a
  BY DivMod
<1>2. CASE a \div b > n
  <2>1. (n + 1) * b <= (a \div b) * b
    BY <1>1, <1>2, TimesMonotonic
  <2>2. (n + 1) * b = b * n + b
    BY SMT
  <2>3. QED BY <1>1, <2>1, <2>2
<1>3. QED BY <1>1, <1>2

-----------------------------------------------------------------------------
\* Tables, chunks and pieces.

Got == [table : Tables \cup {"none"}, of : Seq(Nat), len : Nat, whole : BOOLEAN]

\* Pieces of one table that follow each other are a part of it.
Within(g) ==
  g.whole /\ g.len > 0 => g.table \in Tables /\ g.len <= TableBytes(g.table, g.of)

KindOK ==
  kind \in [transport : Transports, style : Styles, size : RecordSizes,
            locked : BOOLEAN, prompt : Prompt]

LEMMA SizesOfTables ==
  ASSUME KindOK, NEW table, NEW of \in Seq(Nat)
  PROVE  /\ SizeOf(table) \in Nat \ {0}
         /\ TableBytes(table, of) \in Nat
         /\ TableBytes(table, of) = 4 + SizeOf(table) * Len(of)
<1>1. SizeOf(table) \in Nat \ {0}
  <2>1. kind.size \in RecordSizes
    BY DEF KindOK
  <2>2. kind.size \in {8, 16, 40}
    BY <2>1, ZkAssumption
  <2>3. SizeOf(table) \in {8, 16, 40, 72, 30}
    BY <2>2 DEF SizeOf
  <2>4. QED BY <2>3
<1>2. Len(of) \in Nat
  BY LenProperties
<1>3. SizeOf(table) * Len(of) \in Nat
  BY <1>1, <1>2
<1>4. QED BY <1>1, <1>3 DEF TableBytes, Header

LEMMA NothingTyped == Nothing \in Got /\ Within(Nothing)
<1>1. <<>> \in Seq(Nat)
  BY EmptySeq
<1>2. QED BY <1>1 DEF Nothing, Got, Within, Tables

LEMMA ExtendedTyped ==
  ASSUME KindOK, NEW g \in Got, Within(g), NEW p \in Pieces
  PROVE  Extended(g, p) \in Got /\ Within(Extended(g, p))
<1>1. /\ p.table \in Tables /\ p.of \in Seq(Nat) /\ p.from \in Nat /\ p.len \in Nat
      /\ p.from + p.len <= TableBytes(p.table, p.of)
  BY DEF Pieces
<1>2. Extended(g, p) \in Got
  BY <1>1 DEF Got, Extended
<1>3. TableBytes(p.table, p.of) \in Nat
  BY <1>1, SizesOfTables
<1>4. Within(Extended(g, p))
  BY <1>1, <1>3 DEF Got, Extended, Within
<1>5. QED BY <1>2, <1>4

\* What is decoded of a part of a table are numbers, be they records or not.
LEMMA DecodedTyped ==
  ASSUME NEW g \in Got, NEW size \in Nat \ {0}, NEW used, g.len >= Header,
         g.len <= Header + size * Len(g.of)
  PROVE  Decoded(g, size, used) \in Seq(Nat)
<1>1. g.of \in Seq(Nat) /\ Len(g.of) \in Nat /\ g.len \in Nat
  BY LenProperties DEF Got
<1>2. g.len - Header \in Nat /\ g.len - Header <= size * Len(g.of)
  BY <1>1 DEF Header
<1>3. (g.len - Header) \div size \in 0..Len(g.of)
  BY <1>1, <1>2, PartOfRecords
<1>4. SubSeq(g.of, 1, (g.len - Header) \div size) \in Seq(Nat)
  <2>1. \A i \in 1..((g.len - Header) \div size) : g.of[i] \in Nat
    BY <1>1, <1>3, ElementOfSeq
  <2>2. QED BY <1>3, <2>1, SubSeqProperties
<1>5. Garbled \in Seq(Nat)
  BY DEF Garbled
<1>6. QED BY <1>4, <1>5 DEF Decoded

LEMMA TablesDecoded ==
  ASSUME KindOK, NEW g \in Got, Within(g), NEW n
  PROVE  /\ decode_attendance_data(g, SizeOf("log"), n) \in Seq(Nat)
         /\ decode_users(g, SizeOf("users"), n) \in Seq(Nat)
         /\ decode_templates(g, SizeOf("templates")) \in Seq(Nat)
<1>1. Garbled \in Seq(Nat) /\ <<>> \in Seq(Nat)
  BY EmptySeq DEF Garbled
<1>2. ASSUME NEW table, NEW used, g.len >= Header, Readable(g, table)
      PROVE  Decoded(g, SizeOf(table), used) \in Seq(Nat)
  <2>1. g.of \in Seq(Nat) /\ g.len \in Nat
    BY DEF Got
  <2>2. g.len <= TableBytes(table, g.of)
    BY <1>2, <2>1 DEF Readable, Within, Header
  <2>3. QED BY <1>2, <2>1, <2>2, SizesOfTables, DecodedTyped DEF Header
<1>3. g.len \in Nat
  BY DEF Got
<1>4. decode_attendance_data(g, SizeOf("log"), n) \in Seq(Nat)
  BY <1>1, <1>2, <1>3 DEF decode_attendance_data, Header
<1>5. decode_users(g, SizeOf("users"), n) \in Seq(Nat)
  BY <1>1, <1>2, <1>3 DEF decode_users, Header
<1>6. decode_templates(g, SizeOf("templates")) \in Seq(Nat)
  BY <1>1, <1>2, <1>3 DEF decode_templates, Header
<1>7. QED BY <1>4, <1>5, <1>6

\* The chunks s cover the bytes from the byte from on to the byte end.
Cover(s, from, end) ==
  /\ IF s = <<>> THEN from = end ELSE s[1][1] = from
  /\ \A k \in 1..Len(s) :
       /\ s[k][2] > 0 /\ s[k][1] + s[k][2] <= end
       /\ s[k][1] + s[k][2] = IF k = Len(s) THEN end ELSE s[k + 1][1]

\* read_prepared_buffer asks for every byte of a table, once and in order.
LEMMA ChunksCover ==
  ASSUME NEW size \in Nat
  PROVE  /\ Chunks(size) \in Seq(Nat \X Nat)
         /\ Cover(Chunks(size), 0, size)
<1> DEFINE full == size \div MaxChunk
           remain == size % MaxChunk
           f == [k \in 1..full |-> <<(k - 1) * MaxChunk, MaxChunk>>]
           last == IF remain > 0 THEN <<<<full * MaxChunk, remain>>>> ELSE <<>>
           s == f \o last
<1>1. /\ MaxChunk \in Nat \ {0} /\ full \in Nat /\ remain \in 0..(MaxChunk - 1)
      /\ size = full * MaxChunk + remain
  BY ZkAssumption, DivMod
<1>2. full * MaxChunk \in Nat
  BY <1>1
<1> HIDE DEF full, remain
<1>3. \A k \in 1..full : (k - 1) * MaxChunk \in Nat
  BY <1>1
<1>4. f \in Seq(Nat \X Nat) /\ Len(f) = full
  BY <1>1, <1>3
<1>5. last \in Seq(Nat \X Nat) /\ Len(last) = IF remain > 0 THEN 1 ELSE 0
  <2>1. CASE remain > 0
    BY <1>1, <1>2, <2>1
  <2>2. CASE ~(remain > 0)
    BY <2>2, EmptySeq
  <2>3. QED BY <2>1, <2>2
<1> HIDE DEF f, last
<1>6. /\ s \in Seq(Nat \X Nat)
      /\ Len(s) = full + Len(last)
      /\ \A i \in 1..Len(s) : s[i] = IF i <= full THEN f[i] ELSE last[i - full]
  BY <1>4, <1>5, ConcatProperties
<1>7. \A k \in 1..full : s[k] = <<(k - 1) * MaxChunk, MaxChunk>>
  BY <1>1, <1>5, <1>6 DEF f
<1>8. remain > 0 => Len(s) = full + 1 /\ s[full + 1] = <<full * MaxChunk, remain>>
  BY <1>1, <1>5, <1>6 DEF last
<1>9. remain = 0 => Len(s) = full
  BY <1>1, <1>5, <1>6
<1> HIDE DEF s
<1>10. ASSUME NEW k \in 1..Len(s)
       PROVE  /\ s[k][2] > 0 /\ s[k][1] + s[k][2] <= size
              /\ s[k][1] + s[k][2] = IF k = Len(s) THEN size ELSE s[k + 1][1]
  <2>1. CASE k <= full
    <3>0. k \in 1..full
      BY <2>1, <1>1, <1>6, <1>5
    <3>1. s[k][2] = MaxChunk /\ s[k][1] + s[k][2] = k * MaxChunk
      BY <3>0, <1>1, <1>7, Distribute
    <3>2. k * MaxChunk <= full * MaxChunk
      BY <3>0, <1>1, TimesMonotonic
    <3>3. k < full => s[k + 1][1] = k * MaxChunk
      BY <3>0, <1>1, <1>7
    <3>4. CASE k < full
      <4>1. k # Len(s) /\ s[k][1] + s[k][2] = s[k + 1][1]
        BY <3>0, <3>1, <3>3, <3>4, <1>1, <1>8, <1>9
      <4>2. s[k][2] > 0 /\ s[k][1] + s[k][2] <= full * MaxChunk
        BY <3>1, <3>2, <1>1
      <4>3. full * MaxChunk <= size
        BY <1>1, <1>2
      <4>4. s[k][1] + s[k][2] \in Nat
        BY <3>0, <3>1, <1>1
      <4>5. QED BY <4>1, <4>2, <4>3, <4>4, <1>2
    <3>5. CASE k = full
      BY <3>0, <3>1, <3>5, <1>1, <1>2, <1>8, <1>9
    <3>6. QED BY <3>0, <3>4, <3>5, <1>1
  <2>2. CASE ~(k <= full)
    <3>1. remain > 0 /\ k = full + 1 /\ k = Len(s)
      BY <2>2, <1>1, <1>8, <1>9
    <3>2. QED BY <3>1, <1>1, <1>2, <1>8
  <2>3. QED BY <2>1, <2>2
<1>11. IF s = <<>> THEN 0 = size ELSE s[1][1] = 0
  <2>1. CASE full = 0 /\ remain = 0
    <3>1. full * MaxChunk = 0 /\ Len(s) = 0
      BY <2>1, <1>1, <1>9
    <3>2. s = <<>>
      BY <3>1, <1>6, EmptySeq
    <3>3. QED BY <2>1, <3>1, <3>2, <1>1
  <2>2. CASE full > 0
    <3>1. s[1] = <<(1 - 1) * MaxChunk, MaxChunk>> /\ Len(s) # 0
      BY <2>2, <1>1, <1>7, <1>8, <1>9
    <3>2. QED BY <3>1, <1>1, <1>6, EmptySeq
  <2>3. CASE full = 0 /\ remain > 0
    <3>1. s[1] = <<0, remain>> /\ Len(s) # 0
      BY <2>3, <1>1, <1>8
    <3>2. QED BY <3>1, <1>6, EmptySeq
  <2>4. QED BY <2>1, <2>2, <2>3, <1>1
<1>12. s = Chunks(size)
  BY DEF s, f, last, full, remain, Chunks
<1>13. QED BY <1>6, <1>10, <1>11, <1>12 DEF Cover

BufferOK == buffer \in [table : Tables, of : Seq(Nat)]

\* The pieces s of the prepared table follow each other from the byte at on,
\* up to the byte end.
Consecutive(s, at, end) ==
  \A k \in 1..Len(s) :
    /\ s[k].table = buffer.table /\ s[k].of = buffer.of
    /\ s[k].len > 0 /\ s[k].from + s[k].len <= end
    /\ s[k].from = IF k = 1 THEN at ELSE s[k - 1].from + s[k - 1].len
EndAt(s, at, end) ==
  IF Len(s) = 0 THEN at = end ELSE s[Len(s)].from + s[Len(s)].len = end

\* A terminal sends pieces of its tables; of a chunk within the table it sends
\* every byte, once and in order.
LEMMA PiecesCover ==
  ASSUME KindOK, BufferOK, NEW from \in Nat, NEW len \in Nat, NEW max \in Nat,
         max > 0 \/ len = 0
  PROVE  /\ PiecesOf(from, len, max) \in Seq(Pieces)
         /\ Consecutive(PiecesOf(from, len, max), from, from + len)
         /\ from + len <= TableBytes(buffer.table, buffer.of) =>
              EndAt(PiecesOf(from, len, max), from, from + len)
<1> DEFINE last == TableBytes(buffer.table, buffer.of)
           end == IF from + len < last THEN from + len ELSE last
           n == IF end <= from THEN 0 ELSE (end - from + max - 1) \div max
           piece(k) == LET at == from + (k - 1) * max
                       IN [table |-> buffer.table, of |-> buffer.of, from |-> at,
                           len |-> IF end - at < max THEN end - at ELSE max]
           s == PiecesOf(from, len, max)
<1>1. /\ buffer.table \in Tables /\ buffer.of \in Seq(Nat) /\ last \in Nat
  BY SizesOfTables DEF BufferOK
<1>2. s = [k \in 1..n |-> piece(k)]
  BY DEF PiecesOf
<1>3. end \in Nat /\ end <= last /\ end <= from + len
  BY <1>1
<1>4. from + len <= last => end = from + len
  BY <1>1
<1> HIDE DEF last, end
<1>5. n \in Nat /\ (n = 0 <=> end <= from)
  <2>1. CASE end > from
    <3>1. max \in Nat \ {0} /\ end - from \in Nat \ {0}
      BY <2>1, <1>3
    <3>2. QED BY <2>1, <3>1, RoundedUp, <1>3
  <2>2. CASE end <= from
    BY <2>2
  <2>3. QED BY <2>1, <2>2, <1>3
<1>6. n > 0 => n * max >= end - from /\ n * max < end - from + max
  <2> SUFFICES ASSUME n > 0
               PROVE  n * max >= end - from /\ n * max < end - from + max
    OBVIOUS
  <2>1. end > from
    BY <1>3, <1>5
  <2>2. max \in Nat \ {0} /\ end - from \in Nat \ {0}
    BY <2>1, <1>3
  <2>3. n = (end - from + max - 1) \div max
    BY <2>1, <1>3
  <2> HIDE DEF n
  <2>4. QED BY <2>2, <2>3, RoundedUp
<1> HIDE DEF n
<1>7. ASSUME NEW k \in 1..n
      PROVE  /\ piece(k) \in Pieces
             /\ piece(k).table = buffer.table /\ piece(k).of = buffer.of
             /\ piece(k).from = from + (k - 1) * max
             /\ piece(k).len > 0 /\ piece(k).from + piece(k).len <= end
             /\ piece(k).from + piece(k).len = IF k = n THEN end ELSE from + k * max
  <2> DEFINE at == from + (k - 1) * max
  <2>1. n > 0 /\ max > 0
    BY <1>3, <1>5
  <2>2. (k - 1) * max + max = k * max /\ (n - 1) * max + max = n * max
    BY <1>5, Distribute
  <2>3. (k - 1) * max <= (n - 1) * max /\ (k - 1) * max \in Nat /\ (n - 1) * max \in Nat
    BY <1>5, <2>1, TimesMonotonic
  <2>4. at \in Nat /\ at < end
    BY <2>1, <2>2, <2>3, <1>3, <1>5, <1>6
  <2>5. k < n => k * max <= (n - 1) * max
    BY <1>5, <2>1, TimesMonotonic
  <2>6. k < n => end - at >= max /\ at + max <= end
    BY <2>1, <2>2, <2>3, <2>5, <1>3, <1>5, <1>6
  <2>7. k = n => end - at <= max
    BY <2>1, <2>2, <2>3, <1>3, <1>5, <1>6
  <2>8. /\ piece(k).table = buffer.table /\ piece(k).of = buffer.of
        /\ piece(k).from = at
        /\ piece(k).len = IF end - at < max THEN end - at ELSE max
    OBVIOUS
  <2>9. at + max = from + k * max
    BY <2>2, <2>3
  <2>10. /\ piece(k).len \in Nat \ {0}
         /\ at + piece(k).len <= end
         /\ at + piece(k).len = IF k = n THEN end ELSE from + k * max
    <3> HIDE DEF at
    <3>1. CASE k < n
      BY <3>1, <2>1, <2>4, <2>6, <2>8, <2>9, <1>3
    <3>2. CASE k = n
      BY <3>2, <2>1, <2>4, <2>7, <2>8, <1>3
    <3>3. QED BY <3>1, <3>2, <1>5
  <2>11. piece(k) \in [table : Tables, of : Seq(Nat), from : Nat, len : Nat]
    BY <1>1, <2>4, <2>10
  <2>12. piece(k).from + piece(k).len <= TableBytes(piece(k).table, piece(k).of)
    BY <1>1, <1>3, <2>4, <2>8, <2>10 DEF last
  <2>13. piece(k) \in Pieces
    BY <2>11, <2>12 DEF Pieces
  <2>14. QED BY <2>8, <2>10, <2>13
<1> HIDE DEF piece
<1>8. s \in Seq(Pieces) /\ Len(s) = n /\ \A k \in 1..n : s[k] = piece(k)
  BY <1>2, <1>5, <1>7
<1> HIDE DEF s
<1>9. Consecutive(s, from, from + len)
  <2> SUFFICES ASSUME NEW k \in 1..Len(s)
               PROVE  /\ s[k].table = buffer.table /\ s[k].of = buffer.of
                      /\ s[k].len > 0 /\ s[k].from + s[k].len <= from + len
                      /\ s[k].from = IF k = 1 THEN from ELSE s[k - 1].from + s[k - 1].len
    BY DEF Consecutive
  <2>1. k \in 1..n /\ s[k] = piece(k) /\ k \in Nat /\ n \in Nat
    BY <1>5, <1>8
  <2>2. CASE k = 1
    <3>1. (k - 1) * max = 0
      BY <2>2
    <3>2. s[k].from = from
      BY <1>7, <2>1, <3>1
    <3>3. s[k].from + s[k].len <= from + len
      <4>1. piece(k) \in Pieces /\ piece(k).from + piece(k).len <= end
        BY <1>7, <2>1
      <4>2. piece(k).from \in Nat /\ piece(k).len \in Nat
        BY <4>1 DEF Pieces
      <4>3. QED BY <1>3, <2>1, <4>1, <4>2
    <3>4. QED BY <1>7, <2>1, <2>2, <3>2, <3>3
  <2>3. CASE k # 1
    <3>1. k - 1 \in 1..n /\ k - 1 # n /\ s[k - 1] = piece(k - 1)
      BY <2>1, <2>3, <1>8
    <3>2. s[k - 1].from + s[k - 1].len = from + (k - 1) * max
      BY <1>7, <3>1
    <3>3. s[k].from + s[k].len <= from + len
      <4>1. piece(k) \in Pieces /\ piece(k).from + piece(k).len <= end
        BY <1>7, <2>1
      <4>2. piece(k).from \in Nat /\ piece(k).len \in Nat
        BY <4>1 DEF Pieces
      <4>3. QED BY <1>3, <2>1, <4>1, <4>2
    <3>4. QED BY <1>7, <2>1, <2>3, <3>2, <3>3
  <2>4. QED BY <2>2, <2>3
<1>10. ASSUME from + len <= last
       PROVE  EndAt(s, from, from + len)
  <2>1. end = from + len
    BY <1>4, <1>10
  <2>2. Len(s) = 0 => from = from + len
    BY <2>1, <1>3, <1>5, <1>8
  <2>3. Len(s) # 0 => s[Len(s)].from + s[Len(s)].len = from + len
    <3>1. Len(s) # 0 => n \in 1..n /\ Len(s) = n
      BY <1>5, <1>8
    <3>2. Len(s) # 0 => piece(n).from + piece(n).len = end
      BY <1>7, <3>1
    <3>3. QED BY <1>8, <2>1, <3>1, <3>2
  <2>4. QED BY <2>2, <2>3 DEF EndAt
<1>11. QED BY <1>8, <1>9, <1>10 DEF s, last

\* A chunk that is not cut is sent in one packet.
LEMMA OnePiece ==
  ASSUME KindOK, BufferOK, NEW from \in Nat, NEW len \in Nat
  PROVE  Len(PiecesOf(from, len, len)) \in {0, 1}
<1> DEFINE last == TableBytes(buffer.table, buffer.of)
           end == IF from + len < last THEN from + len ELSE last
           n == IF end <= from THEN 0 ELSE (end - from + len - 1) \div len
<1>1. last \in Nat
  BY SizesOfTables DEF BufferOK
<1>2. end \in Nat /\ end <= from + len
  BY <1>1
<1> HIDE DEF end, last
<1>3. n \in {0, 1}
  <2>1. CASE end > from
    <3>1. len \in Nat \ {0} /\ end - from \in Nat \ {0} /\ end - from <= len
      BY <1>2, <2>1
    <3>2. n = (end - from + len - 1) \div len
      BY <1>2, <2>1
    <3>3. n \in Nat \ {0} /\ n * len < end - from + len
      <4> HIDE DEF n
      <4>1. QED BY <3>1, <3>2, RoundedUp
    <3> HIDE DEF n
    <3>4. CASE n >= 2
      <4>1. 2 * len <= n * len
        BY <3>1, <3>3, <3>4, TimesMonotonic
      <4>2. n * len \in Nat
        BY <3>1, <3>3
      <4>3. QED BY <3>1, <3>3, <4>1, <4>2
    <3>5. QED BY <3>3, <3>4
  <2>2. CASE ~(end > from)
    BY <1>2, <2>2
  <2>3. QED BY <2>1, <2>2
<1>4. DOMAIN PiecesOf(from, len, len) = 1..n
  BY DEF PiecesOf, end, last
<1>5. len > 0 \/ len = 0
  OBVIOUS
<1>6. PiecesOf(from, len, len) \in Seq(Pieces)
  BY <1>5, PiecesCover
<1>7. DOMAIN PiecesOf(from, len, len) = 1..Len(PiecesOf(from, len, len))
      /\ Len(PiecesOf(from, len, len)) \in Nat
  BY <1>6, LenProperties
<1> HIDE DEF n
<1>8. QED BY <1>3, <1>4, <1>7

-----------------------------------------------------------------------------
\* Type correctness.

Requested == Seq([id : Nat, does : Requests])
Said == Seq([id : Nat, says : Packets])
Outcomes == [call : Calls \cup {"none"}, ok : BOOLEAN]

ClientOK ==
  /\ script \in Seq(Calls) /\ outcome \in Outcomes
  /\ pc \in Commands \cup {"ready", "stream"}
  /\ count \in Sizes /\ reads \in Seq(Tables) /\ todo \in Seq(Nat \X Nat)
  /\ got \in Got /\ Within(got) /\ streamed \in Nat
  /\ tables \in [Tables -> Seq(Nat)]
  /\ sent \in Nat /\ toDevice \in Requested

TerminalOK ==
  /\ log \in Seq(1..MaxRecords)
  /\ BufferOK
  /\ staged \in Nat /\ saved \in Seq(Nat) /\ faults \in 0..MaxFaults
  /\ erased \in 0..MaxRecords /\ punched \in 0..MaxRecords
  /\ missing \subseteq {"ack_ok", "ack_error", "ack_unauth", "prepare_data", "data"}

LEMMA TypesApart ==
  TypeOK <=> KindOK /\ ClientOK /\ TerminalOK /\ toClient \in Said
BY DEF TypeOK, KindOK, ClientOK, TerminalOK, BufferOK, Said, Requested, Got, Within, Outcomes

\* What the client has at hand while it awaits an answer.
Reading == {"prepare_buffer", "read_buffer", "stream", "free_data"}
Busy ==
  /\ pc # "ready" => script # <<>>
  /\ pc \in Reading => reads # <<>>
  /\ pc \in {"read_buffer", "stream", "data"} => todo # <<>>

\* What an answer may say, and that there is none.
LEMMA AnswerParts ==
  ASSUME NEW r \in Packets \cup {Silence}
  PROVE  /\ r.cmd = "data" => r.piece \in Pieces
         /\ "sizes" \in DOMAIN r => r.sizes \in Sizes
         /\ "total" \in DOMAIN r => r.total \in Nat
         /\ ToldSize(r) \subseteq Nat
<1>1. r.cmd = "data" => r.piece \in Pieces
  BY DEF Packets, Silence
<1>2. "sizes" \in DOMAIN r => r.sizes \in Sizes
  BY DEF Packets, Silence
<1>3. "total" \in DOMAIN r => r.total \in Nat
  BY DEF Packets, Silence
<1>4. QED BY <1>1, <1>2, <1>3, ZkAssumption DEF ToldSize

\* The client has sent a command or returned.
Proceeds ==
  /\ script' \in Seq(Calls) /\ outcome' \in Outcomes
  /\ sent' \in Nat /\ toDevice' \in Requested
  /\ pc' \in Commands \cup {"ready"}
  /\ pc' # "ready" => script' # <<>>

LEMMA CommandTyped ==
  ASSUME NEW p \in Commands, reads' \in Seq(Tables), todo' \in Seq(Nat \X Nat),
         p = "prepare_buffer" => reads' # <<>>,
         p = "read_buffer" => todo' # <<>>
  PROVE  Command(p) \in Requests
<1>1. CASE p = "prepare_buffer"
  <2>1. Head(reads') \in Tables
    BY <1>1, HeadTailProperties
  <2>2. QED BY <1>1, <2>1 DEF Command, Requests
<1>2. CASE p = "read_buffer"
  <2>1. Head(todo') \in Nat \X Nat
    BY <1>2, HeadTailProperties
  <2>2. Head(todo')[1] \in Nat /\ Head(todo')[2] \in Nat
    BY <2>1
  <2>3. QED BY <1>2, <2>2 DEF Command, Requests
<1>3. CASE p \notin {"prepare_buffer", "read_buffer"}
  BY <1>3 DEF Command, Requests, Commands
<1>4. QED BY <1>1, <1>2, <1>3

LEMMA AskProceeds ==
  ASSUME ClientOK, script # <<>>, NEW p \in Commands, Ask(p), UNCHANGED <<script, outcome>>,
         reads' \in Seq(Tables), todo' \in Seq(Nat \X Nat),
         p = "prepare_buffer" => reads' # <<>>,
         p = "read_buffer" => todo' # <<>>
  PROVE  Proceeds
<1>1. Command(p) \in Requests
  BY CommandTyped
<1>2. [id |-> sent + 1, does |-> Command(p)] \in [id : Nat, does : Requests]
  BY <1>1 DEF ClientOK
<1>3. toDevice' \in Requested
  BY <1>2 DEF Ask, Requested, ClientOK
<1>4. QED BY <1>3 DEF Ask, Proceeds, ClientOK

LEMMA ReturnProceeds ==
  ASSUME ClientOK, script # <<>>, NEW ok \in BOOLEAN, Return(ok)
  PROVE  Proceeds
<1>1. Head(script) \in Calls /\ Tail(script) \in Seq(Calls)
  BY HeadTailProperties DEF ClientOK
<1>2. <<>> \in Seq(Calls) /\ <<"exit">> \in Seq(Calls)
  BY EmptySeq DEF Calls
<1>3. script' \in Seq(Calls)
  BY <1>1, <1>2 DEF Return
<1>4. outcome' \in Outcomes
  BY <1>1 DEF Return, Outcomes
<1>5. QED BY <1>3, <1>4 DEF Return, Proceeds, ClientOK

\* A client that proceeds with data of the right types is well-typed and busy.
LEMMA ProceedsTyped ==
  ASSUME Proceeds, KindOK, UNCHANGED kind,
         count' \in Sizes, reads' \in Seq(Tables), todo' \in Seq(Nat \X Nat),
         got' \in Got, Within(got)', streamed' \in Nat, tables' \in [Tables -> Seq(Nat)],
         pc' \in Reading => reads' # <<>>,
         pc' \in {"read_buffer", "stream", "data"} => todo' # <<>>
  PROVE  ClientOK' /\ Busy'
BY DEF Proceeds, ClientOK, Busy

\* The answers that leave the tables alone.
LEMMA PlainStepTypes ==
  ASSUME KindOK, ClientOK, Busy, UNCHANGED kind, NEW r \in Packets \cup {Silence},
         \/ Connect(r) \/ Auth(r) \/ ClearAttendance(r) \/ DeviceInfo(r)
         \/ SaveTemplate(r) \/ Exit(r)
  PROVE  ClientOK' /\ Busy'
<1>1. /\ UNCHANGED <<count, reads, todo, got, streamed, tables>>
      /\ pc \in Commands /\ script # <<>>
  BY DEF Connect, Auth, ClearAttendance, DeviceInfo, SaveTemplate, Exit, Busy, Commands
<1>2. \/ \E ok \in BOOLEAN : Return(ok)
      \/ /\ UNCHANGED <<script, outcome>>
         /\ \E p \in Commands \ (Reading \cup {"data"}) : Ask(p)
  BY DEF Connect, Auth, ClearAttendance, DeviceInfo, SaveTemplate, Exit, Commands, Reading
<1>3. Proceeds /\ pc' \notin Reading \cup {"stream", "data"}
  <2>1. CASE \E ok \in BOOLEAN : Return(ok)
    BY <2>1, <1>1, ReturnProceeds DEF Return, Reading
  <2>2. ASSUME UNCHANGED <<script, outcome>>,
               NEW p \in Commands \ (Reading \cup {"data"}), Ask(p)
        PROVE  Proceeds /\ pc' \notin Reading \cup {"stream", "data"}
    <3>1. reads' \in Seq(Tables) /\ todo' \in Seq(Nat \X Nat)
      BY <1>1 DEF ClientOK
    <3>2. Proceeds
      BY <1>1, <2>2, <3>1, AskProceeds DEF Reading
    <3>3. pc' = p /\ p # "stream"
      BY <2>2 DEF Ask, Commands
    <3>4. QED BY <2>2, <3>2, <3>3
  <2>3. QED BY <1>2, <2>1, <2>2
<1>4. /\ count' \in Sizes /\ reads' \in Seq(Tables) /\ todo' \in Seq(Nat \X Nat)
      /\ got' \in Got /\ streamed' \in Nat /\ tables' \in [Tables -> Seq(Nat)]
  BY <1>1 DEF ClientOK
<1>5. Within(got)'
  BY <1>1 DEF ClientOK, Within, TableBytes, SizeOf
<1>6. QED BY <1>3, <1>4, <1>5, ProceedsTyped DEF Reading

\* The client goes on to the table that is next, or returns.
LEMMA NextTableTypes ==
  ASSUME KindOK, ClientOK, script # <<>>, UNCHANGED kind, NextTable,
         count' \in Sizes, reads' \in Seq(Tables), todo' \in Seq(Nat \X Nat),
         got' \in Got, Within(got)', streamed' \in Nat, tables' \in [Tables -> Seq(Nat)]
  PROVE  ClientOK' /\ Busy'
<1>1. CASE reads' # <<>>
  <2>1. Ask("prepare_buffer") /\ UNCHANGED <<script, outcome>>
    BY <1>1 DEF NextTable
  <2>2. Proceeds /\ pc' = "prepare_buffer"
    BY <2>1, <1>1, AskProceeds DEF Ask, Commands
  <2>3. QED BY <1>1, <2>2, ProceedsTyped
<1>2. CASE reads' = <<>>
  <2>1. Return(TRUE)
    BY <1>2 DEF NextTable
  <2>2. Proceeds /\ pc' = "ready"
    BY <2>1, ReturnProceeds DEF Return
  <2>3. QED BY <2>2, ProceedsTyped DEF Reading
<1>3. QED BY <1>1, <1>2

LEMMA ReadSizesTypes ==
  ASSUME KindOK, ClientOK, Busy, UNCHANGED kind, NEW r \in Packets \cup {Silence},
         ReadSizes(r)
  PROVE  ClientOK' /\ Busy'
<1>1. pc = "sizes" /\ script # <<>> /\ UNCHANGED <<todo, got, streamed, tables>>
  BY DEF ReadSizes, Busy
<1>2. count' \in Sizes
  <2>1. NoCount \in Sizes
    BY DEF NoCount, Sizes
  <2>2. QED BY <2>1, AnswerParts DEF ReadSizes
<1>3. reads' \in Seq(Tables)
  <2>1. <<>> \in Seq(Tables)
    BY EmptySeq
  <2>2. <<"log">> \in Seq(Tables) /\ <<"templates">> \in Seq(Tables)
        /\ <<"users", "templates">> \in Seq(Tables)
    BY DEF Tables
  <2>3. QED BY <2>1, <2>2 DEF ReadSizes, TablesOf
<1>4. /\ todo' \in Seq(Nat \X Nat) /\ got' \in Got /\ streamed' \in Nat
      /\ tables' \in [Tables -> Seq(Nat)]
  BY <1>1 DEF ClientOK
<1>5. Within(got)'
  BY <1>1 DEF ClientOK, Within, TableBytes, SizeOf
<1>6. CASE Head(script) = "info"
  <2>1. Ask("serial") /\ UNCHANGED <<script, outcome>>
    BY <1>6 DEF ReadSizes
  <2>2. Proceeds /\ pc' = "serial"
    BY <2>1, <1>1, <1>3, <1>4, AskProceeds DEF Ask, Commands
  <2>3. QED BY <1>2, <1>3, <1>4, <1>5, <2>2, ProceedsTyped DEF Reading
<1>7. CASE Head(script) # "info"
  <2>1. NextTable
    BY <1>7 DEF ReadSizes
  <2>2. QED BY <2>1, <1>1, <1>2, <1>3, <1>4, <1>5, NextTableTypes
<1>8. QED BY <1>6, <1>7

LEMMA TableReadTypes ==
  ASSUME KindOK, ClientOK, script # <<>>, reads # <<>>, UNCHANGED <<kind, count, streamed>>,
         got' \in Got, Within(got)', TableRead
  PROVE  ClientOK' /\ Busy'
<1>1. Head(reads) \in Tables /\ Tail(reads) \in Seq(Tables)
  BY HeadTailProperties DEF ClientOK
<1>2. Within(got')
  BY DEF Within, TableBytes, SizeOf
<1>3. Decode(Head(reads)) \in Seq(Nat)
  BY <1>1, <1>2, TablesDecoded DEF Decode, Tables
<1>4. reads' \in Seq(Tables) /\ todo' \in Seq(Nat \X Nat) /\ NextTable
  <2>1. <<>> \in Seq(Nat \X Nat)
    BY EmptySeq
  <2>2. QED BY <1>1, <2>1 DEF TableRead
<1>5. tables' \in [Tables -> Seq(Nat)]
  BY <1>1, <1>3 DEF TableRead, ClientOK
<1>6. count' \in Sizes /\ streamed' \in Nat
  BY DEF ClientOK
<1>7. QED BY <1>4, <1>5, <1>6, NextTableTypes

LEMMA NextChunkTypes ==
  ASSUME KindOK, ClientOK, script # <<>>, reads # <<>>, UNCHANGED <<kind, count>>,
         todo' \in Seq(Nat \X Nat), got' \in Got, Within(got)', streamed' \in Nat,
         NextChunk
  PROVE  ClientOK' /\ Busy'
<1>1. UNCHANGED <<reads, tables, script, outcome>>
  BY DEF NextChunk
<1>2. count' \in Sizes /\ reads' \in Seq(Tables) /\ tables' \in [Tables -> Seq(Nat)]
  BY <1>1 DEF ClientOK
<1>3. Proceeds /\ ((pc' = "read_buffer" /\ todo' # <<>>) \/ pc' = "free_data")
  <2>1. CASE todo' # <<>>
    <3>1. Ask("read_buffer")
      BY <2>1 DEF NextChunk
    <3>2. QED BY <2>1, <3>1, <1>1, <1>2, AskProceeds DEF Ask, Commands
  <2>2. CASE todo' = <<>>
    <3>1. Ask("free_data")
      BY <2>2 DEF NextChunk
    <3>2. QED BY <3>1, <1>1, <1>2, AskProceeds DEF Ask, Commands
  <2>3. QED BY <2>1, <2>2
<1>4. QED BY <1>1, <1>2, <1>3, ProceedsTyped

\* A failed read leaves all as it is.
LEMMA FailedReadTypes ==
  ASSUME KindOK, ClientOK, script # <<>>, UNCHANGED <<kind, count, reads, todo, tables>>,
         got' \in Got, Within(got)', streamed' \in Nat, Return(FALSE)
  PROVE  ClientOK' /\ Busy'
<1>1. Proceeds /\ pc' = "ready"
  BY ReturnProceeds DEF Return
<1>2. /\ count' \in Sizes /\ reads' \in Seq(Tables) /\ todo' \in Seq(Nat \X Nat)
      /\ tables' \in [Tables -> Seq(Nat)]
  BY DEF ClientOK
<1>3. QED BY <1>1, <1>2, ProceedsTyped DEF Reading

LEMMA PrepareBufferTypes ==
  ASSUME KindOK, ClientOK, Busy, UNCHANGED kind, NEW r \in Packets \cup {Silence},
         PrepareBuffer(r)
  PROVE  ClientOK' /\ Busy'
<1>1. script # <<>> /\ reads # <<>> /\ UNCHANGED count
  BY DEF PrepareBuffer, Busy, Reading
<1>2. ASSUME r.cmd = "data", got' = Extended(Nothing, r.piece), TableRead, UNCHANGED streamed
      PROVE  ClientOK' /\ Busy'
  <2>1. got' \in Got /\ Within(got')
    BY <1>2, AnswerParts, NothingTyped, ExtendedTyped
  <2>2. Within(got)'
    BY <2>1 DEF Within, TableBytes, SizeOf
  <2>3. QED BY <1>1, <1>2, <2>1, <2>2, TableReadTypes
<1>3. ASSUME \E total \in ToldSize(r) : todo' = Chunks(total), got' = Nothing, NextChunk,
             UNCHANGED streamed
      PROVE  ClientOK' /\ Busy'
  <2>1. todo' \in Seq(Nat \X Nat)
    BY <1>3, AnswerParts, ChunksCover
  <2>2. got' \in Got /\ Within(got)' /\ streamed' \in Nat
    BY <1>3, NothingTyped DEF Within, Nothing, ClientOK
  <2>3. QED BY <1>1, <1>3, <2>1, <2>2, NextChunkTypes
<1>4. ASSUME Return(FALSE), UNCHANGED <<reads, todo, got, streamed, tables>>
      PROVE  ClientOK' /\ Busy'
  <2>1. got' \in Got /\ Within(got)' /\ streamed' \in Nat
    BY <1>4 DEF ClientOK, Within, TableBytes, SizeOf
  <2>2. QED BY <1>1, <1>4, <2>1, FailedReadTypes
<1>5. QED BY <1>2, <1>3, <1>4 DEF PrepareBuffer

LEMMA ReadBufferTypes ==
  ASSUME KindOK, ClientOK, Busy, UNCHANGED kind, NEW r \in Packets \cup {Silence},
         ReadBuffer(r)
  PROVE  ClientOK' /\ Busy'
<1>1. script # <<>> /\ reads # <<>> /\ todo # <<>> /\ UNCHANGED count
  BY DEF ReadBuffer, Busy, Reading
<1>2. Within(got) => Within(got)' \/ got' # got
  BY DEF Within, TableBytes, SizeOf
<1>3. CASE r.cmd \in {"data", "ack_ok"}
  <2>1. /\ got' = IF r.cmd = "data" THEN Extended(got, r.piece) ELSE got
        /\ todo' = Tail(todo) /\ NextChunk /\ UNCHANGED streamed
    BY <1>3 DEF ReadBuffer
  <2>2. got' \in Got /\ Within(got')
    BY <2>1, AnswerParts, ExtendedTyped DEF ClientOK
  <2>3. Within(got)'
    BY <2>2 DEF Within, TableBytes, SizeOf
  <2>4. todo' \in Seq(Nat \X Nat) /\ streamed' \in Nat
    BY <1>1, <2>1, HeadTailProperties DEF ClientOK
  <2>5. QED BY <1>1, <2>1, <2>2, <2>3, <2>4, NextChunkTypes
<1>4. CASE r.cmd = "prepare_data"
  <2>1. /\ pc' = "stream" /\ streamed' = 0
        /\ UNCHANGED <<script, outcome, reads, todo, got, tables, toDevice, sent>>
    BY <1>4 DEF ReadBuffer
  <2>2. Within(got)'
    BY <1>2, <2>1 DEF ClientOK
  <2>3. QED BY <1>1, <2>1, <2>2 DEF ClientOK, Busy
<1>5. CASE r.cmd \notin {"data", "ack_ok", "prepare_data"}
  <2>1. Return(FALSE) /\ UNCHANGED <<reads, todo, got, streamed, tables>>
    BY <1>5 DEF ReadBuffer
  <2>2. got' \in Got /\ Within(got)' /\ streamed' \in Nat
    BY <2>1, <1>2 DEF ClientOK
  <2>3. QED BY <1>1, <2>1, <2>2, FailedReadTypes
<1>6. QED BY <1>3, <1>4, <1>5

LEMMA StreamTypes ==
  ASSUME KindOK, ClientOK, Busy, UNCHANGED kind, NEW r \in Packets \cup {Silence},
         Stream(r)
  PROVE  ClientOK' /\ Busy'
<1>1. script # <<>> /\ reads # <<>> /\ todo # <<>> /\ UNCHANGED count /\ pc = "stream"
  BY DEF Stream, Busy, Reading
<1>2. got' \in Got /\ Within(got') /\ streamed' \in Nat
  <2>1. CASE r.cmd = "data"
    <3>1. got' = Extended(got, r.piece) /\ streamed' = streamed + r.piece.len
      BY <2>1 DEF Stream
    <3>2. r.piece \in Pieces
      BY <2>1, AnswerParts
    <3>3. QED BY <3>1, <3>2, ExtendedTyped DEF ClientOK, Pieces
  <2>2. CASE r.cmd # "data"
    BY <2>2 DEF Stream, ClientOK
  <2>3. QED BY <2>1, <2>2
<1>3. Within(got)'
  BY <1>2 DEF Within, TableBytes, SizeOf
<1>4. CASE StreamFails(r)
  BY <1>1, <1>2, <1>3, <1>4, FailedReadTypes DEF Stream
<1>5. CASE ~StreamFails(r) /\ StreamGoesOn(r)
  <2>1. UNCHANGED <<pc, script, outcome, reads, todo, tables, toDevice, sent>>
    BY <1>5 DEF Stream
  <2>2. QED BY <1>1, <1>2, <1>3, <2>1 DEF ClientOK, Busy
<1>6. CASE ~StreamFails(r) /\ ~StreamGoesOn(r)
  <2>1. todo' = Tail(todo) /\ NextChunk
    BY <1>6 DEF Stream
  <2>2. todo' \in Seq(Nat \X Nat)
    BY <1>1, <2>1, HeadTailProperties DEF ClientOK
  <2>3. QED BY <1>1, <1>2, <1>3, <2>1, <2>2, NextChunkTypes
<1>7. QED BY <1>4, <1>5, <1>6

LEMMA FreeDataTypes ==
  ASSUME KindOK, ClientOK, Busy, UNCHANGED kind, NEW r, FreeData(r)
  PROVE  ClientOK' /\ Busy'
<1>1. script # <<>> /\ reads # <<>> /\ TableRead /\ UNCHANGED <<count, got, streamed>>
  BY DEF FreeData, Busy, Reading
<1>2. got' \in Got /\ Within(got)'
  BY <1>1 DEF ClientOK, Within, TableBytes, SizeOf
<1>3. QED BY <1>1, <1>2, TableReadTypes

LEMMA SendDataTypes ==
  ASSUME KindOK, ClientOK, Busy, UNCHANGED kind, NEW r \in Packets \cup {Silence},
         SendData(r)
  PROVE  ClientOK' /\ Busy'
<1>1. script # <<>> /\ UNCHANGED <<count, reads, got, streamed, tables>>
  BY DEF SendData, Busy
<1>2. /\ count' \in Sizes /\ reads' \in Seq(Tables) /\ got' \in Got /\ Within(got)'
      /\ streamed' \in Nat /\ tables' \in [Tables -> Seq(Nat)]
  BY <1>1 DEF ClientOK, Within, TableBytes, SizeOf
<1>3. ASSUME NEW left \in Seq(Nat \X Nat), PushChunk(left)
      PROVE  ClientOK' /\ Busy'
  <2>1. todo' = left /\ UNCHANGED <<script, outcome>>
    BY <1>3 DEF PushChunk
  <2>2. CASE left = <<>>
    <3>1. Ask("save")
      BY <1>3, <2>2 DEF PushChunk
    <3>2. Proceeds /\ pc' = "save"
      BY <1>1, <1>2, <2>1, <3>1, AskProceeds DEF Ask, Commands
    <3>3. QED BY <1>2, <2>1, <3>2, ProceedsTyped DEF Reading
  <2>3. CASE left # <<>>
    <3>1. Ask("data")
      BY <1>3, <2>3 DEF PushChunk
    <3>2. Proceeds /\ pc' = "data"
      BY <1>1, <1>2, <2>1, <3>1, AskProceeds DEF Ask, Commands
    <3>3. QED BY <1>2, <2>1, <2>3, <3>2, ProceedsTyped DEF Reading
  <2>4. QED BY <2>2, <2>3
<1>4. [k \in 1..Buffer |-> <<k, 1>>] \in Seq(Nat \X Nat)
  <2>1. Buffer \in Nat
    BY ZkAssumption
  <2>2. QED BY <2>1
<1>5. pc = "data" => Tail(todo) \in Seq(Nat \X Nat)
  BY HeadTailProperties DEF Busy, ClientOK
<1>6. CASE Return(FALSE) /\ UNCHANGED todo
  BY <1>1, <1>2, <1>6, FailedReadTypes
<1>7. QED BY <1>3, <1>4, <1>5, <1>6 DEF SendData

\* Every answer, and its absence, leaves the client well-typed.
LEMMA StepTypes ==
  ASSUME KindOK, ClientOK, Busy, UNCHANGED kind, NEW r \in Packets \cup {Silence},
         Step(r)
  PROVE  ClientOK' /\ Busy'
BY PlainStepTypes, ReadSizesTypes, PrepareBufferTypes, ReadBufferTypes, StreamTypes,
   FreeDataTypes, SendDataTypes DEF Step

LEMMA SaidPrimed ==
  ASSUME UNCHANGED kind
  PROVE  Said' = Said /\ KindOK' = KindOK
<1>1. Pieces' = Pieces
  BY DEF Pieces, TableBytes, SizeOf
<1>2. Packets' = Packets
  BY <1>1 DEF Packets
<1>3. QED BY <1>2 DEF Said, KindOK

-----------------------------------------------------------------------------
\* The terminal.

\* Every record punched is on the terminal, in order, but the ones it erased.
Counted ==
  /\ erased + Len(log) = punched
  /\ \A k \in 1..Len(log) : log[k] = erased + k

LEMMA RecordsAreNumbers == Seq(1..MaxRecords) \subseteq Seq(Nat)
<1>1. 1..MaxRecords \subseteq Nat
  BY ZkAssumption
<1>2. SUFFICES ASSUME NEW s \in Seq(1..MaxRecords) PROVE s \in Seq(Nat)
  OBVIOUS
<1>3. Len(s) \in Nat /\ s = [k \in 1..Len(s) |-> s[k]]
  BY LenProperties
<1>4. \A k \in 1..Len(s) : s[k] \in Nat
  BY <1>1, ElementOfSeq
<1> DEFINE n == Len(s)
           f == [k \in 1..n |-> s[k]]
<1>5. f \in Seq(Nat)
  <2> HIDE DEF n
  <2>1. n \in Nat /\ \A k \in 1..n : s[k] \in Nat
    BY <1>3, <1>4 DEF n
  <2>2. QED BY <2>1
<1>6. QED BY <1>3, <1>5

LEMMA ExecuteTypes ==
  ASSUME TerminalOK, Counted, NEW c \in Requests, Execute(c), UNCHANGED <<punched, missing>>,
         faults' \in 0..MaxFaults
  PROVE  TerminalOK' /\ Counted'
<1>1. /\ log \in Seq(1..MaxRecords) /\ Len(log) \in Nat
      /\ erased \in 0..MaxRecords /\ punched \in 0..MaxRecords
      /\ MaxRecords \in Nat
  BY LenProperties, ZkAssumption DEF TerminalOK
<1>2. /\ log' \in Seq(1..MaxRecords) /\ erased' \in 0..MaxRecords
      /\ Counted'
  <2>1. CASE c.cmd = "clear"
    <3>1. log' = <<>> /\ erased' = erased + Len(log)
      BY <2>1 DEF Execute
    <3>2. log' \in Seq(1..MaxRecords) /\ Len(log') = 0
      BY <3>1, EmptySeq
    <3>3. QED BY <1>1, <3>1, <3>2 DEF Counted
  <2>2. CASE c.cmd # "clear"
    <3>1. log' = log /\ erased' = erased
      BY <2>2 DEF Execute
    <3>2. QED BY <1>1, <3>1 DEF Counted
  <2>3. QED BY <2>1, <2>2
<1>3. BufferOK'
  <2>1. c.cmd = "prepare_buffer" => c.table \in Tables
    BY DEF Requests
  <2>2. log \in Seq(Nat)
    BY <1>1, RecordsAreNumbers
  <2>3. Users \in Seq(Nat) /\ Templates \in Seq(Nat)
    BY DEF Users, Templates
  <2>4. QED BY <2>1, <2>2, <2>3 DEF Execute, BufferOK, TerminalOK
<1>4. staged' \in Nat /\ saved' \in Seq(Nat)
  BY DEF Execute, TerminalOK
<1>5. QED BY <1>1, <1>2, <1>3, <1>4 DEF TerminalOK

LEMMA DataTyped ==
  ASSUME NEW pieces \in Seq(Pieces)
  PROVE  /\ Data(pieces) \in Seq(Packets) /\ Len(Data(pieces)) = Len(pieces)
         /\ \A k \in 1..Len(pieces) : Data(pieces)[k] = [cmd |-> "data", piece |-> pieces[k]]
<1>1. ASSUME NEW k \in 1..Len(pieces)
      PROVE  [cmd |-> "data", piece |-> pieces[k]] \in Packets
  <2>1. pieces[k] \in Pieces
    BY ElementOfSeq
  <2>2. QED BY <2>1 DEF Packets
<1>2. DOMAIN pieces = 1..Len(pieces) /\ Len(pieces) \in Nat
  BY LenProperties
<1>3. QED BY <1>1, <1>2 DEF Data

LEMMA AnswersTyped ==
  ASSUME KindOK, TerminalOK, BufferOK', NEW c \in Requests
  PROVE  Answers(c) \in Seq(Packets)
<1>1. <<Ack>> \in Seq(Packets)
  BY DEF Ack, Packets
<1>2. <<[cmd |-> "ack_unauth"]>> \in Seq(Packets)
  BY DEF Packets
<1>3. <<[cmd |-> "ack_ok",
         sizes |-> [users |-> Len(Users), fingers |-> Len(Templates),
                    records |-> Len(log)]]>> \in Seq(Packets)
  <2>1. Len(log) \in Nat /\ Len(Users) \in Nat /\ Len(Templates) \in Nat
    BY LenProperties DEF TerminalOK, Users, Templates
  <2>2. QED BY <2>1 DEF Packets, Sizes
<1>4. Prepared \in Seq(Packets)
  <2>1. buffer'.table \in Tables /\ buffer'.of \in Seq(Nat)
    BY DEF BufferOK
  <2>2. Total \in Nat
    BY <2>1, SizesOfTables DEF Total
  <2>3. [table |-> buffer'.table, of |-> buffer'.of, from |-> 0, len |-> Total] \in Pieces
    BY <2>1, <2>2 DEF Pieces, Total
  <2>4. [cmd |-> "data", piece |-> [table |-> buffer'.table, of |-> buffer'.of,
                                    from |-> 0, len |-> Total]] \in Packets
    BY <2>3 DEF Packets
  <2>5. [cmd |-> "ack_ok", total |-> Total] \in Packets
    BY <2>2 DEF Packets
  <2>6. [cmd |-> "prepare_data", total |-> Total] \in Packets
    BY <2>2 DEF Packets
  <2>7. QED BY <2>4, <2>5, <2>6 DEF Prepared
<1>5. c.cmd = "read_buffer" => Chunk(c) \in Seq(Packets)
  <2> SUFFICES ASSUME c.cmd = "read_buffer" PROVE Chunk(c) \in Seq(Packets)
    OBVIOUS
  <2>1. c.from \in Nat /\ c.len \in Nat
    BY DEF Requests
  <2>2. BufferOK /\ Piece \in Nat \ {0}
    BY ZkAssumption DEF TerminalOK
  <2>3. /\ PiecesOf(c.from, c.len, Piece) \in Seq(Pieces)
        /\ PiecesOf(c.from, c.len, c.len) \in Seq(Pieces)
    <3>0. Piece \in Nat /\ (Piece > 0 \/ c.len = 0)
      BY <2>2
    <3>1. PiecesOf(c.from, c.len, Piece) \in Seq(Pieces)
      BY <2>1, <2>2, <3>0, PiecesCover
    <3>2. c.len > 0 \/ c.len = 0
      BY <2>1
    <3>3. PiecesOf(c.from, c.len, c.len) \in Seq(Pieces)
      BY <2>1, <2>2, <3>2, PiecesCover
    <3>4. QED BY <3>1, <3>3
  <2>4. /\ Data(PiecesOf(c.from, c.len, Piece)) \in Seq(Packets)
        /\ Data(PiecesOf(c.from, c.len, c.len)) \in Seq(Packets)
    BY <2>3, DataTyped
  <2>5. <<[cmd |-> "prepare_data"]>> \in Seq(Packets)
    BY DEF Packets
  <2>6. <<[cmd |-> "prepare_data"]>> \o Data(PiecesOf(c.from, c.len, Piece)) \in Seq(Packets)
    BY <2>4, <2>5, ConcatProperties
  <2>7. <<[cmd |-> "prepare_data"]>> \o Data(PiecesOf(c.from, c.len, Piece)) \o <<Ack>>
          \in Seq(Packets)
    BY <2>6, <1>1, ConcatProperties
  <2>8. QED BY <1>1, <2>4, <2>6, <2>7 DEF Chunk
<1>6. QED BY <1>1, <1>2, <1>3, <1>4, <1>5 DEF Answers

LEMMA ReplyTyped ==
  ASSUME toClient \in Said, NEW c \in [id : Nat, does : Requests],
         NEW packets \in Seq(Packets), Reply(c, packets)
  PROVE  toClient' \in Said
<1> DEFINE added == [k \in DOMAIN packets |-> [id |-> c.id, says |-> packets[k]]]
<1>1. DOMAIN packets = 1..Len(packets) /\ Len(packets) \in Nat
  BY LenProperties
<1>2. ASSUME NEW k \in 1..Len(packets)
      PROVE  [id |-> c.id, says |-> packets[k]] \in [id : Nat, says : Packets]
  <2>1. packets[k] \in Packets
    BY ElementOfSeq
  <2>2. QED BY <2>1
<1>3. added \in Said
  BY <1>1, <1>2 DEF Said
<1>4. toClient' = toClient \o added
  BY DEF Reply
<1>5. QED BY <1>3, <1>4, ConcatProperties DEF Said

LEMMA HeadCommand ==
  ASSUME ClientOK, toDevice # <<>>
  PROVE  /\ Head(toDevice) \in [id : Nat, does : Requests]
         /\ Head(toDevice).does \in Requests
         /\ Tail(toDevice) \in Requested
<1>1. Head(toDevice) \in [id : Nat, does : Requests] /\ Tail(toDevice) \in Requested
  BY HeadTailProperties DEF ClientOK, Requested
<1>2. QED BY <1>1

-----------------------------------------------------------------------------
\* A sequence without one of its elements.
LEMMA Removed ==
  ASSUME NEW S, NEW q \in Seq(S), NEW k \in DOMAIN q
  PROVE  /\ Seqs!RemoveAt(q, k) \in Seq(S)
         /\ Len(Seqs!RemoveAt(q, k)) = Len(q) - 1
         /\ \A j \in 1..(Len(q) - 1) :
              Seqs!RemoveAt(q, k)[j] = IF j < k THEN q[j] ELSE q[j + 1]
<1> DEFINE before == SubSeq(q, 1, k - 1)
           after == SubSeq(q, k + 1, Len(q))
<1>1. k \in 1..Len(q) /\ Len(q) \in Nat
  BY LenProperties
<1>2. /\ before \in Seq(S) /\ Len(before) = k - 1
      /\ \A j \in 1..(k - 1) : before[j] = q[j]
  <2>1. \A i \in 1..(k - 1) : q[i] \in S
    BY <1>1, ElementOfSeq
  <2>2. QED BY <1>1, <2>1, SubSeqProperties
<1>3. /\ after \in Seq(S) /\ Len(after) = Len(q) - k
      /\ \A j \in 1..(Len(q) - k) : after[j] = q[k + j]
  <2>1. \A i \in (k + 1)..Len(q) : q[i] \in S
    BY <1>1, ElementOfSeq
  <2>2. QED BY <1>1, <2>1, SubSeqProperties
<1>4. Seqs!RemoveAt(q, k) = before \o after
  BY DEF Seqs!RemoveAt
<1> HIDE DEF before, after
<1>5. /\ before \o after \in Seq(S)
      /\ Len(before \o after) = Len(before) + Len(after)
      /\ \A j \in 1..(Len(before) + Len(after)) :
           (before \o after)[j] = IF j <= Len(before) THEN before[j]
                                                     ELSE after[j - Len(before)]
  BY <1>2, <1>3, ConcatProperties
<1>6. Len(before) + Len(after) = Len(q) - 1
  BY <1>1, <1>2, <1>3
<1>7. ASSUME NEW j \in 1..(Len(q) - 1)
      PROVE  (before \o after)[j] = IF j < k THEN q[j] ELSE q[j + 1]
  <2>1. CASE j < k
    BY <1>1, <1>2, <1>5, <1>6, <2>1
  <2>2. CASE ~(j < k)
    <3>1. j - (k - 1) \in 1..(Len(q) - k) /\ k + (j - (k - 1)) = j + 1
      BY <1>1, <2>2
    <3>2. after[j - (k - 1)] = q[j + 1]
      BY <1>3, <3>1
    <3>3. (before \o after)[j] = after[j - Len(before)]
      BY <1>1, <1>2, <1>5, <1>6, <2>2
    <3>4. QED BY <1>2, <2>2, <3>2, <3>3
  <2>3. QED BY <2>1, <2>2
<1>8. QED BY <1>4, <1>5, <1>6, <1>7

LEMMA KindKept == ASSUME [Next]_vars PROVE UNCHANGED kind
BY DEF Next, Call, Receive, Timeout, Serve, AckOnly, Misbehave, Lose, Punch, vars, device

\* TCP loses nothing.
Carried == kind.transport = "tcp" /\ kind.style # "ack" => missing = {}

LEMMA CarriedKept == ASSUME Carried, [Next]_vars PROVE Carried'
BY DEF Carried, Next, Call, Receive, Timeout, Serve, AckOnly, Misbehave, Lose, Punch, vars,
       device

\* What was lost stays lost, so a tidy connection was tidy before.
LEMMA TidyBefore ==
  ASSUME [Next]_vars
  PROVE  missing \subseteq missing' /\ (Tidy' => Tidy)
<1>1. missing \subseteq missing'
  BY DEF Next, Call, Receive, Timeout, Serve, AckOnly, Misbehave, Lose, Punch, vars, device
<1>2. QED BY <1>1, KindKept DEF Tidy

\* The types hold, with what the client has at hand and the records counted.
Typed ==
  /\ KindOK /\ ClientOK /\ TerminalOK /\ toClient \in Said /\ Busy /\ Counted
  /\ Carried

LEMMA TypedInit == Init => Typed
<1> SUFFICES ASSUME Init PROVE Typed
  OBVIOUS
<1>1. KindOK
  BY DEF Init, KindOK
<1>2. /\ script \in Seq(Calls) /\ reads \in Seq(Tables) /\ todo \in Seq(Nat \X Nat)
      /\ toDevice \in Requested /\ toClient \in Said /\ saved \in Seq(Nat)
  BY ScriptsAssumption, EmptySeq DEF Init, Requested, Said
<1>3. got \in Got /\ Within(got)
  BY NothingTyped DEF Init
<1>4. count \in Sizes /\ outcome \in Outcomes /\ tables \in [Tables -> Seq(Nat)]
  <2>1. <<>> \in Seq(Nat)
    BY EmptySeq
  <2>2. QED BY <2>1 DEF Init, NoCount, Sizes, Outcomes, NoTables, Tables
<1>5. ClientOK
  BY <1>2, <1>3, <1>4 DEF Init, ClientOK
<1>6. /\ log \in Seq(1..MaxRecords) /\ Len(log) \in {0, 1}
      /\ punched \in 0..MaxRecords /\ erased \in 0..MaxRecords /\ Counted
  <2>1. <<>> \in Seq(1..MaxRecords) /\ <<1>> \in Seq(1..MaxRecords)
        /\ Len(<<>>) = 0 /\ Len(<<1>>) = 1
    BY EmptySeq, ZkAssumption
  <2>2. MaxRecords \in Nat \ {0}
    BY ZkAssumption
  <2>3. CASE log = <<>>
    BY <2>1, <2>2, <2>3 DEF Init, Counted
  <2>4. CASE log = <<1>>
    BY <2>1, <2>2, <2>4 DEF Init, Counted
  <2>5. QED BY <2>3, <2>4 DEF Init
<1>7. TerminalOK
  <2>1. BufferOK
    BY EmptySeq DEF Init, BufferOK, Tables
  <2>2. 0 \in 0..MaxFaults
    BY ZkAssumption
  <2>3. QED BY <1>2, <1>6, <2>1, <2>2 DEF Init, TerminalOK
<1>8. QED BY <1>1, <1>2, <1>5, <1>6, <1>7 DEF Init, Typed, Busy, Reading, Carried

LEMMA TypedStep == Typed /\ [Next]_vars => Typed'
<1> SUFFICES ASSUME Typed, [Next]_vars PROVE Typed'
  OBVIOUS
<1> USE DEF Typed
<1>1. UNCHANGED kind
  BY KindKept
<1>2. KindOK' /\ Said' = Said /\ Carried'
  BY <1>1, SaidPrimed, CarriedKept
<1>3. ASSUME UNCHANGED device PROVE TerminalOK' /\ Counted'
  BY <1>3 DEF device, TerminalOK, BufferOK, Counted
<1>4. ASSUME UNCHANGED client, sent' = sent, toDevice' \in Requested PROVE ClientOK' /\ Busy'
  <2>1. Within(got)'
    BY <1>1, <1>4 DEF client, ClientOK, Within, TableBytes, SizeOf
  <2>2. QED BY <1>4, <2>1 DEF client, ClientOK, Busy
<1>5. CASE Call
  <2>1. /\ script # <<>> /\ reads' = <<>> /\ todo' = <<>> /\ got' = Nothing /\ streamed' = 0
        /\ tables' = NoTables /\ Ask(First(Head(script)))
        /\ UNCHANGED <<script, count, outcome, toClient, device>>
    BY <1>5 DEF Call
  <2>2. Head(script) \in Calls
    BY <2>1, HeadTailProperties DEF ClientOK
  <2>3. First(Head(script)) \in {"connect", "clear", "exit", "sizes", "send_free"}
    BY <2>2 DEF First, Calls
  <2>4. /\ reads' \in Seq(Tables) /\ todo' \in Seq(Nat \X Nat)
        /\ tables' \in [Tables -> Seq(Nat)]
    BY <2>1, EmptySeq DEF NoTables, Tables
  <2>5. got' \in Got /\ Within(got)'
    BY <2>1, NothingTyped DEF Within, Nothing
  <2>6. Proceeds /\ pc' = First(Head(script))
    BY <2>1, <2>3, <2>4, AskProceeds DEF Ask, Commands
  <2>7. ClientOK' /\ Busy'
    <3>1. count' \in Sizes /\ streamed' \in Nat
      BY <2>1 DEF ClientOK
    <3>2. QED BY <1>1, <2>3, <2>4, <2>5, <2>6, <3>1, ProceedsTyped DEF Reading
  <2>8. QED BY <1>2, <1>3, <2>1, <2>7
<1>6. CASE Receive
  <2>1. /\ toClient # <<>> /\ Step(Head(toClient).says) /\ toClient' = Tail(toClient)
        /\ UNCHANGED device
    BY <1>6 DEF Receive
  <2>2. Head(toClient).says \in Packets /\ Tail(toClient) \in Said
    <3>1. Head(toClient) \in [id : Nat, says : Packets] /\ Tail(toClient) \in Said
      BY <2>1, HeadTailProperties DEF Said
    <3>2. QED BY <3>1
  <2>3. ClientOK' /\ Busy'
    BY <1>1, <2>1, <2>2, StepTypes
  <2>4. QED BY <1>2, <1>3, <2>1, <2>2, <2>3
<1>7. CASE Timeout
  <2>1. Step(Silence) /\ UNCHANGED <<toClient, device>>
    BY <1>7 DEF Timeout
  <2>2. ClientOK' /\ Busy'
    BY <1>1, <2>1, StepTypes
  <2>3. QED BY <1>2, <1>3, <2>1, <2>2
<1>8. CASE Serve
  <2> DEFINE c == Head(toDevice)
  <2>1. /\ toDevice # <<>> /\ Execute(c.does) /\ Reply(c, Answers(c.does))
        /\ toDevice' = Tail(toDevice) /\ UNCHANGED <<client, sent, kind, punched, faults, missing>>
    BY <1>8 DEF Serve
  <2>2. c \in [id : Nat, does : Requests] /\ c.does \in Requests /\ toDevice' \in Requested
    BY <2>1, HeadCommand
  <2> HIDE DEF c
  <2>3. TerminalOK' /\ Counted'
    <3>1. faults' \in 0..MaxFaults /\ UNCHANGED missing
      BY <2>1 DEF TerminalOK
    <3>2. QED BY <2>1, <2>2, <3>1, ExecuteTypes
  <2>4. toClient' \in Said
    <3>1. Answers(c.does) \in Seq(Packets)
      BY <2>2, <2>3, AnswersTyped DEF TerminalOK
    <3>2. QED BY <2>1, <2>2, <3>1, ReplyTyped
  <2>5. QED BY <1>2, <1>4, <2>1, <2>2, <2>3, <2>4
<1>9. CASE Misbehave
  <2> DEFINE c == Head(toDevice)
  <2>1. /\ toDevice # <<>> /\ faults < MaxFaults
        /\ \/ Reply(c, <<[cmd |-> "ack_error"]>>)
              /\ UNCHANGED <<log, buffer, staged, saved, erased>>
           \/ UNCHANGED <<toClient, log, buffer, staged, saved, erased>>
           \/ Execute(c.does) /\ UNCHANGED toClient
        /\ toDevice' = Tail(toDevice) /\ faults' = faults + 1
        /\ UNCHANGED <<client, sent, kind, punched, missing>>
    BY <1>9 DEF Misbehave
  <2>2. c \in [id : Nat, does : Requests] /\ c.does \in Requests /\ toDevice' \in Requested
    BY <2>1, HeadCommand
  <2> HIDE DEF c
  <2>3. faults' \in 0..MaxFaults
    BY <2>1, ZkAssumption DEF TerminalOK
  <2>4. UNCHANGED <<log, buffer, staged, saved, erased>> => TerminalOK' /\ Counted'
    BY <2>1, <2>3 DEF TerminalOK, BufferOK, Counted
  <2>5. TerminalOK' /\ Counted'
    BY <2>1, <2>2, <2>3, <2>4, ExecuteTypes
  <2>6. toClient' \in Said
    <3>1. <<[cmd |-> "ack_error"]>> \in Seq(Packets)
      BY DEF Packets
    <3>2. QED BY <2>1, <2>2, <3>1, ReplyTyped
  <2>7. QED BY <1>2, <1>4, <2>1, <2>2, <2>5, <2>6
<1>13. CASE AckOnly
  <2> DEFINE c == Head(toDevice)
  <2>1. /\ toDevice # <<>> /\ Reply(c, <<Ack>>) /\ toDevice' = Tail(toDevice)
        /\ missing' = missing \cup {"data"}
        /\ UNCHANGED <<client, sent, kind, log, buffer, staged, saved, erased, punched, faults>>
    BY <1>13 DEF AckOnly
  <2>2. c \in [id : Nat, does : Requests] /\ toDevice' \in Requested
    BY <2>1, HeadCommand
  <2> HIDE DEF c
  <2>3. TerminalOK' /\ Counted'
    BY <2>1 DEF TerminalOK, BufferOK, Counted
  <2>4. toClient' \in Said
    <3>1. <<Ack>> \in Seq(Packets)
      BY DEF Packets, Ack
    <3>2. QED BY <2>1, <2>2, <3>1, ReplyTyped
  <2>5. QED BY <1>2, <1>4, <2>1, <2>2, <2>3, <2>4
<1>14. CASE Lose
  <2>1. /\ faults < MaxFaults /\ faults' = faults + 1
        /\ UNCHANGED <<client, toDevice, sent, kind, log, buffer, staged, saved, erased, punched>>
    BY <1>14 DEF Lose
  <2>2. PICK k \in DOMAIN toClient :
          /\ toClient' = Seqs!RemoveAt(toClient, k)
          /\ missing' = missing \cup {toClient[k].says.cmd}
    BY <1>14 DEF Lose
  <2>3. toClient' \in Said
    BY <2>2, Removed DEF Said
  <2>4. toClient[k].says.cmd \in {"ack_ok", "ack_error", "ack_unauth", "prepare_data", "data"}
    <3>1. toClient[k] \in [id : Nat, says : Packets]
      BY ElementOfSeq, LenProperties DEF Said
    <3>2. toClient[k].says \in Packets
      BY <3>1
    <3>3. QED BY <3>2 DEF Packets
  <2>5. faults' \in 0..MaxFaults
    BY <2>1, ZkAssumption DEF TerminalOK
  <2>6. TerminalOK' /\ Counted'
    BY <2>1, <2>2, <2>4, <2>5 DEF TerminalOK, BufferOK, Counted
  <2>7. toDevice' \in Requested
    BY <2>1 DEF ClientOK
  <2>8. QED BY <1>2, <1>4, <2>1, <2>3, <2>6, <2>7
<1>10. CASE Punch
  <2>1. /\ punched < MaxRecords /\ punched' = punched + 1 /\ log' = Append(log, punched')
        /\ UNCHANGED <<client, wire, kind, buffer, staged, saved, erased, faults, missing>>
    BY <1>10 DEF Punch
  <2>2. /\ punched \in 0..MaxRecords /\ erased \in 0..MaxRecords /\ MaxRecords \in Nat
        /\ log \in Seq(1..MaxRecords) /\ Len(log) \in Nat
    BY ZkAssumption, LenProperties DEF TerminalOK
  <2>3. punched' \in 1..MaxRecords
    BY <2>1, <2>2
  <2>4. /\ log' \in Seq(1..MaxRecords) /\ Len(log') = Len(log) + 1
        /\ \A k \in 1..Len(log) : log'[k] = log[k]
        /\ log'[Len(log) + 1] = punched'
    BY <2>1, <2>2, <2>3, AppendProperties
  <2>5. Counted'
    BY <2>1, <2>2, <2>3, <2>4 DEF Counted
  <2>6. TerminalOK'
    BY <2>1, <2>3, <2>4 DEF TerminalOK, BufferOK
  <2>7. toDevice' \in Requested /\ sent' = sent /\ toClient' = toClient
    BY <2>1 DEF wire, ClientOK
  <2>8. QED BY <1>2, <1>4, <2>1, <2>5, <2>6, <2>7
<1>11. CASE UNCHANGED vars
  <2>1. UNCHANGED client /\ UNCHANGED wire /\ UNCHANGED device
    BY <1>11 DEF vars
  <2>2. toDevice' \in Requested /\ sent' = sent /\ toClient' = toClient
    BY <2>1 DEF wire, ClientOK
  <2>3. QED BY <1>2, <1>3, <1>4, <2>1, <2>2
<1>12. QED BY <1>5, <1>6, <1>7, <1>8, <1>9, <1>10, <1>11, <1>13, <1>14 DEF Next

LEMMA AlwaysTyped == Spec => []Typed
<1>1. Init => Typed
  BY TypedInit
<1>2. Typed /\ [Next]_vars => Typed'
  BY TypedStep
<1>3. QED BY <1>1, <1>2, PTL DEF Spec

\* Whatever the terminal answers, refuses or does not answer, and whenever it
\* does, the client's state is well-formed: it never takes the first chunk or
\* table of none, and every answer is decoded within the bytes that came.
THEOREM TypeCorrect == Spec => []TypeOK
<1>1. Typed => TypeOK
  BY TypesApart DEF Typed
<1>2. QED BY <1>1, AlwaysTyped, PTL

-----------------------------------------------------------------------------
\* The steps of the calls.

StepsOf(call) ==
  CASE call = "connect" -> {"connect", "auth"}
    [] call \in {"pull", "templates"} -> {"sizes"} \cup Reading
    [] call = "info" -> {"sizes", "serial", "firmware", "platform", "name"}
    [] call = "push" -> {"send_free", "send_prepare", "data", "save", "refresh"}
    [] OTHER -> {call}

\* Every command is one of the running call's; a pull reads the log alone; no
\* call but a pull is followed by a clear; a log that was prepared with records
\* was punched.
Calling ==
  /\ pc # "ready" => pc \in StepsOf(Head(script))
  /\ pc \in Reading /\ Head(script) = "pull" => reads = <<"log">>
  /\ \A k \in 2..Len(script) : script[k] = "clear" => script[k - 1] = "pull"
  /\ buffer.table = "log" /\ buffer.of # <<>> => punched > 0

\* The client has sent the next command of the call.
Asks == \E p \in StepsOf(Head(script)) \cap Commands : Ask(p) /\ UNCHANGED <<script, outcome>>
Returns == \E ok \in BOOLEAN : Return(ok)
Streams ==
  /\ pc \in {"read_buffer", "stream"} /\ pc' = "stream"
  /\ UNCHANGED <<script, outcome, reads, todo, toDevice, sent>>

\* An answer, or its absence, ends the call, or a command follows, or the
\* client waits for more of a stream.
LEMMA StepLeads ==
  ASSUME Typed, Calling, NEW r, Step(r)
  PROVE  Returns \/ Asks \/ Streams
<1>1. /\ pc # "ready" /\ script # <<>> /\ pc \in StepsOf(Head(script))
      /\ Head(script) \in Calls
  <2>1. pc # "ready" /\ script # <<>>
    BY DEF Step, Connect, Auth, ReadSizes, PrepareBuffer, ReadBuffer, Stream, FreeData,
           ClearAttendance, DeviceInfo, SendData, SaveTemplate, Exit, Typed, Busy
  <2>2. QED BY <2>1, HeadTailProperties DEF Calling, Typed, ClientOK
<1>2. ASSUME pc \in Reading \cup {"sizes"}, Head(script) # "info", NextTable
      PROVE  Returns \/ Asks
  <2>1. Head(script) \in {"pull", "templates"}
    BY <1>1, <1>2 DEF StepsOf, Calls, Reading
  <2>2. "prepare_buffer" \in StepsOf(Head(script)) \cap Commands
    BY <2>1 DEF StepsOf, Reading, Commands
  <2>3. QED BY <1>2, <2>2 DEF NextTable, Asks, Returns
<1>3. ASSUME pc \in Reading, NextChunk
      PROVE  Asks
  <2>1. Head(script) \in {"pull", "templates"}
    BY <1>1, <1>3 DEF StepsOf, Calls, Reading
  <2>2. {"read_buffer", "free_data"} \subseteq StepsOf(Head(script)) \cap Commands
    BY <2>1 DEF StepsOf, Reading, Commands
  <2>3. QED BY <1>3, <2>2 DEF NextChunk, Asks
<1>4. pc \in Reading => Head(script) # "info"
  BY <1>1 DEF StepsOf, Calls, Reading
<1>5. CASE Connect(r) \/ Auth(r)
  <2>1. Head(script) = "connect"
    BY <1>1, <1>5 DEF StepsOf, Calls, Connect, Auth, Reading
  <2>2. "auth" \in StepsOf(Head(script)) \cap Commands
    BY <2>1 DEF StepsOf, Commands
  <2>3. QED BY <1>5, <2>2 DEF Connect, Auth, Asks, Returns
<1>6. CASE ReadSizes(r)
  <2>1. CASE Head(script) = "info"
    <3>1. "serial" \in StepsOf(Head(script)) \cap Commands
      BY <2>1 DEF StepsOf, Commands
    <3>2. QED BY <1>6, <2>1, <3>1 DEF ReadSizes, Asks
  <2>2. CASE Head(script) # "info"
    BY <1>2, <1>6, <2>2 DEF ReadSizes
  <2>3. QED BY <2>1, <2>2
<1>7. CASE PrepareBuffer(r)
  BY <1>2, <1>3, <1>4, <1>7 DEF PrepareBuffer, TableRead, Returns, Reading
<1>8. CASE ReadBuffer(r)
  <2>1. CASE r.cmd \in {"data", "ack_ok"}
    BY <1>3, <1>8, <2>1 DEF ReadBuffer, Reading
  <2>2. CASE r.cmd = "prepare_data"
    BY <1>8, <2>2 DEF ReadBuffer, Streams
  <2>3. CASE r.cmd \notin {"data", "ack_ok", "prepare_data"}
    BY <1>8, <2>3 DEF ReadBuffer, Returns
  <2>4. QED BY <2>1, <2>2, <2>3
<1>9. CASE Stream(r)
  BY <1>3, <1>9 DEF Stream, Returns, Streams, Reading
<1>10. CASE FreeData(r)
  BY <1>2, <1>4, <1>10 DEF FreeData, TableRead, Reading
<1>11. CASE ClearAttendance(r) \/ Exit(r)
  BY <1>11 DEF ClearAttendance, Exit, Returns
<1>12. CASE DeviceInfo(r)
  <2>1. Head(script) = "info"
    BY <1>1, <1>12 DEF StepsOf, Calls, DeviceInfo, Reading
  <2>2. {"firmware", "platform", "name"} \subseteq StepsOf(Head(script)) \cap Commands
    BY <2>1 DEF StepsOf, Commands
  <2>3. QED BY <1>12, <2>2 DEF DeviceInfo, Asks, Returns
<1>13. CASE SendData(r) \/ SaveTemplate(r)
  <2>1. Head(script) = "push"
    BY <1>1, <1>13 DEF StepsOf, Calls, SendData, SaveTemplate, Reading
  <2>2. {"send_prepare", "data", "save", "refresh"} \subseteq StepsOf(Head(script)) \cap Commands
    BY <2>1 DEF StepsOf, Commands
  <2>3. QED BY <1>13, <2>2 DEF SendData, SaveTemplate, PushChunk, Asks, Returns
<1>14. QED
  BY <1>5, <1>6, <1>7, <1>8, <1>9, <1>10, <1>11, <1>12, <1>13 DEF Step

\* A pull reads the log alone.
LEMMA PullReads ==
  ASSUME Typed, Calling, NEW r, Step(r), script' = script, pc' \in Reading,
         Head(script) = "pull"
  PROVE  reads' = <<"log">>
<1>1. pc \in {"sizes"} \cup Reading
  <2>1. pc # "ready"
    BY DEF Step, Connect, Auth, ReadSizes, PrepareBuffer, ReadBuffer, Stream, FreeData,
           ClearAttendance, DeviceInfo, SendData, SaveTemplate, Exit
  <2>2. QED BY <2>1 DEF Calling, StepsOf
<1>2. pc \in Reading => reads = <<"log">>
  BY DEF Calling
<1>3. ASSUME pc \in Reading, TableRead
      PROVE  FALSE
  <2>1. reads' = <<>>
    <3>1. reads \in Seq(Tables) /\ Len(reads) = 1 /\ reads # <<>>
      BY <1>2, <1>3, EmptySeq DEF Typed, ClientOK
    <3>2. Tail(reads) \in Seq(Tables) /\ Len(Tail(reads)) = 0
      BY <3>1, HeadTailProperties
    <3>3. QED BY <1>3, <3>2, EmptySeq DEF TableRead
  <2>2. pc' = "ready"
    BY <1>3, <2>1 DEF TableRead, NextTable, Return
  <2>3. QED BY <2>2 DEF Reading
<1>4. \/ ReadSizes(r) \/ PrepareBuffer(r) \/ ReadBuffer(r) \/ Stream(r) \/ FreeData(r)
  BY <1>1 DEF Step, Connect, Auth, ClearAttendance, DeviceInfo, SendData, SaveTemplate, Exit,
              Reading
<1>5. CASE ReadSizes(r)
  BY <1>5 DEF ReadSizes, TablesOf
<1>6. CASE PrepareBuffer(r)
  BY <1>2, <1>3, <1>6 DEF PrepareBuffer, NextChunk, Reading
<1>7. CASE ReadBuffer(r)
  BY <1>2, <1>7 DEF ReadBuffer, NextChunk, Reading
<1>8. CASE Stream(r)
  BY <1>2, <1>8 DEF Stream, NextChunk, Reading
<1>9. CASE FreeData(r)
  BY <1>3, <1>9 DEF FreeData, Reading
<1>10. QED BY <1>4, <1>5, <1>6, <1>7, <1>8, <1>9

LEMMA ReturnKeepsShape ==
  ASSUME Typed, Calling, script # <<>>, NEW ok, Return(ok)
  PROVE  \A k \in 2..Len(script') : script'[k] = "clear" => script'[k - 1] = "pull"
<1>1. /\ Tail(script) \in Seq(Calls) /\ Len(Tail(script)) = Len(script) - 1
      /\ \A k \in 1..Len(Tail(script)) : Tail(script)[k] = script[k + 1]
      /\ Len(script) \in Nat
  BY HeadTailProperties, LenProperties DEF Typed, ClientOK
<1>2. CASE script' = Tail(script)
  <2>1. SUFFICES ASSUME NEW k \in 2..Len(Tail(script)), Tail(script)[k] = "clear"
                 PROVE  Tail(script)[k - 1] = "pull"
    BY <1>2
  <2>2. k + 1 \in 2..Len(script) /\ k \in 1..Len(Tail(script)) /\ k - 1 \in 1..Len(Tail(script))
    BY <1>1
  <2>3. script[k + 1] = "clear"
    BY <1>1, <2>1, <2>2
  <2>4. script[(k + 1) - 1] = "pull"
    BY <2>2, <2>3 DEF Calling
  <2>5. (k + 1) - 1 = (k - 1) + 1
    BY <2>1
  <2>6. QED BY <1>1, <2>2, <2>4, <2>5
<1>3. CASE script' \in {<<>>, <<"exit">>}
  BY <1>3, EmptySeq
<1>4. QED BY <1>2, <1>3 DEF Return

LEMMA StepKeepsCalling ==
  ASSUME Typed, Calling, NEW r, Step(r), UNCHANGED device
  PROVE  Calling'
<1>1. buffer' = buffer /\ punched' = punched
  BY DEF device
<1>2. script # <<>>
  BY DEF Step, Connect, Auth, ReadSizes, PrepareBuffer, ReadBuffer, Stream, FreeData,
         ClearAttendance, DeviceInfo, SendData, SaveTemplate, Exit, Typed, Busy
<1>3. CASE Returns
  <2>1. pc' = "ready"
    BY <1>3 DEF Returns, Return
  <2>2. \A k \in 2..Len(script') : script'[k] = "clear" => script'[k - 1] = "pull"
    BY <1>2, <1>3, ReturnKeepsShape DEF Returns
  <2>3. QED BY <1>1, <2>1, <2>2 DEF Calling, Reading
<1>4. CASE Asks
  <2>1. script' = script /\ pc' \in StepsOf(Head(script))
    BY <1>4 DEF Asks, Ask
  <2>2. pc' \in Reading /\ Head(script') = "pull" => reads' = <<"log">>
    BY <2>1, PullReads
  <2>3. QED BY <1>1, <2>1, <2>2 DEF Calling, StepsOf, Reading
<1>5. CASE Streams
  <2>1. script' = script /\ pc' = "stream" /\ pc \in Reading /\ reads' = reads
    BY <1>5 DEF Streams, Reading
  <2>2. pc' \in StepsOf(Head(script))
    <3>1. Head(script) \in Calls /\ pc \in StepsOf(Head(script))
      BY <1>2, <2>1, HeadTailProperties DEF Calling, Typed, ClientOK, Reading
    <3>2. QED BY <2>1, <3>1 DEF StepsOf, Reading, Calls
  <2>3. QED BY <1>1, <2>1, <2>2 DEF Calling, StepsOf, Reading
<1>6. QED BY <1>3, <1>4, <1>5, StepLeads

LEMMA ExecuteKeepsCalling ==
  ASSUME Typed, Calling, UNCHANGED client, punched' = punched,
         \/ UNCHANGED buffer
         \/ \E c : Execute(c)
  PROVE  Calling'
<1>1. buffer'.table = "log" /\ buffer'.of # <<>> => punched' > 0
  <2>1. CASE UNCHANGED buffer
    BY <2>1 DEF Calling
  <2>2. ASSUME NEW c, Execute(c)
        PROVE  buffer'.table = "log" /\ buffer'.of # <<>> => punched' > 0
    <3>1. CASE c.cmd = "prepare_buffer"
      <4>1. buffer'.table = "log" => buffer'.of = log
        BY <2>2, <3>1 DEF Execute
      <4>2. Len(log) \in Nat /\ (log # <<>> => Len(log) > 0) /\ erased \in Nat
        BY EmptySeq, LenProperties DEF Typed, TerminalOK
      <4>3. erased + Len(log) = punched
        BY DEF Typed, Counted
      <4>4. QED BY <4>1, <4>2, <4>3
    <3>2. CASE c.cmd # "prepare_buffer"
      BY <2>2, <3>2 DEF Execute, Calling
    <3>3. QED BY <3>1, <3>2
  <2>3. QED BY <2>1, <2>2
<1>2. QED BY <1>1 DEF client, Calling, StepsOf, Reading

LEMMA CallingInit == Init => Calling
<1> SUFFICES ASSUME Init PROVE Calling
  OBVIOUS
<1>1. script \in Scripts /\ script \in Seq(Calls)
  BY ScriptsAssumption DEF Init
<1>2. \A k \in 2..Len(script) : script[k] = "clear" => script[k - 1] = "pull"
  <2>1. DOMAIN script = 1..Len(script) /\ Len(script) \in Nat
    BY <1>1, LenProperties
  <2>2. QED BY <1>1, <2>1, ScriptsAssumption
<1>3. QED BY <1>2 DEF Init, Calling, Reading

LEMMA CallingStep == Typed /\ Calling /\ [Next]_vars => Calling'
<1> SUFFICES ASSUME Typed, Calling, [Next]_vars PROVE Calling'
  OBVIOUS
<1>1. CASE Call
  <2>1. /\ script # <<>> /\ script' = script /\ pc' = First(Head(script))
        /\ UNCHANGED device
    BY <1>1 DEF Call, Ask
  <2>2. Head(script) \in Calls
    BY <2>1, HeadTailProperties DEF Typed, ClientOK
  <2>3. pc' \in StepsOf(Head(script)) /\ pc' \notin Reading
    BY <2>1, <2>2 DEF First, StepsOf, Calls, Reading
  <2>4. QED BY <2>1, <2>3 DEF Calling, StepsOf, Reading, device
<1>2. CASE Receive
  BY <1>2, StepKeepsCalling DEF Receive
<1>3. CASE Timeout
  BY <1>3, StepKeepsCalling DEF Timeout
<1>4. CASE Serve
  <2>1. UNCHANGED client /\ punched' = punched /\ \E c : Execute(c)
    BY <1>4 DEF Serve
  <2>2. QED BY <2>1, ExecuteKeepsCalling
<1>5. CASE Misbehave
  <2>1. UNCHANGED client /\ punched' = punched /\ (UNCHANGED buffer \/ \E c : Execute(c))
    BY <1>5 DEF Misbehave
  <2>2. QED BY <2>1, ExecuteKeepsCalling
<1>6. CASE Punch
  <2>1. /\ UNCHANGED <<script, pc, reads, buffer>> /\ punched' = punched + 1
        /\ punched \in Nat
    BY <1>6 DEF Punch, client, Typed, TerminalOK
  <2>2. QED BY <2>1 DEF Calling, StepsOf, Reading
<1>7. CASE UNCHANGED vars
  <2>1. UNCHANGED <<script, pc, reads, buffer, punched>>
    BY <1>7 DEF vars, client, device
  <2>2. QED BY <2>1 DEF Calling, StepsOf, Reading
<1>8. CASE AckOnly \/ Lose
  <2>1. UNCHANGED client /\ punched' = punched /\ UNCHANGED buffer
    BY <1>8 DEF AckOnly, Lose
  <2>2. QED BY <2>1, ExecuteKeepsCalling
<1>9. QED BY <1>1, <1>2, <1>3, <1>4, <1>5, <1>6, <1>7, <1>8 DEF Next

-----------------------------------------------------------------------------
\* Streams.

\* The pieces of packets, the rest of a stream, but the ACK_OK that ends it.
PiecesIn(packets) ==
  IF Len(packets) > 0 /\ packets[Len(packets)].says.cmd # "data"
  THEN Len(packets) - 1 ELSE Len(packets)
Rest(packets) == [k \in 1..PiecesIn(packets) |-> packets[k].says.piece]

\* The pieces s of the prepared table follow each other from the byte at on, up
\* to the byte end, with holes only when data was lost.
EndBefore(s, k, at) == IF k = 1 THEN at ELSE s[k - 1].from + s[k - 1].len
InOrder(s, at, end, lost) ==
  \A k \in 1..Len(s) :
    /\ s[k].table = buffer.table /\ s[k].of = buffer.of
    /\ s[k].len > 0 /\ s[k].from + s[k].len <= end
    /\ s[k].from >= EndBefore(s, k, at)
    /\ "data" \notin lost => s[k].from = EndBefore(s, k, at)

\* The packets that are left of a stream up to the byte end, from the byte at;
\* over TCP there is no ACK_OK behind them.
StreamFrom(packets, at, end, lost) ==
  /\ kind.style \in {"stream", "bare"}
  /\ kind.transport = "tcp" => PiecesIn(packets) = Len(packets)
  /\ \A k \in 1..PiecesIn(packets) : packets[k].says.cmd = "data"
  /\ InOrder(Rest(packets), at, end, lost)

LEMMA ConsecutiveInOrder ==
  ASSUME NEW s \in Seq(Pieces), NEW at \in Nat, NEW end, NEW lost, Consecutive(s, at, end)
  PROVE  InOrder(s, at, end, lost)
<1> SUFFICES ASSUME NEW k \in 1..Len(s)
             PROVE  /\ s[k].table = buffer.table /\ s[k].of = buffer.of
                    /\ s[k].len > 0 /\ s[k].from + s[k].len <= end
                    /\ s[k].from >= EndBefore(s, k, at)
                    /\ s[k].from = EndBefore(s, k, at)
  BY DEF InOrder
<1>1. s[k].from \in Nat
  <2>1. s[k] \in Pieces
    BY ElementOfSeq
  <2>2. QED BY <2>1 DEF Pieces
<1>2. /\ s[k].table = buffer.table /\ s[k].of = buffer.of
      /\ s[k].len > 0 /\ s[k].from + s[k].len <= end
      /\ s[k].from = EndBefore(s, k, at)
  BY DEF Consecutive, EndBefore
<1>3. QED BY <1>1, <1>2

LEMMA RestIs ==
  ASSUME NEW packets \in Said
  PROVE  /\ Len(packets) \in Nat
         /\ PiecesIn(packets) \in Nat /\ PiecesIn(packets) <= Len(packets)
         /\ PiecesIn(packets) = IF Len(packets) > 0 /\ packets[Len(packets)].says.cmd # "data"
                                THEN Len(packets) - 1 ELSE Len(packets)
         /\ \/ Rest(packets) \in Seq(Pieces)
            \/ \E k \in 1..PiecesIn(packets) : packets[k].says.cmd # "data"
         /\ Len(Rest(packets)) = PiecesIn(packets)
         /\ \A k \in 1..PiecesIn(packets) : Rest(packets)[k] = packets[k].says.piece
<1> DEFINE n == PiecesIn(packets)
<1>1. Len(packets) \in Nat
  BY LenProperties DEF Said
<1>2. n \in Nat /\ n <= Len(packets)
      /\ n = IF Len(packets) > 0 /\ packets[Len(packets)].says.cmd # "data"
             THEN Len(packets) - 1 ELSE Len(packets)
  BY <1>1 DEF PiecesIn
<1>3. Len(Rest(packets)) = n /\ \A k \in 1..n : Rest(packets)[k] = packets[k].says.piece
  <2> HIDE DEF n
  <2>1. Rest(packets) = [k \in 1..n |-> packets[k].says.piece]
    BY DEF Rest, n
  <2>2. QED BY <1>2, <2>1
<1>4. ASSUME \A k \in 1..n : packets[k].says.cmd = "data"
      PROVE  Rest(packets) \in Seq(Pieces)
  <2> HIDE DEF n
  <2>1. ASSUME NEW k \in 1..n PROVE packets[k].says.piece \in Pieces
    <3>1. k \in 1..Len(packets)
      BY <1>1, <1>2
    <3>2. packets[k] \in [id : Nat, says : Packets]
      BY <3>1, ElementOfSeq DEF Said
    <3>3. packets[k].says \in Packets /\ packets[k].says.cmd = "data"
      BY <1>4, <3>2
    <3>4. QED BY <3>3, AnswerParts
  <2>2. Rest(packets) = [k \in 1..n |-> packets[k].says.piece]
    BY DEF Rest, n
  <2>3. QED BY <1>2, <2>1, <2>2
<1>5. QED BY <1>1, <1>2, <1>3, <1>4

\* The pieces of a stream are pieces of tables.
LEMMA RestTyped ==
  ASSUME NEW packets \in Said, NEW at, NEW end, NEW lost, StreamFrom(packets, at, end, lost)
  PROVE  \A k \in 1..PiecesIn(packets) :
           /\ Rest(packets)[k] \in Pieces
           /\ Rest(packets)[k].from \in Nat /\ Rest(packets)[k].len \in Nat
<1>1. Rest(packets) \in Seq(Pieces) /\ Len(Rest(packets)) = PiecesIn(packets)
  BY RestIs DEF StreamFrom
<1>2. QED BY <1>1, ElementOfSeq DEF Pieces

\* One more piece came: it begins where the last one ended, or behind that when
\* data was lost; what is left of the stream follows it.
LEMMA StreamTail ==
  ASSUME NEW packets \in Said, packets # <<>>, NEW at \in Nat, NEW end \in Nat, NEW lost,
         StreamFrom(packets, at, end, lost), Head(packets).says.cmd = "data"
  PROVE  LET p == Head(packets).says.piece
         IN /\ p \in Pieces /\ p.len \in Nat /\ p.len > 0 /\ p.from \in Nat
            /\ p = Rest(packets)[1] /\ PiecesIn(packets) > 0
            /\ p.table = buffer.table /\ p.of = buffer.of
            /\ p.from >= at /\ p.from + p.len <= end
            /\ "data" \notin lost => p.from = at
            /\ StreamFrom(Tail(packets), at + p.len, end, lost)
            /\ PiecesIn(Tail(packets)) > 0 => Rest(Tail(packets))[1].from >= p.from + p.len
            /\ "data" \notin lost /\ EndAt(Rest(packets), at, end) =>
                 EndAt(Rest(Tail(packets)), at + p.len, end)
            /\ "data" \notin lost /\ kind.transport = "tcp" /\ Tail(packets) # <<>> =>
                 at + p.len < end
<1> DEFINE p == Head(packets).says.piece
           t == Tail(packets)
           n == PiecesIn(packets)
<1>1. /\ Len(packets) \in Nat /\ Len(packets) > 0 /\ t \in Said /\ Len(t) = Len(packets) - 1
      /\ Head(packets) = packets[1] /\ \A k \in 1..Len(t) : t[k] = packets[k + 1]
  BY EmptySeq, LenProperties, HeadTailProperties DEF Said
<1> HIDE DEF t
<1>2. Len(t) > 0 => t[Len(t)] = packets[Len(packets)]
  <2>1. Len(t) > 0 => Len(t) \in 1..Len(t) /\ Len(t) + 1 = Len(packets)
    BY <1>1
  <2>2. QED BY <1>1, <2>1
<1>3. /\ n \in Nat /\ n <= Len(packets)
      /\ n = IF packets[Len(packets)].says.cmd # "data" THEN Len(packets) - 1 ELSE Len(packets)
      /\ Len(Rest(packets)) = n
      /\ \A k \in 1..n : Rest(packets)[k] = packets[k].says.piece
  BY <1>1, RestIs
<1>4. n > 0
  <2> HIDE DEF n
  <2>1. Len(packets) = 1 => n = 1
    BY <1>1, <1>3
  <2>2. QED BY <1>1, <1>3, <2>1
<1>5. /\ PiecesIn(t) = n - 1 /\ Len(Rest(t)) = n - 1
      /\ \A k \in 1..(n - 1) : Rest(t)[k] = t[k].says.piece
  <2>1. /\ Len(Rest(t)) = PiecesIn(t)
        /\ PiecesIn(t) = IF Len(t) > 0 /\ t[Len(t)].says.cmd # "data" THEN Len(t) - 1 ELSE Len(t)
        /\ \A k \in 1..PiecesIn(t) : Rest(t)[k] = t[k].says.piece
    BY <1>1, RestIs
  <2> HIDE DEF n
  <2>2. PiecesIn(t) = n - 1
    BY <1>1, <1>2, <1>3, <1>4, <2>1
  <2>3. QED BY <2>1, <2>2
<1>6. kind.transport = "tcp" => n = Len(packets)
  BY DEF StreamFrom
<1>7. \A k \in 1..n : Rest(packets)[k] \in Pieces
                      /\ Rest(packets)[k].from \in Nat /\ Rest(packets)[k].len \in Nat
  BY RestTyped
<1> HIDE DEF n
<1>8. ASSUME NEW k \in 1..(n - 1)
      PROVE  k \in 1..n /\ k + 1 \in 1..n /\ k \in 1..Len(t) /\ Rest(t)[k] = Rest(packets)[k + 1]
  <2>1. k \in 1..n /\ k + 1 \in 1..n /\ k \in 1..Len(t)
    BY <1>1, <1>3, <1>4
  <2>2. QED BY <1>1, <1>3, <1>5, <2>1
<1>9. ASSUME NEW k \in 1..n
      PROVE  /\ Rest(packets)[k].table = buffer.table /\ Rest(packets)[k].of = buffer.of
             /\ Rest(packets)[k].len > 0 /\ Rest(packets)[k].from + Rest(packets)[k].len <= end
             /\ Rest(packets)[k].from >= EndBefore(Rest(packets), k, at)
             /\ "data" \notin lost => Rest(packets)[k].from = EndBefore(Rest(packets), k, at)
  BY <1>3 DEF StreamFrom, InOrder
<1>10. /\ p = Rest(packets)[1] /\ p \in Pieces /\ p.from \in Nat /\ p.len \in Nat
       /\ p.table = buffer.table /\ p.of = buffer.of /\ p.len > 0 /\ p.from + p.len <= end
       /\ p.from >= at /\ ("data" \notin lost => p.from = at)
  <2>1. 1 \in 1..n
    BY <1>3, <1>4
  <2>2. p = Rest(packets)[1]
    BY <1>1, <1>3, <2>1
  <2>3. EndBefore(Rest(packets), 1, at) = at
    BY DEF EndBefore
  <2>4. /\ Rest(packets)[1].table = buffer.table /\ Rest(packets)[1].of = buffer.of
        /\ Rest(packets)[1].len > 0 /\ Rest(packets)[1].from + Rest(packets)[1].len <= end
        /\ Rest(packets)[1].from >= at /\ ("data" \notin lost => Rest(packets)[1].from = at)
    BY <1>9, <2>1, <2>3
  <2>5. Rest(packets)[1] \in Pieces /\ Rest(packets)[1].from \in Nat
        /\ Rest(packets)[1].len \in Nat
    BY <1>7, <2>1
  <2> HIDE DEF p
  <2>6. QED BY <2>2, <2>4, <2>5
<1> HIDE DEF p
<1>11. ASSUME NEW k \in 1..(n - 1)
       PROVE  EndBefore(Rest(packets), k + 1, at)
                = IF k = 1 THEN p.from + p.len ELSE EndBefore(Rest(t), k, at + p.len)
  <2>1. k + 1 # 1 /\ (k + 1) - 1 = k
    BY <1>3
  <2>2. EndBefore(Rest(packets), k + 1, at) = Rest(packets)[k].from + Rest(packets)[k].len
    BY <2>1 DEF EndBefore
  <2>3. CASE k = 1
    BY <1>10, <2>2, <2>3
  <2>4. CASE k # 1
    <3>1. k - 1 \in 1..(n - 1) /\ (k - 1) + 1 = k
      BY <1>3, <2>4
    <3>2. Rest(t)[k - 1] = Rest(packets)[k]
      BY <1>8, <3>1
    <3>3. EndBefore(Rest(t), k, at + p.len) = Rest(t)[k - 1].from + Rest(t)[k - 1].len
      BY <2>4 DEF EndBefore
    <3>4. QED BY <2>2, <2>4, <3>2, <3>3
  <2>5. QED BY <2>3, <2>4
<1>12. InOrder(Rest(t), at + p.len, end, lost)
  <2> SUFFICES ASSUME NEW k \in 1..(n - 1)
               PROVE  /\ Rest(t)[k].table = buffer.table /\ Rest(t)[k].of = buffer.of
                      /\ Rest(t)[k].len > 0 /\ Rest(t)[k].from + Rest(t)[k].len <= end
                      /\ Rest(t)[k].from >= EndBefore(Rest(t), k, at + p.len)
                      /\ "data" \notin lost =>
                           Rest(t)[k].from = EndBefore(Rest(t), k, at + p.len)
    BY <1>5 DEF InOrder
  <2>1. /\ Rest(t)[k].table = buffer.table /\ Rest(t)[k].of = buffer.of
        /\ Rest(t)[k].len > 0 /\ Rest(t)[k].from + Rest(t)[k].len <= end
        /\ Rest(t)[k].from >= EndBefore(Rest(packets), k + 1, at)
        /\ "data" \notin lost => Rest(t)[k].from = EndBefore(Rest(packets), k + 1, at)
    BY <1>8, <1>9
  <2>2. Rest(t)[k].from \in Nat
    BY <1>7, <1>8
  <2>3. CASE k = 1
    <3>1. EndBefore(Rest(t), k, at + p.len) = at + p.len
      BY <2>3 DEF EndBefore
    <3>2. EndBefore(Rest(packets), k + 1, at) = p.from + p.len
      BY <1>11, <2>3
    <3>3. QED BY <1>10, <2>1, <2>2, <3>1, <3>2
  <2>4. CASE k # 1
    BY <1>11, <2>1, <2>4
  <2>5. QED BY <2>3, <2>4
<1>13. StreamFrom(t, at + p.len, end, lost)
  <2>1. \A k \in 1..PiecesIn(t) : t[k].says.cmd = "data"
    BY <1>1, <1>5, <1>8 DEF StreamFrom, n
  <2>2. kind.transport = "tcp" => PiecesIn(t) = Len(t)
    BY <1>1, <1>5, <1>6
  <2>3. QED BY <1>12, <2>1, <2>2 DEF StreamFrom
<1>14. n > 1 => /\ Rest(t)[1] = Rest(packets)[2] /\ Rest(t)[1].from >= p.from + p.len
                /\ Rest(t)[1].from \in Nat /\ Rest(t)[1].len \in Nat
                /\ Rest(t)[1].len > 0 /\ Rest(t)[1].from + Rest(t)[1].len <= end
  <2> SUFFICES ASSUME n > 1
               PROVE  /\ Rest(t)[1] = Rest(packets)[2] /\ Rest(t)[1].from >= p.from + p.len
                      /\ Rest(t)[1].from \in Nat /\ Rest(t)[1].len \in Nat
                      /\ Rest(t)[1].len > 0 /\ Rest(t)[1].from + Rest(t)[1].len <= end
    OBVIOUS
  <2>1. 1 \in 1..(n - 1) /\ 1 + 1 = 2
    BY <1>3
  <2>2. Rest(t)[1] = Rest(packets)[2] /\ 2 \in 1..n
    BY <1>8, <2>1
  <2>3. EndBefore(Rest(packets), 2, at) = p.from + p.len
    BY <1>11, <2>1
  <2>4. QED BY <1>7, <1>9, <2>2, <2>3
<1>15. ASSUME "data" \notin lost, EndAt(Rest(packets), at, end)
       PROVE  EndAt(Rest(t), at + p.len, end)
  <2>0. n \in Nat /\ n > 0 /\ p.from = at
    BY <1>3, <1>4, <1>10, <1>15
  <2>1. CASE n = 1
    <3>1. Len(Rest(packets)) = 1 /\ Len(Rest(t)) = 0 /\ Rest(packets)[1] = p
      BY <1>3, <1>5, <1>10, <2>1
    <3>2. p.from + p.len = end
      BY <1>15, <3>1 DEF EndAt
    <3>3. QED BY <2>0, <3>1, <3>2 DEF EndAt
  <2>2. CASE n # 1
    <3>1. n - 1 \in 1..(n - 1) /\ (n - 1) + 1 = n /\ n # 0 /\ n - 1 # 0
      BY <2>0, <2>2
    <3>2. Rest(t)[n - 1] = Rest(packets)[n]
      BY <1>8, <3>1
    <3>3. Len(Rest(packets)) = n /\ Len(Rest(t)) = n - 1
      BY <1>3, <1>5
    <3>4. QED BY <1>15, <3>1, <3>2, <3>3 DEF EndAt
  <2>3. QED BY <2>1, <2>2
<1>16. ASSUME "data" \notin lost, kind.transport = "tcp", t # <<>>
       PROVE  at + p.len < end
  <2>1. Len(t) \in Nat /\ Len(t) # 0
    BY <1>1, <1>16, EmptySeq, LenProperties DEF Said
  <2>2. n > 1
    BY <1>1, <1>6, <1>16, <2>1
  <2>3. p.from = at
    BY <1>10, <1>16
  <2>4. QED BY <1>10, <1>14, <2>2, <2>3
<1>17. PiecesIn(t) > 0 => Rest(t)[1].from >= p.from + p.len
  BY <1>3, <1>5, <1>14
<1>18. QED BY <1>4, <1>10, <1>13, <1>15, <1>16, <1>17 DEF n, p, t

\* One packet of a stream is lost: what is left of it is in order, and whole
\* unless the packet was data.
LEMMA StreamLoses ==
  ASSUME NEW packets \in Said, NEW i \in 1..Len(packets), NEW at \in Nat, NEW end \in Nat,
         NEW lost, StreamFrom(packets, at, end, lost), kind.transport # "tcp",
         NEW more, more = lost \cup {packets[i].says.cmd},
         NEW left, left = Seqs!RemoveAt(packets, i)
  PROVE  /\ left \in Said /\ Len(left) = Len(packets) - 1
         /\ StreamFrom(left, at, end, more)
         /\ "data" \notin more => Rest(left) = Rest(packets)
         /\ PiecesIn(left) > 0 => /\ PiecesIn(packets) > 0
                                  /\ Rest(left)[1].from >= Rest(packets)[1].from
<1> DEFINE n == PiecesIn(packets)
           m == PiecesIn(left)
           L == Len(packets)
<1>1. /\ left \in Said /\ Len(left) = L - 1
      /\ \A j \in 1..(L - 1) : left[j] = IF j < i THEN packets[j] ELSE packets[j + 1]
  <2>1. i \in DOMAIN packets
    BY LenProperties DEF Said
  <2>2. QED BY <2>1, Removed DEF Said
<1>2. /\ L \in Nat /\ n \in Nat /\ n <= L /\ L > 0 /\ i \in Nat /\ i >= 1 /\ i <= L
      /\ n = IF packets[L].says.cmd # "data" THEN L - 1 ELSE L
      /\ Len(Rest(packets)) = n
      /\ \A k \in 1..n : Rest(packets)[k] = packets[k].says.piece
      /\ \A k \in 1..n : packets[k].says.cmd = "data"
  BY RestIs DEF StreamFrom
<1>3. /\ m = IF L - 1 > 0 /\ left[L - 1].says.cmd # "data" THEN L - 2 ELSE L - 1
      /\ Len(Rest(left)) = m /\ m \in Nat
      /\ \A k \in 1..m : Rest(left)[k] = left[k].says.piece
  <2>1. /\ m = IF Len(left) > 0 /\ left[Len(left)].says.cmd # "data"
               THEN Len(left) - 1 ELSE Len(left)
        /\ Len(Rest(left)) = m /\ m \in Nat
        /\ \A k \in 1..m : Rest(left)[k] = left[k].says.piece
    BY <1>1, RestIs
  <2>2. (L - 1) - 1 = L - 2
    BY <1>2
  <2> HIDE DEF m, L
  <2>3. QED BY <1>1, <2>1, <2>2
<1>4. \A k \in 1..n : Rest(packets)[k] \in Pieces
                      /\ Rest(packets)[k].from \in Nat /\ Rest(packets)[k].len \in Nat
  BY RestTyped
<1>5. ASSUME NEW k \in 1..n
      PROVE  /\ Rest(packets)[k].table = buffer.table /\ Rest(packets)[k].of = buffer.of
             /\ Rest(packets)[k].len > 0 /\ Rest(packets)[k].from + Rest(packets)[k].len <= end
             /\ Rest(packets)[k].from >= EndBefore(Rest(packets), k, at)
  BY <1>2 DEF StreamFrom, InOrder
<1>6. kind.style \in {"stream", "bare"}
  BY DEF StreamFrom
<1> HIDE DEF n, m, L
<1>7. CASE i <= n
  <2>1. "data" \in more
    <3>1. packets[i].says.cmd = "data"
      BY <1>2, <1>7
    <3>2. QED BY <3>1
  <2>2. m = n - 1
    <3>1. CASE n = L
      <4>1. L - 1 > 0 => left[L - 1].says.cmd = "data"
        <5> SUFFICES ASSUME L - 1 > 0 PROVE left[L - 1].says.cmd = "data"
          OBVIOUS
        <5>1. L - 1 \in 1..(L - 1) /\ L - 1 \in 1..n /\ (L - 1) + 1 \in 1..n
          BY <1>2, <3>1
        <5>2. left[L - 1] = packets[L - 1] \/ left[L - 1] = packets[(L - 1) + 1]
          BY <1>1, <5>1
        <5>3. QED BY <1>2, <5>1, <5>2
      <4>2. QED BY <1>2, <1>3, <3>1, <4>1
    <3>2. CASE n # L
      <4>1. n = L - 1 /\ packets[L].says.cmd # "data"
        BY <1>2, <3>2
      <4>2. L - 1 \in 1..(L - 1) /\ ~(L - 1 < i) /\ (L - 1) + 1 = L
        BY <1>2, <1>7, <4>1
      <4>3. left[L - 1] = packets[L]
        BY <1>1, <4>2
      <4>4. QED BY <1>2, <1>3, <4>1, <4>2, <4>3
    <3>3. QED BY <3>1, <3>2
  <2>3. ASSUME NEW j \in 1..(n - 1)
        PROVE  /\ left[j] = packets[IF j < i THEN j ELSE j + 1]
               /\ Rest(left)[j] = Rest(packets)[IF j < i THEN j ELSE j + 1]
               /\ (IF j < i THEN j ELSE j + 1) \in 1..n
    <3>1. j \in 1..(L - 1) /\ j \in 1..m /\ j \in 1..n /\ j + 1 \in 1..n
      BY <1>2, <2>2
    <3>2. left[j] = packets[IF j < i THEN j ELSE j + 1]
      BY <1>1, <3>1
    <3>3. Rest(left)[j] = left[j].says.piece
      BY <1>3, <3>1
    <3>4. QED BY <1>2, <3>1, <3>2, <3>3
  <2>4. \A j \in 1..m : left[j].says.cmd = "data"
    BY <1>2, <2>2, <2>3
  <2>5. ASSUME NEW j \in 1..(n - 1)
        PROVE  Rest(left)[j].from >= EndBefore(Rest(left), j, at)
    <3>1. CASE j < i
      <4>1. Rest(left)[j] = Rest(packets)[j] /\ j \in 1..n
        BY <2>3, <3>1
      <4>2. EndBefore(Rest(left), j, at) = EndBefore(Rest(packets), j, at)
        <5>1. CASE j = 1
          BY <5>1 DEF EndBefore
        <5>2. CASE j # 1
          <6>1. j - 1 \in 1..(n - 1) /\ j - 1 < i
            BY <1>2, <3>1, <5>2
          <6>2. Rest(left)[j - 1] = Rest(packets)[j - 1]
            BY <2>3, <6>1
          <6>3. QED BY <5>2, <6>2 DEF EndBefore
        <5>3. QED BY <5>1, <5>2
      <4>3. QED BY <1>5, <4>1, <4>2
    <3>2. CASE ~(j < i)
      <4> DEFINE a == Rest(packets)[j]
                 b == Rest(packets)[j + 1]
      <4>1. Rest(left)[j] = b /\ j + 1 \in 1..n /\ j \in 1..n
        BY <1>2, <2>3, <3>2
      <4>2. b.from >= a.from + a.len
        <5>1. j + 1 # 1 /\ (j + 1) - 1 = j
          BY <1>2
        <5>2. EndBefore(Rest(packets), j + 1, at) = a.from + a.len
          BY <5>1 DEF EndBefore
        <5>3. QED BY <1>5, <4>1, <5>2
      <4>3. /\ a.from \in Nat /\ a.len \in Nat /\ b.from \in Nat
            /\ a.from >= EndBefore(Rest(packets), j, at)
        BY <1>4, <1>5, <4>1
      <4> HIDE DEF a, b
      <4>4. CASE j = 1
        <5>1. EndBefore(Rest(left), j, at) = at /\ EndBefore(Rest(packets), j, at) = at
          BY <4>4 DEF EndBefore
        <5>2. QED BY <4>1, <4>2, <4>3, <5>1
      <4>5. CASE j # 1 /\ j = i
        <5>1. j - 1 \in 1..(n - 1) /\ j - 1 < i
          BY <1>2, <4>5
        <5>2. Rest(left)[j - 1] = Rest(packets)[j - 1]
          BY <2>3, <5>1
        <5>3. EndBefore(Rest(left), j, at) = EndBefore(Rest(packets), j, at)
          BY <4>5, <5>2 DEF EndBefore
        <5>4. EndBefore(Rest(packets), j, at) \in Nat
          <6>1. j - 1 \in 1..n
            BY <1>2, <5>1
          <6>2. /\ Rest(packets)[j - 1].from \in Nat /\ Rest(packets)[j - 1].len \in Nat
            BY <1>4, <6>1
          <6>3. QED BY <4>5, <6>2 DEF EndBefore
        <5>5. QED BY <4>1, <4>2, <4>3, <5>3, <5>4
      <4>6. CASE j # 1 /\ j # i
        <5>1. j - 1 \in 1..(n - 1) /\ ~(j - 1 < i) /\ (j - 1) + 1 = j
          BY <1>2, <3>2, <4>6
        <5>2. Rest(left)[j - 1] = a
          BY <2>3, <5>1 DEF a
        <5>3. EndBefore(Rest(left), j, at) = a.from + a.len
          BY <4>6, <5>2 DEF EndBefore
        <5>4. QED BY <4>1, <4>2, <5>3
      <4>7. QED BY <4>4, <4>5, <4>6
    <3>3. QED BY <3>1, <3>2
  <2>6. InOrder(Rest(left), at, end, more)
    <3> SUFFICES ASSUME NEW j \in 1..(n - 1)
                 PROVE  /\ Rest(left)[j].table = buffer.table /\ Rest(left)[j].of = buffer.of
                        /\ Rest(left)[j].len > 0
                        /\ Rest(left)[j].from + Rest(left)[j].len <= end
                        /\ Rest(left)[j].from >= EndBefore(Rest(left), j, at)
      BY <1>3, <2>1, <2>2 DEF InOrder
    <3>1. PICK k \in 1..n : Rest(left)[j] = Rest(packets)[k]
      BY <2>3
    <3>2. QED BY <1>5, <2>5, <3>1
  <2>7. ASSUME m > 0
        PROVE  n > 0 /\ Rest(left)[1].from >= Rest(packets)[1].from
    <3>1. 1 \in 1..(n - 1) /\ 1 \in 1..n /\ n > 0
      BY <1>2, <2>2, <2>7
    <3>2. Rest(packets)[1].from \in Nat /\ Rest(packets)[1].len \in Nat
      BY <1>4, <3>1
    <3>3. CASE 1 < i
      BY <2>3, <3>1, <3>2, <3>3
    <3>4. CASE ~(1 < i)
      <4>1. Rest(left)[1] = Rest(packets)[2] /\ 2 \in 1..n
        <5>1. Rest(left)[1] = Rest(packets)[1 + 1] /\ 1 + 1 \in 1..n /\ 1 + 1 = 2
          BY <2>3, <3>1, <3>4
        <5>2. QED BY <5>1
      <4>2. EndBefore(Rest(packets), 2, at) = Rest(packets)[1].from + Rest(packets)[1].len
        BY DEF EndBefore
      <4>3. Rest(packets)[2].from \in Nat
        BY <1>4, <4>1
      <4>4. Rest(packets)[2].from >= Rest(packets)[1].from + Rest(packets)[1].len
        BY <1>5, <4>1, <4>2
      <4>5. QED BY <3>1, <3>2, <4>1, <4>3, <4>4
    <3>5. QED BY <3>3, <3>4
  <2>8. StreamFrom(left, at, end, more)
    BY <1>6, <2>4, <2>6 DEF StreamFrom, m
  <2>9. QED BY <1>1, <2>1, <2>7, <2>8 DEF n, m, L
<1>8. CASE ~(i <= n)
  <2>1. i = L /\ n = L - 1
    BY <1>2, <1>8
  <2>2. ASSUME NEW j \in 1..n PROVE left[j] = packets[j]
    <3>1. j \in 1..(L - 1) /\ j < i
      BY <1>2, <2>1
    <3>2. QED BY <1>1, <3>1
  <2>3. m = n
    <3>1. CASE n = 0
      BY <1>2, <1>3, <2>1, <3>1
    <3>2. CASE n # 0
      <4>1. L - 1 \in 1..n
        BY <1>2, <2>1, <3>2
      <4>2. left[L - 1].says.cmd = "data"
        BY <1>2, <2>2, <4>1
      <4>3. QED BY <1>3, <2>1, <4>2
    <3>3. QED BY <3>1, <3>2
  <2>4. Rest(left) = Rest(packets)
    <3>1. /\ Rest(left) = [k \in 1..n |-> left[k].says.piece]
          /\ Rest(packets) = [k \in 1..n |-> packets[k].says.piece]
      BY <2>3 DEF Rest, m, n
    <3>2. \A k \in 1..n : left[k].says.piece = packets[k].says.piece
      BY <2>2
    <3>3. QED BY <3>1, <3>2
  <2>5. \A j \in 1..m : left[j].says.cmd = "data"
    BY <1>2, <2>2, <2>3
  <2>6. InOrder(Rest(left), at, end, more)
    <3>1. InOrder(Rest(left), at, end, lost)
      BY <2>4 DEF StreamFrom
    <3>2. "data" \notin more => "data" \notin lost
      OBVIOUS
    <3>3. QED BY <3>1, <3>2 DEF InOrder
  <2>7. m > 0 => Rest(left)[1].from >= Rest(packets)[1].from
    <3> SUFFICES ASSUME m > 0 PROVE Rest(left)[1].from >= Rest(packets)[1].from
      OBVIOUS
    <3>1. 1 \in 1..n
      BY <1>2, <2>3
    <3>2. Rest(packets)[1].from \in Nat
      BY <1>4, <3>1
    <3>3. QED BY <2>4, <3>2
  <2>8. StreamFrom(left, at, end, more)
    BY <1>6, <2>5, <2>6 DEF StreamFrom, m
  <2>9. QED BY <1>1, <2>3, <2>4, <2>7, <2>8 DEF n, m, L
<1>9. QED BY <1>7, <1>8

Prepare == [cmd |-> "prepare_data"]

\* A terminal that streams sends the whole chunk, its pieces in order.
LEMMA StreamSent ==
  ASSUME KindOK, BufferOK, NEW c, c.from \in Nat, c.len \in Nat, NEW said \in Said,
         kind.style \in {"stream", "bare"}, kind.style = "stream" => kind.transport # "tcp",
         NEW lost,
         Len(said) = Len(Chunk(c)), \A k \in 1..Len(said) : said[k].says = Chunk(c)[k]
  PROVE  /\ said # <<>> /\ Head(said).says = Prepare
         /\ StreamFrom(Tail(said), c.from, c.from + c.len, lost)
         /\ c.from + c.len <= TableBytes(buffer.table, buffer.of) =>
              EndAt(Rest(Tail(said)), c.from, c.from + c.len)
<1> DEFINE p == PiecesOf(c.from, c.len, Piece)
           n == Len(p)
           d == Data(p)
           s == <<Prepare>> \o d
           t == Tail(said)
           more == IF kind.style = "stream" THEN 1 ELSE 0
<1>1. /\ p \in Seq(Pieces) /\ Consecutive(p, c.from, c.from + c.len)
      /\ c.from + c.len <= TableBytes(buffer.table, buffer.of) =>
           EndAt(p, c.from, c.from + c.len)
  <2>1. Piece \in Nat /\ (Piece > 0 \/ c.len = 0)
    BY ZkAssumption
  <2>2. QED BY <2>1, PiecesCover
<1>2. n \in Nat
  BY <1>1, LenProperties
<1>3. d \in Seq(Packets) /\ Len(d) = n
      /\ \A k \in 1..n : d[k] = [cmd |-> "data", piece |-> p[k]]
  BY <1>1, DataTyped
<1>4. Chunk(c) = IF kind.style = "stream" THEN s \o <<Ack>> ELSE s
  BY DEF Chunk, Prepare
<1> HIDE DEF d, p, n, t
<1>5. Prepare \in Packets /\ Ack \in Packets
  BY DEF Prepare, Ack, Packets
<1>6. /\ s \in Seq(Packets) /\ Len(s) = n + 1 /\ s[1] = Prepare
      /\ \A k \in 1..n : s[k + 1] = d[k]
  <2>1. /\ <<Prepare>> \in Seq(Packets) /\ Len(<<Prepare>>) = 1 /\ <<Prepare>>[1] = Prepare
    BY <1>5
  <2>2. /\ s \in Seq(Packets) /\ Len(s) = 1 + n
        /\ \A k \in 1..Len(s) : s[k] = IF k <= 1 THEN <<Prepare>>[k] ELSE d[k - 1]
    BY <1>3, <2>1, ConcatProperties
  <2>3. s[1] = Prepare
    BY <1>2, <2>1, <2>2
  <2>4. ASSUME NEW k \in 1..n PROVE s[k + 1] = d[k]
    <3>1. k + 1 \in 1..Len(s) /\ ~(k + 1 <= 1) /\ (k + 1) - 1 = k
      BY <1>2, <2>2
    <3>2. QED BY <2>2, <3>1
  <2>5. QED BY <1>2, <2>2, <2>3, <2>4
<1> HIDE DEF s
<1>7. /\ Len(said) = n + 1 + more
      /\ said[1].says = Prepare
      /\ \A k \in 1..n : said[k + 1].says = d[k]
      /\ kind.style = "stream" => said[n + 2].says = Ack
  <2>1. CASE kind.style = "stream"
    <3>1. /\ Len(s \o <<Ack>>) = n + 2
          /\ \A k \in 1..(n + 2) : (s \o <<Ack>>)[k] = IF k <= n + 1 THEN s[k] ELSE Ack
      <4>1. <<Ack>> \in Seq(Packets) /\ Len(<<Ack>>) = 1 /\ <<Ack>>[1] = Ack
        BY <1>5
      <4>2. /\ Len(s \o <<Ack>>) = (n + 1) + 1
            /\ \A k \in 1..((n + 1) + 1) :
                 (s \o <<Ack>>)[k] = IF k <= n + 1 THEN s[k] ELSE <<Ack>>[k - (n + 1)]
        BY <1>2, <1>6, <4>1, ConcatProperties
      <4>3. ASSUME NEW k \in 1..(n + 2), ~(k <= n + 1)
            PROVE  k - (n + 1) = 1
        BY <1>2, <4>3
      <4>4. (n + 1) + 1 = n + 2
        BY <1>2
      <4>5. QED BY <4>1, <4>2, <4>3, <4>4
    <3>2. Len(said) = n + 2 /\ \A k \in 1..(n + 2) : said[k].says = (s \o <<Ack>>)[k]
      BY <1>4, <2>1, <3>1
    <3>3. 1 \in 1..(n + 2) /\ n + 2 \in 1..(n + 2) /\ ~(n + 2 <= n + 1) /\ 1 <= n + 1
      BY <1>2
    <3>4. ASSUME NEW k \in 1..n PROVE said[k + 1].says = d[k]
      <4>1. k + 1 \in 1..(n + 2) /\ k + 1 <= n + 1
        BY <1>2
      <4>2. QED BY <1>6, <3>1, <3>2, <4>1
    <3>5. QED BY <1>2, <1>6, <2>1, <3>1, <3>2, <3>3, <3>4
  <2>2. CASE kind.style # "stream"
    <3>1. Len(said) = n + 1 /\ \A k \in 1..(n + 1) : said[k].says = s[k]
      BY <1>4, <1>6, <2>2
    <3>2. 1 \in 1..(n + 1) /\ \A k \in 1..n : k + 1 \in 1..(n + 1)
      BY <1>2
    <3>3. QED BY <1>2, <1>6, <2>2, <3>1, <3>2
  <2>3. QED BY <2>1, <2>2
<1>8. more \in {0, 1} /\ (more = 1 <=> kind.style = "stream")
  OBVIOUS
<1> HIDE DEF more
<1>9. /\ said # <<>> /\ Head(said) = said[1] /\ t \in Said /\ Len(t) = n + more
      /\ \A k \in 1..(n + more) : t[k] = said[k + 1]
  <2>1. said # <<>>
    BY <1>2, <1>7, <1>8, EmptySeq
  <2>2. /\ Head(said) = said[1] /\ t \in Said /\ Len(t) = Len(said) - 1
        /\ \A k \in 1..Len(t) : t[k] = said[k + 1]
    BY <2>1, HeadTailProperties DEF Said, t
  <2>3. Len(t) = n + more
    BY <1>2, <1>7, <1>8, <2>2
  <2>4. QED BY <2>1, <2>2, <2>3
<1>10. kind.style = "stream" => t # <<>> /\ t[Len(t)].says.cmd # "data"
  <2> SUFFICES ASSUME kind.style = "stream" PROVE t # <<>> /\ t[Len(t)].says.cmd # "data"
    OBVIOUS
  <2>1. Len(t) = n + 1 /\ n + 1 \in 1..(n + more) /\ (n + 1) + 1 = n + 2
    BY <1>2, <1>8, <1>9
  <2>2. t[n + 1].says = Ack
    BY <1>7, <1>9, <2>1
  <2>3. t # <<>>
    BY <1>2, <2>1, EmptySeq
  <2>4. QED BY <2>1, <2>2, <2>3 DEF Ack
<1>11. PiecesIn(t) = n /\ Len(Rest(t)) = n /\ \A k \in 1..n : Rest(t)[k] = t[k].says.piece
  <2>1. /\ PiecesIn(t) = IF Len(t) > 0 /\ t[Len(t)].says.cmd # "data"
                          THEN Len(t) - 1 ELSE Len(t)
        /\ Len(Rest(t)) = PiecesIn(t)
        /\ \A k \in 1..PiecesIn(t) : Rest(t)[k] = t[k].says.piece
    BY <1>9, RestIs
  <2>2. CASE kind.style = "stream"
    BY <1>2, <1>8, <1>9, <1>10, <2>1, <2>2
  <2>3. CASE kind.style # "stream"
    <3>1. Len(t) = n
      BY <1>2, <1>8, <1>9, <2>3
    <3>2. n > 0 => t[n].says.cmd = "data"
      <4>1. n > 0 => n \in 1..n /\ n \in 1..(n + more)
        BY <1>2, <1>8
      <4>2. n > 0 => t[n].says = d[n] /\ d[n] = [cmd |-> "data", piece |-> p[n]]
        BY <1>3, <1>7, <1>9, <4>1
      <4>3. QED BY <4>2
    <3>3. QED BY <1>2, <2>1, <3>1, <3>2
  <2>4. QED BY <2>1, <2>2, <2>3
<1>12. ASSUME NEW k \in 1..n
       PROVE  t[k].says.cmd = "data" /\ t[k].says.piece = p[k]
  <2>1. k \in 1..(n + more)
    BY <1>2, <1>8
  <2>2. t[k].says = d[k]
    BY <1>7, <1>9, <2>1
  <2>3. d[k] = [cmd |-> "data", piece |-> p[k]]
    BY <1>3
  <2>4. QED BY <2>2, <2>3
<1>13. \A k \in 1..PiecesIn(t) : t[k].says.cmd = "data"
  BY <1>11, <1>12
<1>14. Rest(t) = p
  <2>1. Rest(t) \in Seq(Pieces)
    BY <1>9, <1>13, RestIs
  <2>2. Len(Rest(t)) = Len(p) /\ \A k \in 1..Len(Rest(t)) : Rest(t)[k] = p[k]
    BY <1>11, <1>12 DEF n
  <2>3. QED BY <1>1, <2>1, <2>2, SeqEqual
<1>15. StreamFrom(t, c.from, c.from + c.len, lost)
  <2>1. InOrder(p, c.from, c.from + c.len, lost)
    BY <1>1, ConsecutiveInOrder
  <2>2. kind.transport = "tcp" => PiecesIn(t) = Len(t)
    BY <1>2, <1>8, <1>9, <1>11
  <2>3. QED BY <1>13, <1>14, <2>1, <2>2 DEF StreamFrom
<1>16. QED BY <1>1, <1>7, <1>9, <1>14, <1>15 DEF t

LEMMA ReplyIs ==
  ASSUME toClient = <<>>, NEW c \in [id : Nat, does : Requests],
         NEW packets \in Seq(Packets), Reply(c, packets)
  PROVE  /\ toClient' \in Said /\ Len(toClient') = Len(packets)
         /\ \A k \in 1..Len(packets) : toClient'[k] = [id |-> c.id, says |-> packets[k]]
<1> DEFINE added == [k \in DOMAIN packets |-> [id |-> c.id, says |-> packets[k]]]
<1>1. DOMAIN packets = 1..Len(packets) /\ Len(packets) \in Nat
  BY LenProperties
<1>2. toClient \in Said
  BY EmptySeq DEF Said
<1>3. toClient' \in Said
  BY <1>2, ReplyTyped
<1>4. ASSUME NEW k \in 1..Len(packets)
      PROVE  [id |-> c.id, says |-> packets[k]] \in [id : Nat, says : Packets]
  <2>1. packets[k] \in Packets
    BY ElementOfSeq
  <2>2. QED BY <2>1
<1>5. /\ added \in Said /\ Len(added) = Len(packets)
      /\ \A k \in 1..Len(packets) : added[k] = [id |-> c.id, says |-> packets[k]]
  BY <1>1, <1>4 DEF Said
<1>6. toClient' = toClient \o added
  BY DEF Reply
<1> HIDE DEF added
<1>7. toClient' = added
  BY <1>5, <1>6, ConcatEmptySeq DEF Said
<1>8. QED BY <1>3, <1>5, <1>7

-----------------------------------------------------------------------------
\* The line to a tidy terminal.

\* The command of the step the client is at.
Asked ==
  CASE pc = "prepare_buffer" -> [cmd |-> pc, table |-> Head(reads)]
    [] pc = "read_buffer" -> [cmd |-> pc, from |-> Head(todo)[1], len |-> Head(todo)[2]]
    [] pc = "send_free" -> [cmd |-> "free_data"]
    [] OTHER -> [cmd |-> pc]

ChunkAt == Head(todo)[1]
ChunkEnd == Head(todo)[1] + Head(todo)[2]

\* One packet answers a command, but a chunk may come as a stream.
Answered ==
  IF pc = "stream" THEN StreamFrom(toClient, ChunkAt + streamed, ChunkEnd, missing)
  ELSE IF pc = "read_buffer" /\ Head(toClient).says.cmd = "prepare_data"
  THEN StreamFrom(Tail(toClient), ChunkAt, ChunkEnd, missing)
  ELSE Len(toClient) = 1

\* Nothing is on its way, or the last command alone, or its answer alone.
Quiet == toDevice = <<>> /\ toClient = <<>>
Asking ==
  /\ pc \notin {"ready", "stream"}
  /\ toDevice = <<[id |-> sent, does |-> Asked]>> /\ toClient = <<>>
Answering ==
  /\ pc # "ready" /\ toDevice = <<>> /\ toClient # <<>>
  /\ \A k \in 1..Len(toClient) : toClient[k].id = sent
  /\ Answered
Line == Quiet \/ Asking \/ Answering

\* A client that hears no more goes on with nothing but the next command.
LEMMA LineAfter ==
  ASSUME Typed, toDevice = <<>>, toClient' = <<>>, Returns \/ Asks
  PROVE  Line'
<1>1. CASE Returns
  BY <1>1 DEF Returns, Return, Line, Quiet
<1>2. CASE Asks
  <2>1. PICK p \in Commands : Ask(p)
    BY <1>2 DEF Asks
  <2>2. pc' = p /\ p \notin {"ready", "stream"}
    BY <2>1 DEF Ask, Commands
  <2>3. Command(p) = Asked'
    BY <2>2 DEF Command, Asked
  <2>4. toDevice' = <<[id |-> sent', does |-> Asked']>>
    BY <2>1, <2>3 DEF Ask
  <2>5. QED BY <2>2, <2>4 DEF Line, Asking
<1>3. QED BY <1>1, <1>2

LEMMA ChunkTyped ==
  ASSUME Typed, todo # <<>>
  PROVE  ChunkAt \in Nat /\ Head(todo)[2] \in Nat /\ ChunkEnd \in Nat
<1>1. Head(todo) \in Nat \X Nat
  BY HeadTailProperties DEF Typed, ClientOK
<1>2. QED BY <1>1 DEF ChunkAt, ChunkEnd

LEMMA StepOfStream ==
  ASSUME NEW r, Step(r)
  PROVE  /\ pc = "stream" => Stream(r)
         /\ pc = "read_buffer" => ReadBuffer(r)
         /\ pc = "prepare_buffer" => PrepareBuffer(r)
         /\ pc = "free_data" => FreeData(r)
BY DEF Step, Connect, Auth, ReadSizes, PrepareBuffer, ReadBuffer, Stream, FreeData,
       ClearAttendance, DeviceInfo, SendData, SaveTemplate, Exit

LEMMA HeadSaid ==
  ASSUME Typed, toClient # <<>>
  PROVE  /\ Head(toClient).says \in Packets /\ Tail(toClient) \in Said
         /\ Len(Tail(toClient)) = Len(toClient) - 1 /\ Len(toClient) \in Nat \ {0}
         /\ Head(toClient) = toClient[1]
         /\ \A k \in 1..Len(Tail(toClient)) : Tail(toClient)[k] = toClient[k + 1]
<1> DEFINE E == [id : Nat, says : Packets]
<1>0. toClient \in Seq(E) /\ Said = Seq(E)
  BY DEF Typed, Said
<1> HIDE DEF E
<1>1. /\ Head(toClient) \in E /\ Tail(toClient) \in Seq(E)
      /\ Len(Tail(toClient)) = Len(toClient) - 1 /\ Head(toClient) = toClient[1]
      /\ \A k \in 1..Len(Tail(toClient)) : Tail(toClient)[k] = toClient[k + 1]
  BY <1>0, HeadTailProperties
<1>2. Len(toClient) \in Nat \ {0}
  BY <1>0, EmptySeq
<1>3. Head(toClient).says \in Packets
  BY <1>1 DEF E
<1>4. QED BY <1>0, <1>1, <1>2, <1>3

\* What is on the line is the rest of a stream when the packets are, and the
\* terminal's table is the same.
LEMMA StreamKept ==
  ASSUME UNCHANGED <<kind, buffer>>, NEW packets, NEW at, NEW end, NEW lost,
         toClient' = packets, (ChunkAt + streamed)' = at, ChunkEnd' = end, missing' = lost
  PROVE  /\ Rest(toClient)' = Rest(packets) /\ PiecesIn(toClient)' = PiecesIn(packets)
         /\ StreamFrom(packets, at, end, lost)
              => StreamFrom(toClient, ChunkAt + streamed, ChunkEnd, missing)'
         /\ EndAt(Rest(packets), at, end) => EndAt(Rest(toClient), ChunkAt + streamed, ChunkEnd)'
<1>1. PiecesIn(toClient)' = PiecesIn(packets)
  BY DEF PiecesIn
<1>2. Rest(toClient)' = Rest(packets)
  BY <1>1 DEF Rest
<1>3. InOrder(Rest(packets), at, end, lost)
        => InOrder(Rest(toClient), ChunkAt + streamed, ChunkEnd, missing)'
  BY <1>2 DEF InOrder, EndBefore
<1>4. EndAt(Rest(packets), at, end) => EndAt(Rest(toClient), ChunkAt + streamed, ChunkEnd)'
  BY <1>2 DEF EndAt
<1>5. QED BY <1>1, <1>2, <1>3, <1>4 DEF StreamFrom

LEMMA StreamBegun ==
  ASSUME UNCHANGED <<kind, buffer>>, NEW packets, NEW at, NEW end, NEW lost,
         Tail(toClient)' = packets, ChunkAt' = at, ChunkEnd' = end, missing' = lost
  PROVE  /\ Rest(Tail(toClient))' = Rest(packets)
         /\ PiecesIn(Tail(toClient))' = PiecesIn(packets)
         /\ StreamFrom(packets, at, end, lost)
              => StreamFrom(Tail(toClient), ChunkAt, ChunkEnd, missing)'
         /\ EndAt(Rest(packets), at, end) => EndAt(Rest(Tail(toClient)), ChunkAt, ChunkEnd)'
<1>1. PiecesIn(Tail(toClient))' = PiecesIn(packets)
  BY DEF PiecesIn
<1>2. Rest(Tail(toClient))' = Rest(packets)
  BY <1>1 DEF Rest
<1>3. InOrder(Rest(packets), at, end, lost)
        => InOrder(Rest(Tail(toClient)), ChunkAt, ChunkEnd, missing)'
  BY <1>2 DEF InOrder, EndBefore
<1>4. EndAt(Rest(packets), at, end) => EndAt(Rest(Tail(toClient)), ChunkAt, ChunkEnd)'
  BY <1>2 DEF EndAt
<1>5. QED BY <1>1, <1>2, <1>3, <1>4 DEF StreamFrom

\* Until a stream ends, the client stays in it, and it ends with its last
\* packet.
LEMMA StreamReceived ==
  ASSUME Typed, Tidy, Answering, pc = "stream", Step(Head(toClient).says)
  PROVE  IF pc' = "stream"
         THEN /\ Head(toClient).says.cmd = "data"
              /\ UNCHANGED <<todo, toDevice, sent>>
              /\ streamed' = streamed + Head(toClient).says.piece.len
         ELSE Tail(toClient) = <<>>
<1> DEFINE r == Head(toClient).says
           at == ChunkAt + streamed
<1>1. /\ Stream(r) /\ toClient \in Said /\ toClient # <<>> /\ todo # <<>>
      /\ StreamFrom(toClient, at, ChunkEnd, missing) /\ script # <<>> /\ reads # <<>>
  BY StepOfStream DEF Typed, Answering, Answered, Busy, Reading
<1>2. /\ r \in Packets /\ Tail(toClient) \in Said /\ Len(Tail(toClient)) = Len(toClient) - 1
      /\ Len(toClient) \in Nat \ {0} /\ Head(toClient) = toClient[1]
  BY <1>1, HeadSaid
<1>3. r # Silence
  BY <1>2 DEF Packets, Silence
<1>4. ChunkAt \in Nat /\ streamed \in Nat /\ at \in Nat /\ ChunkEnd \in Nat
      /\ Head(todo)[2] \in Nat /\ ChunkEnd = ChunkAt + Head(todo)[2]
  BY <1>1, ChunkTyped DEF Typed, ClientOK, ChunkAt, ChunkEnd
<1>5. ASSUME r.cmd = "data"
      PROVE  /\ r.piece.len \in Nat
             /\ kind.transport = "tcp" /\ Tail(toClient) # <<>> => at + r.piece.len < ChunkEnd
             /\ streamed' = streamed + r.piece.len
  <2> HIDE DEF at
  <2>1. /\ r.piece.len \in Nat
        /\ kind.transport = "tcp" /\ Tail(toClient) # <<>> => at + r.piece.len < ChunkEnd
    <3>1. kind.transport = "tcp" => "data" \notin missing
      BY <1>1 DEF StreamFrom, Typed, Carried
    <3>2. QED BY <1>1, <1>4, <1>5, <3>1, StreamTail
  <2>2. QED BY <1>1, <1>5, <2>1 DEF Stream
<1>6. ASSUME r.cmd # "data"
      PROVE  Tail(toClient) = <<>>
  <2>1. Len(toClient) > 1 => 1 \in 1..PiecesIn(toClient)
    <3>1. PiecesIn(toClient) \in {Len(toClient), Len(toClient) - 1}
      BY <1>1, RestIs
    <3>2. QED BY <1>2, <3>1
  <2>2. Len(toClient) = 1
    BY <1>1, <1>2, <1>6, <2>1 DEF StreamFrom
  <2>3. Len(Tail(toClient)) = 0
    BY <1>2, <2>2
  <2>4. QED BY <1>2, <2>3, EmptySeq DEF Said
<1>8. ASSUME r.cmd = "data", ~StreamGoesOn(r)
      PROVE  Tail(toClient) = <<>>
  <2>1. kind.transport = "tcp" /\ ~(streamed' < Head(todo)[2])
    BY <1>8 DEF StreamGoesOn
  <2>2. Tail(toClient) # <<>> => streamed' < Head(todo)[2]
    <3>1. /\ r.piece.len \in Nat /\ streamed' = streamed + r.piece.len
          /\ Tail(toClient) # <<>> => (ChunkAt + streamed) + r.piece.len < ChunkEnd
      BY <1>5, <1>8, <2>1
    <3>2. (ChunkAt + streamed) + r.piece.len < ChunkAt + Head(todo)[2]
            => streamed + r.piece.len < Head(todo)[2]
      BY <1>4, <3>1
    <3>3. QED BY <1>4, <3>1, <3>2
  <2>3. QED BY <2>1, <2>2
<1>9. CASE pc' = "stream"
  <2>1. ~StreamFails(r) /\ StreamGoesOn(r)
    BY <1>1, <1>9 DEF Stream, Return, NextChunk, Ask
  <2>2. r.cmd = "data" /\ UNCHANGED <<todo, toDevice, sent>>
    BY <1>1, <2>1 DEF Stream, StreamGoesOn
  <2>3. QED BY <1>5, <1>9, <2>2
<1>10. CASE pc' # "stream"
  <2>1. StreamFails(r) \/ ~StreamGoesOn(r)
    BY <1>1, <1>10 DEF Stream
  <2>2. r.cmd = "data" => ~StreamFails(r)
    BY <1>3 DEF StreamFails
  <2>3. QED BY <1>6, <1>8, <1>10, <2>1, <2>2
<1>11. QED BY <1>9, <1>10

\* While the client reads an answer, the line carries nothing but the rest of
\* its stream.
LEMMA ReceiveKeepsLine ==
  ASSUME Typed, Calling, Tidy, Line, Receive
  PROVE  Line'
<1> DEFINE r == Head(toClient).says
<1>1. /\ toClient # <<>> /\ pc # "ready" /\ Step(r) /\ toClient' = Tail(toClient)
      /\ UNCHANGED <<kind, buffer, missing>>
  BY DEF Receive, device
<1>2. Answering
  BY <1>1 DEF Line, Quiet, Asking
<1>3. /\ r \in Packets /\ Tail(toClient) \in Said /\ Len(Tail(toClient)) = Len(toClient) - 1
      /\ Len(toClient) \in Nat \ {0}
      /\ \A k \in 1..Len(Tail(toClient)) : Tail(toClient)[k] = toClient[k + 1]
  BY <1>1, HeadSaid
<1>4. toDevice = <<>>
  BY <1>2 DEF Answering
<1>5. CASE pc' # "stream"
  <2>1. Returns \/ Asks
    BY <1>1, <1>5, StepLeads DEF Streams
  <2>2. Tail(toClient) = <<>>
    <3>1. CASE pc = "stream"
      BY <1>1, <1>2, <1>5, <3>1, StreamReceived
    <3>2. CASE pc # "stream"
      <4>1. ~(pc = "read_buffer" /\ r.cmd = "prepare_data")
        BY <1>1, <1>5, StepOfStream DEF ReadBuffer
      <4>2. Len(toClient) = 1
        BY <1>2, <3>2, <4>1 DEF Answering, Answered
      <4>3. Len(Tail(toClient)) = 0
        BY <1>3, <4>2
      <4>4. QED BY <1>3, <4>3, EmptySeq DEF Said
    <3>3. QED BY <3>1, <3>2
  <2>3. QED BY <1>1, <1>4, <2>1, <2>2, LineAfter
<1>6. CASE pc' = "stream"
  <2>1. pc \in {"read_buffer", "stream"} /\ UNCHANGED <<todo, toDevice, sent>>
    <3>1. ~Returns /\ ~Asks
      BY <1>6 DEF Returns, Return, Asks, Ask, Commands
    <3>2. QED BY <1>1, <3>1, StepLeads DEF Streams
  <2>2. todo # <<>> /\ streamed \in Nat
    BY <2>1 DEF Typed, Busy, ClientOK
  <2>3. ChunkAt \in Nat /\ ChunkEnd \in Nat
    BY <2>2, ChunkTyped
  <2>4. StreamFrom(Tail(toClient), ChunkAt + streamed', ChunkEnd, missing)
    <3>1. CASE pc = "stream"
      <4> DEFINE at == ChunkAt + streamed
      <4>1. r.cmd = "data" /\ streamed' = streamed + r.piece.len
        BY <1>1, <1>2, <1>6, <3>1, StreamReceived
      <4>2. StreamFrom(toClient, at, ChunkEnd, missing) /\ at \in Nat /\ toClient \in Said
        BY <1>2, <2>2, <2>3, <3>1 DEF Answering, Answered, Typed
      <4> HIDE DEF at
      <4>3. r.piece.len \in Nat /\ StreamFrom(Tail(toClient), at + r.piece.len, ChunkEnd, missing)
        BY <1>1, <2>3, <4>1, <4>2, StreamTail
      <4>4. at + r.piece.len = ChunkAt + streamed'
        BY <2>2, <2>3, <4>1, <4>3 DEF at
      <4>5. QED BY <4>3, <4>4
    <3>2. CASE pc = "read_buffer"
      <4>1. r.cmd = "prepare_data" /\ streamed' = 0
        BY <1>1, <1>6, <3>2, StepOfStream DEF ReadBuffer, NextChunk, Ask, Return
      <4>2. StreamFrom(Tail(toClient), ChunkAt, ChunkEnd, missing)
        BY <1>2, <3>2, <4>1 DEF Answering, Answered
      <4>3. ChunkAt + streamed' = ChunkAt
        BY <2>3, <4>1
      <4>4. QED BY <4>2, <4>3
    <3>3. QED BY <2>1, <3>1, <3>2
  <2>5. StreamFrom(toClient, ChunkAt + streamed, ChunkEnd, missing)'
    <3>1. (ChunkAt + streamed)' = ChunkAt + streamed' /\ ChunkEnd' = ChunkEnd
      BY <2>1 DEF ChunkAt, ChunkEnd
    <3>2. QED BY <1>1, <2>4, <3>1, StreamKept
  <2>6. \A k \in 1..Len(toClient') : toClient'[k].id = sent'
    <3>1. SUFFICES ASSUME NEW k \in 1..Len(Tail(toClient))
                   PROVE  Tail(toClient)[k].id = sent
      BY <1>1, <2>1
    <3>2. k + 1 \in 1..Len(toClient)
      BY <1>3
    <3>3. QED BY <1>2, <1>3, <3>2 DEF Answering
  <2>7. QED BY <1>4, <1>6, <2>1, <2>5, <2>6 DEF Line, Quiet, Answering, Answered
<1>7. QED BY <1>5, <1>6

\* The command that is on its way to a tidy terminal is the one the client
\* awaits the answer of.
LEMMA CommandOnLine ==
  ASSUME Typed, Line, toDevice # <<>>
  PROVE  /\ pc \notin {"ready", "stream"} /\ toClient = <<>>
         /\ Head(toDevice) \in [id : Nat, does : Requests]
         /\ Head(toDevice).id = sent /\ Head(toDevice).does = Asked
         /\ Asked \in Requests /\ Tail(toDevice) = <<>>
<1>1. Asking
  BY DEF Line, Quiet, Answering
<1>2. Head(toDevice) = [id |-> sent, does |-> Asked] /\ Tail(toDevice) = <<>>
  <2> DEFINE e == [id |-> sent, does |-> Asked]
  <2>1. toDevice = <<e>>
    BY <1>1 DEF Asking
  <2> HIDE DEF e
  <2>2. Head(toDevice) = e /\ Tail(toDevice) = <<>>
    BY <2>1
  <2>3. QED BY <2>2 DEF e
<1>3. Head(toDevice) \in [id : Nat, does : Requests] /\ Head(toDevice).does \in Requests
  BY HeadCommand DEF Typed
<1>4. QED BY <1>1, <1>2, <1>3 DEF Asking

\* A command other than READ_BUFFER is answered by one packet.
LEMMA OneAnswer ==
  ASSUME NEW c, c.cmd # "read_buffer"
  PROVE  Len(Answers(c)) = 1
BY DEF Answers, Prepared

LEMMA AnswerIs ==
  ASSUME Typed, Line, toDevice # <<>>, NEW packets \in Seq(Packets),
         Reply(Head(toDevice), packets)
  PROVE  /\ toClient' \in Said /\ Len(toClient') = Len(packets)
         /\ \A k \in 1..Len(packets) : toClient'[k].id = sent /\ toClient'[k].says = packets[k]
         /\ toClient' # <<>> => Head(toClient').says = packets[1]
         /\ Len(packets) = 1 => toClient' # <<>>
<1>1. /\ toClient = <<>> /\ Head(toDevice) \in [id : Nat, does : Requests]
      /\ Head(toDevice).id = sent
  BY CommandOnLine
<1>2. /\ toClient' \in Said /\ Len(toClient') = Len(packets)
      /\ \A k \in 1..Len(packets) :
           toClient'[k] = [id |-> Head(toDevice).id, says |-> packets[k]]
  BY <1>1, ReplyIs
<1>3. ASSUME NEW k \in 1..Len(packets)
      PROVE  toClient'[k].id = sent /\ toClient'[k].says = packets[k]
  <2>1. toClient'[k] = [id |-> Head(toDevice).id, says |-> packets[k]]
    BY <1>2
  <2>2. QED BY <1>1, <2>1
<1>4. ASSUME toClient' # <<>> PROVE Head(toClient').says = packets[1]
  <2>1. Head(toClient') = toClient'[1] /\ Len(toClient') \in Nat \ {0}
    BY <1>2, <1>4, EmptySeq, HeadTailProperties DEF Said
  <2>2. 1 \in 1..Len(packets)
    BY <1>2, <2>1
  <2>3. QED BY <1>3, <2>1, <2>2
<1>5. ASSUME Len(packets) = 1 PROVE toClient' # <<>>
  <2>1. Len(<<>>) = 0 /\ 0 # 1
    BY EmptySeq
  <2>2. toClient' = <<>> => Len(toClient') = Len(<<>>)
    BY Zenon
  <2>3. Len(toClient') = 1
    BY <1>2, <1>5
  <2>4. QED BY <2>1, <2>2, <2>3, Zenon
<1>6. QED BY <1>2, <1>3, <1>4, <1>5

\* A tidy terminal answers the command it was sent, and nothing else.
LEMMA AnswerKeepsLine ==
  ASSUME Typed, Tidy, Line, toDevice # <<>>, UNCHANGED <<client, sent, kind>>, toDevice' = <<>>,
         NEW packets \in Seq(Packets), Reply(Head(toDevice), packets),
         \/ Len(packets) = 1 /\ packets[1].cmd # "prepare_data"
         \/ Len(packets) = 1 /\ pc # "read_buffer"
         \/ packets = Chunk(Asked) /\ pc = "read_buffer" /\ UNCHANGED buffer
  PROVE  Line'
<1>1. /\ pc \notin {"ready", "stream"} /\ toClient = <<>>
      /\ Head(toDevice) \in [id : Nat, does : Requests] /\ Head(toDevice).id = sent
  BY CommandOnLine
<1>2. /\ toClient' \in Said /\ Len(toClient') = Len(packets)
      /\ \A k \in 1..Len(packets) : toClient'[k].id = sent /\ toClient'[k].says = packets[k]
  BY AnswerIs
<1>3. UNCHANGED <<pc, todo, streamed>>
  BY DEF client
<1>4. \A k \in 1..Len(toClient') : toClient'[k].id = sent'
  BY <1>2
<1>5. /\ toClient' # <<>> => Head(toClient').says = packets[1]
      /\ Len(packets) = 1 => toClient' # <<>>
  BY AnswerIs
<1>6. CASE Len(packets) = 1 /\ (packets[1].cmd # "prepare_data" \/ pc # "read_buffer")
  <2>1. Len(toClient') = 1
    BY <1>2, <1>6
  <2>2. toClient' # <<>>
    BY <1>5, <1>6
  <2>3. ~(pc' = "read_buffer" /\ Head(toClient').says.cmd = "prepare_data")
    BY <1>3, <1>5, <1>6, <2>2
  <2>4. Answered'
    BY <1>1, <1>3, <2>1, <2>3 DEF Answered
  <2>5. QED BY <1>1, <1>3, <1>4, <2>2, <2>4 DEF Line, Answering
<1>7. CASE packets = Chunk(Asked) /\ pc = "read_buffer" /\ UNCHANGED buffer
  <2>1. Asked.from = ChunkAt /\ Asked.len = Head(todo)[2]
    BY <1>7 DEF Asked, ChunkAt
  <2>2. todo # <<>>
    BY <1>7 DEF Typed, Busy
  <2>3. /\ ChunkAt \in Nat /\ Head(todo)[2] \in Nat /\ ChunkEnd = ChunkAt + Head(todo)[2]
        /\ ChunkAt' = ChunkAt /\ ChunkEnd' = ChunkEnd
    BY <1>3, <2>2, ChunkTyped DEF ChunkAt, ChunkEnd
  <2>4. KindOK /\ BufferOK /\ (kind.style = "stream" => kind.transport # "tcp")
    BY DEF Typed, TerminalOK, Tidy
  <2>5. CASE kind.style \in {"stream", "bare"}
    <3>1. Len(toClient') = Len(Chunk(Asked))
          /\ \A k \in 1..Len(toClient') : toClient'[k].says = Chunk(Asked)[k]
      BY <1>2, <1>7
    <3>2. /\ toClient' # <<>> /\ Head(toClient').says = Prepare
          /\ StreamFrom(Tail(toClient'), Asked.from, Asked.from + Asked.len, missing')
      BY <1>2, <2>1, <2>3, <2>4, <2>5, <3>1, StreamSent
    <3>3. StreamFrom(Tail(toClient'), ChunkAt, ChunkEnd, missing')
      BY <2>1, <2>3, <3>2
    <3>4. StreamFrom(Tail(toClient), ChunkAt, ChunkEnd, missing)'
      BY <1>7, <2>3, <3>3, StreamBegun
    <3>5. Head(toClient').says.cmd = "prepare_data"
      BY <3>2 DEF Prepare
    <3>6. Answered'
      BY <1>3, <1>7, <3>4, <3>5 DEF Answered
    <3>7. QED BY <1>1, <1>3, <1>4, <3>2, <3>6 DEF Line, Answering
  <2>6. CASE kind.style \notin {"stream", "bare"}
    <3>1. Len(packets) \in {0, 1} /\ (Len(packets) = 1 => packets[1].cmd # "prepare_data")
      <4> DEFINE p == PiecesOf(ChunkAt, Head(todo)[2], Head(todo)[2])
      <4>1. packets = Data(p)
        BY <1>7, <2>1, <2>6 DEF Chunk
      <4>2. p \in Seq(Pieces) /\ Len(p) \in {0, 1}
        <5>1. Head(todo)[2] > 0 \/ Head(todo)[2] = 0
          BY <2>3
        <5>2. QED BY <2>3, <2>4, <5>1, PiecesCover, OnePiece
      <4> HIDE DEF p
      <4>3. Len(packets) = Len(p)
            /\ \A k \in 1..Len(p) : packets[k] = [cmd |-> "data", piece |-> p[k]]
        BY <4>1, <4>2, DataTyped
      <4>4. Len(p) = 1 => packets[1].cmd = "data"
        <5>1. Len(p) = 1 => packets[1] = [cmd |-> "data", piece |-> p[1]]
          BY <4>3
        <5>2. QED BY <5>1
      <4>5. QED BY <4>2, <4>3, <4>4
    <3>2. CASE Len(packets) = 0
      <4>1. toClient' = <<>>
        BY <1>2, <3>2, EmptySeq DEF Said
      <4>2. QED BY <4>1 DEF Line, Quiet
    <3>3. CASE Len(packets) = 1
      BY <1>6, <3>1, <3>3
    <3>4. QED BY <3>1, <3>2, <3>3
  <2>7. QED BY <2>5, <2>6
<1>8. QED BY <1>6, <1>7

LEMMA ServeKeepsLine ==
  ASSUME Typed, Tidy, Line, Serve
  PROVE  Line'
<1> DEFINE c == Head(toDevice)
<1>1. /\ toDevice # <<>> /\ Execute(c.does) /\ Reply(c, Answers(c.does))
      /\ toDevice' = Tail(toDevice) /\ UNCHANGED <<client, sent, kind, punched, faults, missing>>
  BY DEF Serve
<1>2. /\ pc \notin {"ready", "stream"} /\ toClient = <<>>
      /\ c.does = Asked /\ Asked \in Requests /\ Tail(toDevice) = <<>>
  BY <1>1, CommandOnLine
<1> HIDE DEF c
<1>3. TerminalOK'
  <2>1. faults' \in 0..MaxFaults
    BY <1>1 DEF Typed, TerminalOK
  <2>2. QED BY <1>1, <1>2, <2>1, ExecuteTypes DEF Typed
<1>4. Answers(c.does) \in Seq(Packets)
  BY <1>2, <1>3, AnswersTyped DEF Typed, TerminalOK
<1>5. CASE pc = "read_buffer"
  <2>1. Asked.cmd = "read_buffer"
    BY <1>5 DEF Asked
  <2>2. Answers(c.does) = Chunk(Asked) /\ buffer' = buffer
    BY <1>1, <1>2, <2>1 DEF Answers, Execute
  <2>3. Reply(Head(toDevice), Answers(c.does))
    BY <1>1 DEF c
  <2>4. QED BY <1>1, <1>2, <1>4, <1>5, <2>2, <2>3, AnswerKeepsLine
<1>6. CASE pc # "read_buffer"
  <2>1. Asked.cmd # "read_buffer"
    BY <1>6 DEF Asked
  <2>2. Len(Answers(c.does)) = 1
    BY <1>2, <2>1, OneAnswer
  <2>3. Reply(Head(toDevice), Answers(c.does))
    BY <1>1 DEF c
  <2>4. QED BY <1>1, <1>2, <1>4, <1>6, <2>2, <2>3, AnswerKeepsLine
<1>7. QED BY <1>5, <1>6

LEMMA MisbehaveKeepsLine ==
  ASSUME Typed, Tidy, Line, Misbehave
  PROVE  Line'
<1>1. /\ toDevice # <<>> /\ toDevice' = Tail(toDevice) /\ UNCHANGED <<client, sent, kind>>
      /\ toClient' = toClient \/ Reply(Head(toDevice), <<[cmd |-> "ack_error"]>>)
  BY DEF Misbehave
<1>2. toClient = <<>> /\ Tail(toDevice) = <<>>
  BY <1>1, CommandOnLine
<1>3. CASE toClient' = toClient
  BY <1>1, <1>2, <1>3 DEF Line, Quiet
<1>4. CASE Reply(Head(toDevice), <<[cmd |-> "ack_error"]>>)
  <2> DEFINE e == [cmd |-> "ack_error"]
             s == <<e>>
  <2>1. e \in Packets /\ e.cmd # "prepare_data"
    BY DEF Packets
  <2> HIDE DEF e
  <2>2. s \in Seq(Packets) /\ Len(s) = 1 /\ s[1].cmd # "prepare_data"
    BY <2>1
  <2>3. Reply(Head(toDevice), s)
    BY <1>4 DEF e
  <2> HIDE DEF s
  <2>4. QED BY <1>1, <1>2, <2>2, <2>3, AnswerKeepsLine
<1>5. QED BY <1>1, <1>3, <1>4

LEMMA AckOnlyKeepsLine ==
  ASSUME Typed, Tidy, Line, AckOnly
  PROVE  Line'
<1> DEFINE s == <<Ack>>
<1>1. /\ toDevice # <<>> /\ toDevice' = Tail(toDevice) /\ UNCHANGED <<client, sent, kind>>
      /\ Reply(Head(toDevice), s)
  BY DEF AckOnly
<1>2. Tail(toDevice) = <<>>
  BY <1>1, CommandOnLine
<1>3. Ack \in Packets /\ Ack.cmd # "prepare_data"
  BY DEF Packets, Ack
<1>4. s \in Seq(Packets) /\ Len(s) = 1 /\ s[1].cmd # "prepare_data"
  BY <1>3
<1> HIDE DEF s
<1>5. QED BY <1>1, <1>2, <1>4, AnswerKeepsLine

\* The datagrams that are left of an answer when one is lost.
LEMMA LoseIs ==
  ASSUME Typed, Tidy', Line, Lose
  PROVE  /\ UNCHANGED <<client, toDevice, sent, kind, buffer>> /\ kind.transport # "tcp"
         /\ toDevice = <<>> /\ pc # "ready"
         /\ \E i \in 1..Len(toClient) :
              /\ toClient' = Seqs!RemoveAt(toClient, i)
              /\ missing' = missing \cup {toClient[i].says.cmd}
              /\ toClient[i].says.cmd # "prepare_data"
         /\ toClient' \in Said /\ Len(toClient') = Len(toClient) - 1
         /\ \A k \in 1..Len(toClient') : toClient'[k].id = sent
         /\ toClient # <<>> /\ Answering
<1>1. /\ UNCHANGED <<client, toDevice, sent, kind, buffer>> /\ kind.transport # "tcp"
      /\ \E k \in DOMAIN toClient :
           /\ toClient' = Seqs!RemoveAt(toClient, k)
           /\ missing' = missing \cup {toClient[k].says.cmd}
  BY DEF Lose
<1>2. DOMAIN toClient = 1..Len(toClient) /\ Len(toClient) \in Nat /\ toClient \in Said
  BY LenProperties DEF Typed, Said
<1>3. PICK i \in 1..Len(toClient) :
        /\ toClient' = Seqs!RemoveAt(toClient, i)
        /\ missing' = missing \cup {toClient[i].says.cmd}
  BY <1>1, <1>2
<1>4. toClient # <<>>
  <2>1. Len(toClient) # 0
    BY <1>2
  <2>2. QED BY <2>1, EmptySeq
<1>5. Answering
  BY <1>4 DEF Line, Quiet, Asking
<1>6. toClient[i].says.cmd # "prepare_data"
  BY <1>3 DEF Tidy
<1>7. /\ toClient' \in Said /\ Len(toClient') = Len(toClient) - 1
      /\ \A j \in 1..(Len(toClient) - 1) :
           toClient'[j] = IF j < i THEN toClient[j] ELSE toClient[j + 1]
  BY <1>2, <1>3, Removed DEF Said
<1>8. ASSUME NEW k \in 1..Len(toClient') PROVE toClient'[k].id = sent
  <2>1. k \in 1..Len(toClient) /\ k + 1 \in 1..Len(toClient) /\ k \in 1..(Len(toClient) - 1)
    BY <1>2, <1>7
  <2>2. toClient'[k] = toClient[k] \/ toClient'[k] = toClient[k + 1]
    BY <1>7, <2>1
  <2>3. QED BY <1>5, <2>1, <2>2 DEF Answering
<1>9. QED BY <1>1, <1>3, <1>4, <1>5, <1>6, <1>7, <1>8 DEF Answering

\* The first packet stays when another one is lost.
LEMMA TailRemoved ==
  ASSUME NEW q \in Said, NEW i \in 1..Len(q), i # 1
  PROVE  /\ i - 1 \in 1..Len(Tail(q)) /\ Tail(q)[i - 1] = q[i] /\ Tail(q) \in Said
         /\ Seqs!RemoveAt(q, i) # <<>> /\ Head(Seqs!RemoveAt(q, i)) = Head(q)
         /\ Tail(Seqs!RemoveAt(q, i)) = Seqs!RemoveAt(Tail(q), i - 1)
<1> DEFINE a == Seqs!RemoveAt(q, i)
           b == Seqs!RemoveAt(Tail(q), i - 1)
<1>1. /\ DOMAIN q = 1..Len(q) /\ Len(q) \in Nat /\ i \in Nat /\ i > 1 /\ i <= Len(q)
      /\ q # <<>>
  BY LenProperties, EmptySeq DEF Said
<1>2. /\ Tail(q) \in Said /\ Len(Tail(q)) = Len(q) - 1 /\ Head(q) = q[1]
      /\ \A k \in 1..Len(Tail(q)) : Tail(q)[k] = q[k + 1]
  BY <1>1, HeadTailProperties DEF Said
<1>3. i - 1 \in 1..Len(Tail(q)) /\ (i - 1) + 1 = i
  BY <1>1, <1>2
<1>4. /\ a \in Said /\ Len(a) = Len(q) - 1
      /\ \A j \in 1..(Len(q) - 1) : a[j] = IF j < i THEN q[j] ELSE q[j + 1]
  BY <1>1, Removed DEF Said
<1>5. /\ b \in Said /\ Len(b) = Len(q) - 2
      /\ \A j \in 1..(Len(q) - 2) : b[j] = IF j < i - 1 THEN Tail(q)[j] ELSE Tail(q)[j + 1]
  <2>1. i - 1 \in DOMAIN Tail(q)
    BY <1>2, <1>3, LenProperties DEF Said
  <2>2. (Len(q) - 1) - 1 = Len(q) - 2
    BY <1>1
  <2>3. QED BY <1>2, <2>1, <2>2, Removed DEF Said
<1> HIDE DEF a, b
<1>6. a # <<>>
  <2>1. Len(a) > 0
    BY <1>1, <1>4
  <2>2. QED BY <2>1, EmptySeq
<1>7. /\ Head(a) = a[1] /\ Tail(a) \in Said /\ Len(Tail(a)) = Len(q) - 2
      /\ \A k \in 1..Len(Tail(a)) : Tail(a)[k] = a[k + 1]
  <2>1. /\ Head(a) = a[1] /\ Tail(a) \in Said /\ Len(Tail(a)) = Len(a) - 1
        /\ \A k \in 1..Len(Tail(a)) : Tail(a)[k] = a[k + 1]
    BY <1>4, <1>6, HeadTailProperties DEF Said
  <2>2. Len(a) - 1 = Len(q) - 2
    BY <1>1, <1>4
  <2>3. QED BY <2>1, <2>2
<1>8. a[1] = q[1]
  <2>1. 1 \in 1..(Len(q) - 1) /\ 1 < i
    BY <1>1
  <2>2. QED BY <1>4, <2>1
<1>9. ASSUME NEW j \in 1..(Len(q) - 2) PROVE Tail(a)[j] = b[j]
  <2>1. /\ j + 1 \in 1..(Len(q) - 1) /\ j \in 1..Len(Tail(q)) /\ j + 1 \in 1..Len(Tail(q))
        /\ (j < i - 1 <=> j + 1 < i)
    BY <1>1, <1>2
  <2>2. Tail(a)[j] = IF j < i - 1 THEN q[j + 1] ELSE q[(j + 1) + 1]
    BY <1>4, <1>7, <2>1
  <2>3. Tail(q)[j] = q[j + 1] /\ Tail(q)[j + 1] = q[(j + 1) + 1]
    BY <1>2, <2>1
  <2>4. QED BY <1>5, <2>2, <2>3
<1>10. Tail(a) = b
  <2> DEFINE E == [id : Nat, says : Packets]
  <2>1. Tail(a) \in Seq(E) /\ b \in Seq(E) /\ Len(Tail(a)) = Len(b)
    BY <1>5, <1>7 DEF Said
  <2>2. \A j \in 1..Len(Tail(a)) : Tail(a)[j] = b[j]
    BY <1>7, <1>9
  <2> HIDE DEF E
  <2>3. QED BY <2>1, <2>2, SeqEqual
<1>11. QED BY <1>2, <1>3, <1>6, <1>7, <1>8, <1>10 DEF a, b

\* A packet that is no part of a stream is alone on its way.
LEMMA LoneLost ==
  ASSUME Typed, Tidy', Line, Lose, pc # "stream",
         ~(pc = "read_buffer" /\ Head(toClient).says.cmd = "prepare_data")
  PROVE  toClient' = <<>>
<1>1. Len(toClient) = 1
  BY LoseIs DEF Answering, Answered
<1>2. toClient' \in Said /\ Len(toClient') = 0
  BY <1>1, LoseIs
<1>3. QED BY <1>2, EmptySeq DEF Said

\* A stream that has lost a datagram is still nothing but a stream.
LEMMA LoseKeepsLine ==
  ASSUME Typed, Tidy', Line, Lose
  PROVE  Line'
<1>1. /\ UNCHANGED <<client, toDevice, sent, kind, buffer>> /\ kind.transport # "tcp"
      /\ toDevice = <<>> /\ pc # "ready"
      /\ toClient' \in Said /\ Len(toClient') = Len(toClient) - 1
      /\ \A k \in 1..Len(toClient') : toClient'[k].id = sent
      /\ toClient # <<>> /\ Answering
  BY LoseIs
<1>2. PICK i \in 1..Len(toClient) :
        /\ toClient' = Seqs!RemoveAt(toClient, i)
        /\ missing' = missing \cup {toClient[i].says.cmd}
        /\ toClient[i].says.cmd # "prepare_data"
  BY LoseIs
<1>3. UNCHANGED <<pc, todo, streamed>> /\ toClient \in Said /\ Len(toClient) \in Nat
  BY <1>1, LenProperties DEF client, Typed, Said
<1>4. pc \in {"read_buffer", "stream"} =>
        /\ ChunkAt \in Nat /\ ChunkEnd \in Nat /\ streamed \in Nat /\ ChunkAt + streamed \in Nat
        /\ ChunkAt' = ChunkAt /\ ChunkEnd' = ChunkEnd
        /\ (ChunkAt + streamed)' = ChunkAt + streamed
  <2> SUFFICES ASSUME pc \in {"read_buffer", "stream"}
               PROVE  /\ ChunkAt \in Nat /\ ChunkEnd \in Nat /\ streamed \in Nat
                      /\ ChunkAt + streamed \in Nat
                      /\ ChunkAt' = ChunkAt /\ ChunkEnd' = ChunkEnd
                      /\ (ChunkAt + streamed)' = ChunkAt + streamed
    OBVIOUS
  <2>1. todo # <<>>
    BY DEF Typed, Busy
  <2>2. ChunkAt \in Nat /\ ChunkEnd \in Nat /\ streamed \in Nat
    BY <2>1, ChunkTyped DEF Typed, ClientOK
  <2>3. QED BY <1>3, <2>2 DEF ChunkAt, ChunkEnd
<1>5. CASE toClient' = <<>>
  BY <1>1, <1>5 DEF Line, Quiet
<1>6. CASE toClient' # <<>>
  <2>1. CASE pc = "stream"
    <3>1. StreamFrom(toClient, ChunkAt + streamed, ChunkEnd, missing)
      BY <1>1, <2>1 DEF Answering, Answered
    <3>2. StreamFrom(toClient', ChunkAt + streamed, ChunkEnd, missing')
      BY <1>1, <1>2, <1>3, <1>4, <2>1, <3>1, StreamLoses
    <3>3. StreamFrom(toClient, ChunkAt + streamed, ChunkEnd, missing)'
      BY <1>1, <1>4, <2>1, <3>2, StreamKept
    <3>4. QED BY <1>1, <1>3, <1>6, <2>1, <3>3 DEF Line, Answering, Answered
  <2>2. CASE pc = "read_buffer" /\ Head(toClient).says.cmd = "prepare_data"
    <3>1. StreamFrom(Tail(toClient), ChunkAt, ChunkEnd, missing)
      BY <1>1, <2>2 DEF Answering, Answered
    <3>2. i # 1
      BY <1>1, <1>2, <2>2, HeadSaid
    <3>3. /\ i - 1 \in 1..Len(Tail(toClient)) /\ Tail(toClient)[i - 1] = toClient[i]
          /\ Tail(toClient) \in Said /\ Head(toClient') = Head(toClient)
          /\ Tail(toClient') = Seqs!RemoveAt(Tail(toClient), i - 1)
      BY <1>2, <1>3, <3>2, TailRemoved
    <3>4. StreamFrom(Tail(toClient'), ChunkAt, ChunkEnd, missing')
      BY <1>1, <1>2, <1>4, <2>2, <3>1, <3>3, StreamLoses
    <3>5. StreamFrom(Tail(toClient), ChunkAt, ChunkEnd, missing)'
      BY <1>1, <1>4, <2>2, <3>4, StreamBegun
    <3>6. QED BY <1>1, <1>3, <1>6, <2>2, <3>3, <3>5 DEF Line, Answering, Answered
  <2>3. CASE pc # "stream" /\ ~(pc = "read_buffer" /\ Head(toClient).says.cmd = "prepare_data")
    BY <1>6, <2>3, LoneLost
  <2>4. QED BY <2>1, <2>2, <2>3
<1>7. QED BY <1>5, <1>6

\* Nothing on the line depends on more than the client and the prepared table.
LEMMA SameLine ==
  ASSUME Line, UNCHANGED <<client, wire, kind, buffer, missing>>
  PROVE  Line'
<1>1. /\ UNCHANGED <<pc, reads, todo, streamed>>
      /\ UNCHANGED <<toDevice, toClient, sent>>
  BY DEF client, wire
<1>2. /\ (ChunkAt + streamed)' = ChunkAt + streamed
      /\ ChunkAt' = ChunkAt /\ ChunkEnd' = ChunkEnd
      /\ Tail(toClient)' = Tail(toClient)
  BY <1>1 DEF ChunkAt, ChunkEnd
<1>3. CASE Quiet
  BY <1>1, <1>3 DEF Line, Quiet
<1>4. CASE Asking
  BY <1>1, <1>4 DEF Line, Asking, Asked
<1>5. CASE Answering
  <2>1. CASE pc = "stream"
    <3>1. StreamFrom(toClient, ChunkAt + streamed, ChunkEnd, missing)'
      BY <1>1, <1>2, <1>5, <2>1, StreamKept DEF Answering, Answered
    <3>2. QED BY <1>1, <1>5, <2>1, <3>1 DEF Line, Answering, Answered
  <2>2. CASE pc = "read_buffer" /\ Head(toClient).says.cmd = "prepare_data"
    <3>1. StreamFrom(Tail(toClient), ChunkAt, ChunkEnd, missing)'
      BY <1>1, <1>2, <1>5, <2>2, StreamBegun DEF Answering, Answered
    <3>2. QED BY <1>1, <1>5, <2>2, <3>1 DEF Line, Answering, Answered
  <2>3. CASE pc # "stream" /\ ~(pc = "read_buffer" /\ Head(toClient).says.cmd = "prepare_data")
    BY <1>1, <1>5, <2>3 DEF Line, Answering, Answered
  <2>4. QED BY <2>1, <2>2, <2>3
<1>6. QED BY <1>3, <1>4, <1>5 DEF Line

LEMMA LineStep ==
  ASSUME Typed, Calling, Tidy', Line, [Next]_vars
  PROVE  Line'
<1>0. Tidy
  BY TidyBefore
<1>1. CASE Call
  <2>1. /\ pc = "ready" /\ script # <<>> /\ Ask(First(Head(script)))
        /\ UNCHANGED <<script, outcome, toClient>>
    BY <1>1 DEF Call
  <2>2. toDevice = <<>> /\ toClient = <<>>
    BY <2>1 DEF Line, Quiet, Asking, Answering
  <2>3. Asks
    <3>1. Head(script) \in Calls
      BY <2>1, HeadTailProperties DEF Typed, ClientOK
    <3>2. First(Head(script)) \in StepsOf(Head(script)) \cap Commands
      BY <3>1 DEF First, StepsOf, Calls, Commands
    <3>3. QED BY <2>1, <3>2 DEF Asks
  <2>4. QED BY <2>1, <2>2, <2>3, LineAfter
<1>2. CASE Receive
  BY <1>0, <1>2, ReceiveKeepsLine
<1>3. CASE Timeout
  <2>1. /\ toClient = <<>> /\ toDevice = <<>> /\ toClient' = <<>> /\ Step(Silence)
    BY <1>0, <1>3 DEF Timeout, Tidy
  <2>2. CASE Returns \/ Asks
    BY <2>1, <2>2, LineAfter
  <2>3. CASE Streams
    BY <2>1, <2>3 DEF Streams, Line, Quiet
  <2>4. QED BY <2>1, <2>2, <2>3, StepLeads
<1>4. CASE Serve
  BY <1>0, <1>4, ServeKeepsLine
<1>5. CASE Misbehave
  BY <1>0, <1>5, MisbehaveKeepsLine
<1>6. CASE Punch
  BY <1>6, SameLine DEF Punch
<1>7. CASE UNCHANGED vars
  BY <1>7, SameLine DEF vars, device
<1>8. CASE AckOnly
  BY <1>0, <1>8, AckOnlyKeepsLine
<1>9. CASE Lose
  BY <1>9, LoseKeepsLine
<1>10. QED BY <1>1, <1>2, <1>3, <1>4, <1>5, <1>6, <1>7, <1>8, <1>9 DEF Next

LEMMA AlwaysInLine == Spec => [](Typed /\ Calling /\ (Tidy => Line))
<1> DEFINE Inv == Calling /\ (Tidy => Line)
<1>1. Init => Inv
  BY CallingInit DEF Init, Line, Quiet
<1>2. Typed /\ Inv /\ [Next]_vars => Inv'
  <2> SUFFICES ASSUME Typed, Inv, [Next]_vars PROVE Inv'
    OBVIOUS
  <2>1. Calling'
    BY CallingStep
  <2>2. Tidy' => Tidy
    BY TidyBefore
  <2>3. QED BY <2>1, <2>2, LineStep
<1>3. QED BY <1>1, <1>2, AlwaysTyped, PTL DEF Spec

\* The client, which never compares an answer with its command, is never a
\* packet ahead of or behind a tidy terminal, whatever that refuses, loses or
\* leaves unanswered: send_command and the two stream readers between them
\* leave nothing unread when they return.
THEOREM InStepAlways == Spec => []InStep
<1>1. Typed /\ (Tidy => Line) => InStep
  <2> SUFFICES ASSUME Typed, Tidy, Line PROVE \A k \in DOMAIN toClient : toClient[k].id = sent
    BY DEF InStep
  <2>1. DOMAIN toClient = 1..Len(toClient)
    BY LenProperties DEF Typed, Said
  <2>2. CASE toClient = <<>>
    BY <2>2, EmptySeq, <2>1
  <2>3. CASE toClient # <<>>
    BY <2>1, <2>3 DEF Line, Quiet, Asking, Answering
  <2>4. QED BY <2>2, <2>3
<1>2. QED BY <1>1, AlwaysInLine, PTL

-----------------------------------------------------------------------------
\* The push of a template.

\* How many chunks the terminal holds when the client asks for the next step,
\* and when it hears that one was done.
Pushing ==
  /\ pc = "send_prepare" /\ toClient # <<>> =>
       /\ Head(toClient).says.cmd # "prepare_data"
       /\ Head(toClient).says.cmd = "ack_ok" => staged = 0
  /\ pc = "data" /\ toDevice # <<>> => staged + Len(todo) = Buffer
  /\ pc = "data" /\ toClient # <<>> =>
       (Head(toClient).says.cmd = "ack_ok" => staged + Len(todo) = Buffer + 1)
  /\ pc = "save" /\ toDevice # <<>> => staged = Buffer
  /\ \A k \in 1..Len(saved) : saved[k] = Buffer

LEMMA AskedAlone ==
  ASSUME Typed, Line', NEW p, Ask(p)
  PROVE  toClient' = <<>>
<1>1. toDevice' # <<>>
  <2> DEFINE e == [id |-> sent + 1, does |-> Command(p)]
  <2>1. toDevice' = Append(toDevice, e) /\ toDevice \in Requested
    BY DEF Ask, Typed, ClientOK
  <2> HIDE DEF e
  <2>2. toDevice' # <<>>
    BY <2>1 DEF Requested
  <2>3. QED BY <2>2
<1>2. QED BY <1>1 DEF Line, Quiet, Asking, Answering

LEMMA StepKeepsPushing ==
  ASSUME Typed, Calling, Line', Pushing, UNCHANGED device, NEW r, Step(r),
         \/ r = Silence
         \/ toClient # <<>> /\ r = Head(toClient).says
  PROVE  Pushing'
<1>1. staged' = staged /\ saved' = saved /\ \A k \in 1..Len(saved') : saved'[k] = Buffer
  BY DEF device, Pushing
<1>2. CASE pc' \notin {"send_prepare", "data", "save"}
  BY <1>1, <1>2 DEF Pushing
<1>3. CASE pc' \in {"send_prepare", "data", "save"}
  <2>1. toClient' = <<>>
    <3>1. ~Returns /\ ~Streams
      BY <1>3 DEF Returns, Return, Streams
    <3>2. PICK p : Ask(p)
      BY <3>1, StepLeads DEF Asks
    <3>3. QED BY <3>2, AskedAlone
  <2>2. ASSUME pc' \in {"data", "save"}
        PROVE  /\ pc' = "data" => staged + Len(todo') = Buffer
               /\ pc' = "save" => staged = Buffer
    <3>1. SendData(r)
      BY <2>2 DEF Step, Connect, Auth, ReadSizes, PrepareBuffer, ReadBuffer, Stream, FreeData,
             ClearAttendance, DeviceInfo, SaveTemplate, Exit, NextTable, TableRead,
             NextChunk, Return, Ask
    <3>2. staged \in Nat /\ Buffer \in Nat \ {0} /\ todo \in Seq(Nat \X Nat)
      BY ZkAssumption DEF Typed, TerminalOK, ClientOK
    <3>3. r.cmd = "ack_ok" => toClient # <<>> /\ r = Head(toClient).says
      BY DEF Silence
    <3>4. CASE pc = "send_prepare"
      <4> DEFINE left == [k \in 1..Buffer |-> <<k, 1>>]
      <4>1. r.cmd \in {"ack_ok", "prepare_data"} /\ PushChunk(left)
        BY <2>2, <3>1, <3>4 DEF SendData, Return
      <4>2. toClient # <<>> /\ r = Head(toClient).says
        BY <4>1 DEF Silence
      <4>3. staged = 0
        BY <3>4, <4>1, <4>2 DEF Pushing
      <4>4. left \in Seq(Nat \X Nat) /\ Len(left) = Buffer
        BY <3>2
      <4> HIDE DEF left
      <4>5. left # <<>>
        BY <3>2, <4>4, EmptySeq
      <4>6. pc' = "data" /\ Len(todo') = Buffer
        BY <4>1, <4>4, <4>5 DEF PushChunk, Ask
      <4>7. QED BY <3>2, <4>3, <4>6
    <3>5. CASE pc = "data"
      <4>1. r.cmd = "ack_ok" /\ PushChunk(Tail(todo))
        BY <2>2, <3>1, <3>5 DEF SendData, Return
      <4>2. staged + Len(todo) = Buffer + 1
        BY <3>3, <3>5, <4>1 DEF Pushing
      <4>3. todo # <<>>
        BY <3>5 DEF Typed, Busy
      <4>4. Tail(todo) \in Seq(Nat \X Nat) /\ Len(Tail(todo)) = Len(todo) - 1 /\ Len(todo) \in Nat
        BY <3>2, <4>3, HeadTailProperties, LenProperties
      <4>5. staged + Len(Tail(todo)) = Buffer
        BY <3>2, <4>2, <4>4
      <4>6. CASE Tail(todo) = <<>>
        <5>1. Len(Tail(todo)) = 0
          BY <4>6, EmptySeq
        <5>2. pc' = "save" /\ staged = Buffer
          BY <3>2, <4>1, <4>5, <4>6, <5>1 DEF PushChunk, Ask
        <5>3. QED BY <5>2
      <4>7. CASE Tail(todo) # <<>>
        BY <4>1, <4>5, <4>7 DEF PushChunk, Ask
      <4>8. QED BY <4>6, <4>7
    <3>6. QED BY <3>1, <3>4, <3>5 DEF SendData
  <2>3. QED BY <1>1, <1>3, <2>1, <2>2 DEF Pushing
<1>4. QED BY <1>2, <1>3

LEMMA PushCommands ==
  ASSUME Typed, Asking
  PROVE  /\ (Asked.cmd = "save") <=> (pc = "save")
         /\ (Asked.cmd = "data") <=> (pc = "data")
         /\ (Asked.cmd = "send_prepare") <=> (pc = "send_prepare")
BY DEF Asked

LEMMA ExecuteKeepsPushing ==
  ASSUME Typed, Line, Pushing, toDevice # <<>>, UNCHANGED client, toDevice' = <<>>,
         \/ Execute(Asked) /\ toClient' = <<>>
         \/ Execute(Asked) /\ Reply(Head(toDevice), Answers(Asked))
               /\ Answers(Asked) \in Seq(Packets)
         \/ /\ UNCHANGED <<staged, saved>>
            /\ toClient' = <<>> \/ Reply(Head(toDevice), <<[cmd |-> "ack_error"]>>)
  PROVE  Pushing'
<1>1. pc' = pc /\ todo' = todo /\ Asking
  BY DEF client, Line, Quiet, Answering
<1>2. staged \in Nat /\ saved \in Seq(Nat) /\ Buffer \in Nat /\ Len(todo) \in Nat
  BY ZkAssumption, LenProperties DEF Typed, TerminalOK, ClientOK
<1>3. CASE /\ Execute(Asked)
           /\ \/ toClient' = <<>>
              \/ Reply(Head(toDevice), Answers(Asked)) /\ Answers(Asked) \in Seq(Packets)
  <2>1. \A k \in 1..Len(saved') : saved'[k] = Buffer
    <3>1. CASE pc = "save"
      <4>1. saved' = Append(saved, staged) /\ staged = Buffer
        BY <1>3, <1>1, <3>1, PushCommands DEF Execute, Pushing
      <4>2. /\ Len(saved') = Len(saved) + 1 /\ Len(saved) \in Nat
            /\ \A k \in 1..Len(saved) : saved'[k] = saved[k]
            /\ saved'[Len(saved) + 1] = Buffer
        BY <1>2, <4>1, AppendProperties, LenProperties
      <4>3. QED BY <4>2 DEF Pushing
    <3>2. CASE pc # "save"
      BY <1>3, <1>1, <3>2, PushCommands DEF Execute, Pushing
    <3>3. QED BY <3>1, <3>2
  <2>2. pc = "data" => staged' + Len(todo') = Buffer + 1
    BY <1>3, <1>1, <1>2, PushCommands DEF Execute, Pushing
  <2>3. pc = "send_prepare" => staged' = 0
    BY <1>3, <1>1, PushCommands DEF Execute
  <2>4. pc = "send_prepare" /\ toClient' # <<>> => Head(toClient').says.cmd # "prepare_data"
    <3> SUFFICES ASSUME pc = "send_prepare", toClient' # <<>>
                 PROVE  Head(toClient').says.cmd # "prepare_data"
      OBVIOUS
    <3>1. Reply(Head(toDevice), Answers(Asked)) /\ Answers(Asked) \in Seq(Packets)
      BY <1>3
    <3>2. Answers(Asked) = <<Ack>>
      BY DEF Asked, Answers
    <3>3. Head(toClient').says = Answers(Asked)[1]
      BY <3>1, AnswerIs
    <3>4. QED BY <3>2, <3>3 DEF Ack
  <2>5. QED BY <1>1, <2>1, <2>2, <2>3, <2>4 DEF Pushing
<1>4. CASE UNCHANGED <<staged, saved>> /\ toClient' = <<>>
  BY <1>1, <1>4 DEF Pushing
<1>5. CASE UNCHANGED <<staged, saved>> /\ Reply(Head(toDevice), <<[cmd |-> "ack_error"]>>)
  <2> DEFINE e == [cmd |-> "ack_error"]
             s == <<e>>
  <2>1. e \in Packets /\ e.cmd = "ack_error"
    BY DEF Packets
  <2> HIDE DEF e
  <2>2. s \in Seq(Packets) /\ s[1] = e
    BY <2>1
  <2>3. Reply(Head(toDevice), s)
    BY <1>5 DEF e
  <2> HIDE DEF s
  <2>4. toClient' # <<>> => Head(toClient').says = e
    BY <2>2, <2>3, AnswerIs
  <2>5. QED BY <1>1, <1>5, <2>1, <2>4 DEF Pushing
<1>6. QED BY <1>3, <1>4, <1>5

LEMMA PushingStep ==
  ASSUME Typed, Calling, Tidy', Line, Line', Pushing, [Next]_vars
  PROVE  Pushing'
<1>1. CASE Call
  <2>1. Head(script) \in Calls
    BY <1>1, HeadTailProperties DEF Call, Typed, ClientOK
  <2>2. pc' \notin {"send_prepare", "data", "save"}
    BY <1>1, <2>1 DEF Call, Ask, First, Calls
  <2>3. QED BY <1>1, <2>2 DEF Call, device, Pushing
<1>2. CASE Receive
  BY <1>2, StepKeepsPushing DEF Receive
<1>3. CASE Timeout
  BY <1>3, StepKeepsPushing DEF Timeout
<1>4. CASE Serve
  <2> DEFINE c == Head(toDevice)
  <2>1. /\ toDevice # <<>> /\ Execute(c.does) /\ Reply(c, Answers(c.does))
        /\ toDevice' = Tail(toDevice) /\ UNCHANGED <<client, punched, faults, missing>>
    BY <1>4 DEF Serve
  <2>2. c.does = Asked /\ Asked \in Requests /\ Tail(toDevice) = <<>>
    BY <2>1, CommandOnLine
  <2>3. faults' \in 0..MaxFaults
    BY <2>1 DEF Typed, TerminalOK
  <2>4. Answers(Asked) \in Seq(Packets)
    BY <2>1, <2>2, <2>3, ExecuteTypes, AnswersTyped DEF Typed, TerminalOK
  <2>5. QED BY <2>1, <2>2, <2>4, ExecuteKeepsPushing
<1>5. CASE Misbehave
  <2> DEFINE c == Head(toDevice)
  <2>1. /\ toDevice # <<>> /\ toDevice' = Tail(toDevice) /\ UNCHANGED client
        /\ \/ Reply(c, <<[cmd |-> "ack_error"]>>) /\ UNCHANGED <<staged, saved>>
           \/ UNCHANGED <<toClient, staged, saved>>
           \/ Execute(c.does) /\ UNCHANGED toClient
    BY <1>5 DEF Misbehave
  <2>2. c.does = Asked /\ toClient = <<>> /\ Tail(toDevice) = <<>>
    BY <2>1, CommandOnLine
  <2>3. QED BY <2>1, <2>2, ExecuteKeepsPushing
<1>6. CASE Punch
  BY <1>6 DEF Punch, client, wire, Pushing
<1>7. CASE UNCHANGED vars
  BY <1>7 DEF vars, client, wire, device, Pushing
<1>8. CASE AckOnly
  <2>1. /\ toDevice # <<>> /\ Head(toDevice).does.cmd = "read_buffer"
        /\ UNCHANGED <<client, staged, saved>>
    BY <1>8 DEF AckOnly
  <2>2. pc = "read_buffer"
    BY <2>1, CommandOnLine DEF Asked
  <2>3. QED BY <2>1, <2>2 DEF client, Pushing
<1>9. CASE Lose
  <2>1. UNCHANGED <<client, staged, saved>> /\ toDevice = <<>> /\ toDevice' = toDevice
    BY <1>9, LoseIs DEF Lose
  <2>2. pc \in {"send_prepare", "data", "save"} => toClient' = <<>>
    BY <1>9, LoneLost
  <2>3. QED BY <2>1, <2>2 DEF client, Pushing
<1>10. QED BY <1>1, <1>2, <1>3, <1>4, <1>5, <1>6, <1>7, <1>8, <1>9 DEF Next

\* A tidy terminal is told to save only templates it holds all of: the chunks
\* it holds and those still to send are the template, at every step of
\* send_with_buffer, whichever commands it refused or lost.
THEOREM SavedAlwaysWhole == Spec => []SavedIsWhole
<1> DEFINE Inv == Tidy => Pushing
<1>1. Init => Inv
  <2>1. Len(<<>>) = 0 /\ \A k \in 1..0 : FALSE
    BY EmptySeq
  <2>2. QED BY <2>1 DEF Init, Pushing
<1>2. /\ Typed /\ Calling /\ (Tidy => Line) /\ (Tidy => Line)' /\ Inv /\ [Next]_vars
      => Inv'
  <2>1. [Next]_vars => (Tidy' => Tidy)
    BY TidyBefore
  <2>2. QED BY <2>1, PushingStep
<1>3. Typed /\ Inv => SavedIsWhole
  <2>1. Typed => DOMAIN saved = 1..Len(saved)
    BY LenProperties DEF Typed, TerminalOK
  <2>2. QED BY <2>1 DEF Pushing, SavedIsWhole
<1>4. QED BY <1>1, <1>2, <1>3, AlwaysInLine, PTL DEF Spec

-----------------------------------------------------------------------------
\* The tables that are read.

AllOf == TableBytes(buffer.table, buffer.of)

\* Where the chunks that are still to come begin.
Before == IF todo = <<>> THEN AllOf ELSE ChunkAt

\* What came is the beginning of the prepared table.
Whole == got.whole /\ (got.len > 0 => got.table = buffer.table /\ got.of = buffer.of)

\* At most the bytes up to the byte x came, and fewer if there is a hole.
UpTo(x) == got.len <= x /\ (Whole \/ got.len < x)

\* r brings len bytes of the prepared table from the byte from on.
Brings(r, from, len) ==
  /\ r.cmd = "data"
  /\ r.piece.table = buffer.table /\ r.piece.of = buffer.of
  /\ r.piece.from = from /\ r.piece.len = len

\* What came is the prepared table, the one asked for, up to here; all of it
\* when no data was lost.
Began ==
  /\ buffer.table = Head(reads)
  /\ Cover(todo, Before, AllOf)
  /\ pc # "stream" => UpTo(Before)
  /\ "data" \notin missing =>
       Whole /\ got.len = Before + (IF pc = "stream" THEN streamed ELSE 0)

\* PREPARE_BUFFER is answered with the table, or with its size.
AnswersPrepare(r) ==
  \/ r.cmd = "ack_error"
  \/ /\ buffer.table = Head(reads)
     /\ \/ Brings(r, 0, AllOf)
        \/ r.cmd \in {"ack_ok", "prepare_data"} /\ ToldSize(r) = {AllOf}

\* The stream packets ends where the chunk does, when no data was lost.
EndsAt(packets, at) == "data" \notin missing => EndAt(Rest(packets), at, ChunkEnd)

\* READ_BUFFER is answered with the chunk, with nothing of it, or with the
\* beginning of its stream.
AnswersRead(r) ==
  \/ r.cmd = "ack_error"
  \/ r.cmd = "ack_ok" /\ "data" \in missing
  \/ Brings(r, ChunkAt, Head(todo)[2])
  \/ r.cmd = "prepare_data" /\ EndsAt(Tail(toClient), ChunkAt)

\* What came of the stream is less than what is still to come.
Streaming ==
  /\ UpTo(ChunkEnd)
  /\ PiecesIn(toClient) > 0 => UpTo(Rest(toClient)[1].from)
  /\ toClient # <<>> => EndsAt(toClient, ChunkAt + streamed)

Retrieving ==
  /\ pc \in {"read_buffer", "stream", "free_data"} => Began
  /\ pc = "free_data" => todo = <<>>
  /\ pc = "prepare_buffer" /\ toClient # <<>> => AnswersPrepare(Head(toClient).says)
  /\ pc = "read_buffer" /\ toClient # <<>> => AnswersRead(Head(toClient).says)
  /\ pc = "stream" => Streaming

LEMMA AllOfTyped ==
  ASSUME Typed
  PROVE  /\ AllOf \in Nat
         /\ AllOf = 4 + SizeOf(buffer.table) * Len(buffer.of)
         /\ Len(buffer.of) \in Nat
<1>1. buffer.of \in Seq(Nat)
  BY DEF Typed, TerminalOK, BufferOK
<1>2. QED BY <1>1, SizesOfTables, LenProperties DEF AllOf, Typed

\* The next chunk begins where the bytes that came end; the rest of the chunks
\* begins where it ends.
LEMMA CoverNext ==
  ASSUME Typed, todo # <<>>, NEW at, NEW end, Cover(todo, at, end)
  PROVE  /\ ChunkAt = at /\ Head(todo)[2] > 0 /\ ChunkEnd <= end
         /\ Cover(Tail(todo), ChunkEnd, end)
<1> DEFINE t == Tail(todo)
<1>1. /\ todo \in Seq(Nat \X Nat) /\ Len(todo) \in Nat \ {0}
      /\ Head(todo) = todo[1] /\ t \in Seq(Nat \X Nat) /\ Len(t) = Len(todo) - 1
      /\ \A k \in 1..Len(t) : t[k] = todo[k + 1]
  BY HeadTailProperties, EmptySeq DEF Typed, ClientOK
<1> HIDE DEF t
<1>2. 1 \in 1..Len(todo)
  BY <1>1
<1>3. /\ todo[1][1] = at /\ todo[1][2] > 0 /\ todo[1][1] + todo[1][2] <= end
      /\ todo[1][1] + todo[1][2] = IF 1 = Len(todo) THEN end ELSE todo[1 + 1][1]
  BY <1>2 DEF Cover
<1>4. ASSUME NEW k \in 1..Len(t)
      PROVE  /\ t[k][2] > 0 /\ t[k][1] + t[k][2] <= end
             /\ t[k][1] + t[k][2] = IF k = Len(t) THEN end ELSE t[k + 1][1]
  <2>1. k + 1 \in 1..Len(todo) /\ (k + 1 = Len(todo) <=> k = Len(t))
    BY <1>1
  <2>2. /\ todo[k + 1][2] > 0 /\ todo[k + 1][1] + todo[k + 1][2] <= end
        /\ todo[k + 1][1] + todo[k + 1][2]
             = IF k + 1 = Len(todo) THEN end ELSE todo[(k + 1) + 1][1]
    BY <2>1 DEF Cover
  <2>3. k # Len(t) => t[k + 1] = todo[(k + 1) + 1]
    <3>1. k # Len(t) => k + 1 \in 1..Len(t)
      BY <1>1
    <3>2. QED BY <1>1, <3>1
  <2>4. QED BY <1>1, <2>1, <2>2, <2>3
<1>5. IF t = <<>> THEN ChunkEnd = end ELSE t[1][1] = ChunkEnd
  <2>1. CASE t = <<>>
    <3>1. Len(t) = 0
      BY <2>1, EmptySeq
    <3>2. Len(todo) = 1
      BY <1>1, <3>1
    <3>3. QED BY <1>1, <1>3, <2>1, <3>2 DEF ChunkEnd
  <2>2. CASE t # <<>>
    <3>0. Len(t) = Len(todo) - 1 /\ Len(todo) \in Nat
      BY <1>1
    <3>1. Len(t) \in Nat \ {0}
      BY <1>1, <2>2, EmptySeq
    <3>2. 1 \in 1..Len(t) /\ 1 # Len(todo)
      BY <3>0, <3>1
    <3>3. t[1] = todo[1 + 1]
      BY <1>1, <3>2
    <3>4. QED BY <1>1, <1>3, <2>2, <3>2, <3>3 DEF ChunkEnd
  <2>3. QED BY <2>1, <2>2
<1>6. Cover(t, ChunkEnd, end)
  BY <1>4, <1>5 DEF Cover
<1>7. QED BY <1>1, <1>3, <1>6 DEF ChunkAt, ChunkEnd, t

\* The piece that comes next is behind what came; there is a hole when there
\* was one before, or when it is not the next one.
LEMMA UpToLonger ==
  ASSUME Typed, UNCHANGED buffer, NEW r, r.cmd = "data", r.piece \in Pieces, r.piece.len > 0,
         r.piece.table = buffer.table, r.piece.of = buffer.of,
         UpTo(r.piece.from), got' = Extended(got, r.piece)
  PROVE  /\ got'.len = got.len + r.piece.len /\ got'.len \in Nat
         /\ UpTo(r.piece.from + r.piece.len)'
         /\ Whole /\ r.piece.from = got.len => Whole'
<1>1. got.len \in Nat /\ r.piece.from \in Nat /\ r.piece.len \in Nat
  BY DEF Typed, ClientOK, Got, Pieces
<1>2. /\ got'.len = got.len + r.piece.len
      /\ got'.table = IF got.len = 0 THEN r.piece.table ELSE got.table
      /\ got'.of = IF got.len = 0 THEN r.piece.of ELSE got.of
      /\ got'.whole = (/\ r.piece.from = got.len
                       /\ got.len = 0 \/ (/\ got.whole
                                         /\ r.piece.table = got.table
                                         /\ r.piece.of = got.of))
  BY DEF Extended
<1>3. Whole /\ r.piece.from = got.len => Whole'
  BY <1>1, <1>2 DEF Whole
<1>4. ~(Whole /\ r.piece.from = got.len) => got.len < r.piece.from
  BY <1>1 DEF UpTo
<1>5. got.len <= r.piece.from
  BY DEF UpTo
<1>6. UpTo(r.piece.from + r.piece.len)'
  <2>1. got'.len <= (r.piece.from + r.piece.len)'
    BY <1>1, <1>2, <1>5
  <2>2. Whole' \/ got'.len < (r.piece.from + r.piece.len)'
    BY <1>1, <1>2, <1>3, <1>4
  <2>3. QED BY <2>1, <2>2 DEF UpTo
<1>7. QED BY <1>1, <1>2, <1>3, <1>6

LEMMA UpToMore ==
  ASSUME Typed, NEW x \in Nat, NEW y \in Nat, x <= y, UpTo(x)
  PROVE  UpTo(y)
<1>1. got.len \in Nat
  BY DEF Typed, ClientOK, Got
<1>2. QED BY <1>1 DEF UpTo

\* The chunk that follows another one begins where that ends.
LEMMA NextBegan ==
  ASSUME Typed, todo # <<>>, Began, UNCHANGED <<kind, buffer, reads, missing>>,
         todo' = Tail(todo), pc' \in {"read_buffer", "free_data"},
         NEW end, end = ChunkEnd, UpTo(end)',
         "data" \notin missing => Whole' /\ got'.len = end
  PROVE  Began'
<1>1. AllOf' = AllOf
  BY DEF AllOf, TableBytes, SizeOf
<1>2. Cover(todo', end, AllOf)
  BY CoverNext DEF Began
<1>3. Before' = end /\ end \in Nat
  <2>1. end \in Nat
    BY ChunkTyped
  <2>2. CASE todo' = <<>>
    BY <1>1, <1>2, <2>1, <2>2 DEF Before, Cover
  <2>3. CASE todo' # <<>>
    <3>1. todo' \in Seq(Nat \X Nat) /\ Head(todo') = todo'[1]
      BY <2>3, HeadTailProperties DEF Typed, ClientOK
    <3>2. todo'[1][1] = end
      BY <1>2, <2>3 DEF Cover
    <3>3. Before' = Head(todo')[1]
      BY <2>3 DEF Before, ChunkAt
    <3>4. QED BY <2>1, <3>1, <3>2, <3>3
  <2>4. QED BY <2>2, <2>3
<1>4. Cover(todo, Before, AllOf)'
  BY <1>1, <1>2, <1>3 DEF Cover
<1>5. UpTo(Before)'
  BY <1>3 DEF UpTo
<1>6. got'.len \in Int \/ "data" \in missing
  BY <1>3
<1>7. "data" \notin missing' => Whole' /\ got'.len = Before' + 0
  BY <1>3, <1>6
<1>8. buffer'.table = Head(reads')
  BY DEF Began
<1>9. pc' # "stream"
  OBVIOUS
<1>10. QED BY <1>4, <1>5, <1>7, <1>8, <1>9 DEF Began

\* The steps that keep the table the client reads.
LEMMA ReadBufferKeeps ==
  ASSUME Typed, Tidy, Line, Retrieving, UNCHANGED device, NEW r, ReadBuffer(r),
         \/ r = Silence
         \/ toClient # <<>> /\ r = Head(toClient).says
  PROVE  /\ pc' \in {"ready", "read_buffer", "stream", "free_data"}
         /\ pc' # "ready" => Began'
         /\ pc' = "free_data" => todo' = <<>>
         /\ pc' = "stream" =>
              /\ toClient # <<>> /\ todo' = todo /\ got' = got
              /\ EndsAt(Tail(toClient), ChunkAt + streamed')
              /\ UpTo(ChunkEnd)
              /\ PiecesIn(Tail(toClient)) > 0 => UpTo(Rest(Tail(toClient))[1].from)
<1>1. /\ pc = "read_buffer" /\ todo # <<>> /\ UNCHANGED <<kind, buffer, missing>>
      /\ toClient \in Said
  BY DEF ReadBuffer, Typed, Busy, device
<1>2. /\ Began /\ UpTo(ChunkAt) /\ ("data" \notin missing => Whole /\ got.len = ChunkAt)
      /\ Cover(todo, ChunkAt, AllOf) /\ buffer.table = Head(reads)
      /\ got.len \in Nat /\ ChunkAt \in Nat /\ Head(todo)[2] \in Nat /\ ChunkEnd \in Nat
      /\ ChunkEnd = ChunkAt + Head(todo)[2]
  <2>1. got.len \in Nat /\ ChunkAt \in Nat /\ Head(todo)[2] \in Nat /\ ChunkEnd \in Nat
    BY <1>1, ChunkTyped DEF Typed, ClientOK, Got
  <2>2. Before = ChunkAt /\ Began
    BY <1>1 DEF Before, Retrieving
  <2>3. UpTo(ChunkAt) /\ Cover(todo, ChunkAt, AllOf) /\ buffer.table = Head(reads)
    BY <1>1, <2>2 DEF Began
  <2>4. "data" \notin missing => Whole /\ got.len = ChunkAt
    BY <1>1, <2>1, <2>2 DEF Began
  <2>5. QED BY <2>1, <2>2, <2>3, <2>4 DEF ChunkEnd, ChunkAt
<1>3. Head(todo)[2] > 0
  BY <1>1, <1>2, CoverNext
<1>4. UpTo(ChunkEnd)
  BY <1>2, UpToMore
<1>5. r # Silence => toClient # <<>> /\ AnswersRead(r) /\ r \in Packets
  BY <1>1, HeadSaid DEF Retrieving
<1>6. CASE r.cmd \in {"data", "ack_ok"}
  <2>1. /\ got' = IF r.cmd = "data" THEN Extended(got, r.piece) ELSE got
        /\ todo' = Tail(todo) /\ NextChunk
    BY <1>1, <1>6 DEF ReadBuffer
  <2>2. r # Silence
    BY <1>6 DEF Silence
  <2>3. /\ pc' \in {"read_buffer", "free_data"} /\ reads' = reads
        /\ pc' = "free_data" => todo' = <<>>
    BY <2>1 DEF NextChunk, Ask
  <2>4. PICK end : end = ChunkEnd
    OBVIOUS
  <2>5. UpTo(end)' /\ ("data" \notin missing => Whole' /\ got'.len = end)
    <3>1. CASE r.cmd = "data"
      <4>1. Brings(r, ChunkAt, Head(todo)[2])
        BY <1>5, <2>2, <3>1 DEF AnswersRead
      <4>2. r.piece \in Pieces
        BY <1>5, <2>2, <3>1, AnswerParts
      <4>3. /\ r.piece.from = ChunkAt /\ r.piece.len = Head(todo)[2]
            /\ r.piece.table = buffer.table /\ r.piece.of = buffer.of
            /\ r.piece.from + r.piece.len = end
        BY <1>2, <2>4, <4>1 DEF Brings
      <4>4. /\ got'.len = got.len + r.piece.len
            /\ UpTo(r.piece.from + r.piece.len)'
            /\ Whole /\ r.piece.from = got.len => Whole'
        BY <1>1, <1>2, <1>3, <2>1, <3>1, <4>2, <4>3, UpToLonger
      <4>5. UpTo(end)'
        BY <4>3, <4>4
      <4>6. QED BY <1>2, <4>3, <4>4, <4>5
    <3>2. CASE r.cmd = "ack_ok"
      <4>1. "data" \in missing
        BY <1>5, <2>2, <3>2 DEF AnswersRead, Brings
      <4>2. got' = got /\ buffer' = buffer
        BY <1>1, <2>1, <3>2
      <4>3. UpTo(end)'
        BY <1>4, <2>4, <4>2 DEF UpTo, Whole
      <4>4. QED BY <4>1, <4>3
    <3>3. QED BY <1>6, <3>1, <3>2
  <2>6. Began'
    BY <1>1, <1>2, <2>1, <2>3, <2>4, <2>5, NextBegan
  <2>7. QED BY <2>3, <2>6
<1>7. CASE r.cmd = "prepare_data"
  <2>1. /\ pc' = "stream" /\ streamed' = 0 /\ UNCHANGED <<reads, todo, got>>
    BY <1>7 DEF ReadBuffer
  <2>2. r # Silence
    BY <1>7 DEF Silence
  <2>3. toClient # <<>> /\ r = Head(toClient).says /\ EndsAt(Tail(toClient), ChunkAt)
    BY <1>5, <1>7, <2>2 DEF AnswersRead, Brings
  <2>4. ChunkAt + streamed' = ChunkAt
    BY <1>2, <2>1
  <2>5. Began'
    <3>1. AllOf' = AllOf /\ ChunkAt' = ChunkAt /\ Whole' = Whole
      BY <1>1, <2>1 DEF AllOf, TableBytes, SizeOf, ChunkAt, Whole
    <3>2. Before' = ChunkAt
      BY <1>1, <2>1, <3>1 DEF Before
    <3>3. Cover(todo, Before, AllOf)'
      BY <1>2, <2>1, <3>1, <3>2 DEF Cover
    <3>4. "data" \notin missing' => Whole' /\ got'.len = Before' + streamed'
      BY <1>1, <1>2, <2>1, <3>1, <3>2
    <3>5. QED BY <1>1, <1>2, <2>1, <3>3, <3>4 DEF Began
  <2>6. ASSUME PiecesIn(Tail(toClient)) > 0
        PROVE  UpTo(Rest(Tail(toClient))[1].from)
    <3>1. StreamFrom(Tail(toClient), ChunkAt, ChunkEnd, missing) /\ Tail(toClient) \in Said
      BY <1>1, <1>7, <2>3, HeadSaid DEF Line, Quiet, Asking, Answering, Answered
    <3>2. /\ PiecesIn(Tail(toClient)) \in Nat
          /\ Len(Rest(Tail(toClient))) = PiecesIn(Tail(toClient))
      BY <3>1, RestIs
    <3>3. 1 \in 1..PiecesIn(Tail(toClient))
      BY <2>6, <3>2
    <3>4. Rest(Tail(toClient))[1].from >= ChunkAt /\ Rest(Tail(toClient))[1].from \in Nat
      <4>1. Rest(Tail(toClient))[1].from >= EndBefore(Rest(Tail(toClient)), 1, ChunkAt)
        BY <3>1, <3>2, <3>3 DEF StreamFrom, InOrder
      <4>2. EndBefore(Rest(Tail(toClient)), 1, ChunkAt) = ChunkAt
        BY DEF EndBefore
      <4>3. QED BY <3>1, <3>3, <4>1, <4>2, RestTyped
    <3>5. QED BY <1>2, <3>4, UpToMore
  <2>7. QED BY <1>4, <2>1, <2>3, <2>4, <2>5, <2>6
<1>8. CASE r.cmd \notin {"data", "ack_ok", "prepare_data"}
  <2>1. pc' = "ready"
    BY <1>8 DEF ReadBuffer, Return
  <2>2. QED BY <2>1
<1>9. QED BY <1>6, <1>7, <1>8

\* Between the packets of a stream and at its end, what came is the beginning
\* of the table, or fewer bytes than there are up to here.
LEMMA StreamKeeps ==
  ASSUME Typed, Tidy, Line, Retrieving, UNCHANGED device, NEW r, Stream(r),
         \/ r = Silence
         \/ toClient # <<>> /\ r = Head(toClient).says
  PROVE  /\ pc' \in {"ready", "read_buffer", "stream", "free_data"}
         /\ pc' # "ready" => Began'
         /\ pc' = "free_data" => todo' = <<>>
         /\ pc' = "stream" =>
              /\ toClient # <<>> /\ todo' = todo
              /\ EndsAt(Tail(toClient), ChunkAt + streamed')
              /\ \A x \in {ChunkEnd} : UpTo(x)'
              /\ PiecesIn(Tail(toClient)) > 0 =>
                   \A x \in {Rest(Tail(toClient))[1].from} : UpTo(x)'
<1> DEFINE at == ChunkAt + streamed
<1>1. /\ pc = "stream" /\ todo # <<>> /\ UNCHANGED <<kind, buffer, reads, missing>>
      /\ script # <<>> /\ Began /\ Streaming
  BY DEF Stream, Return, NextChunk, Retrieving, Typed, Busy, device
<1>2. /\ ChunkAt \in Nat /\ ChunkEnd \in Nat /\ Head(todo)[2] \in Nat
      /\ ChunkEnd = ChunkAt + Head(todo)[2]
      /\ got.len \in Nat /\ streamed \in Nat /\ at \in Nat
  BY <1>1, ChunkTyped DEF ChunkAt, ChunkEnd, Typed, ClientOK, Got
<1>3. /\ Before = ChunkAt /\ Cover(todo, ChunkAt, AllOf) /\ buffer.table = Head(reads)
      /\ "data" \notin missing => Whole /\ got.len = at
  BY <1>1 DEF Before, Began
<1>4. UpTo(ChunkEnd)
  BY <1>1 DEF Streaming
<1> HIDE DEF at
<1>5. CASE r = Silence
  <2>1. pc' = "ready"
    BY <1>5 DEF Stream, StreamFails, Return
  <2>2. QED BY <2>1
<1>6. CASE r # Silence
  <2>1. /\ toClient # <<>> /\ r = Head(toClient).says /\ toClient \in Said
        /\ StreamFrom(toClient, at, ChunkEnd, missing) /\ EndsAt(toClient, at)
    BY <1>1, <1>6 DEF Line, Quiet, Asking, Answering, Answered, Streaming, Typed, at
  <2>2. ASSUME todo' = Tail(todo), NextChunk, NEW end, end = ChunkEnd, UpTo(end)',
               "data" \notin missing => Whole' /\ got'.len = end
        PROVE  /\ pc' \in {"read_buffer", "free_data"} /\ Began'
               /\ pc' = "free_data" => todo' = <<>>
    <3>1. pc' \in {"read_buffer", "free_data"} /\ (pc' = "free_data" => todo' = <<>>)
      BY <2>2 DEF NextChunk, Ask
    <3>2. Began'
      BY <1>1, <2>2, <3>1, NextBegan
    <3>3. QED BY <3>1, <3>2
  <2>3. CASE r.cmd = "data"
    <3>1. /\ r.piece \in Pieces /\ r.piece.len \in Nat /\ r.piece.len > 0
          /\ r.piece.from \in Nat
          /\ r.piece = Rest(toClient)[1] /\ PiecesIn(toClient) > 0
          /\ r.piece.table = buffer.table /\ r.piece.of = buffer.of
          /\ r.piece.from + r.piece.len <= ChunkEnd
          /\ "data" \notin missing => r.piece.from = at
          /\ PiecesIn(Tail(toClient)) > 0 =>
               Rest(Tail(toClient))[1].from >= r.piece.from + r.piece.len
          /\ StreamFrom(Tail(toClient), at + r.piece.len, ChunkEnd, missing)
          /\ "data" \notin missing => EndAt(Rest(Tail(toClient)), at + r.piece.len, ChunkEnd)
      BY <1>2, <2>1, <2>3, StreamTail DEF EndsAt
    <3>2. got' = Extended(got, r.piece) /\ streamed' = streamed + r.piece.len
      BY <2>3 DEF Stream
    <3>3. UpTo(r.piece.from)
      BY <1>1, <3>1 DEF Streaming
    <3>4. /\ got'.len = got.len + r.piece.len
          /\ UpTo(r.piece.from + r.piece.len)'
          /\ Whole /\ r.piece.from = got.len => Whole'
      BY <1>1, <2>3, <3>1, <3>2, <3>3, UpToLonger
    <3>5. ASSUME NEW x \in Nat, x >= r.piece.from + r.piece.len PROVE UpTo(x)'
      <4>1. got'.len \in Nat
        BY <1>2, <3>1, <3>4
      <4>2. /\ got'.len <= r.piece.from + r.piece.len
            /\ Whole' \/ got'.len < r.piece.from + r.piece.len
        BY <3>4 DEF UpTo
      <4>3. got'.len <= x /\ (Whole' \/ got'.len < x)
        BY <3>1, <3>5, <4>1, <4>2
      <4>4. QED BY <4>3 DEF UpTo
    <3>6. ASSUME "data" \notin missing PROVE Whole' /\ got'.len = at + r.piece.len
      BY <1>3, <3>1, <3>4, <3>6
    <3>7. at + r.piece.len = ChunkAt + streamed'
      BY <1>2, <3>1, <3>2 DEF at
    <3>8. ~StreamFails(r)
      BY <1>6, <2>3 DEF StreamFails
    <3>9. CASE StreamGoesOn(r)
      <4>1. pc' = "stream" /\ todo' = todo
        BY <1>1, <3>8, <3>9 DEF Stream
      <4>2. Began'
        <5>1. AllOf' = AllOf /\ ChunkAt' = ChunkAt
          BY <1>1, <4>1 DEF AllOf, TableBytes, SizeOf, ChunkAt
        <5>2. Before' = ChunkAt
          BY <1>1, <4>1, <5>1 DEF Before
        <5>3. Cover(todo, Before, AllOf)'
          BY <1>3, <4>1, <5>1, <5>2 DEF Cover
        <5>4. "data" \notin missing' => Whole' /\ got'.len = Before' + streamed'
          BY <1>1, <3>6, <3>7, <5>2
        <5>5. QED BY <1>1, <1>3, <4>1, <5>3, <5>4 DEF Began
      <4>3. EndsAt(Tail(toClient), ChunkAt + streamed')
        BY <3>1, <3>7 DEF EndsAt
      <4>4. \A x \in {ChunkEnd} : UpTo(x)'
        BY <1>2, <3>1, <3>5
      <4>5. ASSUME PiecesIn(Tail(toClient)) > 0, NEW x \in {Rest(Tail(toClient))[1].from}
            PROVE  UpTo(x)'
        <5>1. Tail(toClient) \in Said
          BY <2>1, HeadSaid
        <5>2. 1 \in 1..PiecesIn(Tail(toClient))
          BY <4>5, <5>1, RestIs
        <5>3. x \in Nat
          BY <3>1, <5>1, <5>2, RestTyped
        <5>4. QED BY <3>1, <3>5, <4>5, <5>3
      <4>6. QED BY <2>1, <4>1, <4>2, <4>3, <4>4, <4>5
    <3>10. CASE ~StreamGoesOn(r)
      <4>1. /\ todo' = Tail(todo) /\ NextChunk
            /\ ~(streamed' < Head(todo)[2])
        BY <2>3, <3>8, <3>10 DEF Stream, StreamGoesOn
      <4>2. PICK end : end = ChunkEnd
        OBVIOUS
      <4>3. UpTo(end)'
        BY <1>2, <3>1, <3>5, <4>2
      <4>4. ASSUME "data" \notin missing PROVE Whole' /\ got'.len = end
        <5>1. Whole' /\ got'.len = at + r.piece.len
          BY <3>6, <4>4
        <5>2. at + r.piece.len <= ChunkEnd
          BY <3>1, <4>4
        <5>3. at + r.piece.len >= ChunkEnd
          <6>1. streamed' \in Nat
            BY <1>2, <3>1, <3>2
          <6>2. QED BY <1>2, <3>7, <4>1, <6>1
        <5>4. at + r.piece.len \in Nat
          BY <1>2, <3>1
        <5>5. QED BY <1>2, <4>2, <5>1, <5>2, <5>3, <5>4
      <4>5. /\ pc' \in {"read_buffer", "free_data"} /\ Began'
            /\ pc' = "free_data" => todo' = <<>>
        BY <2>2, <4>1, <4>2, <4>3, <4>4
      <4>6. QED BY <4>5
    <3>11. QED BY <3>9, <3>10
  <2>4. CASE r.cmd # "data"
    <3>1. ASSUME "data" \notin missing PROVE at = ChunkEnd
      <4>1. PiecesIn(toClient) \in Nat /\ Len(Rest(toClient)) = PiecesIn(toClient)
        BY <2>1, RestIs
      <4>2. Head(toClient) = toClient[1]
        BY <2>1, HeadSaid
      <4>3. 1 \notin 1..PiecesIn(toClient)
        BY <2>1, <2>4, <4>2 DEF StreamFrom
      <4>4. Len(Rest(toClient)) = 0
        BY <4>1, <4>3
      <4>5. QED BY <2>1, <3>1, <4>4 DEF EndAt, EndsAt
    <3>2. got' = got
      BY <2>4 DEF Stream
    <3>3. PICK end : end = ChunkEnd
      OBVIOUS
    <3>4. UpTo(end)' /\ Whole' = Whole
      BY <1>1, <1>4, <3>2, <3>3 DEF UpTo, Whole
    <3>5. CASE StreamFails(r)
      BY <3>5 DEF Stream, Return
    <3>6. CASE ~StreamFails(r)
      <4>1. todo' = Tail(todo) /\ NextChunk
        BY <2>4, <3>6 DEF Stream, StreamGoesOn
      <4>2. "data" \notin missing => Whole' /\ got'.len = end
        BY <1>3, <3>1, <3>2, <3>3, <3>4
      <4>3. /\ pc' \in {"read_buffer", "free_data"} /\ Began'
            /\ pc' = "free_data" => todo' = <<>>
        BY <2>2, <3>3, <3>4, <4>1, <4>2
      <4>4. QED BY <4>3
    <3>7. QED BY <3>5, <3>6
  <2>5. QED BY <2>3, <2>4
<1>7. QED BY <1>5, <1>6

LEMMA PrepareBufferKeeps ==
  ASSUME Typed, Tidy, Retrieving, UNCHANGED device, NEW r, PrepareBuffer(r),
         \/ r = Silence
         \/ toClient # <<>> /\ r = Head(toClient).says
  PROVE  /\ pc' \in {"ready", "prepare_buffer", "read_buffer", "free_data"}
         /\ pc' \in {"read_buffer", "free_data"} => Began'
         /\ pc' = "free_data" => todo' = <<>>
<1>1. pc = "prepare_buffer" /\ UNCHANGED <<kind, buffer>>
  BY DEF PrepareBuffer, device
<1>2. r # Silence => AnswersPrepare(r)
  BY <1>1 DEF Retrieving
<1>3. AllOf' = AllOf /\ AllOf \in Nat
  BY <1>1, AllOfTyped DEF AllOf, TableBytes, SizeOf
<1>4. CASE TableRead \/ Return(FALSE)
  BY <1>4 DEF TableRead, NextTable, Ask, Return
<1>5. ASSUME r.cmd \in {"ack_ok", "prepare_data"}, \E total \in ToldSize(r) : todo' = Chunks(total),
             got' = Nothing, NextChunk
      PROVE  /\ pc' \in {"read_buffer", "free_data"} /\ Began'
             /\ pc' = "free_data" => todo' = <<>>
  <2>1. r # Silence
    BY <1>5 DEF Silence
  <2>2. buffer.table = Head(reads) /\ ToldSize(r) = {AllOf}
    BY <1>2, <1>5, <2>1 DEF AnswersPrepare, Brings
  <2>3. Cover(todo', 0, AllOf) /\ todo' \in Seq(Nat \X Nat)
    BY <1>3, <1>5, <2>2, ChunksCover
  <2>4. /\ pc' \in {"read_buffer", "free_data"} /\ reads' = reads
        /\ pc' = "free_data" => todo' = <<>>
    BY <1>5 DEF NextChunk, Ask
  <2>5. got'.whole /\ got'.len = 0
    BY <1>5 DEF Nothing
  <2>6. Before' = 0
    <3>1. CASE todo' = <<>>
      BY <1>3, <2>3, <3>1 DEF Before, Cover
    <3>2. CASE todo' # <<>>
      <4>1. Head(todo') = todo'[1]
        BY <2>3, <3>2, HeadTailProperties
      <4>2. todo'[1][1] = 0
        BY <2>3, <3>2 DEF Cover
      <4>3. QED BY <3>2, <4>1, <4>2 DEF Before, ChunkAt
    <3>3. QED BY <3>1, <3>2
  <2>7. Whole' /\ UpTo(Before)' /\ got'.len = Before' + 0
    <3>1. Whole'
      BY <2>5 DEF Whole
    <3>2. QED BY <2>5, <2>6, <3>1 DEF UpTo
  <2>8. Cover(todo, Before, AllOf)'
    BY <1>3, <2>3, <2>6 DEF Cover
  <2>9. buffer'.table = Head(reads') /\ pc' # "stream"
    BY <1>1, <2>2, <2>4
  <2>10. Began'
    BY <2>7, <2>8, <2>9 DEF Began
  <2>11. QED BY <2>4, <2>10
<1>6. QED BY <1>4, <1>5 DEF PrepareBuffer

\* The table is kept, and its rest is what is on the line, while the client
\* reads it.
LEMMA StepKeepsRetrieving ==
  ASSUME Typed, Calling, Tidy, Line, Line', Retrieving, UNCHANGED device, NEW r, Step(r),
         \/ r = Silence /\ toClient' = <<>>
         \/ toClient # <<>> /\ r = Head(toClient).says /\ toClient' = Tail(toClient)
  PROVE  Retrieving'
<1>1. \/ r = Silence
      \/ toClient # <<>> /\ r = Head(toClient).says
  OBVIOUS
<1>2. UNCHANGED <<kind, buffer, missing>>
  BY DEF device
<1>3. CASE pc' \notin Reading
  BY <1>3 DEF Reading, Retrieving
<1>4. CASE pc' \in Reading
  <2>1. pc' # "stream" => toClient' = <<>>
    <3> SUFFICES ASSUME pc' # "stream" PROVE toClient' = <<>>
      OBVIOUS
    <3>1. ~Returns /\ ~Streams
      BY <1>4 DEF Returns, Return, Streams, Reading
    <3>2. PICK p : Ask(p)
      BY <3>1, StepLeads DEF Asks
    <3>3. QED BY <3>2, AskedAlone
  <2>2. ASSUME pc' # "prepare_buffer"
        PROVE  /\ Began' /\ (pc' = "free_data" => todo' = <<>>)
               /\ pc' = "stream" =>
                    /\ toClient # <<>> /\ todo' = todo
                    /\ EndsAt(Tail(toClient), ChunkAt + streamed')
                    /\ \A x \in {ChunkEnd} : UpTo(x)'
                    /\ PiecesIn(Tail(toClient)) > 0 =>
                         \A x \in {Rest(Tail(toClient))[1].from} : UpTo(x)'
    <3>1. PrepareBuffer(r) \/ ReadBuffer(r) \/ Stream(r)
      BY <1>4, <2>2 DEF Step, Connect, Auth, ReadSizes, FreeData, ClearAttendance, DeviceInfo,
             SendData, PushChunk, SaveTemplate, Exit, NextTable, TableRead, Return, Ask, Reading
    <3>2. CASE PrepareBuffer(r)
      <4>1. /\ pc' \in {"ready", "prepare_buffer", "read_buffer", "free_data"}
            /\ pc' \in {"read_buffer", "free_data"} => Began'
            /\ pc' = "free_data" => todo' = <<>>
        BY <1>1, <3>2, PrepareBufferKeeps
      <4>2. QED BY <1>4, <2>2, <4>1 DEF Reading
    <3>3. CASE ReadBuffer(r)
      <4>1. /\ pc' # "ready" => Began'
            /\ pc' = "free_data" => todo' = <<>>
            /\ pc' = "stream" =>
                 /\ toClient # <<>> /\ todo' = todo /\ got' = got
                 /\ EndsAt(Tail(toClient), ChunkAt + streamed')
                 /\ UpTo(ChunkEnd)
                 /\ PiecesIn(Tail(toClient)) > 0 => UpTo(Rest(Tail(toClient))[1].from)
        BY <1>1, <3>3, ReadBufferKeeps
      <4>2. ASSUME got' = got, NEW x, UpTo(x) PROVE UpTo(x)'
        BY <1>2, <4>2 DEF UpTo, Whole
      <4>3. QED BY <1>4, <4>1, <4>2 DEF Reading
    <3>4. CASE Stream(r)
      <4>1. /\ pc' # "ready" => Began'
            /\ pc' = "free_data" => todo' = <<>>
            /\ pc' = "stream" =>
                 /\ toClient # <<>> /\ todo' = todo
                 /\ EndsAt(Tail(toClient), ChunkAt + streamed')
                 /\ \A x \in {ChunkEnd} : UpTo(x)'
                 /\ PiecesIn(Tail(toClient)) > 0 =>
                      \A x \in {Rest(Tail(toClient))[1].from} : UpTo(x)'
        BY <1>1, <3>4, StreamKeeps
      <4>2. QED BY <1>4, <4>1 DEF Reading
    <3>5. QED BY <3>1, <3>2, <3>3, <3>4
  <2>3. CASE pc' = "prepare_buffer"
    BY <2>1, <2>3 DEF Retrieving
  <2>4. CASE pc' = "stream"
    <3>1. /\ Began' /\ toClient # <<>> /\ todo' = todo
          /\ EndsAt(Tail(toClient), ChunkAt + streamed')
          /\ \A x \in {ChunkEnd} : UpTo(x)'
          /\ PiecesIn(Tail(toClient)) > 0 =>
               \A x \in {Rest(Tail(toClient))[1].from} : UpTo(x)'
      BY <2>2, <2>4
    <3>2. (ChunkAt + streamed)' = ChunkAt + streamed' /\ ChunkEnd' = ChunkEnd
      BY <3>1 DEF ChunkAt, ChunkEnd
    <3>3. UpTo(ChunkEnd)'
      BY <3>1, <3>2 DEF UpTo
    <3>4. CASE toClient' = <<>>
      <4>1. PiecesIn(toClient)' = 0
        BY <3>4, EmptySeq DEF PiecesIn
      <4>2. QED BY <2>4, <3>1, <3>3, <3>4, <4>1 DEF Retrieving, Streaming
    <3>5. CASE toClient' # <<>>
      <4>1. toClient' = Tail(toClient)
        BY <3>5
      <4>2. PICK left : left = Tail(toClient)
        OBVIOUS
      <4>3. /\ Rest(toClient)' = Rest(left) /\ PiecesIn(toClient)' = PiecesIn(left)
            /\ EndAt(Rest(left), ChunkAt + streamed', ChunkEnd)
                 => EndAt(Rest(toClient), ChunkAt + streamed, ChunkEnd)'
        BY <1>2, <3>2, <4>1, <4>2, StreamKept
      <4>4. EndsAt(toClient, ChunkAt + streamed)'
        BY <1>2, <3>1, <4>2, <4>3 DEF EndsAt
      <4>5. ASSUME PiecesIn(toClient)' > 0 PROVE UpTo(Rest(toClient)[1].from)'
        BY <3>1, <4>2, <4>3, <4>5 DEF UpTo
      <4>6. QED BY <2>4, <3>1, <3>3, <4>4, <4>5 DEF Retrieving, Streaming
    <3>6. QED BY <3>4, <3>5
  <2>5. CASE pc' \in {"read_buffer", "free_data"}
    BY <2>1, <2>2, <2>5 DEF Retrieving
  <2>6. QED BY <1>4, <2>3, <2>4, <2>5 DEF Reading
<1>5. QED BY <1>3, <1>4

LEMMA BeganKept ==
  ASSUME Began, UNCHANGED <<client, kind, buffer>>, missing \subseteq missing'
  PROVE  Began'
<1>1. UNCHANGED <<pc, reads, todo, got, streamed>>
  BY DEF client
<1>2. Before' = Before /\ AllOf' = AllOf /\ Whole' = Whole
  BY <1>1 DEF Before, ChunkAt, AllOf, TableBytes, SizeOf, Whole
<1>3. Cover(todo, Before, AllOf)' /\ (UpTo(Before) => UpTo(Before)')
  BY <1>1, <1>2 DEF Began, Cover, UpTo
<1>4. "data" \notin missing' => "data" \notin missing
  OBVIOUS
<1>5. QED BY <1>1, <1>2, <1>3, <1>4 DEF Began

\* What the terminal does to the table is to answer the command it was sent.
LEMMA TerminalKeepsRetrieving ==
  ASSUME Retrieving, UNCHANGED <<client, kind>>, pc # "stream",
         missing \subseteq missing', pc # "prepare_buffer" => UNCHANGED buffer,
         pc = "prepare_buffer" /\ toClient' # <<>> => AnswersPrepare(Head(toClient).says)',
         pc = "read_buffer" /\ toClient' # <<>> => AnswersRead(Head(toClient).says)'
  PROVE  Retrieving'
<1>1. pc' = pc /\ todo' = todo
  BY DEF client
<1>2. pc \in {"read_buffer", "free_data"} => Began'
  BY BeganKept DEF Retrieving
<1>3. QED BY <1>1, <1>2 DEF Retrieving

\* PREPARE_BUFFER prepares the table that was asked for, and says so.
LEMMA PreparedIs ==
  ASSUME UNCHANGED <<kind, reads>>, pc = "prepare_buffer", Execute(Asked),
         NEW r, r = Answers(Asked)[1]
  PROVE  AnswersPrepare(r)'
<1>1. Asked = [cmd |-> "prepare_buffer", table |-> Head(reads)]
  BY DEF Asked
<1>2. r = Prepared[1]
  BY <1>1 DEF Answers
<1>3. (buffer.table = Head(reads))' /\ Total = AllOf'
  BY <1>1 DEF Execute, Total, AllOf, TableBytes, SizeOf
<1>4. CASE kind.style = "inline"
  <2> DEFINE p == [table |-> buffer'.table, of |-> buffer'.of, from |-> 0, len |-> Total]
  <2>1. r = [cmd |-> "data", piece |-> p]
    BY <1>2, <1>4 DEF Prepared
  <2>2. p.table = buffer'.table /\ p.of = buffer'.of /\ p.from = 0 /\ p.len = AllOf'
    BY <1>3
  <2> HIDE DEF p
  <2>3. r.cmd = "data" /\ r.piece = p
    BY <2>1
  <2>4. Brings(r, 0, AllOf)'
    BY <2>2, <2>3 DEF Brings
  <2>5. QED BY <1>3, <2>4 DEF AnswersPrepare
<1>5. CASE kind.style # "inline"
  <2>1. r = [cmd |-> "ack_ok", total |-> Total] \/ r = [cmd |-> "prepare_data", total |-> Total]
    BY <1>2, <1>5 DEF Prepared
  <2>2. r.cmd \in {"ack_ok", "prepare_data"} /\ ToldSize(r)' = {AllOf'}
    BY <1>3, <2>1 DEF ToldSize
  <2>3. QED BY <1>3, <2>2 DEF AnswersPrepare
<1>6. QED BY <1>4, <1>5

\* READ_BUFFER is answered with the chunk that was asked for, all of it.
LEMMA ChunkIs ==
  ASSUME Typed, Tidy, Line, Retrieving, toDevice # <<>>, pc = "read_buffer",
         UNCHANGED <<client, kind, buffer, missing>>, Chunk(Asked) \in Seq(Packets),
         Reply(Head(toDevice), Chunk(Asked)), toClient' # <<>>,
         NEW r, r = Head(toClient').says
  PROVE  AnswersRead(r)'
<1> DEFINE size == Head(todo)[2]
           p == PiecesOf(ChunkAt, size, size)
<1>1. /\ Asked.from = ChunkAt /\ Asked.len = size
      /\ todo # <<>> /\ todo' = todo /\ Began /\ KindOK /\ BufferOK
  BY DEF Asked, ChunkAt, Typed, Busy, TerminalOK, client, Retrieving
<1>2. /\ ChunkAt \in Nat /\ size \in Nat /\ ChunkEnd = ChunkAt + size
      /\ ChunkAt' = ChunkAt /\ ChunkEnd' = ChunkEnd
  BY <1>1, ChunkTyped DEF ChunkAt, ChunkEnd
<1>3. size > 0 /\ ChunkEnd <= AllOf
  BY <1>1, CoverNext DEF Began
<1>4. /\ toClient' \in Said /\ Len(toClient') = Len(Chunk(Asked))
      /\ \A k \in 1..Len(toClient') : toClient'[k].says = Chunk(Asked)[k]
      /\ r = Chunk(Asked)[1]
  BY AnswerIs
<1> HIDE DEF size
<1>5. CASE kind.style \in {"stream", "bare"}
  <2>1. ChunkEnd <= TableBytes(buffer.table, buffer.of)
    BY <1>3 DEF AllOf
  <2>2. kind.style = "stream" => kind.transport # "tcp"
    BY DEF Tidy
  <2>3. r = Prepare /\ EndAt(Rest(Tail(toClient')), ChunkAt, ChunkEnd)
    BY <1>1, <1>2, <1>4, <1>5, <2>1, <2>2, StreamSent
  <2>4. EndAt(Rest(Tail(toClient)), ChunkAt, ChunkEnd)'
    BY <1>2, <2>3, StreamBegun
  <2>5. r.cmd = "prepare_data"
    BY <2>3 DEF Prepare
  <2>6. QED BY <2>4, <2>5 DEF AnswersRead, EndsAt
<1>6. CASE kind.style \notin {"stream", "bare"}
  <2>1. Chunk(Asked) = Data(p)
    BY <1>1, <1>6 DEF Chunk
  <2>2. /\ p \in Seq(Pieces) /\ Len(p) \in {0, 1}
        /\ Consecutive(p, ChunkAt, ChunkEnd)
        /\ EndAt(p, ChunkAt, ChunkEnd)
    <3>1. ChunkAt + size <= TableBytes(buffer.table, buffer.of) /\ size > 0
      BY <1>2, <1>3 DEF AllOf
    <3>2. QED BY <1>1, <1>2, <3>1, PiecesCover, OnePiece
  <2> HIDE DEF p
  <2>3. Len(p) = 1 /\ 1 \in 1..Len(p)
    <3>1. Len(p) # 0
      BY <1>2, <1>3, <2>2 DEF EndAt
    <3>2. QED BY <2>2, <3>1
  <2>4. r = [cmd |-> "data", piece |-> p[1]]
    BY <1>4, <2>1, <2>2, <2>3, DataTyped
  <2>5. /\ p[1].table = buffer.table /\ p[1].of = buffer.of /\ p[1].from = ChunkAt
        /\ p[1].from + p[1].len = ChunkEnd /\ p[1].len \in Nat
    <3>1. p[1] \in Pieces
      BY <2>2, <2>3, ElementOfSeq
    <3>2. QED BY <2>2, <2>3, <3>1 DEF Consecutive, EndAt, Pieces
  <2>6. p[1].len = size
    BY <1>2, <2>5
  <2>7. r.cmd = "data" /\ r.piece = p[1]
    BY <2>4
  <2>8. Brings(r, ChunkAt, size)'
    BY <1>1, <1>2, <2>5, <2>6, <2>7 DEF Brings, size
  <2>9. QED BY <2>8 DEF AnswersRead, size
<1>7. QED BY <1>5, <1>6

LEMMA ServeKeepsRetrieving ==
  ASSUME Typed, Tidy, Line, Retrieving, Serve
  PROVE  Retrieving'
<1>1. /\ toDevice # <<>> /\ Execute(Head(toDevice).does)
      /\ Reply(Head(toDevice), Answers(Head(toDevice).does))
      /\ UNCHANGED <<client, kind, punched, faults, missing>>
  BY DEF Serve
<1>2. /\ pc # "stream" /\ Head(toDevice).does = Asked /\ Asked \in Requests
      /\ Execute(Asked) /\ Reply(Head(toDevice), Answers(Asked))
  BY <1>1, CommandOnLine
<1>3. Answers(Asked) \in Seq(Packets)
  <2>1. faults' \in 0..MaxFaults
    BY <1>1 DEF Typed, TerminalOK
  <2>2. BufferOK'
    BY <1>1, <1>2, <2>1, ExecuteTypes DEF Typed, TerminalOK
  <2>3. QED BY <1>2, <2>2, AnswersTyped DEF Typed
<1>4. toClient' # <<>> => Head(toClient').says = Answers(Asked)[1]
  BY <1>1, <1>2, <1>3, AnswerIs
<1>5. pc # "prepare_buffer" => UNCHANGED buffer
  BY <1>2 DEF Execute, Asked
<1>6. ASSUME pc = "prepare_buffer", toClient' # <<>>
      PROVE  AnswersPrepare(Head(toClient).says)'
  <2>1. reads' = reads
    BY <1>1 DEF client
  <2>2. PICK r : r = Head(toClient').says
    OBVIOUS
  <2>3. AnswersPrepare(r)'
    BY <1>1, <1>2, <1>4, <1>6, <2>1, <2>2, PreparedIs
  <2>4. QED BY <2>2, <2>3 DEF AnswersPrepare, Brings, ToldSize
<1>7. ASSUME pc = "read_buffer", toClient' # <<>>
      PROVE  AnswersRead(Head(toClient).says)'
  <2>1. Answers(Asked) = Chunk(Asked) /\ buffer' = buffer
    BY <1>5, <1>7 DEF Answers, Asked
  <2>2. PICK r : r = Head(toClient').says
    OBVIOUS
  <2>3. AnswersRead(r)'
    BY <1>1, <1>2, <1>3, <1>7, <2>1, <2>2, ChunkIs
  <2>4. QED BY <2>2, <2>3 DEF AnswersRead, Brings, EndsAt
<1>8. QED BY <1>1, <1>2, <1>5, <1>6, <1>7, TerminalKeepsRetrieving

LEMMA MisbehaveKeepsRetrieving ==
  ASSUME Typed, Line, Retrieving, Misbehave
  PROVE  Retrieving'
<1>1. /\ toDevice # <<>> /\ UNCHANGED <<client, kind, missing>>
      /\ \/ Reply(Head(toDevice), <<[cmd |-> "ack_error"]>>) /\ UNCHANGED buffer
         \/ UNCHANGED <<toClient, buffer>>
         \/ Execute(Head(toDevice).does) /\ UNCHANGED toClient
  BY DEF Misbehave
<1>2. toClient = <<>> /\ pc # "stream" /\ Head(toDevice).does = Asked
  BY <1>1, CommandOnLine
<1>3. pc # "prepare_buffer" => UNCHANGED buffer
  BY <1>1, <1>2 DEF Execute, Asked
<1>4. toClient' # <<>> => Head(toClient').says.cmd = "ack_error"
  <2> SUFFICES ASSUME toClient' # <<>>
               PROVE  Head(toClient').says.cmd = "ack_error"
    OBVIOUS
  <2> DEFINE e == [cmd |-> "ack_error"]
             s == <<e>>
  <2>1. e \in Packets /\ e.cmd = "ack_error"
    BY DEF Packets
  <2>2. Reply(Head(toDevice), s)
    BY <1>1, <1>2
  <2> HIDE DEF e
  <2>3. s \in Seq(Packets) /\ s[1] = e
    BY <2>1
  <2> HIDE DEF s
  <2>4. QED BY <1>1, <2>1, <2>2, <2>3, AnswerIs
<1>5. pc = "prepare_buffer" /\ toClient' # <<>> => AnswersPrepare(Head(toClient).says)'
  BY <1>4 DEF AnswersPrepare
<1>6. pc = "read_buffer" /\ toClient' # <<>> => AnswersRead(Head(toClient).says)'
  BY <1>4 DEF AnswersRead
<1>7. QED BY <1>1, <1>2, <1>3, <1>5, <1>6, TerminalKeepsRetrieving

LEMMA SameRetrieving ==
  ASSUME Retrieving, UNCHANGED <<client, wire, kind, buffer, missing>>
  PROVE  Retrieving'
<1>1. UNCHANGED <<pc, todo, streamed, reads, toClient>>
  BY DEF client, wire
<1>2. /\ (ChunkAt + streamed)' = ChunkAt + streamed
      /\ ChunkAt' = ChunkAt /\ ChunkEnd' = ChunkEnd
      /\ Tail(toClient)' = Tail(toClient)
  BY <1>1 DEF ChunkAt, ChunkEnd
<1>3. pc \in {"read_buffer", "stream", "free_data"} => Began'
  BY BeganKept DEF Retrieving
<1>4. pc = "prepare_buffer" /\ toClient # <<>> => AnswersPrepare(Head(toClient).says)'
  <2>1. AllOf' = AllOf
    BY DEF AllOf, TableBytes, SizeOf
  <2>2. QED BY <1>1, <2>1 DEF Retrieving, AnswersPrepare, Brings, ToldSize
<1>5. pc = "read_buffer" /\ toClient # <<>> => AnswersRead(Head(toClient).says)'
  <2>1. EndsAt(Tail(toClient), ChunkAt) => EndsAt(Tail(toClient), ChunkAt)'
    BY <1>2, StreamBegun DEF EndsAt
  <2>2. QED BY <1>1, <1>2, <2>1 DEF Retrieving, AnswersRead, Brings
<1>6. Streaming => Streaming'
  <2>1. PICK packets : packets = toClient
    OBVIOUS
  <2>2. /\ Rest(toClient)' = Rest(packets) /\ PiecesIn(toClient)' = PiecesIn(packets)
        /\ EndAt(Rest(packets), ChunkAt + streamed, ChunkEnd)
             => EndAt(Rest(toClient), ChunkAt + streamed, ChunkEnd)'
    BY <1>1, <1>2, <2>1, StreamKept
  <2>3. /\ EndsAt(toClient, ChunkAt + streamed) => EndsAt(toClient, ChunkAt + streamed)'
        /\ Rest(toClient)' = Rest(toClient) /\ PiecesIn(toClient)' = PiecesIn(toClient)
    BY <2>1, <2>2 DEF EndsAt
  <2>4. UpTo(ChunkEnd) => UpTo(ChunkEnd)'
    BY <1>1, <1>2 DEF UpTo, Whole, client
  <2>5. UpTo(Rest(toClient)[1].from) => UpTo(Rest(toClient)[1].from)'
    BY <2>3 DEF UpTo, Whole, client
  <2>6. QED BY <1>1, <2>3, <2>4, <2>5 DEF Streaming
<1>7. QED BY <1>1, <1>3, <1>4, <1>5, <1>6 DEF Retrieving

\* A chunk of which nothing comes is behind what came, too.
LEMMA AckOnlyKeepsRetrieving ==
  ASSUME Typed, Line, Retrieving, AckOnly
  PROVE  Retrieving'
<1> DEFINE s == <<Ack>>
<1>1. /\ toDevice # <<>> /\ UNCHANGED <<client, kind, buffer>>
      /\ Reply(Head(toDevice), s) /\ Head(toDevice).does.cmd = "read_buffer"
      /\ missing' = missing \cup {"data"}
  BY DEF AckOnly
<1>2. toClient = <<>> /\ pc = "read_buffer"
  BY <1>1, CommandOnLine DEF Asked
<1>3. Ack \in Packets /\ Ack.cmd = "ack_ok"
  BY DEF Packets, Ack
<1>4. s \in Seq(Packets) /\ s[1] = Ack
  BY <1>3
<1> HIDE DEF s
<1>5. toClient' # <<>> => Head(toClient').says.cmd = "ack_ok"
  BY <1>1, <1>3, <1>4, AnswerIs
<1>6. toClient' # <<>> => AnswersRead(Head(toClient).says)'
  BY <1>1, <1>5 DEF AnswersRead
<1>7. QED BY <1>1, <1>2, <1>6, TerminalKeepsRetrieving

\* A datagram of a stream that is lost leaves the others in their places.
LEMMA LoseKeepsRetrieving ==
  ASSUME Typed, Tidy', Line, Retrieving, Lose
  PROVE  Retrieving'
<1>1. /\ UNCHANGED <<client, kind, buffer>> /\ kind.transport # "tcp"
      /\ toClient' \in Said /\ toClient # <<>> /\ Answering
  BY LoseIs
<1>2. PICK i \in 1..Len(toClient) :
        /\ toClient' = Seqs!RemoveAt(toClient, i)
        /\ missing' = missing \cup {toClient[i].says.cmd}
        /\ toClient[i].says.cmd # "prepare_data"
  BY LoseIs
<1>3. UNCHANGED <<pc, todo, streamed, got>> /\ toClient \in Said
  BY <1>1 DEF client, Typed
<1>4. pc \in {"read_buffer", "stream"} =>
        /\ ChunkAt \in Nat /\ ChunkEnd \in Nat /\ ChunkAt + streamed \in Nat
        /\ ChunkAt' = ChunkAt /\ ChunkEnd' = ChunkEnd
        /\ (ChunkAt + streamed)' = ChunkAt + streamed
  <2> SUFFICES ASSUME pc \in {"read_buffer", "stream"}
               PROVE  /\ ChunkAt \in Nat /\ ChunkEnd \in Nat /\ ChunkAt + streamed \in Nat
                      /\ ChunkAt' = ChunkAt /\ ChunkEnd' = ChunkEnd
                      /\ (ChunkAt + streamed)' = ChunkAt + streamed
    OBVIOUS
  <2>1. ChunkAt \in Nat /\ ChunkEnd \in Nat /\ streamed \in Nat
    BY ChunkTyped DEF Typed, Busy, ClientOK
  <2>2. QED BY <1>3, <2>1 DEF ChunkAt, ChunkEnd
<1>5. pc \in {"read_buffer", "stream", "free_data"} => Began'
  BY <1>1, <1>2, BeganKept DEF Retrieving
<1>6. CASE pc = "stream"
  <2>1. PICK left : left = toClient'
    OBVIOUS
  <2>2. StreamFrom(toClient, ChunkAt + streamed, ChunkEnd, missing)
    BY <1>1, <1>6 DEF Answering, Answered
  <2>3. /\ "data" \notin missing' => Rest(left) = Rest(toClient)
        /\ PiecesIn(left) > 0 => /\ PiecesIn(toClient) > 0
                                 /\ Rest(left)[1].from >= Rest(toClient)[1].from
        /\ left \in Said /\ StreamFrom(left, ChunkAt + streamed, ChunkEnd, missing')
    BY <1>1, <1>2, <1>3, <1>4, <1>6, <2>1, <2>2, StreamLoses
  <2>4. /\ Rest(toClient)' = Rest(left) /\ PiecesIn(toClient)' = PiecesIn(left)
        /\ EndAt(Rest(left), ChunkAt + streamed, ChunkEnd)
             => EndAt(Rest(toClient), ChunkAt + streamed, ChunkEnd)'
    BY <1>1, <1>4, <1>6, <2>1, StreamKept
  <2>5. EndsAt(toClient, ChunkAt + streamed)'
    <3>1. "data" \notin missing' => "data" \notin missing
      BY <1>2
    <3>2. EndsAt(toClient, ChunkAt + streamed)
      BY <1>1, <1>6 DEF Retrieving, Streaming
    <3>3. QED BY <2>3, <2>4, <3>1, <3>2 DEF EndsAt
  <2>6. ASSUME NEW x, UpTo(x) PROVE UpTo(x)'
    BY <1>1, <1>3, <2>6 DEF UpTo, Whole
  <2>7. UpTo(ChunkEnd)'
    <3>1. UpTo(ChunkEnd)
      BY <1>6 DEF Retrieving, Streaming
    <3>2. QED BY <1>1, <1>3, <1>4, <1>6, <3>1 DEF UpTo, Whole
  <2>8. ASSUME PiecesIn(toClient)' > 0 PROVE UpTo(Rest(toClient)[1].from)'
    <3>1. PiecesIn(left) > 0 /\ PiecesIn(toClient) > 0
      BY <2>3, <2>4, <2>8
    <3>2. /\ 1 \in 1..PiecesIn(left) /\ 1 \in 1..PiecesIn(toClient)
      BY <1>3, <2>3, <3>1, RestIs
    <3>3. Rest(left)[1].from \in Nat /\ Rest(toClient)[1].from \in Nat
      BY <1>3, <2>2, <2>3, <3>2, RestTyped
    <3>4. UpTo(Rest(toClient)[1].from)
      BY <1>6, <3>1 DEF Retrieving, Streaming
    <3>5. UpTo(Rest(left)[1].from)
      BY <2>3, <3>1, <3>3, <3>4, UpToMore
    <3>6. QED BY <1>1, <1>3, <2>4, <3>5 DEF UpTo, Whole
  <2>9. QED BY <1>3, <1>5, <1>6, <2>5, <2>7, <2>8 DEF Retrieving, Streaming
<1>7. CASE pc = "read_buffer" /\ Head(toClient).says.cmd = "prepare_data"
  <2>1. i # 1
    BY <1>1, <1>2, <1>3, <1>7, HeadSaid
  <2>2. /\ i - 1 \in 1..Len(Tail(toClient)) /\ Tail(toClient)[i - 1] = toClient[i]
        /\ Tail(toClient) \in Said /\ Head(toClient') = Head(toClient)
        /\ Tail(toClient') = Seqs!RemoveAt(Tail(toClient), i - 1)
    BY <1>2, <1>3, <2>1, TailRemoved
  <2>3. PICK left : left = Tail(toClient')
    OBVIOUS
  <2>4. StreamFrom(Tail(toClient), ChunkAt, ChunkEnd, missing)
    BY <1>1, <1>7 DEF Answering, Answered
  <2>5. "data" \notin missing' => Rest(left) = Rest(Tail(toClient))
    <3> DEFINE q == Tail(toClient)
               j == i - 1
    <3>1. /\ q \in Said /\ j \in 1..Len(q) /\ left = Seqs!RemoveAt(q, j)
          /\ missing' = missing \cup {q[j].says.cmd}
          /\ StreamFrom(q, ChunkAt, ChunkEnd, missing)
          /\ ChunkAt \in Nat /\ ChunkEnd \in Nat
      BY <1>2, <1>4, <1>7, <2>2, <2>3, <2>4
    <3> HIDE DEF q, j
    <3>2. "data" \notin missing' => Rest(left) = Rest(q)
      BY <1>1, <3>1, StreamLoses
    <3>3. QED BY <3>2 DEF q
  <2>6. EndAt(Rest(left), ChunkAt, ChunkEnd) => EndAt(Rest(Tail(toClient)), ChunkAt, ChunkEnd)'
    BY <1>1, <1>4, <1>7, <2>3, StreamBegun
  <2>7. EndsAt(Tail(toClient), ChunkAt)
    BY <1>1, <1>7 DEF Retrieving, AnswersRead, Brings
  <2>8. EndsAt(Tail(toClient), ChunkAt)'
    <3>1. "data" \notin missing' => "data" \notin missing
      BY <1>2
    <3>2. QED BY <2>5, <2>6, <2>7, <3>1 DEF EndsAt
  <2>9. AnswersRead(Head(toClient).says)'
    BY <1>7, <2>2, <2>8 DEF AnswersRead
  <2>10. QED BY <1>3, <1>5, <1>7, <2>9 DEF Retrieving
<1>8. CASE pc # "stream" /\ ~(pc = "read_buffer" /\ Head(toClient).says.cmd = "prepare_data")
  <2>1. toClient' = <<>>
    BY <1>8, LoneLost
  <2>2. QED BY <1>3, <1>5, <1>8, <2>1 DEF Retrieving
<1>9. QED BY <1>6, <1>7, <1>8

LEMMA RetrievingStep ==
  ASSUME Typed, Calling, Tidy', Line, Line', Retrieving, [Next]_vars
  PROVE  Retrieving'
<1>0. Tidy
  BY TidyBefore
<1>1. CASE Call
  <2>1. Head(script) \in Calls
    BY <1>1, HeadTailProperties DEF Call, Typed, ClientOK
  <2>2. pc' \notin Reading
    BY <1>1, <2>1 DEF Call, Ask, First, Calls, Reading
  <2>3. QED BY <2>2 DEF Retrieving, Reading
<1>2. CASE Receive
  BY <1>0, <1>2, StepKeepsRetrieving DEF Receive
<1>3. CASE Timeout
  <2>1. Step(Silence) /\ toClient' = <<>> /\ UNCHANGED device
    BY <1>3 DEF Timeout
  <2>2. QED BY <1>0, <2>1, StepKeepsRetrieving
<1>4. CASE Serve
  BY <1>0, <1>4, ServeKeepsRetrieving
<1>5. CASE Misbehave
  BY <1>5, MisbehaveKeepsRetrieving
<1>6. CASE Punch
  BY <1>6, SameRetrieving DEF Punch
<1>7. CASE UNCHANGED vars
  BY <1>7, SameRetrieving DEF vars, device
<1>8. CASE AckOnly
  BY <1>8, AckOnlyKeepsRetrieving
<1>9. CASE Lose
  BY <1>9, LoseKeepsRetrieving
<1>10. QED BY <1>1, <1>2, <1>3, <1>4, <1>5, <1>6, <1>7, <1>8, <1>9 DEF Next

LEMMA AlwaysRetrieving == Spec => [](Typed /\ Calling /\ (Tidy => Line /\ Retrieving))
<1> DEFINE Inv == Tidy => Retrieving
<1>1. Init => Inv
  BY DEF Init, Retrieving
<1>2. /\ Typed /\ Calling /\ (Tidy => Line) /\ (Tidy => Line)' /\ Inv /\ [Next]_vars
      => Inv'
  <2>1. [Next]_vars => (Tidy' => Tidy)
    BY TidyBefore
  <2>2. QED BY <2>1, RetrievingStep
<1>3. QED BY <1>1, <1>2, AlwaysInLine, PTL DEF Spec


-----------------------------------------------------------------------------
\* The result of a pull.

LEMMA DivExact ==
  ASSUME NEW a \in Nat, NEW b \in Nat \ {0}
  PROVE  (a * b) \div b = a
<1> DEFINE c == a * b
           q == c \div b
<1>1. c \in Nat
  OBVIOUS
<1> HIDE DEF c
<1>2. q \in Nat /\ c % b \in 0..(b - 1) /\ c = q * b + (c % b)
  BY <1>1, DivMod
<1> HIDE DEF q
<1>3. c = a * b /\ q * b \in Nat /\ a * b \in Nat
  BY <1>2 DEF c
<1>4. ASSUME q < a PROVE FALSE
  <2>1. (q + 1) * b <= a * b
    BY <1>2, <1>4, TimesMonotonic
  <2>2. (q + 1) * b = q * b + b
    BY <1>2
  <2>3. QED BY <1>2, <1>3, <2>1, <2>2
<1>5. ASSUME q > a PROVE FALSE
  <2>1. (a + 1) * b <= q * b
    BY <1>2, <1>5, TimesMonotonic
  <2>2. (a + 1) * b = a * b + b
    OBVIOUS
  <2>3. QED BY <1>2, <1>3, <2>1, <2>2
<1>6. q = a
  <2>1. q \in Nat
    BY <1>2
  <2>2. ~(q < a) /\ ~(q > a)
    BY <1>4, <1>5
  <2>3. QED BY <2>1, <2>2
<1>7. QED BY <1>6 DEF q, c

\* A log that came whole is decoded to its records, when their number is known.
LEMMA WholeLog ==
  ASSUME KindOK, NEW of \in Seq(Nat), NEW g, g.whole, g.table = "log", g.of = of,
         g.len = TableBytes("log", of)
  PROVE  decode_attendance_data(g, SizeOf("log"), Len(of)) = of
<1> DEFINE n == Len(of)
           size == SizeOf("log")
           total == size * n
<1>1. n \in Nat
  BY LenProperties
<1>2. size \in {8, 16, 40}
  <2>1. kind.size \in RecordSizes
    BY DEF KindOK
  <2>2. QED BY <2>1, ZkAssumption DEF SizeOf
<1>3. g.len = 4 + total
  BY SizesOfTables
<1>4. total \in Nat /\ (n > 0 => total > 0) /\ (n = 0 => total = 0)
  BY <1>1, <1>2
<1>5. total \div size = n
  <2>1. total = n * size
    BY <1>1, <1>2
  <2>2. QED BY <1>1, <1>2, <2>1, DivExact
<1>6. n > 0 => total \div n = size
  BY <1>1, <1>2, DivExact
<1>7. SubSeq(of, 1, n) = of
  BY SubSeqFull
<1> HIDE DEF total, size
<1>8. g.len - Header = total /\ ~(g.len < Header)
  BY <1>3, <1>4 DEF Header
<1>9. decode_attendance_data(g, size, n) =
        IF total = 0 THEN <<>> ELSE Decoded(g, size, AttendanceSize(total, total, n))
  BY <1>8 DEF decode_attendance_data, Readable, total
<1>10. CASE n = 0
  BY <1>4, <1>9, <1>10, EmptySeq DEF size
<1>11. CASE n > 0
  <2>1. AttendanceSize(total, total, n) = size
    BY <1>2, <1>6, <1>11 DEF AttendanceSize
  <2>2. Decoded(g, size, size) = of
    BY <1>5, <1>7, <1>8 DEF Decoded
  <2>3. QED BY <1>4, <1>9, <1>11, <2>1, <2>2 DEF size
<1>12. QED BY <1>1, <1>10, <1>11

\* A pull that succeeded, with the number of records of the log and without a
\* hole, returned the log.
Pulled ==
  "data" \notin missing /\ Returned("pull") /\ count.records = Len(buffer.of) =>
    tables.log = buffer.of

\* A call that succeeds by an answer.
LEMMA SucceedsBy ==
  ASSUME Typed, NEW r, Step(r), NEW call, Returned(call)'
  PROVE  Return(TRUE) /\ Head(script) = call
<1>1. pc' = "ready" /\ outcome' = [call |-> call, ok |-> TRUE]
  BY DEF Returned
<1>2. ~\E p \in Commands : Ask(p)
  BY <1>1 DEF Ask, Commands
<1>3. \E ok \in BOOLEAN : Return(ok)
  BY <1>1, <1>2 DEF Step, Connect, Auth, ReadSizes, PrepareBuffer, ReadBuffer, Stream, FreeData,
         ClearAttendance, DeviceInfo, SendData, SaveTemplate, Exit, PushChunk, NextTable,
         TableRead, NextChunk, Ask
<1>4. PICK ok \in BOOLEAN : Return(ok)
  BY <1>3
<1>5. outcome' = [call |-> Head(script), ok |-> ok]
  BY <1>4 DEF Return
<1>6. outcome'.call = call /\ outcome'.call = Head(script)
  BY <1>1, <1>5
<1>7. ok = TRUE
  <2>1. outcome'.ok = ok
    BY <1>5
  <2>2. outcome'.ok = TRUE
    BY <1>1
  <2>3. QED BY <2>1, <2>2
<1>8. QED BY <1>4, <1>6, <1>7

\* A call that reads a table succeeds with the bytes of it.
LEMMA PullSucceeds ==
  ASSUME Typed, Calling, NEW r, Step(r), Returned("pull")'
  PROVE  /\ tables'.log = decode_attendance_data(got', SizeOf("log"), count'.records)
         /\ \/ PrepareBuffer(r) /\ r.cmd = "data" /\ got' = Extended(Nothing, r.piece)
            \/ FreeData(r) /\ UNCHANGED got
         /\ reads = <<"log">>
<1>1. Return(TRUE) /\ Head(script) = "pull"
  BY SucceedsBy
<1>2. pc' = "ready" /\ outcome'.ok = TRUE
  BY <1>1 DEF Return
<1>3. pc \in {"sizes"} \cup Reading
  <2>1. pc # "ready"
    BY DEF Step, Connect, Auth, ReadSizes, PrepareBuffer, ReadBuffer, Stream, FreeData,
           ClearAttendance, DeviceInfo, SendData, SaveTemplate, Exit
  <2>2. QED BY <1>1, <2>1 DEF Calling, StepsOf
<1>4. ~NextChunk /\ ~Return(FALSE) /\ ~Ask("prepare_buffer")
  BY <1>2 DEF NextChunk, Ask, Return
<1>5. ~ReadSizes(r)
  <2>1. ReadSizes(r) => reads' = <<"log">> /\ NextTable
    BY <1>1 DEF ReadSizes, TablesOf
  <2>2. <<"log">> # <<>>
    OBVIOUS
  <2>3. QED BY <1>4, <2>1, <2>2 DEF NextTable
<1>6. ~ReadBuffer(r) /\ ~Stream(r)
  BY <1>2, <1>4 DEF ReadBuffer, Stream
<1>7. PrepareBuffer(r) \/ FreeData(r)
  BY <1>3, <1>5, <1>6 DEF Step, Connect, Auth, ClearAttendance, DeviceInfo, SendData, SaveTemplate,
     Exit, Reading
<1>8. reads = <<"log">> /\ Head(reads) = "log"
  <2>1. pc \in Reading
    BY <1>7 DEF PrepareBuffer, FreeData, Reading
  <2>2. reads = <<"log">>
    BY <1>1, <2>1 DEF Calling
  <2>3. QED BY <2>2
<1>9. ASSUME TableRead, UNCHANGED count
      PROVE  tables'.log = decode_attendance_data(got', SizeOf("log"), count'.records)
  <2>1. tables' = [tables EXCEPT !["log"] = decode_attendance_data(got', SizeOf("log"), count.records)]
    BY <1>8, <1>9 DEF TableRead, Decode
  <2>2. tables \in [Tables -> Seq(Nat)] /\ "log" \in Tables
    BY DEF Typed, ClientOK, Tables
  <2>3. QED BY <1>9, <2>1, <2>2
<1>10. CASE PrepareBuffer(r)
  BY <1>4, <1>8, <1>9, <1>10 DEF PrepareBuffer
<1>11. CASE FreeData(r)
  BY <1>8, <1>9, <1>11 DEF FreeData
<1>12. QED BY <1>7, <1>10, <1>11

\* What a pull that succeeded has got is the whole prepared log, or fewer bytes
\* than that when data was lost.
LEMMA PullReadsAll ==
  ASSUME Typed, Calling, Tidy, Line, Retrieving, UNCHANGED device, NEW r, Step(r),
         Returned("pull")',
         \/ r = Silence
         \/ toClient # <<>> /\ r = Head(toClient).says
  PROVE  /\ buffer.table = "log"
         /\ tables'.log = decode_attendance_data(got', SizeOf("log"), count'.records)
         /\ got'.len \in Nat /\ UpTo(AllOf)'
         /\ "data" \notin missing => Whole' /\ got'.len = AllOf
<1>1. /\ tables'.log = decode_attendance_data(got', SizeOf("log"), count'.records)
      /\ \/ PrepareBuffer(r) /\ r.cmd = "data" /\ got' = Extended(Nothing, r.piece)
         \/ FreeData(r) /\ UNCHANGED got
      /\ reads = <<"log">>
  BY PullSucceeds
<1>2. AllOf \in Nat /\ AllOf' = AllOf /\ buffer' = buffer
  BY AllOfTyped DEF AllOf, TableBytes, SizeOf, device
<1>3. CASE PrepareBuffer(r) /\ r.cmd = "data" /\ got' = Extended(Nothing, r.piece)
  <2>1. AnswersPrepare(r)
    BY <1>3 DEF PrepareBuffer, Retrieving, Silence
  <2>2. buffer.table = "log" /\ Brings(r, 0, AllOf)
    BY <1>1, <1>3, <2>1 DEF AnswersPrepare
  <2>3. /\ got'.whole /\ got'.table = r.piece.table /\ got'.of = r.piece.of
        /\ got'.len = 0 + r.piece.len
    BY <1>3, <2>2 DEF Extended, Nothing, Brings
  <2>4. Whole' /\ got'.len = AllOf
    BY <1>2, <2>2, <2>3 DEF Whole, Brings
  <2>5. UpTo(AllOf)'
    BY <1>2, <2>4 DEF UpTo
  <2>6. QED BY <1>1, <1>2, <2>2, <2>4, <2>5
<1>4. CASE FreeData(r) /\ UNCHANGED got
  <2>1. pc = "free_data" /\ Began /\ todo = <<>>
    BY <1>4 DEF FreeData, Retrieving
  <2>2. buffer.table = "log" /\ Before = AllOf /\ got.len \in Nat
    BY <1>1, <2>1 DEF Began, Before, Typed, ClientOK, Got
  <2>3. UpTo(AllOf) /\ ("data" \notin missing => Whole /\ got.len = AllOf)
    BY <1>2, <2>1, <2>2 DEF Began
  <2>4. Whole' = Whole
    BY <1>2, <1>4 DEF Whole
  <2>5. UpTo(AllOf)'
    BY <1>2, <1>4, <2>3, <2>4 DEF UpTo
  <2>6. QED BY <1>1, <1>4, <2>2, <2>3, <2>4, <2>5
<1>5. QED BY <1>1, <1>3, <1>4

LEMMA StepPulls ==
  ASSUME Typed, Calling, Tidy, Line, Retrieving, UNCHANGED device, NEW r, Step(r),
         \/ r = Silence
         \/ toClient # <<>> /\ r = Head(toClient).says
  PROVE  Pulled'
<1> SUFFICES ASSUME "data" \notin missing', Returned("pull")', count'.records = Len(buffer'.of)
             PROVE  tables'.log = buffer'.of
  BY DEF Pulled
<1>1. UNCHANGED <<kind, buffer, missing>> /\ KindOK /\ buffer.of \in Seq(Nat)
  BY DEF device, Typed, TerminalOK, BufferOK
<1>2. /\ buffer.table = "log"
      /\ tables'.log = decode_attendance_data(got', SizeOf("log"), count'.records)
      /\ Whole' /\ got'.len = AllOf
  BY <1>1, PullReadsAll
<1>3. AllOf > 0
  <2>1. /\ AllOf = 4 + SizeOf(buffer.table) * Len(buffer.of) /\ Len(buffer.of) \in Nat
        /\ SizeOf(buffer.table) \in Nat
    BY <1>1, AllOfTyped, SizesOfTables
  <2>2. SizeOf(buffer.table) * Len(buffer.of) \in Nat
    BY <2>1
  <2>3. QED BY <2>1, <2>2
<1>4. /\ got'.whole /\ got'.table = "log" /\ got'.of = buffer.of
      /\ got'.len = TableBytes("log", buffer.of) /\ count'.records = Len(buffer.of)
  BY <1>1, <1>2, <1>3 DEF AllOf, Whole
<1>5. tables'.log = buffer.of
  BY <1>1, <1>2, <1>4, WholeLog
<1>6. QED BY <1>1, <1>5

\* A pull over a connection to a tidy terminal, of which no DATA was lost and
\* no chunk was acknowledged without data, returns the log as it was when the
\* terminal prepared it, record for record, however it is cut into chunks and
\* packets and whatever else is refused, lost or not answered:
\* read_with_buffer asks for every byte once, the streams are read to their
\* end, and the record size found by decode_attendance_data is the terminal's.
\* A hole in the log, which the code does not see, can come about in no other
\* way.
THEOREM PullAlwaysTheLog == Spec => []PullIsTheLog
<1> DEFINE Inv == Tidy => Pulled
<1>1. Init => Inv
  BY DEF Init, Pulled, Returned
<1>2. /\ Typed /\ Calling /\ (Tidy => Line /\ Retrieving) /\ Inv /\ [Next]_vars => Inv'
  <2> SUFFICES ASSUME Typed, Calling, Line, Retrieving, Tidy, Tidy', Pulled, [Next]_vars
               PROVE  Pulled'
    BY TidyBefore
  <2>1. CASE Call
    <3>1. Head(script) \in Calls
      BY <2>1, HeadTailProperties DEF Call, Typed, ClientOK
    <3>2. pc' # "ready"
      BY <2>1, <3>1 DEF Call, Ask, First, Calls
    <3>3. QED BY <3>2 DEF Pulled, Returned
  <2>2. CASE Receive
    BY <2>2, StepPulls DEF Receive
  <2>3. CASE Timeout
    BY <2>3, StepPulls DEF Timeout
  <2>4. CASE Serve \/ AckOnly \/ Misbehave
    <3>1. pc' = pc /\ toDevice # <<>>
      BY <2>4 DEF Serve, AckOnly, Misbehave, client
    <3>2. pc' # "ready"
      BY <3>1, CommandOnLine
    <3>3. QED BY <3>2 DEF Pulled, Returned
  <2>5. CASE Lose
    <3>1. pc' = pc /\ pc # "ready"
      BY <2>5, LoseIs DEF client, Answering
    <3>2. QED BY <3>1 DEF Pulled, Returned
  <2>6. CASE Punch \/ UNCHANGED vars
    <3>1. UNCHANGED <<pc, outcome, count, buffer, tables, missing>>
      BY <2>6 DEF Punch, vars, client, device
    <3>2. QED BY <3>1 DEF Pulled, Returned
  <2>7. QED BY <2>1, <2>2, <2>3, <2>4, <2>5, <2>6 DEF Next
<1>3. Inv => PullIsTheLog
  BY DEF Pulled, PullIsTheLog
<1>4. QED BY <1>1, <1>2, <1>3, AlwaysRetrieving, PTL DEF Spec

-----------------------------------------------------------------------------
\* The clearing of the log.

\* A log is cleared only after a pull that returned records, so there are some
\* to erase; the terminal has erased records when it says that it has.
Clearing ==
  /\ script # <<>> /\ Head(script) = "clear" => punched > 0
  /\ pc = "clear" /\ toClient # <<>> /\ Head(toClient).says.cmd = "ack_ok" => erased > 0
  /\ Returned("clear") => erased > 0

\* A pull that returns records read them from a log that had some: of an empty
\* log not even the header is there when data was lost.
LEMMA PulledSome ==
  ASSUME Typed, Calling, Tidy, Line, Retrieving, UNCHANGED device, NEW r, Step(r),
         Returned("pull")',
         \/ r = Silence
         \/ toClient # <<>> /\ r = Head(toClient).says,
         tables'.log # <<>>
  PROVE  punched > 0
<1>1. /\ buffer.table = "log" /\ got'.len \in Nat /\ UpTo(AllOf)'
      /\ tables'.log = decode_attendance_data(got', SizeOf("log"), count'.records)
  BY PullReadsAll
<1>2. CASE buffer.of = <<>>
  <2>1. Len(buffer.of) = 0 /\ buffer.of \in Seq(Nat) /\ buffer' = buffer /\ kind' = kind
    BY <1>2, EmptySeq DEF device
  <2>2. SizeOf("log") \in Nat /\ SizeOf("log") * 0 = 0
    <3>1. SizeOf("log") \in Nat
      BY <2>1, SizesOfTables DEF Typed
    <3>2. QED BY <3>1
  <2>3. AllOf' = 4
    <3>1. AllOf = 4 + SizeOf("log") * Len(buffer.of)
      BY <1>1, AllOfTyped
    <3>2. AllOf' = AllOf
      BY <2>1 DEF AllOf, TableBytes, SizeOf
    <3>3. QED BY <2>1, <2>2, <3>1, <3>2
  <2>4. CASE got'.len < 4
    BY <1>1, <2>4 DEF decode_attendance_data, Header
  <2>5. CASE ~(got'.len < 4)
    <3>1. Whole' /\ got'.len > 0
      BY <1>1, <2>3, <2>5 DEF UpTo
    <3>2. got'.whole /\ got'.table = "log" /\ Len(got'.of) = 0
      BY <1>1, <2>1, <3>1 DEF Whole
    <3>3. SizeOf("log") * Len(got'.of) = 0
      BY <2>2, <3>2
    <3>4. decode_attendance_data(got', SizeOf("log"), count'.records) = <<>>
      BY <2>5, <3>2, <3>3 DEF decode_attendance_data, Readable, Header
    <3>5. QED BY <1>1, <3>4
  <2>6. QED BY <2>4, <2>5
<1>3. CASE buffer.of # <<>>
  BY <1>1, <1>3 DEF Calling
<1>4. QED BY <1>2, <1>3

LEMMA StepClears ==
  ASSUME Typed, Calling, Tidy, Line, Retrieving, Clearing, UNCHANGED device, NEW r, Step(r),
         \/ r = Silence
         \/ toClient # <<>> /\ r = Head(toClient).says
  PROVE  Clearing'
<1>1. UNCHANGED <<punched, erased>>
  BY DEF device
<1>2. script # <<>>
  BY DEF Step, Connect, Auth, ReadSizes, PrepareBuffer, ReadBuffer, Stream, FreeData,
         ClearAttendance, DeviceInfo, SendData, SaveTemplate, Exit, Typed, Busy
<1>3. ASSUME script' # <<>>, Head(script') = "clear"
      PROVE  punched > 0
  <2>1. CASE Asks \/ Streams
    BY <1>2, <1>3, <2>1 DEF Asks, Streams, Clearing
  <2>2. CASE Returns
    <3>1. PICK ok \in BOOLEAN : Return(ok)
      BY <2>2 DEF Returns
    <3>2. /\ Tail(script) \in Seq(Calls) /\ Len(Tail(script)) = Len(script) - 1
          /\ Len(script) \in Nat
          /\ \A k \in 1..Len(Tail(script)) : Tail(script)[k] = script[k + 1]
          /\ Head(script) = script[1]
      BY <1>2, HeadTailProperties, LenProperties DEF Typed, ClientOK
    <3>3. Head(<<"exit">>) = "exit"
      OBVIOUS
    <3>4. /\ script' = Tail(script) /\ Tail(script) # <<>>
          /\ ok /\ (Head(script) = "pull" => tables'.log # <<>>)
      BY <1>3, <3>1, <3>3 DEF Return
    <3>5. Len(Tail(script)) > 0 /\ Head(Tail(script)) = Tail(script)[1]
      BY <3>2, <3>4, EmptySeq
    <3>6. script[2] = "clear" /\ 2 \in 2..Len(script)
      <4>1. 1 \in 1..Len(Tail(script)) /\ 1 + 1 = 2 /\ Len(script) >= 2
        BY <3>2, <3>5
      <4>2. Tail(script)[1] = script[2]
        BY <3>2, <4>1
      <4>3. QED BY <1>3, <3>2, <3>4, <3>5, <4>1, <4>2
    <3>7. Head(script) = "pull"
      <4>1. script[2 - 1] = "pull"
        BY <3>6 DEF Calling
      <4>2. 2 - 1 = 1
        OBVIOUS
      <4>3. QED BY <3>2, <4>1, <4>2
    <3>8. Returned("pull")'
      <4>1. ok = TRUE
        BY <3>4
      <4>2. pc' = "ready" /\ outcome' = [call |-> "pull", ok |-> TRUE]
        BY <3>1, <3>7, <4>1 DEF Return
      <4>3. QED BY <4>2 DEF Returned
    <3>9. QED BY <3>4, <3>7, <3>8, PulledSome
  <2>3. QED BY <2>1, <2>2, StepLeads
<1>4. pc' # "clear"
  BY DEF Step, Connect, Auth, ReadSizes, PrepareBuffer, ReadBuffer, Stream, FreeData,
         ClearAttendance, DeviceInfo, SendData, SaveTemplate, Exit, PushChunk, NextTable,
         TableRead, NextChunk, Ask, Return
<1>5. ASSUME Returned("clear")'
      PROVE  erased > 0
  <2>1. Return(TRUE) /\ Head(script) = "clear"
    BY <1>5, SucceedsBy
  <2>2. pc' = "ready" /\ outcome'.ok = TRUE
    BY <2>1 DEF Return
  <2>3. pc = "clear"
    <3>1. pc # "ready"
      BY DEF Step, Connect, Auth, ReadSizes, PrepareBuffer, ReadBuffer, Stream, FreeData,
             ClearAttendance, DeviceInfo, SendData, SaveTemplate, Exit
    <3>2. QED BY <2>1, <3>1 DEF Calling, StepsOf
  <2>4. ClearAttendance(r)
    BY <2>3 DEF Step, Connect, Auth, ReadSizes, PrepareBuffer, ReadBuffer, Stream, FreeData,
                DeviceInfo, SendData, SaveTemplate, Exit
  <2>5. r.cmd = "ack_ok"
    BY <2>2, <2>4 DEF ClearAttendance, Return
  <2>6. toClient # <<>> /\ r = Head(toClient).says
    BY <2>5 DEF Silence
  <2>7. QED BY <2>3, <2>5, <2>6 DEF Clearing
<1>6. QED BY <1>1, <1>3, <1>4, <1>5 DEF Clearing

\* A terminal that answers has erased what it had, and that was something.
LEMMA TerminalClears ==
  ASSUME Typed, Calling, Line, Clearing, toDevice # <<>>, UNCHANGED <<client, punched>>,
         \/ Execute(Asked)
         \/ /\ UNCHANGED erased
            /\ toClient' = <<>> \/ Reply(Head(toDevice), <<[cmd |-> "ack_error"]>>)
  PROVE  Clearing'
<1>1. UNCHANGED <<script, pc, outcome>> /\ pc # "ready"
  BY CommandOnLine DEF client
<1>2. erased \in Nat /\ Len(log) \in Nat /\ erased + Len(log) = punched
  BY LenProperties DEF Typed, TerminalOK, Counted
<1>3. CASE Execute(Asked)
  <2>1. ASSUME pc = "clear"
        PROVE  erased' > 0
    <3>1. erased' = erased + Len(log)
      BY <1>3, <2>1 DEF Execute, Asked
    <3>2. script # <<>> /\ Head(script) \in Calls
      BY <1>1, HeadTailProperties DEF Typed, Busy, ClientOK
    <3>3. Head(script) = "clear"
      BY <2>1, <3>2 DEF Calling, StepsOf, Calls, Reading
    <3>4. QED BY <1>2, <3>1, <3>2, <3>3 DEF Clearing
  <2>2. QED BY <1>1, <2>1 DEF Clearing, Returned
<1>4. CASE /\ UNCHANGED erased
           /\ toClient' = <<>> \/ Reply(Head(toDevice), <<[cmd |-> "ack_error"]>>)
  <2>1. toClient' # <<>> => Head(toClient').says.cmd = "ack_error"
    <3> SUFFICES ASSUME toClient' # <<>>
                 PROVE  Head(toClient').says.cmd = "ack_error"
      OBVIOUS
    <3> DEFINE e == [cmd |-> "ack_error"]
               s == <<e>>
    <3>1. e \in Packets /\ e.cmd = "ack_error"
      BY DEF Packets
    <3>2. Reply(Head(toDevice), s)
      BY <1>4
    <3> HIDE DEF e
    <3>3. s \in Seq(Packets) /\ s[1] = e
      BY <3>1
    <3> HIDE DEF s
    <3>4. QED BY <3>1, <3>2, <3>3, AnswerIs
  <2>2. QED BY <1>1, <1>4, <2>1 DEF Clearing, Returned
<1>5. QED BY <1>3, <1>4

LEMMA ClearingInit == Init => Clearing
<1> SUFFICES ASSUME Init PROVE Clearing
  OBVIOUS
<1>1. script \in Scripts /\ script \in Seq(Calls)
  BY ScriptsAssumption DEF Init
<1>2. script # <<>> => Head(script) # "clear"
  <2> SUFFICES ASSUME script # <<>> PROVE Head(script) # "clear"
    OBVIOUS
  <2>1. Head(script) = script[1]
    BY <1>1
  <2>2. Len(script) \in Nat \ {0} /\ DOMAIN script = 1..Len(script)
    BY <1>1, EmptySeq, LenProperties
  <2>3. 1 \in DOMAIN script
    BY <2>2
  <2>4. \A k \in DOMAIN script : script[k] = "clear" => k > 1 /\ script[k - 1] = "pull"
    BY <1>1, ScriptsAssumption
  <2>5. script[1] # "clear"
    BY <2>3, <2>4
  <2>6. QED BY <2>1, <2>5
<1>3. QED BY <1>2 DEF Init, Clearing, Returned

LEMMA ClearingStep ==
  ASSUME Typed, Calling, Tidy, Tidy', Line, Retrieving, Clearing, [Next]_vars
  PROVE  Clearing'
<1>1. CASE Call
  <2>1. /\ script # <<>> /\ Head(script) \in Calls /\ script' = script
        /\ UNCHANGED <<toClient, punched, erased>> /\ toClient = <<>>
    BY <1>1, HeadTailProperties
    DEF Call, Typed, ClientOK, Line, Quiet, Asking, Answering, device
  <2>2. pc' # "ready"
    BY <1>1, <2>1 DEF Call, Ask, First, Calls
  <2>3. QED BY <2>1, <2>2 DEF Clearing, Returned
<1>2. CASE Receive
  BY <1>2, StepClears DEF Receive
<1>3. CASE Timeout
  BY <1>3, StepClears DEF Timeout
<1>4. CASE Serve
  <2>1. /\ toDevice # <<>> /\ Execute(Head(toDevice).does) /\ UNCHANGED <<client, punched>>
    BY <1>4 DEF Serve
  <2>2. Head(toDevice).does = Asked
    BY <2>1, CommandOnLine
  <2>3. QED BY <2>1, <2>2, TerminalClears
<1>5. CASE Misbehave
  <2>1. /\ toDevice # <<>> /\ UNCHANGED <<client, punched>>
        /\ \/ Reply(Head(toDevice), <<[cmd |-> "ack_error"]>>) /\ UNCHANGED erased
           \/ UNCHANGED <<toClient, erased>>
           \/ Execute(Head(toDevice).does)
    BY <1>5 DEF Misbehave
  <2>2. Head(toDevice).does = Asked /\ toClient = <<>>
    BY <2>1, CommandOnLine
  <2>3. QED BY <2>1, <2>2, TerminalClears
<1>6. CASE Punch
  <2>1. UNCHANGED <<script, pc, outcome, toClient, erased>> /\ punched' = punched + 1
    BY <1>6 DEF Punch, client, wire
  <2>2. punched \in Nat
    BY DEF Typed, TerminalOK
  <2>3. QED BY <2>1, <2>2 DEF Clearing, Returned
<1>7. CASE UNCHANGED vars
  BY <1>7 DEF vars, client, wire, device, Clearing, Returned
<1>8. CASE AckOnly
  <2>1. /\ toDevice # <<>> /\ Head(toDevice).does.cmd = "read_buffer"
        /\ UNCHANGED <<client, punched, erased>>
    BY <1>8 DEF AckOnly
  <2>2. pc = "read_buffer"
    BY <2>1, CommandOnLine DEF Asked
  <2>3. QED BY <2>1, <2>2 DEF client, Clearing, Returned
<1>9. CASE Lose
  <2>1. UNCHANGED <<client, punched, erased>> /\ pc # "ready"
    BY <1>9, LoseIs DEF Lose
  <2>2. pc = "clear" => toClient' = <<>>
    BY <1>9, LoneLost
  <2>3. QED BY <2>1, <2>2 DEF client, Clearing, Returned
<1>10. QED BY <1>1, <1>2, <1>3, <1>4, <1>5, <1>6, <1>7, <1>8, <1>9 DEF Next

\* When clear_attendance succeeds with a tidy terminal, that has erased the
\* log: the OK is the answer to this CLEAR and no other command's, and the
\* terminal had records, as the pull before returned some.  What it holds now
\* was punched since.
THEOREM ClearAlwaysDone == Spec => []ClearIsDone
<1> DEFINE Inv == Tidy => Clearing
<1>1. Init => Inv
  BY ClearingInit
<1>2. Typed /\ Calling /\ (Tidy => Line /\ Retrieving) /\ Inv /\ [Next]_vars => Inv'
  BY ClearingStep, TidyBefore
<1>3. Typed /\ Inv => ClearIsDone
  <2> SUFFICES ASSUME Typed, Inv, Tidy, Returned("clear")
               PROVE  erased > 0 /\ \A k \in DOMAIN log : log[k] > erased
    BY DEF ClearIsDone
  <2>1. erased > 0 /\ erased \in Nat
    BY DEF Clearing, Typed, TerminalOK
  <2>2. \A k \in 1..Len(log) : log[k] = erased + k
    BY DEF Typed, Counted
  <2>3. DOMAIN log = 1..Len(log)
    BY LenProperties DEF Typed, TerminalOK
  <2>4. QED BY <2>1, <2>2, <2>3
<1>4. QED BY <1>1, <1>2, <1>3, AlwaysRetrieving, PTL DEF Spec

=============================================================================
