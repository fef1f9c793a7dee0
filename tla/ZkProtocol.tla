------------------------------ MODULE ZkProtocol ------------------------------
(***************************************************************************)
(* One connection of src/adapters/device_zkteco_tcp.rs to a terminal, as   *)
(* the sync, the job poller and the scanner use it: a script of calls,     *)
(* each a chain of commands.  A command is answered by the next packet     *)
(* that arrives: the code adopts its session and reply ids and compares    *)
(* neither with what it sent, so the model has no ids but the number of    *)
(* the command a packet answers, which only the properties read.           *)
(*                                                                         *)
(* The terminal is external: what it may answer is what the code accepts   *)
(* or handles.  Packets are whole; a timeout inside of one is not modelled.*)
(* Over UDP any datagram may be lost on its way; none is duplicated.       *)
(***************************************************************************)
EXTENDS ZkDecode

Seqs == INSTANCE SequencesExt

CONSTANTS
  Scripts,      \* the sequences of calls of the connections
  Transports,   \* subset of {"tcp", "udp"}
  Styles,       \* how terminals send a table: see Serve
  RecordSizes,  \* subset of {8, 16, 40}: the attendance formats of terminals
  MaxChunk,     \* the bytes of a READ_BUFFER: 65472 over TCP, 16384 over UDP
  Piece,        \* the bytes of one DATA packet of a stream
  Buffer,       \* bound: the DATA chunks of a pushed template
  MaxRecords,   \* bound: the records punched while the connection is open
  MaxFaults,    \* bound: the commands refused or not answered, the datagrams lost
  Prompt,       \* subset of BOOLEAN: terminals that do or do not answer in time
  FirstField    \* what bytes 1 to 4 of a GET_FREE_SIZES answer say

Calls == {"connect", "pull", "clear", "templates", "push", "info", "exit"}

\* No log is cleared but one that was just pulled.
ASSUME ScriptsAssumption ==
  \A s \in Scripts :
    /\ s \in Seq(Calls)
    /\ \A k \in DOMAIN s : s[k] = "clear" => k > 1 /\ s[k - 1] = "pull"

ASSUME ZkAssumption ==
  /\ RecordSizes \subseteq {8, 16, 40}
  /\ MaxChunk \in Nat \ {0} /\ Piece \in Nat \ {0} /\ Buffer \in Nat \ {0}
  /\ MaxRecords \in Nat \ {0} /\ MaxFaults \in Nat /\ FirstField \in Nat
  /\ Prompt \subseteq BOOLEAN

VARIABLES
  kind,      \* the terminal: [transport, style, size, locked, prompt]
  script,    \* the calls still to make, the running one first
  pc,        \* the command whose answer the client awaits, or "ready"
  count,     \* what read_sizes returned: [users, fingers, records]
  reads,     \* the tables the running call has still to read
  todo,      \* the chunks of the table still to ask for, as <<from, len>>
  got,       \* the bytes of the table that came
  streamed,  \* of these, the number that came in the running stream
  tables,    \* what the running call decoded, by table
  outcome,   \* how the last call ended: [call, ok]
  toDevice,  \* the commands on their way
  toClient,  \* the packets on their way
  sent,      \* the number of commands sent
  log,       \* the attendance records of the terminal
  buffer,    \* the table PREPARE_BUFFER made the terminal prepare
  staged,    \* the chunks of a pushed template the terminal holds, 0 if none
  saved,     \* history: how many chunks each saved template had
  erased,    \* history: how many records the terminal has erased
  punched,   \* the number of records punched so far
  faults,    \* the number of commands refused or not answered, datagrams lost
  missing    \* history: the commands of the packets that were lost on their way,
             \* "data" also for a chunk acknowledged without data

client == <<script, pc, count, reads, todo, got, streamed, tables, outcome>>
wire == <<toDevice, toClient, sent>>
device == <<kind, log, buffer, staged, saved, erased, punched, faults, missing>>
vars == <<client, wire, device>>

Users == <<1, 2>>
Templates == <<1>>
Tables == {"log", "users", "templates"}
NoTables == [table \in Tables |-> <<>>]
NoCount == [users |-> 0, fingers |-> 0, records |-> 0]

\* Record sizes of the tables: of the users and templates any one will do.
SizeOf(table) ==
  IF table = "log" THEN kind.size ELSE IF table = "users" THEN 72 ELSE 30
TableBytes(table, of) == Header + SizeOf(table) * Len(of)

Silence == [cmd |-> "silence"]

-----------------------------------------------------------------------------
Init ==
  /\ kind \in [transport : Transports, style : Styles, size : RecordSizes,
               locked : BOOLEAN, prompt : Prompt]
  /\ script \in Scripts
  /\ pc = "ready"
  /\ count = NoCount
  /\ reads = <<>> /\ todo = <<>> /\ got = Nothing /\ streamed = 0
  /\ tables = NoTables
  /\ outcome = [call |-> "none", ok |-> TRUE]
  /\ toDevice = <<>> /\ toClient = <<>>
  /\ sent = 0
  /\ log \in {<<>>, <<1>>}
  /\ buffer = [table |-> "log", of |-> <<>>]
  /\ staged = 0 /\ saved = <<>> /\ erased = 0
  /\ punched = Len(log)
  /\ faults = 0
  /\ missing = {}

-----------------------------------------------------------------------------
\* The client.  Ask(p) sends the command of step p and awaits its answer.

Command(p) ==
  CASE p = "prepare_buffer" -> [cmd |-> p, table |-> Head(reads')]
    [] p = "read_buffer" -> [cmd |-> p, from |-> Head(todo')[1], len |-> Head(todo')[2]]
    [] p = "send_free" -> [cmd |-> "free_data"]
    [] OTHER -> [cmd |-> p]

Ask(p) ==
  /\ pc' = p
  /\ sent' = sent + 1
  /\ toDevice' = Append(toDevice, [id |-> sent + 1, does |-> Command(p)])

\* The running call returns.  After an error only disconnect is called, and
\* there is nothing to disconnect when connect failed; an empty or failed
\* pull is not cleared.
Return(ok) ==
  LET call == Head(script)
      rest == Tail(script)
      goOn == ok /\ (call = "pull" => tables'.log # <<>>)
  IN /\ outcome' = [call |-> call, ok |-> ok]
     /\ script' = IF goOn \/ rest = <<>> THEN rest
                  ELSE IF call = "connect" THEN <<>> ELSE <<"exit">>
     /\ pc' = "ready"
     /\ UNCHANGED <<toDevice, sent>>

\* Mutant: a command named as the call.
FirstNamed(call) == call

First(call) ==
  CASE call \in {"connect", "clear", "exit"} -> call
    [] call \in {"pull", "templates", "info"} -> "sizes"
    [] call = "push" -> "send_free"

Call ==
  /\ pc = "ready" /\ script # <<>>
  /\ reads' = <<>> /\ todo' = <<>> /\ got' = Nothing /\ streamed' = 0
  /\ tables' = NoTables
  /\ Ask(First(Head(script)))
  /\ UNCHANGED <<script, count, outcome, toClient, device>>

\* authenticate.
Connect(r) ==
  /\ pc = "connect"
  /\ IF r.cmd = "ack_unauth" THEN Ask("auth") /\ UNCHANGED <<script, outcome>>
     ELSE Return(r.cmd = "ack_ok")
  /\ UNCHANGED <<count, reads, todo, got, streamed, tables>>

Auth(r) ==
  /\ pc = "auth"
  /\ Return(r.cmd = "ack_ok")
  /\ UNCHANGED <<count, reads, todo, got, streamed, tables>>

\* Reads the next table of the call, or returns.
NextTable ==
  IF reads' # <<>> THEN Ask("prepare_buffer") /\ UNCHANGED <<script, outcome>>
  ELSE Return(TRUE)

\* The tables a call reads, given the sizes it was told.
TablesOf(call, sizes) ==
  CASE call = "pull" -> <<"log">>
    [] call = "templates" /\ sizes.fingers > 0 ->
         IF sizes.users = 0 THEN <<"templates">> ELSE <<"users", "templates">>
    [] OTHER -> <<>>

\* read_sizes swallows every error: no answer is an empty terminal.
ReadSizes(r) ==
  /\ pc = "sizes"
  /\ count' = IF r.cmd = "ack_ok" /\ "sizes" \in DOMAIN r THEN r.sizes ELSE NoCount
  /\ reads' = TablesOf(Head(script), count')
  /\ UNCHANGED <<todo, got, streamed, tables>>
  /\ IF Head(script) = "info" THEN Ask("serial") /\ UNCHANGED <<script, outcome>>
     ELSE NextTable

\* The table is read: decode it.
Decode(table) ==
  CASE table = "log" -> decode_attendance_data(got', SizeOf(table), count.records)
    [] table = "users" -> decode_users(got', SizeOf(table), count.users)
    [] OTHER -> decode_templates(got', SizeOf(table))

TableRead ==
  /\ tables' = [tables EXCEPT ![Head(reads)] = Decode(Head(reads))]
  /\ reads' = Tail(reads)
  /\ todo' = <<>>
  /\ NextTable

\* Mutant: the last, shorter chunk is not asked for.
ChunksWithoutRemainder(size) ==
  [k \in 1..(size \div MaxChunk) |-> <<(k - 1) * MaxChunk, MaxChunk>>]

Chunks(size) ==
  LET full == size \div MaxChunk
      remain == size % MaxChunk
  IN [k \in 1..full |-> <<(k - 1) * MaxChunk, MaxChunk>>]
       \o (IF remain > 0 THEN <<<<full * MaxChunk, remain>>>> ELSE <<>>)

\* The next chunk, or the release of the terminal's buffer.
NextChunk ==
  /\ IF todo' # <<>> THEN Ask("read_buffer") ELSE Ask("free_data")
  /\ UNCHANGED <<reads, tables, script, outcome>>

\* What an answer to PREPARE_BUFFER says the size of the table is: an answer
\* to GET_FREE_SIZES that came late is long enough to say something too.
ToldSize(r) ==
  IF "sizes" \in DOMAIN r THEN {FirstField}
  ELSE IF "total" \in DOMAIN r THEN {r.total} ELSE {}

\* read_with_buffer, read_prepared_buffer.
PrepareBuffer(r) ==
  /\ pc = "prepare_buffer"
  /\ \/ /\ r.cmd = "data"
        /\ got' = Extended(Nothing, r.piece)
        /\ TableRead
        /\ UNCHANGED streamed
     \/ /\ r.cmd \in {"ack_ok", "prepare_data"}
        /\ \E total \in ToldSize(r) : todo' = Chunks(total)
        /\ got' = Nothing
        /\ NextChunk
        /\ UNCHANGED streamed
     \/ /\ \/ r.cmd \notin {"data", "ack_ok", "prepare_data"}
           \/ r.cmd # "data" /\ ToldSize(r) = {}
        /\ Return(FALSE)
        /\ UNCHANGED <<reads, todo, got, streamed, tables>>
  /\ UNCHANGED count

\* read_chunk; a chunk that is acknowledged without data is an empty one.
ReadBuffer(r) ==
  /\ pc = "read_buffer"
  /\ CASE r.cmd \in {"data", "ack_ok"} ->
            /\ got' = IF r.cmd = "data" THEN Extended(got, r.piece) ELSE got
            /\ todo' = Tail(todo)
            /\ NextChunk
            /\ UNCHANGED streamed
       [] r.cmd = "prepare_data" ->
            /\ pc' = "stream" /\ streamed' = 0
            /\ UNCHANGED <<script, outcome, reads, todo, got, tables, toDevice, sent>>
       [] OTHER -> Return(FALSE) /\ UNCHANGED <<reads, todo, got, streamed, tables>>
  /\ UNCHANGED count

\* Mutant: a UDP stream, too, is over as soon as it is long enough.
StreamLongEnough(r) == r.cmd = "data" /\ streamed' < Head(todo)[2]

\* Over TCP the chunk is over as soon as it is long enough, over UDP with the
\* first packet that is no DATA.
StreamGoesOn(r) ==
  /\ r.cmd = "data"
  /\ kind.transport = "tcp" => streamed' < Head(todo)[2]

StreamFails(r) ==
  \/ r = Silence
  \/ kind.transport = "tcp" /\ r.cmd \notin {"data", "ack_ok"}

\* recv_tcp_stream_until_ack, recv_udp_stream.
Stream(r) ==
  /\ pc = "stream"
  /\ IF r.cmd = "data"
     THEN got' = Extended(got, r.piece) /\ streamed' = streamed + r.piece.len
     ELSE UNCHANGED <<got, streamed>>
  /\ IF StreamFails(r) THEN Return(FALSE) /\ UNCHANGED <<reads, todo, tables>>
     ELSE IF StreamGoesOn(r)
     THEN UNCHANGED <<pc, script, outcome, reads, todo, tables, toDevice, sent>>
     ELSE todo' = Tail(todo) /\ NextChunk
  /\ UNCHANGED count

\* Whatever the terminal says to the release of its buffer, or nothing.
FreeData(r) ==
  /\ pc = "free_data"
  /\ UNCHANGED <<got, streamed>>
  /\ TableRead
  /\ UNCHANGED count

\* Mutant: an answer of any kind is a success.
ClearAnyAnswer(r) ==
  /\ pc = "clear"
  /\ Return(r # Silence)
  /\ UNCHANGED <<count, reads, todo, got, streamed, tables>>

ClearAttendance(r) ==
  /\ pc = "clear"
  /\ Return(r.cmd = "ack_ok")
  /\ UNCHANGED <<count, reads, todo, got, streamed, tables>>

\* device_info: three options and the firmware, each of which may fail.
DeviceInfo(r) ==
  /\ \/ pc = "serial" /\ Ask("firmware") /\ UNCHANGED <<script, outcome>>
     \/ pc = "firmware" /\ Ask("platform") /\ UNCHANGED <<script, outcome>>
     \/ pc = "platform" /\ Ask("name") /\ UNCHANGED <<script, outcome>>
     \/ pc = "name" /\ Return(TRUE)
  /\ UNCHANGED <<count, reads, todo, got, streamed, tables>>

\* send_with_buffer and push_user_template; todo counts the chunks.
PushChunk(left) ==
  /\ todo' = left
  /\ IF left = <<>> THEN Ask("save") ELSE Ask("data")
  /\ UNCHANGED <<script, outcome>>

\* Mutant: the answers to the chunks are not looked at.
SendDataBlindly(r) ==
  /\ \/ /\ pc = "send_prepare" /\ r.cmd \in {"ack_ok", "prepare_data"}
        /\ PushChunk([k \in 1..Buffer |-> <<k, 1>>])
     \/ /\ pc = "data"
        /\ PushChunk(Tail(todo))
     \/ /\ pc = "send_prepare" /\ r.cmd \notin {"ack_ok", "prepare_data"}
        /\ Return(FALSE) /\ UNCHANGED todo
  /\ UNCHANGED <<count, reads, got, streamed, tables>>

SendData(r) ==
  /\ \/ /\ pc = "send_prepare" /\ r.cmd \in {"ack_ok", "prepare_data"}
        /\ PushChunk([k \in 1..Buffer |-> <<k, 1>>])
     \/ /\ pc = "data" /\ r.cmd = "ack_ok"
        /\ PushChunk(Tail(todo))
     \/ /\ \/ pc = "send_prepare" /\ r.cmd \notin {"ack_ok", "prepare_data"}
           \/ pc = "data" /\ r.cmd # "ack_ok"
        /\ Return(FALSE) /\ UNCHANGED todo
  /\ UNCHANGED <<count, reads, got, streamed, tables>>

\* The rest of the push: before the buffer, whatever the terminal says; the
\* save must be acknowledged; the refresh may fail.
SaveTemplate(r) ==
  /\ \/ pc = "send_free" /\ Ask("send_prepare") /\ UNCHANGED <<script, outcome>>
     \/ /\ pc = "save"
        /\ IF r.cmd = "ack_ok" THEN Ask("refresh") /\ UNCHANGED <<script, outcome>>
           ELSE Return(FALSE)
     \/ pc = "refresh" /\ Return(TRUE)
  /\ UNCHANGED <<count, reads, todo, got, streamed, tables>>

Exit(r) ==
  /\ pc = "exit"
  /\ Return(TRUE)
  /\ UNCHANGED <<count, reads, todo, got, streamed, tables>>

Step(r) ==
  \/ Connect(r) \/ Auth(r) \/ ReadSizes(r) \/ PrepareBuffer(r) \/ ReadBuffer(r)
  \/ Stream(r) \/ FreeData(r) \/ ClearAttendance(r) \/ DeviceInfo(r)
  \/ SendData(r) \/ SaveTemplate(r) \/ Exit(r)

Receive ==
  /\ pc # "ready" /\ toClient # <<>>
  /\ Step(Head(toClient).says)
  /\ toClient' = Tail(toClient)
  /\ UNCHANGED device

\* Mutant: a stream is read without a timeout.
TimeoutOfCommands ==
  /\ pc \notin {"ready", "stream"} /\ toClient = <<>>
  /\ toDevice = <<>> \/ ~kind.prompt
  /\ Step(Silence)
  /\ UNCHANGED <<toClient, device>>

\* The read timeout: nothing is coming, or nothing came in time.
Timeout ==
  /\ pc # "ready" /\ toClient = <<>>
  /\ toDevice = <<>> \/ ~kind.prompt
  /\ Step(Silence)
  /\ UNCHANGED <<toClient, device>>

-----------------------------------------------------------------------------
\* The terminal.

\* The pieces of [from, from + len) of the prepared table, at most max bytes
\* each; only what the table has.
PiecesOf(from, len, max) ==
  LET end == LET last == TableBytes(buffer.table, buffer.of)
             IN IF from + len < last THEN from + len ELSE last
      n == IF end <= from THEN 0 ELSE (end - from + max - 1) \div max
  IN [k \in 1..n |->
        LET at == from + (k - 1) * max
        IN [table |-> buffer.table, of |-> buffer.of, from |-> at,
            len |-> IF end - at < max THEN end - at ELSE max]]

Data(pieces) == [k \in DOMAIN pieces |-> [cmd |-> "data", piece |-> pieces[k]]]
Ack == [cmd |-> "ack_ok"]
Total == TableBytes(buffer'.table, buffer'.of)

\* What a terminal answers to READ_BUFFER: a stream that an ACK_OK ends
\* ("stream") or that just ends ("bare"), or the chunk in one packet.
Chunk(c) ==
  CASE kind.style = "stream" ->
         <<[cmd |-> "prepare_data"]>> \o Data(PiecesOf(c.from, c.len, Piece)) \o <<Ack>>
    [] kind.style = "bare" ->
         <<[cmd |-> "prepare_data"]>> \o Data(PiecesOf(c.from, c.len, Piece))
    [] OTHER -> Data(PiecesOf(c.from, c.len, c.len))

\* A terminal that sends tables "inline" answers PREPARE_BUFFER with the whole.
Prepared ==
  CASE kind.style = "inline" ->
         <<[cmd |-> "data", piece |-> [table |-> buffer'.table, of |-> buffer'.of,
                                       from |-> 0, len |-> Total]]>>
    [] kind.style = "ack" -> <<[cmd |-> "ack_ok", total |-> Total]>>
    [] OTHER -> <<[cmd |-> "prepare_data", total |-> Total]>>

Answers(c) ==
  CASE c.cmd = "connect" /\ kind.locked -> <<[cmd |-> "ack_unauth"]>>
    [] c.cmd = "sizes" ->
         <<[cmd |-> "ack_ok",
            sizes |-> [users |-> Len(Users), fingers |-> Len(Templates),
                       records |-> Len(log)]]>>
    [] c.cmd = "prepare_buffer" -> Prepared
    [] c.cmd = "read_buffer" -> Chunk(c)
    [] OTHER -> <<Ack>>

Execute(c) ==
  /\ log' = IF c.cmd = "clear" THEN <<>> ELSE log
  /\ erased' = IF c.cmd = "clear" THEN erased + Len(log) ELSE erased
  /\ buffer' = IF c.cmd = "prepare_buffer"
               THEN [table |-> c.table,
                     of |-> CASE c.table = "log" -> log
                              [] c.table = "users" -> Users
                              [] OTHER -> Templates]
               ELSE buffer
  /\ staged' = CASE c.cmd = "data" -> staged + 1
                 [] c.cmd = "send_prepare" -> 0
                 [] OTHER -> staged
  /\ saved' = IF c.cmd = "save" THEN Append(saved, staged) ELSE saved

Reply(c, packets) ==
  toClient' = toClient \o [k \in DOMAIN packets |-> [id |-> c.id, says |-> packets[k]]]

Serve ==
  /\ toDevice # <<>>
  /\ LET c == Head(toDevice) IN Execute(c.does) /\ Reply(c, Answers(c.does))
  /\ toDevice' = Tail(toDevice)
  /\ UNCHANGED <<client, sent, kind, punched, faults, missing>>

\* Old firmware acknowledges one chunk or another and sends nothing of it.
AckOnly ==
  /\ kind.style = "ack" /\ toDevice # <<>>
  /\ Head(toDevice).does.cmd = "read_buffer"
  /\ Reply(Head(toDevice), <<Ack>>)
  /\ missing' = missing \cup {"data"}
  /\ toDevice' = Tail(toDevice)
  /\ UNCHANGED <<client, sent, kind, log, buffer, staged, saved, erased, punched, faults>>

\* The command is refused, or it or its answer is lost.
Misbehave ==
  /\ toDevice # <<>> /\ faults < MaxFaults
  /\ LET c == Head(toDevice)
     IN \/ /\ Reply(c, <<[cmd |-> "ack_error"]>>)
           /\ UNCHANGED <<log, buffer, staged, saved, erased>>
        \/ UNCHANGED <<toClient, log, buffer, staged, saved, erased>>
        \/ Execute(c.does) /\ UNCHANGED toClient
  /\ toDevice' = Tail(toDevice)
  /\ faults' = faults + 1
  /\ UNCHANGED <<client, sent, kind, punched, missing>>

\* A datagram is lost, and it may be one of a stream whose others arrive.
Lose ==
  /\ kind.transport = "udp" /\ faults < MaxFaults
  /\ \E k \in DOMAIN toClient :
       /\ toClient' = Seqs!RemoveAt(toClient, k)
       /\ missing' = missing \cup {toClient[k].says.cmd}
  /\ faults' = faults + 1
  /\ UNCHANGED <<client, toDevice, sent, kind, log, buffer, staged, saved, erased, punched>>

\* An employee punches.
Punch ==
  /\ script # <<>> /\ punched < MaxRecords
  /\ punched' = punched + 1
  /\ log' = Append(log, punched')
  /\ UNCHANGED <<client, wire, kind, buffer, staged, saved, erased, faults, missing>>

Next ==
  \/ Call \/ Receive \/ Timeout
  \/ Serve \/ AckOnly \/ Misbehave \/ Lose \/ Punch

Spec == Init /\ [][Next]_vars

\* Every read has a timeout, so the client goes on.  A prompt terminal has
\* taken a command, to answer it or not, before that; one that is not prompt
\* may do so later.
Terminal == Serve \/ AckOnly \/ Misbehave
FairSpec == Spec /\ WF_vars(Call) /\ WF_vars(Receive) /\ WF_vars(Timeout) /\ WF_vars(Terminal)

-----------------------------------------------------------------------------
\* Shape of the state.
Sizes == [users : Nat, fingers : Nat, records : Nat]
Commands == {"connect", "auth", "sizes", "prepare_buffer", "read_buffer", "free_data",
  "clear", "serial", "firmware", "platform", "name", "send_free", "send_prepare", "data",
  "save", "refresh", "exit"}

\* A piece lies within its table.
Pieces == {p \in [table : Tables, of : Seq(Nat), from : Nat, len : Nat] :
             p.from + p.len <= TableBytes(p.table, p.of)}
Packets ==
  [cmd : {"ack_ok", "ack_error", "ack_unauth", "prepare_data"}]
    \cup [cmd : {"ack_ok"}, sizes : Sizes]
    \cup [cmd : {"ack_ok", "prepare_data"}, total : Nat]
    \cup [cmd : {"data"}, piece : Pieces]
Requests ==
  [cmd : Commands \ {"prepare_buffer", "read_buffer"}]
    \cup [cmd : {"prepare_buffer"}, table : Tables]
    \cup [cmd : {"read_buffer"}, from : Nat, len : Nat]

TypeOK ==
  /\ kind \in [transport : Transports, style : Styles, size : RecordSizes,
               locked : BOOLEAN, prompt : Prompt]
  /\ script \in Seq(Calls)
  /\ pc \in Commands \cup {"ready", "stream"}
  /\ count \in Sizes
  /\ reads \in Seq(Tables)
  /\ todo \in Seq(Nat \X Nat)
  /\ got \in [table : Tables \cup {"none"}, of : Seq(Nat), len : Nat, whole : BOOLEAN]
  /\ got.whole /\ got.len > 0 => got.table \in Tables /\ got.len <= TableBytes(got.table, got.of)
  /\ streamed \in Nat
  /\ tables \in [Tables -> Seq(Nat)]
  /\ outcome \in [call : Calls \cup {"none"}, ok : BOOLEAN]
  /\ sent \in Nat
  /\ toDevice \in Seq([id : Nat, does : Requests])
  /\ toClient \in Seq([id : Nat, says : Packets])
  /\ log \in Seq(1..MaxRecords)
  /\ buffer \in [table : Tables, of : Seq(Nat)]
  /\ staged \in Nat /\ erased \in 0..MaxRecords /\ punched \in 0..MaxRecords
  /\ saved \in Seq(Nat)
  /\ faults \in 0..MaxFaults
  /\ missing \subseteq {"ack_ok", "ack_error", "ack_unauth", "prepare_data", "data"}

\* A terminal that answers in time, and does not end a TCP stream with an
\* ACK_OK that recv_tcp_stream_until_ack leaves unread; and no PREPARE_DATA was
\* lost on its way, after which read_chunk would take the first DATA of the
\* stream for all of it.
Tidy ==
  /\ kind.prompt
  /\ ~(kind.transport = "tcp" /\ kind.style = "stream")
  /\ "prepare_data" \notin missing

\* Replies are not matched to commands (send_command), so all depends on the
\* client being in step: whatever a tidy terminal refuses or does not answer,
\* and whichever other datagrams are lost, no packet but those of the last
\* command is on its way.
InStep == Tidy => \A k \in DOMAIN toClient : toClient[k].id = sent

Returned(call) == pc = "ready" /\ outcome = [call |-> call, ok |-> TRUE]

\* What pull_attendance returns is the log as the terminal prepared it, when
\* the number of records it was told is that log's.  It may return with a hole
\* in the log instead of an error, and nothing tells it: recv_udp_stream does
\* not look at the length of the stream, nor read_chunk at that of the chunk.
\* These two are the only ways: no other loss or refusal makes a hole.
PullIsTheLog ==
  Tidy /\ "data" \notin missing /\ Returned("pull") /\ count.records = Len(buffer.of) =>
    tables.log = buffer.of

\* The record format depends on the terminal's firmware, so a pull returns
\* records of the terminal whenever it returns (AttendanceSize).
PullIsOfTheLog == Tidy /\ "data" \notin missing /\ Returned("pull") => tables.log # Garbled

\* clear_attendance of a tidy terminal succeeds only when the terminal has
\* erased its log: what is on it was punched since.
ClearIsDone ==
  Tidy /\ Returned("clear") => /\ erased > 0
                               /\ \A k \in DOMAIN log : log[k] > erased

\* A tidy terminal is told to save a template only when it holds all of it,
\* whichever commands it refused or lost (send_with_buffer).
SavedIsWhole == Tidy => \A k \in DOMAIN saved : saved[k] = Buffer

\* The connection ends, whatever the terminal does: every read has a timeout
\* and every loop over chunks and packets ends.
SessionEnds == <>(pc = "ready" /\ script = <<>>)
=============================================================================
