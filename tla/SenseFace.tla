------------------------------ MODULE SenseFace ------------------------------
(***************************************************************************)
(* The push path of SenseFace terminals: the receiver of                   *)
(* application/senseface.rs, the SQLite table of                           *)
(* adapters/senseface_sqlite.rs and the forwarder of                       *)
(* runtime/senseface_forwarder.rs.                                         *)
(*                                                                         *)
(* A terminal sends its records again and again until an answer reaches    *)
(* it.  Each connection is served by a thread of its own; one thread       *)
(* forwards what the table holds.  The tables of raw requests, devices and *)
(* employees are left out: nothing that is forwarded depends on them.      *)
(***************************************************************************)
EXTENDS Naturals, Sequences, FiniteSets

CONSTANTS
  Serials,      \* terminals by serial number
  LinesOf,      \* LinesOf[s]: the attendance lines terminal s can send
  Mappable,     \* the lines with an employee id and a readable time
  Handlers,     \* bound: connections served at once
  Limit,        \* rows a cycle of the forwarder takes
  Rejected,     \* terminals whose events HRMS always refuses
  Unsavable,    \* bound: the records whose insert may fail (database locked, disk full)
  MaxRestarts   \* bound: how many times the process dies and comes back

Lines == UNION {LinesOf[s] : s \in Serials}
Rows == [serial : Serials, line : Lines, forwarded : BOOLEAN]

ASSUME SenseFaceAssumption ==
  /\ Serials \subseteq Nat
  /\ Rejected \subseteq Serials
  /\ Limit \in Nat \ {0}
  /\ Unsavable \subseteq Serials \X Lines
  /\ MaxRestarts \in Nat

VARIABLES
  made,       \* made[s]: lines terminal s has recorded
  outbox,     \* outbox[s]: those it has had no answer for
  conn,       \* conn[h]: the push thread h serves, or Closed
  rows,       \* the attendance table in the order of its ids
  batch,      \* ids the forwarder's cycle has still to post
  marking,    \* ids it has posted and not yet marked
  hrms,       \* lines HRMS has, with the terminal they are attributed to
  unsaved,    \* history: lines an insert failed for, with the terminal that sent them
  restarts

vars == <<made, outbox, conn, rows, batch, marking, hrms, unsaved, restarts>>

Closed == [serial |-> 0, body |-> {}, left |-> {}]
Ids == DOMAIN rows
Known(l) == \E i \in Ids : rows[i].line = l
Pending == {i \in Ids : ~rows[i].forwarded}

\* The first Limit of some ids.
Oldest(I) == {i \in I : Cardinality({j \in I : j < i}) < Limit}

\* The rows of terminal s in this cycle, and the events they map to.
Group(s) == {i \in batch : rows[i].serial = s}
Events(I) == {<<rows[i].serial, rows[i].line>> : i \in {j \in I : rows[j].line \in Mappable}}

\* Terminals are forwarded in the order of their serial numbers.
First(s) == /\ Group(s) # {}
            /\ \A i \in batch : s <= rows[i].serial

-----------------------------------------------------------------------------
Init ==
  /\ made = [s \in Serials |-> {}]
  /\ outbox = [s \in Serials |-> {}]
  /\ conn = [h \in Handlers |-> Closed]
  /\ rows = <<>>
  /\ batch = {} /\ marking = {}
  /\ hrms = {} /\ unsaved = {}
  /\ restarts = 0

Punch(s, l) ==
  /\ l \in LinesOf[s] \ made[s]
  /\ made' = [made EXCEPT ![s] = @ \cup {l}]
  /\ outbox' = [outbox EXCEPT ![s] = @ \cup {l}]
  /\ UNCHANGED <<conn, rows, batch, marking, hrms, unsaved, restarts>>

-----------------------------------------------------------------------------
\* handle_post_cdata.

\* A terminal pushes some of its records; it may already have pushed them on a
\* connection it has given up.
Push(h, s) ==
  /\ conn[h] = Closed
  /\ \E body \in SUBSET outbox[s] \ {{}} :
       conn' = [conn EXCEPT ![h] = [serial |-> s, body |-> body, left |-> body]]
  /\ UNCHANGED <<made, outbox, rows, batch, marking, hrms, unsaved, restarts>>

\* INSERT OR IGNORE of one line; its key is the hash of the line alone.
SaveLine(h) ==
  \E l \in conn[h].left :
    /\ conn' = [conn EXCEPT ![h].left = @ \ {l}]
    /\ rows' = IF Known(l) THEN rows
               ELSE Append(rows, [serial |-> conn[h].serial, line |-> l, forwarded |-> FALSE])
    /\ UNCHANGED <<made, outbox, batch, marking, hrms, unsaved, restarts>>

\* A failed insert is logged; the other lines are saved.
SaveLineFails(h) ==
  /\ \E l \in conn[h].left :
       /\ <<conn[h].serial, l>> \in Unsavable
       /\ conn' = [conn EXCEPT ![h].left = @ \ {l}]
       /\ unsaved' = unsaved \cup {<<conn[h].serial, l>>}
  /\ UNCHANGED <<made, outbox, rows, batch, marking, hrms, restarts>>

\* Mutant: the answer is sent before the lines are saved.
ReplyEarly(h) ==
  /\ conn[h] # Closed
  /\ outbox' = [outbox EXCEPT ![conn[h].serial] = @ \ conn[h].body]
  /\ conn' = [conn EXCEPT ![h] = Closed]
  /\ UNCHANGED <<made, rows, batch, marking, hrms, unsaved, restarts>>

\* Whatever became of the lines the answer is OK; the terminal drops them.
Reply(h) ==
  /\ conn[h] # Closed /\ conn[h].left = {}
  /\ outbox' = [outbox EXCEPT ![conn[h].serial] = @ \ conn[h].body]
  /\ conn' = [conn EXCEPT ![h] = Closed]
  /\ UNCHANGED <<made, rows, batch, marking, hrms, unsaved, restarts>>

\* The answer does not reach the terminal.
ReplyLost(h) ==
  /\ conn[h] # Closed /\ conn[h].left = {}
  /\ conn' = [conn EXCEPT ![h] = Closed]
  /\ UNCHANGED <<made, outbox, rows, batch, marking, hrms, unsaved, restarts>>

-----------------------------------------------------------------------------
\* forward_once.

\* Mutant: the query for pending rows has no ORDER BY.
FetchUnordered ==
  /\ batch = {} /\ marking = {}
  /\ \E I \in SUBSET Pending : Cardinality(I) <= Limit /\ batch' = I
  /\ UNCHANGED <<made, outbox, conn, rows, marking, hrms, unsaved, restarts>>

Fetch ==
  /\ batch = {} /\ marking = {}
  /\ Pending # {}
  /\ batch' = Oldest(Pending)
  /\ UNCHANGED <<made, outbox, conn, rows, marking, hrms, unsaved, restarts>>

\* Mutant: a terminal that was served stays in the cycle.
PostOkStays(s) ==
  /\ marking = {} /\ First(s)
  /\ s \in Rejected => Events(Group(s)) = {}
  /\ hrms' = hrms \cup Events(Group(s))
  /\ marking' = Group(s)
  /\ UNCHANGED <<made, outbox, conn, rows, batch, unsaved, restarts>>

\* HRMS takes the events of a terminal, or there are none to send.
PostOk(s) ==
  /\ marking = {} /\ First(s)
  /\ s \in Rejected => Events(Group(s)) = {}
  /\ hrms' = hrms \cup Events(Group(s))
  /\ marking' = Group(s)
  /\ batch' = batch \ Group(s)
  /\ UNCHANGED <<made, outbox, conn, rows, unsaved, restarts>>

\* Mutant: the rows are marked whatever HRMS answered.
PostFailsMarks(s) ==
  /\ marking = {} /\ First(s)
  /\ Events(Group(s)) # {}
  /\ marking' = Group(s)
  /\ batch' = batch \ Group(s)
  /\ UNCHANGED <<made, outbox, conn, rows, hrms, unsaved, restarts>>

\* Mutant: a failed post ends the cycle.
PostFailsEnds(s) ==
  /\ marking = {} /\ First(s)
  /\ Events(Group(s)) # {}
  /\ batch' = {}
  /\ UNCHANGED <<made, outbox, conn, rows, marking, hrms, unsaved, restarts>>

\* The post failed, though an attempt may have got through (a cycle's rows fit in
\* one batch); on to the next terminal.
PostFails(s) ==
  /\ marking = {} /\ First(s)
  /\ Events(Group(s)) # {}
  /\ \E E \in {{}, Events(Group(s))} :
       /\ s \in Rejected => E = {}
       /\ hrms' = hrms \cup E
  /\ batch' = batch \ Group(s)
  /\ UNCHANGED <<made, outbox, conn, rows, marking, unsaved, restarts>>

\* mark_attendance_forwarded: one UPDATE of all of them.
Mark ==
  /\ marking # {}
  /\ rows' = [i \in Ids |-> IF i \in marking THEN [rows[i] EXCEPT !.forwarded = TRUE] ELSE rows[i]]
  /\ marking' = {}
  /\ UNCHANGED <<made, outbox, conn, batch, hrms, unsaved, restarts>>

\* The UPDATE failed: the cycle ends, HRMS will get these events again.
MarkFails ==
  /\ marking # {}
  /\ marking' = {} /\ batch' = {}
  /\ UNCHANGED <<made, outbox, conn, rows, hrms, unsaved, restarts>>

\* The process dies and is started again; the table is on disk.
Restart ==
  /\ restarts < MaxRestarts
  /\ restarts' = restarts + 1
  /\ conn' = [h \in Handlers |-> Closed]
  /\ batch' = {} /\ marking' = {}
  /\ UNCHANGED <<made, outbox, rows, hrms, unsaved>>

Serve(h) == SaveLine(h) \/ SaveLineFails(h) \/ Reply(h) \/ ReplyLost(h)
Post(s) == PostOk(s) \/ PostFails(s)
Forward == Fetch \/ (\E s \in Serials : Post(s)) \/ Mark \/ MarkFails

Next ==
  \/ \E s \in Serials : \E l \in LinesOf[s] : Punch(s, l)
  \/ \E h \in Handlers : Serve(h) \/ \E s \in Serials : Push(h, s)
  \/ Forward
  \/ Restart

Spec == Init /\ [][Next]_vars

(***************************************************************************)
(* Threads run; a terminal that has records pushes them sooner or later,   *)
(* all of them now and then; an answer reaches it, HRMS accepts the events *)
(* of a terminal it knows, and the database marks them, if tried forever.  *)
(***************************************************************************)
Fairness ==
  /\ WF_vars(Forward) /\ SF_vars(Mark)
  /\ \A h \in Handlers : WF_vars(Serve(h))
  /\ \A s \in Serials : SF_vars(PostOk(s))
  /\ \A s \in Serials : \A l \in LinesOf[s] :
       /\ SF_vars(\E h \in Handlers : Push(h, s) /\ l \in conn'[h].body)
       /\ SF_vars(\E h \in Handlers : conn[h].serial = s /\ l \in conn[h].left
                                     /\ SaveLine(h) /\ l \notin conn'[h].left)

FairSpec == Spec /\ Fairness

-----------------------------------------------------------------------------
\* Every variable holds a value of its type; the forwarder never holds an id
\* both as still to be posted and as posted.
TypeOK ==
  /\ made \in [Serials -> SUBSET Lines]
  /\ outbox \in [Serials -> SUBSET Lines]
  /\ \A s \in Serials : outbox[s] \subseteq made[s]
  /\ conn \in [Handlers -> {Closed} \cup [serial : Serials, body : SUBSET Lines, left : SUBSET Lines]]
  /\ \A h \in Handlers :
       conn[h] # Closed => /\ conn[h].left \subseteq conn[h].body
                           /\ conn[h].body \subseteq made[conn[h].serial]
  /\ rows \in Seq(Rows)
  /\ batch \subseteq Ids /\ marking \subseteq Ids /\ batch \cap marking = {}
  /\ hrms \subseteq Serials \X Lines
  /\ unsaved \subseteq Serials \X Lines
  /\ restarts \in 0..MaxRestarts

\* A row marked as forwarded, if it maps to an event, is at HRMS: through failed
\* posts and updates, and deaths between a post and its update.
MarkedIsDelivered ==
  \A i \in Ids : rows[i].forwarded /\ rows[i].line \in Mappable
                   => <<rows[i].serial, rows[i].line>> \in hrms

\* A terminal's rows are marked from the oldest on, without a gap.
ForwardedInOrder ==
  \A i, j \in Ids :
    i < j /\ rows[i].serial = rows[j].serial /\ rows[j].forwarded => rows[i].forwarded

\* "Receive the push -> save to SQLite": a record a terminal was told OK about,
\* and so has dropped, is in the table, through pushes repeated on connections
\* that are served at once and deaths in the middle of one, with two exceptions
\* and no third: its own insert failed and OK was answered all the same, or
\* another terminal recorded the same line and the row is that terminal's.
AcceptedIsStored ==
  \A s \in Serials : \A l \in made[s] \ outbox[s] :
    \/ <<s, l>> \in unsaved
    \/ \E i \in Ids : rows[i].line = l /\ l \in made[rows[i].serial]

\* The next cycle takes as many rows as it can, all of them refused ones.
Clogged ==
  /\ Cardinality(Pending) >= Limit
  /\ \A i \in Oldest(Pending) : rows[i].serial \in Rejected

\* "Forward to HRMS webhook": a record that maps to an event reaches HRMS, behind
\* refused terminals, failed posts and updates and restarts; unless its insert
\* failed, its row is a refused terminal's, or the oldest pending rows are all
\* refused ones and stay so, when no other row is ever read again.
EventuallyForwarded ==
  \A s \in Serials \ Rejected : \A l \in LinesOf[s] \cap Mappable :
    l \in made[s] ~>
      \/ \E t \in Serials : <<t, l>> \in hrms
      \/ <<s, l>> \in unsaved
      \/ \E i \in Ids : rows[i].line = l /\ rows[i].serial \in Rejected
      \/ []Clogged
=============================================================================
