--------------------------- MODULE SenseFaceProofs ---------------------------
(***************************************************************************)
(* What SenseFace guarantees for every number of terminals, connections    *)
(* and records and every size of the forwarder's cycle.                    *)
(***************************************************************************)
EXTENDS SenseFace, FiniteSetTheorems, TLAPS

-----------------------------------------------------------------------------
\* Lemmas about the table and the forwarder's cycle.

\* A new row leaves the others as they are and comes after them.
LEMMA AppendedRow ==
  ASSUME NEW t \in Seq(Rows), NEW r \in Rows
  PROVE  /\ Append(t, r) \in Seq(Rows)
         /\ DOMAIN Append(t, r) = DOMAIN t \cup {Len(t) + 1}
         /\ \A i \in DOMAIN t : i < Len(t) + 1 /\ Append(t, r)[i] = t[i]
         /\ Append(t, r)[Len(t) + 1] = r
OBVIOUS

\* The ids of a cycle are pending ones, and no older pending id is left out.
LEMMA OldestFirst ==
  ASSUME NEW t \in Seq(Rows), NEW I \in SUBSET DOMAIN t
  PROVE  /\ Oldest(I) \subseteq I
         /\ \A i, j \in I : i < j /\ j \in Oldest(I) => i \in Oldest(I)
<1>1. Oldest(I) \subseteq I
  BY DEF Oldest
<1>2. ASSUME NEW i \in I, NEW j \in I, i < j, j \in Oldest(I)
      PROVE  i \in Oldest(I)
  <2> DEFINE A == {k \in I : k < i}
             B == {k \in I : k < j}
  <2>1. I \subseteq 1..Len(t) /\ Len(t) \in Nat
    OBVIOUS
  <2>2. IsFiniteSet(1..Len(t))
    BY <2>1, FS_Interval
  <2>3. B \subseteq 1..Len(t)
    BY <2>1
  <2>4. IsFiniteSet(B)
    BY <2>2, <2>3, FS_Subset
  <2>5. A \subseteq B
    BY <1>2, <2>1
  <2>6. Cardinality(A) <= Cardinality(B)
    BY <2>4, <2>5, FS_Subset
  <2>7. Cardinality(A) \in Nat /\ Cardinality(B) \in Nat
    BY <2>4, <2>5, FS_Subset, FS_CardinalityType
  <2>8. Cardinality(B) < Limit
    BY <1>2 DEF Oldest
  <2>9. Cardinality(A) < Limit
    BY <2>6, <2>7, <2>8, SenseFaceAssumption
  <2>10. QED BY <2>9 DEF Oldest
<1>3. QED BY <1>1, <1>2

LEMMA RowTyped ==
  ASSUME TypeOK, NEW i \in Ids
  PROVE  /\ rows[i] \in Rows
         /\ rows[i].serial \in Serials /\ rows[i].line \in Lines /\ rows[i].forwarded \in BOOLEAN
         /\ i \in Nat
<1>1. rows[i] \in Rows /\ i \in Nat
  BY DEF TypeOK, Ids
<1>2. QED BY <1>1 DEF Rows

\* What is posted for a terminal is well-typed.
LEMMA EventsTyped ==
  ASSUME TypeOK, NEW I \in SUBSET Ids
  PROVE  Events(I) \subseteq Serials \X Lines
<1>1. \A i \in I : rows[i].serial \in Serials /\ rows[i].line \in Lines
  BY RowTyped
<1>2. QED BY <1>1 DEF Events

\* A connection that is not closed is some terminal's.
LEMMA OpenConnection ==
  ASSUME TypeOK, NEW h \in Handlers, conn[h] # Closed
  PROVE  /\ conn[h].serial \in Serials
         /\ conn[h].body \in SUBSET Lines /\ conn[h].left \in SUBSET Lines
         /\ conn[h] = [serial |-> conn[h].serial, body |-> conn[h].body, left |-> conn[h].left]
BY DEF TypeOK

LEMMA LinesLeftIsOpen ==
  ASSUME NEW h \in Handlers, NEW l \in conn[h].left
  PROVE  conn[h] # Closed
BY DEF Closed

-----------------------------------------------------------------------------
\* Type correctness.

LEMMA TypeInit == Init => TypeOK
<1>1. <<>> \in Seq(Rows) /\ DOMAIN <<>> = {}
  OBVIOUS
<1>2. QED BY <1>1, SenseFaceAssumption DEF Init, TypeOK, Ids

LEMMA TypeStep == TypeOK /\ [Next]_vars => TypeOK'
<1> SUFFICES ASSUME TypeOK, [Next]_vars
             PROVE  TypeOK'
  OBVIOUS
<1>1. ASSUME NEW s \in Serials, NEW l \in LinesOf[s], Punch(s, l)
      PROVE  TypeOK'
  <2>1. l \in Lines
    BY DEF Lines
  <2>2. /\ made' \in [Serials -> SUBSET Lines]
        /\ outbox' \in [Serials -> SUBSET Lines]
        /\ \A t \in Serials : outbox'[t] \subseteq made'[t] /\ made[t] \subseteq made'[t]
    BY <1>1, <2>1 DEF TypeOK, Punch
  <2>3. \A h \in Handlers : conn[h] # Closed => conn[h].serial \in Serials
    BY OpenConnection
  <2>4. QED BY <1>1, <2>2, <2>3 DEF TypeOK, Punch, Ids
<1>2. ASSUME NEW h \in Handlers, NEW s \in Serials, Push(h, s)
      PROVE  TypeOK'
  <2>1. PICK body \in SUBSET outbox[s] \ {{}} :
          conn' = [conn EXCEPT ![h] = [serial |-> s, body |-> body, left |-> body]]
    BY <1>2 DEF Push
  <2>2. body \in SUBSET Lines /\ body \subseteq made[s]
    BY <2>1 DEF TypeOK
  <2>3. QED BY <1>2, <2>1, <2>2 DEF TypeOK, Push, Ids
<1>3. ASSUME NEW h \in Handlers, SaveLine(h) \/ SaveLineFails(h)
      PROVE  TypeOK'
  <2>1. PICK l \in conn[h].left :
          /\ conn' = [conn EXCEPT ![h].left = @ \ {l}]
          /\ rows' \in {rows, Append(rows, [serial |-> conn[h].serial, line |-> l, forwarded |-> FALSE])}
          /\ unsaved' \in {unsaved, unsaved \cup {<<conn[h].serial, l>>}}
    BY <1>3 DEF SaveLine, SaveLineFails
  <2>2. conn[h] # Closed
    BY <2>1, LinesLeftIsOpen
  <2>3. conn[h].serial \in Serials /\ conn[h].left \in SUBSET Lines /\ conn[h].body \in SUBSET Lines
    BY <2>2, OpenConnection
  <2>4. conn'[h] = [serial |-> conn[h].serial, body |-> conn[h].body, left |-> conn[h].left \ {l}]
    BY <2>1, <2>2, OpenConnection DEF TypeOK
  <2>5. \A g \in Handlers : g # h => conn'[g] = conn[g]
    BY <2>1 DEF TypeOK
  <2>6. conn' \in [Handlers -> {Closed} \cup [serial : Serials, body : SUBSET Lines, left : SUBSET Lines]]
    <3>1. DOMAIN conn' = Handlers /\ conn' = [g \in Handlers |-> conn'[g]]
      BY <2>1 DEF TypeOK
    <3>2. conn'[h] \in [serial : Serials, body : SUBSET Lines, left : SUBSET Lines]
      BY <2>3, <2>4
    <3>3. QED BY <2>5, <3>1, <3>2 DEF TypeOK
  <2>7. \A g \in Handlers : conn'[g] # Closed => /\ conn'[g].left \subseteq conn'[g].body
                                                 /\ conn'[g].body \subseteq made[conn'[g].serial]
    BY <2>2, <2>4, <2>5 DEF TypeOK
  <2>8. rows' \in Seq(Rows) /\ Ids \subseteq Ids'
    <3>1. [serial |-> conn[h].serial, line |-> l, forwarded |-> FALSE] \in Rows
      BY <2>1, <2>3 DEF Rows
    <3>2. rows \in Seq(Rows)
      BY DEF TypeOK
    <3>3. /\ Append(rows, [serial |-> conn[h].serial, line |-> l, forwarded |-> FALSE]) \in Seq(Rows)
          /\ DOMAIN rows \subseteq DOMAIN Append(rows, [serial |-> conn[h].serial, line |-> l, forwarded |-> FALSE])
      BY <3>1, <3>2, AppendedRow
    <3>4. QED BY <2>1, <3>2, <3>3 DEF Ids
  <2>9. unsaved' \subseteq Serials \X Lines
    BY <2>1, <2>3 DEF TypeOK
  <2>10. QED BY <1>3, <2>6, <2>7, <2>8, <2>9 DEF TypeOK, SaveLine, SaveLineFails
<1>4. ASSUME NEW h \in Handlers, Reply(h) \/ ReplyLost(h)
      PROVE  TypeOK'
  <2>1. conn[h].serial \in Serials
    BY <1>4, OpenConnection DEF Reply, ReplyLost
  <2>2. /\ outbox' \in [Serials -> SUBSET Lines]
        /\ \A s \in Serials : outbox'[s] \subseteq made[s]
    BY <1>4, <2>1 DEF TypeOK, Reply, ReplyLost
  <2>3. conn' = [conn EXCEPT ![h] = Closed]
    BY <1>4 DEF Reply, ReplyLost
  <2>4. conn' \in [Handlers -> {Closed} \cup [serial : Serials, body : SUBSET Lines, left : SUBSET Lines]]
    BY <2>3 DEF TypeOK
  <2>5. \A g \in Handlers : conn'[g] # Closed => /\ conn'[g].left \subseteq conn'[g].body
                                                 /\ conn'[g].body \subseteq made[conn'[g].serial]
    BY <2>3 DEF TypeOK
  <2>6. QED BY <1>4, <2>2, <2>4, <2>5 DEF TypeOK, Reply, ReplyLost, Ids
<1>5. CASE Fetch
  <2>1. Oldest(Pending) \subseteq Ids
    BY DEF Oldest, Pending
  <2>2. QED BY <1>5, <2>1 DEF TypeOK, Fetch, Ids
<1>6. ASSUME NEW s \in Serials, Post(s)
      PROVE  TypeOK'
  <2>1. Group(s) \subseteq batch /\ Group(s) \subseteq Ids
    BY DEF Group, TypeOK
  <2>2. hrms' \subseteq hrms \cup Events(Group(s))
    BY <1>6 DEF Post, PostOk, PostFails
  <2>3. hrms' \subseteq Serials \X Lines
    BY <2>1, <2>2, EventsTyped DEF TypeOK
  <2>4. /\ batch' \subseteq Ids /\ marking' \subseteq Ids /\ batch' \cap marking' = {}
    BY <1>6, <2>1 DEF TypeOK, Post, PostOk, PostFails
  <2>5. QED BY <1>6, <2>3, <2>4 DEF TypeOK, Post, PostOk, PostFails, Ids
<1>7. CASE Mark
  <2>1. rows' = [i \in Ids |-> IF i \in marking THEN [rows[i] EXCEPT !.forwarded = TRUE] ELSE rows[i]]
    BY <1>7 DEF Mark
  <2>2. \A i \in Ids : rows[i] \in Rows
    BY RowTyped
  <2>3. \A i \in Ids : rows'[i] \in Rows
    BY <2>1, <2>2 DEF Rows
  <2>4. Ids = 1..Len(rows) /\ Len(rows) \in Nat
    BY DEF TypeOK, Ids
  <2>5. rows' \in Seq(Rows) /\ Ids' = Ids
    BY <2>1, <2>3, <2>4 DEF Ids
  <2>6. QED BY <1>7, <2>5 DEF TypeOK, Mark
<1>8. CASE MarkFails
  BY <1>8 DEF TypeOK, MarkFails, Ids
<1>9. CASE Restart
  <2>1. restarts' \in 0..MaxRestarts
    BY <1>9, SenseFaceAssumption DEF TypeOK, Restart
  <2>2. QED BY <1>9, <2>1 DEF TypeOK, Restart, Ids
<1>10. CASE UNCHANGED vars
  BY <1>10 DEF TypeOK, vars, Ids
<1>11. QED
  BY <1>1, <1>2, <1>3, <1>4, <1>5, <1>6, <1>7, <1>8, <1>9, <1>10 DEF Next, Serve, Forward

\* Every variable holds a value of its type, a terminal has pushed and been
\* answered only about records of its own, and no id is at once still to be
\* posted and posted.
THEOREM PushTypeCorrect == Spec => []TypeOK
BY TypeInit, TypeStep, PTL DEF Spec

-----------------------------------------------------------------------------
\* What a step does to the table.

Added(h, l) == rows' = Append(rows, [serial |-> conn[h].serial, line |-> l, forwarded |-> FALSE])

\* Only SaveLine adds a row and only Mark changes one.
LEMMA TableStep ==
  ASSUME TypeOK, [Next]_vars
  PROVE  \/ rows' = rows
         \/ \E h \in Handlers : \E l \in conn[h].left :
              Added(h, l) /\ UNCHANGED <<batch, marking, hrms>>
         \/ Mark
<1>1. ASSUME NEW h \in Handlers, SaveLine(h)
      PROVE  \/ rows' = rows
             \/ \E l \in conn[h].left : Added(h, l) /\ UNCHANGED <<batch, marking, hrms>>
  BY <1>1 DEF SaveLine, Added
<1>2. ASSUME NEW h \in Handlers, SaveLineFails(h) \/ Reply(h) \/ ReplyLost(h)
      PROVE  rows' = rows
  BY <1>2 DEF SaveLineFails, Reply, ReplyLost
<1>3. ASSUME NEW s \in Serials, Post(s) \/ (\E h \in Handlers : Push(h, s))
                                 \/ (\E l \in LinesOf[s] : Punch(s, l))
      PROVE  rows' = rows
  BY <1>3 DEF Post, PostOk, PostFails, Push, Punch
<1>4. Fetch \/ MarkFails \/ Restart \/ UNCHANGED vars => rows' = rows
  BY DEF Fetch, MarkFails, Restart, vars
<1>5. QED BY <1>1, <1>2, <1>3, <1>4 DEF Next, Serve, Forward

\* A row that is added is well-typed, comes last and leaves the others alone.
LEMMA AddedRow ==
  ASSUME TypeOK, NEW h \in Handlers, NEW l \in conn[h].left, Added(h, l)
  PROVE  /\ Ids' = Ids \cup {Len(rows) + 1}
         /\ \A i \in Ids : i < Len(rows) + 1 /\ rows'[i] = rows[i]
         /\ rows'[Len(rows) + 1].serial = conn[h].serial
         /\ rows'[Len(rows) + 1].line = l
         /\ ~rows'[Len(rows) + 1].forwarded
         /\ Len(rows) + 1 \in Nat \ Ids
         /\ conn[h].serial \in Serials
<1>1. conn[h].serial \in Serials /\ l \in Lines
  BY LinesLeftIsOpen, OpenConnection
<1>2. [serial |-> conn[h].serial, line |-> l, forwarded |-> FALSE] \in Rows
  BY <1>1 DEF Rows
<1>3. rows \in Seq(Rows)
  BY DEF TypeOK
<1>4. /\ Ids' = Ids \cup {Len(rows) + 1}
      /\ \A i \in Ids : i < Len(rows) + 1 /\ rows'[i] = rows[i]
      /\ rows'[Len(rows) + 1] = [serial |-> conn[h].serial, line |-> l, forwarded |-> FALSE]
  BY <1>2, <1>3, AppendedRow DEF Added, Ids
<1>5. Len(rows) + 1 \in Nat \ Ids
  BY <1>3 DEF Ids
<1>6. QED BY <1>1, <1>4, <1>5

\* Marking changes nothing of a row but its mark.
LEMMA MarkedRow ==
  ASSUME TypeOK, Mark
  PROVE  /\ Ids' = Ids
         /\ \A i \in Ids : /\ rows'[i].serial = rows[i].serial
                           /\ rows'[i].line = rows[i].line
                           /\ rows'[i].forwarded <=> (rows[i].forwarded \/ i \in marking)
<1>1. rows' = [i \in Ids |-> IF i \in marking THEN [rows[i] EXCEPT !.forwarded = TRUE] ELSE rows[i]]
  BY DEF Mark
<1>2. Ids' = Ids
  BY <1>1 DEF Ids
<1>3. ASSUME NEW i \in Ids
      PROVE  /\ rows'[i].serial = rows[i].serial
             /\ rows'[i].line = rows[i].line
             /\ rows'[i].forwarded <=> (rows[i].forwarded \/ i \in marking)
  <2>1. rows[i] \in [serial : Serials, line : Lines, forwarded : BOOLEAN]
    BY RowTyped DEF Rows
  <2>2. rows'[i] = IF i \in marking THEN [rows[i] EXCEPT !.forwarded = TRUE] ELSE rows[i]
    BY <1>1
  <2>3. CASE i \in marking
    BY <2>1, <2>2, <2>3
  <2>4. CASE i \notin marking
    BY <2>1, <2>2, <2>4
  <2>5. QED BY <2>3, <2>4
<1>4. QED BY <1>2, <1>3

\* HRMS forgets nothing.
LEMMA HrmsKeeps == [Next]_vars => hrms \subseteq hrms'
<1>1. ASSUME NEW h \in Handlers, Serve(h) \/ (\E s \in Serials : Push(h, s))
      PROVE  hrms' = hrms
  BY <1>1 DEF Serve, SaveLine, SaveLineFails, Reply, ReplyLost, Push
<1>2. ASSUME NEW s \in Serials, Post(s) \/ (\E l \in LinesOf[s] : Punch(s, l))
      PROVE  hrms \subseteq hrms'
  BY <1>2 DEF Post, PostOk, PostFails, Punch
<1>3. Fetch \/ Mark \/ MarkFails \/ Restart \/ UNCHANGED vars => hrms' = hrms
  BY DEF Fetch, Mark, MarkFails, Restart, vars
<1>4. QED BY <1>1, <1>2, <1>3 DEF Next, Forward

\* The cycle of the forwarder, when its table stays as it is: ids are fetched,
\* a terminal's ids are posted or given up, all are given up, or nothing.
LEMMA CycleStep ==
  ASSUME [Next]_vars, ~Mark
  PROVE  \/ Fetch
         \/ \E s \in Serials : PostOk(s) \/ PostFails(s)
         \/ batch' = {} /\ marking' = {}
         \/ UNCHANGED <<batch, marking>>
<1>1. ASSUME NEW h \in Handlers, Serve(h) \/ (\E s \in Serials : Push(h, s))
      PROVE  UNCHANGED <<batch, marking>>
  BY <1>1 DEF Serve, SaveLine, SaveLineFails, Reply, ReplyLost, Push
<1>2. ASSUME NEW s \in Serials, NEW l \in LinesOf[s], Punch(s, l)
      PROVE  UNCHANGED <<batch, marking>>
  BY <1>2 DEF Punch
<1>3. MarkFails \/ Restart => batch' = {} /\ marking' = {}
  BY DEF MarkFails, Restart
<1>4. UNCHANGED vars => UNCHANGED <<batch, marking>>
  BY DEF vars
<1>5. QED BY <1>1, <1>2, <1>3, <1>4 DEF Next, Forward, Post

-----------------------------------------------------------------------------
\* What is marked is delivered.

Delivered(I) == \A i \in I : rows[i].line \in Mappable => <<rows[i].serial, rows[i].line>> \in hrms

\* The inductive invariant: also what has been posted and is not marked yet.
DeliveredInv == MarkedIsDelivered /\ Delivered(marking)

LEMMA DeliveredStep == TypeOK /\ DeliveredInv /\ [Next]_vars => DeliveredInv'
<1> SUFFICES ASSUME TypeOK, DeliveredInv, [Next]_vars
             PROVE  DeliveredInv'
  OBVIOUS
<1>0. hrms \subseteq hrms' /\ marking \subseteq Ids
  BY HrmsKeeps DEF TypeOK
<1>1. ASSUME NEW h \in Handlers, NEW l \in conn[h].left, Added(h, l), UNCHANGED <<batch, marking, hrms>>
      PROVE  DeliveredInv'
  <2>1. \A i \in marking : rows'[i] = rows[i]
    BY <1>0, <1>1, AddedRow
  <2>2. Delivered(marking)'
    BY <1>1, <2>1 DEF DeliveredInv, Delivered
  <2>3. ASSUME NEW i \in Ids', rows'[i].forwarded, rows'[i].line \in Mappable
        PROVE  <<rows'[i].serial, rows'[i].line>> \in hrms'
    <3>1. CASE i \in Ids
      <4>1. rows'[i] = rows[i]
        BY <1>1, <3>1, AddedRow
      <4>2. QED BY <1>0, <2>3, <3>1, <4>1 DEF DeliveredInv, MarkedIsDelivered
    <3>2. CASE i = Len(rows) + 1
      <4>1. ~rows'[Len(rows) + 1].forwarded
        BY <1>1, AddedRow
      <4>2. QED BY <2>3, <3>2, <4>1
    <3>3. QED BY <1>1, <3>1, <3>2, AddedRow
  <2>4. QED BY <2>2, <2>3 DEF DeliveredInv, MarkedIsDelivered
<1>2. CASE Mark
  <2>1. marking' = {} /\ hrms' = hrms
    BY <1>2 DEF Mark
  <2>2. ASSUME NEW i \in Ids', rows'[i].forwarded, rows'[i].line \in Mappable
        PROVE  <<rows'[i].serial, rows'[i].line>> \in hrms'
    <3>1. /\ i \in Ids /\ rows'[i].serial = rows[i].serial /\ rows'[i].line = rows[i].line
          /\ rows[i].forwarded \/ i \in marking
      BY <1>2, <2>2, MarkedRow
    <3>2. QED BY <2>1, <2>2, <3>1 DEF DeliveredInv, MarkedIsDelivered, Delivered
  <2>3. QED BY <2>1, <2>2 DEF DeliveredInv, MarkedIsDelivered, Delivered
<1>3. CASE rows' = rows /\ ~Mark
  <2>1. MarkedIsDelivered'
    BY <1>0, <1>3 DEF DeliveredInv, MarkedIsDelivered, Ids
  <2>2. Delivered(marking)'
    <3>1. ASSUME NEW s \in Serials, PostOk(s)
          PROVE  Delivered(marking)'
      <4>1. marking' = Group(s) /\ hrms' = hrms \cup Events(Group(s))
        BY <3>1 DEF PostOk
      <4>2. \A i \in Group(s) : rows[i].line \in Mappable => <<rows[i].serial, rows[i].line>> \in Events(Group(s))
        BY DEF Events
      <4>3. QED BY <1>3, <4>1, <4>2 DEF Delivered
    <3>2. ASSUME NEW s \in Serials, PostFails(s)
          PROVE  marking' = marking
      BY <3>2 DEF PostFails
    <3>3. Fetch => marking' = marking
      BY DEF Fetch
    <3>4. marking' \in {{}, marking} => Delivered(marking)'
      BY <1>0, <1>3 DEF DeliveredInv, Delivered
    <3>5. QED BY <1>3, <3>1, <3>2, <3>3, <3>4, CycleStep
  <2>3. QED BY <2>1, <2>2 DEF DeliveredInv
<1>4. QED BY <1>1, <1>2, <1>3, TableStep

\* A row marked as forwarded is at HRMS if it maps to an event: whatever posts
\* and updates fail, whoever pushes meanwhile, and wherever the process dies.
THEOREM MarkedAlwaysDelivered == Spec => []MarkedIsDelivered
<1>1. Init => DeliveredInv
  <2>1. Init => Ids = {} /\ marking = {}
    BY DEF Init, Ids
  <2>2. QED BY <2>1 DEF DeliveredInv, MarkedIsDelivered, Delivered
<1>2. TypeOK /\ DeliveredInv /\ [Next]_vars => DeliveredInv'
  BY DeliveredStep
<1>3. DeliveredInv => MarkedIsDelivered
  BY DEF DeliveredInv
<1>4. QED BY <1>1, <1>2, <1>3, PushTypeCorrect, PTL DEF Spec

-----------------------------------------------------------------------------
\* A terminal's rows are marked in order.

\* No older row of the same terminal is left out of a set of ids.
GapFree(I) ==
  \A i, j \in Ids :
    i < j /\ rows[i].serial = rows[j].serial /\ j \in I => rows[i].forwarded \/ i \in I

\* The inductive invariant: the cycle and what it has posted have no gaps.
OrderInv == ForwardedInOrder /\ GapFree(batch) /\ GapFree(marking)

LEMMA OrderStep == TypeOK /\ OrderInv /\ [Next]_vars => OrderInv'
<1> SUFFICES ASSUME TypeOK, OrderInv, [Next]_vars
             PROVE  OrderInv'
  OBVIOUS
<1>0. batch \subseteq Ids /\ marking \subseteq Ids
  BY DEF TypeOK
<1>1. ASSUME NEW h \in Handlers, NEW l \in conn[h].left, Added(h, l), UNCHANGED <<batch, marking, hrms>>
      PROVE  OrderInv'
  <2> DEFINE n == Len(rows) + 1
  <2>1. /\ Ids' = Ids \cup {n} /\ n \notin Ids /\ n \in Nat
        /\ \A i \in Ids : i \in Nat /\ i < n /\ rows'[i] = rows[i]
        /\ ~rows'[n].forwarded
    BY <1>1, AddedRow, RowTyped
  <2> HIDE DEF n
  <2>2. \A i, j \in Ids' : i < j => i \in Ids
    BY <2>1
  <2>3. ForwardedInOrder'
    BY <2>1, <2>2 DEF OrderInv, ForwardedInOrder
  <2>4. GapFree(batch)'
    BY <1>0, <1>1, <2>1, <2>2 DEF OrderInv, GapFree
  <2>5. GapFree(marking)'
    BY <1>0, <1>1, <2>1, <2>2 DEF OrderInv, GapFree
  <2>6. QED BY <2>3, <2>4, <2>5 DEF OrderInv
<1>2. CASE Mark
  <2>1. batch' = batch /\ marking' = {}
    BY <1>2 DEF Mark
  <2>2. /\ Ids' = Ids
        /\ \A i \in Ids : /\ rows'[i].serial = rows[i].serial
                          /\ rows'[i].forwarded <=> (rows[i].forwarded \/ i \in marking)
    BY <1>2, MarkedRow
  <2>3. ForwardedInOrder'
    BY <2>2 DEF OrderInv, ForwardedInOrder, GapFree
  <2>4. GapFree(batch)' /\ GapFree(marking)'
    BY <2>1, <2>2 DEF OrderInv, GapFree
  <2>5. QED BY <2>3, <2>4 DEF OrderInv
<1>3. CASE rows' = rows /\ ~Mark
  <2>1. ForwardedInOrder'
    BY <1>3 DEF OrderInv, ForwardedInOrder, Ids
  <2>2. CASE Fetch
    <3>1. batch' = Oldest(Pending) /\ marking' = marking
      BY <2>2 DEF Fetch
    <3>2. Pending \subseteq Ids /\ \A i \in Ids : i \notin Pending => rows[i].forwarded
      BY DEF Pending
    <3>3. /\ Oldest(Pending) \subseteq Pending
          /\ \A i, j \in Pending : i < j /\ j \in Oldest(Pending) => i \in Oldest(Pending)
      BY <3>2, OldestFirst DEF TypeOK, Ids
    <3>4. QED BY <1>3, <2>1, <3>1, <3>2, <3>3 DEF OrderInv, GapFree, Ids
  <2>3. ASSUME NEW s \in Serials, PostOk(s) \/ PostFails(s)
        PROVE  OrderInv'
    <3>1. batch' = batch \ Group(s) /\ marking' \in {marking, Group(s)}
      BY <2>3 DEF PostOk, PostFails
    <3>2. GapFree(batch \ Group(s)) /\ GapFree(Group(s))
      BY <1>0 DEF OrderInv, GapFree, Group
    <3>3. QED BY <1>3, <2>1, <3>1, <3>2 DEF OrderInv, GapFree, Ids
  <2>4. CASE batch' = {} /\ marking' = {}
    BY <1>3, <2>1, <2>4 DEF OrderInv, GapFree
  <2>5. CASE UNCHANGED <<batch, marking>>
    BY <1>3, <2>1, <2>5 DEF OrderInv, GapFree, Ids
  <2>6. QED BY <1>3, <2>2, <2>3, <2>4, <2>5, CycleStep
<1>4. QED BY <1>1, <1>2, <1>3, TableStep

\* A terminal's rows are marked from the oldest on, whatever the limit of a
\* cycle, the other terminals' failures and the restarts.
THEOREM AlwaysForwardedInOrder == Spec => []ForwardedInOrder
<1>1. Init => OrderInv
  <2>1. Init => Ids = {}
    BY DEF Init, Ids
  <2>2. QED BY <2>1 DEF OrderInv, ForwardedInOrder, GapFree
<1>2. TypeOK /\ OrderInv /\ [Next]_vars => OrderInv'
  BY OrderStep
<1>3. OrderInv => ForwardedInOrder
  BY DEF OrderInv
<1>4. QED BY <1>1, <1>2, <1>3, PushTypeCorrect, PTL DEF Spec

-----------------------------------------------------------------------------
\* What is accepted is stored.

InTable(t, l) == \E i \in DOMAIN t : t[i].line = l
Accounted(s, l) == <<s, l>> \in unsaved \/ InTable(rows, l)

\* The inductive invariant: a row is about a record of its terminal, and a line a
\* thread is through with is in the table or its insert failed.
StoredInv ==
  /\ \A i \in Ids : rows[i].line \in made[rows[i].serial]
  /\ \A h \in Handlers : conn[h] # Closed =>
       \A l \in conn[h].body \ conn[h].left : Accounted(conn[h].serial, l)
  /\ \A s \in Serials : \A l \in made[s] \ outbox[s] : Accounted(s, l)

\* Nothing that was recorded, pushed in vain or saved is forgotten.
LEMMA HistoryStays ==
  ASSUME TypeOK, [Next]_vars
  PROVE  (\A s \in Serials : made[s] \subseteq made'[s]) /\ unsaved \subseteq unsaved'
<1>1. ASSUME NEW s \in Serials, NEW l \in LinesOf[s], Punch(s, l)
      PROVE  (\A t \in Serials : made[t] \subseteq made'[t]) /\ unsaved' = unsaved
  BY <1>1 DEF Punch, TypeOK
<1>2. ASSUME NEW h \in Handlers, Serve(h) \/ (\E s \in Serials : Push(h, s))
      PROVE  made' = made /\ unsaved \subseteq unsaved'
  BY <1>2 DEF Serve, SaveLine, SaveLineFails, Reply, ReplyLost, Push
<1>3. ASSUME NEW s \in Serials, Post(s)
      PROVE  made' = made /\ unsaved' = unsaved
  BY <1>3 DEF Post, PostOk, PostFails
<1>4. Fetch \/ Mark \/ MarkFails \/ Restart \/ UNCHANGED vars => made' = made /\ unsaved' = unsaved
  BY DEF Fetch, Mark, MarkFails, Restart, vars
<1>5. QED BY <1>1, <1>2, <1>3, <1>4 DEF Next, Forward

\* The table loses no line.
LEMMA AccountedStays ==
  ASSUME TypeOK, [Next]_vars
  PROVE  \A s, l : Accounted(s, l) => Accounted(s, l)'
<1> SUFFICES ASSUME NEW s, NEW l, Accounted(s, l)
             PROVE  <<s, l>> \in unsaved' \/ InTable(rows', l)
  BY DEF Accounted
<1>1. CASE <<s, l>> \in unsaved
  BY <1>1, HistoryStays
<1>2. CASE InTable(rows, l)
  <2>1. PICK i \in Ids : rows[i].line = l
    BY <1>2 DEF InTable, Ids
  <2>2. CASE rows' = rows
    BY <1>2, <2>2
  <2>3. ASSUME NEW h \in Handlers, NEW k \in conn[h].left, Added(h, k)
        PROVE  InTable(rows', l)
    <3>1. i \in Ids' /\ rows'[i] = rows[i]
      BY <2>1, <2>3, AddedRow
    <3>2. QED BY <2>1, <3>1 DEF InTable, Ids
  <2>4. CASE Mark
    BY <2>1, <2>4, MarkedRow DEF InTable, Ids
  <2>5. QED BY <2>2, <2>3, <2>4, TableStep
<1>3. QED BY <1>1, <1>2 DEF Accounted

\* Rows go on being about records of their terminals.
LEMMA RowsStay ==
  ASSUME TypeOK, StoredInv, [Next]_vars
  PROVE  \A i \in Ids' : rows'[i].line \in made'[rows'[i].serial]
<1>1. \A i \in Ids : rows[i].serial \in Serials /\ rows[i].line \in made'[rows[i].serial]
  BY RowTyped, HistoryStays DEF StoredInv
<1>2. CASE rows' = rows
  BY <1>1, <1>2 DEF Ids
<1>3. ASSUME NEW h \in Handlers, NEW l \in conn[h].left, Added(h, l)
      PROVE  \A i \in Ids' : rows'[i].line \in made'[rows'[i].serial]
  <2>1. conn[h].serial \in Serials /\ l \in made[conn[h].serial]
    BY LinesLeftIsOpen, OpenConnection DEF TypeOK
  <2>2. l \in made'[conn[h].serial]
    BY <2>1, HistoryStays
  <2>3. QED BY <1>1, <1>3, <2>2, AddedRow
<1>4. CASE Mark
  BY <1>1, <1>4, MarkedRow
<1>5. QED BY <1>2, <1>3, <1>4, TableStep

LEMMA StoredStep ==
  ASSUME TypeOK, StoredInv, [Next]_vars
  PROVE  StoredInv'
<1> DEFINE Served(h) == conn[h] # Closed =>
                          \A l \in conn[h].body \ conn[h].left : Accounted(conn[h].serial, l)
           Answered == \A s \in Serials : \A l \in made[s] \ outbox[s] : Accounted(s, l)
           Same == conn' = conn /\ made' = made /\ outbox' = outbox
<1>1. SUFFICES (\A h \in Handlers : Served(h)') /\ Answered'
  BY RowsStay DEF StoredInv
<1>2. ASSUME NEW g \in Handlers, conn'[g] \in {conn[g], Closed}
      PROVE  Served(g)'
  <2>1. SUFFICES ASSUME conn'[g] # Closed, NEW l \in conn'[g].body \ conn'[g].left
                 PROVE  Accounted(conn[g].serial, l)'
    BY <1>2 DEF Accounted
  <2>2. Accounted(conn[g].serial, l)
    BY <1>2, <2>1 DEF StoredInv
  <2>3. <<conn[g].serial, l>> \in unsaved' \/ InTable(rows', l)
    BY <2>2, AccountedStays DEF Accounted
  <2>4. QED BY <1>2, <2>1, <2>3 DEF Accounted
<1>3. ASSUME \A s \in Serials : made'[s] \ outbox'[s] \subseteq made[s] \ outbox[s]
      PROVE  Answered'
  BY <1>3, AccountedStays DEF StoredInv
<1>4. ASSUME NEW h \in Handlers, SaveLine(h) \/ SaveLineFails(h)
      PROVE  (\A g \in Handlers : Served(g)') /\ Answered'
  <2>1. PICK l \in conn[h].left :
          /\ conn' = [conn EXCEPT ![h].left = @ \ {l}]
          /\ IF Known(l) THEN rows' = rows ELSE Added(h, l)
             \/ <<conn[h].serial, l>> \in unsaved'
    BY <1>4 DEF SaveLine, SaveLineFails, Added
  <2>2. conn[h] # Closed
    BY <2>1, LinesLeftIsOpen
  <2>3. conn'[h] = [serial |-> conn[h].serial, body |-> conn[h].body, left |-> conn[h].left \ {l}]
    BY <2>1, <2>2, OpenConnection DEF TypeOK
  <2>4. \A g \in Handlers : g # h => conn'[g] = conn[g]
    BY <2>1 DEF TypeOK
  <2>5. <<conn[h].serial, l>> \in unsaved' \/ InTable(rows', l)
    <3>1. CASE Known(l) /\ rows' = rows
      BY <3>1 DEF Known, InTable, Ids
    <3>2. CASE Added(h, l)
      BY <3>2, AddedRow DEF InTable, Ids
    <3>3. QED BY <2>1, <3>1, <3>2
  <2>6. Served(h)'
    <3>1. SUFFICES ASSUME NEW k \in conn'[h].body \ conn'[h].left
                   PROVE  <<conn[h].serial, k>> \in unsaved' \/ InTable(rows', k)
      BY <2>3 DEF Accounted
    <3>2. CASE k = l
      BY <2>5, <3>2
    <3>3. CASE k # l
      <4>1. k \in conn[h].body \ conn[h].left
        BY <2>3, <3>1, <3>3
      <4>2. Accounted(conn[h].serial, k)
        BY <2>2, <4>1 DEF StoredInv
      <4>3. QED BY <4>2, AccountedStays DEF Accounted
    <3>4. QED BY <3>2, <3>3
  <2>7. made' = made /\ outbox' = outbox
    BY <1>4 DEF SaveLine, SaveLineFails
  <2>8. QED BY <1>2, <1>3, <2>4, <2>6, <2>7
<1>5. ASSUME NEW h \in Handlers, Reply(h) \/ ReplyLost(h)
      PROVE  (\A g \in Handlers : Served(g)') /\ Answered'
  <2>1. /\ conn[h] # Closed /\ conn[h].left = {}
        /\ conn' = [conn EXCEPT ![h] = Closed]
        /\ made' = made
        /\ outbox' \in {outbox, [outbox EXCEPT ![conn[h].serial] = @ \ conn[h].body]}
    BY <1>5 DEF Reply, ReplyLost
  <2>2. \A g \in Handlers : conn'[g] \in {conn[g], Closed}
    BY <2>1 DEF TypeOK
  <2>3. ASSUME NEW s \in Serials, NEW l \in made'[s] \ outbox'[s]
        PROVE  Accounted(s, l)
    <3>1. CASE l \in made[s] \ outbox[s]
      BY <3>1 DEF StoredInv
    <3>2. CASE l \in outbox[s]
      <4>1. s = conn[h].serial /\ l \in conn[h].body
        BY <2>1, <2>3, <3>2 DEF TypeOK
      <4>2. QED BY <2>1, <4>1 DEF StoredInv
    <3>3. QED BY <2>1, <2>3, <3>1, <3>2
  <2>4. Answered'
    BY <2>3, AccountedStays
  <2>5. QED BY <1>2, <2>2, <2>4
<1>6. ASSUME NEW h \in Handlers, NEW s \in Serials, Push(h, s)
      PROVE  (\A g \in Handlers : Served(g)') /\ Answered'
  <2>1. PICK body \in SUBSET outbox[s] \ {{}} :
          conn' = [conn EXCEPT ![h] = [serial |-> s, body |-> body, left |-> body]]
    BY <1>6 DEF Push
  <2>2. Served(h)'
    <3>1. conn'[h] = [serial |-> s, body |-> body, left |-> body]
      BY <2>1 DEF TypeOK
    <3>2. conn'[h].body \ conn'[h].left = {}
      BY <3>1
    <3>3. QED BY <3>2
  <2>3. \A g \in Handlers : g # h => conn'[g] = conn[g]
    BY <2>1 DEF TypeOK
  <2>4. made' = made /\ outbox' = outbox
    BY <1>6 DEF Push
  <2>5. QED BY <1>2, <1>3, <2>2, <2>3, <2>4
<1>7. ASSUME NEW s \in Serials, NEW l \in LinesOf[s], Punch(s, l)
      PROVE  (\A g \in Handlers : Served(g)') /\ Answered'
  <2>1. \A t \in Serials : made'[t] \ outbox'[t] \subseteq made[t] \ outbox[t]
    BY <1>7 DEF Punch, TypeOK
  <2>2. conn' = conn
    BY <1>7 DEF Punch
  <2>3. QED BY <1>2, <1>3, <2>1, <2>2
<1>8. CASE made' = made /\ outbox' = outbox /\ (\A g \in Handlers : conn'[g] \in {conn[g], Closed})
  BY <1>2, <1>3, <1>8
<1>9. ASSUME NEW s \in Serials, Post(s)
      PROVE  Same
  BY <1>9 DEF Post, PostOk, PostFails
<1>10. Fetch \/ Mark \/ MarkFails \/ UNCHANGED vars => Same
  BY DEF Fetch, Mark, MarkFails, vars
<1>11. Restart => made' = made /\ outbox' = outbox /\ (\A g \in Handlers : conn'[g] = Closed)
  BY DEF Restart
<1>12. QED
  BY <1>4, <1>5, <1>6, <1>7, <1>8, <1>9, <1>10, <1>11 DEF Next, Serve, Forward

\* "Receive the push -> save to SQLite": a record a terminal was told OK about is
\* in the table, whatever answers are lost, whoever pushes at once and wherever
\* the process dies, unless its own insert failed; the row is its terminal's or,
\* when two terminals sent the same line, that of one that recorded it too.
THEOREM AcceptedAlwaysStored == Spec => []AcceptedIsStored
<1>1. Init => StoredInv
  <2>1. Init => Ids = {} /\ (\A s \in Serials : made[s] = {}) /\ (\A h \in Handlers : conn[h] = Closed)
    BY DEF Init, Ids
  <2>2. QED BY <2>1 DEF StoredInv
<1>2. TypeOK /\ StoredInv /\ [Next]_vars => StoredInv'
  BY StoredStep
<1>3. StoredInv => AcceptedIsStored
  <2> SUFFICES ASSUME StoredInv, NEW s \in Serials, NEW l \in made[s] \ outbox[s],
                      <<s, l>> \notin unsaved
               PROVE  \E i \in Ids : rows[i].line = l /\ l \in made[rows[i].serial]
    BY DEF AcceptedIsStored
  <2>1. PICK i \in Ids : rows[i].line = l
    BY DEF StoredInv, Accounted, InTable, Ids
  <2>2. QED BY <2>1 DEF StoredInv
<1>4. QED BY <1>1, <1>2, <1>3, PushTypeCorrect, PTL DEF Spec
=============================================================================
