------------------------ MODULE ServiceManagerProofs ------------------------
(***************************************************************************)
(* Theorems about the processes that fbsy starts on one machine, for any   *)
(* slots, commands, releases and upsets.                                   *)
(***************************************************************************)
EXTENDS ServiceManager, SequenceTheorems, TLAPS

Alive(q) == q.state # "none"

\* The states in which a process runs.
Active == {"preflight", "starting", "up"}

\* What a step may make of a process that is there: the same process in
\* a later state, or none.
Follows(q, r) ==
  /\ r \in Processes
  /\ r.state \in Active => q.state \in Active
  /\ r.state = "preflight" => q.state = "preflight"
  /\ Alive(r) => /\ Alive(q)
                 /\ r.name = q.name /\ r.new = q.new /\ r.boot = q.boot
                 /\ r.child => q.child

LEMMA GoneIsProcess == Gone \in Processes /\ ~Alive(Gone)
BY DEF Gone, Processes, States, Names, Alive

LEMMA FollowsItself == \A q \in Processes : Follows(q, q)
BY DEF Follows

LEMMA ExitedFollows ==
  ASSUME NEW q \in Processes, Alive(q)
  PROVE  Follows(q, Exited(q)) /\ Exited(q).state \in {"zombie", "none"}
<1>1. CASE q.child
  <2>1. Exited(q) = [q EXCEPT !.state = "zombie"]
    BY <1>1 DEF Exited
  <2> QED BY <2>1 DEF Processes, States, Follows, Alive, Active
<1>2. CASE ~q.child
  <2>1. Exited(q) = Gone
    BY <1>2 DEF Exited
  <2> QED BY <2>1, GoneIsProcess DEF Follows, Alive, Gone, Active
<1> QED BY <1>1, <1>2

LEMMA SignalledFollows ==
  ASSUME NEW q \in Processes, Alive(q)
  PROVE  Follows(q, Signalled(q)) /\ Signalled(q).state \in {"draining", "zombie", "none"}
<1>1. CASE q.name = "bridge" /\ q.state \in {"up", "draining"}
  <2>1. Signalled(q) = [q EXCEPT !.state = "draining"]
    BY <1>1 DEF Signalled
  <2> QED BY <2>1 DEF Processes, States, Follows, Alive, Active
<1>2. CASE ~(q.name = "bridge" /\ q.state \in {"up", "draining"}) /\ q.state = "zombie"
  <2>1. Signalled(q) = q
    BY <1>2 DEF Signalled
  <2> QED BY <1>2, <2>1, FollowsItself
<1>3. CASE ~(q.name = "bridge" /\ q.state \in {"up", "draining"}) /\ q.state # "zombie"
  <2>1. Signalled(q) = Exited(q)
    BY <1>3 DEF Signalled
  <2> QED BY <2>1, ExitedFollows
<1> QED BY <1>1, <1>2, <1>3

LEMMA StateFollows ==
  ASSUME NEW q \in Processes, q.state \in Active, NEW s \in {"starting", "up"}
  PROVE  Follows(q, [q EXCEPT !.state = s])
BY DEF Follows, Processes, States, Alive, Active

LEMMA SpawnedIsProcess ==
  ASSUME NEW n \in Names, NEW b \in BOOLEAN
  PROVE  /\ Spawned(n, b) \in Processes
         /\ Spawned(n, b).name = n /\ Spawned(n, b).boot = b
         /\ Spawned(n, b).child = ~b /\ Spawned(n, b).new = (binary = "new")
         /\ Spawned(n, b).state = IF b THEN "preflight" ELSE "starting"
BY DEF Spawned, Processes, States

LEMMA FreeSlotIsFree ==
  FreeSlots # {} =>
    /\ FreeSlot \in Slots /\ FreeSlot \in FreeSlots
    /\ procs[FreeSlot] = Gone /\ FreeSlot \notin References
<1>1. FreeSlots \subseteq Slots
  BY DEF FreeSlots
<1>2. FreeSlots # {} => FreeSlot \in Slots /\ FreeSlot \in FreeSlots
  BY <1>1 DEF FreeSlot
<1>3. \A p \in FreeSlots : procs[p] = Gone /\ p \notin References
  BY DEF FreeSlots
<1> QED BY <1>2, <1>3

-----------------------------------------------------------------------------
\* What becomes of the processes in a step.

\* No process comes.
Wane == /\ procs' \in [Slots -> Processes]
        /\ \A p \in Slots : Follows(procs[p], procs'[p])

\* One process comes, in a slot that is free.
Wax(n, b) == /\ FreeSlots # {}
             /\ procs' = [procs EXCEPT ![FreeSlot] = Spawned(n, b)]

LEMMA WaneOne ==
  ASSUME procs \in [Slots -> Processes], NEW p \in Slots, NEW r,
         Follows(procs[p], r), procs' = [procs EXCEPT ![p] = r]
  PROVE  Wane
<1>1. r \in Processes
  BY DEF Follows
<1>2. procs' \in [Slots -> Processes]
  BY <1>1
<1>3. ASSUME NEW q \in Slots PROVE Follows(procs[q], procs'[q])
  BY FollowsItself
<1> QED BY <1>2, <1>3 DEF Wane

LEMMA WaneNone ==
  ASSUME procs \in [Slots -> Processes], procs' = procs
  PROVE  Wane
BY FollowsItself DEF Wane

LEMMA WaneTerminated ==
  ASSUME procs \in [Slots -> Processes], NEW P, procs' = Terminated(P), 0 \notin Slots
  PROVE  Wane
<1>1. ASSUME NEW p \in Slots PROVE Follows(procs[p], procs'[p])
  <2>1. CASE p \in P /\ IsAlive(p)
    <3>1. procs'[p] = Signalled(procs[p])
      BY <2>1 DEF Terminated
    <3>2. Alive(procs[p])
      BY <2>1 DEF IsAlive, Alive
    <3> QED BY <3>1, <3>2, SignalledFollows
  <2>2. CASE ~(p \in P /\ IsAlive(p))
    <3>1. procs'[p] = procs[p]
      BY <2>2 DEF Terminated
    <3> QED BY <3>1, FollowsItself
  <2> QED BY <2>1, <2>2
<1>2. procs' = [p \in Slots |-> procs'[p]]
  BY DEF Terminated
<1>3. procs' \in [Slots -> Processes]
  BY <1>1, <1>2 DEF Follows
<1> QED BY <1>1, <1>3 DEF Wane

LEMMA WaneOrphaned ==
  ASSUME procs \in [Slots -> Processes], procs' = Orphaned
  PROVE  Wane
<1>1. ASSUME NEW p \in Slots PROVE Follows(procs[p], procs'[p])
  <2>1. CASE procs[p].state = "zombie"
    <3>1. procs'[p] = Gone
      BY <2>1 DEF Orphaned
    <3> QED BY <3>1, GoneIsProcess DEF Follows, Alive, Gone, Active
  <2>2. CASE procs[p].state # "zombie"
    <3>1. procs'[p] = [procs[p] EXCEPT !.child = FALSE]
      BY <2>2 DEF Orphaned
    <3> QED BY <3>1 DEF Follows, Processes, Alive, Active
  <2> QED BY <2>1, <2>2
<1>2. procs' = [p \in Slots |-> procs'[p]]
  BY DEF Orphaned
<1>3. procs' \in [Slots -> Processes]
  BY <1>1, <1>2 DEF Follows
<1> QED BY <1>1, <1>3 DEF Wane

-----------------------------------------------------------------------------
\* The steps of a command.

Job == Seq(Steps \X Names)

LEMMA AtHead ==
  ASSUME job \in Job, NEW step, NEW n, At(step, n)
  PROVE  /\ job # <<>> /\ Len(job) >= 1 /\ job[1] = <<step, n>>
         /\ Tail(job) \in Job /\ Len(Tail(job)) = Len(job) - 1
         /\ \A i \in 1..(Len(job) - 1) : Tail(job)[i] = job[i + 1]
BY HeadTailProperties, EmptySeq, LenProperties DEF At, Job

LEMMA SucceedsIsTail ==
  ASSUME job \in Job, job # <<>>, Succeeds
  PROVE  job' = Tail(job) /\ job' \in Job
<1>1. Tail(job) \in Job
  BY HeadTailProperties DEF Job
<1>2. <<>> \o Tail(job) = Tail(job)
  BY <1>1, ConcatEmptySeq DEF Job
<1> QED BY <1>1, <1>2 DEF Succeeds, Does

LEMMA DoesMore ==
  ASSUME job \in Job, job # <<>>, NEW more \in Job, Does(more)
  PROVE  job' \in Job
<1>1. Tail(job) \in Job
  BY HeadTailProperties DEF Job
<1> QED BY <1>1, ConcatProperties DEF Does, Job

\* A failed command goes on after an "else", or at its last step.
LEMMA FailsIsRest ==
  ASSUME job \in Job, job # <<>>, Fails
  PROVE  /\ job' \in Job
         /\ \E k \in 0..Len(job) :
              /\ \/ k = Len(job) - 1 /\ \A i \in 1..Len(job) : job[i][1] # "else"
                 \/ k > 0 /\ job[k][1] = "else"
              /\ Len(job') = Len(job) - k
              /\ \A i \in 1..(Len(job) - k) : job'[i] = job[i + k]
<1> DEFINE elses == {i \in DOMAIN job : job[i][1] = "else"}
<1>1. Len(job) \in Nat /\ Len(job) >= 1 /\ DOMAIN job = 1..Len(job)
      /\ \A i \in 1..Len(job) : job[i] \in Steps \X Names
  BY EmptySeq, LenProperties, ElementOfSeq DEF Job
<1>2. ASSUME NEW k \in 0..Len(job), job' = SubSeq(job, k + 1, Len(job))
      PROVE  /\ job' \in Job
             /\ Len(job') = Len(job) - k
             /\ \A i \in 1..(Len(job) - k) : job'[i] = job[i + k]
  <2> DEFINE m == k + 1
             n == Len(job)
  <2>1. m \in Int /\ n \in Int /\ m <= n + 1 /\ \A i \in m..n : job[i] \in Steps \X Names
    BY <1>1
  <2>2. job' = SubSeq(job, m, n)
    BY <1>2
  <2>3. n - m + 1 = Len(job) - k /\ \A i \in 1..(Len(job) - k) : m + i - 1 = i + k
    BY <1>1
  <2> HIDE DEF m, n, elses
  <2>4. /\ SubSeq(job, m, n) \in Seq(Steps \X Names)
        /\ Len(SubSeq(job, m, n)) = IF m <= n THEN n - m + 1 ELSE 0
        /\ \A i \in 1..n - m + 1 : SubSeq(job, m, n)[i] = job[m + i - 1]
    BY <2>1, SubSeqProperties
  <2>5. Len(SubSeq(job, m, n)) = n - m + 1
    BY <2>1, <2>4
  <2>6. \A i \in 1..(Len(job) - k) : job'[i] = job[i + k]
    BY <2>2, <2>3, <2>4
  <2> QED BY <2>2, <2>3, <2>4, <2>5, <2>6 DEF Job
<1>3. CASE elses = {}
  <2>1. job' = SubSeq(job, Len(job), Len(job))
    BY <1>3 DEF Fails
  <2>2. Len(job) - 1 \in 0..Len(job) /\ (Len(job) - 1) + 1 = Len(job)
    BY <1>1
  <2>3. \A i \in 1..Len(job) : job[i][1] # "else"
    BY <1>1, <1>3
  <2> QED BY <1>2, <2>1, <2>2, <2>3
<1>4. CASE elses # {}
  <2>1. PICK e \in elses : job' = SubSeq(job, e + 1, Len(job))
    BY <1>4 DEF Fails
  <2>2. e \in 1..Len(job) /\ job[e][1] = "else"
    BY <1>1
  <2>3. e \in 0..Len(job) /\ e > 0
    BY <1>1, <2>2
  <2> QED BY <1>2, <2>1, <2>2, <2>3
<1> QED BY <1>3, <1>4

-----------------------------------------------------------------------------
\* The shape of a command: which step may come right behind which.

StepSet == Steps \X Names

\* b may come right behind a.
Goes(a, b) ==
  /\ a[1] # "exit" /\ b[1] # "capture"
  /\ a[1] = "spawn" <=> b[1] = "confirm"
  /\ a[1] = "spawn" => b[2] = a[2]
  /\ a[1] = "list" <=> b[1] = "sweep"
  /\ a[1] = "capture" <=> b[1] = "replace"
  /\ a[1] = "replace" => b[1] = "exit"
  /\ a[1] = "health" => b[1] = "else"

\* And while an update restarts the services C.
Restarting == {"terminate", "exited", "relaunch", "await unit", "spawn", "confirm"}
RestartGoes(C, a, b) ==
  /\ a[1] = "terminate" => b = <<"exited", a[2]>>
  /\ a[1] = "exited" => b = <<"relaunch", a[2]>>
  /\ a[1] = "spawn" => b = <<"confirm", a[2]>>
  /\ a[1] \in {"relaunch", "await unit", "confirm"} =>
       IF a[2] = "bridge" /\ "scan" \in C THEN b = <<"terminate", "scan">>
       ELSE b[1] = "health"
  /\ a[1] = "else" => b[1] = "rollback"
  /\ a[1] = "rollback" => b[1] = "exit"

Goings == {ab \in StepSet \X StepSet : Goes(ab[1], ab[2])}
RestartGoings(C) == {ab \in StepSet \X StepSet : RestartGoes(C, ab[1], ab[2])}

\* Steps that follow each other as R says.
Linked(s, R) == \A i \in 1..(Len(s) - 1) : <<s[i], s[i + 1]>> \in R

\* Linked steps of T, the first one in F and the last one in L.
Chain(R, T, s, F, L) ==
  /\ s \in Seq(T) /\ Len(s) >= 1 /\ Linked(s, R)
  /\ s[1] \in F /\ s[Len(s)] \in L

LEMMA ChainsJoin ==
  ASSUME NEW R, NEW T, NEW s, NEW t, NEW F, NEW G, NEW L, NEW M,
         Chain(R, T, s, F, L), Chain(R, T, t, G, M),
         \A a \in L, b \in G : <<a, b>> \in R
  PROVE  Chain(R, T, s \o t, F, M)
<1>1. s \in Seq(T) /\ t \in Seq(T) /\ Len(s) \in Nat /\ Len(t) \in Nat
      /\ Len(s) >= 1 /\ Len(t) >= 1
  BY LenProperties DEF Chain
<1> DEFINE u == s \o t
<1>2. /\ u \in Seq(T) /\ Len(u) = Len(s) + Len(t)
      /\ \A i \in 1..(Len(s) + Len(t)) : u[i] = IF i <= Len(s) THEN s[i] ELSE t[i - Len(s)]
  BY <1>1, ConcatProperties
<1> HIDE DEF u
<1>3. u[1] \in F /\ u[Len(u)] \in M
  <2>1. 1 \in 1..(Len(s) + Len(t)) /\ Len(u) \in 1..(Len(s) + Len(t)) /\ 1 <= Len(s)
        /\ ~(Len(u) <= Len(s)) /\ Len(u) - Len(s) = Len(t)
    BY <1>1, <1>2
  <2> QED BY <1>2, <2>1 DEF Chain
<1>4. ASSUME NEW i \in 1..(Len(u) - 1) PROVE <<u[i], u[i + 1]>> \in R
  <2>1. i \in Nat /\ i \in 1..(Len(s) + Len(t)) /\ i + 1 \in 1..(Len(s) + Len(t))
    BY <1>1, <1>2
  <2>2. CASE i < Len(s)
    <3>1. i \in 1..(Len(s) - 1) /\ i <= Len(s) /\ i + 1 <= Len(s)
      BY <1>1, <2>1, <2>2
    <3>2. u[i] = s[i] /\ u[i + 1] = s[i + 1]
      BY <1>2, <2>1, <3>1
    <3> QED BY <3>1, <3>2 DEF Chain, Linked
  <2>3. CASE i = Len(s)
    <3>1. i <= Len(s) /\ ~(i + 1 <= Len(s)) /\ i + 1 - Len(s) = 1
      BY <1>1, <2>3
    <3>2. u[i] = s[Len(s)] /\ u[i + 1] = t[1]
      BY <1>2, <2>1, <2>3, <3>1
    <3> QED BY <3>2 DEF Chain
  <2>4. CASE i > Len(s)
    <3>1. ~(i <= Len(s)) /\ ~(i + 1 <= Len(s)) /\ i + 1 - Len(s) = (i - Len(s)) + 1
          /\ i - Len(s) \in 1..(Len(t) - 1)
      BY <1>1, <1>2, <2>1, <2>4
    <3>2. u[i] = t[i - Len(s)] /\ u[i + 1] = t[(i - Len(s)) + 1]
      BY <1>2, <2>1, <3>1
    <3> QED BY <3>1, <3>2 DEF Chain, Linked
  <2> QED BY <1>1, <2>1, <2>2, <2>3, <2>4
<1>5. Len(u) >= 1
  BY <1>1, <1>2
<1> QED BY <1>2, <1>3, <1>4, <1>5 DEF Chain, Linked, u

LEMMA ChainOne ==
  ASSUME NEW R, NEW T, NEW a \in T, NEW F, NEW L, a \in F, a \in L
  PROVE  Chain(R, T, <<a>>, F, L)
BY DEF Chain, Linked

LEMMA ChainTwo ==
  ASSUME NEW R, NEW T, NEW a \in T, NEW b \in T, NEW F, NEW L, a \in F, b \in L,
         <<a, b>> \in R
  PROVE  Chain(R, T, <<a, b>>, F, L)
<1>1. <<a, b>> \in Seq(T) /\ Len(<<a, b>>) = 2
  OBVIOUS
<1>2. \A i \in 1..(2 - 1) : i = 1 /\ i + 1 = 2
  OBVIOUS
<1> QED BY <1>1, <1>2 DEF Chain, Linked

LEMMA ChainThree ==
  ASSUME NEW R, NEW T, NEW a \in T, NEW b \in T, NEW c \in T, NEW F, NEW L, a \in F, c \in L,
         <<a, b>> \in R, <<b, c>> \in R
  PROVE  Chain(R, T, <<a, b, c>>, F, L)
<1>1. <<a, b, c>> \in Seq(T) /\ Len(<<a, b, c>>) = 3
  OBVIOUS
<1>2. \A i \in 1..(3 - 1) : (i = 1 /\ i + 1 = 2) \/ (i = 2 /\ i + 1 = 3)
  OBVIOUS
<1> QED BY <1>1, <1>2 DEF Chain, Linked

\* The rest of a chain from some step on.
LEMMA RestOfChain ==
  ASSUME NEW R, NEW T, NEW s, NEW F, NEW L, Chain(R, T, s, F, L),
         NEW k \in Nat, k < Len(s), NEW r \in Seq(T), Len(r) = Len(s) - k,
         \A i \in 1..(Len(s) - k) : r[i] = s[i + k]
  PROVE  Chain(R, T, r, {s[k + 1]}, L) /\ r[1] = s[k + 1] /\ r[Len(r)] = s[Len(s)]
<1>1. Len(s) \in Nat /\ Len(r) >= 1
  BY LenProperties DEF Chain
<1>2. r[1] = s[k + 1]
  <2>1. 1 \in 1..(Len(s) - k) /\ 1 + k = k + 1
    BY <1>1
  <2> QED BY <2>1
<1>3. r[Len(r)] = s[Len(s)]
  <2>1. Len(r) \in 1..(Len(s) - k) /\ Len(r) + k = Len(s)
    BY <1>1
  <2> QED BY <2>1
<1>4. ASSUME NEW i \in 1..(Len(r) - 1) PROVE <<r[i], r[i + 1]>> \in R
  <2>1. i \in 1..(Len(s) - k) /\ i + 1 \in 1..(Len(s) - k) /\ (i + 1) + k = (i + k) + 1
        /\ i + k \in 1..(Len(s) - 1)
    BY <1>1
  <2>2. r[i] = s[i + k] /\ r[i + 1] = s[(i + 1) + k]
    BY <2>1
  <2>3. r[i + 1] = s[(i + k) + 1]
    BY <2>1, <2>2
  <2>4. <<s[i + k], s[(i + k) + 1]>> \in R
    BY <2>1 DEF Chain, Linked
  <2> QED BY <2>2, <2>3, <2>4
<1> QED BY <1>1, <1>2, <1>3, <1>4 DEF Chain, Linked

\* A step without a rule of its own goes before and behind any other such.
LEMMA FreelyGoes ==
  ASSUME NEW a \in StepSet, NEW b \in StepSet,
         a[1] \notin {"exit", "spawn", "list", "capture", "replace", "health"},
         b[1] \notin {"confirm", "sweep", "capture", "replace"}
  PROVE  <<a, b>> \in Goings
BY DEF Goings, Goes

ManagerSteps == {"unload", "unloaded", "signal", "entry", "install", "await", "spawn", "confirm",
                 "list", "sweep", "else", "exit", "capture", "replace"}
ManagerSet == ManagerSteps \X Names

LEMMA ManagerStepsAreSteps == ManagerSteps \subseteq Steps /\ ManagerSet \subseteq StepSet
BY DEF ManagerSteps, Steps, ManagerSet, StepSet

At2(S, n) == {<<s, n>> : s \in S}

LEMMA ScriptIsChain ==
  ASSUME NEW cmd \in {"start", "stop", "restart", "show", "update"}, NEW n \in Names
  PROVE  Chain(Goings, ManagerSet, Script(cmd, n) \o <<<<"exit", n>>>>,
               At2({"unload", "spawn", "entry", "list", "capture"}, n), {<<"exit", n>>})
<1> DEFINE C(s, F, L) == Chain(Goings, ManagerSet, s, At2(F, n), At2(L, n))
           F0 == {"unload", "spawn", "entry", "list", "capture"}
           L0 == {"signal", "await", "confirm", "sweep"}
<1>1. ASSUME NEW s \in ManagerSteps
      PROVE  <<s, n>> \in ManagerSet /\ <<s, n>> \in StepSet
  BY ManagerStepsAreSteps DEF ManagerSet
<1>2. ASSUME NEW a \in ManagerSteps, NEW b \in ManagerSteps,
             a \notin {"exit", "spawn", "list", "capture", "replace"},
             b \notin {"confirm", "sweep", "capture", "replace"}
      PROVE  <<<<a, n>>, <<b, n>>>> \in Goings
  BY <1>1, <1>2, FreelyGoes DEF ManagerSteps
<1>3. ASSUME NEW s, NEW t, NEW F, NEW G, NEW L, NEW M,
             C(s, F, L), C(t, G, M), L \subseteq ManagerSteps, G \subseteq ManagerSteps,
             \A a \in L : a \notin {"exit", "spawn", "list", "capture", "replace"},
             \A b \in G : b \notin {"confirm", "sweep", "capture", "replace"}
      PROVE  C(s \o t, F, M)
  <2>1. \A a \in At2(L, n), b \in At2(G, n) : <<a, b>> \in Goings
    BY <1>2, <1>3 DEF At2
  <2> QED BY <1>3, <2>1, ChainsJoin
<1>4. C(StopSteps(n), {"unload"}, {"signal"})
  <2>1. "unload" \in ManagerSteps /\ "unloaded" \in ManagerSteps /\ "signal" \in ManagerSteps
    BY DEF ManagerSteps
  <2>2. <<"unload", n>> \in At2({"unload"}, n) /\ <<"signal", n>> \in At2({"signal"}, n)
    BY DEF At2
  <2>3. <<<<"unload", n>>, <<"unloaded", n>>>> \in Goings
        /\ <<<<"unloaded", n>>, <<"signal", n>>>> \in Goings
    BY <1>2, <2>1
  <2> QED BY <1>1, <2>1, <2>2, <2>3, ChainThree DEF StopSteps
<1>5. ASSUME NEW a \in ManagerSteps, NEW b \in ManagerSteps,
             <<<<a, n>>, <<b, n>>>> \in Goings
      PROVE  C(<<<<a, n>>, <<b, n>>>>, {a}, {b})
  <2>1. <<a, n>> \in At2({a}, n) /\ <<b, n>> \in At2({b}, n)
    BY DEF At2
  <2> QED BY <1>1, <1>5, <2>1, ChainTwo
<1>6. ASSUME NEW a \in ManagerSteps
      PROVE  C(<<<<a, n>>>>, {a}, {a})
  <2>1. <<a, n>> \in At2({a}, n)
    BY DEF At2
  <2> QED BY <1>1, <2>1, ChainOne
<1>7. ASSUME NEW s, NEW F, NEW L, NEW G, NEW M, C(s, F, L), F \subseteq G, L \subseteq M
      PROVE  C(s, G, M)
  <2>1. At2(F, n) \subseteq At2(G, n) /\ At2(L, n) \subseteq At2(M, n)
    BY <1>7 DEF At2
  <2> QED BY <1>7, <2>1 DEF Chain
<1>8. /\ <<<<"install", n>>, <<"await", n>>>> \in Goings
      /\ <<<<"spawn", n>>, <<"confirm", n>>>> \in Goings
      /\ <<<<"list", n>>, <<"sweep", n>>>> \in Goings
      /\ <<<<"capture", n>>, <<"replace", n>>>> \in Goings
      /\ <<<<"replace", n>>, <<"exit", n>>>> \in Goings
  <2>1. \A s \in {"install", "await", "spawn", "confirm", "list", "sweep", "capture", "replace",
                  "exit"} : <<s, n>> \in StepSet
    BY <1>1 DEF ManagerSteps
  <2> QED BY <2>1 DEF Goings, Goes
<1>9. /\ {"install", "await", "spawn", "confirm", "list", "sweep"} \subseteq ManagerSteps
      /\ {"entry", "else", "exit", "capture", "replace"} \subseteq ManagerSteps
      /\ {"unload", "signal"} \subseteq ManagerSteps
  BY DEF ManagerSteps
<1> HIDE DEF C
<1>10. C(StartSteps(n), {"unload", "spawn"}, {"await", "confirm"})
  <2>1. CASE n = "bridge" /\ auto
    <3>1. C(<<<<"install", n>>, <<"await", n>>>>, {"install"}, {"await"})
      BY <1>5, <1>8, <1>9
    <3>2. C(StopSteps(n) \o <<<<"install", n>>, <<"await", n>>>>, {"unload"}, {"await"})
      BY <1>3, <1>4, <1>9, <3>1
    <3> QED BY <1>7, <2>1, <3>2 DEF StartSteps
  <2>2. CASE ~(n = "bridge" /\ auto)
    <3>1. C(<<<<"spawn", n>>, <<"confirm", n>>>>, {"spawn"}, {"confirm"})
      BY <1>5, <1>8, <1>9
    <3> QED BY <1>7, <2>2, <3>1 DEF StartSteps
  <2> QED BY <2>1, <2>2
<1>11. CASE cmd # "update"
  <2>1. C(Script(cmd, n), F0, L0)
    <3>1. CASE cmd = "start"
      BY <1>7, <1>10, <3>1 DEF Script
    <3>2. CASE cmd = "stop"
      BY <1>4, <1>7, <3>2 DEF Script
    <3>3. CASE cmd = "show"
      <4>1. C(<<<<"list", n>>, <<"sweep", n>>>>, {"list"}, {"sweep"})
        BY <1>5, <1>8, <1>9
      <4> QED BY <1>7, <3>3, <4>1 DEF Script
    <3>4. CASE cmd = "restart"
      <4>1. C(<<<<"entry", n>>>>, {"entry"}, {"entry"}) /\ C(<<<<"else", n>>>>, {"else"}, {"else"})
        BY <1>6, <1>9
      <4>2. C(<<<<"entry", n>>>> \o StopSteps(n), {"entry"}, {"signal"})
        BY <1>3, <1>4, <1>9, <4>1
      <4>3. C(<<<<"entry", n>>>> \o StopSteps(n) \o StartSteps(n), {"entry"}, {"await", "confirm"})
        BY <1>3, <1>9, <1>10, <4>2
      <4>4. C(<<<<"else", n>>>> \o StartSteps(n), {"else"}, {"await", "confirm"})
        BY <1>3, <1>9, <1>10, <4>1
      <4>5. CASE n = "bridge"
        <5>1. C(<<<<"entry", n>>>> \o StopSteps(n) \o StartSteps(n)
                  \o (<<<<"else", n>>>> \o StartSteps(n)), {"entry"}, {"await", "confirm"})
          BY <1>3, <1>9, <4>3, <4>4
        <5> QED BY <1>7, <3>4, <4>5, <5>1 DEF Script
      <4>6. CASE n # "bridge"
        <5>1. Script(cmd, n) = <<<<"entry", n>>>> \o StopSteps(n) \o StartSteps(n) \o <<>>
          BY <3>4, <4>6 DEF Script
        <5>2. <<<<"entry", n>>>> \o StopSteps(n) \o StartSteps(n) \in Seq(ManagerSet)
          BY <4>3 DEF C, Chain
        <5>3. Script(cmd, n) = <<<<"entry", n>>>> \o StopSteps(n) \o StartSteps(n)
          BY <5>1, <5>2, ConcatEmptySeq
        <5> QED BY <1>7, <4>3, <5>3
      <4> QED BY <4>5, <4>6
    <3> QED BY <1>11, <3>1, <3>2, <3>3, <3>4
  <2>3. C(<<<<"exit", n>>>>, {"exit"}, {"exit"})
    BY <1>6, <1>9
  <2>4. C(Script(cmd, n) \o <<<<"exit", n>>>>, F0, {"exit"})
    BY <1>3, <1>9, <2>1, <2>3
  <2> QED BY <2>4 DEF C, At2
<1>12. CASE cmd = "update"
  <2>1. C(<<<<"capture", n>>, <<"replace", n>>>>, {"capture"}, {"replace"})
    BY <1>5, <1>8, <1>9
  <2>2. C(<<<<"exit", n>>>>, {"exit"}, {"exit"})
    BY <1>6, <1>9
  <2>3. \A a \in At2({"replace"}, n), b \in At2({"exit"}, n) : <<a, b>> \in Goings
    BY <1>8 DEF At2
  <2>4. C(<<<<"capture", n>>, <<"replace", n>>>> \o <<<<"exit", n>>>>, {"capture"}, {"exit"})
    BY <2>1, <2>2, <2>3, ChainsJoin DEF C
  <2>5. C(Script(cmd, n) \o <<<<"exit", n>>>>, {"unload", "spawn", "entry", "list", "capture"}, {"exit"})
    BY <1>7, <1>12, <2>4 DEF Script
  <2> QED BY <2>5 DEF C, At2
<1> QED BY <1>11, <1>12

LEMMA JobConcat ==
  ASSUME NEW S, NEW s \in Seq(S), NEW t \in Seq(S)
  PROVE  s \o t \in Seq(S)
BY ConcatProperties

LEMMA ShortSeqs ==
  ASSUME NEW S, NEW a \in S, NEW b \in S, NEW c \in S
  PROVE  <<>> \in Seq(S) /\ <<a>> \in Seq(S) /\ <<a, b>> \in Seq(S) /\ <<a, b, c>> \in Seq(S)
OBVIOUS

LEMMA StepsInJobs ==
  ASSUME NEW n \in Names, NEW a \in Steps, NEW b \in Steps, NEW c \in Steps
  PROVE  /\ <<>> \in Job /\ <<<<a, n>>>> \in Job /\ <<<<a, n>>, <<b, n>>>> \in Job
         /\ <<<<a, n>>, <<b, n>>, <<c, n>>>> \in Job
<1> DEFINE S == Steps \X Names
<1>1. <<a, n>> \in S /\ <<b, n>> \in S /\ <<c, n>> \in S
  OBVIOUS
<1> HIDE DEF S
<1>2. /\ <<>> \in Seq(S) /\ <<<<a, n>>>> \in Seq(S) /\ <<<<a, n>>, <<b, n>>>> \in Seq(S)
      /\ <<<<a, n>>, <<b, n>>, <<c, n>>>> \in Seq(S)
  BY <1>1, ShortSeqs
<1> QED BY <1>2 DEF Job, S

LEMMA StepNames ==
  /\ {"unload", "unloaded", "signal", "entry", "install", "await", "spawn", "confirm"} \subseteq Steps
  /\ {"list", "sweep", "capture", "replace", "terminate", "exited", "relaunch"} \subseteq Steps
  /\ {"await unit", "health", "rollback", "rolled", "else", "exit"} \subseteq Steps
BY DEF Steps

LEMMA ScriptIsJob ==
  ASSUME NEW cmd \in {"start", "stop", "restart", "show", "update"}, NEW n \in Names
  PROVE  Script(cmd, n) \o <<<<"exit", n>>>> \in Job
<1>1. Script(cmd, n) \o <<<<"exit", n>>>> \in Seq(ManagerSet)
  BY ScriptIsChain DEF Chain
<1> QED BY <1>1, ManagerStepsAreSteps, SeqMonotonic DEF Job, StepSet

LEMMA RestartIsJob == RestartServices \in Job
<1>1. ASSUME NEW n \in Names PROVE RestartSteps(n) \in Job
  <2>1. "terminate" \in Steps /\ "exited" \in Steps /\ "relaunch" \in Steps
    BY StepNames
  <2>2. <<<<"terminate", n>>, <<"exited", n>>, <<"relaunch", n>>>> \in Job /\ <<>> \in Job
    BY <2>1, StepsInJobs
  <2> QED BY <2>2 DEF RestartSteps
<1> QED BY <1>1, JobConcat DEF RestartServices, Job, Names

-----------------------------------------------------------------------------
\* Which processes a step touches.

ZeroIsNoSlot == 0 \notin Slots

LEMMA NoSlotIsZero == ZeroIsNoSlot
BY ManagerAssumption DEF ZeroIsNoSlot

\* A process comes in the steps of the supervisor and of a spawn only.
LEMMA Evolution ==
  ASSUME TypeOK, [Next]_vars
  PROVE  \/ Wane
         \/ Wax("bridge", TRUE) /\ Respawn
         \/ \E n \in Names : Wax(n, FALSE) /\ Spawn(n) /\ pid' = FreeSlot
<1> USE DEF TypeOK
<1>1. ASSUME NEW p \in Slots, NEW s \in {"starting", "up"}, procs[p].state \in Active,
             procs' = [procs EXCEPT ![p].state = s]
      PROVE  Wane
  <2>1. procs' = [procs EXCEPT ![p] = [procs[p] EXCEPT !.state = s]]
    BY <1>1
  <2>2. Follows(procs[p], [procs[p] EXCEPT !.state = s])
    BY <1>1, StateFollows
  <2> QED BY <2>1, <2>2, WaneOne
<1>2. ASSUME NEW p \in Slots, Alive(procs[p]), procs' = [procs EXCEPT ![p] = Exited(@)]
      PROVE  Wane
  <2>1. procs' = [procs EXCEPT ![p] = Exited(procs[p])]
    BY <1>2
  <2>2. Follows(procs[p], Exited(procs[p]))
    BY <1>2, ExitedFollows
  <2> QED BY <2>1, <2>2, WaneOne
<1>3. ASSUME NEW P, procs' = Terminated(P)
      PROVE  Wane
  BY <1>3, WaneTerminated, NoSlotIsZero DEF ZeroIsNoSlot
<1>4. ASSUME procs' = Orphaned
      PROVE  Wane
  BY <1>4, WaneOrphaned
<1>5. ASSUME procs' = procs
      PROVE  Wane
  BY <1>5, WaneNone
<1>6. CASE \E p \in Slots : Preflight(p) \/ Boot(p) \/ Drained(p) \/ Crash(p)
  <2>1. PICK p \in Slots : Preflight(p) \/ Boot(p) \/ Drained(p) \/ Crash(p)
    BY <1>6
  <2>2. Alive(procs[p])
    BY <2>1 DEF Alive, Preflight, Boot, Drained, Crash
  <2>3. CASE Preflight(p)
    <3>1. procs[p].state \in Active
      BY <2>3 DEF Active, Preflight
    <3> QED BY <1>1, <1>2, <2>2, <2>3, <3>1 DEF Preflight
  <2>4. CASE Boot(p)
    <3>1. \/ procs' = [procs EXCEPT ![p] = Exited(@)]
          \/ procs' = [procs EXCEPT ![p] = [@ EXCEPT !.state = "up"]]
      BY <2>4 DEF Boot
    <3>2. CASE procs' = [procs EXCEPT ![p] = [@ EXCEPT !.state = "up"]]
      <4>1. procs' = [procs EXCEPT ![p].state = "up"]
        BY <3>2
      <4>2. procs[p].state \in Active
        BY <2>4 DEF Active, Boot
      <4> QED BY <1>1, <4>1, <4>2
    <3> QED BY <1>2, <2>2, <3>1, <3>2
  <2>5. CASE Drained(p)
    BY <1>2, <2>2, <2>5 DEF Drained
  <2>6. CASE Crash(p)
    BY <1>2, <2>2, <2>6 DEF Crash
  <2> QED BY <2>1, <2>3, <2>4, <2>5, <2>6
<1>7. CASE Respawn
  BY <1>7 DEF Respawn, Wax
<1>8. CASE \E n \in Names : Spawn(n)
  <2>1. PICK n \in Names : Spawn(n)
    BY <1>8
  <2>2. CASE Registered(n)
    BY <1>5, <2>1, <2>2 DEF Spawn
  <2>3. CASE ~Registered(n)
    BY <2>1, <2>3 DEF Spawn, Wax
  <2> QED BY <2>2, <2>3
<1>9. CASE \E n \in Names : Unload(n) \/ Signal(n) \/ Terminate(n) \/ Exit(n)
  BY <1>3, <1>4, <1>5, <1>9 DEF Unload, Signal, Terminate, Exit
<1>10. CASE \E n \in Names : Unloaded(n) \/ Entry(n) \/ Install(n) \/ Await(n) \/ Confirm(n)
                            \/ List(n) \/ Sweep(n) \/ Capture(n) \/ Replace(n) \/ WaitExit(n)
                            \/ Relaunch(n) \/ AwaitUnit(n) \/ Health(n) \/ Rollback(n)
                            \/ RolledBack(n)
  <2>1. procs' = procs
    BY <1>10 DEF Unloaded, Entry, Install, Await, Confirm, List, Sweep, Capture, Replace,
       WaitExit, Relaunch, AwaitUnit, Health, Rollback, RolledBack
  <2> QED BY <1>5, <2>1
<1>11. CASE (\E c \in Commands : Give(c[1], c[2])) \/ Setup \/ JobDies \/ UNCHANGED vars
  BY <1>4, <1>5, <1>11 DEF Give, Setup, JobDies, vars
<1> QED
  BY <1>6, <1>7, <1>8, <1>9, <1>10, <1>11 DEF Next, ProcessStep, CommandStep

-----------------------------------------------------------------------------
\* Types.

LEMMA ProcessesTyped ==
  ASSUME TypeOK, [Next]_vars
  PROVE  /\ procs' \in [Slots -> Processes]
         /\ (\A p, q \in BootProcs : p = q)'
         /\ (\A p \in BootProcs : ~procs[p].child /\ procs[p].name = "bridge")'
<1> USE DEF TypeOK
<1>1. CASE Wane
  <2>1. ASSUME NEW p \in Slots, procs'[p].boot, procs'[p].state # "none"
        PROVE  p \in BootProcs /\ ~procs'[p].child /\ procs'[p].name = "bridge"
    <3>1. Follows(procs[p], procs'[p])
      BY <1>1 DEF Wane
    <3>2. p \in BootProcs
      BY <2>1, <3>1 DEF Follows, Alive, BootProcs
    <3>3. procs[p] \in Processes /\ procs'[p] \in Processes
      BY <1>1 DEF Wane
    <3> QED BY <2>1, <3>1, <3>2, <3>3 DEF Follows, Alive, Processes
  <2>2. \A p \in BootProcs' : p \in Slots /\ procs'[p].boot /\ procs'[p].state # "none"
    BY DEF BootProcs
  <2> QED BY <1>1, <2>1, <2>2 DEF Wane
<1>2. ASSUME NEW n \in Names, NEW b \in BOOLEAN, Wax(n, b),
             b => n = "bridge" /\ BootProcs = {}
      PROVE  /\ procs' \in [Slots -> Processes]
             /\ (\A p, q \in BootProcs : p = q)'
             /\ (\A p \in BootProcs : ~procs[p].child /\ procs[p].name = "bridge")'
  <2>1. FreeSlot \in Slots
    BY <1>2, FreeSlotIsFree DEF Wax
  <2>2. procs' = [procs EXCEPT ![FreeSlot] = Spawned(n, b)]
    BY <1>2 DEF Wax
  <2>3. procs'[FreeSlot] = Spawned(n, b) /\ \A p \in Slots \ {FreeSlot} : procs'[p] = procs[p]
    BY <2>1, <2>2
  <2>4. procs' \in [Slots -> Processes]
    BY <2>1, <2>2, SpawnedIsProcess
  <2>5. \A p \in BootProcs' : p \in Slots /\ procs'[p].boot /\ procs'[p].state # "none"
    BY DEF BootProcs
  <2>6. ASSUME NEW p \in BootProcs'
        PROVE  p \in BootProcs \/ (p = FreeSlot /\ b)
    BY <2>3, <2>5, SpawnedIsProcess DEF BootProcs
  <2>7. ASSUME NEW p \in BootProcs'
        PROVE  ~procs'[p].child /\ procs'[p].name = "bridge"
    <3>1. CASE p = FreeSlot
      <4>1. Spawned(n, b).boot
        BY <2>3, <2>5, <3>1
      <4>2. b
        BY <4>1, SpawnedIsProcess
      <4>3. ~Spawned(n, b).child /\ Spawned(n, b).name = "bridge"
        BY <1>2, <4>2 DEF Spawned
      <4> QED BY <2>3, <3>1, <4>3
    <3>2. CASE p # FreeSlot
      BY <2>3, <2>5, <2>6, <3>2
    <3> QED BY <3>1, <3>2
  <2>8. ASSUME NEW p \in BootProcs', NEW q \in BootProcs' PROVE p = q
    <3>1. CASE b
      BY <1>2, <2>6, <3>1
    <3>2. CASE ~b
      BY <2>6, <3>2
    <3> QED BY <3>1, <3>2
  <2> QED BY <2>4, <2>7, <2>8
<1>3. CASE Wax("bridge", TRUE) /\ Respawn
  BY <1>2, <1>3 DEF Respawn, Names
<1>4. CASE \E n \in Names : Wax(n, FALSE)
  BY <1>2, <1>4
<1> QED BY <1>1, <1>3, <1>4, Evolution

\* The steps that begin or end a command, or put other steps in place of one.
Leaps ==
  \/ \E c \in Commands : Give(c[1], c[2])
  \/ \E n \in Names : Replace(n) \/ Relaunch(n) \/ Rollback(n)
  \/ \E n \in Names : Exit(n)
  \/ JobDies

\* All others leave the command alone, let it go on, or let it fail.
LEMMA JobMoves ==
  ASSUME TypeOK, [Next]_vars
  PROVE  \/ UNCHANGED job
         \/ job # <<>> /\ Succeeds
         \/ job # <<>> /\ Fails
         \/ Leaps
<1>1. CASE ProcessStep \/ Setup \/ (\E p \in Slots : Crash(p)) \/ UNCHANGED vars
  BY <1>1 DEF ProcessStep, Preflight, Boot, Drained, Respawn, Setup, Crash, vars, command
<1>2. CASE \E n \in Names :
            \/ Unload(n) \/ Unloaded(n) \/ Signal(n) \/ Entry(n) \/ Install(n) \/ Await(n)
            \/ Spawn(n) \/ Confirm(n) \/ List(n) \/ Sweep(n) \/ Capture(n) \/ Terminate(n)
            \/ WaitExit(n) \/ AwaitUnit(n) \/ Health(n) \/ RolledBack(n)
  BY <1>2 DEF At, Unload, Unloaded, Signal, Entry, Install, Await, Spawn, Confirm, List, Sweep,
     Capture, Terminate, WaitExit, AwaitUnit, Health, RolledBack
<1> QED BY <1>1, <1>2 DEF Leaps, Next, CommandStep

LEMMA JobTyped ==
  ASSUME TypeOK, [Next]_vars
  PROVE  job' \in Job
<1>1. job \in Job
  BY DEF TypeOK, Job
<1>2. CASE UNCHANGED job
  BY <1>1, <1>2
<1>3. CASE job # <<>> /\ Succeeds
  BY <1>1, <1>3, SucceedsIsTail
<1>4. CASE job # <<>> /\ Fails
  BY <1>1, <1>4, FailsIsRest
<1>5. CASE Leaps
  <2>1. CASE \E c \in Commands : Give(c[1], c[2])
    <3>1. PICK c \in Commands : Give(c[1], c[2])
      BY <2>1
    <3>2. c[1] \in {"start", "stop", "restart", "show", "update"} /\ c[2] \in Names
      BY ManagerAssumption
    <3> QED BY <3>1, <3>2, ScriptIsJob DEF Give
  <2>2. CASE \E n \in Names : Replace(n) \/ Relaunch(n) \/ Rollback(n)
    <3>1. PICK n \in Names : Replace(n) \/ Relaunch(n) \/ Rollback(n)
      BY <2>2
    <3>2. job # <<>>
      BY <3>1 DEF Replace, Relaunch, Rollback, At
    <3>3. "health" \in Steps /\ "else" \in Steps /\ "rollback" \in Steps /\ "rolled" \in Steps
          /\ "await unit" \in Steps /\ "spawn" \in Steps /\ "confirm" \in Steps
      BY StepNames
    <3>4. CASE Replace(n)
      <4>1. <<<<"health", n>>, <<"else", n>>, <<"rollback", n>>>> \in Job
        BY <3>3, StepsInJobs
      <4>2. RestartServices \o <<<<"health", n>>, <<"else", n>>, <<"rollback", n>>>> \in Job
        BY <4>1, RestartIsJob, JobConcat DEF Job
      <4>3. \/ Fails
            \/ Does(RestartServices \o <<<<"health", n>>, <<"else", n>>, <<"rollback", n>>>>)
        BY <3>4 DEF Replace
      <4>4. CASE Fails
        BY <1>1, <3>2, <4>4, FailsIsRest
      <4>5. CASE Does(RestartServices \o <<<<"health", n>>, <<"else", n>>, <<"rollback", n>>>>)
        BY <1>1, <3>2, <4>2, <4>5, DoesMore
      <4> QED BY <4>3, <4>4, <4>5
    <3>5. CASE Relaunch(n)
      <4>1. <<<<"await unit", n>>>> \in Job /\ <<<<"spawn", n>>, <<"confirm", n>>>> \in Job
        BY <3>3, StepsInJobs
      <4> QED BY <1>1, <3>2, <3>5, <4>1, DoesMore DEF Relaunch
    <3>6. CASE Rollback(n)
      <4>1. <<<<"rolled", n>>, <<"else", n>>, <<"rolled", n>>>> \in Job
        BY <3>3, StepsInJobs
      <4>2. RestartServices \o <<<<"rolled", n>>, <<"else", n>>, <<"rolled", n>>>> \in Job
        BY <4>1, RestartIsJob, JobConcat DEF Job
      <4> QED BY <1>1, <3>2, <3>6, <4>2, DoesMore DEF Rollback
    <3> QED BY <3>1, <3>4, <3>5, <3>6
  <2>3. CASE (\E n \in Names : Exit(n)) \/ JobDies
    BY <2>3, EmptySeq DEF Exit, JobDies, Job
  <2> QED BY <1>5, <2>1, <2>2, <2>3 DEF Leaps
<1> QED BY <1>2, <1>3, <1>4, <1>5, JobMoves

LEMMA EntriesTyped ==
  ASSUME TypeOK, [Next]_vars
  PROVE  registry' \in Entries /\ pid' \in Slots \cup {0} /\ listing' \in Entries
<1> USE DEF TypeOK
<1>1. ASSUME NEW n \in Names, NEW p \in Slots \cup {0}
      PROVE  [registry EXCEPT ![n] = p] \in Entries
  BY DEF Entries
<1>2. NoEntries \in Entries /\ 0 \in Slots \cup {0}
  BY DEF NoEntries, Entries
<1>3. FreeSlots # {} => FreeSlot \in Slots
  BY FreeSlotIsFree
<1>4. CASE \E p \in Slots : Preflight(p)
  <2>1. PICK p \in Slots : Preflight(p)
    BY <1>4
  <2>2. procs[p].name \in Names
    BY DEF Processes
  <2> QED BY <1>1, <2>1, <2>2 DEF Preflight, command
<1>5. CASE \E n \in Names : Signal(n) \/ Terminate(n)
  <2>1. PICK n \in Names : Signal(n) \/ Terminate(n)
    BY <1>5
  <2>2. registry' = [registry EXCEPT ![n] = 0] /\ UNCHANGED <<pid, listing>>
    BY <2>1 DEF Signal, Terminate
  <2> QED BY <1>1, <1>2, <2>2
<1>6. CASE \E n \in Names : Spawn(n)
  <2>1. PICK n \in Names : Spawn(n)
    BY <1>6
  <2>2. /\ \/ UNCHANGED <<registry, pid>>
           \/ registry' = [registry EXCEPT ![n] = 0] /\ pid' = FreeSlot
        /\ FreeSlots # {} /\ UNCHANGED listing
    BY <2>1 DEF Spawn
  <2> QED BY <1>1, <1>2, <1>3, <2>2
<1>7. CASE \E n \in Names : Confirm(n)
  <2>1. PICK n \in Names : Confirm(n)
    BY <1>7
  <2>2. /\ registry' = [registry EXCEPT ![n] = pid] \/ registry' = [registry EXCEPT ![n] = 0]
        /\ pid' = 0 /\ UNCHANGED listing
    BY <2>1 DEF Confirm
  <2>3. [registry EXCEPT ![n] = pid] \in Entries /\ [registry EXCEPT ![n] = 0] \in Entries
    BY <1>1, <1>2
  <2> QED BY <1>2, <2>2, <2>3
<1>8. CASE \E n \in Names : List(n) \/ Sweep(n)
  BY <1>2, <1>8 DEF List, Sweep, Entries
<1>9. CASE JobDies
  BY <1>2, <1>9 DEF JobDies
<1>10. CASE (\E p \in Slots : Boot(p) \/ Drained(p) \/ Crash(p)) \/ Respawn \/ Setup
            \/ (\E c \in Commands : Give(c[1], c[2])) \/ UNCHANGED vars
  BY <1>10 DEF Boot, Drained, Crash, Respawn, Setup, Give, vars, command
<1>11. CASE \E n \in Names : Unload(n) \/ Unloaded(n) \/ Entry(n) \/ Install(n) \/ Await(n)
              \/ Exit(n) \/ Capture(n) \/ Replace(n) \/ WaitExit(n) \/ Relaunch(n)
              \/ AwaitUnit(n) \/ Health(n) \/ Rollback(n) \/ RolledBack(n)
  BY <1>11 DEF Unload, Unloaded, Entry, Install, Await, Exit, Capture, Replace, WaitExit,
     Relaunch, AwaitUnit, Health, Rollback, RolledBack
<1> QED
  BY <1>4, <1>5, <1>6, <1>7, <1>8, <1>9, <1>10, <1>11 DEF Next, ProcessStep, CommandStep

LEMMA SettingsTyped ==
  ASSUME TypeOK, [Next]_vars
  PROVE  /\ unit' \in BOOLEAN /\ auto' \in BOOLEAN /\ enabled' \in BOOLEAN
         /\ binary' \in {"old", "new"} /\ release' \in Releases \cup {"good"}
         /\ crashes' \in Nat /\ setups' \in Nat /\ Upsets' <= MaxUpsets
<1>a. /\ unit \in BOOLEAN /\ auto \in BOOLEAN /\ enabled \in BOOLEAN
      /\ binary \in {"old", "new"} /\ release \in Releases \cup {"good"}
  BY DEF TypeOK
<1>b. crashes \in Nat /\ setups \in Nat /\ MaxUpsets \in Nat /\ Upsets <= MaxUpsets
  BY ManagerAssumption DEF TypeOK
<1>c. ASSUME crashes' = crashes, setups' = setups
      PROVE  crashes' \in Nat /\ setups' \in Nat /\ Upsets' <= MaxUpsets
  BY <1>b, <1>c DEF Upsets
<1>1. CASE Setup
  <2>1. auto' = ~auto /\ setups' = setups + 1 /\ Upsets < MaxUpsets
        /\ UNCHANGED <<unit, enabled, binary, release, crashes>>
    BY <1>1 DEF Setup
  <2>2. crashes' \in Nat /\ setups' \in Nat /\ Upsets' <= MaxUpsets
    BY <1>b, <2>1 DEF Upsets
  <2>3. auto' \in BOOLEAN
    BY <2>1
  <2> QED BY <1>a, <2>1, <2>2, <2>3
<1>2. CASE JobDies \/ \E p \in Slots : Crash(p)
  <2>1. crashes' = crashes + 1 /\ Upsets < MaxUpsets
        /\ UNCHANGED <<unit, enabled, auto, binary, release, setups>>
    BY <1>2 DEF JobDies, Crash, settings
  <2>2. crashes' \in Nat /\ setups' \in Nat /\ Upsets' <= MaxUpsets
    BY <1>b, <2>1 DEF Upsets
  <2> QED BY <1>a, <2>1, <2>2
<1>3. CASE (\E p \in Slots : Preflight(p) \/ Boot(p) \/ Drained(p)) \/ Respawn
           \/ (\E c \in Commands : Give(c[1], c[2])) \/ UNCHANGED vars
  BY <1>a, <1>c, <1>3 DEF Preflight, Boot, Drained, Respawn, Give, vars, settings
<1>4. CASE \E n \in Names : Unload(n) \/ Unloaded(n) \/ Signal(n) \/ Entry(n) \/ Install(n)
              \/ Await(n) \/ Spawn(n) \/ Confirm(n) \/ List(n) \/ Sweep(n) \/ Exit(n)
  BY <1>a, <1>c, <1>4 DEF Unload, Unloaded, Signal, Entry, Install, Await, Spawn, Confirm, List, Sweep, Exit,
     settings
<1>5. CASE \E n \in Names : Capture(n) \/ Replace(n) \/ Terminate(n) \/ WaitExit(n)
              \/ Relaunch(n) \/ AwaitUnit(n) \/ Health(n) \/ Rollback(n) \/ RolledBack(n)
  BY <1>a, <1>c, <1>5 DEF Capture, Replace, Terminate, WaitExit, Relaunch, AwaitUnit, Health,
     Rollback, RolledBack, settings
<1> QED BY <1>1, <1>2, <1>3, <1>4, <1>5 DEF Next, ProcessStep, CommandStep

LEMMA UpdateTyped ==
  ASSUME TypeOK, [Next]_vars
  PROVE  update' \in [phase : Phases, captured : Entries, quiet : BOOLEAN]
<1> USE DEF TypeOK
<1>1. NoEntries \in Entries
  BY DEF NoEntries, Entries
<1>2. CASE JobDies \/ \E n \in Names : Exit(n)
  BY <1>1, <1>2 DEF JobDies, Exit
<1>3. CASE \E n \in Names : Capture(n)
  <2>1. [m \in Names |-> IF Registered(m) THEN registry[m] ELSE 0] \in Entries
    BY DEF Entries
  <2>2. Quiet \in BOOLEAN
    BY DEF Quiet
  <2>3. update' = [phase |-> "captured", quiet |-> Quiet,
                   captured |-> [m \in Names |-> IF Registered(m) THEN registry[m] ELSE 0]]
    BY <1>3 DEF Capture
  <2> HIDE DEF TypeOK
  <2> QED BY <2>1, <2>2, <2>3 DEF Phases
<1>4. CASE \E n \in Names : Replace(n) \/ Health(n) \/ Rollback(n) \/ RolledBack(n)
  BY <1>4 DEF Replace, Health, Rollback, RolledBack, Phases
<1>5. CASE (\E p \in Slots : Preflight(p) \/ Boot(p) \/ Drained(p) \/ Crash(p)) \/ Respawn
           \/ Setup \/ (\E c \in Commands : Give(c[1], c[2])) \/ UNCHANGED vars
  BY <1>5 DEF Preflight, Boot, Drained, Crash, Respawn, Setup, Give, vars
<1>6. CASE \E n \in Names : Unload(n) \/ Unloaded(n) \/ Signal(n) \/ Entry(n) \/ Install(n)
              \/ Await(n) \/ Spawn(n) \/ Confirm(n) \/ List(n) \/ Sweep(n) \/ Terminate(n)
              \/ WaitExit(n) \/ Relaunch(n) \/ AwaitUnit(n)
  BY <1>6 DEF Unload, Unloaded, Signal, Entry, Install, Await, Spawn, Confirm, List, Sweep,
     Terminate, WaitExit, Relaunch, AwaitUnit
<1> QED BY <1>2, <1>3, <1>4, <1>5, <1>6 DEF Next, ProcessStep, CommandStep

\* Every state is well typed, and the supervisor never runs two bridges.
THEOREM ManagerTypeCorrect == Spec => []TypeOK
<1>1. Init => TypeOK
  <2> SUFFICES ASSUME Init PROVE TypeOK
    OBVIOUS
  <2>1. procs \in [Slots -> Processes] /\ BootProcs = {}
    BY GoneIsProcess DEF Init, BootProcs, Gone
  <2>2. NoEntries \in Entries
    BY DEF NoEntries, Entries
  <2>3. job \in Seq(Steps \X Names)
    BY EmptySeq DEF Init
  <2>4. update \in [phase : Phases, captured : Entries, quiet : BOOLEAN]
    BY <2>2 DEF Init, NoUpdate, Phases
  <2>5. crashes \in Nat /\ setups \in Nat /\ Upsets <= MaxUpsets
    BY ManagerAssumption DEF Init, Upsets
  <2> QED BY <2>1, <2>2, <2>3, <2>4, <2>5 DEF Init, TypeOK
<1>2. TypeOK /\ [Next]_vars => TypeOK'
  <2> SUFFICES ASSUME TypeOK, [Next]_vars PROVE TypeOK'
    OBVIOUS
  <2>1. job' \in Seq(Steps \X Names)
    BY JobTyped DEF Job
  <2>2. registry' \in Entries /\ pid' \in Slots \cup {0} /\ listing' \in Entries
    BY EntriesTyped
  <2>3. /\ unit' \in BOOLEAN /\ auto' \in BOOLEAN /\ enabled' \in BOOLEAN
        /\ binary' \in {"old", "new"} /\ release' \in Releases \cup {"good"}
        /\ crashes' \in Nat /\ setups' \in Nat /\ Upsets' <= MaxUpsets
    BY SettingsTyped
  <2>4. update' \in [phase : Phases, captured : Entries, quiet : BOOLEAN]
    BY UpdateTyped
  <2> QED BY <2>1, <2>2, <2>3, <2>4, ProcessesTyped DEF TypeOK
<1> QED BY <1>1, <1>2, PTL DEF Spec

-----------------------------------------------------------------------------
\* Every command is a chain of steps that ends in its exit.

Exits == {"exit"} \X Names
Heads(S) == S \X Names

Chained == job = <<>> \/ Chain(Goings, StepSet, job, StepSet, Exits)

LEMMA StepInSet == \A s \in Steps, n \in Names : <<s, n>> \in StepSet
BY DEF StepSet

\* The service that is restarted first.
Firsts == {m \in Captured : "bridge" \in Captured => m = "bridge"}

\* The services to restart, before something else.
LEMMA ServicesChain ==
  ASSUME NEW R, NEW T, NEW t, NEW a, NEW L, Chain(R, T, t, {a}, L),
         \A m \in Names : /\ <<"terminate", m>> \in T /\ <<"exited", m>> \in T
                          /\ <<"relaunch", m>> \in T,
         \A m \in Names : /\ <<<<"terminate", m>>, <<"exited", m>>>> \in R
                          /\ <<<<"exited", m>>, <<"relaunch", m>>>> \in R,
         "scan" \in Captured => /\ <<<<"relaunch", "bridge">>, <<"terminate", "scan">>>> \in R
                                /\ <<<<"relaunch", "scan">>, a>> \in R,
         "scan" \notin Captured => <<<<"relaunch", "bridge">>, a>> \in R
  PROVE  Chain(R, T, RestartServices \o t,
               IF Captured = {} THEN {a} ELSE {"terminate"} \X Firsts, L)
<1> DEFINE b == RestartSteps("bridge")
           s == RestartSteps("scan")
           F == IF Captured = {} THEN {a} ELSE {"terminate"} \X Firsts
<1>1. "bridge" \in Names /\ "scan" \in Names /\ \A m \in Captured : m \in Names
  BY DEF Names, Captured
<1>2. ASSUME NEW m \in Captured
      PROVE  Chain(R, T, RestartSteps(m), {<<"terminate", m>>}, {<<"relaunch", m>>})
  <2>1. <<"terminate", m>> \in T /\ <<"exited", m>> \in T
        /\ <<"relaunch", m>> \in T
    BY <1>1
  <2>2. RestartSteps(m) = <<<<"terminate", m>>, <<"exited", m>>, <<"relaunch", m>>>>
    BY DEF RestartSteps
  <2>3. /\ <<"terminate", m>> \in {<<"terminate", m>>}
        /\ <<"relaunch", m>> \in {<<"relaunch", m>>}
        /\ <<<<"terminate", m>>, <<"exited", m>>>> \in R
        /\ <<<<"exited", m>>, <<"relaunch", m>>>> \in R
    BY <1>1
  <2> DEFINE x == <<"terminate", m>>
             y == <<"exited", m>>
             z == <<"relaunch", m>>
  <2> HIDE DEF x, y, z
  <2>4. Chain(R, T, <<x, y, z>>, {x}, {z})
    BY <2>1, <2>3, ChainThree DEF x, y, z
  <2> QED BY <2>2, <2>4 DEF x, y, z
<1>3. \A m \in Names \ Captured : RestartSteps(m) = <<>>
  BY DEF RestartSteps
<1>4. <<>> \in Seq(T) /\ t \in Seq(T) /\ \A m \in Captured : RestartSteps(m) \in Seq(T)
  BY <1>2, EmptySeq DEF Chain
<1>5. RestartServices = b \o s
  BY DEF RestartServices
<1>6. ASSUME NEW m \in Captured, "bridge" \in Captured => m = "bridge",
             NEW u, Chain(R, T, u, {<<"terminate", m>>}, L)
      PROVE  Chain(R, T, u, F, L)
  <2>1. Captured # {} /\ <<"terminate", m>> \in {"terminate"} \X Firsts
    BY <1>6 DEF Firsts
  <2>2. <<"terminate", m>> \in F
    BY <2>1
  <2>3. u[1] = <<"terminate", m>>
    BY <1>6 DEF Chain
  <2> HIDE DEF F
  <2> QED BY <1>6, <2>2, <2>3 DEF Chain
<1> HIDE DEF b, s, F
<1>7. CASE "bridge" \in Captured /\ "scan" \in Captured
  <2>1. Chain(R, T, b, {<<"terminate", "bridge">>}, {<<"relaunch", "bridge">>})
        /\ Chain(R, T, s, {<<"terminate", "scan">>}, {<<"relaunch", "scan">>})
    BY <1>2, <1>7 DEF b, s
  <2>2. Chain(R, T, b \o s, {<<"terminate", "bridge">>}, {<<"relaunch", "scan">>})
    BY <1>7, <2>1, ChainsJoin
  <2>3. Chain(R, T, (b \o s) \o t, {<<"terminate", "bridge">>}, L)
    BY <1>7, <2>2, ChainsJoin
  <2> QED BY <1>5, <1>6, <1>7, <2>3 DEF F
<1>8. CASE "bridge" \in Captured /\ "scan" \notin Captured
  <2>1. Chain(R, T, b, {<<"terminate", "bridge">>}, {<<"relaunch", "bridge">>})
    BY <1>2, <1>8 DEF b
  <2>2. b \o s = b
    BY <1>1, <1>3, <1>4, <1>8, ConcatEmptySeq DEF b, s
  <2>3. Chain(R, T, b \o t, {<<"terminate", "bridge">>}, L)
    BY <1>8, <2>1, ChainsJoin
  <2> QED BY <1>5, <1>6, <1>8, <2>2, <2>3 DEF F
<1>9. CASE "bridge" \notin Captured /\ "scan" \in Captured
  <2>1. Chain(R, T, s, {<<"terminate", "scan">>}, {<<"relaunch", "scan">>})
    BY <1>2, <1>9 DEF s
  <2>2. b \o s = s
    BY <1>1, <1>3, <1>4, <1>9, ConcatEmptySeq DEF b, s
  <2>3. Chain(R, T, s \o t, {<<"terminate", "scan">>}, L)
    BY <1>9, <2>1, ChainsJoin
  <2> QED BY <1>5, <1>6, <1>9, <2>2, <2>3 DEF F
<1>10. CASE "bridge" \notin Captured /\ "scan" \notin Captured
  <2>1. b = <<>> /\ s = <<>>
    BY <1>1, <1>3, <1>10 DEF b, s
  <2>2. (b \o s) \o t = t
    BY <1>4, <2>1, ConcatEmptySeq
  <2>3. Captured = {}
    BY <1>10 DEF Captured, Names
  <2> QED BY <1>5, <2>2, <2>3 DEF F
<1> QED BY <1>7, <1>8, <1>9, <1>10

\* A command that goes on, or that fails.
LEMMA GoesOn ==
  ASSUME NEW R, NEW T, NEW F, NEW L, Chain(R, T, job, F, L), job \in Job, Succeeds
  PROVE  \/ Len(job) = 1 /\ job' = <<>>
         \/ Len(job) > 1 /\ Chain(R, T, job', {job[2]}, L)
<1>1. Len(job) \in Nat /\ Len(job) >= 1 /\ job # <<>> /\ job \in Seq(T)
  BY EmptySeq, LenProperties DEF Chain
<1>2. job' = Tail(job)
  BY <1>1, SucceedsIsTail
<1> DEFINE r == Tail(job)
<1>3. /\ r \in Seq(T) /\ Len(r) = Len(job) - 1
      /\ \A i \in 1..(Len(job) - 1) : r[i] = job[i + 1]
  BY <1>1, HeadTailProperties
<1> HIDE DEF r
<1>4. CASE Len(job) = 1
  <2>1. r = <<>>
    BY <1>3, <1>4, EmptySeq
  <2> QED BY <1>2, <1>4, <2>1 DEF r
<1>5. CASE Len(job) > 1
  <2>1. 1 \in Nat /\ 1 < Len(job) /\ 1 + 1 = 2
    BY <1>5
  <2>2. Chain(R, T, r, {job[1 + 1]}, L)
    BY <1>3, <2>1, RestOfChain
  <2>3. Chain(R, T, r, {job[2]}, L)
    BY <2>1, <2>2
  <2> QED BY <1>2, <1>5, <2>3 DEF r
<1>6. Len(job) = 1 \/ Len(job) > 1
  <2> DEFINE l == Len(job)
  <2>1. l \in Nat /\ l >= 1
    BY <1>1
  <2> HIDE DEF l
  <2>2. l = 1 \/ l > 1
    BY <2>1
  <2> QED BY <2>2 DEF l
<1> QED BY <1>4, <1>5, <1>6

LEMMA SeqOfOthers ==
  ASSUME NEW S, NEW T, NEW s \in Seq(S), \A i \in 1..Len(s) : s[i] \in T
  PROVE  s \in Seq(T)
<1>1. Len(s) \in Nat /\ s \in [1..Len(s) -> S]
  BY LenProperties
<1>2. s \in [1..Len(s) -> T]
  BY <1>1
<1> QED BY <1>1, <1>2, SeqDef

LEMMA FallsBack ==
  ASSUME NEW R, NEW T, NEW F, NEW L, Chain(R, T, job, F, L), job \in Job, Fails,
         \A a \in L : a[1] # "else"
  PROVE  \E k \in 0..(Len(job) - 1) :
            /\ \/ k = Len(job) - 1 /\ \A i \in 1..Len(job) : job[i][1] # "else"
               \/ k > 0 /\ job[k][1] = "else"
            /\ Chain(R, T, job', {job[k + 1]}, L)
<1>1. Len(job) \in Nat /\ Len(job) >= 1 /\ job # <<>> /\ job \in Seq(T)
      /\ job[Len(job)] \in L
  BY EmptySeq, LenProperties DEF Chain
<1>2. PICK k \in 0..Len(job) :
         /\ \/ k = Len(job) - 1 /\ \A i \in 1..Len(job) : job[i][1] # "else"
            \/ k > 0 /\ job[k][1] = "else"
         /\ Len(job') = Len(job) - k
         /\ \A i \in 1..(Len(job) - k) : job'[i] = job[i + k]
  BY <1>1, FailsIsRest
<1>3. k # Len(job)
  BY <1>1, <1>2
<1>4. k \in Nat /\ k < Len(job) /\ k \in 0..(Len(job) - 1)
  BY <1>1, <1>3
<1> DEFINE r == job'
<1>5. r \in Seq(Steps \X Names) /\ Len(r) = Len(job) - k
      /\ \A i \in 1..(Len(job) - k) : r[i] = job[i + k]
  BY <1>1, <1>2, FailsIsRest DEF Job
<1> HIDE DEF r
<1>6. ASSUME NEW i \in 1..Len(r) PROVE r[i] \in T
  <2>1. i \in 1..(Len(job) - k) /\ i + k \in 1..Len(job)
    BY <1>1, <1>4, <1>5
  <2> QED BY <1>1, <1>5, <2>1, ElementOfSeq
<1>7. r \in Seq(T)
  BY <1>5, <1>6, SeqOfOthers
<1>8. Chain(R, T, r, {job[k + 1]}, L)
  BY <1>4, <1>5, <1>7, RestOfChain
<1> QED BY <1>2, <1>4, <1>8 DEF r

LEMMA PutsIn ==
  ASSUME NEW R, NEW T, NEW F, NEW G, NEW L, NEW M, NEW more,
         Chain(R, T, job, F, L), job \in Job, Len(job) > 1,
         Chain(R, T, more, G, M), Does(more), \A a \in M : <<a, job[2]>> \in R
  PROVE  Chain(R, T, job', G, L)
<1>1. Len(job) \in Nat /\ job # <<>> /\ job \in Seq(T)
  BY EmptySeq, LenProperties DEF Chain
<1> DEFINE r == Tail(job)
<1>2. /\ r \in Seq(T) /\ Len(r) = Len(job) - 1
      /\ \A i \in 1..(Len(job) - 1) : r[i] = job[i + 1]
  BY <1>1, HeadTailProperties
<1>3. job' = more \o r
  BY DEF Does
<1> HIDE DEF r
<1>4. 1 \in Nat /\ 1 < Len(job) /\ 1 + 1 = 2
  OBVIOUS
<1>5. Chain(R, T, r, {job[1 + 1]}, L)
  BY <1>2, <1>4, RestOfChain
<1>6. Chain(R, T, r, {job[2]}, L)
  BY <1>4, <1>5
<1>7. Chain(R, T, more \o r, G, L)
  BY <1>6, ChainsJoin
<1> QED BY <1>3, <1>7

-----------------------------------------------------------------------------
\* What is left of a command, by the phase of the update.

\* A command that is no update, or an update before its capture.
Beginners == (ManagerSteps \ {"replace"}) \X Names
Ordinary == job = <<>> \/ Chain(Goings, ManagerSet, job, Beginners, Exits)

\* An update that restarts the services: when a restart fails, there is a
\* roll-back to go to.
RestartR(C) == Goings \cap RestartGoings(C)
Restarters == Heads(Restarting \cup {"health", "rollback"})
Restarts ==
  \/ job = <<>>
  \/ /\ Chain(RestartR(Captured), StepSet, job, Restarters, Exits)
     /\ job[1][1] # "rollback" => \E i \in 1..Len(job) : job[i][1] = "else"

\* A roll-back restarts the services once more, and that is all.
RollSteps == Restarting \cup {"rolled", "else", "exit"}
RollSet == RollSteps \X Names
Rolls == job = <<>> \/ Chain(Goings, RollSet, job, RollSet, Exits)

Rolling == {"rollback", "rolled back"}

Shape ==
  /\ Chained
  /\ update.phase = "none" => Ordinary
  /\ update.phase = "captured" => job = <<>> \/ job[1] \in Heads({"replace", "exit"})
  /\ update.phase = "restart" => Restarts
  /\ update.phase = "ok" => job = <<>> \/ job[1] \in Heads({"else"})
  /\ update.phase \in Rolling => Rolls

LEMMA ExitsNoElse ==
  /\ Exits \subseteq StepSet
  /\ \A a \in Exits : a[1] = "exit" /\ a[1] # "else"
<1>1. \A a \in Exits : a[1] = "exit" /\ a[2] \in Names /\ a = <<a[1], a[2]>>
  BY DEF Exits
<1> QED BY <1>1, StepNames, StepInSet

LEMMA LooserChain ==
  ASSUME NEW R, NEW T, NEW S, NEW U, NEW s, NEW F, NEW G, NEW L, NEW M,
         Chain(R, T, s, F, L), R \subseteq S, T \subseteq U, s[1] \in G, L \subseteq M
  PROVE  Chain(S, U, s, G, M)
<1>1. s \in Seq(U)
  BY SeqMonotonic DEF Chain
<1> QED BY <1>1 DEF Chain, Linked

LEMMA ElementsOfChain ==
  ASSUME NEW R, NEW T, NEW s, NEW F, NEW L, Chain(R, T, s, F, L)
  PROVE  /\ Len(s) \in Nat /\ Len(s) >= 1 /\ s # <<>>
         /\ \A i \in 1..Len(s) : s[i] \in T
         /\ s[1] \in T /\ s[1] \in F /\ s[Len(s)] \in L
<1>1. Len(s) \in Nat /\ Len(s) >= 1 /\ s # <<>>
  BY EmptySeq, LenProperties DEF Chain
<1>2. 1 \in 1..Len(s)
  BY <1>1
<1> QED BY <1>1, <1>2, ElementOfSeq DEF Chain

\* A command whose next step is not its exit goes on.
LEMMA NextInChain ==
  ASSUME NEW R, NEW T, NEW F, Chain(R, T, job, F, Exits), job \in Job, job[1][1] # "exit"
  PROVE  Len(job) > 1 /\ <<job[1], job[2]>> \in R /\ job[2] \in T
<1> DEFINE l == Len(job)
<1>1. l \in Nat /\ l >= 1 /\ job[l] \in Exits
  BY ElementsOfChain
<1>2. \A i \in 1..l : job[i] \in T
  BY ElementsOfChain
<1>3. \A i \in 1..(l - 1) : <<job[i], job[i + 1]>> \in R
  BY DEF Chain, Linked
<1> HIDE DEF l
<1>4. l # 1
  BY <1>1, ExitsNoElse
<1>5. l > 1 /\ 1 \in 1..(l - 1) /\ 2 \in 1..l /\ 1 + 1 = 2
  BY <1>1, <1>4
<1> QED BY <1>2, <1>3, <1>5 DEF l

Plain == {"unload", "unloaded", "signal", "entry", "install", "await", "spawn", "confirm",
          "list", "sweep", "terminate", "exited", "await unit"}
Fallible == {"entry", "await", "spawn", "confirm", "await unit", "health"}

LEMMA ChainedGoesOn ==
  ASSUME TypeOK, Chained, job # <<>>, Succeeds
  PROVE  Chained'
<1>1. job \in Job /\ Chain(Goings, StepSet, job, StepSet, Exits)
  BY DEF TypeOK, Job, Chained
<1>2. job' = <<>> \/ (Len(job) > 1 /\ Chain(Goings, StepSet, job', {job[2]}, Exits))
  BY <1>1, GoesOn
<1>3. CASE Len(job) > 1 /\ Chain(Goings, StepSet, job', {job[2]}, Exits)
  <2> DEFINE r == job'
  <2>1. Chain(Goings, StepSet, r, {job[2]}, Exits)
    BY <1>3
  <2> HIDE DEF r
  <2>2. r[1] \in StepSet
    BY <2>1, ElementsOfChain
  <2>3. Chain(Goings, StepSet, r, StepSet, Exits)
    BY <2>1, <2>2 DEF Chain
  <2> QED BY <2>3 DEF Chained, r
<1> QED BY <1>2, <1>3 DEF Chained

LEMMA ChainedFalls ==
  ASSUME TypeOK, Chained, job # <<>>, Fails
  PROVE  Chained'
<1>1. job \in Job /\ Chain(Goings, StepSet, job, StepSet, Exits)
  BY DEF TypeOK, Job, Chained
<1>2. PICK k \in 0..(Len(job) - 1) : Chain(Goings, StepSet, job', {job[k + 1]}, Exits)
  BY <1>1, FallsBack, ExitsNoElse
<1> DEFINE r == job'
<1>3. Chain(Goings, StepSet, r, {job[k + 1]}, Exits)
  BY <1>2
<1> HIDE DEF r
<1>4. r[1] \in StepSet
  BY <1>3, ElementsOfChain
<1>5. Chain(Goings, StepSet, r, StepSet, Exits)
  BY <1>3, <1>4 DEF Chain
<1> QED BY <1>5 DEF Chained, r

LEMMA OrdinaryGoesOn ==
  ASSUME TypeOK, Ordinary, job # <<>>, Succeeds, job[1][1] \in Plain
  PROVE  Ordinary'
<1>1. job \in Job /\ Chain(Goings, ManagerSet, job, Beginners, Exits)
  BY DEF TypeOK, Job, Ordinary
<1>2. job' = <<>> \/ (Len(job) > 1 /\ Chain(Goings, ManagerSet, job', {job[2]}, Exits))
  BY <1>1, GoesOn
<1>3. CASE Len(job) > 1 /\ Chain(Goings, ManagerSet, job', {job[2]}, Exits)
  <2>1. <<job[1], job[2]>> \in Goings /\ job[2] \in ManagerSet
    BY <1>1, NextInChain DEF Plain
  <2>2. job[2] \in Beginners
    <3>1. job[2][1] \in ManagerSteps /\ job[2][2] \in Names /\ job[2] = <<job[2][1], job[2][2]>>
      BY <2>1 DEF ManagerSet
    <3>2. job[2][1] # "replace"
      BY <2>1 DEF Goings, Goes, Plain
    <3> HIDE DEF ManagerSteps
    <3> QED BY <3>1, <3>2 DEF Beginners
  <2> DEFINE r == job'
  <2>3. Chain(Goings, ManagerSet, r, {job[2]}, Exits)
    BY <1>3
  <2> HIDE DEF r
  <2>4. Chain(Goings, ManagerSet, r, Beginners, Exits)
    BY <2>2, <2>3 DEF Chain
  <2> QED BY <2>4 DEF Ordinary, r
<1> QED BY <1>2, <1>3 DEF Ordinary

LEMMA OrdinaryFalls ==
  ASSUME TypeOK, Ordinary, job # <<>>, Fails
  PROVE  Ordinary'
<1>1. job \in Job /\ Chain(Goings, ManagerSet, job, Beginners, Exits)
  BY DEF TypeOK, Job, Ordinary
<1>2. PICK k \in 0..(Len(job) - 1) :
            /\ \/ k = Len(job) - 1 /\ \A i \in 1..Len(job) : job[i][1] # "else"
               \/ k > 0 /\ job[k][1] = "else"
            /\ Chain(Goings, ManagerSet, job', {job[k + 1]}, Exits)
  BY <1>1, FallsBack, ExitsNoElse
<1> DEFINE r == job'
           l == Len(job)
<1>3. Chain(Goings, ManagerSet, r, {job[k + 1]}, Exits)
  BY <1>2
<1>4. l \in Nat /\ l >= 1 /\ job[l] \in Exits /\ k \in 0..(l - 1)
      /\ (k = l - 1 \/ (k > 0 /\ job[k][1] = "else"))
      /\ (\A i \in 1..(l - 1) : <<job[i], job[i + 1]>> \in Goings)
  BY <1>1, <1>2, ElementsOfChain DEF Chain, Linked
<1>5. r[1] = job[k + 1] /\ r[1] \in ManagerSet
  BY <1>3, ElementsOfChain
<1> HIDE DEF r, l
<1>6. job[k + 1][1] # "replace"
  <2>1. CASE k = l - 1
    <3>1. k + 1 = l
      BY <1>4, <2>1
    <3> QED BY <1>4, <3>1, ExitsNoElse
  <2>2. CASE k > 0 /\ k # l - 1
    <3>1. k \in 1..(l - 1) /\ job[k][1] = "else"
      BY <1>4, <2>2
    <3>2. <<job[k], job[k + 1]>> \in Goings
      BY <1>4, <3>1
    <3> QED BY <3>1, <3>2 DEF Goings, Goes
  <2> QED BY <1>4, <2>1, <2>2
<1>7. r[1] \in Beginners
  <2>1. r[1][1] \in ManagerSteps /\ r[1][2] \in Names /\ r[1] = <<r[1][1], r[1][2]>>
    BY <1>5 DEF ManagerSet
  <2> QED BY <1>5, <1>6, <2>1 DEF Beginners
<1>8. Chain(Goings, ManagerSet, r, Beginners, Exits)
  BY <1>3, <1>7 DEF Chain
<1> QED BY <1>8 DEF Ordinary, r

\* An update that restarts the services goes on to its health check, and falls
\* back to the roll-back.
LEMMA RestartsGoesOn ==
  ASSUME TypeOK, Restarts, job # <<>>, Succeeds, job[1][1] \in Plain, Captured' = Captured
  PROVE  Restarts'
<1> DEFINE R == RestartR(Captured)
<1>1. job \in Job /\ Chain(R, StepSet, job, Restarters, Exits)
  BY DEF TypeOK, Job, Restarts
<1>2. Len(job) > 1 /\ <<job[1], job[2]>> \in R /\ job[2] \in StepSet
  BY <1>1, NextInChain DEF Plain
<1>3. job[1][1] \in {"terminate", "exited", "await unit", "spawn", "confirm"}
  <2>1. job[1] \in Restarters
    BY <1>1, ElementsOfChain
  <2> QED BY <2>1 DEF Restarters, Heads, Restarting, Plain
<1>4. RestartGoes(Captured, job[1], job[2])
  BY <1>2 DEF RestartR, RestartGoings
<1>5. job[2] = <<job[2][1], job[2][2]>> /\ job[2][2] \in Names
  BY <1>2 DEF StepSet
<1>6. job[2][1] \in {"exited", "relaunch", "confirm", "terminate", "health"}
  <2>1. CASE job[1][1] = "terminate"
    <3>1. job[2] = <<"exited", job[1][2]>>
      BY <1>4, <2>1 DEF RestartGoes
    <3> QED BY <3>1
  <2>2. CASE job[1][1] = "exited"
    <3>1. job[2] = <<"relaunch", job[1][2]>>
      BY <1>4, <2>2 DEF RestartGoes
    <3> QED BY <3>1
  <2>3. CASE job[1][1] = "spawn"
    <3>1. job[2] = <<"confirm", job[1][2]>>
      BY <1>4, <2>3 DEF RestartGoes
    <3> QED BY <3>1
  <2>4. CASE job[1][1] \in {"await unit", "confirm"}
    <3>1. job[2] = <<"terminate", "scan">> \/ job[2][1] = "health"
      BY <1>4, <2>4 DEF RestartGoes
    <3> QED BY <3>1
  <2> QED BY <1>3, <2>1, <2>2, <2>3, <2>4
<1>7. job[2] \in Restarters
  <2>1. job[2][1] \in Restarting \cup {"health", "rollback"}
    BY <1>6 DEF Restarting
  <2> QED BY <1>5, <2>1 DEF Restarters, Heads
<1>8. \E i \in 1..Len(job) : job[i][1] = "else"
  BY <1>3 DEF Restarts
<1> DEFINE r == job'
<1>9. Chain(R, StepSet, r, {job[2]}, Exits)
  <2>1. \/ Len(job) = 1 /\ r = <<>>
        \/ Len(job) > 1 /\ Chain(R, StepSet, r, {job[2]}, Exits)
    BY <1>1, GoesOn
  <2>2. Len(job) \in Nat /\ Len(job) # 1
    BY <1>1, <1>2, ElementsOfChain
  <2> QED BY <2>1, <2>2
<1>10. \E i \in 1..Len(r) : r[i][1] = "else"
  <2>1. PICK i \in 1..Len(job) : job[i][1] = "else"
    BY <1>8
  <2>2. i # 1 /\ i \in 1..Len(job) /\ Len(job) \in Nat
    BY <1>1, <1>3, <2>1, ElementsOfChain
  <2>3. i - 1 \in 1..(Len(job) - 1) /\ (i - 1) + 1 = i
    BY <2>2
  <2>4. r = Tail(job)
    BY <1>1, SucceedsIsTail
  <2>5. Len(Tail(job)) = Len(job) - 1 /\ \A j \in 1..(Len(job) - 1) : Tail(job)[j] = job[j + 1]
    BY <1>1, HeadTailProperties DEF Job
  <2> HIDE DEF r
  <2>6. i - 1 \in 1..Len(r) /\ r[i - 1] = job[i]
    BY <2>3, <2>4, <2>5
  <2> QED BY <2>1, <2>6
<1> HIDE DEF r
<1>11. Chain(R, StepSet, r, Restarters, Exits)
  BY <1>7, <1>9 DEF Chain
<1>12. Chain(RestartR(Captured'), StepSet, job', Restarters, Exits)
       /\ \E i \in 1..Len(job') : job'[i][1] = "else"
  BY <1>10, <1>11 DEF r
<1> QED BY <1>12 DEF Restarts

LEMMA RestartsFalls ==
  ASSUME TypeOK, Restarts, job # <<>>, Fails, job[1][1] \in Fallible, Captured' = Captured
  PROVE  Restarts' /\ job'[1][1] = "rollback"
<1> DEFINE R == RestartR(Captured)
           r == job'
           l == Len(job)
<1>1. job \in Job /\ Chain(R, StepSet, job, Restarters, Exits)
      /\ \E i \in 1..Len(job) : job[i][1] = "else"
  BY DEF TypeOK, Job, Restarts, Fallible
<1>2. PICK k \in 0..(Len(job) - 1) :
            /\ \/ k = Len(job) - 1 /\ \A i \in 1..Len(job) : job[i][1] # "else"
               \/ k > 0 /\ job[k][1] = "else"
            /\ Chain(R, StepSet, job', {job[k + 1]}, Exits)
  BY <1>1, FallsBack, ExitsNoElse
<1>3. l \in Nat /\ l >= 1 /\ \A i \in 1..(l - 1) : <<job[i], job[i + 1]>> \in R
  BY <1>1, ElementsOfChain DEF Chain, Linked
<1>4. k \in 0..(l - 1) /\ k > 0 /\ job[k][1] = "else"
  BY <1>1, <1>2
<1>5. Chain(R, StepSet, r, {job[k + 1]}, Exits) /\ r[1] = job[k + 1] /\ r[1] \in StepSet
  BY <1>2, ElementsOfChain
<1> HIDE DEF r, l
<1>6. r[1][1] = "rollback"
  <2>1. k \in 1..(l - 1)
    BY <1>3, <1>4
  <2>2. RestartGoes(Captured, job[k], job[k + 1])
    BY <1>3, <2>1 DEF RestartR, RestartGoings
  <2> QED BY <1>4, <1>5, <2>2 DEF RestartGoes
<1>7. r[1] \in Restarters
  <2>1. r[1] = <<r[1][1], r[1][2]>> /\ r[1][2] \in Names
    BY <1>5 DEF StepSet
  <2>2. r[1][1] \in Restarting \cup {"health", "rollback"}
    BY <1>6
  <2> QED BY <2>1, <2>2 DEF Restarters, Heads
<1>8. Chain(R, StepSet, r, Restarters, Exits)
  BY <1>5, <1>7 DEF Chain
<1>9. Chain(RestartR(Captured'), StepSet, job', Restarters, Exits) /\ job'[1][1] = "rollback"
  BY <1>6, <1>8 DEF r
<1> QED BY <1>9 DEF Restarts

LEMMA RestartPairs ==
  ASSUME NEW C, NEW m \in Names, NEW n \in Names
  PROVE  /\ <<<<"terminate", m>>, <<"exited", m>>>> \in RestartR(C)
         /\ <<<<"exited", m>>, <<"relaunch", m>>>> \in RestartR(C)
         /\ <<<<"health", m>>, <<"else", m>>>> \in RestartR(C)
         /\ <<<<"else", m>>, <<"rollback", m>>>> \in RestartR(C)
         /\ <<<<"rollback", m>>, <<"exit", n>>>> \in RestartR(C)
         /\ <<<<"relaunch", "scan">>, <<"health", n>>>> \in RestartR(C)
         /\ "scan" \in C => <<<<"relaunch", "bridge">>, <<"terminate", "scan">>>> \in RestartR(C)
         /\ "scan" \notin C => <<<<"relaunch", "bridge">>, <<"health", n>>>> \in RestartR(C)
<1>1. /\ "bridge" \in Names /\ "scan" \in Names
      /\ "terminate" \in Steps /\ "exited" \in Steps /\ "relaunch" \in Steps
      /\ "health" \in Steps /\ "else" \in Steps /\ "rollback" \in Steps /\ "exit" \in Steps
  BY StepNames DEF Names
<1>2. \A s \in {"terminate", "exited", "relaunch", "health", "else", "rollback", "exit"} :
        \A k \in Names : <<s, k>> \in StepSet
  BY <1>1, StepInSet
<1>3. ASSUME NEW a \in StepSet, NEW b \in StepSet,
             a[1] \in {"terminate", "exited", "relaunch", "health", "else", "rollback"},
             b[1] \in {"terminate", "exited", "relaunch", "health", "else", "rollback", "exit"},
             a[1] = "health" => b[1] = "else", RestartGoes(C, a, b)
      PROVE  <<a, b>> \in RestartR(C)
  <2>1. Goes(a, b)
    BY <1>3 DEF Goes
  <2> QED BY <1>3, <2>1 DEF RestartR, Goings, RestartGoings
<1>4. /\ RestartGoes(C, <<"terminate", m>>, <<"exited", m>>)
      /\ RestartGoes(C, <<"exited", m>>, <<"relaunch", m>>)
      /\ RestartGoes(C, <<"health", m>>, <<"else", m>>)
      /\ RestartGoes(C, <<"else", m>>, <<"rollback", m>>)
      /\ RestartGoes(C, <<"rollback", m>>, <<"exit", n>>)
  BY DEF RestartGoes
<1>5. /\ RestartGoes(C, <<"relaunch", "scan">>, <<"health", n>>)
      /\ "scan" \in C => RestartGoes(C, <<"relaunch", "bridge">>, <<"terminate", "scan">>)
      /\ "scan" \notin C => RestartGoes(C, <<"relaunch", "bridge">>, <<"health", n>>)
  BY DEF RestartGoes
<1> QED BY <1>1, <1>2, <1>3, <1>4, <1>5

\* Nothing follows the exit of a command.
LEMMA LastSteps ==
  ASSUME TypeOK, Chained, job # <<>>, job[1][1] # "exit", job[2][1] = "exit"
  PROVE  Len(job) = 2 /\ job[2] \in Exits /\ Tail(job) = <<job[2]>>
<1> DEFINE l == Len(job)
<1>1. job \in Job /\ Chain(Goings, StepSet, job, StepSet, Exits)
  BY DEF TypeOK, Job, Chained
<1>2. l > 1
  BY <1>1, NextInChain
<1>3. l \in Nat /\ job[l] \in Exits /\ \A i \in 1..(l - 1) : <<job[i], job[i + 1]>> \in Goings
  BY <1>1, ElementsOfChain DEF Chain, Linked
<1>4. /\ Tail(job) \in Job /\ Len(Tail(job)) = l - 1
      /\ \A i \in 1..(l - 1) : Tail(job)[i] = job[i + 1]
  BY <1>1, HeadTailProperties DEF Job
<1> HIDE DEF l
<1>5. l = 2
  <2>1. SUFFICES ASSUME l # 2 PROVE FALSE
    OBVIOUS
  <2>2. 2 \in 1..(l - 1)
    BY <1>2, <1>3, <2>1
  <2>3. <<job[2], job[2 + 1]>> \in Goings
    BY <1>3, <2>2
  <2> QED BY <2>3 DEF Goings, Goes
<1>6. Tail(job) = <<job[2]>>
  <2> DEFINE r == Tail(job)
             e == job[2]
             S == Steps \X Names
  <2>1. l - 1 = 1 /\ 1 \in 1..(l - 1) /\ 1 + 1 = 2
    BY <1>5
  <2>2. r \in Seq(S) /\ Len(r) = 1 /\ r[1] = e
    BY <1>4, <2>1 DEF Job
  <2> HIDE DEF r, e, S
  <2>3. e \in S
    BY <2>2, ElementOfSeq
  <2>4. <<e>> \in Seq(S) /\ Len(<<e>>) = 1 /\ <<e>>[1] = e
    BY <2>3
  <2>5. r = <<e>>
    BY <2>2, <2>4, SeqEqual
  <2> QED BY <2>5 DEF r, e
<1> QED BY <1>3, <1>5, <1>6 DEF l

LEMMA ReplaceIsLast ==
  ASSUME TypeOK, Chained, job # <<>>, job[1][1] = "replace"
  PROVE  job[2][1] = "exit"
<1>1. job \in Job /\ Chain(Goings, StepSet, job, StepSet, Exits)
  BY DEF TypeOK, Job, Chained
<1>2. <<job[1], job[2]>> \in Goings
  BY <1>1, NextInChain
<1> QED BY <1>2 DEF Goings, Goes

LEMMA ConcatAt ==
  ASSUME NEW S, NEW s \in Seq(S), NEW t \in Seq(S)
  PROVE  /\ \A k \in 1..Len(s) : k \in 1..Len(s \o t) /\ (s \o t)[k] = s[k]
         /\ \A k \in 1..Len(t) :
               Len(s) + k \in 1..Len(s \o t) /\ (s \o t)[Len(s) + k] = t[k]
<1> DEFINE u == s \o t
<1>1. Len(s) \in Nat /\ Len(t) \in Nat
  BY LenProperties
<1>2. /\ Len(u) = Len(s) + Len(t)
      /\ \A i \in 1..(Len(s) + Len(t)) : u[i] = IF i <= Len(s) THEN s[i] ELSE t[i - Len(s)]
  BY ConcatProperties
<1> HIDE DEF u
<1>3. ASSUME NEW k \in 1..Len(s) PROVE k \in 1..Len(u) /\ u[k] = s[k]
  <2>1. k \in 1..(Len(s) + Len(t)) /\ k <= Len(s)
    BY <1>1
  <2> QED BY <1>2, <2>1
<1>4. ASSUME NEW k \in 1..Len(t) PROVE Len(s) + k \in 1..Len(u) /\ u[Len(s) + k] = t[k]
  <2> DEFINE i == Len(s) + k
  <2>1. i \in 1..(Len(s) + Len(t)) /\ ~(i <= Len(s)) /\ i - Len(s) = k
    BY <1>1
  <2> HIDE DEF i
  <2>2. i \in 1..Len(u) /\ u[i] = t[k]
    BY <1>2, <2>1
  <2> QED BY <2>2 DEF i
<1> QED BY <1>3, <1>4 DEF u

\* The replacement puts the restarts, the health check and the roll-back first.
Replacing(n) == RestartServices \o <<<<"health", n>>, <<"else", n>>, <<"rollback", n>>>>
FirstRestart(n) == IF Captured = {} THEN {<<"health", n>>} ELSE {"terminate"} \X Firsts

LEMMA ReplaceRestarts ==
  ASSUME TypeOK, Chained, NEW n \in Names, At("replace", n), Does(Replacing(n))
  PROVE  /\ Chain(RestartR(Captured), StepSet, job', FirstRestart(n), Exits)
         /\ \E i \in 1..Len(job') : job'[i][1] = "else"
<1> DEFINE R == RestartR(Captured)
           t == <<<<"health", n>>, <<"else", n>>, <<"rollback", n>>>>
<1>1. job \in Job /\ job # <<>> /\ job[1][1] = "replace"
  BY AtHead DEF TypeOK, Job
<1>2. Len(job) = 2 /\ job[2] \in Exits /\ Tail(job) = <<job[2]>>
  BY <1>1, ReplaceIsLast, LastSteps
<1>3. <<"health", n>> \in StepSet /\ <<"else", n>> \in StepSet /\ <<"rollback", n>> \in StepSet
  BY StepNames, StepInSet
<1>4. Chain(R, StepSet, t, {<<"health", n>>}, {<<"rollback", n>>})
  <2> DEFINE x == <<"health", n>>
             y == <<"else", n>>
             z == <<"rollback", n>>
  <2>1. <<x, y>> \in R /\ <<y, z>> \in R
    BY RestartPairs
  <2>2. x \in StepSet /\ y \in StepSet /\ z \in StepSet /\ t = <<x, y, z>>
    BY <1>3
  <2> HIDE DEF x, y, z, t
  <2>3. Chain(R, StepSet, t, {x}, {z})
    BY <2>1, <2>2, ChainThree
  <2> QED BY <2>3 DEF x, z
<1>5. \A m \in Names : /\ <<<<"terminate", m>>, <<"exited", m>>>> \in R
                       /\ <<<<"exited", m>>, <<"relaunch", m>>>> \in R
  BY RestartPairs
<1>6. /\ "scan" \in Captured => /\ <<<<"relaunch", "bridge">>, <<"terminate", "scan">>>> \in R
                                /\ <<<<"relaunch", "scan">>, <<"health", n>>>> \in R
      /\ "scan" \notin Captured => <<<<"relaunch", "bridge">>, <<"health", n>>>> \in R
  BY RestartPairs
<1>s. \A m \in Names : /\ <<"terminate", m>> \in StepSet /\ <<"exited", m>> \in StepSet
                       /\ <<"relaunch", m>> \in StepSet
  BY StepNames, StepInSet
<1> HIDE DEF t, R
<1>7. Chain(R, StepSet, RestartServices \o t, FirstRestart(n), {<<"rollback", n>>})
  BY <1>s, <1>4, <1>5, <1>6, ServicesChain DEF FirstRestart
<1>9. Chain(R, StepSet, Tail(job), {job[2]}, Exits)
  <2>1. job[2] \in StepSet
    BY <1>2, ExitsNoElse
  <2> DEFINE e == job[2]
  <2>2. e \in StepSet /\ e \in Exits /\ e \in {e}
    BY <1>2, <2>1
  <2> HIDE DEF e
  <2>3. Chain(R, StepSet, <<e>>, {e}, Exits)
    BY <2>2, ChainOne
  <2> QED BY <1>2, <2>3 DEF e
<1>10. <<<<"rollback", n>>, job[2]>> \in R
  <2>1. PICK m \in Names : job[2] = <<"exit", m>>
    BY <1>2 DEF Exits
  <2>2. <<<<"rollback", n>>, <<"exit", m>>>> \in R
    BY RestartPairs DEF R
  <2> QED BY <2>1, <2>2
<1> DEFINE more == RestartServices \o t
<1>11. job' = more \o Tail(job)
  BY DEF Does, Replacing, t
<1>12. Chain(R, StepSet, more \o Tail(job), FirstRestart(n), Exits)
  BY <1>7, <1>9, <1>10, ChainsJoin
<1>13. \E i \in 1..Len(more \o Tail(job)) : (more \o Tail(job))[i][1] = "else"
  <2> DEFINE S == Steps \X Names
             s == RestartServices
             u == Tail(job)
  <2>1. s \in Seq(S) /\ t \in Seq(S) /\ u \in Seq(S)
    BY <1>1, <1>4, RestartIsJob, HeadTailProperties DEF Job, Chain, StepSet
  <2>2. Len(t) = 3 /\ t[2][1] = "else"
    BY DEF t
  <2> HIDE DEF s, u, more, S
  <2>3. more = s \o t
    BY DEF more, s
  <2>4. more \in Seq(S)
    BY <2>1, <2>3, ConcatProperties
  <2>5. 2 \in 1..Len(t)
    BY <2>2
  <2> DEFINE k == Len(s) + 2
  <2>6. k \in 1..Len(more) /\ more[k] = t[2]
    BY <2>1, <2>3, <2>5, ConcatAt
  <2> HIDE DEF k
  <2>7. k \in 1..Len(more \o u) /\ (more \o u)[k] = t[2]
    BY <2>1, <2>4, <2>6, ConcatAt
  <2>8. (more \o u)[k][1] = "else"
    BY <2>2, <2>7
  <2> QED BY <2>7, <2>8 DEF u
<1> HIDE DEF more
<1>14. Chain(R, StepSet, job', FirstRestart(n), Exits)
  BY <1>11, <1>12
<1>15. \E i \in 1..Len(job') : job'[i][1] = "else"
  BY <1>11, <1>13
<1> QED BY <1>14, <1>15 DEF R

LEMMA RelaunchPairs ==
  ASSUME NEW C, NEW R \in {Goings, RestartR(C)}, NEW n \in Names, NEW b \in StepSet,
         <<<<"relaunch", n>>, b>> \in R
  PROVE  /\ <<<<"await unit", n>>, b>> \in R
         /\ <<<<"confirm", n>>, b>> \in R
         /\ <<<<"spawn", n>>, <<"confirm", n>>>> \in R
<1>1. <<"await unit", n>> \in StepSet /\ <<"confirm", n>> \in StepSet /\ <<"spawn", n>> \in StepSet
  BY StepNames, StepInSet
<1>2. Goes(<<"relaunch", n>>, b)
  BY DEF RestartR, Goings
<1>3. Goes(<<"await unit", n>>, b) /\ Goes(<<"confirm", n>>, b)
      /\ Goes(<<"spawn", n>>, <<"confirm", n>>)
  BY <1>2 DEF Goes
<1>4. CASE R = Goings
  BY <1>1, <1>3, <1>4 DEF Goings
<1>5. CASE R = RestartR(C)
  <2>1. RestartGoes(C, <<"relaunch", n>>, b)
    BY <1>5 DEF RestartR, RestartGoings
  <2>2. /\ RestartGoes(C, <<"await unit", n>>, b) /\ RestartGoes(C, <<"confirm", n>>, b)
        /\ RestartGoes(C, <<"spawn", n>>, <<"confirm", n>>)
    BY <2>1 DEF RestartGoes
  <2> QED BY <1>1, <1>3, <1>5, <2>2 DEF RestartR, RestartGoings, Goings
<1> QED BY <1>4, <1>5

LEMMA FirstRelaunches ==
  ASSUME NEW n
  PROVE  \A a \in {<<"await unit", n>>, <<"spawn", n>>} :
            a[1] \in {"await unit", "spawn"} /\ a[1] # "confirm" /\ a[2] = n
<1> DEFINE x == <<"await unit", n>>
           y == <<"spawn", n>>
<1>1. /\ x[1] = "await unit" /\ x[2] = n /\ y[1] = "spawn" /\ y[2] = n
  OBVIOUS
<1> HIDE DEF x, y
<1>2. \A a \in {x, y} : a[1] \in {"await unit", "spawn"} /\ a[1] # "confirm" /\ a[2] = n
  BY <1>1
<1> QED BY <1>2 DEF x, y

HoldsRelaunch(T, n) ==
  <<"await unit", n>> \in T /\ <<"spawn", n>> \in T /\ <<"confirm", n>> \in T

LEMMA RelaunchChain ==
  ASSUME TypeOK, NEW C, NEW R \in {Goings, RestartR(C)}, NEW n \in Names, NEW F,
         NEW T, T \subseteq StepSet, HoldsRelaunch(T, n),
         Chain(R, T, job, F, Exits), Relaunch(n)
  PROVE  Chain(R, T, job', {<<"await unit", n>>, <<"spawn", n>>}, Exits)
<1>1. job \in Job /\ job # <<>> /\ job[1] = <<"relaunch", n>>
  BY AtHead DEF TypeOK, Job, Relaunch
<1>2. Len(job) > 1 /\ <<<<"relaunch", n>>, job[2]>> \in R /\ job[2] \in T
  <2>1. job[1][1] # "exit"
    BY <1>1
  <2>2. Len(job) > 1 /\ <<job[1], job[2]>> \in R /\ job[2] \in T
    BY <1>1, <2>1, NextInChain
  <2> QED BY <1>1, <2>2
<1>3. /\ <<<<"await unit", n>>, job[2]>> \in R
      /\ <<<<"confirm", n>>, job[2]>> \in R
      /\ <<<<"spawn", n>>, <<"confirm", n>>>> \in R
  BY <1>2, RelaunchPairs
<1> DEFINE x == <<"await unit", n>>
           y == <<"spawn", n>>
           z == <<"confirm", n>>
           b == job[2]
<1>4. x \in T /\ y \in T /\ z \in T
  BY DEF HoldsRelaunch
<1>5. <<x, b>> \in R /\ <<z, b>> \in R /\ <<y, z>> \in R
  BY <1>3
<1>6. Does(<<x>>) \/ Does(<<y, z>>)
  BY DEF Relaunch
<1> HIDE DEF x, y, z, b
<1>7. Chain(R, T, <<x>>, {x, y}, {x}) /\ Chain(R, T, <<y, z>>, {x, y}, {z})
  <2>1. x \in {x, y} /\ y \in {x, y} /\ x \in {x} /\ z \in {z}
    OBVIOUS
  <2>2. Chain(R, T, <<x>>, {x, y}, {x})
    BY <1>4, <2>1, ChainOne
  <2>3. Chain(R, T, <<y, z>>, {x, y}, {z})
    BY <1>4, <1>5, <2>1, ChainTwo
  <2> QED BY <2>2, <2>3
<1>8. CASE Does(<<x>>)
  <2>1. \A a \in {x} : <<a, job[2]>> \in R
    BY <1>5 DEF b
  <2>2. Chain(R, T, job', {x, y}, Exits)
    BY <1>1, <1>2, <1>7, <1>8, <2>1, PutsIn
  <2> QED BY <2>2 DEF x, y
<1>9. CASE Does(<<y, z>>)
  <2>1. \A a \in {z} : <<a, job[2]>> \in R
    BY <1>5 DEF b
  <2>2. Chain(R, T, job', {x, y}, Exits)
    BY <1>1, <1>2, <1>7, <1>9, <2>1, PutsIn
  <2> QED BY <2>2 DEF x, y
<1> QED BY <1>6, <1>8, <1>9

LEMMA InRollSet ==
  /\ RollSet \subseteq StepSet
  /\ \A m \in Names :
       /\ <<"terminate", m>> \in RollSet /\ <<"exited", m>> \in RollSet
       /\ <<"relaunch", m>> \in RollSet /\ <<"await unit", m>> \in RollSet
       /\ <<"spawn", m>> \in RollSet /\ <<"confirm", m>> \in RollSet
       /\ <<"rolled", m>> \in RollSet /\ <<"else", m>> \in RollSet /\ <<"exit", m>> \in RollSet
<1>1. \A s \in RollSteps : s \in Steps
  BY DEF RollSteps, Restarting, Steps
<1>2. \A m \in Names, s \in RollSteps : <<s, m>> \in RollSet
  BY DEF RollSet
<1>3. /\ "terminate" \in RollSteps /\ "exited" \in RollSteps /\ "relaunch" \in RollSteps
      /\ "await unit" \in RollSteps /\ "spawn" \in RollSteps /\ "confirm" \in RollSteps
      /\ "rolled" \in RollSteps /\ "else" \in RollSteps /\ "exit" \in RollSteps
  BY DEF RollSteps, Restarting
<1>4. RollSet \subseteq StepSet
  BY <1>1 DEF RollSet, StepSet
<1> QED BY <1>2, <1>3, <1>4

LEMMA RollsGoesOn ==
  ASSUME TypeOK, Rolls, job # <<>>, Succeeds
  PROVE  Rolls'
<1>1. job \in Job /\ Chain(Goings, RollSet, job, RollSet, Exits)
  BY DEF TypeOK, Job, Rolls
<1> DEFINE r == job'
<1>2. r = <<>> \/ Chain(Goings, RollSet, r, {job[2]}, Exits)
  BY <1>1, GoesOn
<1> HIDE DEF r
<1>3. r = <<>> \/ Chain(Goings, RollSet, r, RollSet, Exits)
  <2>1. CASE Chain(Goings, RollSet, r, {job[2]}, Exits)
    <3>1. r[1] \in RollSet
      BY <2>1, ElementsOfChain
    <3> QED BY <2>1, <3>1 DEF Chain
  <2> QED BY <1>2, <2>1
<1> QED BY <1>3 DEF Rolls, r

LEMMA RollsFalls ==
  ASSUME TypeOK, Rolls, job # <<>>, Fails
  PROVE  Rolls'
<1>1. job \in Job /\ Chain(Goings, RollSet, job, RollSet, Exits)
  BY DEF TypeOK, Job, Rolls
<1>2. PICK k \in 0..(Len(job) - 1) : Chain(Goings, RollSet, job', {job[k + 1]}, Exits)
  BY <1>1, FallsBack, ExitsNoElse
<1> DEFINE r == job'
<1>3. Chain(Goings, RollSet, r, {job[k + 1]}, Exits)
  BY <1>2
<1> HIDE DEF r
<1>4. r[1] \in RollSet
  BY <1>3, ElementsOfChain
<1>5. Chain(Goings, RollSet, r, RollSet, Exits)
  BY <1>3, <1>4 DEF Chain
<1> QED BY <1>5 DEF Rolls, r

FirstRollback(n) == IF Captured = {} THEN {<<"rolled", n>>} ELSE {"terminate"} \X Firsts

LEMMA RollbackRolls ==
  ASSUME TypeOK, Chained, Restarts, NEW n \in Names, Rollback(n)
  PROVE  Chained' /\ Rolls' /\ job'[1] \in FirstRollback(n)
<1> DEFINE x == <<"rolled", n>>
           y == <<"else", n>>
           t == <<x, y, x>>
<1>1. job \in Job /\ job # <<>> /\ job[1] = <<"rollback", n>>
  BY AtHead DEF TypeOK, Job, Rollback
<1>2. <<<<"rollback", n>>, job[2]>> \in RestartR(Captured)
  <2>1. Chain(RestartR(Captured), StepSet, job, Restarters, Exits)
    BY <1>1 DEF Restarts
  <2>2. <<job[1], job[2]>> \in RestartR(Captured)
    BY <1>1, <2>1, NextInChain
  <2> QED BY <1>1, <2>2
<1>3. job[2][1] = "exit"
  BY <1>2 DEF RestartR, RestartGoings, RestartGoes
<1>4. job[2] \in Exits /\ Tail(job) = <<job[2]>>
  BY <1>1, <1>3, LastSteps
<1> DEFINE e == job[2]
<1>5. x \in RollSet /\ y \in RollSet /\ e \in RollSet /\ e \in Exits
      /\ x \in StepSet /\ y \in StepSet /\ e \in StepSet
  <2>1. PICK m \in Names : job[2] = <<"exit", m>>
    BY <1>4 DEF Exits
  <2>2. e \in RollSet
    BY <2>1, InRollSet
  <2>3. x \in RollSet /\ y \in RollSet
    BY InRollSet
  <2> HIDE DEF x, y
  <2> QED BY <1>4, <2>2, <2>3, InRollSet
<1>6. Goes(x, y) /\ Goes(y, x) /\ Goes(x, e)
  BY <1>3 DEF Goes
<1>7. <<x, y>> \in Goings /\ <<y, x>> \in Goings /\ <<x, e>> \in Goings
  BY <1>5, <1>6 DEF Goings
<1>8. \A m \in Names : /\ <<<<"terminate", m>>, <<"exited", m>>>> \in Goings
                       /\ <<<<"exited", m>>, <<"relaunch", m>>>> \in Goings
  BY RestartPairs DEF RestartR
<1>9. /\ \A m \in Names : <<<<"relaunch", m>>, x>> \in Goings
      /\ <<<<"relaunch", "bridge">>, <<"terminate", "scan">>>> \in Goings
  <2>1. /\ \A m \in Names : <<"relaunch", m>> \in StepSet /\ <<"terminate", m>> \in StepSet
        /\ "bridge" \in Names /\ "scan" \in Names
    BY StepNames, StepInSet DEF Names
  <2>2. \A m \in Names : Goes(<<"relaunch", m>>, x)
    BY DEF Goes
  <2>3. Goes(<<"relaunch", "bridge">>, <<"terminate", "scan">>)
    BY DEF Goes
  <2> QED BY <1>5, <2>1, <2>2, <2>3 DEF Goings
<1>10. job' = (RestartServices \o t) \o <<e>>
  BY <1>4 DEF Rollback, Does
<1> HIDE DEF x, y, e
<1>11. Chain(Goings, RollSet, t, {x}, {x})
  <2>1. x \in {x}
    OBVIOUS
  <2> QED BY <1>5, <1>7, <2>1, ChainThree
<1>12. Chain(Goings, RollSet, <<e>>, {e}, Exits)
  <2>1. e \in {e}
    OBVIOUS
  <2> QED BY <1>5, <2>1, ChainOne
<1> HIDE DEF t
<1> DEFINE F == IF Captured = {} THEN {x} ELSE {"terminate"} \X Firsts
<1>f. F = FirstRollback(n)
  BY DEF FirstRollback, x
<1>13. Chain(Goings, RollSet, RestartServices \o t, F, {x})
  <2>1. /\ <<<<"relaunch", "bridge">>, x>> \in Goings
        /\ <<<<"relaunch", "scan">>, x>> \in Goings
    BY <1>9 DEF Names
  <2> QED BY <1>8, <1>9, <1>11, <2>1, ServicesChain, InRollSet
<1> HIDE DEF F
<1> DEFINE r == job'
<1>14. Chain(Goings, RollSet, r, F, Exits)
  BY <1>7, <1>10, <1>12, <1>13, ChainsJoin
<1>15. r[1] \in RollSet /\ r[1] \in StepSet /\ r[1] \in F
  BY <1>14, ElementsOfChain, InRollSet
<1> HIDE DEF r
<1>16. Chain(Goings, RollSet, r, RollSet, Exits)
  BY <1>14, <1>15 DEF Chain
<1>17. Chain(Goings, StepSet, r, StepSet, Exits)
  BY <1>14, <1>15, InRollSet, LooserChain
<1> QED BY <1>f, <1>15, <1>16, <1>17 DEF Chained, Rolls, r

\* What the phase says of the next step.
LEMMA HeadByPhase ==
  ASSUME TypeOK, Shape, job # <<>>
  PROVE  /\ update.phase = "none" => job[1][1] \in ManagerSteps \ {"replace"}
         /\ update.phase = "captured" => job[1][1] \in {"replace", "exit"}
         /\ update.phase = "restart" => job[1][1] \in Restarting \cup {"health", "rollback"}
         /\ update.phase = "ok" => job[1][1] = "else"
         /\ update.phase \in Rolling => job[1][1] \in RollSteps
         /\ update.phase \in Phases
<1>1. ASSUME update.phase = "none" PROVE job[1][1] \in ManagerSteps \ {"replace"}
  <2>1. job[1] \in Beginners
    BY <1>1, ElementsOfChain DEF Shape, Ordinary
  <2> QED BY <2>1 DEF Beginners
<1>2. ASSUME update.phase = "restart" PROVE job[1][1] \in Restarting \cup {"health", "rollback"}
  <2>1. job[1] \in Restarters
    BY <1>2, ElementsOfChain DEF Shape, Restarts
  <2> QED BY <2>1 DEF Restarters, Heads
<1>3. ASSUME update.phase = "captured" PROVE job[1][1] \in {"replace", "exit"}
  BY <1>3 DEF Shape, Heads
<1>4. ASSUME update.phase = "ok" PROVE job[1][1] = "else"
  BY <1>4 DEF Shape, Heads
<1>5. ASSUME update.phase \in Rolling PROVE job[1][1] \in RollSteps
  <2>1. job[1] \in RollSet
    BY <1>5, ElementsOfChain DEF Shape, Rolls
  <2> QED BY <2>1 DEF RollSet
<1>6. update.phase \in Phases
  BY DEF TypeOK
<1> QED BY <1>1, <1>2, <1>3, <1>4, <1>5, <1>6

\* And the next step of the phase.
LEMMA PhaseByHead ==
  ASSUME TypeOK, Shape, job # <<>>
  PROVE  /\ job[1][1] = "replace" => update.phase = "captured"
         /\ job[1][1] \in {"rollback", "health"} => update.phase = "restart"
         /\ job[1][1] = "rolled" => update.phase \in Rolling
         /\ job[1][1] \in {"terminate", "exited", "relaunch", "await unit"} =>
              update.phase = "restart" \/ update.phase \in Rolling
         /\ job[1][1] \in {"unload", "unloaded", "signal", "entry", "install", "await", "list",
                          "sweep", "capture"} => update.phase = "none"
         /\ job[1][1] \in {"spawn", "confirm"} =>
              update.phase \in {"none", "restart"} \/ update.phase \in Rolling
<1> DEFINE h == job[1][1]
<1>1. update.phase \in {"none", "captured", "restart", "ok"} \/ update.phase \in Rolling
  BY HeadByPhase DEF Phases, Rolling
<1>2. /\ update.phase = "none" => h \in ManagerSteps /\ h # "replace"
      /\ update.phase = "captured" => h \in {"replace", "exit"}
      /\ update.phase = "restart" => h \in Restarting \cup {"health", "rollback"}
      /\ update.phase = "ok" => h = "else"
      /\ update.phase \in Rolling => h \in RollSteps
  BY HeadByPhase
<1> HIDE DEF h
<1>3. h = "replace" => update.phase = "captured"
  BY <1>1, <1>2 DEF RollSteps, Restarting
<1>4. h \in {"rollback", "health"} => update.phase = "restart"
  BY <1>1, <1>2 DEF RollSteps, Restarting, ManagerSteps
<1>5. h = "rolled" => update.phase \in Rolling
  BY <1>1, <1>2 DEF Restarting, ManagerSteps
<1>6. h \in {"terminate", "exited", "relaunch", "await unit"} =>
        update.phase = "restart" \/ update.phase \in Rolling
  BY <1>1, <1>2 DEF ManagerSteps
<1>7. h \in {"unload", "unloaded", "signal", "entry", "install", "await", "list", "sweep",
            "capture"} => update.phase = "none"
  BY <1>1, <1>2 DEF RollSteps, Restarting
<1>8. h \in {"spawn", "confirm"} =>
        update.phase \in {"none", "restart"} \/ update.phase \in Rolling
  BY <1>1, <1>2
<1> QED BY <1>3, <1>4, <1>5, <1>6, <1>7, <1>8 DEF h

LEMMA ShapeGoesOn ==
  ASSUME TypeOK, Shape, job # <<>>, Succeeds, job[1][1] \in Plain, UNCHANGED update
  PROVE  Shape'
<1>1. Chained'
  BY ChainedGoesOn DEF Shape
<1>2. ASSUME update.phase = "none" PROVE Ordinary'
  BY <1>2, OrdinaryGoesOn DEF Shape
<1>3. ASSUME update.phase = "restart" PROVE Restarts'
  <2>1. Captured' = Captured
    BY DEF Captured
  <2> QED BY <1>3, <2>1, RestartsGoesOn DEF Shape
<1>4. update.phase \notin {"captured", "ok"}
  BY HeadByPhase DEF Plain
<1>5. ASSUME update.phase \in Rolling PROVE Rolls'
  BY <1>5, RollsGoesOn DEF Shape
<1> QED BY <1>1, <1>2, <1>3, <1>4, <1>5 DEF Shape

LEMMA ShapeFalls ==
  ASSUME TypeOK, Shape, job # <<>>, Fails, job[1][1] \in Fallible, UNCHANGED update
  PROVE  Shape'
<1>1. Chained'
  BY ChainedFalls DEF Shape
<1>2. ASSUME update.phase = "none" PROVE Ordinary'
  BY <1>2, OrdinaryFalls DEF Shape
<1>3. ASSUME update.phase = "restart" PROVE Restarts'
  <2>1. Captured' = Captured
    BY DEF Captured
  <2> QED BY <1>3, <2>1, RestartsFalls DEF Shape
<1>4. update.phase \notin {"captured", "ok"}
  BY HeadByPhase DEF Fallible
<1>5. ASSUME update.phase \in Rolling PROVE Rolls'
  BY <1>5, RollsFalls DEF Shape
<1> QED BY <1>1, <1>2, <1>3, <1>4, <1>5 DEF Shape

\* A download that fails ends the update.
LEMMA ReplaceFails ==
  ASSUME TypeOK, Chained, job # <<>>, job[1][1] = "replace", Fails
  PROVE  job'[1] \in Exits
<1>1. job \in Job /\ Chain(Goings, StepSet, job, StepSet, Exits)
  BY DEF TypeOK, Job, Chained
<1>2. Len(job) = 2 /\ job[2] \in Exits
  BY ReplaceIsLast, LastSteps
<1>3. PICK k \in 0..(Len(job) - 1) :
            /\ \/ k = Len(job) - 1 /\ \A i \in 1..Len(job) : job[i][1] # "else"
               \/ k > 0 /\ job[k][1] = "else"
            /\ Chain(Goings, StepSet, job', {job[k + 1]}, Exits)
  BY <1>1, FallsBack, ExitsNoElse
<1>4. k \in 0..1 /\ (k = 1 \/ (k > 0 /\ job[k][1] = "else"))
  BY <1>2, <1>3
<1>5. k = 1 /\ k + 1 = 2
  BY <1>4
<1> DEFINE r == job'
<1>6. Chain(Goings, StepSet, r, {job[2]}, Exits)
  BY <1>3, <1>5
<1> HIDE DEF r
<1>7. r[1] = job[2]
  BY <1>6, ElementsOfChain
<1> QED BY <1>2, <1>7 DEF r

LEMMA ShapeReplaces ==
  ASSUME TypeOK, Shape, NEW n \in Names, Replace(n)
  PROVE  Shape'
<1>1. job \in Job /\ job # <<>> /\ job[1] = <<"replace", n>> /\ At("replace", n)
  BY AtHead DEF TypeOK, Job, Replace
<1>2. update.phase = "captured"
  BY <1>1, PhaseByHead
<1>3. CASE Fails /\ UNCHANGED update
  <2>1. Chained'
    BY <1>1, <1>3, ChainedFalls DEF Shape
  <2>2. job'[1] \in Heads({"replace", "exit"})
    BY <1>1, <1>3, ReplaceFails DEF Shape, Exits, Heads
  <2> QED BY <1>2, <1>3, <2>1, <2>2 DEF Shape, Rolling
<1>4. CASE Does(Replacing(n)) /\ update' = [update EXCEPT !.phase = "restart"]
  <2>1. /\ Chain(RestartR(Captured), StepSet, job', FirstRestart(n), Exits)
        /\ \E i \in 1..Len(job') : job'[i][1] = "else"
    BY <1>1, <1>4, ReplaceRestarts DEF Shape
  <2>2. Captured' = Captured /\ update'.phase = "restart"
    BY <1>4 DEF TypeOK, Captured
  <2> DEFINE r == job'
  <2>3. r[1] \in FirstRestart(n) /\ r[1] \in StepSet
    BY <2>1, ElementsOfChain
  <2>4. FirstRestart(n) \subseteq Restarters
    <3>1. <<"health", n>> \in Restarters
      BY DEF Restarters, Heads
    <3>2. \A m \in Captured : <<"terminate", m>> \in Restarters
      BY DEF Restarters, Heads, Restarting, Captured
    <3> QED BY <3>1, <3>2 DEF FirstRestart, Firsts
  <2>5. Chain(RestartR(Captured), StepSet, r, FirstRestart(n), Exits)
    BY <2>1
  <2> HIDE DEF r
  <2>6. Chain(RestartR(Captured), StepSet, r, Restarters, Exits)
    BY <2>3, <2>4, <2>5 DEF Chain
  <2>7. Chain(Goings, StepSet, r, StepSet, Exits)
    <3>1. RestartR(Captured) \subseteq Goings
      BY DEF RestartR
    <3> QED BY <2>3, <2>5, <3>1, LooserChain
  <2>8. Restarts'
    <3>1. Chain(RestartR(Captured'), StepSet, job', Restarters, Exits)
      BY <2>2, <2>6 DEF r
    <3> QED BY <2>1, <3>1 DEF Restarts
  <2>9. Chained'
    BY <2>7 DEF Chained, r
  <2> QED BY <2>2, <2>8, <2>9 DEF Shape, Rolling
<1> QED BY <1>3, <1>4 DEF Replace, Replacing

LEMMA ShapeRelaunches ==
  ASSUME TypeOK, Shape, NEW n \in Names, Relaunch(n)
  PROVE  Shape'
<1>1. job \in Job /\ job # <<>> /\ job[1] = <<"relaunch", n>> /\ UNCHANGED update
  BY AtHead DEF TypeOK, Job, Relaunch
<1>2. update.phase \notin {"none", "captured", "ok"}
  BY <1>1, HeadByPhase DEF ManagerSteps
<1> DEFINE r == job'
           F == {<<"await unit", n>>, <<"spawn", n>>}
<1>3. Chain(Goings, StepSet, job, StepSet, Exits)
  BY <1>1 DEF Shape, Chained
<1>s. HoldsRelaunch(StepSet, n) /\ HoldsRelaunch(RollSet, n)
  BY StepNames, StepInSet, InRollSet DEF HoldsRelaunch
<1>4. Chain(Goings, StepSet, r, F, Exits)
  BY <1>s, <1>3, RelaunchChain
<1>5. r[1] \in StepSet
  BY <1>4, ElementsOfChain
<1>6. Chained'
  <2> HIDE DEF r, F
  <2>1. Chain(Goings, StepSet, r, StepSet, Exits)
    BY <1>4, <1>5 DEF Chain
  <2> QED BY <2>1 DEF Chained, r
<1>7. ASSUME update.phase = "restart" PROVE Restarts'
  <2>1. Chain(RestartR(Captured), StepSet, job, Restarters, Exits)
        /\ \E i \in 1..Len(job) : job[i][1] = "else"
    BY <1>1, <1>7 DEF Shape, Restarts
  <2>2. Chain(RestartR(Captured), StepSet, r, F, Exits)
    BY <1>s, <2>1, RelaunchChain
  <2>3. F \subseteq Restarters
    <3>1. <<"await unit", n>> \in Restarters /\ <<"spawn", n>> \in Restarters
      BY DEF Restarters, Heads, Restarting
    <3> QED BY <3>1
  <2>4. PICK i \in 1..Len(job) : job[i][1] = "else"
    BY <2>1
  <2>5. i # 1 /\ Len(job) \in Nat
    BY <1>1, <1>3, <2>4, ElementsOfChain
  <2>6. /\ Tail(job) \in Job /\ Len(Tail(job)) = Len(job) - 1
        /\ \A j \in 1..(Len(job) - 1) : Tail(job)[j] = job[j + 1]
    BY <1>1, HeadTailProperties DEF Job
  <2>7. i - 1 \in 1..(Len(job) - 1) /\ (i - 1) + 1 = i
    BY <2>4, <2>5
  <2>8. i - 1 \in 1..Len(Tail(job)) /\ Tail(job)[i - 1][1] = "else"
    BY <2>4, <2>6, <2>7
  <2>9. PICK more \in Job : r = more \o Tail(job)
    <3>1. <<<<"await unit", n>>>> \in Job /\ <<<<"spawn", n>>, <<"confirm", n>>>> \in Job
      BY StepNames, StepsInJobs
    <3> QED BY <3>1 DEF Relaunch, Does
  <2> HIDE DEF r, F
  <2>10. Len(more) + (i - 1) \in 1..Len(r) /\ r[Len(more) + (i - 1)][1] = "else"
    BY <2>6, <2>8, <2>9, ConcatAt DEF Job
  <2>11. Chain(RestartR(Captured), StepSet, r, Restarters, Exits)
    BY <2>2, <2>3 DEF Chain
  <2>12. Chain(RestartR(Captured'), StepSet, job', Restarters, Exits)
         /\ \E j \in 1..Len(job') : job'[j][1] = "else"
    <3>1. Captured' = Captured
      BY <1>1 DEF Captured
    <3> QED BY <2>10, <2>11, <3>1 DEF r
  <2> QED BY <2>12 DEF Restarts
<1>8. ASSUME update.phase \in Rolling PROVE Rolls'
  <2>1. Chain(Goings, RollSet, job, RollSet, Exits)
    BY <1>1, <1>8 DEF Shape, Rolls
  <2>2. Chain(Goings, RollSet, r, F, Exits)
    BY <1>s, <2>1, InRollSet, RelaunchChain
  <2>3. r[1] \in RollSet
    BY <2>2, ElementsOfChain
  <2> HIDE DEF r, F
  <2>4. Chain(Goings, RollSet, r, RollSet, Exits)
    BY <2>2, <2>3 DEF Chain
  <2> QED BY <2>4 DEF Rolls, r
<1> QED BY <1>1, <1>2, <1>6, <1>7, <1>8 DEF Shape

LEMMA ShapeOfHealth ==
  ASSUME TypeOK, Shape, NEW n \in Names, Health(n)
  PROVE  Shape'
<1>1. job \in Job /\ job # <<>> /\ job[1] = <<"health", n>>
  BY AtHead DEF TypeOK, Job, Health
<1>2. CASE Fails /\ UNCHANGED update
  BY <1>1, <1>2, ShapeFalls DEF Fallible
<1>3. CASE Succeeds /\ update' = [update EXCEPT !.phase = "ok"]
  <2>1. Chained' /\ Chain(Goings, StepSet, job, StepSet, Exits)
    BY <1>1, <1>3, ChainedGoesOn DEF Shape, Chained
  <2>2. Len(job) > 1 /\ <<job[1], job[2]>> \in Goings /\ job[2] \in StepSet
    BY <1>1, <2>1, NextInChain
  <2>3. job[2] \in Heads({"else"})
    <3>1. job[2][1] = "else" /\ job[2] = <<job[2][1], job[2][2]>> /\ job[2][2] \in Names
      BY <1>1, <2>2 DEF Goings, Goes, StepSet
    <3> QED BY <3>1 DEF Heads
  <2> DEFINE r == job'
  <2>4. r = <<>> \/ Chain(Goings, StepSet, r, {job[2]}, Exits)
    BY <1>1, <1>3, <2>1, GoesOn
  <2>5. r = <<>> \/ r[1] \in Heads({"else"})
    BY <2>3, <2>4, ElementsOfChain
  <2>6. update'.phase = "ok"
    BY <1>3 DEF TypeOK
  <2> QED BY <2>1, <2>5, <2>6 DEF Shape, Rolling
<1> QED BY <1>2, <1>3 DEF Health

LEMMA ShapeCaptures ==
  ASSUME TypeOK, Shape, NEW n \in Names, Capture(n)
  PROVE  Shape'
<1>1. job \in Job /\ job # <<>> /\ job[1] = <<"capture", n>> /\ Succeeds
  BY AtHead DEF TypeOK, Job, Capture
<1>2. Chained' /\ Chain(Goings, StepSet, job, StepSet, Exits)
  BY <1>1, ChainedGoesOn DEF Shape, Chained
<1>3. Len(job) > 1 /\ <<job[1], job[2]>> \in Goings /\ job[2] \in StepSet
  BY <1>1, <1>2, NextInChain
<1>4. job[2] \in Heads({"replace", "exit"})
  <2>1. job[2][1] = "replace" /\ job[2] = <<job[2][1], job[2][2]>> /\ job[2][2] \in Names
    BY <1>1, <1>3 DEF Goings, Goes, StepSet
  <2> QED BY <2>1 DEF Heads
<1> DEFINE r == job'
<1>5. r = <<>> \/ Chain(Goings, StepSet, r, {job[2]}, Exits)
  BY <1>1, <1>2, GoesOn
<1>6. r = <<>> \/ r[1] \in Heads({"replace", "exit"})
  BY <1>4, <1>5, ElementsOfChain
<1>7. update'.phase = "captured"
  BY DEF Capture
<1> QED BY <1>2, <1>6, <1>7 DEF Shape, Rolling

LEMMA ShapeOfGiven ==
  ASSUME NEW c \in Commands, Give(c[1], c[2])
  PROVE  Shape'
<1>1. c[1] \in {"start", "stop", "restart", "show", "update"} /\ c[2] \in Names
  BY ManagerAssumption
<1> DEFINE r == job'
           F == At2({"unload", "spawn", "entry", "list", "capture"}, c[2])
<1>2. Chain(Goings, ManagerSet, r, F, {<<"exit", c[2]>>})
  BY <1>1, ScriptIsChain DEF Give
<1>3. F \subseteq Beginners
  <2>1. \A s \in {"unload", "spawn", "entry", "list", "capture"} : <<s, c[2]>> \in Beginners
    BY <1>1 DEF Beginners, ManagerSteps
  <2> QED BY <2>1 DEF At2
<1>4. {<<"exit", c[2]>>} \subseteq Exits
  BY <1>1 DEF Exits
<1>5. r[1] \in F /\ r[1] \in ManagerSet
  BY <1>2, ElementsOfChain
<1>6. update'.phase = "none"
  BY DEF Give
<1> HIDE DEF r, F
<1>7. Chain(Goings, ManagerSet, r, Beginners, Exits)
  BY <1>2, <1>3, <1>4, <1>5, LooserChain
<1>8. Chain(Goings, StepSet, r, StepSet, Exits)
  BY <1>2, <1>4, <1>5, ManagerStepsAreSteps, LooserChain
<1> QED BY <1>6, <1>7, <1>8 DEF Shape, Chained, Ordinary, Rolling, r

LEMMA ShapeKept ==
  ASSUME TypeOK, Shape, [Next]_vars
  PROVE  Shape'
<1>1. CASE UNCHANGED <<job, update>>
  <2>1. Captured' = Captured
    BY <1>1 DEF Captured
  <2> QED BY <1>1, <2>1 DEF Shape, Chained, Ordinary, Restarts, Rolls
<1>2. CASE ProcessStep \/ Setup \/ (\E p \in Slots : Crash(p)) \/ UNCHANGED vars
  BY <1>1, <1>2 DEF ProcessStep, Preflight, Boot, Drained, Respawn, Setup, Crash, vars, command
<1>3. CASE JobDies \/ \E n \in Names : Exit(n)
  <2>1. job' = <<>>
    BY <1>3 DEF JobDies, Exit
  <2> QED BY <2>1 DEF Shape, Chained, Ordinary, Restarts, Rolls
<1>4. CASE \E c \in Commands : Give(c[1], c[2])
  BY <1>4, ShapeOfGiven
<1>5. CASE \E n \in Names : Replace(n) \/ Relaunch(n) \/ Health(n) \/ Capture(n)
  BY <1>5, ShapeReplaces, ShapeRelaunches, ShapeOfHealth, ShapeCaptures
<1>6. CASE \E n \in Names : Rollback(n) \/ RolledBack(n)
  <2>1. PICK n \in Names : Rollback(n) \/ RolledBack(n)
    BY <1>6
  <2>2. CASE Rollback(n)
    <3>1. job # <<>> /\ job[1] = <<"rollback", n>>
      BY <2>2, AtHead DEF TypeOK, Job, Rollback
    <3>2. update.phase = "restart"
      BY <3>1, PhaseByHead
    <3>3. Chained' /\ Rolls'
      BY <2>2, <3>2, RollbackRolls DEF Shape
    <3>4. update'.phase = "rollback"
      BY <2>2 DEF TypeOK, Rollback
    <3> QED BY <3>3, <3>4 DEF Shape, Rolling
  <2>3. CASE RolledBack(n)
    <3>1. job # <<>> /\ job[1] = <<"rolled", n>> /\ Succeeds
      BY <2>3, AtHead DEF TypeOK, Job, RolledBack
    <3>2. update.phase \in Rolling
      BY <3>1, PhaseByHead
    <3>3. Chained' /\ Rolls'
      BY <3>1, <3>2, ChainedGoesOn, RollsGoesOn DEF Shape
    <3>4. update'.phase = "rolled back"
      BY <2>3 DEF TypeOK, RolledBack
    <3> QED BY <3>3, <3>4 DEF Shape, Rolling
  <2> QED BY <2>1, <2>2, <2>3
<1>7. CASE \E n \in Names :
            \/ Unload(n) \/ Unloaded(n) \/ Signal(n) \/ Entry(n) \/ Install(n) \/ Await(n)
            \/ Spawn(n) \/ Confirm(n) \/ List(n) \/ Sweep(n) \/ Terminate(n)
            \/ WaitExit(n) \/ AwaitUnit(n)
  <2>1. PICK n \in Names :
            \/ Unload(n) \/ Unloaded(n) \/ Signal(n) \/ Entry(n) \/ Install(n) \/ Await(n)
            \/ Spawn(n) \/ Confirm(n) \/ List(n) \/ Sweep(n) \/ Terminate(n)
            \/ WaitExit(n) \/ AwaitUnit(n)
    BY <1>7
  <2>2. job \in Job
    BY DEF TypeOK, Job
  <2>3. CASE Unload(n) \/ Unloaded(n) \/ Signal(n) \/ Install(n) \/ List(n) \/ Sweep(n)
             \/ Terminate(n) \/ WaitExit(n)
    <3>1. Succeeds /\ UNCHANGED update
          /\ \E s \in {"unload", "unloaded", "signal", "install", "list", "sweep", "terminate",
                       "exited"} : At(s, n)
      BY <2>3 DEF Unload, Unloaded, Signal, Install, List, Sweep, Terminate, WaitExit
    <3>2. PICK s \in Plain : At(s, n)
      BY <3>1 DEF Plain
    <3>3. job # <<>> /\ job[1] = <<s, n>>
      BY <2>2, <3>2, AtHead
    <3> QED BY <3>1, <3>3, ShapeGoesOn
  <2>4. CASE Entry(n) \/ Await(n) \/ Spawn(n) \/ Confirm(n) \/ AwaitUnit(n)
    <3>1. (Succeeds \/ Fails) /\ UNCHANGED update
          /\ \E s \in {"entry", "await", "spawn", "confirm", "await unit"} : At(s, n)
      BY <2>4 DEF Entry, Await, Spawn, Confirm, AwaitUnit
    <3>2. PICK s \in Plain \cap Fallible : At(s, n)
      BY <3>1 DEF Plain, Fallible
    <3>3. job # <<>> /\ job[1] = <<s, n>>
      BY <2>2, <3>2, AtHead
    <3>4. job[1][1] \in Plain /\ job[1][1] \in Fallible
      BY <3>3
    <3>5. CASE Succeeds
      BY <3>1, <3>3, <3>4, <3>5, ShapeGoesOn
    <3>6. CASE Fails
      BY <3>1, <3>3, <3>4, <3>6, ShapeFalls
    <3> QED BY <3>1, <3>5, <3>6
  <2> QED BY <2>1, <2>3, <2>4
<1> QED BY <1>2, <1>3, <1>4, <1>5, <1>6, <1>7 DEF Next, CommandStep

LEMMA ShapeAlways == Spec => []Shape
<1>1. Init => Shape
  BY DEF Init, NoUpdate, Shape, Chained, Ordinary, Rolling
<1>2. TypeOK /\ Shape /\ [Next]_vars => Shape'
  BY ShapeKept
<1> QED BY <1>1, <1>2, ManagerTypeCorrect, PTL DEF Spec

-----------------------------------------------------------------------------
\* As long as there never was a boot unit, the supervisor has no process.

Unsupervised ==
  /\ unit => enabled
  /\ ~enabled => BootProcs = {} /\ \A p \in Slots : procs[p].state # "preflight"

LEMMA EnabledStays ==
  ASSUME TypeOK, [Next]_vars
  PROVE  (enabled => enabled') /\ (unit' => unit \/ enabled')
<1>1. CASE \E n \in Names : Unload(n)
  <2>1. PICK n \in Names : Unload(n)
    BY <1>1
  <2>2. enabled' = enabled /\ (unit' = FALSE \/ unit' = unit)
    BY <2>1 DEF Unload
  <2> QED BY <2>2
<1>2. CASE \E n \in Names : Install(n)
  BY <1>2 DEF Install
<1>3. CASE ProcessStep \/ Setup \/ JobDies \/ (\E p \in Slots : Crash(p))
           \/ (\E c \in Commands : Give(c[1], c[2])) \/ UNCHANGED vars
  <2>1. UNCHANGED <<unit, enabled>>
    BY <1>3 DEF ProcessStep, Preflight, Boot, Drained, Respawn, Setup, JobDies, Crash, Give,
       vars
  <2> QED BY <2>1
<1>4. CASE \E n \in Names :
          \/ Unloaded(n) \/ Signal(n) \/ Entry(n) \/ Await(n) \/ Spawn(n) \/ Confirm(n)
          \/ List(n) \/ Sweep(n) \/ Exit(n) \/ Capture(n) \/ Replace(n) \/ Terminate(n)
          \/ WaitExit(n) \/ Relaunch(n) \/ AwaitUnit(n) \/ Health(n) \/ Rollback(n)
          \/ RolledBack(n)
  <2>1. UNCHANGED <<unit, enabled>>
    BY <1>4 DEF Unloaded, Signal, Entry, Await, Spawn, Confirm, List, Sweep, Exit, Capture,
       Replace, Terminate, WaitExit, Relaunch, AwaitUnit, Health, Rollback, RolledBack
  <2> QED BY <2>1
<1> QED BY <1>1, <1>2, <1>3, <1>4 DEF Next, CommandStep

LEMMA UnsupervisedKept ==
  ASSUME TypeOK, Unsupervised, [Next]_vars
  PROVE  Unsupervised'
<1>2. ASSUME ~enabled'
      PROVE  BootProcs' = {} /\ \A p \in Slots : procs'[p].state # "preflight"
  <2>1. ~enabled /\ ~unit
    BY <1>2, EnabledStays DEF TypeOK, Unsupervised
  <2>2. BootProcs = {} /\ \A p \in Slots : procs[p].state # "preflight"
    BY <2>1 DEF Unsupervised
  <2>3. CASE Wane
    <3>1. ASSUME NEW p \in Slots
          PROVE  procs'[p].state # "preflight" /\ ~(procs'[p].boot /\ procs'[p].state # "none")
      <4>1. Follows(procs[p], procs'[p])
        BY <2>3 DEF Wane
      <4>2. ~(procs[p].boot /\ procs[p].state # "none") /\ procs[p].state # "preflight"
        BY <2>2 DEF BootProcs
      <4> QED BY <4>1, <4>2 DEF Follows, Alive
    <3> QED BY <3>1 DEF BootProcs
  <2>4. CASE \E n \in Names : Wax(n, FALSE)
    <3>1. PICK n \in Names : Wax(n, FALSE)
      BY <2>4
    <3>2. FreeSlot \in Slots /\ procs' = [procs EXCEPT ![FreeSlot] = Spawned(n, FALSE)]
      BY <3>1, FreeSlotIsFree DEF Wax
    <3>3. procs'[FreeSlot] = Spawned(n, FALSE)
          /\ \A p \in Slots \ {FreeSlot} : procs'[p] = procs[p]
      BY <3>2 DEF TypeOK
    <3>4. ASSUME NEW p \in Slots
          PROVE  procs'[p].state # "preflight" /\ ~(procs'[p].boot /\ procs'[p].state # "none")
      <4>1. CASE p = FreeSlot
        BY <3>3, <4>1 DEF Spawned
      <4>2. CASE p # FreeSlot
        BY <2>2, <3>3, <4>2 DEF BootProcs
      <4> QED BY <4>1, <4>2
    <3> QED BY <3>4 DEF BootProcs
  <2>5. CASE Respawn
    BY <2>1, <2>5 DEF Respawn
  <2> QED BY <2>3, <2>4, <2>5, Evolution
<1> QED BY <1>2, EnabledStays DEF Unsupervised

\* The command has a process to confirm just when that is its next step, and a
\* list of entries only before the sweep.
Pending ==
  /\ pid # 0 <=> job # <<>> /\ job[1][1] = "confirm"
  /\ listing # NoEntries => job # <<>> /\ job[1][1] = "sweep"

\* What a command that goes on does next.
LEMMA NextStep ==
  ASSUME TypeOK, Chained, job # <<>>, Succeeds, job[1][1] # "exit"
  PROVE  job' # <<>> /\ job'[1] = job[2] /\ job[2] \in StepSet /\ Goes(job[1], job[2])
<1>1. job \in Job /\ Chain(Goings, StepSet, job, StepSet, Exits)
  BY DEF TypeOK, Job, Chained
<1>2. Len(job) > 1 /\ <<job[1], job[2]>> \in Goings /\ job[2] \in StepSet
  BY <1>1, NextInChain
<1> DEFINE r == job'
           l == Len(job)
<1>3. \/ l = 1 /\ r = <<>>
      \/ l > 1 /\ Chain(Goings, StepSet, r, {job[2]}, Exits)
  BY <1>1, GoesOn
<1>4. l \in Nat /\ l > 1
  BY <1>1, <1>2, ElementsOfChain
<1> HIDE DEF r, l
<1>5. Chain(Goings, StepSet, r, {job[2]}, Exits)
  BY <1>3, <1>4
<1>6. r # <<>> /\ r[1] = job[2]
  BY <1>5, ElementsOfChain
<1> QED BY <1>2, <1>6 DEF r, Goings

\* Where a command that fails goes on.
LEMMA AfterElse ==
  ASSUME TypeOK, Chained, job # <<>>, Fails
  PROVE  job' # <<>> /\ job'[1][1] \notin {"confirm", "sweep", "replace"}
<1>1. job \in Job /\ Chain(Goings, StepSet, job, StepSet, Exits)
  BY DEF TypeOK, Job, Chained
<1>2. PICK k \in 0..(Len(job) - 1) :
            /\ \/ k = Len(job) - 1 /\ \A i \in 1..Len(job) : job[i][1] # "else"
               \/ k > 0 /\ job[k][1] = "else"
            /\ Chain(Goings, StepSet, job', {job[k + 1]}, Exits)
  BY <1>1, FallsBack, ExitsNoElse
<1> DEFINE r == job'
           l == Len(job)
<1>3. Chain(Goings, StepSet, r, {job[k + 1]}, Exits) /\ (k = l - 1 \/ (k > 0 /\ job[k][1] = "else"))
      /\ k \in 0..(l - 1)
  BY <1>2
<1>4. l \in Nat /\ l >= 1 /\ job[l] \in Exits /\ \A i \in 1..(l - 1) : <<job[i], job[i + 1]>> \in Goings
  BY <1>1, ElementsOfChain DEF Chain, Linked
<1> HIDE DEF r, l
<1>5. r # <<>> /\ r[1] = job[k + 1]
  BY <1>3, ElementsOfChain
<1>6. job[k + 1][1] \notin {"confirm", "sweep", "replace"}
  <2>1. CASE k = l - 1
    <3>1. k + 1 = l
      BY <1>4, <2>1
    <3> QED BY <1>4, <3>1, ExitsNoElse
  <2>2. CASE k # l - 1
    <3>1. k \in 1..(l - 1) /\ job[k][1] = "else"
      BY <1>3, <1>4, <2>2
    <3>2. <<job[k], job[k + 1]>> \in Goings
      BY <1>4, <3>1
    <3> QED BY <3>1, <3>2 DEF Goings, Goes
  <2> QED BY <2>1, <2>2
<1> QED BY <1>5, <1>6 DEF r

LEMMA PendingKept ==
  ASSUME TypeOK, Shape, Pending, [Next]_vars
  PROVE  Pending'
<1>1. CASE UNCHANGED <<job, pid, listing>>
  BY <1>1 DEF Pending
<1>2. CASE ProcessStep \/ Setup \/ (\E p \in Slots : Crash(p)) \/ UNCHANGED vars
  BY <1>1, <1>2 DEF ProcessStep, Preflight, Boot, Drained, Respawn, Setup, Crash, vars, command
<1>3. CASE JobDies
  BY <1>3 DEF JobDies, Pending
<1>4. CASE \E n \in Names : Exit(n)
  <2>1. PICK n \in Names : Exit(n)
    BY <1>4
  <2>2. job[1] = <<"exit", n>> \/ job[1] = <<"else", n>>
    BY <2>1, AtHead DEF TypeOK, Job, Exit
  <2>3. pid = 0 /\ listing = NoEntries
    BY <2>2 DEF Pending
  <2> QED BY <2>1, <2>3 DEF Exit, Pending
<1>5. CASE \E c \in Commands : Give(c[1], c[2])
  <2>1. PICK c \in Commands : Give(c[1], c[2])
    BY <1>5
  <2>2. pid = 0 /\ listing = NoEntries /\ UNCHANGED <<pid, listing>>
    BY <2>1 DEF Give, Pending
  <2>3. c[1] \in {"start", "stop", "restart", "show", "update"} /\ c[2] \in Names
    BY ManagerAssumption
  <2> DEFINE r == job'
             F == At2({"unload", "spawn", "entry", "list", "capture"}, c[2])
  <2>4. Chain(Goings, ManagerSet, r, F, {<<"exit", c[2]>>})
    BY <2>1, <2>3, ScriptIsChain DEF Give
  <2>5. r[1] \in F
    BY <2>4, ElementsOfChain
  <2>6. job'[1][1] # "confirm"
    BY <2>5 DEF At2
  <2> QED BY <2>2, <2>6 DEF Pending
<1>6. ASSUME NEW s, NEW n \in Names, At(s, n), s \notin {"exit", "else", "confirm", "sweep"}
      PROVE  job # <<>> /\ job[1] = <<s, n>> /\ pid = 0 /\ listing = NoEntries
  <2>1. job # <<>> /\ job[1] = <<s, n>>
    BY <1>6, AtHead DEF TypeOK, Job
  <2> QED BY <1>6, <2>1 DEF Pending
<1>7. ASSUME NEW s, NEW n \in Names, job # <<>>, job[1] = <<s, n>>,
             s \notin {"exit", "spawn", "list"}, Succeeds
      PROVE  job'[1][1] \notin {"confirm", "sweep"}
  <2>1. job'[1] = job[2] /\ Goes(job[1], job[2])
    BY <1>7, NextStep DEF Shape
  <2> QED BY <1>7, <2>1 DEF Goes
<1>8. ASSUME job # <<>>, Fails PROVE job'[1][1] \notin {"confirm", "sweep"}
  BY <1>8, AfterElse DEF Shape
<1>9. CASE \E n \in Names :
            \/ Unload(n) \/ Unloaded(n) \/ Signal(n) \/ Entry(n) \/ Install(n) \/ Await(n)
            \/ Capture(n) \/ Terminate(n) \/ WaitExit(n) \/ AwaitUnit(n) \/ Health(n)
            \/ RolledBack(n)
  <2>1. PICK n \in Names :
            \/ Unload(n) \/ Unloaded(n) \/ Signal(n) \/ Entry(n) \/ Install(n) \/ Await(n)
            \/ Capture(n) \/ Terminate(n) \/ WaitExit(n) \/ AwaitUnit(n) \/ Health(n)
            \/ RolledBack(n)
    BY <1>9
  <2>2. (Succeeds \/ Fails) /\ UNCHANGED <<pid, listing>>
        /\ \E s \in {"unload", "unloaded", "signal", "entry", "install", "await", "capture",
                     "terminate", "exited", "await unit", "health", "rolled"} : At(s, n)
    BY <2>1 DEF Unload, Unloaded, Signal, Entry, Install, Await, Capture, Terminate, WaitExit,
       AwaitUnit, Health, RolledBack
  <2>3. PICK s \in {"unload", "unloaded", "signal", "entry", "install", "await", "capture",
                    "terminate", "exited", "await unit", "health", "rolled"} : At(s, n)
    BY <2>2
  <2>4. s \notin {"exit", "else", "confirm", "sweep", "spawn", "list"}
    OBVIOUS
  <2>5. job # <<>> /\ job[1] = <<s, n>> /\ pid = 0 /\ listing = NoEntries
    BY <1>6, <2>3, <2>4
  <2>6. job'[1][1] \notin {"confirm", "sweep"}
    BY <1>7, <1>8, <2>2, <2>4, <2>5
  <2> QED BY <2>2, <2>5, <2>6 DEF Pending
<1>10. CASE \E n \in Names : Spawn(n)
  <2>1. PICK n \in Names : Spawn(n)
    BY <1>10
  <2>2. job # <<>> /\ job[1] = <<"spawn", n>> /\ pid = 0 /\ listing = NoEntries
    BY <1>6, <2>1 DEF Spawn
  <2>3. CASE Fails /\ pid' = pid
    BY <1>8, <2>1, <2>2, <2>3 DEF Pending, Spawn
  <2>4. CASE Succeeds /\ pid' = FreeSlot
    <3>1. job' # <<>> /\ job'[1] = job[2] /\ Goes(job[1], job[2])
      BY <2>2, <2>4, NextStep DEF Shape
    <3>2. job'[1][1] = "confirm"
      BY <2>2, <3>1 DEF Goes
    <3>3. pid' # 0
      BY <2>1, <2>4, FreeSlotIsFree, NoSlotIsZero DEF Spawn, ZeroIsNoSlot
    <3>4. listing' = NoEntries
      BY <2>1, <2>2 DEF Spawn
    <3> QED BY <3>1, <3>2, <3>3, <3>4 DEF Pending
  <2> QED BY <2>1, <2>3, <2>4 DEF Spawn
<1>11. CASE \E n \in Names : Confirm(n)
  <2>1. PICK n \in Names : Confirm(n)
    BY <1>11
  <2>2. job # <<>> /\ job[1] = <<"confirm", n>>
    BY <2>1, AtHead DEF TypeOK, Job, Confirm
  <2>3. listing = NoEntries
    BY <2>2 DEF Pending
  <2>4. (Succeeds \/ Fails) /\ pid' = 0 /\ UNCHANGED listing
    BY <2>1 DEF Confirm
  <2>5. job'[1][1] \notin {"confirm", "sweep"}
    BY <1>7, <1>8, <2>2, <2>4
  <2> QED BY <2>3, <2>4, <2>5 DEF Pending
<1>12. CASE \E n \in Names : List(n)
  <2>1. PICK n \in Names : List(n)
    BY <1>12
  <2>2. job # <<>> /\ job[1] = <<"list", n>> /\ pid = 0
    BY <1>6, <2>1 DEF List
  <2>3. job' # <<>> /\ job'[1] = job[2] /\ Goes(job[1], job[2])
    BY <2>1, <2>2, NextStep DEF Shape, List
  <2>4. job'[1][1] = "sweep"
    BY <2>2, <2>3 DEF Goes
  <2> QED BY <2>1, <2>2, <2>3, <2>4 DEF Pending, List
<1>13. CASE \E n \in Names : Sweep(n)
  <2>1. PICK n \in Names : Sweep(n)
    BY <1>13
  <2>2. job # <<>> /\ job[1] = <<"sweep", n>>
    BY <2>1, AtHead DEF TypeOK, Job, Sweep
  <2>3. pid = 0
    BY <2>2 DEF Pending
  <2>4. job'[1][1] \notin {"confirm", "sweep"}
    BY <1>7, <2>1, <2>2 DEF Sweep
  <2> QED BY <2>1, <2>3, <2>4 DEF Pending, Sweep
<1>14. CASE \E n \in Names : Replace(n) \/ Relaunch(n) \/ Rollback(n)
  <2>1. PICK n \in Names : Replace(n) \/ Relaunch(n) \/ Rollback(n)
    BY <1>14
  <2>2. pid = 0 /\ listing = NoEntries /\ UNCHANGED <<pid, listing>> /\ job # <<>>
    BY <1>6, <2>1 DEF Replace, Relaunch, Rollback
  <2>3. job'[1][1] # "confirm"
    <3>1. CASE Replace(n)
      <4>1. At("replace", n) /\ (Fails \/ Does(Replacing(n)))
        BY <3>1 DEF Replace, Replacing
      <4>2. CASE Fails
        BY <1>8, <2>2, <4>2
      <4>3. CASE Does(Replacing(n))
        <5> DEFINE r == job'
        <5>1. Chain(RestartR(Captured), StepSet, r, FirstRestart(n), Exits)
          BY <4>1, <4>3, ReplaceRestarts DEF Shape
        <5>2. r[1] \in FirstRestart(n)
          BY <5>1, ElementsOfChain
        <5>3. \A a \in FirstRestart(n) : a[1] # "confirm"
          BY DEF FirstRestart
        <5> QED BY <5>2, <5>3
      <4> QED BY <4>1, <4>2, <4>3
    <3>2. CASE Relaunch(n)
      <4>1. Chain(Goings, StepSet, job, StepSet, Exits)
        BY <2>2 DEF Shape, Chained
      <4>2. HoldsRelaunch(StepSet, n)
        BY StepNames, StepInSet DEF HoldsRelaunch
      <4> DEFINE r == job'
                 F == {<<"await unit", n>>, <<"spawn", n>>}
      <4>3. Chain(Goings, StepSet, r, F, Exits)
        BY <3>2, <4>1, <4>2, RelaunchChain
      <4>4. r[1] \in F
        BY <4>3, ElementsOfChain
      <4>5. \A a \in F : a[1] # "confirm"
        BY FirstRelaunches
      <4> HIDE DEF r, F
      <4>6. r[1][1] # "confirm"
        BY <4>4, <4>5
      <4> QED BY <4>6 DEF r
    <3>3. CASE Rollback(n)
      <4>1. job # <<>> /\ job[1] = <<"rollback", n>>
        BY <3>3, AtHead DEF TypeOK, Job, Rollback
      <4>2. update.phase = "restart"
        BY <4>1, PhaseByHead
      <4>3. job'[1] \in FirstRollback(n)
        BY <3>3, <4>2, RollbackRolls DEF Shape
      <4>4. \A a \in FirstRollback(n) : a[1] # "confirm"
        BY DEF FirstRollback
      <4> QED BY <4>3, <4>4
    <3> QED BY <2>1, <3>1, <3>2, <3>3
  <2> QED BY <2>2, <2>3 DEF Pending
<1> QED
  BY <1>2, <1>3, <1>4, <1>5, <1>9, <1>10, <1>11, <1>12, <1>13, <1>14 DEF Next, CommandStep

-----------------------------------------------------------------------------
\* Without a boot unit, crashes and roll-backs, each process that runs is found
\* by its registry file.

Watched == ~enabled /\ crashes = 0 /\ update.phase \notin Rolling

RunsOwned == \A p \in Slots : Runs(p) => p \in {registry[procs[p].name], pid}

\* The process to confirm takes the place of an entry that is gone.
PidOwned == pid # 0 => /\ registry[job[1][2]] = 0
                       /\ Runs(pid) => procs[pid].name = job[1][2]

\* The entries that a sweep or a restart goes by are those of the registry.
ListingOwned == listing # NoEntries => listing = registry
CapturedOwned ==
  update.phase = "captured" /\ job # <<>> /\ job[1][1] = "replace" =>
    \A m \in Captured : update.captured[m] = registry[m]
RestartOwned ==
  update.phase = "restart" /\ job # <<>> =>
    /\ job[1][1] = "terminate" => registry[job[1][2]] = update.captured[job[1][2]]
    /\ job[1][1] \in Restarting /\ job[1][2] = "bridge" /\ "scan" \in Captured =>
         registry["scan"] = update.captured["scan"]

Owned == /\ RunsOwned /\ PidOwned /\ ListingOwned
         /\ CapturedOwned /\ RestartOwned

\* What holds of every state, whether there is a boot unit or not.
Frame == TypeOK /\ Shape /\ Unsupervised /\ Pending

\* A state that is watched was so before.
LEMMA WatchedBefore ==
  ASSUME Frame, [Next]_vars, Watched'
  PROVE  Watched /\ ~unit /\ BootProcs = {} /\ \A p \in Slots : procs[p].state # "preflight"
<1> USE DEF Frame
<1>1. ASSUME NEW n \in Names, NEW s, At(s, n)
      PROVE  job # <<>> /\ job[1] = <<s, n>>
  BY <1>1, AtHead DEF TypeOK, Job
<1>2. ASSUME update.phase \in Rolling PROVE update'.phase \in Rolling
  <2>1. CASE ProcessStep \/ Setup \/ (\E p \in Slots : Crash(p)) \/ UNCHANGED vars
             \/ (\E c \in Commands : Give(c[1], c[2]))
    <3>1. UNCHANGED update
      BY <2>1 DEF ProcessStep, Preflight, Boot, Drained, Respawn, Setup, Crash, Give, vars
    <3> QED BY <1>2, <3>1
  <2>2. CASE JobDies \/ \E n \in Names : Exit(n)
    <3>1. update' = [update EXCEPT !.captured = NoEntries]
      BY <2>2 DEF JobDies, Exit
    <3> QED BY <1>2, <3>1 DEF TypeOK
  <2>3. CASE \E n \in Names : Rollback(n) \/ RolledBack(n)
    BY <2>3 DEF TypeOK, Rolling, Rollback, RolledBack
  <2>4. CASE \E n \in Names : Capture(n) \/ Replace(n) \/ Health(n)
    <3>1. PICK n \in Names : Capture(n) \/ Replace(n) \/ Health(n)
      BY <2>4
    <3>2. At("capture", n) \/ At("replace", n) \/ At("health", n)
      BY <3>1 DEF Capture, Replace, Health
    <3>3. PICK s \in {"capture", "replace", "health"} : At(s, n)
      BY <3>2
    <3>4. job # <<>> /\ job[1][1] \in {"capture", "replace", "health"}
      BY <1>1, <3>3
    <3>5. update.phase \in {"none", "captured", "restart"}
      BY <3>4, PhaseByHead
    <3> QED BY <1>2, <3>5 DEF Rolling
  <2>5. CASE \E n \in Names :
            \/ Unload(n) \/ Unloaded(n) \/ Signal(n) \/ Entry(n) \/ Install(n) \/ Await(n)
            \/ Spawn(n) \/ Confirm(n) \/ List(n) \/ Sweep(n) \/ Terminate(n) \/ WaitExit(n)
            \/ Relaunch(n) \/ AwaitUnit(n)
    <3>1. UNCHANGED update
      BY <2>5 DEF Unload, Unloaded, Signal, Entry, Install, Await, Spawn, Confirm, List, Sweep,
         Terminate, WaitExit, Relaunch, AwaitUnit
    <3> QED BY <1>2, <3>1
  <2> QED BY <2>1, <2>2, <2>3, <2>4, <2>5 DEF Next, CommandStep
<1>3. crashes' = crashes \/ crashes' = crashes + 1
  <2>1. CASE JobDies \/ \E p \in Slots : Crash(p)
    BY <2>1 DEF JobDies, Crash
  <2>2. CASE ProcessStep \/ Setup \/ UNCHANGED vars \/ (\E c \in Commands : Give(c[1], c[2]))
    BY <2>2 DEF ProcessStep, Preflight, Boot, Drained, Respawn, Setup, Give, vars
  <2>3. CASE CommandStep
    <3>1. PICK n \in Names :
            \/ Unload(n) \/ Unloaded(n) \/ Signal(n) \/ Entry(n) \/ Install(n) \/ Await(n)
            \/ Spawn(n) \/ Confirm(n) \/ List(n) \/ Sweep(n) \/ Exit(n)
            \/ Capture(n) \/ Replace(n) \/ Terminate(n) \/ WaitExit(n) \/ Relaunch(n)
            \/ AwaitUnit(n) \/ Health(n) \/ Rollback(n) \/ RolledBack(n)
      BY <2>3 DEF CommandStep
    <3> QED
      BY <3>1 DEF Unload, Unloaded, Signal, Entry, Install, Await, Spawn, Confirm, List, Sweep,
         Exit, Capture, Replace, Terminate, WaitExit, Relaunch, AwaitUnit, Health, Rollback,
         RolledBack
  <2> QED BY <2>1, <2>2, <2>3 DEF Next
<1>4. crashes = 0
  BY <1>3 DEF TypeOK, Watched
<1>5. ~enabled
  BY EnabledStays DEF Watched
<1>6. update.phase \notin Rolling
  BY <1>2 DEF Watched
<1> QED BY <1>4, <1>5, <1>6 DEF Watched, Unsupervised

LEMMA RunsBefore ==
  ASSUME TypeOK, Wane, NEW p \in Slots, Runs(p)'
  PROVE  Runs(p) /\ procs'[p].name = procs[p].name
<1>1. Follows(procs[p], procs'[p])
  BY DEF Wane
<1>2. procs'[p].state \in Active /\ Alive(procs'[p])
  BY DEF Runs, Active, Alive
<1> QED BY <1>1, <1>2 DEF Follows, Runs, Active

LEMMA RunsKept ==
  ASSUME TypeOK, Wane, RunsOwned, UNCHANGED <<registry, pid>>
  PROVE  RunsOwned'
<1>1. ASSUME NEW p \in Slots, Runs(p)' PROVE p \in {registry'[procs'[p].name], pid'}
  <2>1. Runs(p) /\ procs'[p].name = procs[p].name
    BY <1>1, RunsBefore
  <2> QED BY <2>1 DEF RunsOwned
<1> QED BY <1>1 DEF RunsOwned

\* The registered process is told to end before its entry goes.
LEMMA RunsSignalled ==
  ASSUME TypeOK, Wane, RunsOwned, pid = 0, pid' = 0, NEW n \in Names,
         procs' = Terminated({registry[n]}), registry' = [registry EXCEPT ![n] = 0]
  PROVE  RunsOwned'
<1>1. ASSUME NEW p \in Slots, Runs(p)' PROVE p \in {registry'[procs'[p].name], pid'}
  <2>1. Runs(p) /\ procs'[p].name = procs[p].name
    BY <1>1, RunsBefore
  <2>2. p = registry[procs[p].name] /\ p # 0
    BY <2>1, NoSlotIsZero DEF RunsOwned, ZeroIsNoSlot
  <2>3. procs[p].name # n
    <3>1. SUFFICES ASSUME procs[p].name = n PROVE FALSE
      OBVIOUS
    <3>2. p \in {registry[n]} /\ IsAlive(p) /\ Alive(procs[p])
      BY <2>1, <2>2, <3>1 DEF IsAlive, Runs, Alive
    <3>3. procs'[p] = Signalled(procs[p])
      BY <3>2 DEF Terminated
    <3>4. procs'[p].state \in {"draining", "zombie", "none"}
      BY <3>2, <3>3, SignalledFollows DEF TypeOK
    <3> QED BY <1>1, <3>4 DEF Runs
  <2>4. registry'[procs[p].name] = registry[procs[p].name]
    BY <2>3 DEF TypeOK, Entries, Processes
  <2> QED BY <2>1, <2>2, <2>4
<1> QED BY <1>1 DEF RunsOwned

\* A process that is started takes the place of one that is gone.
LEMMA RunsSpawned ==
  ASSUME TypeOK, RunsOwned, pid = 0, NEW n \in Names, ~Registered(n), Wax(n, FALSE),
         pid' = FreeSlot, registry' = [registry EXCEPT ![n] = 0]
  PROVE  RunsOwned' /\ registry'[n] = 0 /\ procs'[pid'].name = n
<1>1. FreeSlot \in Slots /\ procs' = [procs EXCEPT ![FreeSlot] = Spawned(n, FALSE)]
  BY FreeSlotIsFree DEF Wax
<1>2. procs'[FreeSlot] = Spawned(n, FALSE) /\ \A p \in Slots \ {FreeSlot} : procs'[p] = procs[p]
  BY <1>1 DEF TypeOK
<1>3. ASSUME NEW p \in Slots, Runs(p)' PROVE p \in {registry'[procs'[p].name], pid'}
  <2>1. CASE p # FreeSlot
    <3>1. Runs(p) /\ procs'[p].name = procs[p].name
      BY <1>2, <1>3, <2>1 DEF Runs
    <3>2. p = registry[procs[p].name] /\ p # 0
      BY <3>1, NoSlotIsZero DEF RunsOwned, ZeroIsNoSlot
    <3>3. procs[p].name # n
      <4>1. SUFFICES ASSUME procs[p].name = n PROVE FALSE
        OBVIOUS
      <4>2. Registered(n)
        BY <3>1, <3>2, <4>1 DEF Registered, IsAlive, Runs
      <4> QED BY <4>2
    <3>4. registry'[procs[p].name] = registry[procs[p].name]
      BY <3>3 DEF TypeOK, Entries, Processes
    <3> QED BY <3>1, <3>2, <3>4
  <2> QED BY <2>1
<1>4. registry'[n] = 0
  BY DEF TypeOK, Entries
<1>5. procs'[pid'].name = n
  BY <1>2 DEF Spawned
<1> QED BY <1>3, <1>4, <1>5 DEF RunsOwned

\* The process to confirm is registered, or it is gone.
LEMMA RunsConfirmed ==
  ASSUME TypeOK, RunsOwned, NEW n \in Names, pid # 0, registry[n] = 0,
         Runs(pid) => procs[pid].name = n, UNCHANGED procs, pid' = 0,
         IF IsAlive(pid) THEN registry' = [registry EXCEPT ![n] = pid]
         ELSE registry' = [registry EXCEPT ![n] = 0]
  PROVE  RunsOwned'
<1>1. ASSUME NEW p \in Slots, Runs(p)' PROVE p \in {registry'[procs'[p].name], pid'}
  <2>1. Runs(p) /\ p \in {registry[procs[p].name], pid} /\ procs[p].name \in Names /\ p # 0
    BY <1>1, NoSlotIsZero DEF Runs, RunsOwned, ZeroIsNoSlot, TypeOK, Processes
  <2>2. CASE p = pid
    <3>1. IsAlive(pid) /\ procs[p].name = n
      BY <2>1, <2>2 DEF IsAlive, Runs
    <3>2. registry'[n] = pid
      BY <3>1 DEF TypeOK, Entries
    <3> QED BY <2>2, <3>1, <3>2
  <2>3. CASE p # pid
    <3>1. p = registry[procs[p].name] /\ procs[p].name # n
      BY <2>1, <2>3
    <3>2. registry'[procs[p].name] = registry[procs[p].name]
      BY <2>1, <3>1 DEF TypeOK, Entries
    <3> QED BY <3>1, <3>2
  <2> QED BY <2>2, <2>3
<1> QED BY <1>1 DEF RunsOwned

\* The sweep clears the entries of the processes that are gone.
LEMMA RunsSwept ==
  ASSUME TypeOK, RunsOwned, ListingOwned, NEW n \in Names, Sweep(n), pid = 0
  PROVE  RunsOwned'
<1>1. ASSUME NEW p \in Slots, Runs(p)' PROVE p \in {registry'[procs'[p].name], pid'}
  <2>1. Runs(p) /\ p = registry[procs[p].name] /\ procs[p].name \in Names /\ p # 0
    BY <1>1, NoSlotIsZero DEF Sweep, Runs, RunsOwned, ZeroIsNoSlot, TypeOK, Processes
  <2> DEFINE m == procs[p].name
  <2>2. listing[m] # 0 => listing[m] = p
    BY <2>1 DEF ListingOwned, NoEntries
  <2>3. listing[m] # 0 => IsAlive(listing[m])
    BY <2>1, <2>2 DEF IsAlive, Runs
  <2>4. registry'[m] = registry[m]
    BY <2>1, <2>3 DEF Sweep
  <2>5. UNCHANGED procs
    BY DEF Sweep
  <2> QED BY <2>1, <2>4, <2>5
<1> QED BY <1>1 DEF RunsOwned

LEMMA NextRestart ==
  ASSUME TypeOK, Restarts, job # <<>>, job[1][1] # "exit"
  PROVE  RestartGoes(Captured, job[1], job[2])
<1>1. job \in Job /\ Chain(RestartR(Captured), StepSet, job, Restarters, Exits)
  BY DEF TypeOK, Job, Restarts
<1>2. <<job[1], job[2]>> \in RestartR(Captured)
  BY <1>1, NextInChain
<1> QED BY <1>2 DEF RestartR, RestartGoings

OneRestart == {"terminate", "exited", "spawn", "await unit", "confirm"}
KeepsOthers(n) == \A m \in Names \ {n} : registry'[m] = registry[m]

\* What a restart of one service leaves of the other's entry.
LEMMA RestartOwnedGoesOn ==
  ASSUME TypeOK, Shape, RestartOwned, NEW n \in Names,
         NEW s, s \in OneRestart, At(s, n), Succeeds, UNCHANGED update,
         KeepsOthers(n)
  PROVE  RestartOwned'
<1> SUFFICES ASSUME update.phase = "restart" PROVE RestartOwned'
  BY DEF RestartOwned
<1>a. job # <<>> /\ job[1] = <<s, n>>
  BY AtHead DEF TypeOK, Job
<1>b. job[1][1] = s /\ job[1][2] = n
  BY <1>a
<1>1. RestartGoes(Captured, job[1], job[2]) /\ job'[1] = job[2] /\ job' # <<>>
  <2>1. s # "exit"
    BY DEF OneRestart
  <2> QED BY <1>a, <1>b, <2>1, NextRestart, NextStep DEF Shape
<1>2. s \in Restarting
  BY DEF Restarting, OneRestart
<1>3. n = "bridge" /\ "scan" \in Captured => registry'["scan"] = update.captured["scan"]
  BY <1>a, <1>b, <1>2 DEF RestartOwned, Names, KeepsOthers
<1>4. n \in {"bridge", "scan"} /\ Captured' = Captured
  BY DEF Names, Captured
<1> DEFINE b == job[2]
<1>5. /\ s = "terminate" => b = <<"exited", n>>
      /\ s = "exited" => b = <<"relaunch", n>>
      /\ s = "spawn" => b = <<"confirm", n>>
      /\ s \in {"await unit", "confirm"} =>
            IF n = "bridge" /\ "scan" \in Captured THEN b = <<"terminate", "scan">>
            ELSE b[1] = "health"
  BY <1>1, <1>b DEF RestartGoes
<1>6. job'[1] = b /\ job' # <<>>
  BY <1>1
<1> HIDE DEF b
<1>7. \/ b[2] = n /\ b[1] # "terminate"
      \/ n = "bridge" /\ "scan" \in Captured /\ b[1] = "terminate" /\ b[2] = "scan"
      \/ b[1] = "health"
  <2>1. CASE s \in {"terminate", "exited", "spawn"}
    <3>1. PICK t \in {"exited", "relaunch", "confirm"} : b = <<t, n>>
      BY <1>5, <2>1
    <3> QED BY <3>1
  <2>2. CASE s \in {"await unit", "confirm"}
    <3>1. CASE n = "bridge" /\ "scan" \in Captured
      <4>1. b = <<"terminate", "scan">>
        BY <1>5, <2>2, <3>1
      <4>2. b[1] = "terminate" /\ b[2] = "scan"
        BY <4>1
      <4> QED BY <3>1, <4>2
    <3>2. CASE ~(n = "bridge" /\ "scan" \in Captured)
      BY <1>5, <2>2, <3>2
    <3> QED BY <3>1, <3>2
  <2> QED BY <2>1, <2>2 DEF OneRestart
<1>8. "health" \notin Restarting
  BY DEF Restarting
<1> QED BY <1>3, <1>4, <1>6, <1>7, <1>8 DEF RestartOwned

LEMMA RestartOwnedFalls ==
  ASSUME TypeOK, Shape, job # <<>>, job[1][1] \in Fallible, Fails, UNCHANGED update
  PROVE  RestartOwned'
<1> SUFFICES ASSUME update.phase = "restart" PROVE RestartOwned'
  BY DEF RestartOwned
<1>1. Captured' = Captured
  BY DEF Captured
<1>2. job'[1][1] = "rollback"
  BY <1>1, RestartsFalls DEF Shape
<1> QED BY <1>2 DEF RestartOwned, Restarting

\* Nothing but processes moves.
LEMMA OwnedByProcesses ==
  ASSUME Frame, Owned, Wane, UNCHANGED <<registry, command, update>>
  PROVE  Owned'
<1>1. RunsOwned'
  BY RunsKept DEF Frame, Owned, command
<1>2. Captured' = Captured /\ UNCHANGED <<job, pid, listing>>
  BY DEF Captured, command
<1>3. PidOwned'
  <2>1. SUFFICES ASSUME pid # 0
                 PROVE  registry[job[1][2]] = 0 /\ (Runs(pid)' => procs'[pid].name = job[1][2])
    BY <1>2 DEF PidOwned
  <2>2. pid \in Slots
    BY <2>1 DEF Frame, TypeOK
  <2>3. Runs(pid)' => Runs(pid) /\ procs'[pid].name = procs[pid].name
    <3>1. SUFFICES ASSUME Runs(pid)' PROVE Runs(pid) /\ procs'[pid].name = procs[pid].name
      OBVIOUS
    <3>2. Follows(procs[pid], procs'[pid]) /\ pid' = pid
      BY <1>2, <2>2 DEF Wane
    <3>3. procs'[pid].state \in Active /\ Alive(procs'[pid])
      BY <3>1, <3>2 DEF Runs, Active, Alive
    <3> QED BY <3>2, <3>3 DEF Follows, Runs, Active
  <2> QED BY <2>1, <2>3 DEF Owned, PidOwned
<1>4. ListingOwned' /\ CapturedOwned' /\ RestartOwned'
  BY <1>2 DEF Owned, ListingOwned, CapturedOwned, RestartOwned
<1> QED BY <1>1, <1>3, <1>4 DEF Owned

\* A step of a command that no update is in the middle of.
LEMMA OwnedIdle ==
  ASSUME RunsOwned', pid' = 0, listing' = NoEntries,
         \/ job' = <<>> \/ update'.phase \notin {"captured", "restart"}
         \/ job'[1][1] \in {"exit", "else"}
  PROVE  Owned'
<1>1. PidOwned' /\ ListingOwned'
  BY DEF PidOwned, ListingOwned
<1>2. CapturedOwned' /\ RestartOwned'
  BY DEF CapturedOwned, RestartOwned, Restarting
<1> QED BY <1>1, <1>2 DEF Owned

LEMMA OwnedByCommand ==
  ASSUME Frame, Owned, ~unit, NEW n \in Names, NEW s, At(s, n), s \notin {"confirm", "sweep"}
  PROVE  job # <<>> /\ job[1] = <<s, n>> /\ job[1][1] = s /\ pid = 0
         /\ (s \notin {"exit", "else"} => listing = NoEntries)
<1>1. job # <<>> /\ job[1] = <<s, n>>
  BY AtHead DEF Frame, TypeOK, Job
<1> QED BY <1>1 DEF Frame, Pending

\* The commands that start and stop services.
LEMMA OwnedByManager ==
  ASSUME Frame, Owned, ~unit, Wane, NEW n \in Names,
         \/ Unload(n) \/ Unloaded(n) \/ Signal(n) \/ Entry(n) \/ Await(n) \/ Exit(n)
         \/ List(n) \/ Sweep(n)
  PROVE  Owned'
<1>1. RunsOwned /\ TypeOK
  BY DEF Owned, Frame
<1>2. ASSUME NEW s \in {"unload", "unloaded", "signal", "entry", "await", "list"}, At(s, n)
      PROVE  pid = 0 /\ listing = NoEntries /\ update.phase = "none"
  <2>1. s \notin {"confirm", "sweep", "exit", "else"}
    OBVIOUS
  <2>2. job # <<>> /\ job[1][1] = s /\ pid = 0 /\ listing = NoEntries
    BY <1>2, <2>1, OwnedByCommand
  <2>3. update.phase = "none"
    BY <2>2, PhaseByHead DEF Frame
  <2> QED BY <2>2, <2>3
<1>3. CASE Unload(n) \/ Unloaded(n) \/ Entry(n) \/ Await(n)
  <2>1. PICK s \in {"unload", "unloaded", "entry", "await"} : At(s, n)
    BY <1>3 DEF Unload, Unloaded, Entry, Await
  <2>2. pid = 0 /\ listing = NoEntries /\ update.phase = "none"
    BY <1>2, <2>1
  <2>3. UNCHANGED <<registry, pid, listing, update>>
    BY <1>3 DEF Unload, Unloaded, Entry, Await
  <2>4. RunsOwned'
    BY <1>1, <2>3, RunsKept
  <2> QED BY <2>2, <2>3, <2>4, OwnedIdle
<1>4. CASE Signal(n)
  <2>1. pid = 0 /\ listing = NoEntries /\ update.phase = "none"
    BY <1>2, <1>4 DEF Signal
  <2>2. UNCHANGED <<pid, listing, update>> /\ procs' = Terminated({registry[n]})
        /\ registry' = [registry EXCEPT ![n] = 0]
    BY <1>4 DEF Signal
  <2>3. RunsOwned'
    BY <1>1, <2>1, <2>2, RunsSignalled
  <2> QED BY <2>1, <2>2, <2>3, OwnedIdle
<1>5. CASE Exit(n)
  <2>1. PICK s \in {"exit", "else"} : At(s, n)
    BY <1>5 DEF Exit
  <2>2. pid = 0 /\ job # <<>> /\ job[1][1] = s
    BY <2>1, OwnedByCommand
  <2>3. listing = NoEntries
    BY <2>2 DEF Frame, Pending
  <2>4. job' = <<>> /\ UNCHANGED <<registry, pid, listing>>
    BY <1>5 DEF Exit
  <2>5. RunsOwned'
    BY <1>1, <2>4, RunsKept
  <2> QED BY <2>2, <2>3, <2>4, <2>5, OwnedIdle
<1>6. CASE List(n)
  <2>1. pid = 0 /\ listing = NoEntries /\ update.phase = "none"
    BY <1>2, <1>6 DEF List
  <2>2. UNCHANGED <<registry, pid, update>> /\ listing' = registry
    BY <1>6 DEF List
  <2>3. RunsOwned'
    BY <1>1, <2>2, RunsKept
  <2>4. PidOwned' /\ ListingOwned' /\ CapturedOwned' /\ RestartOwned'
    BY <2>1, <2>2 DEF PidOwned, ListingOwned, CapturedOwned, RestartOwned
  <2> QED BY <2>3, <2>4 DEF Owned
<1>7. CASE Sweep(n)
  <2>1. job # <<>> /\ job[1] = <<"sweep", n>>
    BY <1>1, <1>7, AtHead DEF TypeOK, Job, Sweep
  <2>2. job[1][1] = "sweep"
    BY <2>1
  <2>3. pid = 0 /\ update.phase = "none"
    BY <2>1, <2>2, PhaseByHead DEF Frame, Pending
  <2>4. RunsOwned'
    BY <1>1, <1>7, <2>3, RunsSwept DEF Owned
  <2>5. pid' = 0 /\ listing' = NoEntries /\ update' = update
    BY <1>7, <2>3 DEF Sweep
  <2> QED BY <2>3, <2>4, <2>5, OwnedIdle
<1> QED BY <1>3, <1>4, <1>5, <1>6, <1>7

\* The capture and the replacement.
LEMMA OwnedByUpdate ==
  ASSUME Frame, Owned, ~unit, Wane, NEW n \in Names, Capture(n) \/ Replace(n) \/ Health(n)
  PROVE  Owned'
<1>1. PICK s \in {"capture", "replace", "health"} : At(s, n)
  BY DEF Capture, Replace, Health
<1>2. s \notin {"confirm", "sweep", "exit", "else"}
  OBVIOUS
<1>3. job # <<>> /\ job[1][1] = s /\ pid = 0 /\ listing = NoEntries
  BY <1>1, <1>2, OwnedByCommand
<1>4. UNCHANGED <<registry, pid, listing>>
  BY DEF Capture, Replace, Health
<1>5. RunsOwned' /\ PidOwned' /\ ListingOwned'
  BY <1>3, <1>4, RunsKept DEF Owned, Frame, PidOwned, ListingOwned
<1>6. CASE Capture(n)
  <2>1. update' = [phase |-> "captured", quiet |-> Quiet,
                   captured |-> [m \in Names |-> IF Registered(m) THEN registry[m] ELSE 0]]
    BY <1>6 DEF Capture
  <2>2. update'.phase = "captured"
        /\ update'.captured = [m \in Names |-> IF Registered(m) THEN registry[m] ELSE 0]
    BY <2>1
  <2>3. \A m \in Captured' : update'.captured[m] = registry'[m]
    BY <1>4, <2>2 DEF Captured
  <2> QED BY <1>5, <2>2, <2>3 DEF Owned, CapturedOwned, RestartOwned
<1>7. CASE Health(n)
  <2>1. s = "health"
    <3>1. job # <<>> /\ job[1] = <<"health", n>>
      BY <1>7, AtHead DEF Frame, TypeOK, Job, Health
    <3> QED BY <1>3, <3>1
  <2>2. update.phase = "restart"
    BY <1>3, <2>1, PhaseByHead DEF Frame
  <2>3. CASE update' = [update EXCEPT !.phase = "ok"]
    <3>1. update'.phase = "ok"
      BY <2>3 DEF Frame, TypeOK
    <3> QED BY <1>5, <3>1 DEF Owned, CapturedOwned, RestartOwned
  <2>4. CASE Fails /\ UNCHANGED update
    <3>1. s \in Fallible
      BY <2>1 DEF Fallible
    <3>2. RestartOwned'
      BY <1>3, <2>4, <3>1, RestartOwnedFalls DEF Frame
    <3>3. CapturedOwned'
      BY <2>2, <2>4 DEF CapturedOwned
    <3> QED BY <1>5, <3>2, <3>3 DEF Owned
  <2> QED BY <1>7, <2>3, <2>4 DEF Health
<1>8. CASE Replace(n)
  <2>1. job # <<>> /\ job[1] = <<"replace", n>> /\ At("replace", n)
    BY <1>8, AtHead DEF Frame, TypeOK, Job, Replace
  <2>2. job[1][1] = "replace"
    BY <2>1
  <2>3. update.phase = "captured"
    BY <2>1, <2>2, PhaseByHead DEF Frame
  <2>4. CASE Fails /\ UNCHANGED update
    <3>1. job'[1] \in Exits
      BY <2>1, <2>2, <2>4, ReplaceFails DEF Frame, Shape
    <3>2. job'[1][1] = "exit"
      BY <3>1, ExitsNoElse
    <3> QED BY <1>5, <2>3, <2>4, <3>2 DEF Owned, CapturedOwned, RestartOwned, Restarting
  <2>5. CASE Does(Replacing(n)) /\ update' = [update EXCEPT !.phase = "restart"]
    <3>1. update'.phase = "restart" /\ update'.captured = update.captured /\ Captured' = Captured
      BY <2>5 DEF Frame, TypeOK, Captured
    <3> DEFINE r == job'
    <3>2. Chain(RestartR(Captured), StepSet, r, FirstRestart(n), Exits)
      BY <2>1, <2>5, ReplaceRestarts DEF Frame, Shape
    <3>3. r[1] \in FirstRestart(n)
      BY <3>2, ElementsOfChain
    <3> HIDE DEF r
    <3>4. \A m \in Captured : update.captured[m] = registry[m]
      BY <2>1, <2>2, <2>3 DEF Owned, CapturedOwned
    <3>5. r[1][1] = "terminate" => r[1][2] \in Captured
      <4>1. CASE Captured = {}
        <5>1. r[1] = <<"health", n>>
          BY <3>3, <4>1 DEF FirstRestart
        <5> QED BY <5>1
      <4>2. CASE Captured # {}
        <5>1. r[1] \in {"terminate"} \X Captured
          BY <3>3, <4>2 DEF FirstRestart, Firsts
        <5> QED BY <5>1
      <4> QED BY <4>1, <4>2
    <3>6. RestartOwned'
      BY <1>4, <3>1, <3>4, <3>5 DEF RestartOwned, r
    <3> QED BY <1>5, <3>1, <3>6 DEF Owned, CapturedOwned
  <2> QED BY <1>8, <2>4, <2>5 DEF Replace, Replacing
<1> QED BY <1>6, <1>7, <1>8

\* The steps that restart a service.
LEMMA OwnedBySpawn ==
  ASSUME Frame, Owned, ~unit, NEW n \in Names, Spawn(n), Wane \/ Wax(n, FALSE)
  PROVE  Owned'
<1>1. TypeOK /\ Shape /\ RunsOwned /\ RestartOwned
  BY DEF Frame, Owned
<1>2. At("spawn", n) /\ UNCHANGED <<listing, update>> /\ FreeSlots # {}
  BY DEF Spawn
<1>3. job # <<>> /\ job[1] = <<"spawn", n>> /\ job[1][1] = "spawn" /\ pid = 0 /\ listing = NoEntries
  BY <1>2, OwnedByCommand
<1>4. CASE Fails /\ UNCHANGED <<procs, registry, pid>>
  <2>1. RunsOwned'
    BY <1>1, <1>4 DEF RunsOwned, Runs
  <2>2. RestartOwned'
    BY <1>1, <1>2, <1>3, <1>4, RestartOwnedFalls DEF Fallible
  <2>3. CapturedOwned'
    <3>1. update.phase # "captured"
      BY <1>1, <1>3, PhaseByHead DEF Rolling
    <3> QED BY <1>2, <3>1 DEF CapturedOwned
  <2>4. PidOwned' /\ ListingOwned'
    BY <1>2, <1>3, <1>4 DEF PidOwned, ListingOwned
  <2> QED BY <2>1, <2>2, <2>3, <2>4 DEF Owned
<1>5. CASE ~Registered(n) /\ Succeeds
  <2>1. registry' = [registry EXCEPT ![n] = 0] /\ pid' = FreeSlot
        /\ procs' = [procs EXCEPT ![FreeSlot] = Spawned(n, FALSE)]
    BY <1>5 DEF Spawn
  <2>2. Wax(n, FALSE)
    BY <1>2, <2>1 DEF Wax
  <2>3. RunsOwned' /\ registry'[n] = 0 /\ procs'[pid'].name = n
    BY <1>1, <1>3, <1>5, <2>1, <2>2, RunsSpawned
  <2>4. job' # <<>> /\ job'[1] = job[2] /\ Goes(job[1], job[2])
    BY <1>1, <1>3, <1>5, NextStep DEF Shape
  <2>5. job[2][2] = n /\ job[2][1] = "confirm"
    BY <1>3, <2>4 DEF Goes
  <2>6. PidOwned'
    BY <2>3, <2>4, <2>5 DEF PidOwned
  <2>7. KeepsOthers(n)
    BY <1>1, <2>1 DEF KeepsOthers, TypeOK, Entries
  <2>8. RestartOwned'
    <3>1. "spawn" \in OneRestart
      BY DEF OneRestart
    <3> QED BY <1>1, <1>2, <1>5, <2>7, <3>1, RestartOwnedGoesOn
  <2>9. ListingOwned' /\ CapturedOwned'
    <3>1. update.phase # "captured"
      BY <1>1, <1>3, PhaseByHead DEF Rolling
    <3> QED BY <1>2, <1>3, <3>1 DEF ListingOwned, CapturedOwned
  <2> QED BY <2>3, <2>6, <2>8, <2>9 DEF Owned
<1> QED BY <1>4, <1>5 DEF Spawn

LEMMA OwnedByConfirm ==
  ASSUME Frame, Owned, NEW n \in Names, Confirm(n)
  PROVE  Owned'
<1>1. TypeOK /\ Shape /\ RunsOwned /\ RestartOwned
  BY DEF Frame, Owned
<1>2. At("confirm", n) /\ UNCHANGED <<procs, listing, update>> /\ pid' = 0
  BY DEF Confirm
<1>3. job # <<>> /\ job[1] = <<"confirm", n>>
  BY <1>1, <1>2, AtHead DEF TypeOK, Job
<1>4. job[1][1] = "confirm" /\ job[1][2] = n
  BY <1>3
<1>5. pid # 0 /\ listing = NoEntries
  BY <1>3, <1>4 DEF Frame, Pending
<1>6. registry[n] = 0 /\ (Runs(pid) => procs[pid].name = n)
  BY <1>4, <1>5 DEF Owned, PidOwned
<1>7. RunsOwned'
  <2>1. IF IsAlive(pid) THEN registry' = [registry EXCEPT ![n] = pid]
        ELSE registry' = [registry EXCEPT ![n] = 0]
    BY DEF Confirm
  <2> QED BY <1>1, <1>2, <1>5, <1>6, <2>1, RunsConfirmed
<1>8. KeepsOthers(n)
  <2>1. registry' = [registry EXCEPT ![n] = pid] \/ registry' = [registry EXCEPT ![n] = 0]
    BY DEF Confirm
  <2> QED BY <1>1, <2>1 DEF KeepsOthers, TypeOK, Entries
<1>9. RestartOwned'
  <2>1. "confirm" \in OneRestart /\ "confirm" \in Fallible
    BY DEF OneRestart, Fallible
  <2>2. CASE Succeeds
    BY <1>1, <1>2, <1>8, <2>1, <2>2, RestartOwnedGoesOn
  <2>3. CASE Fails
    BY <1>1, <1>2, <1>3, <1>4, <2>1, <2>3, RestartOwnedFalls
  <2> QED BY <2>2, <2>3 DEF Confirm
<1>10. PidOwned' /\ ListingOwned' /\ CapturedOwned'
  <2>1. update.phase # "captured"
    BY <1>1, <1>3, <1>4, PhaseByHead DEF Rolling
  <2> QED BY <1>2, <1>5, <2>1 DEF PidOwned, ListingOwned, CapturedOwned
<1> QED BY <1>7, <1>9, <1>10 DEF Owned

\* A restart waits, or it starts the service again.
Stopping == {"terminate", "exited", "await unit", "relaunch"}

LEMMA RestartHead ==
  ASSUME Frame, Owned, ~unit, Watched, NEW n \in Names, NEW s, s \in Stopping, At(s, n)
  PROVE  /\ job # <<>> /\ job[1] = <<s, n>> /\ job[1][1] = s /\ job[1][2] = n
         /\ pid = 0 /\ listing = NoEntries /\ update.phase = "restart"
<1>1. job # <<>> /\ job[1] = <<s, n>>
  BY AtHead DEF Frame, TypeOK, Job
<1>2. job[1][1] = s /\ job[1][2] = n
  BY <1>1
<1>3. s \notin {"confirm", "sweep", "exit", "else"} /\ s \in Restarting
  BY DEF Stopping, Restarting
<1>4. pid = 0 /\ listing = NoEntries
  BY <1>3, OwnedByCommand
<1>5. update.phase = "restart"
  <2>1. s \in {"terminate", "exited", "await unit", "relaunch"}
    BY DEF Stopping
  <2>2. job[1][1] \in {"terminate", "exited", "await unit", "relaunch"}
    BY <1>2, <2>1
  <2> QED BY <1>1, <2>2, PhaseByHead DEF Frame, Watched, Rolling
<1> QED BY <1>1, <1>2, <1>4, <1>5

\* What the restart's steps leave alone.
LEMMA OwnedRestarting ==
  ASSUME pid = 0, listing = NoEntries, update.phase = "restart",
         UNCHANGED <<pid, listing, update>>, RunsOwned', RestartOwned'
  PROVE  Owned'
<1>1. PidOwned' /\ ListingOwned' /\ CapturedOwned'
  BY DEF PidOwned, ListingOwned, CapturedOwned
<1> QED BY <1>1 DEF Owned

LEMMA OwnedByTerminate ==
  ASSUME Frame, Owned, ~unit, Watched, Wane, NEW n \in Names, Terminate(n)
  PROVE  Owned'
<1>1. TypeOK /\ Shape /\ RunsOwned /\ RestartOwned
  BY DEF Frame, Owned
<1>2. "terminate" \in Stopping /\ "terminate" \in OneRestart
  BY DEF Stopping, OneRestart
<1>3. At("terminate", n) /\ Succeeds /\ procs' = Terminated({update.captured[n]})
      /\ registry' = [registry EXCEPT ![n] = 0] /\ UNCHANGED <<pid, listing, update>>
  BY DEF Terminate
<1>4. /\ job # <<>> /\ job[1][1] = "terminate" /\ job[1][2] = n
      /\ pid = 0 /\ listing = NoEntries /\ update.phase = "restart"
  BY <1>2, <1>3, RestartHead
<1>5. registry[n] = update.captured[n]
  BY <1>1, <1>4 DEF RestartOwned
<1>6. RunsOwned'
  BY <1>1, <1>3, <1>4, <1>5, RunsSignalled
<1>7. KeepsOthers(n)
  BY <1>1, <1>3 DEF KeepsOthers, TypeOK, Entries
<1>8. RestartOwned'
  BY <1>1, <1>2, <1>3, <1>7, RestartOwnedGoesOn
<1> QED BY <1>3, <1>4, <1>6, <1>8, OwnedRestarting

LEMMA OwnedByWaiting ==
  ASSUME Frame, Owned, ~unit, Watched, Wane, NEW n \in Names, WaitExit(n) \/ AwaitUnit(n)
  PROVE  Owned'
<1>1. TypeOK /\ Shape /\ RunsOwned /\ RestartOwned
  BY DEF Frame, Owned
<1>2. UNCHANGED <<registry, pid, listing, update>>
  BY DEF WaitExit, AwaitUnit
<1>3. RunsOwned'
  BY <1>1, <1>2, RunsKept
<1>4. KeepsOthers(n)
  BY <1>2 DEF KeepsOthers
<1>5. {"exited", "await unit"} \subseteq Stopping \cap OneRestart
  BY DEF Stopping, OneRestart
<1>6. PICK s \in Stopping \cap OneRestart :
          At(s, n) /\ (Succeeds \/ (s = "await unit" /\ Fails))
  BY <1>5 DEF WaitExit, AwaitUnit
<1>7. job # <<>> /\ job[1][1] = s /\ pid = 0 /\ listing = NoEntries /\ update.phase = "restart"
  BY <1>6, RestartHead
<1>8. RestartOwned'
  <2>1. CASE Succeeds
    BY <1>1, <1>2, <1>4, <1>6, <2>1, RestartOwnedGoesOn
  <2>2. CASE s = "await unit" /\ Fails
    <3>1. job[1][1] \in Fallible
      BY <1>7, <2>2 DEF Fallible
    <3> QED BY <1>1, <1>2, <1>7, <2>2, <3>1, RestartOwnedFalls
  <2> QED BY <1>6, <2>1, <2>2
<1> QED BY <1>2, <1>3, <1>7, <1>8, OwnedRestarting

LEMMA OwnedByRelaunch ==
  ASSUME Frame, Owned, ~unit, Watched, Wane, NEW n \in Names, Relaunch(n)
  PROVE  Owned'
<1>1. TypeOK /\ Shape /\ RunsOwned /\ RestartOwned
  BY DEF Frame, Owned
<1>2. At("relaunch", n) /\ UNCHANGED <<registry, pid, listing, update>>
  BY DEF Relaunch
<1>3. "relaunch" \in Stopping /\ "relaunch" \in Restarting
  BY DEF Stopping, Restarting
<1>4. /\ job # <<>> /\ job[1] = <<"relaunch", n>> /\ job[1][1] = "relaunch" /\ job[1][2] = n
      /\ pid = 0 /\ listing = NoEntries /\ update.phase = "restart"
  BY <1>2, <1>3, RestartHead
<1>5. RunsOwned'
  BY <1>1, <1>2, RunsKept
<1>6. RestartOwned'
  <2>1. Chain(Goings, StepSet, job, StepSet, Exits)
    BY <1>1, <1>4 DEF Shape, Chained
  <2>2. HoldsRelaunch(StepSet, n)
    BY StepNames, StepInSet DEF HoldsRelaunch
  <2> DEFINE r == job'
             F == {<<"await unit", n>>, <<"spawn", n>>}
  <2>3. Chain(Goings, StepSet, r, F, Exits)
    BY <1>1, <2>1, <2>2, RelaunchChain
  <2>4. r[1] \in F
    BY <2>3, ElementsOfChain
  <2>5. \A a \in F : a[1] \in {"await unit", "spawn"} /\ a[2] = n
    BY FirstRelaunches
  <2> HIDE DEF r, F
  <2>6. r[1][1] # "terminate" /\ r[1][2] = n
    BY <2>4, <2>5
  <2>7. n = "bridge" /\ "scan" \in Captured => registry["scan"] = update.captured["scan"]
    BY <1>1, <1>3, <1>4 DEF RestartOwned
  <2>8. Captured' = Captured
    BY <1>2 DEF Captured
  <2> QED BY <1>2, <2>6, <2>7, <2>8 DEF RestartOwned, r
<1> QED BY <1>2, <1>4, <1>5, <1>6, OwnedRestarting

LEMMA OwnedKept ==
  ASSUME Frame, Watched => Owned, [Next]_vars
  PROVE  Watched' => Owned'
<1> SUFFICES ASSUME Watched' PROVE Owned'
  OBVIOUS
<1>1. Owned /\ Watched /\ ~unit /\ \A p \in Slots : procs[p].state # "preflight"
  BY WatchedBefore
<1>2. TypeOK
  BY DEF Frame
<1>3. Wane \/ \E n \in Names : Wax(n, FALSE) /\ Spawn(n)
  BY <1>1, <1>2, Evolution DEF Respawn
<1>4. ASSUME NEW n \in Names, Spawn(n) PROVE Owned'
  <2>1. CASE Wane
    BY <1>1, <1>4, <2>1, OwnedBySpawn
  <2>2. CASE \E m \in Names : Wax(m, FALSE) /\ Spawn(m)
    BY <1>1, <2>2, OwnedBySpawn
  <2> QED BY <1>3, <2>1, <2>2
<1> SUFFICES ASSUME Wane PROVE Owned'
  BY <1>3, <1>4
<1>5. CASE (\E p \in Slots : Boot(p) \/ Drained(p)) \/ Setup \/ UNCHANGED vars
  <2>1. UNCHANGED <<registry, command, update>>
    BY <1>5 DEF Boot, Drained, Setup, vars
  <2> QED BY <1>1, <2>1, OwnedByProcesses
<1>6. CASE (\E p \in Slots : Preflight(p)) \/ Respawn
  BY <1>1, <1>6 DEF Preflight, Respawn
<1>7. CASE JobDies \/ \E p \in Slots : Crash(p)
  BY <1>2, <1>7 DEF JobDies, Crash, TypeOK, Watched
<1>8. CASE \E c \in Commands : Give(c[1], c[2])
  <2>1. job = <<>> /\ update.phase = "none" /\ UNCHANGED <<registry, pid, listing, update>>
    BY <1>8 DEF Give
  <2>2. pid = 0 /\ listing = NoEntries
    BY <2>1 DEF Frame, Pending
  <2>3. RunsOwned'
    BY <1>1, <1>2, <2>1, RunsKept DEF Owned
  <2> QED BY <2>1, <2>2, <2>3, OwnedIdle
<1>9. CASE \E n \in Names : Install(n)
  BY <1>9 DEF Install, Watched
<1>10. CASE \E n \in Names : Rollback(n) \/ RolledBack(n)
  <2>1. update'.phase \in Rolling
    BY <1>2, <1>10 DEF Rollback, RolledBack, Rolling, TypeOK
  <2> QED BY <2>1 DEF Watched
<1>11. CASE \E n \in Names :
           \/ Unload(n) \/ Unloaded(n) \/ Signal(n) \/ Entry(n) \/ Await(n) \/ Exit(n)
           \/ List(n) \/ Sweep(n)
  BY <1>1, <1>11, OwnedByManager
<1>12. CASE \E n \in Names : Capture(n) \/ Replace(n) \/ Health(n)
  BY <1>1, <1>12, OwnedByUpdate
<1>13. CASE \E n \in Names : Spawn(n)
  BY <1>4, <1>13
<1>14. CASE \E n \in Names : Confirm(n)
  BY <1>1, <1>14, OwnedByConfirm
<1>15. CASE \E n \in Names : Terminate(n) \/ WaitExit(n) \/ AwaitUnit(n) \/ Relaunch(n)
  BY <1>1, <1>15, OwnedByTerminate, OwnedByWaiting, OwnedByRelaunch
<1> QED
  BY <1>5, <1>6, <1>7, <1>8, <1>9, <1>10, <1>11, <1>12, <1>13, <1>14, <1>15
  DEF Next, ProcessStep, CommandStep

\* As long as there never was a boot unit, nothing crashes and no update is
\* rolled back, each process that runs is the one its registry file names, or
\* the one a command is still to confirm: a stop, a restart or an update finds
\* every process that fbsy has started.
THEOREM NoOrphanEver == Spec => []NoOrphan
<1>1. Init => Unsupervised /\ Pending /\ (Watched => Owned)
  <2> SUFFICES ASSUME Init PROVE Unsupervised /\ Pending /\ Owned
    OBVIOUS
  <2>1. \A p \in Slots : procs[p] = Gone
    BY DEF Init
  <2>2. BootProcs = {} /\ \A p \in Slots : procs[p].state = "none"
    BY <2>1 DEF Gone, BootProcs
  <2>3. RunsOwned
    BY <2>2 DEF RunsOwned, Runs
  <2> QED
    BY <2>2, <2>3 DEF Init, NoUpdate, Unsupervised, Pending, Owned, PidOwned, ListingOwned,
       CapturedOwned, RestartOwned
<1>2. TypeOK /\ Unsupervised /\ [Next]_vars => Unsupervised'
  BY UnsupervisedKept
<1>3. TypeOK /\ Shape /\ Pending /\ [Next]_vars => Pending'
  BY PendingKept
<1>4. TypeOK /\ Shape /\ Unsupervised /\ Pending /\ (Watched => Owned) /\ [Next]_vars
        => (Watched => Owned)'
  BY OwnedKept DEF Frame
<1>5. (Watched => Owned) => NoOrphan
  BY DEF Watched, Owned, RunsOwned, NoOrphan, Rolling
<1> QED BY <1>1, <1>2, <1>3, <1>4, <1>5, ManagerTypeCorrect, ShapeAlways, PTL DEF Spec

=============================================================================
