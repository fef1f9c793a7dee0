--------------------------- MODULE JobPollerProofs ---------------------------
(***************************************************************************)
(* What HrmsClient and JobPoller guarantee for every batch size, number of *)
(* retries, calls, jobs, faults and restarts.                              *)
(***************************************************************************)
EXTENDS JobPoller, FiniteSetTheorems, TLAPS

-----------------------------------------------------------------------------
\* The chunk at hand is a beginning of what is left.
LEMMA ChunkBounds ==
  ASSUME WebhookTypeOK, answer = "running"
  PROVE  /\ sent \in Nat /\ total \in Nat /\ sent < total /\ total <= MaxEvents
         /\ ChunkEnd \in Nat /\ sent < ChunkEnd /\ ChunkEnd <= total
         /\ Chunk \subseteq 1..MaxEvents
<1>1. /\ sent \in Nat /\ total \in Nat /\ sent < total /\ total <= MaxEvents
      /\ BatchSize \in Nat \ {0} /\ MaxEvents \in Nat
  BY ClientAssumption DEF WebhookTypeOK
<1>2. ChunkEnd \in Nat /\ sent < ChunkEnd /\ ChunkEnd <= total
  BY <1>1 DEF ChunkEnd
<1>3. QED BY <1>1, <1>2 DEF Chunk

LEMMA FaultsTyped ==
  ASSUME NEW ok \in BOOLEAN, NEW lost \in BOOLEAN,
         faults \in 0..MaxFaults, Faulty(ok, lost)
  PROVE  faults' \in 0..MaxFaults
BY ClientAssumption DEF Faulty

-----------------------------------------------------------------------------
\* The webhook's part of the type invariant.

LEMMA ForwardEventsTyped ==
  ASSUME WebhookTypeOK, ForwardEvents
  PROVE  WebhookTypeOK'
<1>1. PICK n \in 0..MaxEvents : total' = n /\ answer' = IF n = 0 THEN "ok" ELSE "running"
  BY DEF ForwardEvents
<1>2. n \in Nat /\ n <= MaxEvents
  BY <1>1, ClientAssumption
<1>3. QED
  BY <1>1, <1>2, ClientAssumption DEF ForwardEvents, WebhookTypeOK, hrms

LEMMA PostTyped ==
  ASSUME WebhookTypeOK, Post
  PROVE  WebhookTypeOK'
<1>1. PICK f \in Fates :
        /\ Faulty(f = "accepted", f = "lost")
        /\ fate' = f
        /\ stored' = stored \cup Chunk \/ stored' = stored
  BY DEF Post
<1>2. stored' \subseteq 1..MaxEvents
  BY <1>1, ChunkBounds DEF Post, WebhookTypeOK
<1>3. faults' \in 0..MaxFaults
  BY <1>1, FaultsTyped DEF WebhookTypeOK
<1>4. QED
  BY <1>1, <1>2, <1>3 DEF Post, WebhookTypeOK

LEMMA AcceptedTyped ==
  ASSUME WebhookTypeOK, Accepted
  PROVE  WebhookTypeOK'
<1>1. answer = "running" /\ sent' = ChunkEnd
  BY DEF Accepted
<1>2. PICK n \in 0..MaxCount : received' = received + n
  BY DEF Accepted
<1>3. /\ sent' \in 0..total' /\ total' \in 0..MaxEvents
      /\ answer' = IF sent' = total' THEN "ok" ELSE "running"
  BY <1>1, ChunkBounds DEF Accepted, WebhookTypeOK
<1>4. answer' = "running" => sent' < total'
  BY <1>3, ClientAssumption
<1>5. received' \in Nat
  BY <1>2, ClientAssumption DEF WebhookTypeOK
<1>6. zone' \in OrgZones \cup {NoZone}
  BY DEF Accepted, WebhookTypeOK
<1>7. /\ attempt' = 1 /\ attempt' \in 1..(MaxRetries + 1)
      /\ fate' = "unsent"
  BY ClientAssumption DEF Accepted
<1>8. QED
  BY <1>3, <1>4, <1>5, <1>6, <1>7 DEF Accepted, WebhookTypeOK, hrms

LEMMA RetryTyped ==
  ASSUME WebhookTypeOK, Retry
  PROVE  WebhookTypeOK'
<1>1. attempt' \in 1..(MaxRetries + 1)
  BY ClientAssumption DEF Retry, WebhookTypeOK
<1>2. QED
  BY <1>1 DEF Retry, WebhookTypeOK, call, hrms

LEMMA GiveUpTyped ==
  ASSUME WebhookTypeOK, GiveUp
  PROVE  WebhookTypeOK'
<1>1. attempt' = 1 /\ attempt' \in 1..(MaxRetries + 1)
  BY ClientAssumption DEF GiveUp
<1>2. QED
  BY <1>1 DEF GiveUp, WebhookTypeOK, hrms

LEMMA DiesTyped ==
  ASSUME WebhookTypeOK, WebhookDies, UNCHANGED hrms
  PROVE  WebhookTypeOK'
<1>1. attempt' = 1 /\ attempt' \in 1..(MaxRetries + 1)
  BY ClientAssumption DEF WebhookDies
<1>2. QED
  BY <1>1, ClientAssumption DEF WebhookDies, WebhookTypeOK, hrms

LEMMA WebhookTyped ==
  ASSUME WebhookTypeOK, WebhookNext
  PROVE  WebhookTypeOK'
BY ForwardEventsTyped, PostTyped, AcceptedTyped, RetryTyped, GiveUpTyped
   DEF WebhookNext, WebhookStep

\* A step of the poller leaves the webhook alone and may take a fault.
LEMMA PollerKeepsWebhook ==
  ASSUME WebhookTypeOK, UNCHANGED <<webhook, down>>, faults' \in 0..MaxFaults
  PROVE  WebhookTypeOK'
BY DEF WebhookTypeOK, webhook, call, request

-----------------------------------------------------------------------------
\* The poller's part.

\* A list of jobs: HRMS lists what it has no report of, each job once.
LEMMA ListingsAre ==
  ASSUME TypeOK, Pending # {}, NEW q \in Listings
  PROVE  /\ q \in Seq(Pending) /\ q # <<>>
         /\ \A a, b \in DOMAIN q : a # b => q[a] # q[b]
<1>1. IsFiniteSet(Pending)
  <2>1. IsFiniteSet(Jobs) /\ Pending \subseteq Jobs
    BY PollerAssumption DEF TypeOK, Pending
  <2>2. QED BY <2>1, FS_Subset
<1>2. Cardinality(Pending) \in Nat /\ Cardinality(Pending) # 0
  BY <1>1, FS_CardinalityType, FS_EmptySet
<1>3. /\ q \in [1..Cardinality(Pending) -> Pending]
      /\ \A a, b \in DOMAIN q : a < b => q[a] < q[b]
  BY DEF Listings
<1>4. Pending \subseteq Nat
  BY PollerAssumption DEF TypeOK, Pending
<1>5. q \in Seq(Pending) /\ q # <<>>
  BY <1>2, <1>3
<1>6. ASSUME NEW a \in DOMAIN q, NEW b \in DOMAIN q, a # b
      PROVE  q[a] # q[b]
  <2>1. a \in Nat /\ b \in Nat
    BY <1>2, <1>3
  <2>2. q[a] \in Nat /\ q[b] \in Nat
    BY <1>3, <1>4
  <2>3. (a < b => q[a] < q[b]) /\ (b < a => q[b] < q[a])
    BY <1>3
  <2>4. QED BY <1>6, <2>1, <2>2, <2>3
<1>7. QED BY <1>5, <1>6

\* The first job of a list that the poller works on, and what is behind it.
LEMMA HeadOfQueue ==
  ASSUME TypeOK, poll \in {"execute", "report"}
  PROVE  /\ queue # <<>> /\ Len(queue) \in Nat \ {0}
         /\ Head(queue) \in filed /\ Head(queue) \in Jobs /\ Head(queue) = queue[1]
         /\ Tail(queue) \in Seq(filed)
         /\ Tail(queue) = <<>> <=> Len(queue) = 1
<1>1. queue \in Seq(filed) /\ queue # <<>> /\ filed \subseteq Jobs
  BY DEF TypeOK
<1>2. Len(queue) \in Nat \ {0} /\ Head(queue) = queue[1] /\ Head(queue) \in filed
  BY <1>1
<1>3. Tail(queue) \in Seq(filed) /\ Len(Tail(queue)) = Len(queue) - 1
  BY <1>1
<1>4. Tail(queue) = <<>> <=> Len(queue) = 1
  BY <1>2, <1>3
<1>5. QED BY <1>1, <1>2, <1>3, <1>4

LEMMA PollerTyped ==
  ASSUME TypeOK, PollerStep
  PROVE  TypeOK'
<1>1. WebhookTypeOK
  BY DEF TypeOK
<1> USE <1>1
<1>2. CASE FetchNothing
  <2>1. faults' \in 0..MaxFaults
    BY <1>2, FaultsTyped DEF FetchNothing, WebhookTypeOK
  <2>2. WebhookTypeOK'
    BY <1>2, <2>1, PollerKeepsWebhook DEF FetchNothing
  <2>3. QED BY <1>2, <2>2 DEF FetchNothing, TypeOK, jobVars, poller, terminal
<1>3. CASE Fetch
  <2>1. faults' \in 0..MaxFaults
    BY <1>3, FaultsTyped DEF Fetch, WebhookTypeOK
  <2>2. WebhookTypeOK'
    BY <1>3, <2>1, PollerKeepsWebhook DEF Fetch
  <2>3. queue' \in Seq(Pending) /\ queue' # <<>>
    BY <1>3, ListingsAre DEF Fetch
  <2>4. queue' \in Seq(filed')
    BY <1>3, <2>3 DEF Fetch, Pending
  <2>5. QED BY <1>3, <2>2, <2>3, <2>4 DEF Fetch, TypeOK, terminal
<1>4. CASE ExecuteRefused
  <2>1. WebhookTypeOK'
    BY <1>4, PollerKeepsWebhook DEF ExecuteRefused, Executed, WebhookTypeOK
  <2>2. QED BY <1>4, <2>1 DEF ExecuteRefused, Executed, TypeOK, terminal, Results
<1>5. CASE ExecuteFails
  <2>1. faults' \in 0..MaxFaults
    BY <1>5, ClientAssumption DEF ExecuteFails, WebhookTypeOK
  <2>2. WebhookTypeOK'
    BY <1>5, <2>1, PollerKeepsWebhook DEF ExecuteFails, Executed
  <2>3. QED BY <1>5, <2>2, HeadOfQueue
            DEF ExecuteFails, Executed, TypeOK, terminal, Write, Results
<1>6. CASE ExecutePull
  <2>1. WebhookTypeOK'
    BY <1>6, PollerKeepsWebhook DEF ExecutePull, Executed, WebhookTypeOK
  <2>2. QED BY <1>6, <2>1 DEF ExecutePull, Executed, TypeOK, terminal, Results
<1>7. CASE ExecutePush
  <2>1. WebhookTypeOK'
    BY <1>7, PollerKeepsWebhook DEF ExecutePush, Executed, WebhookTypeOK
  <2>2. QED BY <1>7, <2>1, HeadOfQueue
            DEF ExecutePush, Executed, TypeOK, terminal, Write, Results
<1>8. CASE ExecutePanics
  <2>1. WebhookTypeOK'
    BY <1>8, PollerKeepsWebhook DEF ExecutePanics, WebhookTypeOK, hrms
  <2>2. queue' = <<>> /\ poll' = "dead" /\ <<>> \in Seq(filed')
    <3>1. \A S : <<>> \in Seq(S)
      OBVIOUS
    <3>2. QED BY <1>8, <3>1 DEF ExecutePanics
  <2>3. UNCHANGED <<kind, filed, reports, result, template, written, restarts>>
    BY <1>8 DEF ExecutePanics, terminal
  <2>4. QED BY <2>1, <2>2, <2>3 DEF TypeOK
<1>9. CASE Report
  <2>1. faults' \in 0..MaxFaults
    BY <1>9, FaultsTyped DEF Report, WebhookTypeOK
  <2>2. WebhookTypeOK'
    BY <1>9, <2>1, PollerKeepsWebhook DEF Report
  <2>3. reports' \in [Jobs -> Results \cup {NoReport}]
    BY <1>9 DEF Report, Record, TypeOK
  <2>4. /\ queue' \in Seq(filed') /\ poll' \in {"sleep", "execute"}
        /\ queue' # <<>> <=> poll' \in {"execute", "report"}
    BY <1>9, HeadOfQueue DEF Report, NextJob
  <2>5. QED BY <1>9, <2>2, <2>3, <2>4 DEF Report, TypeOK, terminal
<1>10. CASE ReportFails
  <2>1. faults' \in 0..MaxFaults
    BY <1>10, FaultsTyped DEF ReportFails, WebhookTypeOK
  <2>2. WebhookTypeOK'
    BY <1>10, <2>1, PollerKeepsWebhook DEF ReportFails
  <2>3. reports' \in [Jobs -> Results \cup {NoReport}]
    BY <1>10 DEF ReportFails, Record, TypeOK
  <2>4. /\ queue' \in Seq(filed') /\ poll' \in {"sleep", "execute"}
        /\ queue' # <<>> <=> poll' \in {"execute", "report"}
    BY <1>10, HeadOfQueue DEF ReportFails, NextJob
  <2>5. QED BY <1>10, <2>2, <2>3, <2>4 DEF ReportFails, TypeOK, terminal
<1>11. QED
  BY <1>2, <1>3, <1>4, <1>5, <1>6, <1>7, <1>8, <1>9, <1>10 DEF PollerStep

LEMMA NextTyped ==
  ASSUME TypeOK, [Next]_vars
  PROVE  TypeOK'
<1>1. CASE WebhookNext /\ UNCHANGED jobVars
  BY <1>1, WebhookTyped DEF TypeOK, jobVars, poller, terminal
<1>2. ASSUME NEW j \in Jobs, File(j) PROVE TypeOK'
  <2>1. WebhookTypeOK'
    BY <1>2, PollerKeepsWebhook DEF File, TypeOK, WebhookTypeOK, hrms
  <2>2. queue' \in Seq(filed')
    BY <1>2 DEF File, poller, TypeOK
  <2>3. QED BY <1>2, <2>1, <2>2 DEF File, TypeOK, poller, terminal
<1>3. CASE PollerStep
  BY <1>3, PollerTyped
<1>4. CASE Restart
  <2>1. WebhookTypeOK'
    BY <1>4, DiesTyped DEF Restart, TypeOK
  <2>2. restarts' \in 0..MaxRestarts
    BY <1>4, PollerAssumption DEF Restart, TypeOK
  <2>3. QED BY <1>4, <2>1, <2>2 DEF Restart, TypeOK, terminal
<1>5. CASE UNCHANGED vars
  BY <1>5 DEF TypeOK, WebhookTypeOK, vars, webhook, call, request, hrms, jobVars, poller,
              terminal
<1>6. QED BY <1>1, <1>2, <1>3, <1>4, <1>5 DEF Next

LEMMA InitTyped ==
  ASSUME Init
  PROVE  TypeOK
<1>1. WebhookTypeOK
  <2>1. attempt \in 1..(MaxRetries + 1) /\ faults \in 0..MaxFaults
    BY ClientAssumption DEF Init, WebhookInit
  <2>2. QED BY <2>1, ClientAssumption DEF Init, WebhookInit, WebhookTypeOK
<1>2. QED BY <1>1, PollerAssumption DEF Init, TypeOK

\* Every reachable state of the webhook and of the poller is well typed, and the
\* poller has a list exactly while it works on one (poll_once).
THEOREM JobsTypeCorrect == Spec => []TypeOK
<1>1. Init => TypeOK
  BY InitTyped
<1>2. TypeOK /\ [Next]_vars => TypeOK'
  BY NextTyped
<1>3. QED BY <1>1, <1>2, PTL DEF Spec

-----------------------------------------------------------------------------
\* What HRMS has been told.

\* A result of job j that is no lie.
True(j, r) ==
  /\ r = Ok => kind[j] = "push" /\ j \in written
  /\ r \in {Templates(t) : t \in Jobs \cup {0}} =>
       kind[j] = "pull" /\ r.templates \in written \cup {0}

\* ReportIsTrue, of a result that is not reported yet, too; and HRMS has a report
\* of no job of the list, where each job is once.
PollInv ==
  /\ \A j \in Jobs : True(j, reports[j])
  /\ poll = "report" => True(Head(queue), result)
  /\ template \in written \cup {0}
  /\ \A a \in DOMAIN queue : reports[queue[a]] = NoReport
  /\ \A a, b \in DOMAIN queue : a # b => queue[a] # queue[b]

\* The results are told apart.
LEMMA ResultsDiffer ==
  /\ Ok \notin {Templates(t) : t \in Jobs \cup {0}}
  /\ Failed # Ok /\ Failed \notin {Templates(t) : t \in Jobs \cup {0}}
  /\ NoReport # Ok /\ NoReport # Failed /\ NoReport \notin {Templates(t) : t \in Jobs \cup {0}}
<1>1. \A t \in Jobs \cup {0} : Templates(t) # Ok /\ Templates(t) # Failed
  BY NoReportAssumption DEF Ok, Failed, Templates
<1>2. Failed # Ok
  BY DEF Ok, Failed
<1>3. NoReport # Ok /\ NoReport # Failed /\ NoReport \notin {Templates(t) : t \in Jobs \cup {0}}
  BY NoReportAssumption DEF Results
<1>4. QED BY <1>1, <1>2, <1>3

\* What was true stays true: the terminal forgets no write.
LEMMA TrueStays ==
  ASSUME NEW j, NEW r, True(j, r), kind' = kind, written \subseteq written'
  PROVE  True(j, r)'
BY DEF True

\* The list behind its first job.
LEMMA TailOfQueue ==
  ASSUME TypeOK, PollInv, poll \in {"execute", "report"}, queue' = Tail(queue)
  PROVE  /\ \A a \in DOMAIN queue' : a + 1 \in DOMAIN queue /\ queue'[a] = queue[a + 1]
         /\ \A a \in DOMAIN queue' : queue'[a] # Head(queue)
         /\ \A a, b \in DOMAIN queue' : a # b => queue'[a] # queue'[b]
<1>1. queue \in Seq(filed) /\ queue # <<>> /\ Head(queue) = queue[1]
  BY HeadOfQueue DEF TypeOK
<1>2. \A a \in DOMAIN queue' : a \in Nat \ {0} /\ a + 1 \in DOMAIN queue /\ queue'[a] = queue[a + 1]
  BY <1>1
<1>3. 1 \in DOMAIN queue /\ \A a \in DOMAIN queue' : a + 1 # 1
  BY <1>1, <1>2
<1>4. \A a \in DOMAIN queue' : queue'[a] # Head(queue)
  BY <1>1, <1>2, <1>3 DEF PollInv
<1>5. ASSUME NEW a \in DOMAIN queue', NEW b \in DOMAIN queue', a # b
      PROVE  queue'[a] # queue'[b]
  <2>1. a + 1 # b + 1
    BY <1>2, <1>5
  <2>2. QED BY <1>2, <2>1 DEF PollInv
<1>6. QED BY <1>2, <1>4, <1>5

\* The first job was executed, with a result that is no lie.
LEMMA ExecutedKeeps ==
  ASSUME TypeOK, PollInv, poll = "execute", NEW r, Executed(r),
         written \subseteq written', template' \in written' \cup {0},
         True(Head(queue), r)'
  PROVE  PollInv'
<1>1. \A j \in Jobs : True(j, reports[j])'
  BY TrueStays DEF PollInv, Executed, True
<1>2. True(Head(queue), result)'
  BY DEF Executed, True
<1>3. QED BY <1>1, <1>2 DEF PollInv, Executed

\* The first job was reported, or not.
LEMMA ReportedKeeps ==
  ASSUME TypeOK, PollInv, poll = "report", Record \/ UNCHANGED reports, NextJob,
         UNCHANGED <<kind, terminal>>
  PROVE  PollInv'
<1>1. Head(queue) \in Jobs /\ reports \in [Jobs -> Results \cup {NoReport}]
  BY HeadOfQueue DEF TypeOK
<1>2. \A j \in Jobs : reports'[j] = reports[j] \/ (j = Head(queue) /\ reports'[j] = result)
  BY <1>1 DEF Record
<1>3. \A j \in Jobs : True(j, reports[j])'
  BY <1>2 DEF PollInv, True, terminal
<1>4. poll' # "report"
  BY DEF NextJob
<1>5. ASSUME NEW a \in DOMAIN queue'
      PROVE  reports'[queue'[a]] = NoReport
  <2>1. a + 1 \in DOMAIN queue /\ queue'[a] = queue[a + 1] /\ queue'[a] # Head(queue)
    BY TailOfQueue DEF NextJob
  <2>2. queue'[a] \in Jobs
    BY <2>1 DEF TypeOK
  <2>3. QED BY <1>1, <2>1, <2>2 DEF PollInv, Record
<1>6. \A a, b \in DOMAIN queue' : a # b => queue'[a] # queue'[b]
  BY TailOfQueue DEF NextJob
<1>7. QED BY <1>3, <1>4, <1>5, <1>6 DEF PollInv, terminal

LEMMA PollStepKeeps ==
  ASSUME TypeOK, PollInv, PollerStep
  PROVE  PollInv'
<1>1. CASE FetchNothing
  BY <1>1 DEF FetchNothing, jobVars, poller, terminal, PollInv, True
<1>2. CASE Fetch
  <2>1. /\ queue' \in Seq(Pending)
        /\ \A a, b \in DOMAIN queue' : a # b => queue'[a] # queue'[b]
    BY <1>2, ListingsAre DEF Fetch
  <2>2. \A a \in DOMAIN queue' : reports'[queue'[a]] = NoReport
    BY <1>2, <2>1 DEF Fetch, Pending
  <2>3. poll' # "report"
    BY <1>2 DEF Fetch
  <2>4. (\A j \in Jobs : True(j, reports[j]))' /\ (template \in written \cup {0})'
    BY <1>2 DEF Fetch, PollInv, True, terminal
  <2>5. QED BY <2>1, <2>2, <2>3, <2>4 DEF PollInv
<1>3. CASE ExecuteRefused
  <2>1. Executed(Failed) /\ poll = "execute" /\ UNCHANGED terminal
    BY <1>3 DEF ExecuteRefused
  <2>2. True(Head(queue), Failed)'
    BY ResultsDiffer DEF True
  <2>3. written' = written /\ template' = template
    BY <2>1 DEF terminal
  <2>4. QED BY <2>1, <2>2, <2>3, ExecutedKeeps DEF PollInv
<1>4. CASE ExecuteFails
  <2>1. Executed(Failed) /\ poll = "execute"
    BY <1>4 DEF ExecuteFails
  <2>2. True(Head(queue), Failed)'
    BY ResultsDiffer DEF True
  <2>3. written \subseteq written' /\ template' \in written' \cup {0}
    BY <1>4 DEF ExecuteFails, Write, terminal, PollInv
  <2>4. QED BY <2>1, <2>2, <2>3, ExecutedKeeps
<1>5. CASE ExecutePull
  <2>1. Executed(Templates(template)) /\ poll = "execute" /\ UNCHANGED terminal
    BY <1>5 DEF ExecutePull
  <2>2. written' = written /\ template' = template
    BY <2>1 DEF terminal
  <2>3. /\ kind'[Head(queue')] = "pull" /\ Templates(template).templates = template
        /\ template \in Jobs \cup {0} /\ template \in written \cup {0}
    BY <1>5, <2>1 DEF ExecutePull, Executed, Templates, TypeOK, PollInv
  <2>4. /\ \A j \in Jobs : True(j, reports[j])'
        /\ True(Head(queue), result)'
    <3>1. \A j \in Jobs : True(j, reports[j])'
      BY <2>1, <2>2 DEF PollInv, True, Executed
    <3>2. result' = Templates(template)
      BY <2>1 DEF Executed
    <3>3. result' # Ok
      BY <2>3, <3>2, ResultsDiffer
    <3>4. QED BY <2>2, <2>3, <3>1, <3>2, <3>3 DEF True
  <2>5. QED BY <2>1, <2>2, <2>4 DEF PollInv, Executed
<1>6. CASE ExecutePush
  <2>1. Executed(Ok) /\ poll = "execute" /\ Write(Head(queue))
    BY <1>6 DEF ExecutePush
  <2>2. written \subseteq written' /\ template' \in written' \cup {0}
    BY <2>1 DEF Write
  <2>3. kind'[Head(queue')] = "push" /\ Head(queue') \in written'
    BY <1>6, <2>1 DEF ExecutePush, Executed, Write
  <2>4. True(Head(queue), Ok)'
    BY <2>3, ResultsDiffer DEF True
  <2>5. QED BY <2>1, <2>2, <2>4, ExecutedKeeps
<1>7. CASE ExecutePanics
  <2>1. DOMAIN queue' = {} /\ poll' # "report"
    <3>1. queue' = <<>> /\ poll' # "report"
      BY <1>7 DEF ExecutePanics
    <3>2. QED BY <3>1
  <2>2. UNCHANGED <<kind, reports, template, written>>
    BY <1>7 DEF ExecutePanics, terminal
  <2>3. QED BY <2>1, <2>2 DEF PollInv, True
<1>8. CASE Report
  BY <1>8, ReportedKeeps DEF Report
<1>9. CASE ReportFails
  BY <1>9, ReportedKeeps DEF ReportFails
<1>10. QED
  BY <1>1, <1>2, <1>3, <1>4, <1>5, <1>6, <1>7, <1>8, <1>9 DEF PollerStep

LEMMA PollInvKept ==
  ASSUME TypeOK, PollInv, [Next]_vars
  PROVE  PollInv'
<1>1. CASE UNCHANGED jobVars
  BY <1>1 DEF jobVars, poller, terminal, PollInv, True
<1>2. ASSUME NEW j \in Jobs, File(j) PROVE PollInv'
  BY <1>2 DEF File, poller, terminal, PollInv, True
<1>3. CASE PollerStep
  BY <1>3, PollStepKeeps
<1>4. CASE Restart
  <2>1. DOMAIN queue' = {} /\ poll' # "report"
    <3>1. queue' = <<>> /\ poll' # "report"
      BY <1>4 DEF Restart
    <3>2. QED BY <3>1
  <2>2. UNCHANGED <<kind, reports, template, written>>
    BY <1>4 DEF Restart, terminal
  <2>3. QED BY <2>1, <2>2 DEF PollInv, True
<1>5. QED BY <1>1, <1>2, <1>3, <1>4 DEF Next, vars

LEMMA PollInvStarts ==
  ASSUME Init
  PROVE  PollInv
<1>1. \A j \in Jobs : True(j, reports[j])
  BY ResultsDiffer DEF Init, True
<1>2. QED BY <1>1 DEF Init, PollInv

LEMMA PollInvAlways == Spec => [](TypeOK /\ PollInv)
<1>1. Init => TypeOK /\ PollInv
  BY InitTyped, PollInvStarts
<1>2. TypeOK /\ PollInv /\ [Next]_vars => (TypeOK /\ PollInv)'
  BY NextTyped, PollInvKept
<1>3. QED BY <1>1, <1>2, PTL DEF Spec

\* What HRMS is told of a job is true, whatever fails or dies on the way: a push it
\* has as done was stored by the terminal, and the templates of a pull were held by
\* it (poll_once, execute_job, complete_job).
THEOREM ReportsAlwaysTrue == Spec => []ReportIsTrue
<1>1. PollInv => ReportIsTrue
  BY DEF PollInv, True, ReportIsTrue
<1>2. QED BY <1>1, PollInvAlways, PTL

\* A job that HRMS has a report of is never executed again: every list is of jobs
\* without a report, names each one once, and no report comes in from elsewhere.
THEOREM NeverRerun == Spec => NoRerun
<1>1. TypeOK /\ PollInv /\ [Next]_vars =>
        [poll = "execute" /\ poll' = "report" => reports[Head(queue)] = NoReport]_vars
  <2>1. SUFFICES ASSUME TypeOK, PollInv, poll = "execute"
                 PROVE  reports[Head(queue)] = NoReport
    OBVIOUS
  <2>2. Head(queue) = queue[1] /\ 1 \in DOMAIN queue
    BY <2>1, HeadOfQueue DEF TypeOK
  <2>3. QED BY <2>1, <2>2 DEF PollInv
<1>2. QED BY <1>1, PollInvAlways, PTL DEF Spec, NoRerun

-----------------------------------------------------------------------------
\* What a call of forward_events does.

\* An accepted chunk is at HRMS, and so are the ones before it.
SentInv ==
  /\ answer = "running" /\ fate = "accepted" => Chunk \subseteq stored
  /\ 1..sent \subseteq stored
  /\ answer = "ok" => sent = total

\* A step that leaves a call as it is.
LEMMA SentInvIdle ==
  ASSUME SentInv, UNCHANGED webhook
  PROVE  SentInv'
BY DEF SentInv, webhook, call, request, Chunk, ChunkEnd

LEMMA SentInvKept ==
  ASSUME TypeOK, SentInv, [Next]_vars
  PROVE  SentInv'
<1> WebhookTypeOK
  BY DEF TypeOK
<1>1. CASE ForwardEvents
  <2>1. 1..0 = {}
    OBVIOUS
  <2>2. fate' # "accepted" /\ 1..sent' \subseteq stored'
    BY <1>1, <2>1 DEF ForwardEvents
  <2>3. answer' = "ok" => sent' = total'
    BY <1>1 DEF ForwardEvents
  <2>4. QED BY <2>2, <2>3 DEF SentInv
<1>2. CASE Post
  <2>1. /\ UNCHANGED <<total, sent, answer>> /\ answer = "running"
        /\ stored \subseteq stored'
        /\ fate' = "accepted" => Chunk \subseteq stored'
    BY <1>2 DEF Post, MustKeep, MayKeep
  <2>2. Chunk' = Chunk
    BY <2>1 DEF Chunk, ChunkEnd
  <2>3. QED BY <2>1, <2>2 DEF SentInv
<1>3. CASE Accepted
  <2>1. /\ answer = "running" /\ sent' = ChunkEnd /\ stored' = stored
        /\ fate = "accepted" /\ fate' = "unsent"
        /\ total' = total
        /\ answer' = "ok" => sent' = total
    BY <1>3 DEF Accepted
  <2>2. 1..ChunkEnd \subseteq (1..sent) \cup Chunk
    BY <2>1, ChunkBounds DEF Chunk
  <2>3. QED BY <2>1, <2>2 DEF SentInv
<1>4. CASE Retry
  BY <1>4 DEF Retry, call, SentInv
<1>5. CASE GiveUp
  BY <1>5 DEF GiveUp, SentInv
<1>6. CASE Restart
  <2>1. 1..0 = {}
    OBVIOUS
  <2>2. sent' = 0 /\ answer' = "none"
    BY <1>6 DEF Restart, WebhookDies
  <2>3. QED BY <2>1, <2>2 DEF SentInv
<1>7. CASE PollerStep
  <2>1. UNCHANGED webhook
    BY <1>7 DEF PollerStep, FetchNothing, Fetch, ExecuteRefused, ExecuteFails, ExecutePull,
                ExecutePush, ExecutePanics, Executed, Report, ReportFails
  <2>2. QED BY <2>1, SentInvIdle
<1>8. ASSUME NEW j \in Jobs, File(j) PROVE SentInv'
  BY <1>8, SentInvIdle DEF File
<1>9. CASE UNCHANGED vars
  BY <1>9, SentInvIdle DEF vars
<1>10. QED
  BY <1>1, <1>2, <1>3, <1>4, <1>5, <1>6, <1>7, <1>8, <1>9 DEF Next, WebhookNext, WebhookStep

LEMMA SentInvStarts ==
  ASSUME Init
  PROVE  SentInv
<1>1. 1..0 = {}
  OBVIOUS
<1>2. QED BY <1>1 DEF Init, WebhookInit, SentInv

LEMMA SentInvAlways == Spec => [](TypeOK /\ SentInv)
<1>1. Init => TypeOK /\ SentInv
  BY InitTyped, SentInvStarts
<1>2. TypeOK /\ SentInv /\ [Next]_vars => (TypeOK /\ SentInv)'
  BY NextTyped, SentInvKept
<1>3. QED BY <1>1, <1>2, PTL DEF Spec

\* When forward_events returns Ok, HRMS has every event of the call: this is what
\* sync_with_client relies on when it goes on to the clear.
OkIsDelivered == answer = "ok" => 1..total \subseteq stored

THEOREM OkAlwaysDelivered == Spec => []OkIsDelivered
<1>1. SentInv => OkIsDelivered
  BY DEF SentInv, OkIsDelivered
<1>2. QED BY <1>1, SentInvAlways, PTL

-----------------------------------------------------------------------------
\* The refinement: what a chunk's requests go through is hidden.

LEMMA SameChunk == Forwarding!Chunk = Chunk /\ Forwarding!ChunkEnd = ChunkEnd
BY DEF Forwarding!Chunk, Forwarding!ChunkEnd, Chunk, ChunkEnd

LEMMA StepForwards ==
  ASSUME TypeOK, SentInv, [Next]_vars
  PROVE  [Forwarding!Next]_(Forwarding!forward)
<1>1. CASE ForwardEvents
  BY <1>1 DEF ForwardEvents, Forwarding!Next, Forwarding!Call
<1>2. CASE Post
  <2>1. CASE stored' = stored
    BY <1>2, <2>1 DEF Post, Forwarding!forward
  <2>2. CASE stored' = stored \cup Chunk
    BY <1>2, <2>2, SameChunk DEF Post, Forwarding!Next, Forwarding!Deliver
  <2>3. QED BY <1>2, <2>1, <2>2 DEF Post
<1>3. CASE Accepted
  <2>1. Chunk \subseteq stored
    BY <1>3 DEF Accepted, SentInv
  <2>2. QED BY <1>3, <2>1, SameChunk DEF Accepted, Forwarding!Next, Forwarding!Accept
<1>4. CASE Retry
  BY <1>4 DEF Retry, call, Forwarding!forward
<1>5. CASE GiveUp
  BY <1>5 DEF GiveUp, Forwarding!Next, Forwarding!Fail
<1>6. CASE Restart
  BY <1>6 DEF Restart, WebhookDies, Forwarding!Next, Forwarding!Die
<1>7. CASE UNCHANGED webhook
  BY <1>7 DEF webhook, call, Forwarding!forward
<1>8. PollerStep => UNCHANGED webhook
  BY DEF PollerStep, FetchNothing, Fetch, ExecuteRefused, ExecuteFails, ExecutePull,
         ExecutePush, ExecutePanics, Executed, Report, ReportFails
<1>9. ASSUME NEW j \in Jobs, File(j) PROVE UNCHANGED webhook
  BY <1>9 DEF File
<1>10. QED
  BY <1>1, <1>2, <1>3, <1>4, <1>5, <1>6, <1>7, <1>8, <1>9
     DEF Next, WebhookNext, WebhookStep, vars

\* forward_events, with its retries, lost answers and deaths, implements what a
\* sync may rely on: chunks in order, each one delivered before the next is sent,
\* and no success before the last.
THEOREM ClientImplementsForward == Spec => ImplementsForward
<1>1. Init => Forwarding!Init
  BY DEF Init, WebhookInit, Forwarding!Init
<1>2. TypeOK /\ SentInv /\ [Next]_vars => [Forwarding!Next]_(Forwarding!forward)
  BY StepForwards
<1>3. QED
  BY <1>1, <1>2, SentInvAlways, PTL DEF Spec, ImplementsForward, Forwarding!Spec
=============================================================================
