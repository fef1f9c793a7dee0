------------------------------ MODULE JobPoller ------------------------------
(***************************************************************************)
(* What one process does with HRMS: its syncs post events (HrmsClient) and *)
(* the thread of src/runtime/job_poller.rs fetches jobs, executes them on  *)
(* the terminals and reports each one back.  The process may die and start *)
(* again at any step, which loses the list of jobs the poller was at.      *)
(*                                                                         *)
(* HRMS is external: it lists a job until it has a report of it.  So is    *)
(* the terminal, of which only the one user matters that the jobs are      *)
(* about: whose job wrote its template last.                               *)
(***************************************************************************)
EXTENDS HrmsClient, FiniteSets

CONSTANTS
  Jobs,        \* the jobs, numbered as HRMS files them
  JobKinds,    \* the assignments of kinds to the jobs, see Kinds
  NoReport,    \* not a result
  MaxRestarts  \* bound: the deaths of the process

\* A PULL_TEMPLATES; a PUSH_USER with a payload that decodes; a job of another
\* type, for another device or with a payload that is absent, of another shape
\* or no base64; one of which the error text has byte 300 inside a character;
\* and one without a field of PendingJob.
Kinds == {"pull", "push", "unfit", "long error", "malformed"}

ASSUME PollerAssumption ==
  /\ Jobs \subseteq Nat \ {0} /\ IsFiniteSet(Jobs)
  /\ JobKinds \subseteq [Jobs -> Kinds]
  /\ MaxRestarts \in Nat

VARIABLES
  kind,      \* the kinds of the jobs
  filed,     \* the jobs filed so far
  reports,   \* the result HRMS has of a job, or NoReport
  poll,      \* the poller: "sleep", "execute", "report" or "dead"
  queue,     \* the jobs of the last fetch that are not done with, in order
  result,    \* what execute_job returned for the first of them
  template,  \* the job that wrote the user's template last, 0 if none
  written,   \* history: the jobs whose template the terminal has stored
  restarts   \* the deaths of the process so far

terminal == <<template, written>>
poller == <<poll, queue, result>>
jobVars == <<kind, filed, reports, poller, terminal, restarts>>
vars == <<webhook, hrms, jobVars>>

Ok == [ok |-> TRUE, templates |-> NoReport]
Failed == [ok |-> FALSE, templates |-> NoReport]
Templates(t) == [ok |-> TRUE, templates |-> t]
Results == {Ok, Failed} \cup {Templates(t) : t \in Jobs \cup {0}}

ASSUME NoReportAssumption == NoReport \notin Results /\ NoReport \notin Jobs \cup {0}

Pending == {j \in filed : reports[j] = NoReport}

Init ==
  /\ WebhookInit
  /\ kind \in JobKinds
  /\ filed = {}
  /\ reports = [j \in Jobs |-> NoReport]
  /\ poll = "sleep" /\ queue = <<>> /\ result = NoReport
  /\ template = 0 /\ written = {}
  /\ restarts = 0

\* Somebody asks HRMS for the next job.
File(j) ==
  /\ j \notin filed /\ \A i \in Jobs : i < j => i \in filed
  /\ filed' = filed \cup {j}
  /\ UNCHANGED <<webhook, hrms, kind, reports, poller, terminal, restarts>>

-----------------------------------------------------------------------------
\* fetch_pending_jobs: one request; parse_jobs_response takes all jobs or none.
Listings ==
  {q \in [1..Cardinality(Pending) -> Pending] :
     \A a, b \in DOMAIN q : a < b => q[a] < q[b]}

\* Nothing pending, an error of the request or a list that does not parse:
\* the thread goes back to sleep.
FetchNothing ==
  /\ poll = "sleep"
  /\ \/ Pending = {} /\ Faulty(TRUE, TRUE)
     \/ \E j \in Pending : kind[j] = "malformed" /\ Faulty(TRUE, TRUE)
     \/ Faulty(FALSE, TRUE)
  /\ UNCHANGED <<webhook, down, jobVars>>

Fetch ==
  /\ poll = "sleep"
  /\ Pending # {} /\ \A j \in Pending : kind[j] # "malformed"
  /\ Faulty(TRUE, FALSE)
  /\ queue' \in Listings
  /\ poll' = "execute"
  /\ UNCHANGED <<webhook, down, kind, filed, reports, result, terminal, restarts>>

\* execute_job returned r for the first job.
Executed(r) ==
  /\ poll' = "report"
  /\ result' = r
  /\ UNCHANGED <<webhook, down, kind, filed, reports, queue, restarts>>

Write(j) == template' = j /\ written' = written \cup {j}

\* What is refused before a connection is made.
ExecuteRefused ==
  /\ poll = "execute" /\ kind[Head(queue)] = "unfit"
  /\ Executed(Failed)
  /\ UNCHANGED <<faults, terminal>>

\* An error of the connection or of a call; a push may have been saved.
ExecuteFails ==
  /\ poll = "execute" /\ kind[Head(queue)] \in {"pull", "push"}
  /\ faults < MaxFaults /\ faults' = faults + 1
  /\ Executed(Failed)
  /\ \/ UNCHANGED terminal
     \/ kind[Head(queue)] = "push" /\ Write(Head(queue))

ExecutePull ==
  /\ poll = "execute" /\ kind[Head(queue)] = "pull"
  /\ Executed(Templates(template))
  /\ UNCHANGED <<faults, terminal>>

\* Mutant: an error of push_user_template is not looked at.
ExecutePushBlindly ==
  /\ poll = "execute" /\ kind[Head(queue)] = "push"
  /\ Executed(Ok)
  /\ UNCHANGED faults
  /\ UNCHANGED terminal \/ Write(Head(queue))

ExecutePush ==
  /\ poll = "execute" /\ kind[Head(queue)] = "push"
  /\ Executed(Ok)
  /\ Write(Head(queue))
  /\ UNCHANGED faults

\* truncate_error cuts inside a character: the thread ends.
ExecutePanics ==
  /\ poll = "execute" /\ kind[Head(queue)] = "long error"
  /\ poll' = "dead" /\ queue' = <<>>
  /\ UNCHANGED <<webhook, hrms, kind, filed, reports, result, terminal, restarts>>

-----------------------------------------------------------------------------
\* The poller goes on with the jobs behind the first one.
NextJob ==
  /\ queue' = Tail(queue)
  /\ poll' = IF Len(queue) = 1 THEN "sleep" ELSE "execute"

Record == reports' = [reports EXCEPT ![Head(queue)] = result]

Report ==
  /\ poll = "report"
  /\ Faulty(TRUE, FALSE)
  /\ Record
  /\ NextJob
  /\ UNCHANGED <<webhook, down, kind, filed, result, terminal, restarts>>

\* Mutant: a job whose report failed is executed again at once.
ReportFailsTryAgain ==
  /\ poll = "report"
  /\ Faulty(FALSE, TRUE)
  /\ Record \/ UNCHANGED reports
  /\ poll' = "execute"
  /\ UNCHANGED <<webhook, down, kind, filed, queue, result, terminal, restarts>>

\* Mutant: an error of complete_job ends the thread.
ReportFailsEnds ==
  /\ poll = "report"
  /\ Faulty(FALSE, TRUE)
  /\ Record \/ UNCHANGED reports
  /\ poll' = "dead" /\ queue' = <<>>
  /\ UNCHANGED <<webhook, down, kind, filed, result, terminal, restarts>>

\* complete_job is tried once; HRMS may have recorded it all the same.  The
\* error is logged: if HRMS has no report, it will list the job again.
ReportFails ==
  /\ poll = "report"
  /\ Faulty(FALSE, TRUE)
  /\ UNCHANGED reports \/ (~down /\ Record)
  /\ NextJob
  /\ UNCHANGED <<webhook, down, kind, filed, result, terminal, restarts>>

\* The process dies and is started again.
Restart ==
  /\ restarts < MaxRestarts
  /\ restarts' = restarts + 1
  /\ WebhookDies
  /\ poll' = "sleep" /\ queue' = <<>> /\ result' = NoReport
  /\ UNCHANGED <<hrms, kind, filed, reports, terminal>>

-----------------------------------------------------------------------------
PollerStep ==
  \/ FetchNothing \/ Fetch
  \/ ExecuteRefused \/ ExecuteFails \/ ExecutePull \/ ExecutePush \/ ExecutePanics
  \/ Report \/ ReportFails

Next ==
  \/ WebhookNext /\ UNCHANGED jobVars
  \/ \E j \in Jobs : File(j)
  \/ PollerStep
  \/ Restart

Spec == Init /\ [][Next]_vars

\* Both threads go on: a request returns within the client's 30 s, a sleep
\* ends.  When a sync calls is left open.
FairSpec ==
  /\ Spec
  /\ WF_vars(WebhookStep /\ UNCHANGED jobVars)
  /\ WF_vars(PollerStep)

-----------------------------------------------------------------------------
\* Type invariant; the poller has a list exactly while it works on one.
TypeOK ==
  /\ WebhookTypeOK
  /\ kind \in JobKinds
  /\ filed \subseteq Jobs
  /\ reports \in [Jobs -> Results \cup {NoReport}]
  /\ poll \in {"sleep", "execute", "report", "dead"}
  /\ queue \in Seq(filed)
  /\ queue # <<>> <=> poll \in {"execute", "report"}
  /\ result \in Results \cup {NoReport}
  /\ template \in Jobs \cup {0} /\ written \subseteq filed
  /\ restarts \in 0..MaxRestarts

\* What HRMS has been told of a job is true: a push that succeeded is one the
\* terminal has stored, and the templates of a pull are ones it has held.
ReportIsTrue ==
  \A j \in Jobs :
    /\ reports[j] = Ok => kind[j] = "push" /\ j \in written
    /\ reports[j] \in {Templates(t) : t \in Jobs \cup {0}} =>
         kind[j] = "pull" /\ reports[j].templates \in written \cup {0}

\* A job HRMS has a report of is never executed again, although the poller
\* may not know that the report arrived.
NoRerun ==
  [][poll = "execute" /\ poll' = "report" => reports[Head(queue)] = NoReport]_vars

\* A job that HRMS lists and no list with which parses: no job is executed.
Unlisted == \E k \in Pending : kind[k] = "malformed"

\* The thread has ended at a job whose error truncate_error fails on.
Ended == poll = "dead" /\ \E k \in Pending : kind[k] = "long error"

\* Every job is reported in the end, whatever fails on the way, if HRMS can be
\* reached; unless a job without a field keeps every list from being read, or the
\* thread ends for good at a job whose error is cut inside a character.
EveryJobAnswered ==
  \A j \in Jobs :
    (~down /\ j \in filed) ~> \/ reports[j] # NoReport
                             \/ []Unlisted
                             \/ []Ended

\* forward_events returns to the sync that holds the device's lock, even if
\* HRMS cannot be reached at all.
CallEnds == answer = "running" ~> answer # "running"

\* post_with_retry, its retries, lost answers and deaths hidden, is
\* BatchForward: "ok" only if HRMS has every event, and in order.
Forwarding == INSTANCE BatchForward
ImplementsForward == Forwarding!Spec
=============================================================================
