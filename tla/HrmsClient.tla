------------------------------ MODULE HrmsClient ------------------------------
(***************************************************************************)
(* src/adapters/hrms_reqwest.rs, the webhook: forward_events cuts a list   *)
(* of events into chunks and posts each one, up to 1 + MaxRetries times.   *)
(* HRMS is external: it keeps a chunk that it answers 2xx for.             *)
(* The events of a call are 1..total, in time order; a later call sends    *)
(* them again, as a sync whose upload failed does.                         *)
(***************************************************************************)
EXTENDS Naturals, Sequences

CONSTANTS
  BatchSize,    \* BATCH_SIZE
  MaxRetries,   \* MAX_RETRIES
  MaxEvents,    \* bound: the events of one call
  MaxFaults,    \* bound: the requests of any kind that HRMS fails
  MaxCount,     \* bound: the count of an answer, any 64-bit number in the code
  OrgZones,     \* the values of orgTimezone
  NoZone        \* not one of them

ASSUME ClientAssumption ==
  /\ BatchSize \in Nat \ {0} /\ MaxEvents \in Nat
  /\ MaxRetries \in Nat /\ MaxFaults \in Nat /\ MaxCount \in Nat
  /\ NoZone \notin OrgZones

VARIABLES
  total, sent, stored, answer,  \* as in BatchForward
  attempt,   \* which try of the chunk this is, from 1
  fate,      \* what became of the request: see Fates, or "unsent"
  received,  \* the sum of the counts HRMS gave
  zone,      \* the last orgTimezone of the call
  faults,    \* the number of requests HRMS has failed
  down       \* whether HRMS cannot be reached, for good

call == <<total, sent, stored, answer, received, zone>>
request == <<attempt, fate>>
webhook == <<call, request>>
hrms == <<faults, down>>

\* Lost on the way; stored, but the answer lost; 429 or 5xx; another status;
\* 2xx whose body is no JSON; 2xx.
Transient == {"lost", "unanswered", "busy"}
Final == {"refused", "garbled"}
Fates == Transient \cup Final \cup {"accepted"}
\* The fates after which HRMS may, and those after which it does hold the chunk.
MayKeep == {"unanswered", "busy", "garbled", "accepted"}
MustKeep == {"unanswered", "garbled", "accepted"}

ChunkEnd == IF sent + BatchSize < total THEN sent + BatchSize ELSE total
Chunk == (sent + 1)..ChunkEnd

WebhookInit ==
  /\ total = 0 /\ sent = 0 /\ stored = {} /\ answer = "none"
  /\ attempt = 1 /\ fate = "unsent"
  /\ received = 0 /\ zone = NoZone
  /\ faults = 0 /\ down \in BOOLEAN

\* A sync calls with what it pulled; no events are answered at once.
ForwardEvents ==
  /\ answer # "running"
  /\ total' \in 0..MaxEvents
  /\ answer' = IF total' = 0 THEN "ok" ELSE "running"
  /\ sent' = 0 /\ received' = 0 /\ zone' = NoZone
  /\ attempt' = 1 /\ fate' = "unsent"
  /\ UNCHANGED <<stored, hrms>>

\* Whether a request may succeed, be lost in the outage, or fail otherwise.
Faulty(ok, lost) ==
  \/ down /\ lost /\ UNCHANGED faults
  \/ ~down /\ ok /\ UNCHANGED faults
  \/ ~down /\ ~ok /\ faults < MaxFaults /\ faults' = faults + 1

\* One request of post_once, and what HRMS and the network make of it.
Post ==
  /\ answer = "running" /\ fate = "unsent"
  /\ \E f \in Fates :
       /\ Faulty(f = "accepted", f = "lost")
       /\ fate' = f
       /\ \/ f \in MayKeep /\ stored' = stored \cup Chunk
          \/ f \notin MustKeep /\ UNCHANGED stored
  /\ UNCHANGED <<total, sent, answer, received, zone, attempt, down>>

\* parse_received takes the count of the answer whatever it is, or the chunk's
\* length if it gives none, and nothing compares the two; parse_org_timezone keeps the earlier zone if it gives none.
Accepted ==
  /\ answer = "running" /\ fate = "accepted"
  /\ sent' = ChunkEnd
  /\ \E count \in 0..MaxCount : received' = received + count
  /\ zone' \in {zone} \cup OrgZones
  /\ answer' = IF sent' = total THEN "ok" ELSE "running"
  /\ attempt' = 1 /\ fate' = "unsent"
  /\ UNCHANGED <<total, stored, hrms>>

\* Mutant: the first try counts as retry 0, so there is one retry too many.
RetryOnceMore ==
  /\ answer = "running"
  /\ fate \in Transient /\ attempt <= MaxRetries + 1
  /\ attempt' = attempt + 1
  /\ fate' = "unsent"
  /\ UNCHANGED <<call, hrms>>

\* Mutant: the retries are not counted.
RetryForever ==
  /\ answer = "running"
  /\ fate \in Transient
  /\ fate' = "unsent"
  /\ UNCHANGED <<call, attempt, hrms>>

\* A retryable failure, then the sleep of the backoff.
Retry ==
  /\ answer = "running"
  /\ fate \in Transient /\ attempt <= MaxRetries
  /\ attempt' = attempt + 1
  /\ fate' = "unsent"
  /\ UNCHANGED <<call, hrms>>

\* Mutant: the failure of one chunk does not end the call.
GiveUpChunk ==
  /\ answer = "running"
  /\ fate \in Final \/ (fate \in Transient /\ attempt > MaxRetries)
  /\ sent' = ChunkEnd
  /\ answer' = IF sent' = total THEN "ok" ELSE "running"
  /\ attempt' = 1 /\ fate' = "unsent"
  /\ UNCHANGED <<total, stored, received, zone, hrms>>

\* The error ends forward_events: the chunks behind are not sent.
GiveUp ==
  /\ answer = "running"
  /\ fate \in Final \/ (fate \in Transient /\ attempt > MaxRetries)
  /\ answer' = "failed"
  /\ attempt' = 1 /\ fate' = "unsent"
  /\ UNCHANGED <<total, sent, stored, received, zone, hrms>>

\* The process dies with the call; HRMS keeps what it has.
WebhookDies ==
  /\ total' = 0 /\ sent' = 0 /\ answer' = "none"
  /\ received' = 0 /\ zone' = NoZone
  /\ attempt' = 1 /\ fate' = "unsent"
  /\ UNCHANGED stored

WebhookStep == Post \/ Accepted \/ Retry \/ GiveUp
WebhookNext == ForwardEvents \/ WebhookStep

-----------------------------------------------------------------------------
\* Type invariant of the webhook's state.
WebhookTypeOK ==
  /\ total \in 0..MaxEvents /\ sent \in 0..total
  /\ stored \subseteq 1..MaxEvents
  /\ answer \in {"none", "running", "ok", "failed"}
  /\ answer = "running" => sent < total
  /\ attempt \in 1..(MaxRetries + 1)
  /\ fate \in Fates \cup {"unsent"}
  /\ answer # "running" => fate = "unsent"
  /\ received \in Nat
  /\ zone \in OrgZones \cup {NoZone}
  /\ faults \in 0..MaxFaults /\ down \in BOOLEAN
=============================================================================
