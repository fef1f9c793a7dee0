----------------------------- MODULE BatchForward -----------------------------
(***************************************************************************)
(* What a sync and the SenseFace forwarder may rely on when they call      *)
(* forward_events: the events go out in order, a chunk at a time, "ok" is  *)
(* answered only once HRMS has every one of them, and a call that fails or *)
(* dies has delivered a prefix of them, and perhaps the chunk it was at.   *)
(***************************************************************************)
EXTENDS Naturals

CONSTANTS
  BatchSize,  \* BATCH_SIZE: the events of one request
  MaxEvents   \* bound: the events of one call

VARIABLES
  total,   \* the events of the call are 1..total
  sent,    \* the first ones that HRMS has accepted in this call
  stored,  \* the events HRMS has
  answer   \* "none", "running", "ok" or "failed"

forward == <<total, sent, stored, answer>>

\* The next of events.chunks(BATCH_SIZE).
ChunkEnd == IF sent + BatchSize < total THEN sent + BatchSize ELSE total
Chunk == (sent + 1)..ChunkEnd

Init == total = 0 /\ sent = 0 /\ stored = {} /\ answer = "none"

Call ==
  /\ answer # "running"
  /\ total' \in 0..MaxEvents
  /\ sent' = 0
  /\ answer' = IF total' = 0 THEN "ok" ELSE "running"
  /\ UNCHANGED stored

Deliver ==
  /\ answer = "running"
  /\ stored' = stored \cup Chunk
  /\ UNCHANGED <<total, sent, answer>>

Accept ==
  /\ answer = "running"
  /\ Chunk \subseteq stored
  /\ sent' = ChunkEnd
  /\ answer' = IF sent' = total THEN "ok" ELSE "running"
  /\ UNCHANGED <<total, stored>>

Fail ==
  /\ answer = "running"
  /\ answer' = "failed"
  /\ UNCHANGED <<total, sent, stored>>

\* The process dies; the next one knows nothing of the call.
Die ==
  /\ total' = 0 /\ sent' = 0 /\ answer' = "none"
  /\ UNCHANGED stored

Next == Call \/ Deliver \/ Accept \/ Fail \/ Die

Spec == Init /\ [][Next]_forward
=============================================================================
