---------------------------- MODULE MCDeviceSync ----------------------------
(***************************************************************************)
(* Small instances of DeviceSync for TLC.  Of the records, the first two   *)
(* are one employee's on one day, the third is another's.                  *)
(***************************************************************************)
EXTENDS DeviceSync, TLC

CONSTANTS w1, w2, q1, i1, i2, org, blank

OneProcess == [t \in Threads |-> i1]
TwoProcesses == [t \in Threads |-> IF t = w2 THEN i2 ELSE i1]

TwoDays == [z \in Zones |-> [p \in Punches |-> IF p <= 2 THEN 1 ELSE 2]]

\* The workers of one process are alike where no fairness tells them apart.
WorkerSymmetry == Permutations({w1, w2})
=============================================================================
