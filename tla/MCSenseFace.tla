----------------------------- MODULE MCSenseFace -----------------------------
(***************************************************************************)
(* Small instances of SenseFace for TLC: terminal 1 and terminal 2.        *)
(***************************************************************************)
EXTENDS SenseFace, TLC

CONSTANTS h1, h2, a, b, c

\* Line b is one that both terminals send, say for a visitor's number.
SharedLine == (1 :> {a, b}) @@ (2 :> {b, c})

\* Terminal 1, refused, has as many records as a cycle takes.
OwnLines == (1 :> {a, b}) @@ (2 :> {c})

\* The records whose insert may fail: one of a line that the other terminal
\* sends too, and the one record of the terminal that is not refused.
SharedUnsavable == {<<1, b>>}
OwnUnsavable == {<<2, c>>}

HandlerSymmetry == Permutations({h1, h2})
=============================================================================
