----------------------------- MODULE MCRunLock -----------------------------
(* Small instances of RunLock, with the history of RunLockWindows, for TLC. *)
EXTENDS RunLockWindows, TLC

CONSTANTS w1, w2

TwoWorkers == {w1, w2}
OnlyFirst == {w1}
=============================================================================
