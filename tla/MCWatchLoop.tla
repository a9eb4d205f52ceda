---------------------------- MODULE MCWatchLoop ----------------------------
(* Small instances of WatchLoop for TLC. *)
EXTENDS WatchLoopProperties
=============================================================================
