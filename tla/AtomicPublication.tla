-------------------------- MODULE AtomicPublication --------------------------
(***************************************************************************)
(* What internal/outputstore promises its callers (store.go, UpdateMany    *)
(* and WithReads): a publication replaces the outputs of all its roots in  *)
(* one step or not at all, outputs never go back to an older generation,   *)
(* and a reader sees all its roots as they were at one moment.  Crashes,   *)
(* rollback and recovery are invisible at this level.                      *)
(***************************************************************************)
EXTENDS Naturals

CONSTANTS
    Procs,
    Roots,
    Gens,         \* generations that transactions may publish
    Absent,       \* a root without an output
    UpdateSets,   \* the sets of roots published together
    ReadSets      \* the sets of roots read together

VARIABLES
    published,    \* published[r]: the generation a reader of r would see
    view          \* view[p]: what the read p is finishing saw, or <<>>

vars == <<published, view>>

Init ==
    /\ published \in [Roots -> {0, Absent}]
    /\ view = [p \in Procs |-> <<>>]

Publish(S, g) ==
    /\ \A r \in S : published[r] # Absent => published[r] < g
    /\ published' = [r \in Roots |-> IF r \in S THEN g ELSE published[r]]
    /\ UNCHANGED view

Look(p, S) ==
    /\ view' = [view EXCEPT ![p] = [r \in S |-> published[r]]]
    /\ UNCHANGED published

Forget(p) ==
    /\ view' = [view EXCEPT ![p] = <<>>]
    /\ UNCHANGED published

Next ==
    \/ \E S \in UpdateSets, g \in Gens : Publish(S, g)
    \/ \E p \in Procs : Forget(p) \/ \E S \in ReadSets : Look(p, S)

Spec == Init /\ [][Next]_vars

=============================================================================
