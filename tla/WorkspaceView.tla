--------------------------- MODULE WorkspaceView ---------------------------
(***************************************************************************)
(* What reconciliation promises: the overlay is a view of the project      *)
(* outputs.  Whenever it is replaced, it shows every project as it is      *)
(* published in that very step; the one exception is a project that has    *)
(* had no index so far, which may be missing until the next time.  What is *)
(* published never goes back to older sources.                             *)
(***************************************************************************)
EXTENDS Integers

CONSTANT Projects

VARIABLES
    base,   \* base[q]: source version published for project q, 0 if none
    view    \* view[q]: source version of project q in the overlay, 0 if none

Init == base = [q \in Projects |-> 0] /\ view = base

Grows == \A q \in Projects : base'[q] >= base[q]

PublishProject == Grows /\ UNCHANGED view

Reconcile == /\ Grows
             /\ \A q \in Projects : view'[q] = base'[q] \/ (view[q] = 0 /\ view'[q] = 0)

Spec == Init /\ [][PublishProject \/ Reconcile]_<<base, view>>

=============================================================================
