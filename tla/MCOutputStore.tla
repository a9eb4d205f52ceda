--------------------------- MODULE MCOutputStore ---------------------------
(* Small instances of OutputStore for TLC. *)
EXTENDS OutputStoreProperties, TLC

CONSTANTS p1, p2

Upd(S) == [kind |-> "update", roots |-> S, required |-> {}]
Rec(S) == [kind |-> "recover", roots |-> S, required |-> {}]
Rd(S) == [kind |-> "read", roots |-> S, required |-> S]
RdDependency(S, Q) == [kind |-> "read", roots |-> S, required |-> Q]

TwoProcs == {p1, p2}
TwoRoots == {1, 2}

\* A workspace update of both outputs beside everything else done with the same
\* set of outputs.
WorkspaceJobs == p1 :> {Upd({1, 2})} @@ p2 :> {Upd({1, 2}), Rec({1, 2}), Rd({1, 2})}

\* A workspace update beside updates of one project only: sets of roots overlap
\* without being equal.
OverlapJobs == p1 :> {Upd({1, 2})} @@ p2 :> {Upd({2}), Rec({1, 2}), Rd({1, 2})}

\* The same while the second project is moved away, and back, and each project is
\* recovered and read alone.
MovingJobs == p1 :> {Upd({1, 2})} @@ p2 :> {Upd({2}), Rec({1, 2}), Rec({2}), Rd({1}), Rd({2})}

\* An updater that may crash, and somebody who keeps recovering and reads an
\* output that may not exist yet.
RecoverJobs == p1 :> {Upd({1, 2})} @@ p2 :> {Rec({1, 2}), RdDependency({1, 2}, {2})}

=============================================================================
