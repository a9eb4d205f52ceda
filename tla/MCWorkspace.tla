---------------------------- MODULE MCWorkspace ----------------------------
(* Small instances of Workspace for TLC. *)
EXTENDS WorkspaceProperties, TLC

CONSTANTS p1, p2

TwoProcs == {p1, p2}
TwoProjects == {1, 2}

Build(q) == [kind |-> "build", projects |-> {q}, target |-> "all"]
Refresh(target) == [kind |-> "refresh", projects |-> {}, target |-> target]
Update == [kind |-> "update", projects |-> {}, target |-> "all"]

\* Somebody who builds a project or refreshes one projection, beside somebody
\* who builds the other project or keeps the workspace up to date.
BesideUpdates == p1 :> {Build(1), Refresh("agent")}
              @@ p2 :> {Build(2), Refresh("dashboard"), Update}

=============================================================================
