------------------------ MODULE WorkspaceProperties ------------------------
(***************************************************************************)
(* What makes the reconciliation of a workspace correct.                   *)
(***************************************************************************)
EXTENDS Workspace

Identities == [built : [Projects -> Nat], config : Nat]
Overlays == [gen : Nat, ident : Identities, layout : Nat,
             print : [Projections -> Identities], files : [Projections -> Identities]]

\* The types of the variables.
TypeOK ==
    /\ src \in [Projects -> Nat] /\ config \in Nat
    /\ out \in [Projects -> [gen : Nat, src : Nat]]
    /\ ws \in Overlays
    /\ writer \in [Roots -> Procs \cup {Nobody}]
    /\ pc \in [Procs -> Rest \cup {"plan", "check", "stage", "extract", "compare",
                                   "lock_project", "validate_project", "publish_project",
                                   "load", "read", "lock", "validate", "publish"}]
    /\ nextGen \in Nat /\ started \in Nat /\ faults \in Nat

\* The overlay is a materialized view of the project outputs: however long a
\* reconciliation computes beside builds, refreshes and updates, it replaces the
\* overlay only by one of what is published then, and neither a project nor the
\* overlay goes back to older sources.  (validateInputs)
View == INSTANCE WorkspaceView WITH
    base <- SourcesOf(out), view <- ws.ident.built
ViewSpec == View!Spec

\* A projection that is complete and not marked stale was made from the inputs
\* of the overlay it is published with, also when a refresh of the other
\* projection ran beside the one that made it.
ProjectionsHonest ==
    \A k \in Projections :
        ws.print[k] # NoIdentity =>
            /\ ws.files[k] = ws.print[k]
            /\ Stale(ws, k) <=> ws.files[k] # ws.ident

\* A command that returns success covers what was published when it began and
\* the sources, as they were then, of the projects it had to look at; in
\* particular an update that skips everything skips nothing that was changed.
SuccessCovers ==
    [][\A p \in Procs :
        pc[p] \notin Rest /\ pc'[p] = "ok" =>
            \A q \in Projects : ws'.ident.built[q] >= task[p].since[q]]_vars

\* Dashboard rebuilds apply the saved layout: the overlay's identity names the
\* configuration its layout was made with.
LayoutIsIdentity == ws.gen # 0 => ws.layout = ws.ident.config

-----------------------------------------------------------------------------
(* Liveness.  Commands that run take their steps, and somebody keeps asking   *)
(* for workspace updates (a watcher does); nothing forces an edit, a crash or *)
(* any other command.                                                         *)

FairSpec == /\ Spec
            /\ \A p \in Procs : WF_vars(Step(p))
            /\ \A p \in Procs : WF_vars(\E j \in Jobs[p] : StartUpdate(p, j))

\* Whatever was interrupted, conflicted or edited meanwhile, the workspace ends
\* up current: every project and the overlay show the last sources and no
\* projection is stale.  A crash between the publication of a project and its
\* reconciliation is noticed by the next update.
EventuallyCurrent ==
    <>[](/\ SourcesOf(out) = src /\ ws.ident = Identity(src, config)
         /\ \A k \in Projections : ws.files[k] = ws.ident)

=============================================================================
