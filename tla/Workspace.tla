----------------------------- MODULE Workspace -----------------------------
(***************************************************************************)
(* The projects of a workspace and the overlay computed from their outputs *)
(* (internal/scan/workspace_reconcile.go, workspace_update.go,             *)
(* workspace_publication.go, scan.go and the commands of internal/cli).    *)
(*                                                                         *)
(* A project build publishes the project, then reconciles: it reads every  *)
(* output under shared locks, computes the overlay, which may take long,   *)
(* and publishes it if the inputs it read are still the published ones.    *)
(* `workspace update' plans which projects to build; it builds them in     *)
(* private stages and publishes them with the overlay in one transaction,  *)
(* or, with nothing to build, reconciles if the overlay is out of date.    *)
(*                                                                         *)
(* A publication and the read of a set of outputs are one step each: that  *)
(* is what OutputStore is shown to implement.  The writer locks are        *)
(* explicit, because validation runs between taking them and publishing.   *)
(***************************************************************************)
EXTENDS Integers, FiniteSets, FiniteSetsExt

CONSTANTS
    Projects,   \* the projects of the workspace, positive numbers in path order
    Procs,      \* processes running a command at the same time
    Jobs,       \* Jobs[p]: the commands p may be asked to run
    MaxChanges, \* bound: edits of sources and saves of the dashboard configuration
    MaxJobs,    \* bound: commands started other than workspace updates
    MaxFaults   \* bound: commands that crash, are cancelled or fail on a file

Overlay == 0                    \* the output root of the workspace itself
Roots == Projects \cup {Overlay}
Nobody == 0
Projections == {"agent", "dashboard"}
Targets == Projections \cup {"all"}
Includes(target) == IF target = "all" THEN Projections ELSE {target}

\* A build is of one project, refreshes and updates are of the workspace.
Commands == [kind : {"build"}, projects : {{q} : q \in Projects}, target : Targets]
            \cup [kind : {"refresh", "update"}, projects : {{}}, target : Targets]

\* A workspace without projects is never reconciled.
ASSUME ProjectsAssumption ==
    Projects \subseteq Nat \ {0} /\ IsFiniteSet(Projects) /\ Projects # {}
ASSUME ProcsAssumption == Nobody \notin Procs /\ Jobs \in [Procs -> SUBSET Commands]
ASSUME BoundsAssumption == {MaxChanges, MaxJobs, MaxFaults} \subseteq Nat

VARIABLES
    src,      \* src[q]: version of the sources of project q
    config,   \* version of the dashboard configuration file
    out,      \* out[q]: generation and source version published for project q
    ws,       \* the published overlay
    writer,   \* writer[r]: the process that holds the writer lock of root r, or 0
    pc, task, \* where each process is in its command, and its local variables
    nextGen,  \* the next generation identity
    started, faults

published == <<out, ws, nextGen>>
inputs == <<src, config>>
vars == <<inputs, published, writer, pc, task, started, faults>>

NotIndexed == [gen |-> 0, src |-> 0]
Rest == {"idle", "ok"}          \* no command; "ok": the last one returned success

\* The input identity of an overlay: the source version of every project it has
\* (0 where it has none) and the dashboard configuration.
Identity(built, c) == [built |-> built, config |-> c]
NoIdentity == Identity([q \in Projects |-> 0], 0)
SourcesOf(outputs) == [q \in Projects |-> outputs[q].src]

NoOverlay == [gen |-> 0, ident |-> NoIdentity, layout |-> 0,
              print |-> [k \in Projections |-> NoIdentity],
              files |-> [k \in Projections |-> NoIdentity]]

NoTask == [job |-> "none", target |-> "all", todo |-> {}, unplanned |-> {}, src |-> 0,
           layout |-> 0, ident |-> NoIdentity, gens |-> <<>>, previous |-> NoOverlay,
           staged |-> FALSE, stage |-> <<>>, since |-> <<>>]

-----------------------------------------------------------------------------
(* Writer locks and the end of a command.                                     *)

Free(S) == \A r \in S : writer[r] = Nobody
Lock(p, S) == Free(S) /\ writer' = [r \in Roots |-> IF r \in S THEN p ELSE writer[r]]
Released(p) == [r \in Roots |-> IF writer[r] = p THEN Nobody ELSE writer[r]]

Goto(p, label) == pc' = [pc EXCEPT ![p] = label]
Ends(p, result) == /\ Goto(p, result)
                   /\ task' = [task EXCEPT ![p] = NoTask]
                   /\ writer' = Released(p)

Project(p) == Min(task[p].todo)
Indexed == {q \in Projects : out[q] # NotIndexed}

-----------------------------------------------------------------------------
(* The commands.                                                              *)

\* What a command that succeeds has to cover: what was published when it began,
\* and the sources of the projects it is asked to look at.
Covers(j) == [q \in Projects |-> IF j.kind = "update" \/ q \in j.projects
                                 THEN src[q] ELSE out[q].src]

Start(p, j) ==
    /\ pc[p] \in Rest
    /\ task' = [task EXCEPT ![p] = [NoTask EXCEPT
                   !.job = j.kind, !.target = j.target, !.todo = j.projects,
                   !.unplanned = IF j.kind = "update" THEN Projects ELSE {},
                   !.since = Covers(j)]]
    /\ UNCHANGED <<inputs, published, writer, faults>>

StartBuild(p, j) ==
    /\ j.kind = "build" /\ started < MaxJobs
    /\ Start(p, j) /\ Goto(p, "extract") /\ started' = started + 1

StartRefresh(p, j) ==
    /\ j.kind = "refresh" /\ started < MaxJobs
    /\ Start(p, j) /\ Goto(p, "load") /\ started' = started + 1

StartUpdate(p, j) ==
    /\ j.kind = "update"
    /\ Start(p, j) /\ Goto(p, "plan") /\ UNCHANGED started

\* Mutated form: planning stops at the first project that has to be built.
PlanFirst(p) ==
    LET q == Min(task[p].unplanned)
        rest == task[p].unplanned \ {q}
        builds == IF out[q].src = src[q] THEN {} ELSE {q}
    IN /\ pc[p] = "plan"
       /\ task' = [task EXCEPT ![p].unplanned = rest, ![p].todo = builds]
       /\ Goto(p, IF builds # {} THEN "stage" ELSE IF rest # {} THEN "plan" ELSE "check")
       /\ UNCHANGED <<inputs, published, writer, started, faults>>

\* The plan looks at the projects one after the other, each under its own read
\* lock: a project is built unless its output has the sources' content.
Plan(p) ==
    LET q == Min(task[p].unplanned)
        rest == task[p].unplanned \ {q}
        builds == IF out[q].src = src[q] THEN task[p].todo ELSE task[p].todo \cup {q}
    IN /\ pc[p] = "plan"
       /\ task' = [task EXCEPT ![p].unplanned = rest, ![p].todo = builds]
       /\ Goto(p, IF rest # {} THEN "plan" ELSE IF builds = {} THEN "check" ELSE "stage")
       /\ UNCHANGED <<inputs, published, writer, started, faults>>

Stale(overlay, k) == overlay.print[k] \notin {NoIdentity, overlay.ident}

\* Mutated form: an overlay is current as long as none of its projections is stale.
OverlayUnmarked(target) ==
    /\ ws.gen # 0
    /\ \A k \in Includes(target) : ws.print[k] # NoIdentity /\ ~Stale(ws, k)

\* Nothing to build: is the overlay that of the published projects, and are they
\* still those of the sources?
OverlayCurrent(target) ==
    /\ ws.gen # 0
    /\ ws.ident = Identity(SourcesOf(out), config)
    /\ \A k \in Includes(target) : ws.print[k] # NoIdentity /\ ~Stale(ws, k)

Check(p) ==
    /\ pc[p] = "check"
    /\ IF ~OverlayCurrent(task[p].target)
       THEN Goto(p, "load") /\ UNCHANGED <<task, writer>>
       ELSE Ends(p, IF SourcesOf(out) = src THEN "ok" ELSE "idle")
    /\ UNCHANGED <<inputs, published, started, faults>>

\* Something to build: the overlay, every indexed project and every project to
\* build are locked and copied into private stages.
StageOutputs(p) ==
    /\ pc[p] = "stage"
    /\ Lock(p, {Overlay} \cup Indexed \cup task[p].todo)
    /\ task' = [task EXCEPT ![p].staged = TRUE, ![p].stage = SourcesOf(out)]
    /\ Goto(p, "extract")
    /\ UNCHANGED <<inputs, published, started, faults>>

-----------------------------------------------------------------------------
(* One project: extract, compare, publish or write to the stage.              *)

Extract(p) ==
    /\ pc[p] = "extract"
    /\ task' = [task EXCEPT ![p].src = src[Project(p)]]
    /\ Goto(p, "compare")
    /\ UNCHANGED <<inputs, published, writer, started, faults>>

Compare(p) ==
    /\ pc[p] = "compare"
    /\ IF task[p].src # src[Project(p)]
       THEN Ends(p, "idle")
       ELSE /\ Goto(p, IF task[p].staged THEN "validate_project" ELSE "lock_project")
            /\ UNCHANGED <<task, writer>>
    /\ UNCHANGED <<inputs, published, started, faults>>

LockProject(p) ==
    /\ pc[p] = "lock_project"
    /\ Lock(p, {Project(p)})
    /\ Goto(p, "validate_project")
    /\ UNCHANGED <<inputs, published, task, started, faults>>

\* The sources are compared once more when the new output is written; a staged
\* project is done with that.
ValidateProject(p) ==
    LET q == Project(p)
        rest == task[p].todo \ {q}
    IN /\ pc[p] = "validate_project"
       /\ \/ /\ task[p].src # src[q]
             /\ Ends(p, "idle")
          \/ /\ task[p].src = src[q] /\ task[p].staged
             /\ task' = [task EXCEPT ![p].stage[q] = task[p].src, ![p].todo = rest]
             /\ Goto(p, IF rest = {} THEN "load" ELSE "extract")
             /\ UNCHANGED writer
          \/ /\ task[p].src = src[q] /\ ~task[p].staged
             /\ Goto(p, "publish_project")
             /\ UNCHANGED <<task, writer>>
       /\ UNCHANGED <<inputs, published, started, faults>>

PublishProject(p) ==
    /\ pc[p] = "publish_project"
    /\ out' = [out EXCEPT ![Project(p)] = [gen |-> nextGen, src |-> task[p].src]]
    /\ nextGen' = nextGen + 1
    /\ writer' = Released(p)
    /\ task' = [task EXCEPT ![p].todo = {}]
    /\ Goto(p, "load")
    /\ UNCHANGED <<inputs, ws, started, faults>>

-----------------------------------------------------------------------------
(* Reconciliation.                                                            *)

\* The dashboard configuration is read first, for the layout.
Load(p) ==
    /\ pc[p] = "load"
    /\ task' = [task EXCEPT ![p].layout = config]
    /\ Goto(p, "read")
    /\ UNCHANGED <<inputs, published, writer, started, faults>>

\* What reconciliation sees of the projects: its own stages, or what is published.
Visible(p) == IF task[p].staged THEN task[p].stage ELSE SourcesOf(out)
Generations == [r \in Roots |-> IF r = Overlay THEN ws.gen ELSE out[r].gen]

\* Under shared locks of all outputs: the indexes, the identity of the inputs,
\* the generations they belong to and the overlay's previous manifest.
ReadInputs(p) ==
    /\ pc[p] = "read"
    /\ task' = [task EXCEPT ![p].ident = Identity(Visible(p), config),
                            ![p].gens = Generations, ![p].previous = ws]
    /\ Goto(p, IF task[p].staged THEN "validate" ELSE "lock")
    /\ UNCHANGED <<inputs, published, writer, started, faults>>

Known(t) == {q \in Projects : t.ident.built[q] # 0}

LockOutputs(p) ==
    /\ pc[p] = "lock"
    /\ Lock(p, {Overlay} \cup Known(task[p]))
    /\ Goto(p, "validate")
    /\ UNCHANGED <<inputs, published, task, started, faults>>

\* Mutated form: only the projects that had an index are compared.
InputsUnchangedKnown(p) ==
    /\ \A q \in Known(task[p]) : Visible(p)[q] = task[p].ident.built[q]
    /\ config = task[p].ident.config

\* validateInputs: the identity of the projects it knows and of the configuration
\* is unchanged, and so is every generation, those of projects without an index
\* included; in a stage there is nobody to change a generation.
InputsUnchanged(p) ==
    /\ \A q \in Known(task[p]) : Visible(p)[q] = task[p].ident.built[q]
    /\ config = task[p].ident.config
    /\ task[p].staged \/ task[p].gens = Generations

Validate(p) ==
    /\ pc[p] = "validate"
    /\ IF InputsUnchanged(p)
       THEN Goto(p, "publish") /\ UNCHANGED <<task, writer>>
       ELSE Ends(p, "idle")
    /\ UNCHANGED <<inputs, published, started, faults>>

\* Mutated form: the projections that are kept get the new fingerprint, too.
ReconciledRestamped(t) ==
    [gen |-> nextGen, ident |-> t.ident, layout |-> t.layout,
     print |-> [k \in Projections |-> t.ident],
     files |-> [k \in Projections |-> IF k \in Includes(t.target) THEN t.ident ELSE ws.files[k]]]

\* Mutated form: the fingerprints of the previous manifest are not taken over.
ReconciledAlone(t) ==
    LET asked == Includes(t.target) IN
    [gen |-> nextGen, ident |-> t.ident, layout |-> t.layout,
     print |-> [k \in asked |-> t.ident],
     files |-> [k \in Projections |-> IF k \in asked THEN t.ident ELSE ws.files[k]]]

\* The new overlay: a projection that was not asked for keeps its files, copied
\* from the published overlay, and the fingerprint of the previous manifest.
Reconciled(t) ==
    LET asked == Includes(t.target) IN
    [gen |-> nextGen, ident |-> t.ident, layout |-> t.layout,
     print |-> [k \in Projections |-> IF k \in asked THEN t.ident ELSE t.previous.print[k]],
     files |-> [k \in Projections |-> IF k \in asked THEN t.ident ELSE ws.files[k]]]

Publish(p) ==
    LET t == task[p] IN
    /\ pc[p] = "publish"
    /\ ws' = Reconciled(t)
    /\ out' = [q \in Projects |->
                  IF q \notin Known(t) THEN out[q]
                  ELSE [gen |-> nextGen, src |-> IF t.staged THEN t.stage[q] ELSE out[q].src]]
    /\ nextGen' = nextGen + 1
    /\ Ends(p, "ok")
    /\ UNCHANGED <<inputs, started, faults>>

-----------------------------------------------------------------------------
(* Crashes and failures, and what happens outside the program.                *)

\* A command dies, is cancelled or fails on a file before its publication
\* commits; its locks go with it, its stages are abandoned.
Interrupt(p) ==
    /\ pc[p] \notin Rest /\ faults < MaxFaults
    /\ Ends(p, "idle")
    /\ faults' = faults + 1
    /\ UNCHANGED <<inputs, published, started>>

Changes == MapThenSumSet(LAMBDA q : src[q], Projects) + config - Cardinality(Projects) - 1

Edit(q) ==
    /\ Changes < MaxChanges
    /\ src' = [src EXCEPT ![q] = @ + 1]
    /\ UNCHANGED <<config, published, writer, pc, task, started, faults>>

SaveConfig ==
    /\ Changes < MaxChanges
    /\ config' = config + 1
    /\ UNCHANGED <<src, published, writer, pc, task, started, faults>>

-----------------------------------------------------------------------------

Init ==
    /\ src = [q \in Projects |-> 1]
    /\ config = 1
    /\ out = [q \in Projects |-> NotIndexed]
    /\ ws = NoOverlay
    /\ writer = [r \in Roots |-> Nobody]
    /\ pc = [p \in Procs |-> "idle"]
    /\ task = [p \in Procs |-> NoTask]
    /\ nextGen = 1
    /\ started = 0
    /\ faults = 0

Step(p) ==
    \/ Plan(p) \/ Check(p) \/ StageOutputs(p)
    \/ Extract(p) \/ Compare(p) \/ LockProject(p) \/ ValidateProject(p) \/ PublishProject(p)
    \/ Load(p) \/ ReadInputs(p) \/ LockOutputs(p) \/ Validate(p) \/ Publish(p)

Starts(p) == \E j \in Jobs[p] : StartBuild(p, j) \/ StartRefresh(p, j) \/ StartUpdate(p, j)

Next ==
    \/ \E p \in Procs : Starts(p) \/ Step(p) \/ Interrupt(p)
    \/ \E q \in Projects : Edit(q)
    \/ SaveConfig

Spec == Init /\ [][Next]_vars

=============================================================================
