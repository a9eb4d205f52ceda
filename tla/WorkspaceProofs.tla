--------------------------- MODULE WorkspaceProofs ---------------------------
(***************************************************************************)
(* Theorems about the reconciliation of a workspace, for any projects and  *)
(* processes, whatever commands they run and however often these crash:    *)
(* the types, that the overlay is a view of the project outputs, that      *)
(* projections say what they were made from, and that a command that       *)
(* succeeds covers what was there when it began.                           *)
(*                                                                         *)
(* The inductive invariant says of every process what it may rely on at    *)
(* each point of its command: where it is (Control), which locks it holds  *)
(* (Locks), and how what it has read relates to what is published (Data).  *)
(* A step of one process leaves this standing for the others because it    *)
(* changes only outputs that they have not locked (Frame).                 *)
(***************************************************************************)
EXTENDS WorkspaceProperties, TLAPS, WellFoundedInduction

Building == {"extract", "compare", "lock_project", "validate_project", "publish_project"}
Reconciling == {"load", "read", "lock", "validate", "publish"}
Planning == {"plan", "check", "stage"}

Versions == [Projects -> Nat]
Tasks ==
    [job : {"none", "build", "refresh", "update"}, target : Targets,
     todo : SUBSET Projects, unplanned : SUBSET Projects, src : Nat, layout : Nat,
     ident : Identities, gens : [Roots -> Nat] \cup {<<>>}, previous : Overlays,
     staged : BOOLEAN, stage : Versions \cup {<<>>}, since : Versions \cup {<<>>}]

Typed == TypeOK /\ task \in [Procs -> Tasks]

\* What is published: never newer than the sources, and the overlay shows no
\* project that is not indexed.
Outputs ==
    /\ \A q \in Projects :
          /\ 1 <= src[q] /\ out[q].src <= src[q]
          /\ out[q].src = 0 <=> out[q].gen = 0
          /\ out[q].src = 0 => ws.ident.built[q] = 0
    /\ ws.gen < nextGen
    /\ \A k \in Projections : ws.print[k] # NoIdentity => ws.files[k] = ws.print[k]

\* Where a process is in its command.
Control(p) ==
    LET t == task[p] IN
    /\ pc[p] \in Planning \cup {"lock_project", "publish_project", "lock"} => ~t.staged
    /\ pc[p] = "plan" => t.unplanned # {}
    /\ pc[p] \notin Rest \cup {"plan"} => t.unplanned = {}
    /\ pc[p] \in {"check"} \cup Reconciling => t.todo = {}
    /\ pc[p] \in {"stage"} \cup Building => t.todo # {}
    /\ pc[p] \in Building /\ ~t.staged => \E q \in Projects : t.todo = {q}

\* Which writer locks it holds.
Locks(p) ==
    LET t == task[p] IN
    /\ pc[p] \in {"validate_project", "publish_project"} /\ ~t.staged => writer[Project(p)] = p
    /\ pc[p] \notin Rest /\ t.staged =>
          /\ writer[Overlay] = p
          /\ \A q \in Projects : q \in t.todo \/ t.stage[q] # 0 => writer[q] = p
    /\ pc[p] \in {"validate", "publish"} /\ ~t.staged =>
          /\ writer[Overlay] = p
          /\ \A q \in Projects : t.ident.built[q] # 0 => writer[q] = p

\* What it knows of the sources and the outputs since it began.
Progress(p) ==
    LET t == task[p] IN
    pc[p] \notin Rest =>
        /\ t.since \in Versions
        /\ \A q \in Projects :
              /\ t.since[q] <= src[q]
              /\ q \notin t.unplanned \cup t.todo /\ ~t.staged => t.since[q] <= out[q].src
              /\ q \notin t.unplanned \cup t.todo /\ t.staged => t.since[q] <= t.stage[q]
              /\ pc[p] \in {"lock", "validate", "publish"} => t.since[q] <= t.ident.built[q]

\* What it is about to publish of one project, and what is in its stages.
Prepared(p) ==
    LET t == task[p]
        q == Project(p)
    IN /\ pc[p] = "publish_project" =>
             1 <= t.src /\ t.since[q] <= t.src /\ out[q].src <= t.src /\ t.src <= src[q]
       /\ pc[p] \notin Rest /\ t.staged =>
             /\ t.stage \in Versions
             /\ \A r \in Projects :
                   /\ t.stage[r] <= src[r]
                   /\ t.stage[r] # 0 => out[r].src <= t.stage[r]
                   /\ t.stage[r] = 0 => ws.ident.built[r] = 0

\* How the inputs of a reconciliation relate to what is published.
Inputs(p) ==
    LET t == task[p] IN
    /\ pc[p] \in {"validate", "publish"} /\ t.staged =>
          t.ident.built = t.stage /\ t.previous = ws
    /\ pc[p] \in {"lock", "validate"} /\ ~t.staged =>
          /\ t.gens \in [Roots -> Nat] /\ t.gens[Overlay] < nextGen
          /\ t.gens[Overlay] = ws.gen => t.previous = ws
          /\ \A q \in Projects : t.ident.built[q] = 0 => t.gens[q] = 0
    /\ pc[p] = "publish" /\ ~t.staged =>
          /\ t.previous = ws
          /\ \A q \in Projects : IF t.ident.built[q] # 0 THEN out[q].src = t.ident.built[q]
                                                         ELSE ws.ident.built[q] = 0

Inv(p) == Control(p) /\ Locks(p) /\ Progress(p) /\ Prepared(p) /\ Inputs(p)

IInv == Typed /\ Outputs /\ \A p \in Procs : Inv(p)

-----------------------------------------------------------------------------

\* Every set of projects but the empty one has a first one.
LEMMA First == ASSUME NEW S \in SUBSET Projects, S # {} PROVE Min(S) \in S
<1>1. S \subseteq Nat
    BY ProjectsAssumption
<1>2. PICK x \in S : \A y \in S : <<y, x>> \notin OpToRel(<, Nat)
    BY <1>1, NatLessThanWellFounded, WFMin
<1>3. \A y \in S : ~(y < x)
    BY <1>1, <1>2 DEF OpToRel
<1>4. \A y \in S : x =< y
    BY <1>1, <1>3
<1> QED BY <1>4 DEF Min

\* A process in the middle of a build has a project.
LEMMA OnProject ==
    ASSUME Typed, NEW p \in Procs, Control(p), pc[p] \in {"stage"} \cup Building
    PROVE  Project(p) \in task[p].todo /\ Project(p) \in Projects
<1>1. task[p].todo \in SUBSET Projects /\ task[p].todo # {}
    BY DEF Typed, Tasks, Control
<1> QED BY <1>1, First DEF Project

\* Locks taken or released by one process leave those of the others alone.
LEMMA LocksOfOthers ==
    ASSUME Typed, NEW p \in Procs, NEW r \in Procs \ {p}, NEW x \in Roots, writer[x] = r
    PROVE  /\ Released(p)[x] = r
           /\ \A S \in SUBSET Roots : Lock(p, S) => writer'[x] = r
BY ProcsAssumption DEF Released, Lock, Free

-----------------------------------------------------------------------------
(* What a process knows stays true under the steps of others.                 *)

\* A step that leaves process r where it is, and the locks that r holds.
Frame(r) ==
    /\ pc'[r] = pc[r] /\ task'[r] = task[r]
    /\ \A x \in Roots : writer[x] = r => writer'[x] = r

\* Sources and outputs only grow, and a new overlay has a new generation.
Forward ==
    /\ \A q \in Projects : src[q] <= src'[q] /\ out[q].src <= out'[q].src
    /\ nextGen <= nextGen' /\ (ws' = ws \/ ws'.gen = nextGen)

\* What r has locked is not published by others.
Guarded(r) ==
    /\ \A q \in Projects : writer[q] = r => out'[q] = out[q]
    /\ writer[Overlay] = r => ws' = ws

\* What process r relies on survives a step within its frame that goes forward.
LEMMA Undisturbed ==
    ASSUME Typed, Typed', NEW r \in Procs, Inv(r), Frame(r), Forward, Guarded(r)
    PROVE  Inv(r)'
<1> DEFINE t == task[r]
<1>t. t \in Tasks /\ task'[r] = t /\ pc'[r] = pc[r]
    BY DEF Typed, Frame
<1>v. src \in Versions /\ src' \in Versions /\ nextGen \in Nat /\ nextGen' \in Nat
      /\ \A q \in Projects : out[q].src \in Nat /\ out'[q].src \in Nat
    BY DEF Typed, TypeOK, Versions
<1>f. \A q \in Projects : src[q] <= src'[q] /\ out[q].src <= out'[q].src
    BY DEF Forward
<1>r. Projects \subseteq Roots /\ Overlay \in Roots
    BY DEF Roots
<1>1. Control(r)'
    BY <1>t DEF Inv, Control
<1>2. Locks(r)'
  <2>1. pc[r] \in {"validate_project", "publish_project"} => Project(r) \in Projects
      BY OnProject DEF Inv, Building
  <2>2. Project(r)' = Project(r)
      BY <1>t DEF Project
  <2> QED BY <1>t, <1>r, <2>1, <2>2 DEF Inv, Locks, Frame
<1>3. Progress(r)'
  <2> SUFFICES ASSUME pc[r] \notin Rest
               PROVE  /\ t.since \in Versions
                      /\ \A q \in Projects :
                            /\ t.since[q] <= src'[q]
                            /\ q \notin t.unplanned \cup t.todo /\ ~t.staged => t.since[q] <= out'[q].src
                            /\ q \notin t.unplanned \cup t.todo /\ t.staged => t.since[q] <= t.stage[q]
                            /\ pc[r] \in {"lock", "validate", "publish"} => t.since[q] <= t.ident.built[q]
      BY <1>t DEF Progress
  <2>1. Progress(r)
      BY DEF Inv
  <2> QED BY <1>v, <1>f, <2>1 DEF Progress, Versions
<1>4. Prepared(r)'
  <2>1. CASE pc[r] = "publish_project"
    <3>1. Project(r) \in Projects /\ writer[Project(r)] = r /\ ~t.staged
        BY <2>1, OnProject DEF Inv, Building, Control, Locks
    <3>2. Project(r)' = Project(r) /\ out'[Project(r)] = out[Project(r)]
        BY <1>t, <3>1 DEF Project, Guarded
    <3> QED BY <1>t, <1>v, <1>f, <2>1, <3>1, <3>2 DEF Inv, Prepared, Tasks, Versions
  <2>2. CASE pc[r] # "publish_project" /\ pc[r] \notin Rest /\ t.staged
    <3>1. ws' = ws
        BY <2>2 DEF Inv, Locks, Guarded
    <3>2. \A q \in Projects : t.stage[q] # 0 => out'[q] = out[q]
        BY <2>2 DEF Inv, Locks, Guarded
    <3> QED BY <1>t, <1>v, <1>f, <2>2, <3>1, <3>2 DEF Inv, Prepared, Versions
  <2> QED BY <1>t, <2>1, <2>2 DEF Prepared
<1>5. Inputs(r)'
  <2>1. CASE pc[r] \in {"validate", "publish"} /\ t.staged
    <3>1. ws' = ws
        BY <2>1 DEF Inv, Locks, Guarded, Rest
    <3> QED BY <1>t, <2>1, <3>1 DEF Inv, Inputs
  <2>2. CASE pc[r] \in {"lock", "validate"} /\ ~t.staged
      BY <1>t, <1>v, <1>r, <2>2 DEF Inv, Inputs, Forward
  <2>3. CASE pc[r] = "publish" /\ ~t.staged
    <3>1. ws' = ws /\ \A q \in Projects : t.ident.built[q] # 0 => out'[q] = out[q]
        BY <2>3 DEF Inv, Locks, Guarded
    <3> QED BY <1>t, <2>3, <3>1 DEF Inv, Inputs
  <2> QED BY <1>t, <2>1, <2>2, <2>3 DEF Inputs
<1> QED BY <1>1, <1>2, <1>3, <1>4, <1>5 DEF Inv

-----------------------------------------------------------------------------
(* Steps of one process that publish nothing.                                 *)

\* Process p goes to l with the local variables t; it may take or release locks.
Moves(p, l, t) ==
    /\ Goto(p, l) /\ task' = [task EXCEPT ![p] = t]
    /\ writer' = writer \/ writer' = Released(p) \/ \E S \in SUBSET Roots : Lock(p, S)

Labels == Rest \cup Planning \cup Building \cup Reconciling

\* A step of p touches no other process and none of its locks.
LEMMA MovesFrame ==
    ASSUME Typed, NEW p \in Procs, NEW l, NEW t, Moves(p, l, t)
    PROVE  \A r \in Procs \ {p} : Frame(r)
<1>1. \A r \in Procs \ {p} : pc'[r] = pc[r] /\ task'[r] = task[r]
    BY DEF Moves, Goto, Typed, TypeOK
<1>2. ASSUME NEW r \in Procs \ {p}, NEW x \in Roots, writer[x] = r PROVE writer'[x] = r
    BY <1>2, LocksOfOthers DEF Moves
<1> QED BY <1>1, <1>2 DEF Frame

\* A step that changes nothing but p's position, task and locks keeps the types.
LEMMA MovesTyped ==
    ASSUME Typed, NEW p \in Procs, NEW l \in Labels, NEW t \in Tasks, Moves(p, l, t),
           UNCHANGED <<inputs, published>>, started' \in Nat, faults' \in Nat
    PROVE  Typed' /\ pc'[p] = l /\ task'[p] = t
<1>1. writer' \in [Roots -> Procs \cup {Nobody}]
    BY DEF Moves, Lock, Released, Typed, TypeOK
<1>2. pc' \in [Procs -> Labels] /\ pc'[p] = l
    BY DEF Moves, Goto, Typed, TypeOK, Labels, Planning, Building, Reconciling
<1>3. task' \in [Procs -> Tasks] /\ task'[p] = t
    BY DEF Moves, Typed
<1> QED BY <1>1, <1>2, <1>3
        DEF Typed, TypeOK, inputs, published, Labels, Planning, Building, Reconciling

\* A step that changes no file keeps the invariant if it keeps p's own part.
LEMMA Silent ==
    ASSUME IInv, NEW p \in Procs, NEW l \in Labels, NEW t \in Tasks, Moves(p, l, t),
           UNCHANGED <<inputs, published>>, started' \in Nat, faults' \in Nat,
           Typed' /\ pc'[p] = l /\ task'[p] = t => Inv(p)'
    PROVE  IInv'
<1>1. Typed' /\ Inv(p)'
    BY MovesTyped DEF IInv
<1>2. Outputs'
    BY DEF IInv, Outputs, inputs, published
<1>3. Forward /\ \A r \in Procs : Guarded(r)
    BY DEF Forward, Guarded, inputs, published, IInv, Typed, TypeOK
<1>4. \A r \in Procs \ {p} : Inv(r)'
    BY <1>1, <1>3, MovesFrame, Undisturbed DEF IInv
<1> QED BY <1>1, <1>2, <1>4 DEF IInv

\* At rest there is nothing to know.
LEMMA AtRest == ASSUME NEW p \in Procs, pc[p] \in Rest PROVE Inv(p)
BY DEF Inv, Control, Locks, Progress, Prepared, Inputs, Rest, Planning, Building, Reconciling

\* What stands for nothing is of the types.
LEMMA NoTaskTyped == NoTask \in Tasks /\ NoOverlay \in Overlays /\ NoIdentity \in Identities
<1>1. NoIdentity \in Identities
    BY DEF NoIdentity, Identity, Identities
<1>2. NoOverlay \in Overlays
    BY <1>1 DEF NoOverlay, Overlays
<1> QED BY <1>1, <1>2 DEF NoTask, Tasks, Targets

\* A command ends, well or not, and gives its locks back.
LEMMA EndKeeps ==
    ASSUME IInv, NEW p \in Procs, NEW l \in Rest, Ends(p, l),
           UNCHANGED <<inputs, published, started>>, faults' \in Nat
    PROVE  IInv'
<1>1. l \in Labels /\ Moves(p, l, NoTask)
    BY DEF Labels, Moves, Ends
<1>2. pc'[p] = l => Inv(p)'
  <2>1. pc'[p] \in Rest => Inv(p)'
      BY DEF Inv, Control, Locks, Progress, Prepared, Inputs, Rest, Planning, Building, Reconciling
  <2> QED BY <2>1
<1>3. started' \in Nat
    BY DEF IInv, Typed, TypeOK
<1> QED BY <1>1, <1>2, <1>3, NoTaskTyped, Silent

-----------------------------------------------------------------------------
(* Commands begin, plan and end.                                              *)

LEMMA StartKeeps ==
    ASSUME IInv, NEW p \in Procs, NEW j \in Jobs[p],
           StartBuild(p, j) \/ StartRefresh(p, j) \/ StartUpdate(p, j)
    PROVE  IInv'
<1> DEFINE t == [NoTask EXCEPT !.job = j.kind, !.target = j.target, !.todo = j.projects,
                               !.unplanned = IF j.kind = "update" THEN Projects ELSE {},
                               !.since = Covers(j)]
           l == IF j.kind = "build" THEN "extract" ELSE IF j.kind = "refresh" THEN "load" ELSE "plan"
<1>1. j \in Commands
    BY ProcsAssumption
<1>2. /\ j.kind \in {"build", "refresh", "update"} /\ j.target \in Targets
      /\ j.projects \subseteq Projects
      /\ j.kind = "build" => \E q \in Projects : j.projects = {q}
      /\ j.kind # "build" => j.projects = {}
    BY <1>1 DEF Commands
<1>3. Covers(j) \in Versions
    BY DEF Covers, Versions, IInv, Typed, TypeOK
<1>4. t \in Tasks
    BY <1>2, <1>3, NoTaskTyped DEF Tasks
<1>5. /\ t.todo = j.projects /\ t.since = Covers(j) /\ ~t.staged
      /\ t.unplanned = IF j.kind = "update" THEN Projects ELSE {}
    BY DEF NoTask
<1>6. l \in Labels /\ Moves(p, l, t)
    BY <1>2 DEF Labels, Planning, Building, Reconciling, Moves, Start, StartBuild, StartRefresh,
                StartUpdate
<1>7. started' \in Nat /\ faults' \in Nat /\ UNCHANGED <<inputs, published>>
    BY DEF StartBuild, StartRefresh, StartUpdate, Start, IInv, Typed, TypeOK
<1> HIDE DEF t
<1>8. ASSUME pc'[p] = l, task'[p] = t PROVE Inv(p)'
  <2>1. pc'[p] = l /\ task'[p] = t /\ UNCHANGED <<src, out, ws>>
      BY <1>7, <1>8 DEF inputs, published
  <2>2. \A q \in Projects : /\ Covers(j)[q] <= src[q]
                            /\ q \notin t.unplanned \cup t.todo => Covers(j)[q] <= out[q].src
      BY <1>2, <1>5 DEF Covers, IInv, Outputs, Typed, TypeOK
  <2>3. Control(p)'
      BY <1>2, <1>5, <2>1, ProjectsAssumption DEF Control, Planning, Building, Reconciling, Rest
  <2>4. Progress(p)'
      BY <1>3, <1>5, <2>1, <2>2 DEF Progress
  <2> QED BY <1>5, <2>1, <2>3, <2>4 DEF Inv, Locks, Prepared, Inputs
<1> QED BY <1>4, <1>6, <1>7, <1>8, Silent

\* Planning keeps the invariant.
LEMMA PlanKeeps == ASSUME IInv, NEW p \in Procs, Plan(p) PROVE IInv'
<1> DEFINE t0 == task[p]
           q == Min(t0.unplanned)
           rest == t0.unplanned \ {q}
           builds == IF out[q].src = src[q] THEN t0.todo ELSE t0.todo \cup {q}
           t == [t0 EXCEPT !.unplanned = rest, !.todo = builds]
           l == IF rest # {} THEN "plan" ELSE IF builds = {} THEN "check" ELSE "stage"
<1>1. t0 \in Tasks /\ pc[p] = "plan" /\ Control(p) /\ Progress(p)
    BY DEF Plan, IInv, Typed, Inv
<1>2. t0.unplanned \subseteq Projects /\ t0.unplanned # {} /\ ~t0.staged
    BY <1>1 DEF Control, Tasks, Planning
<1>3. q \in t0.unplanned /\ q \in Projects
    BY <1>2, First
<1>4. t \in Tasks
    BY <1>1, <1>3 DEF Tasks
<1>5. t.unplanned = rest /\ t.todo = builds /\ t.staged = t0.staged /\ t.since = t0.since
    BY <1>1 DEF Tasks
<1>6. l \in Labels /\ Moves(p, l, t)
    BY DEF Labels, Planning, Moves, Plan
<1>7. started' \in Nat /\ faults' \in Nat /\ UNCHANGED <<inputs, published>>
    BY DEF Plan, IInv, Typed, TypeOK
<1>8. t0.since \in Versions /\ \A x \in Projects :
          t0.since[x] <= src[x] /\ (x \notin t0.unplanned \cup t0.todo => t0.since[x] <= out[x].src)
    BY <1>1, <1>2 DEF Progress, Rest
<1>9. \A x \in Projects : x \notin rest \cup builds => t0.since[x] <= out[x].src
    BY <1>8
<1> HIDE DEF t
<1>10. ASSUME pc'[p] = l, task'[p] = t PROVE Inv(p)'
  <2>1. pc'[p] = l /\ task'[p] = t /\ UNCHANGED <<src, out, ws>>
      BY <1>7, <1>10 DEF inputs, published
  <2>2. Control(p)'
      BY <1>2, <1>5, <2>1 DEF Control, Planning, Building, Reconciling, Rest
  <2>3. Progress(p)'
      BY <1>2, <1>5, <1>8, <1>9, <2>1 DEF Progress
  <2> QED BY <1>2, <1>5, <2>1, <2>2, <2>3 DEF Inv, Locks, Prepared, Inputs
<1> QED BY <1>4, <1>6, <1>7, <1>10, Silent

\* The check that there is nothing to do keeps it.
LEMMA CheckKeeps == ASSUME IInv, NEW p \in Procs, Check(p) PROVE IInv'
<1>1. started' \in Nat /\ faults' \in Nat /\ UNCHANGED <<inputs, published>>
    BY DEF Check, IInv, Typed, TypeOK
<1>2. CASE ~OverlayCurrent(task[p].target)
  <2>1. task[p] \in Tasks /\ "load" \in Labels /\ Moves(p, "load", task[p])
      BY <1>2 DEF Check, Moves, IInv, Typed, Labels, Reconciling
  <2>2. ASSUME pc'[p] = "load", task'[p] = task[p] PROVE Inv(p)'
    <3>1. pc'[p] = "load" /\ task'[p] = task[p] /\ UNCHANGED <<src, out, ws>> /\ pc[p] = "check"
        BY <1>1, <2>2 DEF inputs, published, Check
    <3>2. Control(p) /\ Progress(p) /\ ~task[p].staged
        BY <3>1 DEF IInv, Inv, Control, Planning
    <3>3. Control(p)' /\ Progress(p)'
        BY <3>1, <3>2 DEF Control, Progress, Planning, Building, Reconciling, Rest
    <3> QED BY <3>1, <3>2, <3>3 DEF Inv, Locks, Prepared, Inputs
  <2> QED BY <1>1, <2>1, <2>2, Silent
<1>3. CASE OverlayCurrent(task[p].target)
    BY <1>1, <1>3, EndKeeps DEF Check, Rest
<1> QED BY <1>2, <1>3

\* The stages: everything that is copied or will be built is locked.
LEMMA StageOutputsKeeps == ASSUME IInv, NEW p \in Procs, StageOutputs(p) PROVE IInv'
<1> DEFINE t0 == task[p]
           S == {Overlay} \cup Indexed \cup t0.todo
           t == [t0 EXCEPT !.staged = TRUE, !.stage = SourcesOf(out)]
<1>1. t0 \in Tasks /\ pc[p] = "stage" /\ Control(p) /\ Progress(p) /\ ~t0.staged
    BY DEF StageOutputs, IInv, Typed, Inv, Control, Planning
<1>2. S \in SUBSET Roots
    BY <1>1 DEF Indexed, Roots, Tasks
<1>3. SourcesOf(out) \in Versions /\ \A q \in Projects : SourcesOf(out)[q] = out[q].src
    BY DEF SourcesOf, Versions, IInv, Typed, TypeOK
<1>4. t \in Tasks
    BY <1>1, <1>3 DEF Tasks
<1>5. t.staged /\ t.stage = SourcesOf(out) /\ t.todo = t0.todo /\ t.unplanned = t0.unplanned
      /\ t.since = t0.since
    BY <1>1 DEF Tasks
<1>6. "extract" \in Labels /\ Moves(p, "extract", t)
    BY <1>2 DEF Labels, Building, Moves, StageOutputs
<1>7. started' \in Nat /\ faults' \in Nat /\ UNCHANGED <<inputs, published>>
    BY DEF StageOutputs, IInv, Typed, TypeOK
<1>8. \A r \in S : writer'[r] = p
    BY <1>2 DEF StageOutputs, Lock
<1> HIDE DEF t
<1>9. ASSUME pc'[p] = "extract", task'[p] = t PROVE Inv(p)'
  <2>1. pc'[p] = "extract" /\ task'[p] = t /\ UNCHANGED <<src, out, ws>>
      BY <1>7, <1>9 DEF inputs, published
  <2>2. Control(p)'
      BY <1>1, <1>5, <2>1 DEF Control, Planning, Building, Reconciling, Rest
  <2>3. Locks(p)'
    <3>1. \A q \in Projects : out[q].src # 0 => q \in Indexed
        BY DEF Indexed, NotIndexed
    <3> QED BY <1>3, <1>5, <1>8, <2>1, <3>1 DEF Locks
  <2>4. Progress(p)'
      BY <1>1, <1>3, <1>5, <2>1 DEF Progress, Rest
  <2>5. Prepared(p)'
    <3>1. \A q \in Projects : /\ out[q].src \in Nat /\ out[q].src <= src[q]
                              /\ out[q].src = 0 => ws.ident.built[q] = 0
        BY DEF IInv, Outputs, Typed, TypeOK
    <3> QED BY <1>3, <1>5, <2>1, <3>1 DEF Prepared
  <2> QED BY <2>1, <2>2, <2>3, <2>4, <2>5 DEF Inv, Inputs
<1> QED BY <1>4, <1>6, <1>7, <1>9, Silent

\* So does extracting a project,
LEMMA ExtractKeeps == ASSUME IInv, NEW p \in Procs, Extract(p) PROVE IInv'
<1> DEFINE t0 == task[p]
           t == [t0 EXCEPT !.src = src[Project(p)]]
<1>1. t0 \in Tasks /\ pc[p] = "extract" /\ Inv(p)
    BY DEF Extract, IInv, Typed
<1>2. src[Project(p)] \in Nat
    BY <1>1, OnProject DEF Inv, Building, IInv, Typed, TypeOK
<1>3. t \in Tasks
    BY <1>1, <1>2 DEF Tasks
<1>4. t.staged = t0.staged /\ t.stage = t0.stage /\ t.todo = t0.todo
      /\ t.unplanned = t0.unplanned /\ t.since = t0.since
    BY <1>1 DEF Tasks
<1>5. "compare" \in Labels /\ Moves(p, "compare", t)
    BY DEF Labels, Building, Moves, Extract
<1>6. started' \in Nat /\ faults' \in Nat /\ UNCHANGED <<inputs, published, writer>>
    BY DEF Extract, IInv, Typed, TypeOK
<1> HIDE DEF t
<1>7. ASSUME pc'[p] = "compare", task'[p] = t PROVE Inv(p)'
  <2>1. pc'[p] = "compare" /\ task'[p] = t /\ UNCHANGED <<src, out, ws, writer>>
      BY <1>6, <1>7 DEF inputs, published
  <2>2. Control(p)'
      BY <1>1, <1>4, <2>1 DEF Inv, Control, Planning, Building, Reconciling, Rest
  <2>3. Locks(p)' /\ Progress(p)' /\ Prepared(p)'
      BY <1>1, <1>4, <2>1 DEF Inv, Locks, Progress, Prepared, Rest
  <2> QED BY <2>1, <2>2, <2>3 DEF Inv, Inputs
<1> QED BY <1>3, <1>5, <1>6, <1>7, Silent

\* comparing it with its sources,
LEMMA CompareKeeps == ASSUME IInv, NEW p \in Procs, Compare(p) PROVE IInv'
<1> DEFINE t == task[p]
           l == IF t.staged THEN "validate_project" ELSE "lock_project"
<1>1. t \in Tasks /\ pc[p] = "compare" /\ Inv(p)
    BY DEF Compare, IInv, Typed
<1>2. started' \in Nat /\ faults' \in Nat /\ UNCHANGED <<inputs, published, started>>
    BY DEF Compare, IInv, Typed, TypeOK
<1>3. CASE t.src # src[Project(p)]
    BY <1>2, <1>3, EndKeeps DEF Compare, Rest
<1>4. CASE t.src = src[Project(p)]
  <2>1. l \in Labels /\ Moves(p, l, t)
      BY <1>1, <1>4 DEF Labels, Building, Moves, Compare, IInv, Typed
  <2>2. ASSUME pc'[p] = l, task'[p] = t PROVE Inv(p)'
    <3>1. pc'[p] = l /\ task'[p] = t /\ UNCHANGED <<src, out, ws, writer>>
        BY <1>2, <1>4, <2>2 DEF inputs, published, Compare
    <3>2. Control(p)'
        BY <1>1, <3>1 DEF Inv, Control, Planning, Building, Reconciling, Rest
    <3>3. Locks(p)' /\ Progress(p)' /\ Prepared(p)'
        BY <1>1, <3>1 DEF Inv, Locks, Progress, Prepared, Rest
    <3> QED BY <3>1, <3>2, <3>3 DEF Inv, Inputs
  <2> QED BY <1>1, <1>2, <2>1, <2>2, Silent
<1> QED BY <1>3, <1>4

\* taking its locks,
LEMMA LockProjectKeeps == ASSUME IInv, NEW p \in Procs, LockProject(p) PROVE IInv'
<1> DEFINE t == task[p]
           l == "validate_project"
<1>1. t \in Tasks /\ pc[p] = "lock_project" /\ Inv(p) /\ ~t.staged
    BY DEF LockProject, IInv, Typed, Inv, Control
<1>2. started' \in Nat /\ faults' \in Nat /\ UNCHANGED <<inputs, published>>
    BY DEF LockProject, IInv, Typed, TypeOK
<1>3. Project(p) \in Projects
    BY <1>1, OnProject DEF IInv, Inv, Building
<1>4. l \in Labels /\ Moves(p, l, t)
    BY <1>1, <1>3 DEF Labels, Building, Moves, LockProject, Roots, IInv, Typed
<1>5. ASSUME pc'[p] = l, task'[p] = t PROVE Inv(p)'
  <2>1. pc'[p] = l /\ task'[p] = t /\ UNCHANGED <<src, out, ws>> /\ Project(p)' = Project(p)
      BY <1>2, <1>5 DEF inputs, published, Project
  <2>2. Control(p)' /\ Progress(p)'
      BY <1>1, <2>1 DEF Inv, Control, Progress, Planning, Building, Reconciling, Rest
  <2>3. Locks(p)'
      BY <1>1, <1>3, <2>1 DEF Locks, LockProject, Lock, Roots
  <2> QED BY <1>1, <2>1, <2>2, <2>3 DEF Inv, Prepared, Inputs
<1> QED BY <1>1, <1>2, <1>4, <1>5, Silent

\* The sources are still those that were extracted: a staged project is done,
\* another one is about to be published.
LEMMA ValidateProjectKeeps == ASSUME IInv, NEW p \in Procs, ValidateProject(p) PROVE IInv'
<1> DEFINE t0 == task[p]
           q == Project(p)
           rest == t0.todo \ {q}
<1>1. t0 \in Tasks /\ pc[p] = "validate_project" /\ Inv(p) /\ q \in t0.todo /\ q \in Projects
    BY OnProject DEF ValidateProject, IInv, Typed, Inv, Building
<1>2. started' \in Nat /\ faults' \in Nat /\ UNCHANGED <<inputs, published, started>>
    BY DEF ValidateProject, IInv, Typed, TypeOK
<1>o. /\ src[q] \in Nat /\ 1 <= src[q] /\ out[q].src <= src[q]
    BY <1>1 DEF IInv, Outputs, Typed, TypeOK
<1>3. CASE t0.src # src[q]
    BY <1>2, <1>3, EndKeeps DEF ValidateProject, Rest
<1>4. CASE t0.src = src[q] /\ t0.staged
  <2> DEFINE t == [t0 EXCEPT !.stage[q] = t0.src, !.todo = rest]
             l == IF rest = {} THEN "load" ELSE "extract"
  <2>1. t0.stage \in Versions
      BY <1>1, <1>4 DEF Inv, Prepared, Rest
  <2>2. [t0.stage EXCEPT ![q] = t0.src] \in Versions
      BY <1>1, <2>1 DEF Versions, Tasks
  <2>3. t \in Tasks
      BY <1>1, <2>2 DEF Tasks
  <2>4. /\ t.stage = [t0.stage EXCEPT ![q] = t0.src] /\ t.todo = rest
        /\ t.staged /\ t.unplanned = t0.unplanned /\ t.since = t0.since
      BY <1>1, <1>4 DEF Tasks
  <2>5. l \in Labels /\ Moves(p, l, t)
      BY <1>4 DEF Labels, Building, Reconciling, Moves, ValidateProject
  <2>6. UNCHANGED writer
      BY <1>4 DEF ValidateProject
  <2>7. /\ t.stage[q] = src[q] /\ t.stage[q] # 0
        /\ \A x \in Projects \ {q} : t.stage[x] = t0.stage[x] /\ (x \in rest <=> x \in t0.todo)
        /\ q \notin rest
      BY <1>1, <1>4, <1>o, <2>1, <2>4 DEF Versions
  <2> HIDE DEF t
  <2>8. ASSUME pc'[p] = l, task'[p] = t PROVE Inv(p)'
    <3>1. pc'[p] = l /\ task'[p] = t /\ UNCHANGED <<src, out, ws, writer>>
        BY <1>2, <2>6, <2>8 DEF inputs, published
    <3>2. Control(p)'
        BY <1>1, <1>4, <2>4, <3>1 DEF Inv, Control, Planning, Building, Reconciling, Rest
    <3>3. Locks(p)'
      <4>1. writer[Overlay] = p /\ \A x \in Projects : x \in t0.todo \/ t0.stage[x] # 0 => writer[x] = p
          BY <1>1, <1>4 DEF Inv, Locks, Rest
      <4> QED BY <1>1, <2>4, <2>7, <3>1, <4>1 DEF Locks
    <3>4. Progress(p)'
      <4>1. /\ t0.since \in Versions
            /\ \A x \in Projects :
                  /\ t0.since[x] <= src[x]
                  /\ x \notin t0.unplanned \cup t0.todo => t0.since[x] <= t0.stage[x]
          BY <1>1, <1>4 DEF Inv, Progress, Rest
      <4> QED BY <2>4, <2>7, <3>1, <4>1 DEF Progress
    <3>5. Prepared(p)'
      <4>1. \A x \in Projects : /\ t0.stage[x] <= src[x]
                                /\ t0.stage[x] # 0 => out[x].src <= t0.stage[x]
                                /\ t0.stage[x] = 0 => ws.ident.built[x] = 0
          BY <1>1, <1>4 DEF Inv, Prepared, Rest
      <4>2. \A x \in Projects : /\ t.stage[x] <= src[x]
                                /\ t.stage[x] # 0 => out[x].src <= t.stage[x]
                                /\ t.stage[x] = 0 => ws.ident.built[x] = 0
          BY <1>o, <2>7, <4>1
      <4> QED BY <2>2, <2>4, <3>1, <4>2 DEF Prepared
    <3> QED BY <3>1, <3>2, <3>3, <3>4, <3>5 DEF Inv, Inputs
  <2> QED BY <1>2, <2>3, <2>5, <2>8, Silent
<1>5. CASE t0.src = src[q] /\ ~t0.staged
  <2>1. "publish_project" \in Labels /\ Moves(p, "publish_project", t0) /\ UNCHANGED writer
      BY <1>5 DEF Labels, Building, Moves, ValidateProject, IInv, Typed
  <2>2. ASSUME pc'[p] = "publish_project", task'[p] = t0 PROVE Inv(p)'
    <3>1. pc'[p] = "publish_project" /\ task'[p] = t0 /\ UNCHANGED <<src, out, ws, writer>> /\ Project(p)' = q
        BY <1>2, <2>1, <2>2 DEF inputs, published, Project
    <3>2. Control(p)' /\ Locks(p)'
        BY <1>1, <1>5, <3>1 DEF Inv, Control, Locks, Planning, Building, Reconciling, Rest
    <3>3. Progress(p)' /\ t0.since[q] <= src[q]
        BY <1>1, <3>1 DEF Inv, Progress, Rest
    <3>4. Prepared(p)'
        BY <1>1, <1>o, <1>5, <3>1, <3>3 DEF Prepared
    <3> QED BY <3>1, <3>2, <3>3, <3>4 DEF Inv, Inputs
  <2> QED BY <1>1, <1>2, <2>1, <2>2, Silent
<1> QED BY <1>3, <1>4, <1>5

\* loading the configuration,
LEMMA LoadKeeps == ASSUME IInv, NEW p \in Procs, Load(p) PROVE IInv'
<1> DEFINE t0 == task[p]
           t == [t0 EXCEPT !.layout = config]
<1>1. t0 \in Tasks /\ pc[p] = "load" /\ Inv(p)
    BY DEF Load, IInv, Typed
<1>2. t \in Tasks
    BY <1>1 DEF Tasks, IInv, Typed, TypeOK
<1>3. t.staged = t0.staged /\ t.stage = t0.stage /\ t.todo = t0.todo
      /\ t.unplanned = t0.unplanned /\ t.since = t0.since
    BY <1>1 DEF Tasks
<1>4. "read" \in Labels /\ Moves(p, "read", t)
    BY DEF Labels, Reconciling, Moves, Load
<1>5. started' \in Nat /\ faults' \in Nat /\ UNCHANGED <<inputs, published, writer>>
    BY DEF Load, IInv, Typed, TypeOK
<1> HIDE DEF t
<1>6. ASSUME pc'[p] = "read", task'[p] = t PROVE Inv(p)'
  <2>1. pc'[p] = "read" /\ task'[p] = t /\ UNCHANGED <<src, out, ws, writer>>
      BY <1>5, <1>6 DEF inputs, published
  <2>2. Control(p)' /\ Locks(p)' /\ Progress(p)' /\ Prepared(p)'
      BY <1>1, <1>3, <2>1 DEF Inv, Control, Locks, Progress, Prepared, Planning, Building,
                              Reconciling, Rest
  <2> QED BY <2>1, <2>2 DEF Inv, Inputs
<1> QED BY <1>2, <1>4, <1>5, <1>6, Silent

\* What is read belongs to the generations that are read with it.
LEMMA ReadInputsKeeps == ASSUME IInv, NEW p \in Procs, ReadInputs(p) PROVE IInv'
<1> DEFINE t0 == task[p]
           i == Identity(Visible(p), config)
           t == [t0 EXCEPT !.ident = i, !.gens = Generations, !.previous = ws]
           l == IF t0.staged THEN "validate" ELSE "lock"
<1>1. t0 \in Tasks /\ pc[p] = "read" /\ Inv(p) /\ t0.todo = {} /\ t0.unplanned = {}
    BY DEF ReadInputs, IInv, Typed, Inv, Control, Reconciling, Rest
<1>2. /\ Visible(p) \in Versions
      /\ Visible(p) = IF t0.staged THEN t0.stage ELSE SourcesOf(out)
      /\ \A q \in Projects : SourcesOf(out)[q] = out[q].src
    BY <1>1 DEF Visible, SourcesOf, Versions, Inv, Prepared, Rest, IInv, Typed, TypeOK
<1>3. i \in Identities /\ i.built = Visible(p)
    BY <1>2 DEF Identity, Identities, Versions, IInv, Typed, TypeOK
<1>4. ws \in Overlays /\ ws.gen \in Nat /\ \A q \in Projects : out[q].gen \in Nat
    BY DEF IInv, Typed, TypeOK, Overlays
<1>5. /\ Generations \in [Roots -> Nat] /\ Generations[Overlay] = ws.gen
      /\ \A q \in Projects : Generations[q] = out[q].gen
    BY <1>4, ProjectsAssumption DEF Generations, Roots, Overlay
<1>6. t \in Tasks
    BY <1>1, <1>3, <1>4, <1>5 DEF Tasks
<1>7. /\ t.staged = t0.staged /\ t.stage = t0.stage /\ t.todo = t0.todo
      /\ t.unplanned = t0.unplanned /\ t.since = t0.since
      /\ t.ident = i /\ t.gens = Generations /\ t.previous = ws
    BY <1>1 DEF Tasks
<1>8. l \in Labels /\ Moves(p, l, t)
    BY DEF Labels, Reconciling, Moves, ReadInputs
<1>9. started' \in Nat /\ faults' \in Nat /\ UNCHANGED <<inputs, published, writer>>
    BY DEF ReadInputs, IInv, Typed, TypeOK
<1> HIDE DEF t, i
<1>10. ASSUME pc'[p] = l, task'[p] = t PROVE Inv(p)'
  <2>1. pc'[p] = l /\ task'[p] = t /\ UNCHANGED <<src, out, ws, nextGen, writer>>
      BY <1>9, <1>10 DEF inputs, published
  <2>2. Control(p)' /\ Locks(p)'
      BY <1>1, <1>7, <2>1 DEF Inv, Control, Locks, Planning, Building, Reconciling, Rest
  <2>3. Progress(p)'
      BY <1>1, <1>2, <1>3, <1>7, <2>1 DEF Inv, Progress, Rest
  <2>4. Prepared(p)'
      BY <1>1, <1>7, <2>1 DEF Inv, Prepared, Rest
  <2>5. Inputs(p)'
    <3>1. ws.gen < nextGen /\ \A q \in Projects : out[q].src = 0 <=> out[q].gen = 0
        BY DEF IInv, Outputs
    <3> QED BY <1>2, <1>3, <1>5, <1>7, <2>1, <3>1 DEF Inputs
  <2> QED BY <2>2, <2>3, <2>4, <2>5 DEF Inv
<1> QED BY <1>6, <1>8, <1>9, <1>10, Silent

\* taking the locks of the outputs,
LEMMA LockOutputsKeeps == ASSUME IInv, NEW p \in Procs, LockOutputs(p) PROVE IInv'
<1> DEFINE t == task[p]
           S == {Overlay} \cup Known(t)
<1>1. t \in Tasks /\ pc[p] = "lock" /\ Inv(p) /\ ~t.staged
    BY DEF LockOutputs, IInv, Typed, Inv, Control
<1>2. S \in SUBSET Roots /\ \A r \in S : writer'[r] = p
    BY DEF LockOutputs, Lock, Known, Roots
<1>3. "validate" \in Labels /\ Moves(p, "validate", t)
    BY <1>2 DEF Labels, Reconciling, Moves, LockOutputs, IInv, Typed
<1>4. started' \in Nat /\ faults' \in Nat /\ UNCHANGED <<inputs, published>>
    BY DEF LockOutputs, IInv, Typed, TypeOK
<1>5. ASSUME pc'[p] = "validate", task'[p] = t PROVE Inv(p)'
  <2>1. pc'[p] = "validate" /\ task'[p] = t /\ UNCHANGED <<src, out, ws, nextGen>>
      BY <1>4, <1>5 DEF inputs, published
  <2>2. Control(p)' /\ Progress(p)'
      BY <1>1, <2>1 DEF Inv, Control, Progress, Planning, Building, Reconciling, Rest
  <2>3. Locks(p)'
      BY <1>1, <1>2, <2>1 DEF Locks, Known
  <2>4. Inputs(p)'
      BY <1>1, <2>1 DEF Inv, Inputs
  <2> QED BY <1>1, <2>1, <2>2, <2>3, <2>4 DEF Inv, Prepared
<1> QED BY <1>1, <1>3, <1>4, <1>5, Silent

\* The generations are compared so that the previous manifest is the published
\* one, and that projects without an index are still without.
LEMMA ValidateKeeps == ASSUME IInv, NEW p \in Procs, Validate(p) PROVE IInv'
<1> DEFINE t == task[p]
<1>1. t \in Tasks /\ pc[p] = "validate" /\ Inv(p)
    BY DEF Validate, IInv, Typed
<1>2. started' \in Nat /\ faults' \in Nat /\ UNCHANGED <<inputs, published, started>>
    BY DEF Validate, IInv, Typed, TypeOK
<1>3. CASE ~InputsUnchanged(p)
    BY <1>2, <1>3, EndKeeps DEF Validate, Rest
<1>4. CASE InputsUnchanged(p)
  <2>1. "publish" \in Labels /\ Moves(p, "publish", t) /\ UNCHANGED writer
      BY <1>4 DEF Labels, Reconciling, Moves, Validate, IInv, Typed
  <2>2. ASSUME pc'[p] = "publish", task'[p] = t PROVE Inv(p)'
    <3>1. pc'[p] = "publish" /\ task'[p] = t /\ UNCHANGED <<src, out, ws, nextGen, writer>>
        BY <1>2, <2>1, <2>2 DEF inputs, published
    <3>2. Control(p)' /\ Locks(p)' /\ Progress(p)' /\ Prepared(p)'
        BY <1>1, <3>1 DEF Inv, Control, Locks, Progress, Prepared, Planning, Building,
                          Reconciling, Rest
    <3>3. CASE t.staged
        BY <1>1, <3>1, <3>2, <3>3 DEF Inv, Inputs
    <3>4. CASE ~t.staged
      <4>1. \A q \in Projects : t.ident.built[q] # 0 => out[q].src = t.ident.built[q]
          BY <1>4, <3>4 DEF InputsUnchanged, Visible, SourcesOf, Known
      <4>2. /\ Generations[Overlay] = ws.gen
            /\ \A q \in Projects : Generations[q] = out[q].gen
          BY ProjectsAssumption DEF Generations, Roots, Overlay
      <4>3. t.previous = ws /\ \A q \in Projects : t.ident.built[q] = 0 => out[q].gen = 0
          BY <1>1, <1>4, <3>4, <4>2 DEF InputsUnchanged, Inv, Inputs
      <4>4. \A q \in Projects : out[q].gen = 0 => ws.ident.built[q] = 0
          BY DEF IInv, Outputs
      <4> QED BY <3>1, <3>2, <3>4, <4>1, <4>3, <4>4 DEF Inv, Inputs
    <3> QED BY <3>3, <3>4
  <2> QED BY <1>1, <1>2, <2>1, <2>2, Silent
<1> QED BY <1>3, <1>4

\* and an interruption.
LEMMA InterruptKeeps == ASSUME IInv, NEW p \in Procs, Interrupt(p) PROVE IInv'
<1>1. faults' \in Nat /\ UNCHANGED <<inputs, published, started>>
    BY DEF Interrupt, IInv, Typed, TypeOK
<1> QED BY <1>1, EndKeeps DEF Interrupt, Rest

-----------------------------------------------------------------------------
(* What happens outside, and the publications.                                *)

\* Sources that grow, and a configuration that is saved, disturb nobody.
LEMMA OutsideKeeps ==
    ASSUME IInv, (\E q \in Projects : Edit(q)) \/ SaveConfig
    PROVE  IInv'
<1>1. UNCHANGED <<published, writer, pc, task, started, faults>>
    BY DEF Edit, SaveConfig
<1>2. src' \in Versions /\ config' \in Nat /\ \A q \in Projects : src[q] \in Nat /\ src[q] <= src'[q]
    BY DEF Edit, SaveConfig, Versions, IInv, Typed, TypeOK
<1>3. Typed'
    BY <1>1, <1>2 DEF IInv, Typed, TypeOK, Versions, published
<1>4. Outputs'
    BY <1>1, <1>2 DEF IInv, Typed, TypeOK, Outputs, Versions, published
<1>5. Forward /\ \A r \in Procs : Frame(r) /\ Guarded(r)
    BY <1>1, <1>2 DEF Forward, Frame, Guarded, published, IInv, Typed, TypeOK
<1> QED BY <1>3, <1>4, <1>5, Undisturbed DEF IInv

\* A project output is replaced by a newer one, under its lock.
LEMMA PublishProjectKeeps ==
    ASSUME IInv, NEW p \in Procs, PublishProject(p)
    PROVE  IInv' /\ (\A q \in Projects : out[q].src <= out'[q].src) /\ ws' = ws
<1> DEFINE t0 == task[p]
           q == Project(p)
           t == [t0 EXCEPT !.todo = {}]
<1>1. t0 \in Tasks /\ pc[p] = "publish_project" /\ Inv(p) /\ ~t0.staged
      /\ t0.todo = {q} /\ q \in Projects /\ t0.unplanned = {}
    BY OnProject DEF PublishProject, IInv, Typed, Inv, Control, Building, Rest
<1>2. writer[q] = p /\ 1 <= t0.src /\ t0.since[q] <= t0.src /\ out[q].src <= t0.src /\ t0.src <= src[q]
    BY <1>1 DEF Inv, Locks, Prepared
<1>3. /\ t \in Tasks /\ t.todo = {} /\ t.staged = t0.staged /\ t.unplanned = t0.unplanned
      /\ t.since = t0.since
    BY <1>1 DEF Tasks
<1>4. "load" \in Labels /\ Moves(p, "load", t)
    BY DEF Labels, Reconciling, Moves, PublishProject
<1>5. t0.src \in Nat /\ nextGen \in Nat /\ ws.gen \in Nat /\ ws.gen < nextGen
    BY <1>1 DEF IInv, Typed, TypeOK, Tasks, Outputs, Overlays
<1>6. /\ UNCHANGED <<inputs, ws, started, faults>> /\ nextGen' = nextGen + 1
      /\ out' \in [Projects -> [gen : Nat, src : Nat]]
      /\ out'[q] = [gen |-> nextGen, src |-> t0.src]
      /\ \A x \in Projects \ {q} : out'[x] = out[x]
    BY <1>1, <1>5 DEF PublishProject, IInv, Typed, TypeOK
<1>7. \A x \in Projects : out[x].src \in Nat /\ out[x].src <= out'[x].src
    BY <1>2, <1>6 DEF IInv, Typed, TypeOK
<1> HIDE DEF t
<1>8. Typed' /\ pc'[p] = "load" /\ task'[p] = t
  <2>1. writer' \in [Roots -> Procs \cup {Nobody}]
      BY DEF PublishProject, Released, IInv, Typed, TypeOK
  <2>2. pc' \in [Procs -> Labels] /\ pc'[p] = "load"
      BY <1>4 DEF Moves, Goto, IInv, Typed, TypeOK, Labels, Planning, Building, Reconciling
  <2>3. task' \in [Procs -> Tasks] /\ task'[p] = t
      BY <1>3, <1>4 DEF Moves, IInv, Typed
  <2> QED BY <1>5, <1>6, <2>1, <2>2, <2>3
          DEF IInv, Typed, TypeOK, inputs, Labels, Planning, Building, Reconciling
<1>9. Outputs'
    BY <1>1, <1>2, <1>5, <1>6 DEF IInv, Typed, TypeOK, Outputs, inputs
<1>10. Forward
    BY <1>5, <1>6, <1>7 DEF Forward, inputs, IInv, Typed, TypeOK
<1>11. \A r \in Procs \ {p} : Guarded(r)
    BY <1>2, <1>6 DEF Guarded
<1>12. \A r \in Procs \ {p} : Inv(r)'
    BY <1>4, <1>8, <1>10, <1>11, MovesFrame, Undisturbed DEF IInv
<1>13. Inv(p)'
  <2>1. Control(p)'
      BY <1>1, <1>3, <1>8 DEF Control, Planning, Building, Reconciling, Rest
  <2>2. Progress(p)'
    <3>1. /\ t0.since \in Versions
          /\ \A x \in Projects : t0.since[x] <= src[x] /\ (x # q => t0.since[x] <= out[x].src)
        BY <1>1 DEF Inv, Progress, Rest
    <3> QED BY <1>1, <1>2, <1>3, <1>6, <1>8, <3>1 DEF Progress, inputs
  <2> QED BY <1>1, <1>3, <1>8, <2>1, <2>2 DEF Inv, Locks, Prepared, Inputs
<1> QED BY <1>6, <1>7, <1>8, <1>9, <1>12, <1>13 DEF IInv

\* The overlay is replaced by one of what is published in the same step.
LEMMA PublishKeeps ==
    ASSUME IInv, NEW p \in Procs, Publish(p)
    PROVE  /\ IInv'
           /\ \A q \in Projects :
                 /\ out[q].src <= out'[q].src
                 /\ ws'.ident.built[q] = out'[q].src
                       \/ (ws.ident.built[q] = 0 /\ ws'.ident.built[q] = 0)
                 /\ task[p].since[q] <= ws'.ident.built[q]
<1> DEFINE t == task[p]
<1>1. t \in Tasks /\ pc[p] = "publish" /\ Inv(p)
    BY DEF Publish, IInv, Typed
<1>2. t.ident \in Identities /\ t.layout \in Nat /\ t.previous \in Overlays /\ t.previous = ws
    BY <1>1 DEF Tasks, Inv, Inputs
<1>3. nextGen \in Nat /\ ws.gen < nextGen /\ ws \in Overlays /\ t.ident.built \in Versions
      /\ \A q \in Projects : out[q] \in [gen : Nat, src : Nat]
    BY <1>2 DEF IInv, Typed, TypeOK, Outputs, Identities, Versions
<1>4. UNCHANGED <<inputs, started, faults>> /\ nextGen' = nextGen + 1 /\ ws' = Reconciled(t)
    BY DEF Publish
<1>5. /\ ws'.gen = nextGen /\ ws'.ident = t.ident /\ ws' \in Overlays
      /\ \A k \in Projections : ws'.print[k] # NoIdentity => ws'.files[k] = ws'.print[k]
  <2>1. \A k \in Projections :
            t.ident \in Identities /\ t.previous.print[k] \in Identities /\ ws.files[k] \in Identities
      BY <1>2, <1>3 DEF Overlays
  <2>2. ws' \in Overlays
      BY <1>2, <1>3, <1>4, <2>1 DEF Reconciled, Overlays
  <2>3. \A k \in Projections : ws.print[k] # NoIdentity => ws.files[k] = ws.print[k]
      BY DEF IInv, Outputs
  <2> QED BY <1>2, <1>4, <2>2, <2>3 DEF Reconciled
<1>6. \A q \in Projects :
          /\ t.ident.built[q] # 0 => writer[q] = p /\ out[q].src <= t.ident.built[q]
                                     /\ out'[q] = [gen |-> nextGen, src |-> t.ident.built[q]]
          /\ t.ident.built[q] = 0 => out'[q] = out[q] /\ ws.ident.built[q] = 0
          /\ t.ident.built[q] <= src[q]
  <2>1. CASE t.staged
    <3>1. /\ t.ident.built = t.stage
          /\ \A q \in Projects : /\ t.stage[q] <= src[q]
                                 /\ t.stage[q] # 0 => writer[q] = p /\ out[q].src <= t.stage[q]
                                 /\ t.stage[q] = 0 => ws.ident.built[q] = 0
        BY <1>1, <2>1 DEF Inv, Locks, Prepared, Inputs, Rest
    <3> QED BY <2>1, <3>1 DEF Publish, Known
  <2>2. CASE ~t.staged
    <3>1. \A q \in Projects : IF t.ident.built[q] # 0
                              THEN writer[q] = p /\ out[q].src = t.ident.built[q]
                              ELSE ws.ident.built[q] = 0
        BY <1>1, <2>2 DEF Inv, Locks, Inputs
    <3>2. \A q \in Projects : out[q].src <= src[q] /\ 0 <= src[q]
        BY DEF IInv, Outputs, Typed, TypeOK
    <3> QED BY <1>3, <2>2, <3>1, <3>2 DEF Publish, Known
  <2> QED BY <2>1, <2>2
<1>7. writer[Overlay] = p
    BY <1>1 DEF Inv, Locks, Rest
<1>8. out' \in [Projects -> [gen : Nat, src : Nat]]
  <2>1. ASSUME NEW q \in Projects PROVE out'[q] \in [gen : Nat, src : Nat]
    <3>1. t.ident.built[q] \in Nat
        BY <1>3 DEF Versions
    <3>2. [gen |-> nextGen, src |-> t.ident.built[q]] \in [gen : Nat, src : Nat]
        BY <1>3, <3>1
    <3> QED BY <1>3, <1>6, <3>2
  <2> QED BY <2>1 DEF Publish
<1>9. "ok" \in Labels /\ Moves(p, "ok", NoTask)
    BY DEF Labels, Rest, Moves, Publish, Ends
<1>10. Typed' /\ pc'[p] = "ok"
  <2>1. writer' \in [Roots -> Procs \cup {Nobody}]
      BY DEF Publish, Ends, Released, IInv, Typed, TypeOK
  <2>2. pc' \in [Procs -> Labels] /\ pc'[p] = "ok"
      BY <1>9 DEF Moves, Goto, IInv, Typed, TypeOK, Labels, Planning, Building, Reconciling
  <2>3. task' \in [Procs -> Tasks]
      BY <1>9, NoTaskTyped DEF Moves, IInv, Typed
  <2> QED BY <1>3, <1>4, <1>5, <1>8, <2>1, <2>2, <2>3
          DEF IInv, Typed, TypeOK, inputs, Labels, Planning, Building, Reconciling
<1>11. \A q \in Projects :
          /\ out[q].src \in Nat /\ t.ident.built[q] \in Nat /\ src' = src
          /\ 1 <= src[q] /\ out[q].src <= src[q] /\ (out[q].src = 0 <=> out[q].gen = 0)
    BY <1>3, <1>4 DEF IInv, Outputs, Versions, inputs
<1>f. ASSUME NEW q \in Projects
      PROVE  /\ out[q].src <= out'[q].src /\ out'[q].src <= src[q]
             /\ out'[q].src = 0 <=> out'[q].gen = 0
             /\ out'[q].src = 0 => ws'.ident.built[q] = 0
             /\ ws'.ident.built[q] = out'[q].src
                   \/ (ws.ident.built[q] = 0 /\ ws'.ident.built[q] = 0)
  <2>1. CASE t.ident.built[q] # 0
    <3>1. out'[q].src = t.ident.built[q] /\ out'[q].gen = nextGen
        BY <1>6, <1>8, <2>1
    <3>2. nextGen # 0
        BY <1>3 DEF Overlays
    <3> QED BY <1>5, <1>6, <1>11, <2>1, <3>1, <3>2
  <2>2. CASE t.ident.built[q] = 0
    <3>1. out'[q] = out[q] /\ ws.ident.built[q] = 0 /\ ws'.ident.built[q] = 0
        BY <1>5, <1>6, <2>2
    <3> QED BY <1>11, <3>1
  <2> QED BY <2>1, <2>2
<1>12. Outputs'
    BY <1>3, <1>4, <1>5, <1>11, <1>f DEF Outputs
<1>13. Forward
  <2>1. \A q \in Projects : src[q] <= src'[q]
      BY <1>11 DEF IInv, Typed, TypeOK
  <2> QED BY <1>3, <1>4, <1>5, <1>f, <2>1 DEF Forward
<1>14. \A r \in Procs \ {p} : Guarded(r)
    BY <1>6, <1>7, <1>3 DEF Guarded, Versions
<1>15. \A r \in Procs \ {p} : Inv(r)'
    BY <1>9, <1>10, <1>13, <1>14, MovesFrame, Undisturbed DEF IInv
<1>16. Inv(p)'
  <2>1. pc'[p] \in Rest => Inv(p)'
      BY DEF Inv, Control, Locks, Progress, Prepared, Inputs, Rest, Planning, Building, Reconciling
  <2> QED BY <1>10, <2>1 DEF Rest
<1>17. \A q \in Projects : t.since[q] <= t.ident.built[q]
    BY <1>1 DEF Inv, Progress, Rest
<1>18. IInv'
    BY <1>10, <1>12, <1>15, <1>16 DEF IInv
<1> QED BY <1>5, <1>17, <1>18, <1>f

-----------------------------------------------------------------------------
(* The invariant, and what follows from it.                                   *)

LEMMA InitIInv == Init => IInv
<1> SUFFICES ASSUME Init PROVE IInv
    OBVIOUS
<1>1. Typed
  <2>1. src \in Versions /\ config \in Nat /\ out \in [Projects -> [gen : Nat, src : Nat]]
      BY DEF Init, Versions, NotIndexed
  <2>2. /\ writer \in [Roots -> Procs \cup {Nobody}] /\ nextGen \in Nat
        /\ started \in Nat /\ faults \in Nat
      BY DEF Init
  <2>3. pc \in [Procs -> Rest]
      BY DEF Init, Rest
  <2>4. ws \in Overlays /\ task \in [Procs -> Tasks]
      BY NoTaskTyped DEF Init
  <2> QED BY <2>1, <2>2, <2>3, <2>4 DEF Typed, TypeOK, Versions
<1>2. Outputs
    BY ProjectsAssumption DEF Init, Outputs, NotIndexed, NoOverlay, NoIdentity, Identity
<1>3. \A p \in Procs : Inv(p)
    BY AtRest DEF Init, Rest
<1> QED BY <1>1, <1>2, <1>3 DEF IInv

\* One step per action.
LEMMA NextIInv == IInv /\ [Next]_vars => IInv'
<1> SUFFICES ASSUME IInv, [Next]_vars PROVE IInv'
    OBVIOUS
<1>1. ASSUME NEW p \in Procs, Starts(p) PROVE IInv'
    BY <1>1, StartKeeps DEF Starts
<1>2. ASSUME NEW p \in Procs, Step(p) PROVE IInv'
    BY <1>2, PlanKeeps, CheckKeeps, StageOutputsKeeps, ExtractKeeps, CompareKeeps,
       LockProjectKeeps, ValidateProjectKeeps, PublishProjectKeeps, LoadKeeps,
       ReadInputsKeeps, LockOutputsKeeps, ValidateKeeps, PublishKeeps DEF Step
<1>3. ASSUME NEW p \in Procs, Interrupt(p) PROVE IInv'
    BY <1>3, InterruptKeeps
<1>4. CASE (\E q \in Projects : Edit(q)) \/ SaveConfig
    BY <1>4, OutsideKeeps
<1>5. CASE UNCHANGED vars
  <2>1. Typed' /\ Outputs'
      BY <1>5 DEF vars, inputs, published, IInv, Typed, TypeOK, Outputs
  <2>2. Forward /\ \A r \in Procs : Frame(r) /\ Guarded(r)
      BY <1>5 DEF vars, inputs, published, Forward, Frame, Guarded, IInv, Typed, TypeOK
  <2> QED BY <2>1, <2>2, Undisturbed DEF IInv
<1> QED BY <1>1, <1>2, <1>3, <1>4, <1>5 DEF Next

\* What every process relies on is never broken.
THEOREM Invariance == Spec => []IInv
BY InitIInv, NextIInv, PTL DEF Spec

\* The variables have their types (workspace_reconcile.go, workspace_update.go).
THEOREM WorkspaceTyped == Spec => []TypeOK
<1>1. IInv => TypeOK
    BY DEF IInv, Typed
<1> QED BY <1>1, Invariance, PTL

\* A projection that is complete and not marked stale was made from the inputs
\* of its overlay, whichever refreshes ran beside each other
\* (workspace_reconcile.go:330-357).
THEOREM ProjectionsAreHonest == Spec => []ProjectionsHonest
<1>1. IInv => ProjectionsHonest
    BY DEF IInv, Outputs, ProjectionsHonest, Stale
<1> QED BY <1>1, Invariance, PTL

\* Only the two publications change what is published.
LEMMA OthersPublishNothing ==
    ASSUME [Next]_vars
    PROVE  \/ UNCHANGED published
           \/ \E p \in Procs : PublishProject(p) \/ Publish(p)
BY DEF Next, Starts, Step, Interrupt, Edit, SaveConfig, vars, StartBuild, StartRefresh,
       StartUpdate, Start, Plan, Check, StageOutputs, Extract, Compare, LockProject,
       ValidateProject, Load, ReadInputs, LockOutputs, Validate

\* Every step is one of the view or changes neither outputs nor overlay.
LEMMA ViewStep ==
    IInv /\ [Next]_vars =>
        [View!PublishProject \/ View!Reconcile]_<<SourcesOf(out), ws.ident.built>>
<1> SUFFICES ASSUME IInv, [Next]_vars
             PROVE  [View!PublishProject \/ View!Reconcile]_<<SourcesOf(out), ws.ident.built>>
    OBVIOUS
<1>1. CASE UNCHANGED published
    BY <1>1 DEF published, SourcesOf
<1>2. \A q \in Projects : SourcesOf(out)[q] = out[q].src /\ SourcesOf(out')[q] = out'[q].src
                          /\ out[q].src \in Nat /\ out'[q].src \in Nat
    BY NextIInv DEF SourcesOf, IInv, Typed, TypeOK
<1>3. ASSUME NEW p \in Procs, PublishProject(p) PROVE View!PublishProject
  <2>1. ws' = ws /\ \A q \in Projects : out[q].src <= out'[q].src
      BY <1>3, PublishProjectKeeps
  <2> QED BY <1>2, <2>1 DEF View!PublishProject, View!Grows
<1>4. ASSUME NEW p \in Procs, Publish(p) PROVE View!Reconcile
  <2>1. \A q \in Projects : /\ out[q].src <= out'[q].src
                            /\ ws'.ident.built[q] = out'[q].src
                                  \/ (ws.ident.built[q] = 0 /\ ws'.ident.built[q] = 0)
      BY <1>4, PublishKeeps
  <2> QED BY <1>2, <2>1 DEF View!Reconcile, View!Grows
<1> QED BY <1>1, <1>3, <1>4, OthersPublishNothing

\* Reconciliation implements the view: the overlay is only ever replaced by one
\* of what is published in that step, and nothing goes back to older sources
\* (validateInputs, workspace_reconcile.go:201).
THEOREM OverlayIsView == Spec => ViewSpec
<1>1. Init => View!Init
    BY DEF Init, View!Init, SourcesOf, NotIndexed, NoOverlay, NoIdentity, Identity
<1> QED BY <1>1, ViewStep, Invariance, PTL DEF Spec, ViewSpec, View!Spec

\* A command reaches "ok" by finding that there is nothing to do, or by a
\* publication.
LEMMA CoversStep ==
    IInv /\ [Next]_vars =>
        \A p \in Procs : pc[p] \notin Rest /\ pc'[p] = "ok" =>
            \A q \in Projects : ws'.ident.built[q] >= task[p].since[q]
<1> SUFFICES ASSUME IInv, [Next]_vars, NEW p \in Procs, pc[p] \notin Rest, pc'[p] = "ok",
                    NEW q \in Projects
             PROVE  ws'.ident.built[q] >= task[p].since[q]
    OBVIOUS
<1>1. Check(p) \/ Publish(p)
  <2>1. pc'[p] # pc[p]
      BY DEF Rest
  <2>3. PICK r \in Procs : Starts(r) \/ Step(r) \/ Interrupt(r)
      BY <2>1 DEF Next, Edit, SaveConfig, vars
  <2>4. PICK l : Goto(r, l)
      BY <2>3 DEF Starts, StartBuild, StartRefresh, StartUpdate, Step, Interrupt, Ends, Plan, Check,
                  StageOutputs, Extract, Compare, LockProject, ValidateProject, PublishProject,
                  Load, ReadInputs, LockOutputs, Validate, Publish
  <2>5. r = p /\ pc'[p] = l
      BY <2>1, <2>4 DEF Goto, IInv, Typed, TypeOK
  <2>6. ~Starts(p)
      BY DEF Starts, StartBuild, StartRefresh, StartUpdate, Start
  <2>7. ~Interrupt(p)
      BY DEF Interrupt, Ends, Goto, IInv, Typed, TypeOK
  <2>8. ~(Plan(p) \/ StageOutputs(p) \/ Extract(p) \/ LockProject(p) \/ PublishProject(p)
          \/ Load(p) \/ ReadInputs(p) \/ LockOutputs(p))
      BY DEF Plan, StageOutputs, Extract, LockProject, PublishProject, Load, ReadInputs,
             LockOutputs, Goto, IInv, Typed, TypeOK
  <2>9. ~(Compare(p) \/ ValidateProject(p) \/ Validate(p))
      BY DEF Compare, ValidateProject, Validate, Ends, Goto, IInv, Typed, TypeOK
  <2> QED BY <2>3, <2>5, <2>6, <2>7, <2>8, <2>9 DEF Step
<1>2. CASE Publish(p)
  <2>1. ws'.ident.built[q] \in Nat /\ task[p].since[q] <= ws'.ident.built[q]
      BY <1>2, PublishKeeps DEF IInv, Typed, TypeOK, Overlays, Identities
  <2>2. task[p].since[q] \in Nat
      BY DEF IInv, Inv, Progress, Versions
  <2> QED BY <2>1, <2>2
<1>3. CASE Check(p)
  <2>1. OverlayCurrent(task[p].target) /\ SourcesOf(out) = src /\ ws' = ws
    <3>1. pc'[p] # "load" /\ pc'[p] # "idle"
        OBVIOUS
    <3> QED BY <1>3, <3>1 DEF Check, Ends, Goto, published, IInv, Typed, TypeOK
  <2>2. ws'.ident.built[q] = src[q]
      BY <2>1 DEF OverlayCurrent, Identity
  <2>3. src[q] \in Nat /\ task[p].since[q] \in Nat /\ task[p].since[q] <= src[q]
      BY DEF IInv, Inv, Progress, Versions, Typed, TypeOK
  <2> QED BY <2>2, <2>3
<1> QED BY <1>1, <1>2, <1>3

\* A command that returns success covers what was published when it began and
\* the sources, as they were then, of the projects it had to look at.
THEOREM SuccessIsCovering == Spec => SuccessCovers
BY CoversStep, Invariance, PTL DEF Spec, SuccessCovers

=============================================================================
