---------------------------- MODULE ServicesProofs ----------------------------
(***************************************************************************)
(* Theorems about the four components beside the build, each of them by    *)
(* itself and as MCServices names its properties.                          *)
(*                                                                         *)
(* The supervisor, for any number of installs, crashes and stop requests:  *)
(* it starts no worker beside another one whose status it can read, and    *)
(* leaves none behind unless a supervisor died.  What makes it inductive   *)
(* is the worker that has been started and has not announced itself:       *)
(* nobody sees it, so that only the lock and the fresh heartbeat of the    *)
(* supervisor that started it keep the next one out.                       *)
(*                                                                         *)
(* The dashboard configuration, for any editors, contents and number of    *)
(* writes: no save is lost.                                                *)
(*                                                                         *)
(* The update of a git repository, for any branches and any number of      *)
(* steps of the user and of others: it only switches to and fast-forwards  *)
(* the default branch, and what it reports is so.                          *)
(*                                                                         *)
(* The input of the MCP server, for input of any length, a limit of any    *)
(* size, pieces of any size and any number of replacements: what is kept   *)
(* is what was read and not dealt with, and every request is answered      *)
(* once, whole and in order.                                               *)
(***************************************************************************)
EXTENDS MCServices, TLAPS, SequenceTheorems, WellFoundedInduction

-----------------------------------------------------------------------------
(* The supervisor.                                                         *)

Leaving == {"leave_stopped", "leave_upgrading", "release_stopped", "release_upgrading"}
Beginning == {"resume", "acquire", "announce", "adopt"}

\* The types the argument needs.
Types ==
    /\ pc \in Looping \cup Down \cup Beginning \cup Leaving \cup {"leave_failed", "release_failed"}
    /\ known \in {"none", "child", "adopted"}
    /\ worker \in {"none", "starting", "idle", "updating", "dead"}
    /\ second \in {"none", "starting", "refused"}
    /\ json \in Runtimes /\ {token, lock, lastToken, deaths, faults} \subseteq Nat

\* A supervisor that runs holds the lock and has a fresh heartbeat.
Present ==
    /\ pc \in {"announce", "adopt"} \cup Looping => lock # None
    /\ pc \in {"adopt"} \cup Looping => json.fresh /\ ~json.upgrading

\* A worker that nobody sees yet belongs to the supervisor that started it, or to
\* one that died and still keeps the others out.
Unseen ==
    worker = "starting" \/ second = "starting" =>
        /\ lock # None /\ json.fresh /\ ~json.upgrading
        /\ \/ pc \in {"select", "poll", "act"} /\ known = "child"
           \/ pc \in {"dead", "resume", "acquire"}

\* A supervisor that waits for no worker has none, unless it could not read the
\* status of one that it adopted.
Accounted ==
    /\ pc \in {"start"} \cup Leaving => known = "none"
    /\ pc \in Looping \cup Leaving /\ known = "none" /\ (deaths = 0 \/ faults = 0) => worker = "none"

\* Nobody is adopted, and no child is started beside another worker, but after the
\* death of a supervisor, and the latter only after a status could not be read.
Orphaned ==
    /\ known = "adopted" /\ pc \in Looping => deaths > 0
    /\ second # "none" => deaths > 0 /\ faults > 0 /\ worker # "starting"
    /\ pc \in {"leave_failed", "release_failed"} => deaths > 0

\* Unless a supervisor died there is no worker without a supervisor in its loop.
Drained == deaths = 0 /\ pc \in Down \cup Beginning => worker = "none"

IInv == Types /\ Present /\ Unseen /\ Accounted /\ Orphaned /\ Drained

-----------------------------------------------------------------------------

\* The invariant holds at the start.
LEMMA InitIInv == Init => IInv
BY DEF Init, IInv, Types, Present, Unseen, Accounted, Orphaned, Drained, Runtimes, NoRuntime, None,
       Down, Looping, Leaving, Beginning

\* The steps of the supervisor.
LEMMA SupervisorIInv == ASSUME IInv, SupervisorStep PROVE IInv'
<1> USE DEF IInv, Types, Down, Looping, Leaving, Beginning, Goto, files, workervars, user, bounds
<1>1. CASE Resume
    BY <1>1 DEF Resume, loopvars, Present, Unseen, Accounted, Orphaned, Drained, Runtimes
<1>2. CASE Acquire
    BY <1>2 DEF Acquire, loopvars, Present, Unseen, Accounted, Orphaned, Drained, None
<1>3. CASE Announce
  <2>1. json' \in Runtimes /\ json'.fresh /\ ~json'.upgrading
      BY <1>3 DEF Announce, Runtimes
  <2> QED BY <1>3, <2>1 DEF Announce, loopvars, Present, Unseen, Accounted, Orphaned, Drained
<1>4. CASE Adopt
    BY <1>4 DEF Adopt, WorkerRuns, Present, Unseen, Accounted, Orphaned, Drained
<1>a. CASE AdoptFails
    BY <1>a DEF AdoptFails, Unreadable, loopvars, Present, Unseen, Accounted, Orphaned, Drained
<1>5. CASE Poll
    BY <1>5 DEF Poll, Present, Unseen, Accounted, Orphaned, Drained
<1>6. CASE Act
    BY <1>6 DEF Act, Leave, Drain, StartDue, Watch, Unreadable, Present, Unseen, Accounted, Orphaned, Drained
<1>7. CASE StartWorker
    BY <1>7 DEF StartWorker, Present, Unseen, Accounted, Orphaned, Drained
<1>8. CASE Reap
    BY <1>8 DEF Reap, WorkerEnded, WorkerRuns, Unreadable, Present, Unseen, Accounted, Orphaned, Drained
<1>9. CASE Tick
    BY <1>9 DEF Tick, Present, Unseen, Accounted, Orphaned, Drained
<1>10. CASE LastWord
    BY <1>10 DEF LastWord, loopvars, Present, Unseen, Accounted, Orphaned, Drained, Runtimes
<1>11. CASE Release
    BY <1>11 DEF Release, loopvars, Present, Unseen, Accounted, Orphaned, Drained, None
<1> QED BY <1>1, <1>2, <1>3, <1>4, <1>a, <1>5, <1>6, <1>7, <1>8, <1>9, <1>10, <1>11 DEF SupervisorStep

\* The worker, time, crashes and the users.
LEMMA OthersIInv ==
    ASSUME IInv,
           \/ RetryDue \/ WorkerStep \/ WorkerEnds \/ SecondStep
           \/ SupervisorDies \/ WorkerDies \/ Respawn \/ SupervisorExpires \/ WorkerExpires
           \/ \E v \in Versions : Install(v)
           \/ Start \/ Ask \/ WriteRequest \/ RequestWorker
    PROVE  IInv'
<1> USE DEF IInv, Types, Down, Looping, Leaving, Beginning, Goto, Present, Unseen, Accounted,
            Orphaned, Drained
<1>1. CASE RetryDue
    BY <1>1 DEF RetryDue, files, workervars, bounds
<1>2. CASE WorkerStep
    BY <1>2 DEF WorkerStep, files, loopvars, bounds
<1>3. CASE WorkerEnds
    BY <1>3 DEF WorkerEnds, files, loopvars, bounds
<1>a. CASE SecondStep
    BY <1>a DEF SecondStep, files, loopvars, bounds
<1>4. CASE SupervisorDies
    BY <1>4 DEF SupervisorDies, files, loopvars, workervars
<1>b. CASE WorkerDies
    BY <1>b DEF WorkerDies, files, loopvars
<1>5. CASE Respawn
    BY <1>5 DEF Respawn, files, loopvars, workervars, bounds
<1>6. CASE SupervisorExpires
    BY <1>6 DEF SupervisorExpires, loopvars, workervars, bounds, Runtimes
<1>7. CASE WorkerExpires
    BY <1>7 DEF WorkerExpires, files, loopvars, bounds
<1>8. CASE \E v \in Versions : Install(v)
    BY <1>8 DEF Install, files, loopvars, workervars
<1>9. CASE Start
    BY <1>9 DEF Start, files, loopvars, workervars, bounds
<1>10. CASE Ask
    BY <1>10 DEF Ask, files, loopvars, workervars, bounds
<1>11. CASE WriteRequest
    BY <1>11 DEF WriteRequest, loopvars, workervars, bounds
<1>12. CASE RequestWorker
    BY <1>12 DEF RequestWorker, files, loopvars, bounds
<1> QED BY <1>1, <1>2, <1>3, <1>a, <1>4, <1>b, <1>5, <1>6, <1>7, <1>8, <1>9, <1>10, <1>11, <1>12

\* Every step keeps the invariant.
LEMMA NextIInv == IInv /\ [Next]_vars => IInv'
<1>1. IInv /\ UNCHANGED vars => IInv'
    BY DEF vars, loopvars, files, workervars, bounds, IInv, Types, Present, Unseen, Accounted,
           Orphaned, Drained
<1> QED BY <1>1, SupervisorIInv, OthersIInv DEF Next

\* The invariant holds always (supervise, supervisor.go:149-310).
THEOREM Invariance == Spec => []IInv
BY InitIInv, NextIInv, PTL DEF Spec

\* No worker is started beside another one, and none is left behind between two
\* executables or after the end (supervisor.go:225-288).
THEOREM NoWorkerLeftBehind == Spec => []NoneLeftBehind
<1>1. IInv => NoneLeftBehind
    BY DEF IInv, Types, Accounted, Orphaned, Drained, NoneLeftBehind, Looping, Leaving, Down, Beginning
<1> QED BY <1>1, Invariance, PTL

-----------------------------------------------------------------------------
(* The editors of the dashboard configuration.                             *)

Texts == Contents \cup {NoFile}

\* The types the argument needs.
EditorTypes ==
    /\ holds \subseteq Editors
    /\ editorPc \in [Editors -> Dashboard!Rest \cup {"loaded", "lock", "compare", "write", "rename"}]
    /\ task \in [Editors -> [content : Texts, expected : Texts]]
    /\ byHand \in [Editors -> BOOLEAN]

\* An editor past the lock is its only holder.
OneEditor == \A e \in Editors : editorPc[e] \in {"compare", "write", "rename"} => holds = {e}

\* Once compared, the file stays what the editor expects, but for changes by hand.
Compared ==
    \A e \in Editors : editorPc[e] \in {"write", "rename"} => file = task[e].expected \/ byHand[e]

EditorIInv == file \in Texts /\ EditorTypes /\ OneEditor /\ Compared

-----------------------------------------------------------------------------

\* Initially nobody holds the lock and nobody is past it.
LEMMA EditorsStart == Dashboard!Init => EditorIInv
BY DEF Dashboard!Init, EditorIInv, EditorTypes, Texts, OneEditor, Compared, Dashboard!Rest

\* Each step of an editor keeps the invariant.
LEMMA EditorSteps ==
    ASSUME EditorIInv, NEW e \in Editors, Dashboard!Step(e)
    PROVE  EditorIInv'
<1> USE DEF EditorIInv, EditorTypes, Texts, Dashboard!Rest, Dashboard!Goto, Dashboard!Revision
<1>1. CASE Dashboard!Load(e)
    BY <1>1 DEF Dashboard!Load, OneEditor, Compared
<1>2. CASE Dashboard!Edit(e)
    BY <1>2 DEF Dashboard!Edit, OneEditor, Compared
<1>3. CASE Dashboard!Acquire(e)
    BY <1>3 DEF Dashboard!Acquire, OneEditor, Compared
<1>4. CASE Dashboard!Compare(e)
    BY <1>4 DEF Dashboard!Compare, Dashboard!Return, OneEditor, Compared
<1>5. CASE Dashboard!WriteTemp(e)
    BY <1>5 DEF Dashboard!WriteTemp, Dashboard!Return, OneEditor, Compared
<1>6. CASE Dashboard!Rename(e)
  <2>1. holds = {e} /\ \A d \in Editors \ {e} : editorPc[d] \notin {"compare", "write", "rename"}
      BY <1>6 DEF Dashboard!Rename, OneEditor
  <2>2. editorPc'[e] \in {"saved", "failed"} /\ \A d \in Editors \ {e} : editorPc'[d] = editorPc[d]
      BY <1>6 DEF Dashboard!Rename, Dashboard!Return
  <2>3. OneEditor' /\ Compared'
      BY <2>1, <2>2 DEF OneEditor, Compared
  <2>4. task' \in [Editors -> [content : Texts, expected : Texts]]
      BY <1>6 DEF Dashboard!Rename
  <2> QED BY <1>6, <2>3, <2>4 DEF Dashboard!Rename, Dashboard!Return
<1> QED BY <1>1, <1>2, <1>3, <1>4, <1>5, <1>6 DEF Dashboard!Step

\* So do a crash and a change by hand.
LEMMA EditorsKeep == EditorIInv /\ [Dashboard!Next]_(Dashboard!vars) => EditorIInv'
<1> SUFFICES ASSUME EditorIInv, [Dashboard!Next]_(Dashboard!vars) PROVE EditorIInv'
    OBVIOUS
<1>1. CASE Dashboard!ByHand
    BY <1>1 DEF Dashboard!ByHand, EditorIInv, EditorTypes, Texts, OneEditor, Compared
<1>2. ASSUME NEW e \in Editors, Dashboard!Crash(e) PROVE EditorIInv'
    BY <1>2 DEF Dashboard!Crash, Dashboard!Goto, Dashboard!Rest, EditorIInv, EditorTypes, Texts,
                OneEditor, Compared
<1>3. CASE UNCHANGED Dashboard!vars
    BY <1>3 DEF Dashboard!vars, EditorIInv, EditorTypes, Texts, OneEditor, Compared
<1> QED BY <1>1, <1>2, <1>3, EditorSteps DEF Dashboard!Next

\* The editors exclude each other from the comparison to the rename, and what
\* was compared is what is replaced.
THEOREM EditorsExclude == Dashboard!Spec => []EditorIInv
BY EditorsStart, EditorsKeep, PTL DEF Dashboard!Spec

\* Whatever a rename replaces is what its editor loaded or saved last, or was
\* changed by hand after the comparison (workspace_dashboard_config.go).
THEOREM NoSaveIsLost == Dashboard!Spec => NoLostSave
<1>1. EditorIInv => \A e \in Editors :
                  editorPc[e] = "rename" /\ file' # file => file = task[e].expected \/ byHand[e]
    BY DEF EditorIInv, Compared
<1> QED BY <1>1, EditorsExclude, PTL DEF Dashboard!Spec, NoLostSave, Dashboard!NoLostSave

-----------------------------------------------------------------------------
(* The update of a git repository.                                         *)

\* The names a default branch is looked for under are names of branches.
BranchesSuit ==
    /\ {"main", "master"} \subseteq Branches /\ Git!NoBranch \notin Branches
    /\ OriginHead \in Branches \cup {Git!NoBranch}

\* The types the argument needs.
GitTypes ==
    /\ origin \in Git!Refs /\ tracked \in Git!Refs /\ local \in Git!Refs
    /\ head \in Branches \cup {Git!NoBranch} /\ detachedAt \in Git!Commits
    /\ outside \in Nat

\* From the second inspection on the target is a branch, and what was fetched of
\* it stays; as long as the user did nothing the repository is clean.
Inspection ==
    gitPc \in {"switch", "merge", "final"} =>
        /\ fetched.target \in Branches
        /\ tracked[fetched.target] = fetched.targetCommit
        /\ since = {} => ~dirty /\ ~operation

\* Once switched, HEAD is at the target unless the user left it.
Switched == gitPc \in {"merge", "final"} /\ "switch" \notin since => head = fetched.target

\* Once merged, the target contains what was fetched.
Merged ==
    (gitPc = "final" \/ result \in {"updated", "up_to_date"}) /\ "switch" \notin since =>
        head = fetched.target /\ head \in Branches /\ fetched.targetCommit \subseteq local[head]

Unreported == gitPc # "done" => result = "none"

GitIInv == GitTypes /\ Inspection /\ Switched /\ Merged /\ Unreported

-----------------------------------------------------------------------------

\* The invariant holds at the start.
LEMMA GitStarts == ASSUME Git!Init PROVE GitIInv
<1>1. {1} \in Git!Commits /\ {1, 2} \in Git!Commits /\ {1, 3} \in Git!Commits /\ Git!NoCommit \in Git!Commits
    BY DEF Git!Commits, Git!NoCommit
<1>2. tracked \in Git!Refs
    BY <1>1 DEF Git!Init, Git!Refs
<1>3. \A b \in Branches, c \in Git!Commits : [tracked EXCEPT ![b] = c] \in Git!Refs
    BY <1>2 DEF Git!Refs
<1>4. PICK c \in {{1}, {1, 2}} : origin = [tracked EXCEPT !["main"] = c]
    BY DEF Git!Init
<1>5. PICK b \in Branches, d \in {{1}, {1, 3}} : head = b /\ local = [tracked EXCEPT ![b] = d]
    BY DEF Git!Init
<1>6. origin \in Git!Refs /\ local \in Git!Refs
    BY <1>1, <1>2, <1>3, <1>4, <1>5 DEF Git!Refs
<1>7. head \in Branches /\ detachedAt \in Git!Commits
    BY <1>1 DEF Git!Init
<1> QED BY <1>2, <1>6, <1>7 DEF Git!Init, GitIInv, GitTypes, Inspection, Switched, Merged,
                                Unreported

\* The default branch is a branch, if there is one.
LEMMA DefaultIsBranch == ASSUME BranchesSuit, ~Git!Refused PROVE Git!DefaultBranch \in Branches
BY DEF BranchesSuit, Git!Refused, Git!DefaultBranch

\* HEAD moves to a commit, on its branch or detached.
LEMMA MovedTyped ==
    ASSUME GitTypes, NEW c \in Git!Commits, Git!Moved(c)
    PROVE  local' \in Git!Refs /\ detachedAt' \in Git!Commits
BY DEF Git!Moved, GitTypes, Git!Refs

\* Where HEAD is, is a commit.
LEMMA HereTyped == ASSUME GitTypes PROVE Git!Here \in Git!Commits
BY DEF Git!Here, GitTypes, Git!Refs

\* Each step of the update keeps the invariant.
LEMMA UpdateKeeps == ASSUME BranchesSuit, GitIInv, Git!Step \/ Git!Interrupt PROVE GitIInv'
<1> USE DEF GitIInv
<1>1. CASE Git!Inspect
    BY <1>1 DEF Git!Inspect, Git!Goto, Git!Reports, Git!repo, GitTypes, Inspection, Switched,
                Merged, Unreported
<1>2. CASE Git!Fetch
    BY <1>2 DEF Git!Fetch, Git!Goto, Git!Reports, GitTypes, Inspection, Switched, Merged, Unreported
<1>3. CASE Git!InspectAgain
  <2>1. CASE ~Git!Refused
    <3>1. Git!DefaultBranch \in Branches /\ Git!DefaultBranch # Git!NoBranch /\ ~dirty /\ ~operation
        BY <2>1, DefaultIsBranch DEF Git!Refused, BranchesSuit
    <3>2. fetched'.target = Git!DefaultBranch /\ fetched'.targetCommit = tracked[Git!DefaultBranch]
        BY <1>3, <3>1 DEF Git!InspectAgain, Git!Inspected
    <3>3. gitPc' \in {"switch", "done"} /\ result' \in {"none", "refused"} /\ UNCHANGED <<Git!repo, origin, outside>>
          /\ (gitPc' # "done" => result' = "none")
        BY <1>3 DEF Git!InspectAgain, Git!Goto, Git!Reports, Unreported
    <3> QED BY <3>1, <3>2, <3>3
            DEF Git!repo, GitTypes, Inspection, Switched, Merged, Unreported
  <2>2. CASE Git!Refused
      BY <1>3, <2>2 DEF Git!InspectAgain, Git!Reports, Git!repo, GitTypes, Inspection, Switched,
                        Merged, Unreported
  <2> QED BY <2>1, <2>2
<1>4. CASE Git!Switch
  <2>1. fetched.target \in Branches /\ tracked[fetched.target] \in Git!Commits
      BY <1>4 DEF Git!Switch, Inspection, GitTypes, Git!Refs
  <2>2. CASE Git!Goto("merge")
    <3>1. head' = fetched.target /\ local' \in Git!Refs
        BY <1>4, <2>1, <2>2 DEF Git!Switch, Git!Fails, Git!Reports, Git!Goto, GitTypes, Git!Refs
    <3> QED BY <1>4, <2>1, <2>2, <3>1
            DEF Git!Switch, Git!Goto, GitTypes, Inspection, Switched, Merged, Unreported
  <2>3. CASE Git!Fails
      BY <1>4, <2>3 DEF Git!Switch, Git!Fails, Git!Reports, Git!Goto, GitTypes, Inspection,
                        Switched, Merged, Unreported
  <2> QED BY <1>4, <2>2, <2>3 DEF Git!Switch
<1>5. CASE Git!Merge
  <2> DEFINE c == tracked[fetched.target]
  <2>1. fetched.target \in Branches /\ c \in Git!Commits /\ c = fetched.targetCommit
      BY <1>5 DEF Git!Merge, Inspection, GitTypes, Git!Refs
  <2>2. CASE Git!Goto("final")
    <3>1. local' \in Git!Refs /\ detachedAt' \in Git!Commits /\ UNCHANGED head
        BY <1>5, <2>1, <2>2, MovedTyped DEF Git!Merge, Git!Fails, Git!Reports, Git!Goto, GitTypes
    <3>2. "switch" \notin since => head = fetched.target /\ head # Git!NoBranch
        BY <1>5, <2>1 DEF Git!Merge, Switched, BranchesSuit
    <3>3. "switch" \notin since => c \subseteq local'[head]
        BY <1>5, <2>1, <2>2, <3>2 DEF Git!Merge, Git!Fails, Git!Reports, Git!Goto, Git!Moved,
                                      Git!Here, GitTypes, Git!Refs
    <3> QED BY <1>5, <2>1, <2>2, <3>1, <3>2, <3>3
            DEF Git!Merge, Git!Goto, GitTypes, Inspection, Switched, Merged, Unreported
  <2>3. CASE Git!Fails
      BY <1>5, <2>3 DEF Git!Merge, Git!Fails, Git!Reports, Git!Goto, GitTypes, Inspection,
                        Switched, Merged, Unreported
  <2> QED BY <1>5, <2>2, <2>3 DEF Git!Merge
<1>6. CASE Git!Final
    BY <1>6 DEF Git!Final, Git!Reports, Git!repo, GitTypes, Inspection, Switched, Merged, Unreported
<1>7. CASE Git!Interrupt
    BY <1>7 DEF Git!Interrupt, Git!Reports, Git!repo, GitTypes, Inspection, Switched, Merged,
                Unreported
<1> QED BY <1>1, <1>2, <1>3, <1>4, <1>5, <1>6, <1>7 DEF Git!Step

\* So does the user: what was fetched stays, HEAD is not moved without a switch
\* being noted, and the branch it is on only grows.
LEMMA UserKeeps ==
    ASSUME BranchesSuit, GitIInv,
           \/ Git!UserCommit \/ Git!UserEdit \/ Git!UserOperation \/ Git!UserDetach
           \/ \E b \in Branches : Git!UserSwitch(b)
    PROVE  GitIInv'
<1>1. PICK w \in {"commit", "edit", "operation", "switch"} :
          /\ Git!User(w)
          /\ w # "switch" => /\ UNCHANGED head
                             /\ head \in Branches => local[head] \subseteq local'[head]
  <2>1. Git!UserCommit => Git!User("commit") /\ UNCHANGED head
                      /\ (head \in Branches => local[head] \subseteq local'[head])
      BY DEF Git!UserCommit, Git!Moved, Git!Here, BranchesSuit, GitIInv, GitTypes, Git!Refs
  <2>2. Git!UserEdit => Git!User("edit") /\ UNCHANGED <<head, local>>
      BY DEF Git!UserEdit
  <2>3. Git!UserOperation => Git!User("operation") /\ UNCHANGED <<head, local>>
      BY DEF Git!UserOperation
  <2>4. Git!UserDetach \/ (\E b \in Branches : Git!UserSwitch(b)) => Git!User("switch")
      BY DEF Git!UserDetach, Git!UserSwitch
  <2> QED BY <2>1, <2>2, <2>3, <2>4
<1>2. /\ since' = since \cup {w} /\ gitPc # "done" /\ result = "none" /\ outside' = outside + 1
      /\ UNCHANGED <<origin, tracked, gitPc, fetched, result>>
    BY <1>1 DEF Git!User, Git!task, GitIInv, Unreported
<1>3. GitTypes'
  <2>1. Git!Here \in Git!Commits /\ Git!New \in Nat
      BY HereTyped DEF Git!New, GitIInv, GitTypes
  <2>2. CASE Git!UserCommit
    <3>1. Git!Here \cup {Git!New} \in Git!Commits
        BY <2>1 DEF Git!Commits
    <3> QED BY <1>2, <2>2, <3>1, MovedTyped DEF Git!UserCommit, GitIInv, GitTypes
  <2>3. CASE Git!UserEdit \/ Git!UserOperation
      BY <1>2, <2>3 DEF Git!UserEdit, Git!UserOperation, GitIInv, GitTypes
  <2>4. CASE Git!UserDetach
      BY <1>2, <2>1, <2>4 DEF Git!UserDetach, GitIInv, GitTypes
  <2>5. ASSUME NEW b \in Branches, Git!UserSwitch(b) PROVE GitTypes'
    <3>1. local' \in Git!Refs
        BY <2>1, <2>5 DEF Git!UserSwitch, GitIInv, GitTypes, Git!Refs
    <3> QED BY <1>2, <2>5, <3>1 DEF Git!UserSwitch, GitIInv, GitTypes
  <2> QED BY <2>2, <2>3, <2>4, <2>5
<1>4. Inspection' /\ Unreported'
    BY <1>2 DEF GitIInv, Inspection, Unreported
<1>5. Switched' /\ Merged'
    BY <1>1, <1>2 DEF GitIInv, Switched, Merged
<1> QED BY <1>3, <1>4, <1>5 DEF GitIInv

\* So do the steps of others at the remote.
LEMMA OriginKeeps ==
    ASSUME GitIInv,
           \/ \E b \in Branches : Git!Push(b) \/ Git!ForcePush(b)
           \/ \E b, c \in Branches : Git!Rename(b, c)
    PROVE  GitIInv'
<1>1. UNCHANGED <<tracked, local, head, detachedAt, dirty, operation, gitPc, fetched, result, since>>
      /\ outside' = outside + 1
    BY DEF Git!Push, Git!ForcePush, Git!Rename, Git!Others, Git!repo, Git!task
<1>2. origin' \in Git!Refs
  <2>1. \A b \in Branches : origin[b] \cup {Git!New} \in Git!Commits /\ {1, Git!New} \in Git!Commits
        /\ Git!NoCommit \in Git!Commits
      BY DEF GitIInv, GitTypes, Git!Refs, Git!Commits, Git!New, Git!NoCommit
  <2>2. ASSUME NEW b \in Branches, Git!Push(b) PROVE origin' \in Git!Refs
      BY <2>1, <2>2 DEF Git!Push, GitIInv, GitTypes, Git!Refs
  <2>3. ASSUME NEW b \in Branches, Git!ForcePush(b) PROVE origin' \in Git!Refs
      BY <2>1, <2>3 DEF Git!ForcePush, GitIInv, GitTypes, Git!Refs
  <2>4. ASSUME NEW b \in Branches, NEW c \in Branches, Git!Rename(b, c) PROVE origin' \in Git!Refs
      BY <2>1, <2>4 DEF Git!Rename, GitIInv, GitTypes, Git!Refs
  <2> QED BY <2>2, <2>3, <2>4
<1> QED BY <1>1, <1>2 DEF GitIInv, GitTypes, Inspection, Switched, Merged, Unreported

\* Every step keeps the invariant.
LEMMA GitKeeps == ASSUME BranchesSuit, GitIInv, [Git!Next]_(Git!vars) PROVE GitIInv'
<1>1. CASE UNCHANGED Git!vars
    BY <1>1 DEF Git!vars, Git!repo, Git!task, GitIInv, GitTypes, Inspection, Switched, Merged,
                Unreported
<1> QED BY <1>1, UpdateKeeps, UserKeeps, OriginKeeps DEF Git!Next, Git!Outside

\* The invariant holds always (executeUpdate).
THEOREM GitInvariance == ASSUME BranchesSuit PROVE Git!Spec => []GitIInv
<1>1. Git!Init => GitIInv
    BY GitStarts
<1>2. GitIInv /\ [Git!Next]_(Git!vars) => GitIInv'
    BY GitKeeps
<1> QED BY <1>1, <1>2, PTL DEF Git!Spec

\* A report of "updated" or "up to date" is true unless the user left the branch
\* (update.go:156-182).
THEOREM ReportsAreTrue == ASSUME BranchesSuit PROVE Git!Spec => []ReportTrue
<1>1. GitIInv => ReportTrue
    BY DEF GitIInv, Merged, ReportTrue, Git!ReportTrue
<1> QED BY <1>1, GitInvariance, PTL

\* No step of the update moves a branch but forward to the fetched commit of the
\* default branch (README.md: "only switches or fast-forwards an eligible clean
\* repository").
THEOREM OnlyFastForwards == ASSUME BranchesSuit PROVE Git!Spec => FastForwardsOnly
<1> DEFINE A ==
      Git!ByUpdate =>
        /\ \A b \in Branches : local'[b] # local[b] =>
              /\ local'[b] = tracked[fetched.target]
              /\ local[b] \subseteq local'[b]
              /\ since = {} => b = fetched.target
        /\ head' # head => head' = fetched.target
        /\ head = Git!NoBranch => head' # Git!NoBranch \/ detachedAt \subseteq detachedAt'
        /\ UNCHANGED <<dirty, operation>>
        /\ <<local, head>>' # <<local, head>> /\ since = {} => ~dirty /\ ~operation
<1>1. ASSUME GitIInv, [Git!Next]_(Git!vars) PROVE A
  <2>1. UNCHANGED Git!vars => ~Git!ByUpdate
      BY DEF Git!vars, Git!task, Git!ByUpdate
  <2>2. Git!Outside => ~Git!ByUpdate
      BY DEF Git!Outside, Git!UserCommit, Git!UserEdit, Git!UserOperation, Git!UserDetach,
             Git!UserSwitch, Git!User,
             Git!Push, Git!ForcePush, Git!Rename, Git!Others, Git!task, Git!ByUpdate
  <2>3. CASE Git!Inspect \/ Git!Fetch \/ Git!InspectAgain \/ Git!Final \/ Git!Interrupt
    <3>1. UNCHANGED <<local, head, detachedAt, dirty, operation>>
        BY <2>3 DEF Git!Inspect, Git!Fetch, Git!InspectAgain, Git!Final, Git!Interrupt, Git!repo
    <3> QED BY <3>1
  <2>4. CASE Git!Switch
    <3>1. /\ fetched.target \in Branches /\ fetched.target # Git!NoBranch
          /\ since = {} => ~dirty /\ ~operation
        BY <1>1, <2>4 DEF Git!Switch, GitIInv, Inspection, BranchesSuit
    <3> QED BY <1>1, <2>4, <3>1 DEF Git!Switch, GitIInv, GitTypes, Git!Refs, Git!NoCommit
  <2>5. CASE Git!Merge
    <3>1. /\ since = {} => ~dirty /\ ~operation /\ head = fetched.target
          /\ UNCHANGED <<head, dirty, operation>>
        BY <1>1, <2>5 DEF Git!Merge, GitIInv, Inspection, Switched
    <3>2. \/ UNCHANGED <<local, detachedAt>>
          \/ Git!Here \subseteq tracked[fetched.target] /\ Git!Moved(tracked[fetched.target])
        BY <1>1, <2>5 DEF Git!Merge
    <3>3. CASE UNCHANGED <<local, detachedAt>>
        BY <3>1, <3>3
    <3>4. CASE Git!Here \subseteq tracked[fetched.target] /\ Git!Moved(tracked[fetched.target])
        BY <1>1, <3>1, <3>4 DEF Git!Moved, Git!Here, GitIInv, GitTypes, Git!Refs
    <3> QED BY <3>2, <3>3, <3>4
  <2> QED BY <1>1, <2>1, <2>2, <2>3, <2>4, <2>5 DEF Git!Next, Git!Step
<1>2. GitIInv /\ [Git!Next]_(Git!vars) => [A]_(Git!vars)
    BY <1>1
<1> QED BY <1>2, GitInvariance, PTL DEF Git!Spec, FastForwardsOnly, Git!FastForwardsOnly

-----------------------------------------------------------------------------
(* The input of the MCP server.                                            *)

\* The input is a sequence, and the limits are numbers.
InputsSuit ==
    /\ \A i \in Inputs : i \in Seq(Mcp!Range(i))
    /\ MaxLine \in Nat /\ ReadSize \in Nat /\ MaxReplacements \in Nat

\* The characters that were answered or skipped.
Dealt == consumed - Len(unread)

\* What is kept is what was read after them, and fits into a hand-off.
Kept ==
    /\ unread \in Seq(Nat) /\ Len(unread) <= MaxLine /\ Len(unread) <= consumed
    /\ \A i \in 1..Len(unread) : unread[i] = Dealt + i

\* A request, the characters from + 1 to to, that has been dealt with: a line, or
\* the rest of the input after its end.
IsRequest(from, to) ==
    /\ from \in 0..Dealt /\ to \in 0..Dealt /\ from < to
    /\ from = 0 \/ Mcp!IsNL(from)
    /\ \A i \in (from + 1)..to : ~Mcp!IsNL(i)
    /\ IF to < Dealt THEN Mcp!IsNL(to + 1) ELSE eof /\ to = consumed

Whole == \A k \in 1..Len(answers) : \E a, b \in Nat : IsRequest(a, b) /\ answers[k] = Mcp!Positions(a, b)

InOrder ==
    \A k, l \in 1..Len(answers) : k < l =>
        \A i \in 1..Len(answers[k]), j \in 1..Len(answers[l]) : answers[k][i] < answers[l][j]

NoneMissed ==
    \A c \in 1..Dealt : ~Mcp!IsNL(c) =>
        \E k \in 1..Len(answers) : \E i \in 1..Len(answers[k]) : answers[k][i] = c

\* Every request that was dealt with was answered once, whole and in order.
AnsweredOnce == Whole /\ InOrder /\ NoneMissed

StreamTypes ==
    /\ input \in Inputs /\ closed \in BOOLEAN /\ eof \in BOOLEAN
    /\ consumed \in 0..written /\ written \in 0..Len(input)
    /\ mcpPc \in {"checkpoint", "serve"} \cup Mcp!Ends
    /\ installed \in 0..MaxReplacements
    /\ answers \in Seq(Seq(Nat))

\* What was dealt with ends where a request does, and the end of the input is its
\* end.
Frontier ==
    /\ Dealt = 0 \/ Mcp!IsNL(Dealt) \/ (eof /\ Dealt = consumed)
    /\ eof => closed /\ consumed = written

StreamIInv == StreamTypes /\ Kept /\ Frontier /\ AnsweredOnce

-----------------------------------------------------------------------------

\* A set of naturals has a least element.
LEMMA LeastExists ==
    ASSUME NEW S \in SUBSET Nat, S # {}
    PROVE  Mcp!Min(S) \in S /\ \A n \in S : Mcp!Min(S) <= n
<1>1. PICK m \in S : \A n \in S : ~(<<n, m>> \in OpToRel(<, Nat))
    BY NatLessThanWellFounded, WFMin
<1>2. ASSUME NEW n \in S PROVE m <= n
    <2>1. <<n, m>> \in Nat \X Nat /\ <<n, m>>[1] = n /\ <<n, m>>[2] = m
        OBVIOUS
    <2>2. ~(n < m)
        BY <1>1, <2>1 DEF OpToRel
    <2> QED BY <2>2
<1> QED BY <1>2 DEF Mcp!Min

\* LineEnd finds the first line end, if there is one.
LEMMA LineEndFound ==
    ASSUME NEW s, Len(s) \in Nat
    PROVE  /\ Mcp!LineEnd(s) \in 0..Len(s)
           /\ Mcp!LineEnd(s) # 0 => Mcp!IsNL(s[Mcp!LineEnd(s)])
           /\ \A i \in 1..Len(s) : i < Mcp!LineEnd(s) \/ Mcp!LineEnd(s) = 0 => ~Mcp!IsNL(s[i])
<1> DEFINE I == {i \in 1..Len(s) : Mcp!IsNL(s[i])}
<1>1. Mcp!LineEnd(s) = IF I # {} THEN Mcp!Min(I) ELSE 0
    BY DEF Mcp!LineEnd, Mcp!SelectInSeq
<1>2. I \in SUBSET Nat
    OBVIOUS
<1>3. I # {} => Mcp!Min(I) \in I /\ \A n \in I : Mcp!Min(I) <= n
    BY <1>2, LeastExists
<1>4. CASE I = {}
    BY <1>1, <1>4
<1>5. CASE I # {}
    <2> DEFINE m == Mcp!Min(I)
    <2>1. Mcp!LineEnd(s) = m /\ m \in 1..Len(s) /\ Mcp!IsNL(s[m])
        BY <1>1, <1>3, <1>5
    <2>2. \A i \in 1..Len(s) : i < m => ~Mcp!IsNL(s[i])
        <3> SUFFICES ASSUME NEW i \in 1..Len(s), i < m, Mcp!IsNL(s[i]) PROVE FALSE
            OBVIOUS
        <3>1. i \in I
            OBVIOUS
        <3> QED BY <3>1, <1>3, <1>5, <2>1
    <2> HIDE DEF m
    <2> QED BY <2>1, <2>2
<1> QED BY <1>4, <1>5

\* What the assumption says of the input at hand.
LEMMA InputSuits ==
    ASSUME InputsSuit, input \in Inputs
    PROVE  Len(input) \in Nat /\ MaxLine \in Nat /\ ReadSize \in Nat /\ MaxReplacements \in Nat
BY DEF InputsSuit

\* Nothing has been read at the start.
LEMMA StreamStarts == ASSUME InputsSuit, Mcp!Init PROVE StreamIInv
<1>1. Len(input) \in Nat /\ input \in Inputs /\ MaxLine \in Nat /\ MaxReplacements \in Nat
    BY InputSuits DEF Mcp!Init
<1>2. /\ Len(unread) = 0 /\ unread \in Seq(Nat) /\ consumed = 0 /\ written = 0
      /\ Len(answers) = 0 /\ answers \in Seq(Seq(Nat))
      /\ closed = FALSE /\ eof = FALSE /\ mcpPc = "checkpoint" /\ installed = 0
    BY DEF Mcp!Init
<1>3. Dealt = 0
    BY <1>2 DEF Dealt
<1>4. StreamTypes
    <2>1. consumed \in 0..written /\ written \in 0..Len(input) /\ installed \in 0..MaxReplacements
        BY <1>1, <1>2
    <2> QED BY <1>1, <1>2, <2>1 DEF StreamTypes, Mcp!Ends
<1>5. Kept /\ Frontier
    BY <1>1, <1>2, <1>3 DEF Kept, Frontier
<1>6. AnsweredOnce
    BY <1>2, <1>3 DEF AnsweredOnce, Whole, InOrder, NoneMissed
<1> QED BY <1>4, <1>5, <1>6 DEF StreamIInv

\* The numbers are natural, and an answer lies in what has been dealt with.
LEMMA Numbers ==
    ASSUME InputsSuit, StreamIInv
    PROVE  /\ consumed \in Nat /\ written \in Nat /\ Len(input) \in Nat /\ Len(unread) \in Nat
           /\ Dealt \in Nat /\ Dealt + Len(unread) = consumed
           /\ \A k \in 1..Len(answers) : \A i \in 1..Len(answers[k]) : answers[k][i] <= Dealt
<1>1. consumed \in Nat /\ written \in Nat /\ Len(input) \in Nat /\ Len(unread) \in Nat
    BY DEF StreamIInv, StreamTypes, InputsSuit, Kept
<1>2. Dealt \in Nat /\ Dealt + Len(unread) = consumed
    BY <1>1 DEF StreamIInv, Kept, Dealt
<1>3. ASSUME NEW k \in 1..Len(answers), NEW i \in 1..Len(answers[k]) PROVE answers[k][i] <= Dealt
    <2>1. PICK a, b \in Nat : IsRequest(a, b) /\ answers[k] = Mcp!Positions(a, b)
        BY DEF StreamIInv, AnsweredOnce, Whole
    <2>2. a < b /\ b <= Dealt
        BY <2>1, <1>2 DEF IsRequest
    <2>3. Len(answers[k]) = b - a /\ \A j \in 1..(b - a) : answers[k][j] = a + j
        BY <2>1, <2>2 DEF Mcp!Positions
    <2> QED BY <2>2, <2>3, <1>2
<1> QED BY <1>1, <1>2, <1>3

\* An answer is whole, follows the earlier ones, and misses nothing.
LEMMA AnswerKeeps == ASSUME InputsSuit, StreamIInv, Mcp!Answer PROVE StreamIInv'
<1> DEFINE stop == Mcp!LineEnd(unread)
           n == IF stop = 0 THEN Len(unread) ELSE stop - 1
           line == IF stop = 0 THEN unread ELSE SubSeq(unread, 1, stop - 1)
<1>1. /\ consumed \in Nat /\ Len(unread) \in Nat /\ Dealt \in Nat /\ Dealt + Len(unread) = consumed
      /\ unread \in Seq(Nat) /\ \A i \in 1..Len(unread) : unread[i] = Dealt + i
    BY Numbers DEF StreamIInv, Kept
<1>2. /\ stop \in 0..Len(unread)
      /\ stop # 0 => Mcp!IsNL(unread[stop])
      /\ \A i \in 1..Len(unread) : i < stop \/ stop = 0 => ~Mcp!IsNL(unread[i])
    BY LineEndFound, <1>1
<1>a. answers' = IF line = <<>> THEN answers ELSE Append(answers, line)
    BY DEF Mcp!Answer
<1>b. unread' = SubSeq(unread, Len(line) + 2, Len(unread))
    BY DEF Mcp!Answer
<1>3. mcpPc' = "checkpoint" /\ UNCHANGED <<input, written, closed, consumed, eof, installed>>
    BY DEF Mcp!Answer
<1>c. stop # 0 \/ (eof /\ unread # <<>>)
    BY DEF Mcp!Answer
<1> HIDE DEF stop
<1>4. Len(unread) > 0 /\ (stop = 0 => eof)
    BY <1>1, <1>2, <1>c
<1>5. n \in 0..Len(unread) /\ (stop # 0 => n + 1 = stop) /\ (stop = 0 => n = Len(unread))
    BY <1>1, <1>2
<1>6. line \in Seq(Nat) /\ Len(line) = n /\ \A i \in 1..n : line[i] = Dealt + i
  <2>1. CASE stop = 0
      BY <1>1, <1>5, <2>1
  <2>2. CASE stop # 0
    <3>1. line = SubSeq(unread, 1, n) /\ n \in 0..Len(unread)
        BY <1>5, <2>2
    <3>2. \A i \in 1..n : unread[i] \in Nat
        BY <1>1, <1>5
    <3> HIDE DEF line, n
    <3> QED BY <1>1, <3>1, <3>2, SubSeqProperties
  <2> QED BY <2>1, <2>2
<1>7. /\ unread' \in Seq(Nat)
      /\ Len(unread') = IF stop = 0 THEN 0 ELSE Len(unread) - n - 1
      /\ \A i \in 1..Len(unread') : unread'[i] = unread[n + 1 + i]
    <2>1. n + 2 \in Int /\ Len(unread) \in Int /\ \A i \in (n + 2)..Len(unread) : unread[i] \in Nat
        BY <1>1, <1>5
    <2> DEFINE rest == SubSeq(unread, n + 2, Len(unread))
    <2>2. /\ rest \in Seq(Nat)
          /\ Len(rest) = IF n + 2 <= Len(unread) THEN Len(unread) - (n + 2) + 1 ELSE 0
          /\ \A i \in 1..(Len(unread) - (n + 2) + 1) : rest[i] = unread[n + 2 + i - 1]
        BY <2>1, SubSeqProperties
    <2>3. unread' = rest
        BY <1>b, <1>6
    <2>4. stop = 0 => n = Len(unread)
        OBVIOUS
    <2> HIDE DEF rest, n, line
    <2>5. Len(rest) = IF stop = 0 THEN 0 ELSE Len(unread) - n - 1
        BY <2>2, <2>4, <1>1, <1>5, <1>2
    <2>6. \A i \in 1..Len(rest) : rest[i] = unread[n + 1 + i]
        BY <2>2, <2>5, <1>1, <1>5
    <2> QED BY <2>2, <2>3, <2>5, <2>6
<1>8. Dealt' = (IF stop = 0 THEN Dealt + n ELSE Dealt + n + 1) /\ Dealt' \in Nat /\ Dealt' <= consumed
    <2>1. Dealt' = consumed - Len(unread')
        BY <1>3 DEF Dealt
    <2> HIDE DEF n
    <2>3. CASE stop = 0
        BY <2>1, <2>3, <1>1, <1>5, <1>7
    <2>4. CASE stop # 0
        <3>1. Len(unread') = Len(unread) - n - 1 /\ n + 1 <= Len(unread)
            BY <2>4, <1>1, <1>2, <1>5, <1>7
        <3>2. consumed - Len(unread') = Dealt + n + 1 /\ Dealt + n + 1 \in Nat /\ Dealt + n + 1 <= consumed
            <4>1. /\ Dealt \in Nat /\ Len(unread) \in Nat /\ n \in Nat
                  /\ consumed = Dealt + Len(unread) /\ n + 1 <= Len(unread)
                BY <3>1, <1>1, <1>5
            <4>2. ASSUME NEW d \in Nat, NEW l \in Nat, NEW m \in Nat, m + 1 <= l
                  PROVE  (d + l) - (l - m - 1) = d + m + 1
                OBVIOUS
            <4>3. Dealt + n + 1 \in Nat /\ Dealt + n + 1 <= consumed
                BY <4>1
            <4> QED BY <3>1, <4>1, <4>2, <4>3
        <3> QED BY <2>1, <2>4, <3>2
    <2> QED BY <2>3, <2>4
<1>9. /\ \A c \in (Dealt + 1)..(Dealt + n) : ~Mcp!IsNL(c)
      /\ stop # 0 => Mcp!IsNL(Dealt + n + 1)
      /\ Dealt = 0 \/ Mcp!IsNL(Dealt)
    <2>1. ASSUME NEW c \in (Dealt + 1)..(Dealt + n) PROVE ~Mcp!IsNL(c)
        <3>1. /\ c \in Nat /\ c - Dealt \in 1..Len(unread) /\ Dealt + (c - Dealt) = c
              /\ c - Dealt < stop \/ stop = 0
          <4> HIDE DEF n
          <4> QED BY <1>1, <1>2, <1>5
        <3>2. unread[c - Dealt] = c
            BY <3>1, <1>1
        <3> QED BY <3>1, <3>2, <1>2
    <2>2. stop # 0 => Mcp!IsNL(Dealt + n + 1)
        BY <1>1, <1>2, <1>5
    <2>3. Dealt = 0 \/ Mcp!IsNL(Dealt)
        BY <1>1, <1>4 DEF StreamIInv, Frontier
    <2> QED BY <2>1, <2>2, <2>3
<1> HIDE DEF n, line
<1>10. \A c : Mcp!IsNL(c)' <=> Mcp!IsNL(c)
    BY <1>3 DEF Mcp!IsNL
<1>11. ASSUME NEW a \in Nat, NEW b \in Nat, IsRequest(a, b) PROVE IsRequest(a, b)'
    <2>1. b < Dealt /\ Mcp!IsNL(b + 1)
        BY <1>11, <1>1, <1>4 DEF IsRequest
    <2> QED BY <2>1, <1>11, <1>1, <1>5, <1>8, <1>10 DEF IsRequest
<1>d. PICK from, to \in Nat : from = Dealt /\ to = Dealt + n
    BY <1>1, <1>5
<1>12. n > 0 => IsRequest(from, to)'
    <2> SUFFICES ASSUME n > 0 PROVE IsRequest(from, to)'
        OBVIOUS
    <2>1. from \in 0..Dealt' /\ to \in 0..Dealt' /\ from < to
        BY <1>1, <1>5, <1>8, <1>d
    <2>2. from = 0 \/ Mcp!IsNL(from)'
        BY <1>9, <1>10, <1>d
    <2>3. \A c \in (from + 1)..to : ~Mcp!IsNL(c)'
        BY <1>9, <1>10, <1>d
    <2>4. IF to < Dealt' THEN Mcp!IsNL(to + 1)' ELSE eof' /\ to = consumed'
        <3>1. CASE stop = 0
            BY <3>1, <1>1, <1>3, <1>4, <1>5, <1>8, <1>d
        <3>2. CASE stop # 0
            <4>1. to < Dealt' /\ Mcp!IsNL(to + 1)
                BY <3>2, <1>1, <1>5, <1>8, <1>9, <1>d
            <4> QED BY <4>1, <1>10
        <3> QED BY <3>1, <3>2
    <2> QED BY <2>1, <2>2, <2>3, <2>4 DEF IsRequest
<1>13. n > 0 => line = Mcp!Positions(from, to)
    BY <1>1, <1>5, <1>6, <1>d DEF Mcp!Positions
<1>14. StreamTypes'
    <2>1. answers' \in Seq(Seq(Nat))
        BY <1>a, <1>6 DEF StreamIInv, StreamTypes
    <2> QED BY <2>1, <1>3 DEF StreamIInv, StreamTypes
<1>15. Kept'
    <2>1. \A i \in 1..Len(unread') : unread'[i] = Dealt' + i
        BY <1>1, <1>5, <1>7, <1>8
    <2> QED BY <2>1, <1>1, <1>3, <1>5, <1>7 DEF StreamIInv, Kept, InputsSuit
<1>16. Frontier'
    <2>1. Dealt' = 0 \/ Mcp!IsNL(Dealt)' \/ (eof' /\ Dealt' = consumed')
        <3>1. CASE stop = 0
            BY <3>1, <1>1, <1>3, <1>4, <1>5, <1>8
        <3>2. CASE stop # 0
            <4>1. Mcp!IsNL(Dealt')
                BY <3>2, <1>1, <1>5, <1>8, <1>9
            <4> QED BY <4>1, <1>3 DEF Mcp!IsNL
        <3> QED BY <3>1, <3>2
    <2>2. eof' => closed' /\ consumed' = written'
        BY <1>3 DEF StreamIInv, Frontier
    <2> QED BY <2>1, <2>2 DEF Frontier
<1>17. CASE n = 0
    <2>1. answers' = answers
        BY <1>17, <1>a, <1>6
    <2>2. Whole'
        BY <2>1, <1>11 DEF StreamIInv, AnsweredOnce, Whole, Mcp!Positions
    <2>3. InOrder'
        BY <2>1 DEF StreamIInv, AnsweredOnce, InOrder
    <2>4. NoneMissed'
        <3> SUFFICES ASSUME NEW c \in 1..Dealt', ~Mcp!IsNL(c)
                     PROVE  \E k \in 1..Len(answers) : \E i \in 1..Len(answers[k]) : answers[k][i] = c
            BY <2>1, <1>10 DEF NoneMissed
        <3>1. c \in 1..Dealt /\ NoneMissed
            BY <1>17, <1>1, <1>8, <1>9 DEF StreamIInv, AnsweredOnce
        <3> QED BY <3>1 DEF NoneMissed
    <2> QED BY <2>2, <2>3, <2>4, <1>14, <1>15, <1>16 DEF StreamIInv, AnsweredOnce
<1>18. CASE n > 0
    <2>1. answers \in Seq(Seq(Nat)) /\ answers' = Append(answers, line)
        BY <1>18, <1>a, <1>6 DEF StreamIInv, StreamTypes
    <2>2. /\ Len(answers) \in Nat /\ Len(answers') = Len(answers) + 1
          /\ \A k \in 1..Len(answers) : answers'[k] = answers[k]
          /\ answers'[Len(answers) + 1] = line
        BY <2>1, <1>6
    <2>3. Whole'
        <3> SUFFICES ASSUME NEW k \in 1..Len(answers')
                     PROVE  \E a, b \in Nat : IsRequest(a, b)' /\ answers'[k] = Mcp!Positions(a, b)
            BY DEF Whole, Mcp!Positions
        <3>1. CASE k = Len(answers) + 1
            <4>1. IsRequest(from, to)' /\ answers'[k] = Mcp!Positions(from, to)
                BY <3>1, <2>2, <1>12, <1>13, <1>18
            <4> QED BY <4>1
        <3>2. CASE k # Len(answers) + 1
            BY <3>2, <2>2, <1>11 DEF StreamIInv, AnsweredOnce, Whole
        <3> QED BY <3>1, <3>2
    <2>4. InOrder'
        <3> SUFFICES ASSUME NEW k \in 1..Len(answers'), NEW l \in 1..Len(answers'), k < l,
                            NEW i \in 1..Len(answers'[k]), NEW j \in 1..Len(answers'[l])
                     PROVE  answers'[k][i] < answers'[l][j]
            BY DEF InOrder
        <3>1. k \in 1..Len(answers) /\ answers'[k] = answers[k]
            BY <2>2
        <3>2. CASE l = Len(answers) + 1
            <4>1. answers'[l][j] = Dealt + j /\ j \in Nat /\ j > 0
                BY <3>2, <2>2, <1>6, <1>5
            <4>2. i \in 1..Len(answers[k]) /\ answers[k] \in Seq(Nat)
                BY <3>1, <2>1
            <4>3. answers[k][i] <= Dealt
                BY <3>1, <4>2, Numbers
            <4>4. answers[k][i] \in Nat
                BY <4>2
            <4> QED BY <4>1, <4>3, <4>4, <3>1, <1>1
        <3>3. CASE l # Len(answers) + 1
            <4>1. l \in 1..Len(answers) /\ answers'[l] = answers[l]
                BY <3>3, <2>2
            <4>2. InOrder
                BY DEF StreamIInv, AnsweredOnce
            <4>3. i \in 1..Len(answers[k]) /\ j \in 1..Len(answers[l])
                BY <3>1, <4>1
            <4>4. answers[k][i] < answers[l][j]
                BY <3>1, <4>1, <4>2, <4>3 DEF InOrder
            <4> QED BY <3>1, <4>1, <4>4
        <3> QED BY <3>2, <3>3
    <2>5. NoneMissed'
        <3> SUFFICES ASSUME NEW c \in 1..Dealt', ~Mcp!IsNL(c)
                     PROVE  \E k \in 1..Len(answers') : \E i \in 1..Len(answers'[k]) : answers'[k][i] = c
            BY <1>10 DEF NoneMissed
        <3>1. CASE c <= Dealt
            <4>1. c \in 1..Dealt /\ NoneMissed
                BY <3>1, <1>1, <1>8 DEF StreamIInv, AnsweredOnce
            <4>2. PICK k \in 1..Len(answers) : \E i \in 1..Len(answers[k]) : answers[k][i] = c
                BY <4>1 DEF NoneMissed
            <4>3. k \in 1..Len(answers') /\ answers'[k] = answers[k]
                BY <2>2
            <4> QED BY <4>2, <4>3
        <3>2. CASE c > Dealt
            <4>1. c - Dealt \in 1..n /\ Dealt + (c - Dealt) = c
                BY <3>2, <1>1, <1>5, <1>8, <1>9
            <4>2. Len(answers) + 1 \in 1..Len(answers') /\ answers'[Len(answers) + 1] = line
                BY <2>2
            <4>3. c - Dealt \in 1..Len(line) /\ line[c - Dealt] = c
                BY <4>1, <1>6
            <4> QED BY <4>2, <4>3
        <3> QED BY <3>1, <3>2, <1>1, <1>8
    <2> QED BY <2>3, <2>4, <2>5, <1>14, <1>15, <1>16 DEF StreamIInv, AnsweredOnce
<1> QED BY <1>5, <1>17, <1>18

\* What is read follows what is kept, and there is room for it.
LEMMA ReadKeeps == ASSUME InputsSuit, StreamIInv, Mcp!Read PROVE StreamIInv'
<1>1. /\ consumed \in Nat /\ written \in Nat /\ Len(unread) \in Nat /\ Dealt \in Nat
      /\ Dealt + Len(unread) = consumed /\ unread \in Seq(Nat)
      /\ \A i \in 1..Len(unread) : unread[i] = Dealt + i
    BY Numbers DEF StreamIInv, Kept
<1>2. ~eof /\ UNCHANGED <<input, written, closed, answers, installed>> /\ mcpPc' = "checkpoint"
    BY DEF Mcp!Read
<1>3. \A c : Mcp!IsNL(c)' <=> Mcp!IsNL(c)
    BY <1>2 DEF Mcp!IsNL
<1>4. Dealt' = Dealt /\ Kept' /\ consumed' \in 0..written /\ eof' \in BOOLEAN
      /\ (eof' => closed /\ consumed' = written)
    <2>1. CASE consumed = written /\ eof' = closed /\ UNCHANGED <<consumed, unread>>
        BY <2>1, <1>1 DEF StreamIInv, StreamTypes, Kept, Dealt
    <2>2. ASSUME NEW n \in 1..Mcp!Room, consumed + n <= written, consumed' = consumed + n,
                 unread' = unread \o Mcp!Positions(consumed, consumed + n), UNCHANGED eof
          PROVE  Dealt' = Dealt /\ Kept' /\ consumed' \in 0..written
        <3>1. n \in Nat /\ n > 0 /\ Len(unread) + n <= MaxLine
            BY <1>1 DEF Mcp!Read, Mcp!Room, InputsSuit
        <3>2. /\ Mcp!Positions(consumed, consumed + n) \in Seq(Nat)
              /\ Len(Mcp!Positions(consumed, consumed + n)) = n
              /\ \A i \in 1..n : Mcp!Positions(consumed, consumed + n)[i] = consumed + i
            BY <3>1, <1>1 DEF Mcp!Positions
        <3> DEFINE new == Mcp!Positions(consumed, consumed + n)
        <3> HIDE DEF new
        <3>3. /\ unread' \in Seq(Nat) /\ Len(unread') = Len(unread) + n
              /\ \A i \in 1..Len(unread) : unread'[i] = unread[i]
              /\ \A i \in 1..n : unread'[Len(unread) + i] = new[i]
            <4>1. unread' = unread \o new
                BY <2>2 DEF new
            <4>2. new \in Seq(Nat) /\ Len(new) = n
                BY <3>2 DEF new
            <4>3. /\ unread \o new \in Seq(Nat) /\ Len(unread \o new) = Len(unread) + n
                  /\ \A i \in 1..(Len(unread) + n) :
                        (unread \o new)[i] = IF i <= Len(unread) THEN unread[i] ELSE new[i - Len(unread)]
                BY <4>2, <1>1, ConcatProperties
            <4>4. \A i \in 1..Len(unread) : (unread \o new)[i] = unread[i]
                BY <4>3, <3>1, <1>1
            <4>5. \A i \in 1..n : (unread \o new)[Len(unread) + i] = new[i]
                BY <4>3, <3>1, <1>1
            <4> QED BY <4>1, <4>3, <4>4, <4>5
        <3>4. Dealt' = Dealt
            BY <3>1, <3>3, <2>2, <1>1 DEF Dealt
        <3>5. ASSUME NEW i \in 1..Len(unread') PROVE unread'[i] = Dealt + i
            <4>1. CASE i <= Len(unread)
                BY <4>1, <3>3, <1>1
            <4>2. CASE i > Len(unread)
                <5>1. i - Len(unread) \in 1..n /\ i = Len(unread) + (i - Len(unread))
                    BY <4>2, <3>3, <3>1, <1>1
                <5>2. unread'[i] = new[i - Len(unread)]
                    BY <5>1, <3>3
                <5>3. new[i - Len(unread)] = consumed + (i - Len(unread))
                    BY <5>1, <3>2 DEF new
                <5>4. consumed + (i - Len(unread)) = Dealt + i
                    <6>1. i - Len(unread) \in Nat /\ i = Len(unread) + (i - Len(unread)) /\ Dealt \in Nat
                          /\ Len(unread) \in Nat /\ consumed = Dealt + Len(unread)
                        BY <5>1, <3>1, <1>1
                    <6>2. \A d, l, k \in Nat : (d + l) + k = d + (l + k)
                        OBVIOUS
                    <6> HIDE DEF Dealt
                    <6> QED BY <6>1, <6>2
                <5> QED BY <5>2, <5>3, <5>4
            <4> QED BY <4>1, <4>2, <1>1, <3>3
        <3> QED BY <3>1, <3>3, <3>4, <3>5, <2>2, <1>1 DEF Kept
    <2>4. consumed \in 0..written /\ eof \in BOOLEAN /\ closed \in BOOLEAN
        BY DEF StreamIInv, StreamTypes
    <2>5. \/ consumed = written /\ eof' = closed /\ UNCHANGED <<consumed, unread>>
          \/ \E n \in 1..Mcp!Room : /\ consumed + n <= written /\ consumed' = consumed + n
                               /\ unread' = unread \o Mcp!Positions(consumed, consumed + n)
                               /\ UNCHANGED eof
        BY DEF Mcp!Read
    <2> QED BY <2>1, <2>2, <2>4, <2>5, <1>2
<1>5. StreamTypes'
    BY <1>2, <1>4 DEF StreamIInv, StreamTypes
<1>6. Frontier'
    BY <1>2, <1>3, <1>4 DEF StreamIInv, Frontier
<1>7. \A a, b \in Nat : IsRequest(a, b) => IsRequest(a, b)'
    BY <1>1, <1>2, <1>3, <1>4 DEF IsRequest
<1>8. Whole'
    BY <1>2, <1>7 DEF StreamIInv, AnsweredOnce, Whole, Mcp!Positions
<1>9. InOrder'
    BY <1>2 DEF StreamIInv, AnsweredOnce, InOrder
<1>10. NoneMissed'
    BY <1>2, <1>3, <1>4 DEF StreamIInv, AnsweredOnce, NoneMissed
<1> QED BY <1>4, <1>5, <1>6, <1>8, <1>9, <1>10 DEF StreamIInv, AnsweredOnce

\* The other steps leave what was read and answered alone.
LEMMA OthersKeep ==
    ASSUME InputsSuit, StreamIInv, Mcp!Checkpoint \/ Mcp!EndOfInput \/ Mcp!TooLong \/ Mcp!Write \/ Mcp!Close \/ UNCHANGED Mcp!vars
    PROVE  StreamIInv'
<1>1. UNCHANGED <<input, consumed, unread, eof, answers>>
    BY DEF Mcp!Checkpoint, Mcp!EndOfInput, Mcp!TooLong, Mcp!Write, Mcp!Close, Mcp!vars
<1>2. StreamTypes'
    <2>1. StreamTypes /\ consumed \in Nat /\ written \in Nat /\ Len(input) \in Nat /\ MaxReplacements \in Nat
        BY Numbers, InputSuits DEF StreamIInv, StreamTypes
    <2>2. installed' \in 0..MaxReplacements
        BY <2>1 DEF StreamTypes, Mcp!Checkpoint, Mcp!EndOfInput, Mcp!TooLong, Mcp!Write,
                    Mcp!Close, Mcp!vars
    <2>3. consumed' \in 0..written' /\ written' \in 0..Len(input')
        BY <2>1, <1>1 DEF StreamTypes, Mcp!Checkpoint, Mcp!EndOfInput, Mcp!TooLong, Mcp!Write,
                          Mcp!Close, Mcp!vars
    <2>4. closed' \in BOOLEAN /\ mcpPc' \in {"checkpoint", "serve"} \cup Mcp!Ends
        BY <2>1 DEF StreamTypes, Mcp!Ends, Mcp!Checkpoint, Mcp!EndOfInput, Mcp!TooLong, Mcp!Write,
                    Mcp!Close, Mcp!vars
    <2> QED BY <2>1, <2>2, <2>3, <2>4, <1>1 DEF StreamTypes
<1>3. Frontier' /\ Kept'
    BY DEF StreamIInv, Frontier, Kept, Dealt, Mcp!IsNL, Mcp!Checkpoint, Mcp!EndOfInput,
           Mcp!TooLong, Mcp!Write, Mcp!Close, Mcp!vars
<1>4. AnsweredOnce'
    <2>1. Dealt' = Dealt
        BY <1>1 DEF Dealt
    <2>2. \A c : Mcp!IsNL(c)' <=> Mcp!IsNL(c)
        BY <1>1 DEF Mcp!IsNL
    <2>3. \A a, b \in Nat : IsRequest(a, b) => IsRequest(a, b)'
        BY <2>1, <2>2, <1>1 DEF IsRequest
    <2>4. Whole'
        BY <1>1, <2>3 DEF StreamIInv, AnsweredOnce, Whole, Mcp!Positions
    <2>5. InOrder'
        BY <1>1 DEF StreamIInv, AnsweredOnce, InOrder
    <2>6. NoneMissed'
        BY <1>1, <2>1, <2>2 DEF StreamIInv, AnsweredOnce, NoneMissed
    <2> QED BY <2>4, <2>5, <2>6 DEF AnsweredOnce
<1> QED BY <1>2, <1>3, <1>4 DEF StreamIInv

\* The invariant holds always.
THEOREM StreamInvariance == ASSUME InputsSuit PROVE Mcp!Spec => []StreamIInv
<1>1. Mcp!Init => StreamIInv
    BY StreamStarts
<1>2. StreamIInv /\ [Mcp!Next]_(Mcp!vars) => StreamIInv'
    BY AnswerKeeps, ReadKeeps, OthersKeep DEF Mcp!Next, Mcp!Server
<1> QED BY <1>1, <1>2, PTL DEF Mcp!Spec

\* Every request is answered once, whole and in order, whatever pieces the input
\* comes in and however often the server is replaced between two of them
\* (serveStream, stream.go:19).
THEOREM RequestsAnsweredOnce == ASSUME InputsSuit PROVE Mcp!Spec => []AnsweredOnce
<1>1. StreamIInv => AnsweredOnce
    BY DEF StreamIInv
<1> QED BY <1>1, StreamInvariance, PTL

\* What is kept fits into a hand-off, and is what was read after the last request
\* (serveStream, stream.go:51).
THEOREM NothingDropped == ASSUME InputsSuit PROVE Mcp!Spec => []Kept
<1>1. StreamIInv => Kept
    BY DEF StreamIInv
<1> QED BY <1>1, StreamInvariance, PTL

-----------------------------------------------------------------------------
(* Types, of each component and of all as MCServices runs them.              *)

\* A supervisor file names a supervisor that has started, and a child that starts
\* beside another worker is the last one it started.
SupervisorTypes ==
    /\ TypeOK /\ lastToken \in Nat /\ json.token \in 0..lastToken
    /\ second = "starting" => active \in Versions

\* The types of the supervisor hold at the start.
LEMMA SupervisorTypesStart == Init => SupervisorTypes
<1> SUFFICES ASSUME Init PROVE SupervisorTypes
    OBVIOUS
<1>1. json \in Runtimes /\ json.token = 0 /\ lastToken = 0
    BY DEF Init, Runtimes, NoRuntime, None
<1>2. token = 0 /\ lock = 0 /\ request = 0 /\ askToken = 0
    BY DEF Init, None
<1>3. {exe, image} \subseteq Versions /\ {active, pending} \subseteq Versions \cup {None}
    BY VersionsAssumption DEF Init
<1>4. {stopping, replacing, waiting, wasked, wanted} \subseteq BOOLEAN
    BY DEF Init
<1>5. pc \in Down /\ known = "none" /\ worker = "none" /\ second = "none" /\ asking = "no"
    BY DEF Init, Down
<1> QED BY <1>1, <1>2, <1>3, <1>4, <1>5 DEF SupervisorTypes, TypeOK

\* The files after a step of the supervisor or of somebody who asks it to stop.
LEMMA FilesTyped ==
    ASSUME SupervisorTypes,
           Resume \/ Acquire \/ Announce \/ Poll \/ LastWord \/ Release \/ SupervisorExpires
             \/ Ask \/ WriteRequest
    PROVE  /\ lastToken' \in Nat /\ json' \in Runtimes /\ json'.token \in 0..lastToken'
           /\ {token, lock, request, askToken}' \subseteq 0..lastToken'
<1> USE DEF SupervisorTypes, TypeOK, None
<1>1. CASE Resume
  <2>1. json' \in Runtimes /\ json'.token = json.token
      BY <1>1 DEF Resume, Runtimes
  <2> QED BY <1>1, <2>1 DEF Resume, user
<1>2. CASE Acquire
    BY <1>2 DEF Acquire, user
<1>3. CASE Announce
    BY <1>3 DEF Announce, user, Runtimes
<1>4. CASE Poll
    BY <1>4 DEF Poll, user
<1>5. CASE LastWord
    BY <1>5 DEF LastWord, user, Runtimes
<1>6. CASE Release
    BY <1>6 DEF Release, user
<1>7. CASE SupervisorExpires
    BY <1>7 DEF SupervisorExpires, user, Runtimes
<1>8. CASE Ask
    BY <1>8 DEF Ask, files
<1>9. CASE WriteRequest
    BY <1>9 DEF WriteRequest
<1> QED BY <1>1, <1>2, <1>3, <1>4, <1>5, <1>6, <1>7, <1>8, <1>9

\* Every step keeps the types of the supervisor.
LEMMA SupervisorTypesKept == IInv /\ SupervisorTypes /\ [Next]_vars => SupervisorTypes'
<1> SUFFICES ASSUME IInv, SupervisorTypes, [Next]_vars PROVE SupervisorTypes'
    OBVIOUS
<1> USE DEF SupervisorTypes, TypeOK, Looping, Down, Goto, loopvars, workervars, user
<1>1. CASE Resume \/ Acquire \/ Announce \/ Poll
    BY <1>1, FilesTyped DEF Resume, Acquire, Announce, Poll
<1>2. CASE LastWord \/ Release
    BY <1>2, FilesTyped DEF LastWord, Release
<1>3. CASE SupervisorExpires \/ Ask \/ WriteRequest
    BY <1>3, FilesTyped DEF SupervisorExpires, Ask, WriteRequest
<1>a. CASE Adopt
  <2>1. replacing' \in BOOLEAN
      BY <1>a DEF Adopt, WorkerRuns
  <2>2. stopping' \in BOOLEAN /\ waiting' \in BOOLEAN
      BY <1>a DEF Adopt
  <2>3. second # "starting"
      BY <1>a DEF Adopt, IInv, Unseen
  <2> QED BY <1>a, <2>1, <2>2, <2>3 DEF Adopt, files
<1>b. CASE AdoptFails
    BY <1>b DEF AdoptFails, files
<1>c. CASE SecondStep
    BY <1>c DEF SecondStep, files
<1>4. CASE Act
  <2>1. replacing' \in BOOLEAN /\ wasked' \in BOOLEAN
      BY <1>4 DEF Act, Leave, Drain, StartDue, Watch, AskWorker
  <2>2. pc' \in {"leave_stopped", "leave_upgrading", "select", "start"}
      BY <1>4 DEF Act, Leave, Drain, StartDue, Watch
  <2> QED BY <1>4, <2>1, <2>2 DEF Act, files
<1>5. CASE StartWorker \/ Reap \/ Tick
    BY <1>5 DEF StartWorker, Reap, Tick, files
<1>6. CASE RetryDue \/ WorkerStep \/ WorkerEnds \/ WorkerExpires
    BY <1>6 DEF RetryDue, WorkerStep, WorkerEnds, WorkerExpires, files
<1>7. CASE SupervisorDies \/ WorkerDies \/ Respawn \/ Start \/ RequestWorker
    BY <1>7 DEF SupervisorDies, WorkerDies, Respawn, Start, RequestWorker, AskWorker, files
<1>8. CASE \E v \in Versions : Install(v)
    BY <1>8 DEF Install, files
<1>9. CASE UNCHANGED vars
    BY <1>9 DEF vars, files
<1> QED BY <1>1, <1>2, <1>3, <1>a, <1>b, <1>c, <1>4, <1>5, <1>6, <1>7, <1>8, <1>9 DEF Next, SupervisorStep

\* One editor at most holds the lock.
EditorsTyped == EditorIInv /\ Dashboard!TypeOK

\* Nobody holds the lock at the start.
LEMMA EditorsTypedStart == ASSUME MaxWrites \in Nat, Dashboard!Init PROVE EditorsTyped
BY EditorsStart DEF EditorsTyped, Dashboard!Init, Dashboard!TypeOK, Dashboard!Rest

\* The lock is taken only when nobody holds it.
LEMMA EditorsTypedKept ==
    ASSUME MaxWrites \in Nat, EditorsTyped, [Dashboard!Next]_(Dashboard!vars)
    PROVE  EditorsTyped'
<1>1. EditorIInv'
    BY EditorsKeep DEF EditorsTyped
<1>2. writes' \in 0..MaxWrites
    BY DEF EditorsTyped, Dashboard!TypeOK, Dashboard!Next, Dashboard!ByHand, Dashboard!Step,
           Dashboard!Load,
           Dashboard!Edit, Dashboard!Acquire, Dashboard!Compare, Dashboard!WriteTemp,
           Dashboard!Rename,
           Dashboard!Crash, Dashboard!vars
<1>3. \A d, e \in holds' : d = e
  <2>1. ASSUME NEW e \in Editors, Dashboard!Acquire(e) PROVE \A c, d \in holds' : c = d
      BY <2>1 DEF EditorsTyped, Dashboard!TypeOK, Dashboard!Acquire
  <2>2. ASSUME NEW e \in Editors,
               \/ Dashboard!Load(e) \/ Dashboard!Edit(e) \/ Dashboard!Compare(e)
               \/ Dashboard!WriteTemp(e) \/ Dashboard!Rename(e) \/ Dashboard!Crash(e)
        PROVE  holds' \subseteq holds
      BY <2>2 DEF Dashboard!Load, Dashboard!Edit, Dashboard!Compare, Dashboard!WriteTemp,
                  Dashboard!Rename,
                  Dashboard!Crash, Dashboard!Return
  <2>3. Dashboard!ByHand \/ UNCHANGED Dashboard!vars => holds' = holds
      BY DEF Dashboard!ByHand, Dashboard!vars
  <2> QED BY <2>1, <2>2, <2>3 DEF EditorsTyped, Dashboard!TypeOK, Dashboard!Next, Dashboard!Step
<1> QED BY <1>1, <1>2, <1>3
        DEF EditorsTyped, EditorIInv, EditorTypes, Texts, Dashboard!TypeOK

\* What an inspection finds is of the types it is kept in.
LEMMA InspectedTyped ==
    ASSUME BranchesSuit, GitTypes PROVE Git!Inspected \in Git!Inspections
<1>1. Git!DefaultBranch \in Branches \cup {Git!NoBranch}
    BY DEF BranchesSuit, Git!DefaultBranch
<1>2. Git!DefaultBranch # Git!NoBranch => tracked[Git!DefaultBranch] \in Git!Commits
    BY <1>1 DEF GitTypes, Git!Refs
<1>3. Git!NoCommit \in Git!Commits
    BY DEF Git!NoCommit, Git!Commits
<1> QED BY <1>1, <1>2, <1>3, HereTyped DEF Git!Inspected, Git!Inspections, GitTypes

\* The types of the repository and of what the update keeps of it.
GitTyped == GitIInv /\ Git!TypeOK

\* They hold at the start.
LEMMA GitTypedStart == ASSUME BranchesSuit, MaxOutside \in Nat, Git!Init PROVE GitTyped
<1>1. GitIInv
    BY GitStarts
<1>2. Git!Inspected \in Git!Inspections
    BY <1>1, InspectedTyped DEF GitIInv
<1>3. /\ dirty = FALSE /\ operation = FALSE /\ gitPc = "inspect" /\ result = "none"
      /\ initial = Git!Inspected /\ fetched = Git!Inspected /\ since = {} /\ outside = 0
    BY DEF Git!Init
<1>4. {initial, fetched} \subseteq Git!Inspections
    BY <1>2, <1>3
<1>5. outside \in 0..MaxOutside /\ since \subseteq {}
    BY <1>3
<1>a. dirty \in BOOLEAN /\ operation \in BOOLEAN
    BY <1>3
<1>6. /\ gitPc \in {"inspect", "fetch", "inspect_again", "switch", "merge", "final", "done"}
      /\ result \in {"none", "refused", "failed", "updated", "up_to_date"}
    BY <1>3
<1>7. /\ {origin, tracked, local} \subseteq Git!Refs
      /\ head \in Branches \cup {Git!NoBranch} /\ detachedAt \in Git!Commits
    BY <1>1 DEF GitIInv, GitTypes
<1> QED BY <1>1, <1>4, <1>5, <1>a, <1>6, <1>7 DEF GitTyped, Git!TypeOK

\* Every step of the update, the user and others keeps them.
LEMMA GitTypedKept ==
    ASSUME BranchesSuit, MaxOutside \in Nat, GitTyped, [Git!Next]_(Git!vars)
    PROVE  GitTyped'
<1> USE DEF GitTyped
<1>1. GitIInv'
    BY GitKeeps
<1>2. Git!Inspected \in Git!Inspections
    BY InspectedTyped DEF GitIInv
<1> DEFINE Rest == /\ dirty' \in BOOLEAN /\ operation' \in BOOLEAN
                   /\ gitPc' \in {"inspect", "fetch", "inspect_again", "switch", "merge", "final", "done"}
                   /\ {initial', fetched'} \subseteq Git!Inspections
                   /\ result' \in {"none", "refused", "failed", "updated", "up_to_date"}
                   /\ since' \subseteq {"commit", "edit", "operation", "switch"}
                   /\ outside' \in 0..MaxOutside
<1>3. Rest
  <2> USE DEF Git!TypeOK
  <2>1. CASE Git!Inspect \/ Git!Fetch \/ Git!InspectAgain
      BY <1>2, <2>1 DEF Git!Inspect, Git!Fetch, Git!InspectAgain, Git!Goto, Git!Reports, Git!repo
  <2>2. CASE Git!Switch \/ Git!Merge \/ Git!Final \/ Git!Interrupt
      BY <2>2 DEF Git!Switch, Git!Merge, Git!Final, Git!Interrupt, Git!Fails, Git!Goto,
                  Git!Reports, Git!repo
  <2>3. CASE Git!UserCommit \/ Git!UserEdit \/ Git!UserOperation \/ Git!UserDetach
             \/ \E b \in Branches : Git!UserSwitch(b)
    <3>1. PICK what \in {"commit", "edit", "operation", "switch"} : Git!User(what)
        BY <2>3 DEF Git!UserCommit, Git!UserEdit, Git!UserOperation, Git!UserDetach, Git!UserSwitch
    <3>2. since' = since \cup {what} /\ outside' \in 0..MaxOutside /\ UNCHANGED Git!task
        BY <3>1 DEF Git!User
    <3>3. dirty' \in BOOLEAN /\ operation' \in BOOLEAN
        BY <2>3 DEF Git!UserCommit, Git!UserEdit, Git!UserOperation, Git!UserDetach, Git!UserSwitch
    <3> QED BY <3>2, <3>3 DEF Git!task
  <2>4. CASE \/ \E b \in Branches : Git!Push(b) \/ Git!ForcePush(b)
             \/ \E b, c \in Branches : Git!Rename(b, c)
      BY <2>4 DEF Git!Push, Git!ForcePush, Git!Rename, Git!Others, Git!repo, Git!task
  <2>5. CASE UNCHANGED Git!vars
      BY <2>5 DEF Git!vars, Git!repo, Git!task
  <2> QED BY <2>1, <2>2, <2>3, <2>4, <2>5 DEF Git!Next, Git!Step, Git!Outside
<1> QED BY <1>1, <1>3 DEF GitIInv, GitTypes, Git!TypeOK

\* What is kept and what was answered are positions in the input.
LEMMA StreamTyped == ASSUME InputsSuit, StreamIInv PROVE Mcp!TypeOK
<1> DEFINE places == 1..Len(input)
<1>1. /\ consumed \in Nat /\ Len(input) \in Nat /\ consumed <= Len(input)
      /\ Dealt \in Nat /\ Dealt + Len(unread) = consumed /\ Len(unread) \in Nat
    BY Numbers DEF StreamIInv, StreamTypes
<1>2. unread \in Seq(places)
  <2>1. \A i \in 1..Len(unread) : unread[i] \in places
      BY <1>1 DEF StreamIInv, Kept
  <2> QED BY <2>1 DEF StreamIInv, Kept
<1>3. answers \in Seq(Seq(places))
  <2>1. ASSUME NEW k \in 1..Len(answers) PROVE answers[k] \in Seq(places)
    <3>1. PICK a, b \in Nat : IsRequest(a, b) /\ answers[k] = Mcp!Positions(a, b)
        BY DEF StreamIInv, AnsweredOnce, Whole
    <3>2. a < b /\ b <= Dealt
        BY <3>1, <1>1 DEF IsRequest
    <3>3. answers[k] = [i \in 1..(b - a) |-> a + i] /\ \A i \in 1..(b - a) : a + i \in places
        BY <3>1, <3>2, <1>1 DEF Mcp!Positions
    <3>4. b - a \in Nat
        BY <3>2
    <3> QED BY <3>3, <3>4
  <2> DEFINE Lists == Seq(places)
             Others == Seq(Nat)
  <2>2. answers \in Seq(Others)
      BY DEF StreamIInv, StreamTypes
  <2>3. \A k \in 1..Len(answers) : answers[k] \in Lists
      BY <2>1
  <2> HIDE DEF Lists, Others
  <2>4. answers \in Seq(Lists)
      BY <2>2, <2>3
  <2> QED BY <2>4 DEF Lists
<1> QED BY <1>2, <1>3 DEF StreamIInv, StreamTypes, Kept, Mcp!TypeOK, Mcp!Ends

\* A behaviour of the four is one of each.
LEMMA EachRuns == Services => Spec /\ Git!Spec /\ Dashboard!Spec /\ Mcp!Spec
<1>1. ServicesInit => Init /\ Git!Init /\ Dashboard!Init /\ Mcp!Init
    BY DEF ServicesInit
<1>2. [ServicesNext]_allVars => [Next]_vars
    BY DEF ServicesNext, SupervisorRuns, GitRuns, DashboardRuns, McpServes, McpClient, allVars
<1>3. [ServicesNext]_allVars => [Git!Next]_(Git!vars)
    BY DEF ServicesNext, SupervisorRuns, GitRuns, DashboardRuns, McpServes, McpClient, allVars,
           gitVars, Git!vars, Git!repo, Git!task
<1>4. [ServicesNext]_allVars => [Dashboard!Next]_(Dashboard!vars)
    BY DEF ServicesNext, SupervisorRuns, GitRuns, DashboardRuns, McpServes, McpClient, allVars,
           dashboardVars, Dashboard!vars
<1>5. [ServicesNext]_allVars => [Mcp!Next]_(Mcp!vars)
    BY DEF ServicesNext, SupervisorRuns, GitRuns, DashboardRuns, McpServes, McpClient, allVars,
           mcpVars, Mcp!vars, Mcp!Next
<1> QED BY <1>1, <1>2, <1>3, <1>4, <1>5, PTL DEF Services, Spec, Git!Spec, Dashboard!Spec, Mcp!Spec

\* Every variable of the four components stays in its type.
THEOREM ServicesTyped ==
    ASSUME BranchesSuit, InputsSuit, MaxOutside \in Nat, MaxWrites \in Nat
    PROVE  Services => []ServicesTypeOK
<1>1. Spec => []SupervisorTypes
    BY SupervisorTypesStart, SupervisorTypesKept, Invariance, PTL DEF Spec
<1>2. Git!Spec => []GitTyped
  <2>1. Git!Init => GitTyped
      BY GitTypedStart
  <2>2. GitTyped /\ [Git!Next]_(Git!vars) => GitTyped'
      BY GitTypedKept
  <2> QED BY <2>1, <2>2, PTL DEF Git!Spec
<1>3. Dashboard!Spec => []EditorsTyped
  <2>1. Dashboard!Init => EditorsTyped
      BY EditorsTypedStart
  <2>2. EditorsTyped /\ [Dashboard!Next]_(Dashboard!vars) => EditorsTyped'
      BY EditorsTypedKept
  <2> QED BY <2>1, <2>2, PTL DEF Dashboard!Spec
<1>4. Mcp!Spec => []StreamIInv
    BY StreamInvariance
<1>5. SupervisorTypes /\ GitTyped /\ EditorsTyped /\ StreamIInv => ServicesTypeOK
    BY StreamTyped DEF SupervisorTypes, GitTyped, EditorsTyped, ServicesTypeOK
<1> QED BY <1>1, <1>2, <1>3, <1>4, <1>5, EachRuns, PTL

=============================================================================
