----------------------------- MODULE GitUpdate -----------------------------
(***************************************************************************)
(* `goregraph git update --execute' of one repository                      *)
(* (internal/gitupdate/update.go, inspect.go): inspect, fetch, inspect     *)
(* again, switch to the default branch, fast-forward it, inspect, report.  *)
(* The user works in the repository and others push to origin between any  *)
(* two of these steps.                                                     *)
(*                                                                         *)
(* A commit is the set of changes in its history, so that one commit is an *)
(* ancestor of another if it is a subset.  The git commands of one         *)
(* inspection see one state of the repository.                             *)
(***************************************************************************)
EXTENDS Integers, FiniteSets

CONSTANTS
    Branches,     \* branch names, among them the defaults "main" and "master"
    OriginHead,   \* branch the cached origin/HEAD names, or NoBranch
    MaxOutside    \* bound: steps of the user and of others

NoCommit == {}
NoBranch == ""

VARIABLES
    origin,            \* origin[b]: the commit of b on the server, or NoCommit
    tracked,           \* tracked[b]: the commit of refs/remotes/origin/b, or NoCommit
    local,             \* local[b]: the commit of refs/heads/b, or NoCommit
    head, detachedAt,  \* the branch HEAD names, or NoBranch and the commit HEAD is at
    dirty, operation,  \* changes in the working tree; a merge or pick in progress
    pc, initial, fetched, result,   \* the update, what it saw and what it reports
    since,             \* what the user did since the second inspection
    outside

repo == <<tracked, local, head, detachedAt, dirty, operation>>
task == <<pc, initial, fetched, result>>
vars == <<origin, repo, task, since, outside>>

Commits == SUBSET Nat
Here == IF head = NoBranch THEN detachedAt ELSE local[head]

-----------------------------------------------------------------------------
(* Inspection.                                                                *)

\* The branch the cached refs of origin name as its default.
DefaultBranch ==
    LET Has(b) == tracked[b] # NoCommit
    IN CASE OriginHead # NoBranch /\ tracked[OriginHead] # NoCommit -> OriginHead
         [] Has("main") /\ ~Has("master") -> "main"
         [] Has("master") /\ ~Has("main") -> "master"
         [] OTHER -> NoBranch

Inspected ==
    [branch |-> head, commit |-> Here, target |-> DefaultBranch,
     targetCommit |-> IF DefaultBranch = NoBranch THEN NoCommit ELSE tracked[DefaultBranch],
     exists |-> DefaultBranch # NoBranch /\ local[DefaultBranch] # NoCommit]

\* A branch with commits that its counterpart of the same name lacks.
Unpublished(b) == local[b] # NoCommit /\ tracked[b] # NoCommit /\ ~(local[b] \subseteq tracked[b])

\* Mutated form: changes in the working tree do not count.
RefusedInOperation ==
    \/ operation \/ head = NoBranch \/ DefaultBranch = NoBranch
    \/ \E b \in {head, DefaultBranch} : Unpublished(b)

Refused ==
    \/ operation \/ dirty \/ head = NoBranch \/ DefaultBranch = NoBranch
    \/ \E b \in {head, DefaultBranch} : Unpublished(b)

-----------------------------------------------------------------------------
(* The update.                                                                *)

Goto(label) == pc' = label /\ UNCHANGED result
Reports(r) == pc' = "done" /\ result' = r

Inspect ==
    /\ pc = "inspect"
    /\ initial' = Inspected
    /\ IF Refused THEN Reports("refused") ELSE Goto("fetch")
    /\ UNCHANGED <<origin, repo, fetched, since, outside>>

\* All branches of origin, also those that were rewritten; deleted ones go.
Fetch ==
    /\ pc = "fetch"
    /\ \/ tracked' = origin /\ Goto("inspect_again")
       \/ Reports("failed") /\ UNCHANGED tracked
    /\ UNCHANGED <<origin, local, head, detachedAt, dirty, operation, initial, fetched,
                   since, outside>>

\* The commits to be checked out may also be refused for what is in their trees.
InspectAgain ==
    /\ pc = "inspect_again"
    /\ fetched' = Inspected /\ since' = {}
    /\ \/ ~Refused /\ Goto("switch")
       \/ Reports("refused")
    /\ UNCHANGED <<origin, repo, initial, outside>>

\* A failed command is followed by an inspection that says why, if it can.
Fails == Reports(IF Refused THEN "refused" ELSE "failed")

\* git refuses to switch while an operation is in progress, to create a branch
\* that exists, and to overwrite changes in the working tree.
Switch ==
    LET b == fetched.target IN
    /\ pc = "switch"
    /\ \/ /\ ~operation /\ (local[b] # NoCommit) = fetched.exists
          /\ fetched.exists \/ tracked[b] # NoCommit
          /\ head' = b
          /\ local' = [local EXCEPT ![b] = IF fetched.exists THEN @ ELSE tracked[b]]
          /\ Goto("merge")
       \/ /\ operation \/ dirty \/ (local[b] # NoCommit) # fetched.exists
          /\ Fails /\ UNCHANGED <<local, head>>
    /\ UNCHANGED <<origin, tracked, detachedAt, dirty, operation, initial, fetched,
                   since, outside>>

\* HEAD, wherever it is by now, is at the commit c.
Moved(c) == IF head = NoBranch THEN detachedAt' = c /\ UNCHANGED local
                           ELSE local' = [local EXCEPT ![head] = c] /\ UNCHANGED detachedAt

\* Mutated form: git may create a merge commit.
MergeAny ==
    LET c == tracked[fetched.target] IN
    /\ pc = "merge"
    /\ \/ ~operation /\ Moved(Here \cup c) /\ Goto("final")
       \/ /\ operation \/ dirty
          /\ Fails /\ UNCHANGED <<local, detachedAt>>
    /\ UNCHANGED <<origin, tracked, head, dirty, operation, initial, fetched, since, outside>>

\* Mutated form: what was the default branch before the fetch is merged.
MergeInitial ==
    LET c == initial.targetCommit IN
    /\ pc = "merge"
    /\ \/ ~operation /\ (c \subseteq Here \/ Here \subseteq c) /\ Moved(Here \cup c) /\ Goto("final")
       \/ /\ operation \/ dirty \/ ~(c \subseteq Here \/ Here \subseteq c)
          /\ Fails /\ UNCHANGED <<local, detachedAt>>
    /\ UNCHANGED <<origin, tracked, head, dirty, operation, initial, fetched, since, outside>>

Merge ==
    LET c == tracked[fetched.target] IN
    /\ pc = "merge"
    /\ \/ ~operation /\ c \subseteq Here /\ Goto("final") /\ UNCHANGED <<local, detachedAt>>
       \/ ~operation /\ Here \subseteq c /\ Here # c /\ Moved(c) /\ Goto("final")
       \/ /\ operation \/ (~(c \subseteq Here) /\ (dirty \/ ~(Here \subseteq c)))
          /\ Fails /\ UNCHANGED <<local, detachedAt>>
    /\ UNCHANGED <<origin, tracked, head, dirty, operation, initial, fetched, since, outside>>

Final ==
    /\ pc = "final"
    /\ Reports(IF head # initial.branch \/ Here # initial.commit THEN "updated" ELSE "up_to_date")
    /\ UNCHANGED <<origin, repo, initial, fetched, since, outside>>

\* The update is cancelled or dies between two git commands.
Interrupt ==
    /\ pc # "done"
    /\ Reports("failed")
    /\ UNCHANGED <<origin, repo, initial, fetched, since, outside>>

-----------------------------------------------------------------------------
(* The user in the repository, and others at origin.                          *)

New == 10 + outside    \* a change nobody has made yet

User(what) ==
    /\ pc # "done" /\ outside < MaxOutside /\ outside' = outside + 1
    /\ since' = since \cup {what}
    /\ UNCHANGED <<origin, tracked, task>>

UserCommit ==
    /\ User("commit") /\ ~operation
    /\ Moved(Here \cup {New}) /\ dirty' = FALSE
    /\ UNCHANGED <<head, operation>>

UserEdit == /\ User("edit") /\ dirty' = ~dirty
            /\ UNCHANGED <<local, head, detachedAt, operation>>

\* Starting an operation, or aborting it.
UserOperation == /\ User("operation") /\ operation' = ~operation
                 /\ UNCHANGED <<local, head, detachedAt, dirty>>

UserSwitch(b) ==
    /\ User("switch") /\ ~operation /\ head # b
    /\ head' = b
    /\ local' = [local EXCEPT ![b] = IF @ = NoCommit THEN Here ELSE @]
    /\ UNCHANGED <<detachedAt, dirty, operation>>

UserDetach ==
    /\ User("switch") /\ ~operation /\ head # NoBranch
    /\ head' = NoBranch /\ detachedAt' = Here
    /\ UNCHANGED <<local, dirty, operation>>

Others ==
    /\ pc # "done" /\ outside < MaxOutside /\ outside' = outside + 1
    /\ UNCHANGED <<repo, task, since>>

Push(b) == /\ Others /\ origin[b] # NoCommit
           /\ origin' = [origin EXCEPT ![b] = @ \cup {New}]

\* The last commits of b are replaced by another one.
ForcePush(b) == /\ Others /\ origin[b] # NoCommit
                /\ origin' = [origin EXCEPT ![b] = {1, New}]

Rename(b, c) == /\ Others /\ origin[b] # NoCommit /\ origin[c] = NoCommit
                /\ origin' = [origin EXCEPT ![c] = origin[b], ![b] = NoCommit]

-----------------------------------------------------------------------------

\* The repository was cloned, somebody may have pushed since, and the user may be
\* on a branch of his own, with or without commits that are not published.
Init ==
    /\ tracked = [b \in Branches |-> IF b = "main" THEN {1} ELSE NoCommit]
    /\ \E c \in {{1}, {1, 2}} : origin = [tracked EXCEPT !["main"] = c]
    /\ \E b \in Branches \ {"master"}, c \in {{1}, {1, 3}} :
          /\ head = b
          /\ local = [tracked EXCEPT ![b] = c]
    /\ detachedAt = {1}
    /\ dirty = FALSE /\ operation = FALSE
    /\ pc = "inspect" /\ result = "none"
    /\ initial = Inspected /\ fetched = Inspected
    /\ since = {} /\ outside = 0

Step == Inspect \/ Fetch \/ InspectAgain \/ Switch \/ Merge \/ Final

Outside ==
    \/ UserCommit \/ UserEdit \/ UserOperation \/ UserDetach
    \/ \E b \in Branches : UserSwitch(b) \/ Push(b) \/ ForcePush(b)
    \/ \E b, c \in Branches : Rename(b, c)

Next == Step \/ Interrupt \/ Outside

Spec == Init /\ [][Next]_vars

=============================================================================
