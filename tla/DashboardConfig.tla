--------------------------- MODULE DashboardConfig ---------------------------
(***************************************************************************)
(* The dashboard configuration of a workspace and the editors that change  *)
(* it (internal/scan/workspace_dashboard_config.go, dashboardeditor).  An  *)
(* editor loads the configuration with its revision and saves under that   *)
(* revision: the save takes a lock file, compares the revision with that   *)
(* of the file and renames a temporary file over it.  Another program may  *)
(* change the file at any time without the lock.                           *)
(***************************************************************************)
EXTENDS Integers

CONSTANTS
    Editors,    \* browser sessions, in one or in several servers
    Contents,   \* what the configuration may say
    MaxWrites,  \* bound: saves begun, and changes by hand
    NoFile      \* there is no configuration yet; also the revision "missing"

VARIABLES
    file,     \* the configuration
    holds,    \* the editors that hold the lock file
    pc, task, \* what each editor does: its content, and the revision it is based on
    byHand,   \* byHand[e]: the file was changed by hand since e compared its revision
    writes

vars == <<file, holds, pc, task, byHand, writes>>

\* The revision is the hash of the content.
Revision(content) == content

Goto(e, label) == pc' = [pc EXCEPT ![e] = label]
Rest == {"idle", "saved", "conflict", "failed"}

\* The deferred release; when it fails the caller is told so although the file
\* may have been replaced.
Return(e, result) ==
    /\ \/ Goto(e, result)
       \/ result = "saved" /\ Goto(e, "failed")
    /\ holds' = holds \ {e}

-----------------------------------------------------------------------------

Load(e) ==
    /\ pc[e] \in Rest
    /\ task' = [task EXCEPT ![e] = [content |-> file, expected |-> Revision(file)]]
    /\ Goto(e, "loaded")
    /\ UNCHANGED <<file, holds, byHand, writes>>

\* The user changes what was loaded or saved last, or tries again, and asks to
\* save it under the revision the editor has.
Edit(e) ==
    /\ pc[e] \in {"loaded", "saved", "failed"} /\ writes < MaxWrites /\ writes' = writes + 1
    /\ \E c \in Contents \ {task[e].content} : task' = [task EXCEPT ![e].content = c]
    /\ Goto(e, "lock")
    /\ UNCHANGED <<file, holds, byHand>>

\* Mutated form: the lock file is created, and not locked.
AcquireShared(e) ==
    /\ pc[e] = "lock"
    /\ holds' = holds \cup {e} /\ Goto(e, "compare")
    /\ UNCHANGED <<file, task, byHand, writes>>

Acquire(e) ==
    /\ pc[e] = "lock"
    /\ \/ holds = {} /\ holds' = {e} /\ Goto(e, "compare")
       \/ holds # {} /\ Goto(e, "failed") /\ UNCHANGED holds     \* five seconds later
    /\ UNCHANGED <<file, task, byHand, writes>>

Compare(e) ==
    /\ pc[e] = "compare"
    /\ IF Revision(file) = task[e].expected
       THEN Goto(e, "write") /\ byHand' = [byHand EXCEPT ![e] = FALSE] /\ UNCHANGED holds
       ELSE Return(e, "conflict") /\ UNCHANGED byHand
    /\ UNCHANGED <<file, task, writes>>

\* The temporary file, written and synced; or something fails, the rename
\* included, and the file stays.
WriteTemp(e) ==
    /\ pc[e] = "write"
    /\ \/ Goto(e, "rename") /\ UNCHANGED holds
       \/ Return(e, "failed")
    /\ UNCHANGED <<file, task, byHand, writes>>

Rename(e) ==
    /\ pc[e] = "rename"
    /\ file' = task[e].content
    /\ Return(e, "saved")
    /\ task' = IF pc'[e] = "saved"
               THEN [task EXCEPT ![e].expected = Revision(task[e].content)] ELSE task
    /\ UNCHANGED <<byHand, writes>>

\* The server dies; the lock is the kernel's and goes with it.
Crash(e) ==
    /\ pc[e] \notin Rest
    /\ Goto(e, "idle")
    /\ holds' = holds \ {e}
    /\ UNCHANGED <<file, task, byHand, writes>>

ByHand ==
    /\ writes < MaxWrites /\ writes' = writes + 1
    /\ \E c \in (Contents \cup {NoFile}) \ {file} : file' = c
    /\ byHand' = [e \in Editors |-> TRUE]
    /\ UNCHANGED <<holds, pc, task>>

-----------------------------------------------------------------------------

Init ==
    /\ file = NoFile /\ holds = {}
    /\ pc = [e \in Editors |-> "idle"]
    /\ task = [e \in Editors |-> [content |-> NoFile, expected |-> NoFile]]
    /\ byHand = [e \in Editors |-> FALSE]
    /\ writes = 0

Step(e) == Load(e) \/ Edit(e) \/ Acquire(e) \/ Compare(e) \/ WriteTemp(e) \/ Rename(e)

Next == ByHand \/ \E e \in Editors : Step(e) \/ Crash(e)

Spec == Init /\ [][Next]_vars

=============================================================================
