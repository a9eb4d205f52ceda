---------------------- MODULE OutputStoreRecoveryProofs ----------------------
(***************************************************************************)
(* Theorems about what a publication of OutputStore leaves behind whatever *)
(* interrupts it, for every number of processes, roots, transactions,      *)
(* faults and moves: the last good output is never lost, a publication     *)
(* that has started can be repaired, what UpdateMany returns is what       *)
(* happened, and the protocol implements AtomicPublication.                *)
(*                                                                         *)
(* The inductive invariant relates the coordinator's journal to the files  *)
(* of every root of its transaction (Coordinated), and the step of a       *)
(* process to the files of the roots it holds (Working): the first is what *)
(* a crash leaves, the second what a running call may rely on.  That a     *)
(* repair does not mistake the files of one transaction for those of       *)
(* another rests on generations being drawn in order (Ages), unknown until *)
(* they are journalled (Unseens) and never revived (Finals).               *)
(***************************************************************************)
EXTENDS OutputStoreProofs

\* The steps of a call that recovers a root; of an update until its commit; of a
\* clean-up: back to the old outputs, on to the new ones, and closing either.
Recovering == {"recover", "decision", "lock_recovery", "lock_finalized", "recheck_recovery"}
Updating == Beginning \cup Owning \cup {"discard", "commit"}
Backward == {"verify_prepared", "drop_stage", "verify_rollback", "undo_promotion", "undo_backup",
             "record_prepared"}
Forward == {"verify_committed", "verify_cleaning", "clean"}
Cleanup == Backward \cup Forward \cup {"finalize", "retire"}
Closing == {"verify_prepared", "drop_stage", "finalize", "retire"}
\* The steps with the decision in hand recorded by the coordinator, and its states.
Promoting == {"promote_backup", "promote_stage", "commit", "verify_rollback", "undo_promotion",
              "undo_backup", "record_prepared"}
Started == Promoting \cup Forward

UpdateSets == {j.roots : j \in {i \in UNION {Jobs[p] : p \in Procs} : i.kind = "update"}}
ReadSets == {j.roots : j \in {i \in UNION {Jobs[p] : p \in Procs} : i.kind = "read"}}

\* What a call is for.
Purpose(at, t) ==
    /\ t.kind = "update" => t.roots \in UpdateSets
    /\ t.kind = "read" => t.roots \in ReadSets
    /\ at \in Recovering => t.queue # {} /\ t.mode = "none"
    /\ at \in Updating => t.kind = "update"
    /\ at \in Cleanup /\ t.mode \in {"none", "recover"} => t.queue # {}

\* An update that closes its own transaction.
OwnClosing(t) == t.mode \in {"abandon", "undo", "finish"}

\* The states of the record in hand.
StatesAt(at) ==
    CASE at \in {"stage", "validate", "excl_lock", "recheck", "persist", "publish",
                 "verify_prepared", "drop_stage"} -> {"prepared"}
      [] at \in Promoting -> {"publishing"}
      [] at = "verify_committed" -> {"committed"}
      [] at \in {"verify_cleaning", "clean"} -> {"cleaning"}
      [] at = "finalize" -> {"prepared", "cleaning"}
      [] at \in {"lock_finalized", "retire"} -> {"finalized"}
      [] OTHER -> States

\* What the local variables t of a call are at the step at.
Local(at, t) ==
    /\ at \in Worked => t.txn.state \in StatesAt(at)
    /\ at \in Owning => IsFirst(t.txn.lead, Extent(t))
    /\ at \in Owning \cup {"recover", "decision"} \cup Started => t.absent = {}
    /\ at \in Owning \cup {"commit"} => t.txn.roots = t.roots
    /\ at \in {"lock_recovery", "lock_finalized", "recheck_recovery"} /\ t.absent # {} =>
           t.txn.state \in {"prepared", "finalized"}
    /\ at \in {"recheck", "publish", "verify_rollback", "recheck_recovery", "finalize"} =>
           t.todo = Extent(t)
    /\ at \in Cleanup /\ OwnClosing(t) => t.absent = {} /\ t.txn.roots = t.roots /\ t.kind = "update"
    /\ at \in Backward => t.mode # "finish"
    /\ at \in Forward => t.mode \notin {"abandon", "undo"}

\* Where the output of the entry e, found as d beside the backup b, is then ...
Place(at, t, e, d, b) ==
    LET old == d = t.txn.prev[e]
        new == d = t.txn.gen
    IN /\ at \in {"persist", "publish"} => old /\ b = Absent
       /\ at = "promote_backup" => IF e \in t.todo THEN old ELSE new
       /\ at = "promote_stage" => IF e \notin t.todo THEN new
                                  ELSE IF IsFirst(e, t.todo) THEN d = Absent ELSE old
       /\ at = "commit" => new
       /\ at \in {"undo_promotion", "undo_backup"} => e \in t.todo \/ old
       /\ at = "undo_backup" => ~(IsLast(e, t.todo) /\ new)
       /\ at = "record_prepared" => old
       /\ at \in Closing /\ t.mode \in {"abandon", "undo"} => old
       /\ at \in Closing /\ t.mode = "finish" => new

\* ... and what its journal j is.
Journalled(at, t, e, j) ==
    /\ at = "persist" => j = IF e \in t.todo THEN None ELSE t.txn
    /\ at = "publish" => j = t.txn
    /\ at \in Started /\ e = t.txn.lead => j = t.txn
    /\ at \in {"verify_prepared", "drop_stage", "finalize"} /\ e = t.txn.lead => j \in {t.txn, None}
    /\ at \in Closing /\ OwnClosing(t) =>
           \/ j = None
           \/ SameTransaction(t.txn, j) /\ (at = "retire" => e \in t.todo)

Sight(at, t, D, J, B) ==
    at \in Exclusive => \A e \in Extent(t) : /\ Place(at, t, e, D[e], B[e][t.txn.gen])
                                             /\ Journalled(at, t, e, J[e])

Work(at, t, D, J, B) == Purpose(at, t) /\ Local(at, t) /\ Sight(at, t, D, J, B)
Working == \A p \in Procs : Work(pc[p], task[p], dir, journal, backup)

\* What the coordinator's record d says of the entry e.
Entry(d, e) ==
    /\ d.state = "prepared" /\ SameTransaction(journal[e], d) =>
           dir[e] = d.prev[e] /\ backup[e][d.gen] = Absent
    /\ d.state \in {"publishing", "committed", "cleaning"} => SameTransaction(journal[e], d)
    /\ d.state = "publishing" => RollbackEntryValid(d, e)
    /\ d.state \in {"committed", "cleaning"} => dir[e] = d.gen
    /\ d.state = "committed" => backup[e][d.gen] \in {Absent, d.prev[e]}
Coordinated == \A l \in Roots :
    journal[l] # None /\ journal[l].lead = l => \A e \in journal[l].roots : Entry(journal[l], e)

\* A journal lies beside a root of its transaction.
Beside == \A r \in Roots : journal[r] # None => r \in journal[r].roots

\* Generations grow: what a transaction found is older than itself, what is
\* published has been drawn, and nothing is set aside for a generation to come.
Older(j) == j # None => \A r \in Roots : j.prev[r] \in Nat => j.prev[r] < j.gen
Ages == /\ \A r \in Roots : Older(journal[r])
        /\ \A p \in Procs : Older(task[p].txn)
        /\ \A r \in Roots : dir[r] \in Nat => dir[r] < nextGen
        /\ \A r \in Roots : \A g \in Gens : g >= nextGen => backup[r][g] = Absent

\* Before the coordinator's journal is written nothing refers to a transaction.
Unwritten(at, t) == \/ at \in {"stage", "validate", "excl_lock", "discard", "recheck"}
                    \/ at = "persist" /\ t.txn.lead \in t.todo
Unrelated(j, g) == j # None => j.gen # g /\ \A r \in Roots : j.prev[r] # g
Unseen(p, g) ==
    /\ \A r \in Roots : dir[r] # g /\ backup[r][g] = Absent /\ Unrelated(journal[r], g)
    /\ \A q \in Procs \ {p} : Unrelated(task[q].txn, g)
Unseens == \A p \in Procs : Unwritten(pc[p], task[p]) => Unseen(p, task[p].txn.gen)

\* A transaction that is finalized stays so.
Ended(j) == /\ j # None /\ j.state = "finalized" /\ SameTransaction(j, journal[j.lead])
            => journal[j.lead].state = "finalized"
Finals == /\ \A r \in Roots : Ended(journal[r])
          /\ \A p \in Procs : Ended(task[p].txn)

RInv == Working /\ Coordinated /\ Beside /\ Ages /\ Unseens /\ Finals

USE DEF Beginning, Readers

-----------------------------------------------------------------------------
(* What a step of p writes lies at entries it holds.                          *)

LEMMA WritesEntries ==
    ASSUME TypeOK, TxnInHand, Holding, NEW p \in Procs, Acts(p), NEW r \in Roots,
           dir'[r] # dir[r] \/ journal'[r] # journal[r] \/ backup'[r] # backup[r]
    PROVE  pc[p] \in Exclusive /\ r \in Extent(task[p])
<1>1. CASE UNCHANGED fs
    BY <1>1 DEF fs
<1>2. CASE Inspect(p) \/ Stage(p) \/ Discard(p)
    BY <1>2, StagingTouches
<1>3. CASE pc[p] \in Exclusive /\ \E s \in task[p].todo \cup {task[p].txn.lead} : Touches(p, s)
  <2>1. PICK s \in task[p].todo \cup {task[p].txn.lead} : Touches(p, s)
      BY <1>3
  <2>2. task[p].todo \cup {task[p].txn.lead} \subseteq Extent(task[p])
      BY <1>3 DEF Holding, Held, Scope, Exclusive
  <2>3. r = s
      BY <2>1 DEF Touches
  <2> QED BY <1>3, <2>2, <2>3
<1>4. CASE CleanupStep(p)
    BY <1>3, <1>4, CleanupTouches DEF Repairing
<1>5. CASE UpdateStep(p)
    BY <1>1, <1>2, <1>3, <1>5, PublishingTouches, OthersReadOnly DEF UpdateStep
<1> QED BY <1>1, <1>4, <1>5, OthersReadOnly DEF Acts, Step

\* The entries of another process stay as they are.
LEMMA OthersEntries ==
    ASSUME TypeOK, TxnInHand, LockExclusion, Holding, NEW p \in Procs, Acts(p),
           NEW q \in Procs \ {p}, pc[q] \in Exclusive, NEW r \in Extent(task[q])
    PROVE  dir'[r] = dir[r] /\ journal'[r] = journal[r] /\ backup'[r] = backup[r]
<1>1. r \in lock[q].excl
    BY DEF Holding, Held, Locked
<1>2. r \in Roots
    BY <1>1 DEF TypeOK, Locks
<1>3. r \notin lock[p].excl
    BY <1>1 DEF LockExclusion
<1> QED BY <1>2, <1>3, WritesUnderLock DEF UnderLock

LEMMA SightFrame ==
    ASSUME NEW at, NEW t, NEW D, NEW J, NEW B, NEW D1, NEW J1, NEW B1, Sight(at, t, D, J, B),
           at \in Exclusive => \A e \in Extent(t) : D1[e] = D[e] /\ J1[e] = J[e] /\ B1[e] = B[e]
    PROVE  Sight(at, t, D1, J1, B1)
BY DEF Sight

LEMMA OthersWork ==
    ASSUME TypeOK, TxnInHand, LockExclusion, Holding, Working, NEW p \in Procs, Acts(p),
           NEW q \in Procs \ {p}
    PROVE  Work(pc'[q], task'[q], dir', journal', backup')
<1>1. pc'[q] = pc[q] /\ task'[q] = task[q]
    BY OnlyOwn
<1>2. Work(pc[q], task[q], dir, journal, backup)
    BY DEF Working
<1>3. Sight(pc[q], task[q], dir', journal', backup')
    BY <1>2, OthersEntries, SightFrame DEF Work
<1> QED BY <1>1, <1>2, <1>3 DEF Work

-----------------------------------------------------------------------------
(* A process finds its entries as its next step expects them.                 *)

Mine(p) == Work(pc[p], task[p], dir, journal, backup)

\* Steps at which no record is in hand, and nothing is said of the files.
Plain == Labels \ (Worked \cup {"decision"})

LEMMA PlainWork ==
    ASSUME NEW at \in Plain, NEW t, NEW D, NEW J, NEW B, Purpose(at, t),
           at = "recover" => t.absent = {}
    PROVE  Work(at, t, D, J, B)
BY DEF Plain, Work, Local, Sight, Owning, Worked, TxnPcs, Exclusive, Started, Promoting, Forward,
       Cleanup, Backward

LEMMA NoTaskPurpose == ASSUME NEW at \in Terminal PROVE Purpose(at, NoTask) /\ at \in Plain
BY SMT DEF Purpose, NoTask, Terminal, Recovering, Updating, Owning, Cleanup, Backward, Forward, Plain,
       Labels, Worked, TxnPcs

LEMMA ReturnWork ==
    ASSUME TypeOK, NEW p \in Procs, NEW result \in Terminal, Return(p, result)
    PROVE  Mine(p)'
<1>1. pc'[p] = result /\ task'[p] = NoTask
    BY ReturnAfter
<1>2. Purpose(pc'[p], task'[p]) /\ pc'[p] \in Plain /\ pc'[p] # "recover"
    BY <1>1, NoTaskPurpose DEF Terminal
<1> QED BY <1>2, PlainWork DEF Mine

LEMMA CleanupFailedWork ==
    ASSUME TypeOK, NEW p \in Procs, NEW late, CleanupFailed(p, late)
    PROVE  Mine(p)'
BY CleanupFailedAfter, ReturnWork

LEMMA RecoveredWork ==
    ASSUME TypeOK, NEW p \in Procs, NEW r, Mine(p), Recovered(p, r)
    PROVE  Mine(p)'
<1> DEFINE rest == task[p].queue \ {r}
           next == [NoTask EXCEPT !.kind = task[p].kind, !.roots = task[p].roots, !.queue = rest]
           last == [next EXCEPT !.todo = task[p].roots]
<1>1. Purpose(pc[p], task[p])
    BY DEF Mine, Work
<1>2. /\ next.kind = task[p].kind /\ next.roots = task[p].roots /\ next.queue = rest
      /\ next.absent = {} /\ next.mode = "none"
      /\ last.kind = task[p].kind /\ last.roots = task[p].roots
      /\ last.absent = {} /\ last.mode = "none"
    BY DEF NoTask
<1>3. CASE rest # {}
  <2>1. pc'[p] = "recover" /\ task'[p] = next
      BY <1>3, GotoAfter DEF Recovered, TypeOK
  <2>2. Purpose("recover", next) /\ "recover" \in Plain
      BY <1>1, <1>2, <1>3 DEF Purpose, Recovering, Updating, Owning, Cleanup, Backward, Forward, Plain,
          Labels, Worked, TxnPcs
  <2> QED BY <1>2, <2>1, <2>2, PlainWork DEF Mine
<1>4. CASE rest = {} /\ task[p].kind = "update"
  <2>1. pc'[p] = "writer_lock" /\ task'[p] = last
      BY <1>4, GotoAfter DEF Recovered, TypeOK
  <2>2. Purpose("writer_lock", last) /\ "writer_lock" \in Plain
      BY <1>1, <1>2, <1>4 DEF Purpose, Recovering, Updating, Owning, Cleanup, Backward, Forward, Plain,
          Labels, Worked, TxnPcs
  <2> QED BY <2>1, <2>2, PlainWork DEF Mine
<1>5. CASE rest = {} /\ task[p].kind # "update"
    BY <1>5, ReturnWork DEF Recovered, Terminal
<1> QED BY <1>3, <1>4, <1>5

LEMMA StartWork ==
    ASSUME TypeOK, NEW p \in Procs, Start(p)
    PROVE  Mine(p)'
<1>1. PICK j \in Jobs[p] : StartUpdate(p, j) \/ StartRecover(p, j) \/ StartRead(p, j)
    BY DEF Start
<1>2. /\ j.roots # {}
      /\ j.kind = "update" => j.roots \in UpdateSets
      /\ j.kind = "read" => j.roots \in ReadSets
  <2>1. j \in UNION {Jobs[q] : q \in Procs} /\ j \in Requests
      BY JobsAssumption
  <2>2. j.roots # {}
      BY <2>1 DEF Requests
  <2> QED BY <2>1, <2>2 DEF UpdateSets, ReadSets
<1>3. "recover" \in Plain /\ "read_init" \in Plain
    BY DEF Plain, Labels, Worked, TxnPcs
<1> DEFINE t == task'[p]
<1>4. CASE StartUpdate(p, j)
  <2>1. t = [NoTask EXCEPT !.kind = "update", !.roots = j.roots, !.queue = j.roots]
      BY <1>4 DEF StartUpdate, TypeOK
  <2>2. t.kind = "update" /\ t.roots = j.roots /\ t.queue = j.roots /\ t.mode = "none" /\ t.absent = {}
      BY <2>1 DEF NoTask
  <2>3. pc'[p] = "recover" /\ j.kind = "update"
      BY <1>4, GotoAfter DEF StartUpdate
  <2>4. Purpose("recover", t)
      BY <1>2, <2>2, <2>3 DEF Purpose, Updating, Owning, Cleanup, Backward, Forward
  <2> QED BY <1>3, <2>2, <2>3, <2>4, PlainWork DEF Mine
<1>5. CASE StartRecover(p, j)
  <2>1. t = [NoTask EXCEPT !.kind = "recover", !.roots = j.roots, !.queue = j.roots]
      BY <1>5 DEF StartRecover, TypeOK
  <2>2. t.kind = "recover" /\ t.roots = j.roots /\ t.queue = j.roots /\ t.mode = "none" /\ t.absent = {}
      BY <2>1 DEF NoTask
  <2>3. pc'[p] = "recover"
      BY <1>5, GotoAfter DEF StartRecover
  <2>4. Purpose("recover", t)
      BY <1>2, <2>2, <2>3 DEF Purpose, Updating, Owning, Cleanup, Backward, Forward
  <2> QED BY <1>3, <2>2, <2>3, <2>4, PlainWork DEF Mine
<1>6. CASE StartRead(p, j)
  <2>1. t = [NoTask EXCEPT !.kind = "read", !.roots = j.roots,
                           !.required = j.required, !.todo = j.roots]
      BY <1>6 DEF StartRead, TypeOK
  <2>2. t.kind = "read" /\ t.roots = j.roots
      BY <2>1 DEF NoTask
  <2>3. pc'[p] = "read_init" /\ j.kind = "read"
      BY <1>6, GotoAfter DEF StartRead
  <2>4. Purpose("read_init", t)
      BY <1>2, <2>2, <2>3 DEF Purpose, Recovering, Updating, Owning, Cleanup, Backward, Forward
  <2> QED BY <1>3, <2>3, <2>4, PlainWork DEF Mine
<1> QED BY <1>1, <1>4, <1>5, <1>6

USE DEF Recovering

\* Steps from one plain step to another.
LEMMA PlainGoes ==
    ASSUME TypeOK, NEW p \in Procs, Mine(p), SameTask(task[p], task'[p]),
           pc[p] \in Updating \cup Readers,
           pc'[p] \in Plain \ (Recovering \cup Updating) \/ (pc'[p] \in Plain \ Recovering /\ pc[p] \in Updating)
    PROVE  Mine(p)'
<1>1. Purpose(pc[p], task[p]) /\ pc'[p] \notin Cleanup /\ pc'[p] # "recover"
    BY DEF Mine, Work, Plain, Cleanup, Backward, Forward, Worked, TxnPcs
<1>2. Purpose(pc'[p], task'[p])
    BY <1>1 DEF Purpose, SameTask, SameCall
<1> QED BY <1>1, <1>2, PlainWork DEF Mine

LEMMA LockForAfter ==
    ASSUME TypeOK, NEW p \in Procs, NEW j, NEW at, LockFor(p, j, at)
    PROVE  /\ pc'[p] = at
           /\ task'[p].txn = j /\ task'[p].absent = AbsentEntries(j)
           /\ task'[p].todo = j.roots \ AbsentEntries(j)
           /\ task'[p].kind = task[p].kind /\ task'[p].roots = task[p].roots
           /\ task'[p].queue = task[p].queue /\ task'[p].mode = task[p].mode
<1> DEFINE A == AbsentEntries(j)
<1>1. task'[p] = [task[p] EXCEPT !.txn = j, !.absent = A, !.todo = j.roots \ A]
    BY DEF LockFor, TypeOK
<1>2. pc'[p] = at
    BY GotoAfter DEF LockFor
<1> HIDE DEF A
<1>3. /\ task'[p].txn = j /\ task'[p].absent = A /\ task'[p].todo = j.roots \ A
      /\ task'[p].kind = task[p].kind /\ task'[p].roots = task[p].roots
      /\ task'[p].queue = task[p].queue /\ task'[p].mode = task[p].mode
    BY <1>1, TaskOf DEF Tasks
<1> QED BY <1>2, <1>3 DEF A

LEMMA LockForWork ==
    ASSUME TypeOK, NEW p \in Procs, Mine(p), pc[p] \in Recovering, NEW j \in Journals,
           NEW at \in {"lock_recovery", "lock_finalized"}, LockFor(p, j, at),
           at = "lock_finalized" => j.state = "finalized"
    PROVE  Mine(p)'
<1>1. j.state \in StatesAt(at)
    BY JournalFields DEF StatesAt, Promoting
<1>2. AbsentEntries(j) # {} => j.state \in {"prepared", "finalized"}
    BY DEF AbsentEntries
<1>3. Purpose(at, task'[p])
    BY LockForAfter DEF Mine, Work, Purpose, Updating, Owning, Cleanup, Backward, Forward
<1>4. Local(at, task'[p])
    BY <1>1, <1>2, LockForAfter DEF Local, Owning, Cleanup, Backward, Forward, Started, Promoting
<1>5. at \notin Exclusive
    BY DEF Exclusive
<1> QED BY <1>3, <1>4, <1>5, LockForAfter DEF Mine, Work, Sight

\* Taking over the coordinator's record d for the repair it calls for.
LEMMA RepairWork ==
    ASSUME TypeOK, NEW p \in Procs, Mine(p), pc[p] = "recheck_recovery",
           NEW d \in Journals, SameTransaction(task[p].txn, d), journal[d.lead] = d,
           task[p].absent # {} => d.state = task[p].txn.state,
           task' = [task EXCEPT ![p].txn = d, ![p].mode = "recover"],
           Goto(p, RepairStep(d.state)), UNCHANGED fs
    PROVE  Mine(p)'
<1> DEFINE at == RepairStep(d.state)
<1>1. task'[p] = [task[p] EXCEPT !.txn = d, !.mode = "recover"]
    BY DEF TypeOK
<1>2. /\ task'[p].txn = d /\ task'[p].mode = "recover" /\ task'[p].kind = task[p].kind
      /\ task'[p].roots = task[p].roots /\ task'[p].queue = task[p].queue
      /\ task'[p].absent = task[p].absent /\ task'[p].todo = task[p].todo
  <2> DEFINE u == [task[p] EXCEPT !.txn = d]
  <2>1. task'[p] = [u EXCEPT !.mode = "recover"]
      BY <1>1
  <2>2. u \in Tasks /\ u.txn = d /\ u.kind = task[p].kind /\ u.roots = task[p].roots
        /\ u.queue = task[p].queue /\ u.absent = task[p].absent /\ u.todo = task[p].todo
      BY TaskOf DEF Tasks
  <2> HIDE DEF u
  <2> QED BY ONLY <2>1, <2>2 DEF Tasks
<1>3. /\ task[p].queue # {}
      /\ task[p].kind = "update" => task[p].roots \in UpdateSets
      /\ task[p].kind = "read" => task[p].roots \in ReadSets
      /\ task[p].todo = Extent(task[p])
      /\ task[p].absent # {} => task[p].txn.state \in {"prepared", "finalized"}
    BY DEF Mine, Work, Purpose, Local
<1>4. Extent(task'[p]) = Extent(task[p])
    BY <1>2 DEF Extent, SameTransaction
<1>5. /\ at \in {"verify_prepared", "verify_rollback", "verify_committed", "verify_cleaning", "retire"}
      /\ d.state \in StatesAt(at)
      /\ d.state \in {"prepared", "finalized"} <=> at \in {"verify_prepared", "retire"}
  <2>1. d.state \in States
      BY JournalFields
  <2>2. CASE d.state = "prepared"
      BY <2>2 DEF RepairStep, StatesAt, Promoting
  <2>3. CASE d.state = "publishing"
      BY <2>3 DEF RepairStep, StatesAt, Promoting
  <2>4. CASE d.state = "committed"
      BY <2>4 DEF RepairStep, StatesAt, Promoting
  <2>5. CASE d.state = "cleaning"
      BY <2>5 DEF RepairStep, StatesAt, Promoting
  <2>6. CASE d.state = "finalized"
      BY <2>6 DEF RepairStep, StatesAt, Promoting
  <2> QED BY <2>1, <2>2, <2>3, <2>4, <2>5, <2>6 DEF States
<1>6. pc'[p] = at
    BY GotoAfter
<1> HIDE DEF at
<1>7. Purpose(at, task'[p])
    BY <1>2, <1>3, <1>5 DEF Purpose, Updating, Owning
<1>8. Local(at, task'[p])
    BY <1>2, <1>3, <1>4, <1>5 DEF Local, Owning, Started, Promoting, Forward, OwnClosing
<1>9. ASSUME NEW e \in Extent(task'[p])
      PROVE  Place(at, task'[p], e, dir'[e], backup'[e][task'[p].txn.gen]) /\ Journalled(at, task'[p], e, journal'[e])
  <2>1. journal'[d.lead] = d
      BY DEF fs
  <2> QED BY <1>2, <1>3, <1>4, <1>5, <2>1 DEF Place, Journalled, OwnClosing, Started, Promoting, Forward
<1> QED BY <1>6, <1>7, <1>8, <1>9 DEF Mine, Work, Sight

\* Loops leave the mode.
LEMMA LoopMode ==
    ASSUME TypeOK, NEW p \in Procs, NEW r, NEW l, Loop(p, r, l)
    PROVE  task'[p].mode = task[p].mode
<1> DEFINE S == IF task[p].todo \ {r} = {} THEN All(p) ELSE task[p].todo \ {r}
<1>1. task' = [task EXCEPT ![p].todo = S]
    BY DEF Loop
<1> HIDE DEF S
<1> QED BY <1>1, TodoAfter

LEMMA NextEntryMode ==
    ASSUME TypeOK, NEW p \in Procs, NEW r,
           task' = [task EXCEPT ![p].todo = IF @ = {r} THEN All(p) ELSE @ \ {r}]
    PROVE  task'[p].mode = task[p].mode
<1> DEFINE S == IF task[p].todo = {r} THEN All(p) ELSE task[p].todo \ {r}
<1>1. task' = [task EXCEPT ![p].todo = S]
    OBVIOUS
<1> HIDE DEF S
<1> QED BY <1>1, TodoAfter

LEMMA RecoverLockWork ==
    ASSUME TypeOK, NEW p \in Procs, Mine(p), pc[p] \in {"lock_recovery", "lock_finalized"},
           NEW r \in task[p].todo,
           Loop(p, r, IF pc[p] = "lock_finalized" THEN "retire" ELSE "recheck_recovery")
    PROVE  Mine(p)'
<1> DEFINE l == IF pc[p] = "lock_finalized" THEN "retire" ELSE "recheck_recovery"
<1>1. /\ SameTask(task[p], task'[p]) /\ task'[p].mode = task[p].mode
      /\ IF task[p].todo = {r} THEN pc'[p] = l /\ task'[p].todo = Extent(task[p]) ELSE pc'[p] = pc[p]
    BY LoopAfter, LoopMode
<1>2. /\ Purpose(pc[p], task[p]) /\ task[p].mode = "none" /\ task[p].queue # {}
      /\ task[p].absent # {} => task[p].txn.state \in {"prepared", "finalized"}
      /\ task[p].txn.state \in StatesAt(pc[p])
    BY DEF Mine, Work, Local, Purpose, Worked, TxnPcs
<1>3. Extent(task'[p]) = Extent(task[p])
    BY <1>1, SameExtent
<1>4. CASE pc'[p] = pc[p]
  <2>1. Purpose(pc'[p], task'[p])
      BY <1>1, <1>2, <1>4 DEF Purpose, SameTask, SameCall
  <2>2. Local(pc'[p], task'[p])
      BY <1>1, <1>2, <1>4 DEF Local, SameTask, SameCall, Owning, Started, Promoting, Forward, Cleanup,
          Backward
  <2>3. pc'[p] \notin Exclusive
      BY <1>4 DEF Exclusive
  <2> QED BY <2>1, <2>2, <2>3 DEF Mine, Work, Sight
<1>5. CASE pc[p] = "lock_finalized" /\ pc'[p] = "retire"
  <2>1. Purpose(pc'[p], task'[p])
      BY <1>1, <1>2, <1>5 DEF Purpose, SameTask, SameCall, Updating, Owning
  <2>2. task'[p].txn.state \in StatesAt("retire")
      BY <1>1, <1>2, <1>5 DEF StatesAt, SameTask, Promoting
  <2>3. Local(pc'[p], task'[p])
      BY <1>1, <1>2, <1>5, <2>2 DEF Local, SameTask, SameCall, Owning, Started, Promoting, Forward, Cleanup,
          Backward, OwnClosing
  <2>4. Sight(pc'[p], task'[p], dir', journal', backup')
      BY <1>1, <1>2, <1>5 DEF Sight, Place, Journalled, OwnClosing, Started, Promoting, Forward, SameTask
  <2> QED BY <2>1, <2>3, <2>4 DEF Mine, Work
<1>6. CASE pc[p] = "lock_recovery" /\ pc'[p] = "recheck_recovery" /\ task[p].todo = {r}
  <2>1. Purpose(pc'[p], task'[p])
      BY <1>1, <1>2, <1>6 DEF Purpose, SameTask, SameCall, Updating, Owning, Cleanup, Backward, Forward
  <2>2. task'[p].txn.state \in StatesAt("recheck_recovery")
      BY <1>1, <1>2, <1>6 DEF StatesAt, SameTask, Promoting
  <2>3. Local(pc'[p], task'[p])
      BY <1>1, <1>2, <1>3, <1>6, <2>2 DEF Local, SameTask, SameCall, Owning, Started, Promoting, Forward, Cleanup,
          Backward
  <2>4. Sight(pc'[p], task'[p], dir', journal', backup')
      BY <1>6 DEF Sight, Place, Journalled, Closing, Started, Promoting, Forward
  <2> QED BY <2>1, <2>3, <2>4 DEF Mine, Work
<1> QED BY <1>1, <1>4, <1>5, <1>6

LEMMA RecoverWork ==
    ASSUME TypeOK, TxnInHand, NEW p \in Procs, Mine(p), RecoverStep(p)
    PROVE  Mine(p)'
<1>0. task[p].queue \subseteq Roots /\ task[p].todo \subseteq Roots
    BY StepRoots
<1>1. CASE RecoverReadLocal(p)
  <2>1. PICK r \in task[p].queue :
           \/ Recovered(p, r)
           \/ /\ ReadJournal(r) # None /\ Goto(p, "decision")
              /\ task' = [task EXCEPT ![p].txn = journal[r]]
      BY <1>1 DEF RecoverReadLocal
  <2>2. CASE Recovered(p, r)
      BY <2>2, RecoveredWork
  <2>3. CASE /\ ReadJournal(r) # None /\ Goto(p, "decision")
             /\ task' = [task EXCEPT ![p].txn = journal[r]]
    <3>1. task'[p] = [task[p] EXCEPT !.txn = journal[r]]
        BY <2>3 DEF TypeOK
    <3>2. /\ task'[p].kind = task[p].kind /\ task'[p].roots = task[p].roots
          /\ task'[p].queue = task[p].queue /\ task'[p].absent = task[p].absent
          /\ task'[p].mode = task[p].mode
        BY <3>1, TaskOf DEF Tasks
    <3>3. pc[p] = "recover" /\ pc'[p] = "decision"
        BY <1>1, <2>3, GotoAfter DEF RecoverReadLocal
    <3>4. Purpose("decision", task'[p])
        BY <3>2, <3>3 DEF Mine, Work, Purpose, Updating, Owning, Cleanup, Backward, Forward
    <3>5. Local("decision", task'[p])
        BY <3>2, <3>3 DEF Mine, Work, Local, Worked, Owning, Started, Promoting, Forward, Cleanup, Backward
    <3>6. Sight("decision", task'[p], dir', journal', backup')
        BY DEF Sight, Exclusive, Worked
    <3> QED BY <3>3, <3>4, <3>5, <3>6 DEF Mine, Work
  <2> QED BY <2>1, <2>2, <2>3
<1>2. CASE RecoverReadDecision(p) \/ RecoverLockFails(p)
  <2> DEFINE d == ReadJournal(task[p].txn.lead)
             l == IF d.state = "finalized" THEN "lock_finalized" ELSE "lock_recovery"
  <2>1. CASE \E result \in Terminal : Return(p, result)
      BY <2>1, ReturnWork
  <2>2. CASE /\ SameTransaction(task[p].txn, d) /\ pc[p] \in Recovering
             /\ LockFor(p, d, l)
    <3>1. task[p].txn.lead \in Roots
        BY <2>2, TaskOf, TasksFields, JournalFields DEF SameTransaction
    <3>2. d \in Journals
        BY <2>2, <3>1, JournalRead DEF SameTransaction
    <3> QED BY <2>2, <3>2, LockForWork
  <2> QED BY <1>2, <2>1, <2>2 DEF RecoverReadDecision, RecoverLockFails, Terminal
<1>3. CASE RecoverLock(p)
    BY <1>3, RecoverLockWork DEF RecoverLock
<1>4. CASE RecoverRecheck(p)
  <2> DEFINE t == task[p].txn
             d == ReadJournal(t.lead)
  <2>1. \/ \E r : Recovered(p, r)
        \/ \E result \in Terminal : Return(p, result)
        \/ /\ SameTransaction(t, d)
           /\ task[p].absent # {} => d.state = t.state
           /\ task' = [task EXCEPT ![p].txn = d, ![p].mode = "recover"]
           /\ Goto(p, RepairStep(d.state)) /\ UNCHANGED fs
      BY <1>4 DEF RecoverRecheck, Terminal
  <2>2. CASE /\ SameTransaction(t, d)
             /\ task[p].absent # {} => d.state = t.state
             /\ task' = [task EXCEPT ![p].txn = d, ![p].mode = "recover"]
             /\ Goto(p, RepairStep(d.state)) /\ UNCHANGED fs
    <3>1. t.lead \in Roots /\ t.lead = d.lead
        BY <2>2, TaskOf, TasksFields, JournalFields DEF SameTransaction
    <3>2. d \in Journals /\ journal[d.lead] = d
        BY <2>2, <3>1, JournalRead DEF SameTransaction
    <3> QED BY <1>4, <2>2, <3>2, RepairWork DEF RecoverRecheck
  <2> QED BY <2>1, <2>2, RecoveredWork, ReturnWork
<1> QED BY <1>1, <1>2, <1>3, <1>4 DEF RecoverStep

LEMMA SamePurpose ==
    ASSUME NEW at, NEW t, NEW u, Purpose(at, t), SameCall(t, u), u.mode = t.mode, NEW next,
           next \in Recovering => at \in Recovering,
           next \in Updating => at \in Updating,
           next \in Cleanup => at \in Cleanup
    PROVE  Purpose(next, u)
BY DEF Purpose, SameCall

\* A process that has the decision in hand finds every entry as it says.
LEMMA Agreed ==
    ASSUME TypeOK, TxnInHand, Holding, Coordinated, NEW p \in Procs, Mine(p), pc[p] \in Started
    PROVE  LET t == task[p].txn IN
           /\ t \in Journals /\ t.lead \in Extent(task[p]) /\ t.lead \in t.roots
           /\ task[p].absent = {} /\ Extent(task[p]) = t.roots
           /\ journal[t.lead] = t
           /\ \A e \in t.roots : Entry(t, e)
<1> DEFINE t == task[p].txn
<1>1. pc[p] \in Exclusive /\ pc[p] \in Worked /\ pc[p] \in TxnPcs
    BY DEF Started, Promoting, Forward, Exclusive, Worked, TxnPcs
<1>2. t \in Journals /\ t.lead \in Extent(task[p])
    BY <1>1, TxnOf DEF Holding, Held, Scope
<1>3. task[p].absent = {}
    BY DEF Mine, Work, Local
<1>4. Extent(task[p]) = t.roots
    BY <1>2, <1>3, JournalFields DEF Extent
<1>5. journal[t.lead] = t
    BY <1>1, <1>2 DEF Mine, Work, Sight, Journalled
<1>6. t.lead \in Roots /\ t # None
    BY <1>2, JournalFields
<1>7. \A e \in t.roots : Entry(t, e)
    BY <1>5, <1>6 DEF Coordinated
<1> QED BY <1>2, <1>3, <1>4, <1>5, <1>7

\* Between the checks before a stage is dropped and the finalization.
LEMMA ClosingWork ==
    ASSUME TypeOK, NEW p \in Procs, Mine(p), pc[p] \in {"verify_prepared", "drop_stage"},
           pc'[p] \in {"drop_stage", "finalize"}, SameTask(task[p], task'[p]),
           task'[p].mode = task[p].mode, pc'[p] = "finalize" => task'[p].todo = Extent(task[p]),
           UNCHANGED <<dir, journal, backup>>
    PROVE  Mine(p)'
<1>1. Extent(task'[p]) = Extent(task[p])
    BY SameExtent
<1>2. Purpose(pc'[p], task'[p])
    BY SamePurpose DEF Mine, Work, SameTask, Updating, Owning, Cleanup, Backward
<1>3. task'[p].txn.state \in StatesAt(pc'[p])
    BY DEF Mine, Work, Local, SameTask, StatesAt, Promoting, Worked, TxnPcs
<1>4. Local(pc'[p], task'[p])
    BY <1>1, <1>3 DEF Mine, Work, Local, SameTask, SameCall, Owning, Started, Promoting, Forward, Cleanup,
        Backward, OwnClosing
<1>5. Sight(pc[p], task[p], dir, journal, backup) /\ pc[p] \in Exclusive
    BY DEF Mine, Work, Exclusive, Worked, TxnPcs
<1>6. ASSUME NEW e \in Extent(task'[p])
      PROVE  /\ Place(pc'[p], task'[p], e, dir'[e], backup'[e][task'[p].txn.gen])
             /\ Journalled(pc'[p], task'[p], e, journal'[e])
  <2>1. /\ Place(pc[p], task[p], e, dir[e], backup[e][task[p].txn.gen])
        /\ Journalled(pc[p], task[p], e, journal[e])
      BY <1>1, <1>5, <1>6 DEF Sight
  <2>2. Place(pc'[p], task'[p], e, dir'[e], backup'[e][task'[p].txn.gen])
      BY <2>1 DEF Place, Closing, SameTask
  <2>3. Journalled(pc'[p], task'[p], e, journal'[e])
      BY <2>1 DEF Journalled, Closing, SameTask, OwnClosing, Started, Promoting, Forward
  <2> QED BY <2>2, <2>3
<1> QED BY <1>2, <1>4, <1>6 DEF Mine, Work, Sight

LEMMA DropStageWork ==
    ASSUME TypeOK, NEW p \in Procs, Mine(p), VerifyPrepared(p) \/ DropStage(p)
    PROVE  Mine(p)'
<1>1. CASE VerifyPrepared(p)
  <2>1. CASE Goto(p, "drop_stage") /\ UNCHANGED task
      BY <1>1, <2>1, GotoAfter, ClosingWork DEF VerifyPrepared, SameTask, SameCall, fs
  <2> QED BY <1>1, <2>1, CleanupFailedWork DEF VerifyPrepared
<1>2. CASE DropStage(p)
  <2>1. PICK r \in task[p].todo : Loop(p, r, "finalize") \/ CleanupFailed(p, FALSE)
      BY <1>2 DEF DropStage
  <2>2. CASE Loop(p, r, "finalize")
      BY <1>2, <2>2, LoopAfter, LoopMode, ClosingWork DEF DropStage
  <2> QED BY <2>1, <2>2, CleanupFailedWork
<1> QED BY <1>1, <1>2

\* The coordinator's record with another state.
Stated(j, s) == [j EXCEPT !.state = s]

LEMMA StatedIs ==
    ASSUME NEW j \in Journals, NEW s \in States
    PROVE  /\ Stated(j, s) \in Journals /\ Stated(j, s).state = s /\ Stated(j, s) # None
           /\ Stated(j, s).gen = j.gen /\ Stated(j, s).lead = j.lead
           /\ Stated(j, s).roots = j.roots /\ Stated(j, s).prev = j.prev
BY SetState, JournalFields DEF Stated

\* What recording the state s writes, if anything, and leaves in hand.
LEMMA RecordDone ==
    ASSUME TypeOK, TxnInHand, NEW p \in Procs, pc[p] \in TxnPcs, NEW s \in States, NEW l,
           RecordDecision(p, s, l)
    PROVE  LET u == Stated(task[p].txn, s) IN
           /\ \/ UNCHANGED journal
              \/ journal' = [journal EXCEPT ![u.lead] = u]
           /\ \/ \E result \in Terminal : Return(p, result)
              \/ /\ journal' = [journal EXCEPT ![u.lead] = u]
                 /\ pc'[p] = l /\ SameCall(task[p], task'[p])
                 /\ task'[p].mode = task[p].mode /\ task'[p].todo = task[p].todo
                 /\ task'[p].txn = u
<1> DEFINE u == Stated(task[p].txn, s)
<1>1. u \in Journals
    BY TxnOf, StatedIs
<1>2. \/ /\ journal' = [journal EXCEPT ![u.lead] = u]
         /\ task' = [task EXCEPT ![p].txn = u] /\ Goto(p, l)
      \/ /\ UNCHANGED journal \/ journal' = [journal EXCEPT ![u.lead] = u]
         /\ CleanupFailed(p, s = "finalized")
    BY DEF RecordDecision, Write, WriteFails, Stated
<1> HIDE DEF u
<1>3. CASE task' = [task EXCEPT ![p].txn = u] /\ Goto(p, l)
  <2>1. /\ pc'[p] = l /\ SameCall(task[p], task'[p])
        /\ task'[p].mode = task[p].mode /\ task'[p].todo = task[p].todo /\ task'[p].txn = u
    <3>1. task'[p] = [task[p] EXCEPT !.txn = u]
        BY <1>3 DEF TypeOK
    <3> QED BY <1>3, <3>1, TaskOf, GotoAfter DEF Tasks, SameCall
  <2> QED BY <1>2, <2>1, CleanupFailedAfter DEF u
<1> QED BY <1>2, <1>3, CleanupFailedAfter DEF u

LEMMA FinalizeWork ==
    ASSUME TypeOK, TxnInHand, Holding, NEW p \in Procs, Mine(p), Finalize(p)
    PROVE  Mine(p)'
<1> DEFINE t == task[p].txn
           u == Stated(t, "finalized")
<1>0. pc[p] = "finalize" /\ UNCHANGED <<dir, backup>> /\ RecordDecision(p, "finalized", "retire")
    BY DEF Finalize
<1>1. t \in Journals /\ t.lead \in Extent(task[p])
    BY <1>0, TxnOf DEF Holding, Held, Scope, TxnPcs, Worked
<1>2. /\ u # None /\ u.state = "finalized" /\ u.gen = t.gen /\ u.lead = t.lead
      /\ u.roots = t.roots /\ u.prev = t.prev /\ t # None /\ t.lead \in Roots /\ u \in Journals
    BY <1>1, StatedIs, JournalFields DEF States
<1> HIDE DEF u
<1>3. CASE \E result \in Terminal : Return(p, result)
    BY <1>3, ReturnWork
<1>4. CASE /\ journal' = [journal EXCEPT ![u.lead] = u]
           /\ pc'[p] = "retire" /\ SameCall(task[p], task'[p])
           /\ task'[p].mode = task[p].mode /\ task'[p].todo = task[p].todo /\ task'[p].txn = u
  <2>1. Extent(task'[p]) = Extent(task[p])
      BY <1>2, <1>4, RecordExtent DEF SameRecord
  <2>2. Purpose(pc'[p], task'[p])
      BY <1>0, <1>4, SamePurpose DEF Mine, Work, Updating, Owning, Cleanup
  <2>3. Local(pc[p], task[p]) /\ Sight(pc[p], task[p], dir, journal, backup)
      BY DEF Mine, Work
  <2>4. Local("retire", task'[p])
      BY <1>0, <1>2, <1>4, <2>3 DEF Local, SameCall, Owning, Started, Promoting, Forward, Cleanup, Backward,
          OwnClosing, StatesAt
  <2>5. ASSUME NEW e \in Extent(task'[p])
        PROVE  /\ Place("retire", task'[p], e, dir'[e], backup'[e][task'[p].txn.gen])
               /\ Journalled("retire", task'[p], e, journal'[e])
    <3>1. /\ Place("finalize", task[p], e, dir[e], backup[e][t.gen])
          /\ Journalled("finalize", task[p], e, journal[e])
        BY <1>0, <2>1, <2>3, <2>5 DEF Sight, Exclusive, Worked, TxnPcs
    <3>2. Place("retire", task'[p], e, dir'[e], backup'[e][task'[p].txn.gen])
        BY <1>0, <1>2, <1>4, <3>1 DEF Place, Closing
    <3>3. e \in task'[p].todo
        BY <1>0, <1>4, <2>1, <2>3 DEF Local
    <3>4. OwnClosing(task'[p]) <=> OwnClosing(task[p])
        BY <1>4 DEF OwnClosing
    <3>5. OwnClosing(task[p]) => journal'[e] = None \/ SameTransaction(u, journal'[e])
      <4>1. CASE e = t.lead
          BY <1>2, <1>4, <4>1 DEF SameTransaction, TypeOK
      <4>2. CASE e # t.lead
          BY <1>2, <1>4, <3>1, <4>2 DEF SameTransaction, TypeOK, Journalled, Closing
      <4> QED BY <4>1, <4>2
    <3> QED BY <1>4, <3>2, <3>3, <3>4, <3>5 DEF Journalled, Started, Promoting, Forward
  <2> QED BY <1>4, <2>2, <2>4, <2>5 DEF Mine, Work, Sight
<1> QED BY <1>0, <1>3, <1>4, RecordDone DEF States, TxnPcs, u

LEMMA RecordPreparedWork ==
    ASSUME TypeOK, TxnInHand, Holding, Coordinated, NEW p \in Procs, Mine(p), RecordPrepared(p)
    PROVE  Mine(p)'
<1> DEFINE t == task[p].txn
           u == Stated(t, "prepared")
<1>0. /\ pc[p] = "record_prepared" /\ UNCHANGED <<dir, backup>>
      /\ RecordDecision(p, "prepared", "verify_prepared")
    BY DEF RecordPrepared
<1>1. /\ t \in Journals /\ t.lead \in t.roots /\ task[p].absent = {} /\ Extent(task[p]) = t.roots
      /\ \A e \in t.roots : Entry(t, e)
    BY <1>0, Agreed DEF Started, Promoting
<1>2. /\ u # None /\ u.state = "prepared" /\ u.gen = t.gen /\ u.lead = t.lead
      /\ u.roots = t.roots /\ u.prev = t.prev /\ t # None /\ t.lead \in Roots /\ u \in Journals
      /\ t.roots \subseteq Roots
    BY <1>1, StatedIs, JournalFields DEF States
<1> HIDE DEF u
<1>3. CASE \E result \in Terminal : Return(p, result)
    BY <1>3, ReturnWork
<1>4. CASE /\ journal' = [journal EXCEPT ![u.lead] = u]
           /\ pc'[p] = "verify_prepared" /\ SameCall(task[p], task'[p])
           /\ task'[p].mode = task[p].mode /\ task'[p].todo = task[p].todo /\ task'[p].txn = u
  <2>1. Extent(task'[p]) = t.roots
      BY <1>1, <1>2, <1>4, RecordExtent DEF SameRecord
  <2>2. Purpose(pc'[p], task'[p])
      BY <1>0, <1>4, SamePurpose DEF Mine, Work, Updating, Owning, Cleanup, Backward
  <2>3. Local(pc[p], task[p]) /\ Sight(pc[p], task[p], dir, journal, backup)
      BY DEF Mine, Work
  <2>4. Local("verify_prepared", task'[p])
      BY <1>0, <1>2, <1>4, <2>3 DEF Local, SameCall, Owning, Started, Promoting, Forward, Cleanup, Backward,
          OwnClosing, StatesAt
  <2>5. ASSUME NEW e \in Extent(task'[p])
        PROVE  /\ Place("verify_prepared", task'[p], e, dir'[e], backup'[e][task'[p].txn.gen])
               /\ Journalled("verify_prepared", task'[p], e, journal'[e])
    <3>1. /\ Place("record_prepared", task[p], e, dir[e], backup[e][t.gen])
          /\ Journalled("record_prepared", task[p], e, journal[e])
        BY <1>0, <1>1, <2>1, <2>3, <2>5 DEF Sight, Exclusive, Worked, TxnPcs
    <3>2. Place("verify_prepared", task'[p], e, dir'[e], backup'[e][task'[p].txn.gen])
        BY <1>0, <1>2, <1>4, <2>3, <3>1 DEF Place, Closing, Local, Backward
    <3>3. Entry(t, e) /\ t.state = "publishing"
        BY <1>0, <1>1, <2>1, <2>3, <2>5 DEF Local, StatesAt, Promoting, Worked, TxnPcs
    <3>4. SameTransaction(u, journal'[e])
      <4>1. CASE e = t.lead
          BY <1>2, <1>4, <4>1 DEF SameTransaction, TypeOK
      <4>2. CASE e # t.lead
          BY <1>2, <1>4, <3>3, <4>2 DEF SameTransaction, TypeOK, Entry
      <4> QED BY <4>1, <4>2
    <3>5. e = t.lead => journal'[e] = u
        BY <1>2, <1>4 DEF TypeOK
    <3> QED BY <1>2, <1>4, <3>2, <3>4, <3>5 DEF Journalled, Started, Promoting, Forward
  <2> QED BY <1>4, <2>2, <2>4, <2>5 DEF Mine, Work, Sight
<1> QED BY <1>0, <1>3, <1>4, RecordDone DEF States, TxnPcs, u

\* On to the new outputs: the checks, and the record that precedes deletion.
LEMMA ForwardWork ==
    ASSUME TypeOK, TxnInHand, Holding, Coordinated, NEW p \in Procs, Mine(p),
           VerifyCommitted(p) \/ VerifyCleaning(p)
    PROVE  Mine(p)'
<1> DEFINE t == task[p].txn
           u == Stated(t, "cleaning")
<1>0. /\ pc[p] \in {"verify_committed", "verify_cleaning"} /\ UNCHANGED <<dir, backup>>
      /\ \/ RecordDecision(p, "cleaning", "verify_cleaning") /\ pc[p] = "verify_committed"
         \/ \E result \in Terminal : Return(p, result)
         \/ Goto(p, "clean") /\ pc[p] = "verify_cleaning" /\ UNCHANGED <<task, journal>>
    BY CleanupFailedAfter DEF VerifyCommitted, VerifyCleaning, fs
<1>1. /\ t \in Journals /\ t.lead \in t.roots /\ task[p].absent = {} /\ Extent(task[p]) = t.roots
      /\ journal[t.lead] = t
    BY <1>0, Agreed DEF Started, Forward
<1>2. /\ u # None /\ u.state = "cleaning" /\ u.gen = t.gen /\ u.lead = t.lead
      /\ u.roots = t.roots /\ u.prev = t.prev /\ t # None /\ t.lead \in Roots /\ u \in Journals
    BY <1>1, StatedIs, JournalFields DEF States
<1>3. Local(pc[p], task[p])
    BY DEF Mine, Work
<1> HIDE DEF u
<1>4. CASE \E result \in Terminal : Return(p, result)
    BY <1>4, ReturnWork
<1>5. CASE \/ /\ journal' = [journal EXCEPT ![u.lead] = u] /\ pc[p] = "verify_committed"
              /\ pc'[p] = "verify_cleaning" /\ SameCall(task[p], task'[p])
              /\ task'[p].mode = task[p].mode /\ task'[p].todo = task[p].todo /\ task'[p].txn = u
           \/ Goto(p, "clean") /\ pc[p] = "verify_cleaning" /\ UNCHANGED <<task, journal>>
  <2>1. /\ pc'[p] \in {"verify_cleaning", "clean"} /\ SameCall(task[p], task'[p])
        /\ task'[p].mode = task[p].mode /\ task'[p].todo = task[p].todo
        /\ task'[p].txn.lead = t.lead /\ task'[p].txn.roots = t.roots
        /\ task'[p].txn.state = "cleaning" /\ journal'[t.lead] = task'[p].txn
      BY <1>0, <1>1, <1>2, <1>3, <1>5, GotoAfter DEF SameCall, Local, StatesAt, Promoting, Worked, TxnPcs, TypeOK
  <2>2. Purpose(pc'[p], task'[p])
      BY <1>0, <2>1, SamePurpose DEF Mine, Work, Updating, Owning, Cleanup, Forward
  <2>3. task'[p].txn.state \in StatesAt(pc'[p])
      BY <2>1 DEF StatesAt, Promoting
  <2>4. Local(pc'[p], task'[p])
      BY <1>0, <1>3, <2>1, <2>3 DEF Local, SameCall, Owning, Started, Promoting, Forward, Cleanup, Backward,
          OwnClosing
  <2>5. Sight(pc'[p], task'[p], dir', journal', backup')
      BY <2>1 DEF Sight, Place, Journalled, Closing
  <2> QED BY <2>2, <2>4, <2>5 DEF Mine, Work
<1> QED BY <1>0, <1>4, <1>5, RecordDone DEF States, TxnPcs, u

LEMMA CleanWork ==
    ASSUME TypeOK, TxnInHand, Holding, Coordinated, NEW p \in Procs, Mine(p), Clean(p)
    PROVE  Mine(p)'
<1> DEFINE t == task[p].txn
<1>0. /\ pc[p] = "clean" /\ UNCHANGED <<dir, journal>>
      /\ \E r \in task[p].todo : Loop(p, r, "finalize") \/ \E result \in Terminal : Return(p, result)
    BY CleanupFailedAfter DEF Clean
<1>1. /\ t \in Journals /\ t.lead \in t.roots /\ task[p].absent = {} /\ Extent(task[p]) = t.roots
      /\ journal[t.lead] = t /\ \A e \in t.roots : Entry(t, e)
    BY <1>0, Agreed DEF Started, Forward
<1>2. Local(pc[p], task[p]) /\ t.state = "cleaning"
    BY <1>0 DEF Mine, Work, Local, StatesAt, Promoting, Worked, TxnPcs
<1>3. PICK r \in task[p].todo : Loop(p, r, "finalize") \/ \E result \in Terminal : Return(p, result)
    BY <1>0
<1>4. CASE Loop(p, r, "finalize")
  <2>1. /\ pc'[p] \in {"clean", "finalize"} /\ SameTask(task[p], task'[p]) /\ task'[p].mode = task[p].mode
        /\ pc'[p] = "finalize" => task'[p].todo = Extent(task[p])
      BY <1>0, <1>4, LoopAfter, LoopMode
  <2>2. Extent(task'[p]) = Extent(task[p])
      BY <2>1, SameExtent
  <2>3. Purpose(pc'[p], task'[p])
      BY <1>0, <2>1, SamePurpose DEF Mine, Work, SameTask, Updating, Owning, Cleanup, Forward
  <2>4. task'[p].txn.state \in StatesAt(pc'[p])
      BY <1>2, <2>1 DEF StatesAt, Promoting, SameTask
  <2>5. Local(pc'[p], task'[p])
      BY <1>0, <1>2, <2>1, <2>2, <2>4 DEF Local, SameTask, SameCall, Owning, Started, Promoting, Forward,
          Cleanup, Backward, OwnClosing
  <2>6. ASSUME NEW e \in Extent(task'[p])
        PROVE  /\ Place(pc'[p], task'[p], e, dir'[e], backup'[e][task'[p].txn.gen])
               /\ Journalled(pc'[p], task'[p], e, journal'[e])
    <3>1. SameTransaction(journal[e], t) /\ dir[e] = t.gen
        BY <1>1, <1>2, <2>2, <2>6 DEF Entry
    <3>2. task[p].mode \notin {"abandon", "undo"}
        BY <1>0, <1>2 DEF Local, Forward
    <3> QED BY <1>0, <1>1, <2>1, <3>1, <3>2 DEF Place, Journalled, Closing, Started, Promoting, Forward,
            OwnClosing, SameTask, SameTransaction
  <2> QED BY <2>3, <2>5, <2>6 DEF Mine, Work, Sight
<1> QED BY <1>3, <1>4, ReturnWork

\* At most one entry is the last of a loop, or the first.
LEMMA OneLast ==
    ASSUME NEW S \in SUBSET Roots, NEW r \in S, NEW e \in S
    PROVE  /\ IsLast(r, S) /\ IsLast(e, S) => e = r
           /\ IsFirst(r, S) /\ IsFirst(e, S) => e = r
<1>1. r \in Nat /\ e \in Nat
    BY RootsAssumption
<1> QED BY <1>1 DEF IsLast, IsFirst

\* A step back that leaves the decision as it is.
LEMMA BackwardWork ==
    ASSUME TypeOK, TxnInHand, Holding, Coordinated, NEW p \in Procs, Mine(p),
           pc[p] \in {"verify_rollback", "undo_promotion", "undo_backup"},
           pc'[p] \in {"undo_promotion", "undo_backup", "record_prepared"},
           SameTask(task[p], task'[p]), task'[p].mode = task[p].mode, UNCHANGED journal,
           \A e \in task[p].txn.roots :
               Place(pc'[p], task'[p], e, dir'[e], backup'[e][task[p].txn.gen])
    PROVE  Mine(p)'
<1> DEFINE t == task[p].txn
<1>1. /\ t \in Journals /\ t.lead \in t.roots /\ task[p].absent = {} /\ Extent(task[p]) = t.roots
      /\ journal[t.lead] = t
    BY Agreed DEF Started, Promoting
<1>2. Local(pc[p], task[p]) /\ t.state = "publishing" /\ task[p].mode # "finish"
    BY DEF Mine, Work, Local, StatesAt, Promoting, Worked, TxnPcs, Backward
<1>3. Extent(task'[p]) = t.roots /\ task'[p].txn = t
    BY <1>1, SameExtent DEF SameTask
<1>4. Purpose(pc'[p], task'[p])
    BY SamePurpose DEF Mine, Work, SameTask, Updating, Owning, Cleanup, Backward
<1>5. task'[p].txn.state \in StatesAt(pc'[p])
    BY <1>2, <1>3 DEF StatesAt, Promoting
<1>6. Local(pc'[p], task'[p])
    BY <1>2, <1>3, <1>5 DEF Local, SameTask, SameCall, Owning, Started, Promoting, Forward, Cleanup,
        Backward, OwnClosing
<1>7. \A e \in Extent(task'[p]) : Journalled(pc'[p], task'[p], e, journal'[e])
    BY <1>1, <1>3 DEF Journalled, Closing
<1> QED BY <1>3, <1>4, <1>6, <1>7 DEF Mine, Work, Sight

LEMMA RollbackWork ==
    ASSUME TypeOK, TxnInHand, Holding, Coordinated, NEW p \in Procs, Mine(p),
           VerifyRollback(p) \/ UndoPromotion(p)
    PROVE  Mine(p)'
<1> DEFINE t == task[p].txn
           g == t.gen
<1>0. pc[p] \in {"verify_rollback", "undo_promotion"}
    BY DEF VerifyRollback, UndoPromotion
<1>1. /\ t \in Journals /\ t.lead \in t.roots /\ task[p].absent = {} /\ Extent(task[p]) = t.roots
      /\ journal[t.lead] = t
    BY <1>0, Agreed DEF Started, Promoting
<1>2. /\ \A e \in t.roots : Place(pc[p], task[p], e, dir[e], backup[e][g])
      /\ pc[p] = "verify_rollback" => task[p].todo = t.roots
    BY <1>0, <1>1 DEF Mine, Work, Sight, Local, Exclusive, Worked, TxnPcs
<1>3. CASE \E result \in Terminal : Return(p, result)
    BY <1>3, ReturnWork
<1>4. CASE VerifyRollback(p) /\ Goto(p, "undo_promotion") /\ UNCHANGED task
  <2>1. /\ pc'[p] = "undo_promotion" /\ task'[p] = task[p] /\ SameTask(task[p], task'[p])
        /\ UNCHANGED <<dir, journal, backup>>
      BY <1>4, GotoAfter DEF SameTask, SameCall, VerifyRollback, fs
  <2>2. \A e \in t.roots : Place(pc'[p], task'[p], e, dir'[e], backup'[e][g])
      BY <1>2, <1>4, <2>1 DEF Place, Closing, VerifyRollback
  <2> QED BY <1>0, <2>1, <2>2, BackwardWork
<1>5. CASE UndoPromotion(p) /\ ~\E result \in Terminal : Return(p, result)
  <2>1. PICK r \in task[p].todo :
           /\ IsLast(r, task[p].todo)
           /\ IF dir[r] = g THEN dir' = [dir EXCEPT ![r] = Absent] ELSE UNCHANGED dir
           /\ Goto(p, "undo_backup") /\ UNCHANGED <<task, backup, journal>>
      BY <1>5, CleanupFailedAfter DEF UndoPromotion
  <2>2. /\ pc'[p] = "undo_backup" /\ task'[p] = task[p] /\ SameTask(task[p], task'[p])
        /\ pc[p] = "undo_promotion" /\ r \in Roots /\ task[p].todo \subseteq Roots
      BY <1>5, <2>1, GotoAfter, StepRoots DEF SameTask, SameCall, UndoPromotion
  <2>3. g # Absent
      BY <1>1, JournalFields, BoundsAssumption, MarkersAssumption DEF Gens
  <2>4. dir'[r] # g /\ \A e \in Roots : e # r => dir'[e] = dir[e]
      BY <2>1, <2>2, <2>3 DEF TypeOK
  <2>5. ASSUME NEW e \in t.roots PROVE Place(pc'[p], task'[p], e, dir'[e], backup'[e][g])
    <3>1. e \in Roots
        BY <1>1, JournalFields
    <3>2. e \in task[p].todo \/ (e # r /\ dir[e] = t.prev[e])
        BY <1>2, <2>1, <2>2, <2>5 DEF Place
    <3>3. IsLast(e, task[p].todo) => e = r
        BY <2>1, <2>2, OneLast DEF IsLast
    <3> QED BY <2>2, <2>4, <3>1, <3>2, <3>3 DEF Place, Closing
  <2> QED BY <2>1, <2>2, <2>5, BackwardWork
<1> QED BY <1>3, <1>4, <1>5, CleanupFailedAfter DEF VerifyRollback

\* A rollback puts back what its transaction found.
LEMMA Restores ==
    ASSUME NEW t \in Journals, NEW r \in Roots, RollbackEntryValid(t, r), dir[r] # t.gen
    PROVE  t.prev[r] = IF backup[r][t.gen] # Absent THEN backup[r][t.gen] ELSE dir[r]
<1>1. CASE dir[r] = Absent
    BY <1>1 DEF RollbackEntryValid
<1>2. CASE dir[r] # Absent
    BY <1>2 DEF RollbackEntryValid
<1> QED BY <1>1, <1>2

LEMMA UndoBackupWork ==
    ASSUME TypeOK, TxnInHand, Holding, Coordinated, NEW p \in Procs, Mine(p), UndoBackup(p)
    PROVE  Mine(p)'
<1> DEFINE t == task[p].txn
           g == t.gen
<1>0. pc[p] = "undo_backup" /\ UNCHANGED journal
    BY DEF UndoBackup
<1>1. /\ t \in Journals /\ t.lead \in t.roots /\ task[p].absent = {} /\ Extent(task[p]) = t.roots
      /\ journal[t.lead] = t /\ t.roots \subseteq Roots
      /\ \A e \in t.roots : Entry(t, e)
    BY <1>0, Agreed, JournalFields DEF Started, Promoting
<1>2. /\ \A e \in t.roots : Place("undo_backup", task[p], e, dir[e], backup[e][g])
      /\ t.state = "publishing"
    BY <1>0, <1>1 DEF Mine, Work, Sight, Local, Exclusive, Worked, TxnPcs, StatesAt, Promoting
<1>3. CASE \E result \in Terminal : Return(p, result)
    BY <1>3, ReturnWork
<1>4. CASE ~\E result \in Terminal : Return(p, result)
  <2>1. PICK r \in task[p].todo :
           /\ IsLast(r, task[p].todo)
           /\ IF backup[r][g] # Absent THEN dir' = [dir EXCEPT ![r] = backup[r][g]] ELSE UNCHANGED dir
           /\ Goto(p, IF task[p].todo = {r} THEN "record_prepared" ELSE "undo_promotion")
           /\ task' = [task EXCEPT ![p].todo = IF @ = {r} THEN All(p) ELSE @ \ {r}]
      BY <1>4, CleanupFailedAfter DEF UndoBackup
  <2>2. /\ pc'[p] = IF task[p].todo = {r} THEN "record_prepared" ELSE "undo_promotion"
        /\ SameTask(task[p], task'[p]) /\ task'[p].mode = task[p].mode
        /\ task'[p].todo = IF task[p].todo = {r} THEN Extent(task[p]) ELSE task[p].todo \ {r}
      BY <2>1, GotoAfter, NextEntryAfter, NextEntryMode
  <2>3. r \in t.roots /\ r \in Roots
      BY <1>0, <1>1 DEF Holding, Held, Scope, Worked, TxnPcs
  <2>4. dir'[r] = t.prev[r]
    <3>1. dir[r] # g /\ RollbackEntryValid(t, r)
        BY <1>1, <1>2, <2>1, <2>3 DEF Place, Entry
    <3> QED BY <1>1, <2>1, <2>3, <3>1, Restores DEF TypeOK
  <2>5. \A e \in Roots : e # r => dir'[e] = dir[e]
      BY <2>1, <2>3 DEF TypeOK
  <2>6. ASSUME NEW e \in t.roots PROVE Place(pc'[p], task'[p], e, dir'[e], backup'[e][g])
    <3>1. dir'[e] = t.prev[e] \/ e \in task[p].todo \ {r}
        BY <1>1, <1>2, <2>4, <2>5, <2>6 DEF Place
    <3> QED BY <2>2, <3>1 DEF Place, Closing, SameTask
  <2> QED BY <1>0, <2>2, <2>6, BackwardWork
<1> QED BY <1>3, <1>4

LEMMA RetireWork ==
    ASSUME TypeOK, TxnInHand, Holding, Present, NEW p \in Procs, Mine(p), Retire(p)
    PROVE  Mine(p)'
<1> DEFINE t == task[p].txn
<1>0. pc[p] = "retire" /\ UNCHANGED <<dir, backup>>
    BY DEF Retire
<1>1. PICK r \in task[p].todo :
         /\ IsLast(r, task[p].todo)
         /\ LET mine == SameTransaction(t, ReadJournal(r)) IN
            \/ /\ IF mine THEN Write(r, None) ELSE UNCHANGED journal
               /\ IF task[p].todo = {r} THEN Retired(p) ELSE Loop(p, r, "retire") /\ UNCHANGED lock
            \/ \E result \in Terminal : Return(p, result)
    BY CleanupFailedAfter DEF Retire
<1>2. CASE \E result \in Terminal : Return(p, result)
    BY <1>2, ReturnWork
<1>3. CASE Retired(p)
    BY <1>3, ReturnWork, RecoveredWork DEF Retired, Terminal
<1>4. CASE /\ IF SameTransaction(t, ReadJournal(r)) THEN Write(r, None) ELSE UNCHANGED journal
           /\ task[p].todo # {r} /\ Loop(p, r, "retire")
  <2>1. /\ SameTask(task[p], task'[p]) /\ task'[p].mode = task[p].mode
        /\ pc'[p] = "retire" /\ task'[p].todo = task[p].todo \ {r}
      BY <1>0, <1>4, LoopAfter, LoopMode
  <2>2. Extent(task'[p]) = Extent(task[p])
      BY <2>1, SameExtent
  <2>3. Purpose(pc'[p], task'[p])
      BY <1>0, <2>1, SamePurpose DEF Mine, Work, SameTask
  <2>4. Local(pc[p], task[p]) /\ Sight(pc[p], task[p], dir, journal, backup)
      BY DEF Mine, Work
  <2>5. Local(pc'[p], task'[p])
      BY <1>0, <2>1, <2>4 DEF Local, SameTask, SameCall, Owning, Started, Promoting, Forward,
          Cleanup, Backward, OwnClosing
  <2>6. ASSUME NEW e \in Extent(task'[p])
        PROVE  /\ Place("retire", task'[p], e, dir'[e], backup'[e][task'[p].txn.gen])
               /\ Journalled("retire", task'[p], e, journal'[e])
    <3>1. /\ Place("retire", task[p], e, dir[e], backup[e][t.gen])
          /\ Journalled("retire", task[p], e, journal[e])
        BY <1>0, <2>2, <2>4, <2>6 DEF Sight, Exclusive, Worked, TxnPcs
    <3>2. Place("retire", task'[p], e, dir'[e], backup'[e][task'[p].txn.gen])
        BY <1>0, <2>1, <3>1 DEF Place, Closing, SameTask
    <3>3. ASSUME OwnClosing(task[p])
          PROVE  \/ journal'[e] = None
                 \/ SameTransaction(t, journal'[e]) /\ e \in task[p].todo \ {r}
      <4>1. task[p].kind = "update" /\ task[p].absent = {} /\ t.roots = task[p].roots
          BY <1>0, <2>4, <3>3 DEF Local, Cleanup
      <4>2. t \in Journals
          BY <1>0, TxnOf DEF TxnPcs
      <4>3. r \in t.roots /\ r \in Roots /\ r \notin away
        <5>1. task[p].todo \subseteq Extent(task[p])
            BY <1>0 DEF Holding, Held, Scope, Worked, TxnPcs
        <5>2. r \in t.roots
            BY <4>2, <5>1, JournalFields DEF Extent
        <5> QED BY <4>1, <4>2, <5>2, JournalFields DEF Present
      <4>4. e \in Roots
          BY <2>2, <2>6, <4>2, JournalFields DEF Extent
      <4>5. CASE SameTransaction(t, journal[r])
        <5>1. journal' = [journal EXCEPT ![r] = None]
            BY <1>4, <4>3, <4>5 DEF ReadJournal, Write
        <5> QED BY <3>1, <3>3, <4>3, <4>4, <5>1 DEF Journalled, Closing, TypeOK
      <4>6. CASE ~SameTransaction(t, journal[r])
        <5>1. UNCHANGED journal
            BY <1>4, <4>3, <4>6 DEF ReadJournal
        <5> QED BY <3>1, <3>3, <4>6, <5>1 DEF Journalled, Closing
      <4> QED BY <4>5, <4>6
    <3> QED BY <2>1, <3>2, <3>3 DEF Journalled, Started, Promoting, Forward, OwnClosing, SameTask
  <2> QED BY <2>1, <2>3, <2>5, <2>6 DEF Mine, Work, Sight
<1> QED BY <1>1, <1>2, <1>3, <1>4

LEMMA CleanupWork ==
    ASSUME TypeOK, TxnInHand, Holding, Present, Coordinated, NEW p \in Procs, Mine(p), CleanupStep(p)
    PROVE  Mine(p)'
BY DropStageWork, FinalizeWork, RetireWork, RollbackWork, UndoBackupWork, RecordPreparedWork,
   ForwardWork, CleanWork DEF CleanupStep

-----------------------------------------------------------------------------
(* The steps of an update.                                                    *)

LEMMA LockingWork ==
    ASSUME TypeOK, NEW p \in Procs, Mine(p), WriterLock(p) \/ SharedLock(p) \/ Inspect(p)
    PROVE  Mine(p)'
<1>1. /\ pc[p] \in {"writer_lock", "shared_lock", "inspect"}
      /\ \/ \E r \in task[p].todo : \E l \in {"shared_lock", "inspect", "prepare"} : Loop(p, r, l)
         \/ \E result \in Terminal : Return(p, result)
    BY DEF WriterLock, SharedLock, Inspect, Terminal
<1>2. CASE \E r \in task[p].todo : \E l \in {"shared_lock", "inspect", "prepare"} : Loop(p, r, l)
  <2>1. SameTask(task[p], task'[p]) /\ pc'[p] \in {"writer_lock", "shared_lock", "inspect", "prepare"}
      BY <1>1, <1>2, LoopAfter
  <2>2. \A r, l : r \in task[p].todo /\ Loop(p, r, l) => task'[p].mode = task[p].mode
      BY LoopMode
  <2>3. pc'[p] \in Plain \ Recovering /\ pc[p] \in Updating
      BY <1>1, <2>1 DEF Plain, Labels, Worked, TxnPcs, Updating
  <2> QED BY <2>1, <2>3, PlainGoes
<1> QED BY <1>1, <1>2, ReturnWork

\* The record a preparation draws up.
LEMMA Prepares ==
    ASSUME TypeOK, NEW p \in Procs, Prepare(p)
    PROVE  LET j == task'[p].txn IN
           /\ pc[p] = "prepare" /\ pc'[p] = "stage"
           /\ SameCall(task[p], task'[p]) /\ task'[p].mode = task[p].mode
           /\ j \in Journals /\ j.gen = nextGen /\ j.state = "prepared" /\ j.roots = task[p].roots
           /\ IsFirst(j.lead, j.roots)
           /\ \A r \in Roots : j.prev[r] = IF r \in task[p].roots THEN dir[r] ELSE Absent
<1> DEFINE Drawn(lead) ==
              [gen |-> nextGen, state |-> "prepared", lead |-> lead, roots |-> task[p].roots,
               prev |-> [r \in Roots |-> IF r \in task[p].roots THEN dir[r] ELSE Absent]]
<1>1. PICK lead \in task[p].roots : /\ IsFirst(lead, task[p].roots)
                                    /\ task' = [task EXCEPT ![p].txn = Drawn(lead)]
    BY DEF Prepare
<1> DEFINE j == [gen |-> nextGen, state |-> "prepared", lead |-> lead, roots |-> task[p].roots,
                 prev |-> [r \in Roots |-> IF r \in task[p].roots THEN dir[r] ELSE Absent]]
<1>2. j \in Journals
  <2>1. [r \in Roots |-> IF r \in task[p].roots THEN dir[r] ELSE Absent] \in [Roots -> Contents]
      BY GenContents DEF TypeOK
  <2> QED BY <2>1, TaskOf, TasksFields DEF Journals, States, Prepare
<1>3. /\ j.gen = nextGen /\ j.state = "prepared" /\ j.lead = lead /\ j.roots = task[p].roots
      /\ \A r \in Roots : j.prev[r] = IF r \in task[p].roots THEN dir[r] ELSE Absent
    OBVIOUS
<1> HIDE DEF j
<1>4. task'[p].txn = j /\ SameCall(task[p], task'[p]) /\ task'[p].mode = task[p].mode
  <2>1. task'[p] = [task[p] EXCEPT !.txn = j]
      BY <1>1 DEF TypeOK, j
  <2> QED BY <2>1, TaskOf DEF Tasks, SameCall
<1>5. pc[p] = "prepare" /\ pc'[p] = "stage"
    BY GotoAfter DEF Prepare
<1> QED BY <1>1, <1>2, <1>3, <1>4, <1>5

LEMMA PrepareWork ==
    ASSUME TypeOK, Holding, NEW p \in Procs, Mine(p), Prepare(p)
    PROVE  Mine(p)'
<1> DEFINE j == task'[p].txn
<1>1. /\ pc[p] = "prepare" /\ pc'[p] = "stage" /\ j \in Journals /\ j # None
      /\ SameCall(task[p], task'[p]) /\ task'[p].mode = task[p].mode
      /\ j.state = "prepared" /\ j.roots = task[p].roots /\ IsFirst(j.lead, j.roots)
    BY Prepares, JournalFields
<1>2. task[p].absent = {}
    BY <1>1 DEF Holding, Held, Scope
<1>3. Extent(task'[p]) = task[p].roots
    BY <1>1, <1>2 DEF Extent, SameCall
<1>4. Purpose("stage", task'[p])
    BY <1>1, SamePurpose DEF Mine, Work, Updating, Owning, Cleanup, Backward, Forward
<1>5. Local("stage", task'[p])
  <2>1. task'[p].txn.state \in StatesAt("stage")
      BY <1>1 DEF StatesAt, Promoting
  <2> QED BY <1>1, <1>2, <1>3, <2>1 DEF Local, SameCall, Cleanup, Backward, Forward
<1> QED BY <1>1, <1>4, <1>5 DEF Mine, Work, Sight, Exclusive

\* Before the journals are written.
LEMMA PreparingWork ==
    ASSUME TypeOK, TxnInHand, NEW p \in Procs, Mine(p),
           pc[p] \in {"stage", "validate", "excl_lock", "discard", "recheck"},
           pc'[p] \in {"stage", "validate", "excl_lock", "discard", "recheck"},
           pc'[p] = "discard" \/ pc[p] # "discard",
           pc'[p] = "recheck" => task'[p].todo = Extent(task[p]),
           SameTask(task[p], task'[p])
    PROVE  Mine(p)'
<1>1. Extent(task'[p]) = Extent(task[p])
    BY SameExtent
<1>2. task[p].txn.state \in States
    BY TxnOf, JournalFields DEF TxnPcs
<1>3. Purpose(pc'[p], task'[p])
    BY DEF Mine, Work, Purpose, SameTask, SameCall, Updating, Owning, Cleanup, Backward, Forward
<1>4. task'[p].txn.state \in StatesAt(pc'[p])
    BY <1>2 DEF Mine, Work, Local, SameTask, StatesAt, Promoting, Worked, TxnPcs
<1>5. Local(pc'[p], task'[p])
    BY <1>1, <1>4 DEF Mine, Work, Local, SameTask, SameCall, Owning, Started, Promoting, Forward, Cleanup,
        Backward
<1>6. Sight(pc'[p], task'[p], dir', journal', backup')
    BY DEF Sight, Exclusive, Worked, Place, Journalled, Closing, Started, Promoting, Forward
<1> QED BY <1>3, <1>5, <1>6 DEF Mine, Work

LEMMA StagingWork ==
    ASSUME TypeOK, TxnInHand, NEW p \in Procs, Mine(p),
           Stage(p) \/ Validate(p) \/ ExclLock(p) \/ Discard(p)
    PROVE  Mine(p)'
<1>1. CASE \E result \in Terminal : Return(p, result)
    BY <1>1, ReturnWork
<1>2. CASE Stage(p)
  <2>1. SameTask(task[p], task'[p]) /\ pc[p] = "stage" /\ pc'[p] \in {"stage", "validate", "discard"}
      BY <1>2, LoopAfter, TodoAfter, GotoAfter DEF Stage
  <2> QED BY <2>1, PreparingWork
<1>3. CASE Validate(p)
  <2>1. SameTask(task[p], task'[p]) /\ pc[p] = "validate" /\ pc'[p] \in {"excl_lock", "discard"}
      BY <1>3, GotoAfter DEF Validate, SameTask, SameCall
  <2> QED BY <2>1, PreparingWork
<1>4. CASE ExclLock(p)
  <2>1. /\ SameTask(task[p], task'[p]) /\ pc[p] = "excl_lock" /\ pc'[p] \in {"excl_lock", "recheck"}
        /\ pc'[p] = "recheck" => task'[p].todo = Extent(task[p])
      BY <1>4, LoopAfter DEF ExclLock
  <2> QED BY <2>1, PreparingWork
<1>5. CASE Discard(p) /\ ~\E result \in Terminal : Return(p, result)
  <2>1. SameTask(task[p], task'[p]) /\ pc[p] = "discard" /\ pc'[p] = "discard"
      BY <1>5, LoopAfter DEF Discard, Terminal
  <2> QED BY <2>1, PreparingWork
<1> QED BY <1>1, <1>2, <1>3, <1>4, <1>5

LEMMA RecheckWork ==
    ASSUME TypeOK, TxnInHand, Holding, Present, Unseens, NEW p \in Procs, Mine(p), Recheck(p)
    PROVE  Mine(p)'
<1> DEFINE t == task[p].txn
<1>0. pc[p] = "recheck" /\ UNCHANGED <<fs, task>> /\ task'[p] = task[p]
    BY DEF Recheck
<1>1. CASE Goto(p, "discard")
    BY <1>0, <1>1, GotoAfter, PreparingWork DEF SameTask, SameCall
<1>2. CASE /\ \A r \in task[p].roots : ReadJournal(r) = None /\ VerifyPrevious(t, r)
           /\ Goto(p, "persist")
  <2>1. pc'[p] = "persist"
      BY <1>2, GotoAfter
  <2>2. Purpose("persist", task'[p])
      BY <1>0 DEF Mine, Work, Purpose, Updating, Owning, Cleanup, Backward, Forward
  <2>3. Local(pc[p], task[p])
      BY DEF Mine, Work
  <2>4. t.state \in StatesAt("persist")
      BY <1>0, <2>3 DEF Local, StatesAt, Promoting, Worked, TxnPcs
  <2>5. Local("persist", task'[p])
      BY <1>0, <2>3, <2>4 DEF Local, Owning, Cleanup, Backward, Forward
  <2>6. ASSUME NEW e \in Extent(task[p])
        PROVE  dir[e] = t.prev[e] /\ journal[e] = None /\ backup[e][t.gen] = Absent /\ e \in task[p].todo
    <3>1. Extent(task[p]) = task[p].roots /\ task[p].todo = Extent(task[p]) /\ task[p].kind = "update"
        BY <1>0, <2>3 DEF Holding, Held, Scope, Local, Owning, Mine, Work, Purpose, Updating
    <3>2. e \in Roots /\ e \notin away
        BY <2>6, <3>1, StepRoots DEF Present
    <3>3. dir[e] = t.prev[e] /\ journal[e] = None
        BY <1>2, <2>6, <3>1, <3>2 DEF ReadJournal, VerifyPrevious
    <3>4. backup[e][t.gen] = Absent
        BY <1>0, <3>2 DEF Unseens, Unwritten, Unseen
    <3> QED BY <2>6, <3>1, <3>3, <3>4
  <2>7. Sight("persist", task'[p], dir', journal', backup')
      BY <1>0, <2>6 DEF Sight, Place, Journalled, Closing, Started, Promoting, Forward, fs
  <2> QED BY <2>1, <2>2, <2>5, <2>7 DEF Mine, Work
<1> QED BY <1>1, <1>2 DEF Recheck

\* A journal is written, or writing it fails and the update is abandoned.
LEMMA PersistWork ==
    ASSUME TypeOK, TxnInHand, Holding, NEW p \in Procs, Mine(p), Persist(p)
    PROVE  Mine(p)'
<1> DEFINE t == task[p].txn
<1>0. pc[p] = "persist" /\ UNCHANGED <<dir, backup>>
    BY DEF Persist
<1>1. PICK r \in task[p].todo :
         \/ Write(r, t) /\ Loop(p, r, "publish")
         \/ /\ Write(r, t) \/ UNCHANGED journal
            /\ task' = [task EXCEPT ![p].mode = "abandon", ![p].todo = All(p)]
            /\ Goto(p, "verify_prepared")
    BY DEF Persist, WriteFails
<1>2. /\ t \in Journals /\ t.state = "prepared" /\ task[p].absent = {} /\ t.roots = task[p].roots
      /\ Extent(task[p]) = t.roots /\ task[p].kind = "update" /\ IsFirst(t.lead, t.roots)
      /\ r \in t.roots /\ t.roots \subseteq Roots /\ task[p].todo \subseteq t.roots
  <2>1. t \in Journals
      BY <1>0, TxnOf DEF TxnPcs
  <2>2. /\ t.state = "prepared" /\ task[p].absent = {} /\ t.roots = task[p].roots
        /\ task[p].kind = "update" /\ IsFirst(t.lead, Extent(task[p]))
    <3>1. Local(pc[p], task[p]) /\ Purpose(pc[p], task[p])
        BY DEF Mine, Work
    <3>2. t.state = "prepared"
        BY <1>0, <3>1 DEF Local, StatesAt, Promoting, Worked, TxnPcs
    <3> QED BY <1>0, <3>1, <3>2 DEF Local, Purpose, Owning, Updating
  <2>3. Extent(task[p]) = t.roots
      BY <2>1, <2>2, JournalFields DEF Extent
  <2>4. task[p].todo \subseteq Extent(task[p])
      BY <1>0 DEF Holding, Held, Scope, Worked, TxnPcs
  <2> QED BY <2>1, <2>2, <2>3, <2>4, JournalFields
<1>3. \A e \in t.roots : /\ dir[e] = t.prev[e] /\ backup[e][t.gen] = Absent
                         /\ journal[e] = IF e \in task[p].todo THEN None ELSE t
    BY <1>0, <1>2 DEF Mine, Work, Sight, Place, Journalled, Exclusive, Worked, TxnPcs
<1>4. CASE Write(r, t) /\ Loop(p, r, "publish")
  <2>1. /\ SameTask(task[p], task'[p]) /\ task'[p].mode = task[p].mode
        /\ IF task[p].todo = {r} THEN pc'[p] = "publish" /\ task'[p].todo = t.roots
           ELSE pc'[p] = "persist" /\ task'[p].todo = task[p].todo \ {r}
      BY <1>0, <1>2, <1>4, LoopAfter, LoopMode
  <2>2. Extent(task'[p]) = t.roots
      BY <1>2, <2>1, SameExtent
  <2>3. Purpose(pc'[p], task'[p])
      BY <1>0, <2>1 DEF Mine, Work, Purpose, SameTask, SameCall, Updating, Owning, Cleanup, Backward, Forward
  <2>4. t.state \in StatesAt(pc'[p])
      BY <1>2, <2>1 DEF StatesAt, Promoting
  <2>5. Local(pc'[p], task'[p])
      BY <1>2, <2>1, <2>2, <2>4 DEF Local, SameTask, SameCall, Owning, Started, Promoting, Forward, Cleanup,
          Backward
  <2>6. \A e \in t.roots : journal'[e] = IF e = r THEN t ELSE journal[e]
      BY <1>2, <1>4 DEF Write, TypeOK
  <2>7. Sight(pc'[p], task'[p], dir', journal', backup')
    <3> SUFFICES ASSUME NEW e \in t.roots
                 PROVE  /\ Place(pc'[p], task'[p], e, dir'[e], backup'[e][t.gen])
                        /\ Journalled(pc'[p], task'[p], e, journal'[e])
        BY <2>1, <2>2 DEF Sight, SameTask
    <3>1. Place(pc'[p], task'[p], e, dir'[e], backup'[e][t.gen])
        BY <1>0, <1>3, <2>1 DEF Place, Closing, SameTask
    <3>2. Journalled(pc'[p], task'[p], e, journal'[e])
        BY <1>3, <2>1, <2>6 DEF Journalled, Closing, Started, Promoting, Forward, SameTask
    <3> QED BY <3>1, <3>2
  <2> QED BY <2>3, <2>5, <2>7 DEF Mine, Work
<1>5. CASE /\ Write(r, t) \/ UNCHANGED journal
           /\ task' = [task EXCEPT ![p].mode = "abandon", ![p].todo = All(p)]
           /\ Goto(p, "verify_prepared")
  <2>1. /\ SameTask(task[p], task'[p]) /\ task'[p].mode = "abandon" /\ pc'[p] = "verify_prepared"
      BY <1>5, RefillAfter, GotoAfter
  <2>2. Extent(task'[p]) = t.roots
      BY <1>2, <2>1, SameExtent
  <2>3. Purpose(pc'[p], task'[p])
      BY <1>0, <2>1 DEF Mine, Work, Purpose, SameTask, SameCall, Updating, Owning
  <2>4. t.state \in StatesAt(pc'[p])
      BY <1>2, <2>1 DEF StatesAt, Promoting
  <2>5. Local(pc'[p], task'[p])
      BY <1>2, <2>1, <2>4 DEF Local, SameTask, SameCall, Owning, Started, Promoting, Forward
  <2>6. \A e \in t.roots : journal'[e] \in {t, None}
      BY <1>2, <1>3, <1>5 DEF Write, TypeOK
  <2>7. SameTransaction(t, t)
      BY <1>2, JournalFields DEF SameTransaction
  <2>8. Sight(pc'[p], task'[p], dir', journal', backup')
    <3> SUFFICES ASSUME NEW e \in t.roots
                 PROVE  /\ Place(pc'[p], task'[p], e, dir'[e], backup'[e][t.gen])
                        /\ Journalled(pc'[p], task'[p], e, journal'[e])
        BY <2>1, <2>2 DEF Sight, SameTask
    <3>1. Place(pc'[p], task'[p], e, dir'[e], backup'[e][t.gen])
        BY <1>0, <1>3, <2>1 DEF Place, Closing, SameTask
    <3>2. Journalled(pc'[p], task'[p], e, journal'[e])
        BY <2>1, <2>6, <2>7 DEF Journalled, Closing, Started, Promoting, Forward, SameTask
    <3> QED BY <3>1, <3>2
  <2> QED BY <2>3, <2>5, <2>8 DEF Mine, Work
<1> QED BY <1>1, <1>4, <1>5

LEMMA PublishWork ==
    ASSUME TypeOK, TxnInHand, Holding, NEW p \in Procs, Mine(p), Publish(p)
    PROVE  Mine(p)'
<1> DEFINE t == task[p].txn
           u == Stated(t, "publishing")
<1>0. /\ pc[p] = "publish" /\ UNCHANGED <<dir, backup>>
      /\ RecordDecision(p, "publishing", "promote_backup")
    BY DEF Publish
<1>1. t \in Journals /\ t.lead \in Extent(task[p])
    BY <1>0, TxnOf DEF Holding, Held, Scope, TxnPcs, Worked
<1>2. /\ u # None /\ u.state = "publishing" /\ u.gen = t.gen /\ u.lead = t.lead
      /\ u.roots = t.roots /\ u.prev = t.prev /\ t # None /\ t.lead \in Roots /\ u \in Journals
    BY <1>1, StatedIs, JournalFields DEF States
<1> HIDE DEF u
<1>3. CASE \E result \in Terminal : Return(p, result)
    BY <1>3, ReturnWork
<1>4. CASE /\ journal' = [journal EXCEPT ![u.lead] = u]
           /\ pc'[p] = "promote_backup" /\ SameCall(task[p], task'[p])
           /\ task'[p].mode = task[p].mode /\ task'[p].todo = task[p].todo /\ task'[p].txn = u
  <2>1. Extent(task'[p]) = Extent(task[p])
      BY <1>2, <1>4, RecordExtent DEF SameRecord
  <2>2. Purpose(pc'[p], task'[p])
      BY <1>0, <1>4, SamePurpose DEF Mine, Work, Updating, Owning, Cleanup, Backward, Forward
  <2>3. Local(pc[p], task[p]) /\ Sight(pc[p], task[p], dir, journal, backup)
      BY DEF Mine, Work
  <2>4. u.state \in StatesAt("promote_backup")
      BY <1>2 DEF StatesAt, Promoting
  <2>5. Local("promote_backup", task'[p])
      BY <1>0, <1>2, <1>4, <2>1, <2>3, <2>4 DEF Local, SameCall, Owning, Cleanup, Backward, Forward
  <2>6. \A e \in Extent(task[p]) : dir[e] = t.prev[e] /\ e \in task[p].todo
      BY <1>0, <2>3 DEF Sight, Place, Local, Exclusive, Worked, TxnPcs
  <2>7. Sight("promote_backup", task'[p], dir', journal', backup')
      BY <1>0, <1>2, <1>4, <2>1, <2>6 DEF Sight, Place, Journalled, Closing, TypeOK
  <2> QED BY <1>4, <2>2, <2>5, <2>7 DEF Mine, Work
<1> QED BY <1>0, <1>3, <1>4, RecordDone DEF States, TxnPcs, u

LEMMA UndoWork ==
    ASSUME TypeOK, TxnInHand, Holding, Coordinated, NEW p \in Procs, Mine(p),
           pc[p] \in {"promote_backup", "promote_stage", "commit"}, Undo(p), UNCHANGED journal
    PROVE  Mine(p)'
<1> DEFINE t == task[p].txn
<1>1. /\ t \in Journals /\ task[p].absent = {} /\ Extent(task[p]) = t.roots /\ journal[t.lead] = t
    BY Agreed DEF Started, Promoting
<1>2. /\ SameTask(task[p], task'[p]) /\ task'[p].mode = "undo" /\ pc'[p] = "verify_rollback"
      /\ task'[p].todo = Extent(task[p])
    BY RefillAfter, GotoAfter DEF Undo
<1>3. Local(pc[p], task[p]) /\ Purpose(pc[p], task[p])
    BY DEF Mine, Work
<1>4. Extent(task'[p]) = Extent(task[p])
    BY <1>2, SameExtent
<1>5. Purpose("verify_rollback", task'[p])
    BY <1>2, <1>3 DEF Purpose, SameTask, SameCall, Updating, Owning
<1>6. t.state = "publishing"
    BY <1>3 DEF Local, StatesAt, Promoting, Worked, TxnPcs
<1>7. task[p].kind = "update" /\ t.roots = task[p].roots
    BY <1>3 DEF Local, Purpose, Updating, Owning
<1>8. t.state \in StatesAt("verify_rollback")
    BY <1>6 DEF StatesAt, Promoting
<1>9. Local("verify_rollback", task'[p])
    BY <1>1, <1>2, <1>4, <1>7, <1>8 DEF Local, SameTask, SameCall, Owning, Started, Promoting, Forward
<1>10. Sight("verify_rollback", task'[p], dir', journal', backup')
    BY <1>1, <1>2 DEF Sight, Place, Journalled, Closing, SameTask
<1> QED BY <1>2, <1>5, <1>9, <1>10 DEF Mine, Work

LEMMA PromoteBackupWork ==
    ASSUME TypeOK, TxnInHand, Holding, Coordinated, NEW p \in Procs, Mine(p), PromoteBackup(p)
    PROVE  Mine(p)'
<1> DEFINE t == task[p].txn
<1>0. pc[p] = "promote_backup" /\ UNCHANGED journal
    BY DEF PromoteBackup
<1>1. /\ t \in Journals /\ task[p].absent = {} /\ Extent(task[p]) = t.roots /\ journal[t.lead] = t
      /\ t.roots \subseteq Roots
    BY <1>0, Agreed, JournalFields DEF Started, Promoting
<1>2. CASE Undo(p)
    BY <1>0, <1>2, UndoWork
<1>3. CASE ~Undo(p)
  <2>1. PICK r \in task[p].todo :
           /\ IsFirst(r, task[p].todo) /\ dir[r] = t.prev[r]
           /\ IF t.prev[r] # Absent THEN dir' = [dir EXCEPT ![r] = Absent] ELSE UNCHANGED dir
           /\ Goto(p, "promote_stage") /\ UNCHANGED task
      BY <1>3 DEF PromoteBackup, VerifyPrevious
  <2>2. pc'[p] = "promote_stage" /\ task'[p] = task[p]
      BY <2>1, GotoAfter
  <2>3. Local(pc[p], task[p]) /\ Purpose(pc[p], task[p]) /\ Sight(pc[p], task[p], dir, journal, backup)
      BY DEF Mine, Work
  <2>4. Purpose("promote_stage", task'[p])
      BY <1>0, <2>2, <2>3 DEF Purpose, Updating, Owning, Cleanup, Backward, Forward
  <2>5. t.state \in StatesAt("promote_stage")
      BY <1>0, <2>3 DEF Local, StatesAt, Promoting, Worked, TxnPcs
  <2>6. Local("promote_stage", task'[p])
      BY <1>0, <2>2, <2>3, <2>5 DEF Local, Owning, Cleanup, Backward, Forward, Started, Promoting
  <2>7. r \in Roots /\ task[p].todo \subseteq Roots
      BY <2>1, StepRoots
  <2>8. dir'[r] = Absent /\ \A e \in Roots : e # r => dir'[e] = dir[e]
      BY <2>1, <2>7 DEF TypeOK
  <2>9. ASSUME NEW e \in t.roots
        PROVE  /\ Place("promote_stage", task'[p], e, dir'[e], backup'[e][t.gen])
               /\ Journalled("promote_stage", task'[p], e, journal'[e])
    <3>1. Place("promote_backup", task[p], e, dir[e], backup[e][t.gen])
        BY <1>0, <1>1, <2>3 DEF Sight, Exclusive, Worked, TxnPcs
    <3>2. e \in Roots
        BY <1>1
    <3>3. IsFirst(e, task[p].todo) <=> e = r
        BY <2>1, <2>7, OneLast DEF IsFirst
    <3>4. Place("promote_stage", task'[p], e, dir'[e], backup'[e][t.gen])
        BY <2>1, <2>2, <2>8, <3>1, <3>2, <3>3 DEF Place, Closing
    <3> QED BY <1>0, <1>1, <2>2, <3>4 DEF Journalled, Closing
  <2> QED BY <1>1, <2>2, <2>4, <2>6, <2>9 DEF Mine, Work, Sight
<1> QED BY <1>2, <1>3

LEMMA PromoteStageWork ==
    ASSUME TypeOK, TxnInHand, Holding, Staged, Coordinated, NEW p \in Procs, Mine(p), PromoteStage(p)
    PROVE  Mine(p)'
<1> DEFINE t == task[p].txn
<1>0. pc[p] = "promote_stage" /\ UNCHANGED journal
    BY DEF PromoteStage
<1>1. /\ t \in Journals /\ task[p].absent = {} /\ Extent(task[p]) = t.roots /\ journal[t.lead] = t
      /\ t.roots \subseteq Roots
    BY <1>0, Agreed, JournalFields DEF Started, Promoting
<1>2. CASE Undo(p)
    BY <1>0, <1>2, UndoWork
<1>3. CASE ~Undo(p)
  <2>1. PICK r \in task[p].todo :
           /\ IsFirst(r, task[p].todo)
           /\ dir' = [dir EXCEPT ![r] = stage[r][t.gen]]
           /\ task' = [task EXCEPT ![p].todo = IF @ = {r} THEN All(p) ELSE @ \ {r}]
           /\ Goto(p, IF task[p].todo = {r} THEN "commit" ELSE "promote_backup")
      BY <1>3 DEF PromoteStage
  <2>2. /\ pc'[p] = IF task[p].todo = {r} THEN "commit" ELSE "promote_backup"
        /\ SameTask(task[p], task'[p]) /\ task'[p].mode = task[p].mode
        /\ task'[p].todo = IF task[p].todo = {r} THEN Extent(task[p]) ELSE task[p].todo \ {r}
      BY <2>1, GotoAfter, NextEntryAfter, NextEntryMode
  <2>3. Local(pc[p], task[p]) /\ Purpose(pc[p], task[p]) /\ Sight(pc[p], task[p], dir, journal, backup)
      BY DEF Mine, Work
  <2>4. Purpose(pc'[p], task'[p])
      BY <1>0, <2>2, <2>3 DEF Purpose, SameTask, SameCall, Updating, Owning, Cleanup, Backward, Forward
  <2>5. t.state = "publishing"
      BY <1>0, <2>3 DEF Local, StatesAt, Promoting, Worked, TxnPcs
  <2>6. t.state \in StatesAt(pc'[p])
      BY <2>2, <2>5 DEF StatesAt, Promoting
  <2>7. Extent(task'[p]) = t.roots /\ task'[p].txn = t
      BY <1>1, <2>2, SameExtent DEF SameTask
  <2>8. Local(pc'[p], task'[p])
      BY <1>0, <1>1, <2>2, <2>3, <2>6, <2>7 DEF Local, SameTask, SameCall, Owning, Cleanup, Backward, Forward,
          Started, Promoting
  <2>9. r \in Roots /\ task[p].todo \subseteq Roots
      BY <2>1, StepRoots
  <2>10. dir'[r] = t.gen /\ \A e \in Roots : e # r => dir'[e] = dir[e]
    <3>1. stage[r][t.gen] = t.gen
        BY <1>0 DEF Staged, Ready
    <3> QED BY <2>1, <2>9, <3>1 DEF TypeOK
  <2>11. ASSUME NEW e \in t.roots
         PROVE  /\ Place(pc'[p], task'[p], e, dir'[e], backup'[e][t.gen])
                /\ Journalled(pc'[p], task'[p], e, journal'[e])
    <3>1. Place("promote_stage", task[p], e, dir[e], backup[e][t.gen])
        BY <1>0, <1>1, <2>3 DEF Sight, Exclusive, Worked, TxnPcs
    <3>2. e \in Roots
        BY <1>1
    <3>3. IsFirst(e, task[p].todo) => e = r
        BY <2>1, <2>9, OneLast DEF IsFirst
    <3>4. IF e \in task[p].todo \ {r} THEN dir'[e] = t.prev[e] ELSE dir'[e] = t.gen
        BY <2>10, <3>1, <3>2, <3>3 DEF Place
    <3>5. Place(pc'[p], task'[p], e, dir'[e], backup'[e][t.gen])
        BY <1>1, <2>2, <2>7, <3>4 DEF Place, Closing
    <3> QED BY <1>0, <1>1, <2>2, <2>7, <3>5 DEF Journalled, Closing
  <2> QED BY <2>4, <2>7, <2>8, <2>11 DEF Mine, Work, Sight
<1> QED BY <1>2, <1>3

LEMMA CommitWork ==
    ASSUME TypeOK, TxnInHand, Holding, Coordinated, NEW p \in Procs, Mine(p), Commit(p)
    PROVE  Mine(p)'
<1> DEFINE t == task[p].txn
           u == Stated(t, "committed")
<1>0. pc[p] = "commit" /\ UNCHANGED <<dir, backup>>
    BY DEF Commit
<1>1. /\ t \in Journals /\ task[p].absent = {} /\ Extent(task[p]) = t.roots /\ journal[t.lead] = t
    BY <1>0, Agreed DEF Started, Promoting
<1>2. /\ u # None /\ u.state = "committed" /\ u.gen = t.gen /\ u.lead = t.lead
      /\ u.roots = t.roots /\ u.prev = t.prev /\ t # None /\ t.lead \in Roots /\ u \in Journals
    BY <1>1, StatedIs, JournalFields DEF States
<1>3. \/ Return(p, "recovery_required")
      \/ Undo(p) /\ UNCHANGED journal
      \/ /\ journal' = [journal EXCEPT ![u.lead] = u] /\ Goto(p, "verify_committed")
         /\ task' = [task EXCEPT ![p].txn = u, ![p].mode = "finish"]
    BY DEF Commit, Write, Stated
<1> HIDE DEF u
<1>4. CASE /\ journal' = [journal EXCEPT ![u.lead] = u] /\ Goto(p, "verify_committed")
           /\ task' = [task EXCEPT ![p].txn = u, ![p].mode = "finish"]
  <2>1. task'[p] = [task[p] EXCEPT !.txn = u, !.mode = "finish"]
      BY <1>4 DEF TypeOK
  <2>2. SameCall(task[p], task'[p]) /\ task'[p].txn = u /\ task'[p].mode = "finish"
    <3> DEFINE v == [task[p] EXCEPT !.txn = u]
    <3>1. task'[p] = [v EXCEPT !.mode = "finish"]
        BY <2>1
    <3>2. v \in Tasks /\ v.txn = u /\ SameCall(task[p], v)
        BY <1>2, TaskOf DEF Tasks, SameCall
    <3> HIDE DEF v
    <3> QED BY ONLY <3>1, <3>2 DEF Tasks, SameCall
  <2>3. pc'[p] = "verify_committed" /\ journal'[t.lead] = u
      BY <1>2, <1>4, GotoAfter DEF TypeOK
  <2>4. Local(pc[p], task[p]) /\ Purpose(pc[p], task[p])
      BY DEF Mine, Work
  <2>5. Purpose("verify_committed", task'[p])
      BY <1>0, <2>2, <2>4 DEF Purpose, SameCall, Updating, Owning
  <2>6. task[p].kind = "update" /\ t.roots = task[p].roots
      BY <1>0, <2>4 DEF Local, Purpose, Updating, Owning
  <2>7. u.state \in StatesAt("verify_committed")
      BY <1>2 DEF StatesAt, Promoting
  <2>8. Local("verify_committed", task'[p])
      BY <1>1, <1>2, <2>2, <2>6, <2>7 DEF Local, SameCall, Owning, Promoting, Backward
  <2>9. Sight("verify_committed", task'[p], dir', journal', backup')
      BY <1>2, <2>2, <2>3 DEF Sight, Place, Journalled, Closing
  <2> QED BY <2>3, <2>5, <2>8, <2>9 DEF Mine, Work
<1> QED BY <1>0, <1>3, <1>4, ReturnWork, UndoWork DEF Terminal

LEMMA UpdateWork ==
    ASSUME TypeOK, TxnInHand, Holding, Present, Staged, Coordinated, Unseens, NEW p \in Procs, Mine(p),
           UpdateStep(p)
    PROVE  Mine(p)'
BY LockingWork, PrepareWork, StagingWork, RecheckWork, PersistWork, PublishWork, PromoteBackupWork,
   PromoteStageWork, CommitWork DEF UpdateStep

LEMMA ReadWork ==
    ASSUME TypeOK, NEW p \in Procs, Mine(p), ReadStep(p)
    PROVE  Mine(p)'
<1>1. Readers \subseteq Plain \ (Recovering \cup Updating)
    BY DEF Plain, Labels, Worked, TxnPcs, Updating, Owning
<1>2. CASE ReadInit(p) \/ ReadLock(p) \/ ReadWait(p) \/ ReadCheck(p)
  <2>1. pc[p] \in Readers
      BY <1>2 DEF ReadInit, ReadLock, ReadWait, ReadCheck
  <2>2. CASE \E result \in Terminal : Return(p, result)
      BY <2>2, ReturnWork
  <2>3. CASE ~\E result \in Terminal : Return(p, result)
    <3>1. CASE ReadInit(p)
      <4>1. SameTask(task[p], task'[p]) /\ pc'[p] \in {"read_init", "read_wait", "read_lock"}
          BY <3>1, LoopAfter, GotoAfter DEF ReadInit, SameTask, SameCall
      <4> QED BY <1>1, <2>1, <4>1, PlainGoes
    <3>2. CASE ReadLock(p)
      <4>1. SameTask(task[p], task'[p]) /\ pc'[p] \in {"read_lock", "read_check"}
          BY <3>2, LoopAfter DEF ReadLock
      <4> QED BY <1>1, <2>1, <4>1, PlainGoes
    <3>3. CASE ReadWait(p)
      <4>1. SameTask(task[p], task'[p]) /\ pc'[p] \in {"read_init", "read_lock"}
          BY <3>3, NextEntryAfter, GotoAfter DEF ReadWait
      <4> QED BY <1>1, <2>1, <4>1, PlainGoes
    <3>4. CASE ReadCheck(p)
      <4>1. SameTask(task[p], task'[p]) /\ pc'[p] = "read"
          BY <2>3, <3>4, GotoAfter DEF ReadCheck, SameTask, SameCall, Terminal
      <4> QED BY <1>1, <2>1, <4>1, PlainGoes
    <3> QED BY <1>2, <3>1, <3>2, <3>3, <3>4
  <2> QED BY <2>2, <2>3
<1>3. CASE Read(p)
  <2>1. PICK r \in task[p].todo :
           /\ task' = [task EXCEPT ![p].seen[r] = dir[r], ![p].todo = @ \ {r}]
           /\ Goto(p, IF task[p].todo = {r} THEN "read_done" ELSE "read")
      BY <1>3 DEF Read
  <2>2. pc[p] = "read" /\ pc'[p] \in {"read", "read_done"}
      BY <1>3, <2>1, GotoAfter DEF Read
  <2>3. task'[p].kind = task[p].kind /\ task'[p].roots = task[p].roots
    <3>1. task'[p] = [task[p] EXCEPT !.seen[r] = dir[r], !.todo = task[p].todo \ {r}]
        BY <2>1 DEF TypeOK
    <3> QED BY <3>1, TaskOf DEF Tasks
  <2>4. Purpose(pc'[p], task'[p])
      BY <2>2, <2>3 DEF Mine, Work, Purpose, Updating, Owning, Cleanup, Backward, Forward
  <2> QED BY <1>1, <2>2, <2>4, PlainWork DEF Mine
<1>4. CASE ReadDone(p)
    BY <1>4, ReturnWork DEF ReadDone, Terminal
<1> QED BY <1>2, <1>3, <1>4 DEF ReadStep

LEMMA BrokenOffWork ==
    ASSUME TypeOK, TxnInHand, NEW p \in Procs, Mine(p), Cancel(p) \/ Crash(p)
    PROVE  Mine(p)'
<1>1. CASE /\ pc[p] = "excl_lock" /\ task' = [task EXCEPT ![p].todo = All(p)]
           /\ Goto(p, "discard")
    BY <1>1, TodoAfter, GotoAfter, PreparingWork
<1> QED BY <1>1, ReturnWork DEF Cancel, Crash, Terminal

\* After every step every process finds its entries as its next step expects them.
LEMMA WorkingKept ==
    ASSUME TypeOK, TxnInHand, LockExclusion, IInv, RInv, NEW p \in Procs, Acts(p)
    PROVE  Working'
<1>1. Mine(p)
    BY DEF RInv, Working, Mine
<1>2. Mine(p)'
    BY <1>1, StartWork, RecoverWork, CleanupWork, UpdateWork, ReadWork, BrokenOffWork
       DEF Acts, Step, IInv, RInv
<1>3. \A q \in Procs \ {p} : Work(pc'[q], task'[q], dir', journal', backup')
    BY OthersWork DEF IInv, RInv
<1> QED BY <1>2, <1>3 DEF Working, Mine

-----------------------------------------------------------------------------
(* What a step does to the journals and the backups.                          *)

Recording == {"finalize", "record_prepared", "verify_committed", "publish", "commit"}

\* The coordinator's record that the step at writes for the record j in hand.
Recorded(at, j) ==
    Stated(j, CASE at = "finalize" -> "finalized"
                [] at = "record_prepared" -> "prepared"
                [] at = "verify_committed" -> "cleaning"
                [] at = "publish" -> "publishing"
                [] at = "commit" -> "committed")

LEMMA RecordedIs ==
    ASSUME NEW j \in Journals, NEW at \in Recording
    PROVE  LET u == Recorded(at, j) IN
           /\ u \in Journals /\ u # None /\ u.gen = j.gen /\ u.lead = j.lead
           /\ u.roots = j.roots /\ u.prev = j.prev
           /\ u.state = "finalized" <=> at = "finalize"
<1>1. CASE at = "finalize"
    BY <1>1, StatedIs DEF Recorded, States
<1>2. CASE at = "record_prepared"
    BY <1>2, StatedIs DEF Recorded, States
<1>3. CASE at = "verify_committed"
    BY <1>3, StatedIs DEF Recorded, States
<1>4. CASE at = "publish"
    BY <1>4, StatedIs DEF Recorded, States
<1>5. CASE at = "commit"
    BY <1>5, StatedIs DEF Recorded, States
<1> QED BY <1>1, <1>2, <1>3, <1>4, <1>5 DEF Recording

\* The journals after a step of p: the coordinator records a decision, a prepared
\* record is written, a journal of the transaction goes, or nothing changes.
RecordsStep(p) == LET u == Recorded(pc[p], task[p].txn) IN
    /\ pc[p] \in Recording
    /\ journal' = [journal EXCEPT ![u.lead] = u]
    /\ UNCHANGED <<dir, stage, backup>>
PersistsStep(p) == \E r \in task[p].todo :
    /\ pc[p] = "persist" /\ IsFirst(r, task[p].todo)
    /\ journal' = [journal EXCEPT ![r] = task[p].txn]
    /\ UNCHANGED <<dir, stage, backup>>
RetiresStep(p) == \E r \in task[p].todo :
    /\ pc[p] = "retire" /\ IsLast(r, task[p].todo) /\ SameTransaction(task[p].txn, journal[r])
    /\ journal' = [journal EXCEPT ![r] = None]
    /\ UNCHANGED <<dir, stage, backup>>

LEMMA JournalWrites ==
    ASSUME TypeOK, TxnInHand, NEW p \in Procs, Acts(p)
    PROVE  UNCHANGED journal \/ RecordsStep(p) \/ PersistsStep(p) \/ RetiresStep(p)
<1>1. CASE UNCHANGED journal
    BY <1>1
<1>2. CASE CleanupStep(p)
  <2>1. CASE Retire(p)
    <3>1. PICK r \in task[p].todo :
             /\ IsLast(r, task[p].todo)
             /\ \/ UNCHANGED journal
                \/ /\ SameTransaction(task[p].txn, ReadJournal(r))
                   /\ journal' = [journal EXCEPT ![r] = None]
        BY <2>1 DEF Retire, Write, WriteFails
    <3>2. pc[p] = "retire" /\ UNCHANGED <<dir, stage, backup>>
        BY <2>1 DEF Retire
    <3>3. SameTransaction(task[p].txn, ReadJournal(r)) => ReadJournal(r) = journal[r]
        BY DEF SameTransaction, ReadJournal
    <3> QED BY <3>1, <3>2, <3>3 DEF RetiresStep
  <2>2. CASE Finalize(p)
    <3>1. Recorded(pc[p], task[p].txn) = Stated(task[p].txn, "finalized") /\ pc[p] = "finalize"
        BY <2>2 DEF Recorded, Finalize
    <3> QED BY <2>2, <3>1, RecordDone DEF Finalize, RecordsStep, Recording, States, TxnPcs
  <2>3. CASE RecordPrepared(p)
    <3>1. Recorded(pc[p], task[p].txn) = Stated(task[p].txn, "prepared") /\ pc[p] = "record_prepared"
        BY <2>3 DEF Recorded, RecordPrepared
    <3> QED BY <2>3, <3>1, RecordDone DEF RecordPrepared, RecordsStep, Recording, States, TxnPcs
  <2>4. CASE VerifyCommitted(p) /\ ~UNCHANGED journal
    <3>1. Recorded(pc[p], task[p].txn) = Stated(task[p].txn, "cleaning") /\ pc[p] = "verify_committed"
        BY <2>4 DEF Recorded, VerifyCommitted
    <3> QED BY <2>4, <3>1, RecordDone DEF VerifyCommitted, RecordsStep, Recording, States, TxnPcs
  <2> QED BY <1>1, <1>2, <2>1, <2>2, <2>3, <2>4 DEF CleanupStep, fs, VerifyPrepared, DropStage,
          VerifyRollback, UndoPromotion, UndoBackup, VerifyCleaning, Clean
<1>3. CASE UpdateStep(p)
  <2>1. CASE Persist(p)
      BY <2>1 DEF Persist, PersistsStep, Write, WriteFails
  <2>2. CASE Publish(p)
    <3>1. Recorded(pc[p], task[p].txn) = Stated(task[p].txn, "publishing") /\ pc[p] = "publish"
        BY <2>2 DEF Recorded, Publish
    <3> QED BY <2>2, <3>1, RecordDone DEF Publish, RecordsStep, Recording, States, TxnPcs
  <2>3. CASE Commit(p)
    <3>1. Recorded(pc[p], task[p].txn) = Stated(task[p].txn, "committed") /\ pc[p] = "commit"
        BY <2>3 DEF Recorded, Commit
    <3> QED BY <2>3, <3>1 DEF Commit, Stated, RecordsStep, Recording, Write, WriteFails
  <2>4. CASE PromoteBackup(p) \/ PromoteStage(p)
      BY <1>1, <2>4 DEF PromoteBackup, PromoteStage
  <2>5. CASE Inspect(p) \/ Stage(p) \/ Discard(p)
      BY <1>1, <2>5, StagingTouches
  <2> QED BY <1>1, <1>3, <2>1, <2>2, <2>3, <2>4, <2>5, OthersReadOnly DEF UpdateStep, fs
<1> QED BY <1>1, <1>2, <1>3, OthersReadOnly DEF Acts, Step, fs

\* A backup changes only for the transaction in hand.
LEMMA BackupWrites ==
    ASSUME TypeOK, TxnInHand, NEW p \in Procs, Acts(p), NEW r \in Roots, NEW g \in Gens,
           backup'[r][g] # backup[r][g]
    PROVE  pc[p] \in TxnPcs /\ g = task[p].txn.gen
<1>0. backup \in [Roots -> [Gens -> Contents]]
    BY DEF TypeOK
<1>1. CASE UNCHANGED backup
    BY <1>1
<1>2. CASE PromoteBackup(p) \/ UndoBackup(p) \/ Clean(p)
  <2>1. \E s : \E c : UNCHANGED backup \/ backup' = [backup EXCEPT ![s][task[p].txn.gen] = c]
      BY <1>2 DEF PromoteBackup, UndoBackup, Clean
  <2>2. pc[p] \in TxnPcs
      BY <1>2 DEF PromoteBackup, UndoBackup, Clean, TxnPcs
  <2> QED BY <1>0, <2>1, <2>2
<1>3. CASE CleanupStep(p)
    BY <1>1, <1>2, <1>3 DEF CleanupStep, fs, VerifyPrepared, DropStage, Finalize, Retire,
        VerifyRollback, UndoPromotion, RecordPrepared, VerifyCommitted, VerifyCleaning
<1>4. CASE UpdateStep(p)
  <2>1. CASE Persist(p) \/ Publish(p) \/ Commit(p) \/ PromoteStage(p)
      BY <1>1, <2>1 DEF Persist, Publish, Commit, PromoteStage
  <2>2. CASE Inspect(p) \/ Stage(p) \/ Discard(p)
      BY <1>1, <2>2, StagingTouches
  <2> QED BY <1>1, <1>2, <1>4, <2>1, <2>2, OthersReadOnly DEF UpdateStep, fs
<1> QED BY <1>1, <1>3, <1>4, OthersReadOnly DEF Acts, Step, fs

-----------------------------------------------------------------------------
(* Journals lie beside the roots of their transaction; generations grow.      *)

LEMMA BesideKept ==
    ASSUME TypeOK, TxnInHand, Holding, Beside, NEW p \in Procs, Acts(p)
    PROVE  Beside'
<1> SUFFICES ASSUME NEW r \in Roots, journal'[r] # None PROVE r \in journal'[r].roots
    BY DEF Beside
<1>1. CASE journal'[r] = journal[r]
    BY <1>1 DEF Beside
<1>2. CASE journal'[r] # journal[r]
  <2>1. r \in Extent(task[p])
      BY <1>2, WritesEntries
  <2>2. SameRecord(task[p].txn, journal'[r])
      BY <1>2, StepWrites
  <2> QED BY <2>1, <2>2 DEF SameRecord, Extent
<1> QED BY <1>1, <1>2

\* Generations are natural numbers, absence and damage are not.
LEMMA Numbers ==
    /\ Gens \subseteq Nat /\ Absent \notin Gens /\ Absent \notin Nat
    /\ \A j \in Journals : j.gen \in Nat
BY BoundsAssumption, MarkersAssumption, JournalFields DEF Gens

\* What p publishes or puts back is its own transaction's, or what that found.
LEMMA Publishes ==
    ASSUME TypeOK, TxnInHand, Holding, Staged, Undoing, NEW p \in Procs, Acts(p), NEW r \in Roots
    PROVE  \/ dir'[r] \in {dir[r], Absent}
           \/ task[p].txn \in Journals /\ dir'[r] \in {task[p].txn.gen, task[p].txn.prev[r]}
<1>1. CASE dir'[r] \in {dir[r], Absent}
    BY <1>1
<1>2. CASE /\ pc[p] = "promote_stage" /\ r \in task[p].todo
           /\ dir'[r] = stage[r][task[p].txn.gen]
    BY <1>2, TxnOf DEF Staged, Ready, TxnPcs
<1>3. CASE /\ pc[p] = "undo_backup" /\ r \in task[p].todo /\ backup[r][task[p].txn.gen] # Absent
           /\ dir'[r] = backup[r][task[p].txn.gen]
  <2>1. r \in Extent(task[p])
      BY <1>3 DEF Holding, Held, Scope, Worked, TxnPcs
  <2> QED BY <1>3, <2>1, TxnOf DEF Undoing, TxnPcs
<1> QED BY <1>1, <1>2, <1>3, PublishedFrom

LEMMA NextGenAfter ==
    ASSUME TypeOK, NEW p \in Procs, Acts(p)
    PROVE  nextGen \in Nat /\ nextGen' \in Nat /\ nextGen' >= nextGen
<1>1. nextGen \in Nat
    BY BoundsAssumption DEF TypeOK
<1>2. CASE Prepare(p)
    BY <1>1, <1>2, PrepareAfter
<1>3. CASE ~Prepare(p)
    BY <1>1, <1>3, SetsNoCounter
<1> QED BY <1>1, <1>2, <1>3

LEMMA AgesKept ==
    ASSUME TypeOK, TxnInHand, Holding, Records, Staged, Undoing, Ages, NEW p \in Procs, Acts(p)
    PROVE  Ages'
<1>0. nextGen \in Nat /\ nextGen' \in Nat /\ nextGen' >= nextGen
    BY NextGenAfter
<1>1. ASSUME NEW r \in Roots PROVE Older(journal'[r])
  <2>1. CASE journal'[r] \in {journal[r], None}
      BY <2>1 DEF Ages, Older
  <2>2. CASE SameRecord(task[p].txn, journal'[r])
      BY <2>2 DEF Ages, Older, SameRecord
  <2> QED BY <2>1, <2>2, StepWrites
<1>2. ASSUME NEW q \in Procs PROVE Older(task'[q].txn)
  <2>1. CASE q # p
      BY <2>1, OnlyOwn DEF Ages
  <2>2. CASE q = p /\ Start(p)
      BY <2>2, StartAfter DEF Older
  <2>3. CASE q = p /\ Prepare(p)
    <3>1. /\ task'[p].txn.gen = nextGen
          /\ \A r \in Roots : task'[p].txn.prev[r] \in {dir[r], Absent}
        BY <2>3, PrepareAfter
    <3> QED BY <2>3, <3>1, Numbers DEF Ages, Older
  <2>4. CASE q = p /\ ~Start(p) /\ ~Prepare(p)
    <3>1. Descends(p)
        BY <2>4, StepDescends
    <3>2. \/ task'[p].txn \in {task[p].txn, None} \/ SameRecord(task[p].txn, task'[p].txn)
          \/ \E r \in Roots : task'[p].txn = journal[r]
        BY <3>1 DEF Descends, NoTask
    <3> QED BY <2>4, <3>2 DEF Ages, Older, SameRecord
  <2> QED BY <2>1, <2>2, <2>3, <2>4
<1>3. ASSUME NEW r \in Roots, dir'[r] \in Nat PROVE dir'[r] < nextGen'
  <2>1. CASE dir'[r] \in {dir[r], Absent}
      BY <1>0, <1>3, <2>1, Numbers DEF Ages
  <2>2. CASE task[p].txn \in Journals /\ dir'[r] \in {task[p].txn.gen, task[p].txn.prev[r]}
    <3>1. task[p].txn.gen < nextGen /\ task[p].txn.gen \in Nat /\ task[p].txn # None
        BY <2>2, Numbers, JournalFields DEF Records, Sound
    <3>2. task[p].txn.prev[r] \in Nat => task[p].txn.prev[r] < task[p].txn.gen
        BY <3>1 DEF Ages, Older
    <3> QED BY <1>0, <1>3, <2>2, <3>1, <3>2
  <2> QED BY <2>1, <2>2, Publishes
<1>4. ASSUME NEW r \in Roots, NEW g \in Gens, g >= nextGen' PROVE backup'[r][g] = Absent
  <2>1. g \in Nat /\ g >= nextGen
      BY <1>0, <1>4, Numbers
  <2>2. CASE backup'[r][g] = backup[r][g]
      BY <2>1, <2>2 DEF Ages
  <2>3. CASE backup'[r][g] # backup[r][g]
    <3>1. pc[p] \in TxnPcs /\ g = task[p].txn.gen
        BY <2>3, BackupWrites
    <3>2. task[p].txn.gen < nextGen
        BY <3>1, TxnOf, JournalFields DEF Records, Sound
    <3> QED BY <1>0, <2>1, <3>1, <3>2
  <2> QED BY <2>2, <2>3
<1> QED BY <1>1, <1>2, <1>3, <1>4 DEF Ages

-----------------------------------------------------------------------------
(* A transaction is unknown until it is journalled.                           *)

\* A step leaves a transaction unwritten only if it was, or has just begun.
LEMMA UnwrittenFrom ==
    ASSUME TypeOK, TxnInHand, Holding, Records, NEW p \in Procs, Mine(p), Acts(p),
           Unwritten(pc'[p], task'[p])
    PROVE  \/ Prepare(p)
           \/ /\ Unwritten(pc[p], task[p]) /\ task'[p].txn = task[p].txn
              /\ UNCHANGED <<dir, backup, journal>>
<1> DEFINE U == {"stage", "validate", "excl_lock", "discard", "recheck", "persist"}
<1>0. pc'[p] \in U
    BY DEF Unwritten
<1>1. CASE Start(p)
    BY <1>0, <1>1, StartAfter
<1>2. CASE RecoverStep(p) \/ CleanupStep(p) \/ ReadStep(p)
    BY <1>0, <1>2, RecoverGoes, CleanupGoes, ReadGoes DEF Repairs, Terminal
<1>3. CASE Cancel(p) \/ Crash(p)
  <2>1. CASE /\ pc[p] = "excl_lock" /\ task' = [task EXCEPT ![p].todo = All(p)]
             /\ UNCHANGED fs
      BY <2>1, TodoAfter DEF Unwritten, SameTask, fs
  <2>2. CASE \E result \in Terminal : Return(p, result)
      BY <1>0, <2>2, ReturnAfter DEF Terminal
  <2> QED BY <1>3, <2>1, <2>2 DEF Cancel, Crash, Terminal
<1>4. CASE WriterLock(p) \/ SharedLock(p) \/ Inspect(p)
  <2>1. /\ pc[p] \in {"writer_lock", "shared_lock", "inspect"}
        /\ \/ \E r \in task[p].todo : \E l \in {"shared_lock", "inspect", "prepare"} : Loop(p, r, l)
           \/ Return(p, "recovery_required")
      BY <1>4 DEF WriterLock, SharedLock, Inspect
  <2> QED BY <1>0, <2>1, LoopGoes, ReturnAfter
<1>5. CASE Stage(p) \/ Validate(p) \/ ExclLock(p)
  <2>1. SameTask(task[p], task'[p]) /\ pc[p] \in Preparing
      BY <1>5, PreparingStep
  <2>2. UNCHANGED <<dir, backup, journal>>
      BY <1>5 DEF Stage, Validate, ExclLock, fs
  <2> QED BY <2>1, <2>2 DEF Unwritten, SameTask, Preparing
<1>6. CASE Discard(p)
  <2>1. PICK r \in task[p].todo : Return(p, "failed") \/ Loop(p, r, "discard")
      BY <1>6 DEF Discard
  <2>2. Loop(p, r, "discard")
      BY <1>0, <2>1, ReturnAfter
  <2> QED BY <1>6, <2>2, LoopAfter DEF Discard, Unwritten, SameTask
<1>7. CASE Recheck(p)
    BY <1>7 DEF Recheck, Unwritten, fs
<1>8. CASE Persist(p)
  <2>1. PICK r \in task[p].todo : /\ IsFirst(r, task[p].todo)
                                  /\ Loop(p, r, "publish") \/ Goto(p, "verify_prepared")
      BY <1>8 DEF Persist
  <2>2. Loop(p, r, "publish")
      BY <1>0, <2>1, GotoAfter
  <2>3. /\ pc'[p] = "persist" /\ task'[p].todo = task[p].todo \ {r} /\ task'[p].txn = task[p].txn
      BY <1>0, <1>8, <2>2, LoopAfter DEF SameTask, Persist
  <2>4. pc[p] = "persist" /\ IsFirst(task[p].txn.lead, Extent(task[p]))
      BY <1>8 DEF Persist, Mine, Work, Local, Owning
  <2>5. task[p].todo \subseteq Extent(task[p]) /\ task[p].todo \subseteq Roots
      BY <2>4, StepRoots DEF Holding, Held, Scope, Worked, TxnPcs
  <2>6. task[p].txn.lead \in task[p].todo
      BY <2>3 DEF Unwritten
  <2>7. IsFirst(task[p].txn.lead, task[p].todo)
      BY <2>4, <2>5, <2>6 DEF IsFirst
  <2>8. task[p].txn.lead = r
      BY <2>1, <2>5, <2>6, <2>7, OneLast
  <2> QED BY <2>3, <2>8 DEF Unwritten
<1>9. CASE Publish(p) \/ PromoteBackup(p) \/ PromoteStage(p) \/ Commit(p)
  <2>1. CASE Publish(p)
      BY <1>0, <2>1, RecordGoes DEF Publish, Terminal
  <2>2. CASE PromoteBackup(p) \/ PromoteStage(p)
      BY <1>0, <2>2, GotoAfter DEF PromoteBackup, PromoteStage, Undo
  <2>3. CASE Commit(p)
      BY <1>0, <2>3, GotoAfter, ReturnAfter DEF Commit, Undo
  <2> QED BY <1>9, <2>1, <2>2, <2>3
<1> QED BY <1>1, <1>2, <1>3, <1>4, <1>5, <1>6, <1>7, <1>8, <1>9 DEF Acts, Step, UpdateStep

LEMMA DrawnUnseen ==
    ASSUME TypeOK, Records, Ages, NEW p \in Procs, Prepare(p)
    PROVE  Unseen(p, nextGen)
<1>1. nextGen \in Gens /\ nextGen \in Nat
    BY Numbers DEF Prepare
<1>2. ASSUME NEW j \in Journals \cup {None}, Sound(j, nextGen), Older(j) PROVE Unrelated(j, nextGen)
  <2>1. CASE j # None
    <3>1. j \in Journals /\ j.gen < nextGen /\ j.gen \in Nat
        BY <1>2, <2>1, Numbers DEF Sound
    <3>2. \A r \in Roots : j.prev[r] \in Nat => j.prev[r] < j.gen
        BY <1>2, <2>1 DEF Older
    <3>3. \A r \in Roots : j.prev[r] # nextGen
        BY <1>1, <3>1, <3>2
    <3> QED BY <1>1, <3>1, <3>3 DEF Unrelated
  <2> QED BY <2>1 DEF Unrelated
<1>3. \A r \in Roots : dir[r] # nextGen
    BY <1>1 DEF Ages
<1>4. \A r \in Roots : backup[r][nextGen] = Absent
    BY <1>1 DEF Ages
<1>5. \A r \in Roots : Unrelated(journal[r], nextGen)
    BY <1>2 DEF Records, Ages, TypeOK
<1>6. \A q \in Procs : Unrelated(task[q].txn, nextGen)
    BY <1>2, TaskOf, TasksFields DEF Records, Ages
<1> QED BY <1>3, <1>4, <1>5, <1>6 DEF Unseen

\* Nothing another process does makes an unwritten transaction known.
LEMMA UnseenByOthers ==
    ASSUME TypeOK, TxnInHand, Holding, Records, Staged, Undoing, Ages, NEW p \in Procs, Acts(p),
           NEW q \in Procs \ {p}, NEW g \in Gens, g < nextGen, Unseen(q, g)
    PROVE  Unseen(q, g)'
<1>0. g \in Nat /\ g # Absent /\ nextGen \in Nat
    BY Numbers, NextGenAfter
<1>1. Unrelated(task[p].txn, g)
    BY DEF Unseen
<1>2. ASSUME NEW r \in Roots PROVE dir'[r] # g
  <2>1. CASE dir'[r] \in {dir[r], Absent}
      BY <1>0, <2>1 DEF Unseen
  <2>2. CASE task[p].txn \in Journals /\ dir'[r] \in {task[p].txn.gen, task[p].txn.prev[r]}
      BY <1>1, <2>2, JournalFields DEF Unrelated
  <2> QED BY <2>1, <2>2, Publishes
<1>3. ASSUME NEW r \in Roots PROVE backup'[r][g] = Absent
  <2>1. CASE backup'[r][g] = backup[r][g]
      BY <2>1 DEF Unseen
  <2>2. CASE backup'[r][g] # backup[r][g]
    <3>1. pc[p] \in TxnPcs /\ g = task[p].txn.gen
        BY <2>2, BackupWrites
    <3> QED BY <1>1, <3>1, TxnOf, JournalFields DEF Unrelated
  <2> QED BY <2>1, <2>2
<1>4. ASSUME NEW r \in Roots PROVE Unrelated(journal'[r], g)
  <2>1. CASE journal'[r] \in {journal[r], None}
      BY <2>1 DEF Unseen, Unrelated
  <2>2. CASE SameRecord(task[p].txn, journal'[r])
      BY <1>1, <2>2 DEF Unrelated, SameRecord
  <2> QED BY <2>1, <2>2, StepWrites
<1>5. Unrelated(task'[p].txn, g)
  <2>1. CASE Start(p)
      BY <2>1, StartAfter DEF Unrelated
  <2>2. CASE Prepare(p)
    <3>1. /\ task'[p].txn.gen = nextGen
          /\ \A r \in Roots : task'[p].txn.prev[r] \in {dir[r], Absent}
        BY <2>2, PrepareAfter
    <3> QED BY <1>0, <3>1 DEF Unrelated, Unseen
  <2>3. CASE ~Start(p) /\ ~Prepare(p)
    <3>1. \/ task'[p].txn \in {task[p].txn, None} \/ SameRecord(task[p].txn, task'[p].txn)
          \/ \E r \in Roots : task'[p].txn = journal[r]
        BY <2>3, StepDescends DEF Descends, NoTask
    <3> QED BY <1>1, <3>1 DEF Unseen, Unrelated, SameRecord
  <2> QED BY <2>1, <2>2, <2>3
<1>6. \A x \in Procs \ {q} : Unrelated(task'[x].txn, g)
    BY <1>5, OnlyOwn DEF Unseen
<1> QED BY <1>2, <1>3, <1>4, <1>6 DEF Unseen, Unrelated

LEMMA UnseensKept ==
    ASSUME TypeOK, TxnInHand, IInv, RInv, NEW p \in Procs, Acts(p)
    PROVE  Unseens'
<1> USE DEF IInv, RInv
<1>0. ASSUME NEW q \in Procs, NEW g, Unseen(q, g), UNCHANGED <<dir, backup, journal>>,
             \A x \in Procs \ {q} : task'[x] = task[x]
      PROVE  Unseen(q, g)'
    BY <1>0 DEF Unseen, Unrelated
<1>1. ASSUME Unwritten(pc'[p], task'[p]) PROVE Unseen(p, task[p].txn.gen)'
  <2>1. Mine(p) /\ \A x \in Procs \ {p} : task'[x] = task[x]
      BY OnlyOwn DEF Working, Mine
  <2>2. CASE Prepare(p)
    <3>1. Unseen(p, nextGen) /\ task'[p].txn.gen = nextGen /\ UNCHANGED <<dir, backup, journal>>
        BY <2>2, DrawnUnseen, PrepareAfter DEF Prepare, fs
    <3>2. Unseen(p, nextGen) => \A g : g = nextGen => Unseen(p, g)
        OBVIOUS
    <3>3. \A g : g = nextGen => Unseen(p, g)'
        BY <1>0, <2>1, <3>1
    <3> QED BY <3>1, <3>3 DEF Unseen, Unrelated
  <2>3. CASE /\ Unwritten(pc[p], task[p]) /\ task'[p].txn = task[p].txn
             /\ UNCHANGED <<dir, backup, journal>>
    <3>1. Unseen(p, task[p].txn.gen)
        BY <2>3 DEF Unseens
    <3>2. \A g : g = task[p].txn.gen => Unseen(p, g)'
        BY <1>0, <2>1, <2>3, <3>1
    <3> QED BY <2>3, <3>2 DEF Unseen, Unrelated
  <2> QED BY <1>1, <2>1, <2>2, <2>3, UnwrittenFrom
<1>2. ASSUME NEW q \in Procs \ {p}, Unwritten(pc'[q], task'[q]) PROVE Unseen(q, task[q].txn.gen)'
  <2>1. pc'[q] = pc[q] /\ task'[q] = task[q]
      BY OnlyOwn
  <2>2. Unseen(q, task[q].txn.gen) /\ pc[q] \in TxnPcs
      BY <1>2, <2>1 DEF Unseens, Unwritten, TxnPcs
  <2>3. task[q].txn \in Journals
      BY <2>2, TxnOf
  <2>4. task[q].txn.gen \in Gens /\ task[q].txn.gen < nextGen
      BY <2>3, JournalFields DEF Records, Sound
  <2>5. \A g \in Gens : g = task[q].txn.gen => Unseen(q, g)'
      BY <2>2, <2>4, UnseenByOthers
  <2> QED BY <2>1, <2>4, <2>5 DEF Unseen, Unrelated
<1> QED BY <1>1, <1>2 DEF Unseens

-----------------------------------------------------------------------------
(* A finalized transaction is never revived.                                  *)

\* What the coordinator's record says, and where it is, when another is written.
LEMMA RecordsOver ==
    ASSUME TypeOK, TxnInHand, Holding, Coordinated, NEW p \in Procs, Mine(p), RecordsStep(p),
           pc[p] # "finalize"
    PROVE  LET t == task[p].txn IN
           /\ t \in Journals /\ t.lead \in t.roots /\ journal[t.lead] = t
           /\ task[p].absent = {} /\ Extent(task[p]) = t.roots
           /\ pc[p] \in {"publish", "verify_committed", "commit", "record_prepared"}
           /\ t.state = CASE pc[p] = "publish" -> "prepared"
                          [] pc[p] = "verify_committed" -> "committed"
                          [] OTHER -> "publishing"
<1>1. pc[p] \in {"publish", "verify_committed", "commit", "record_prepared"}
    BY DEF RecordsStep, Recording
<1>2. Local(pc[p], task[p])
    BY DEF Mine, Work
<1>3. CASE pc[p] = "publish"
  <2>1. task[p].txn \in Journals
      BY <1>3, TxnOf DEF TxnPcs
  <2>2. task[p].txn.lead \in Extent(task[p]) /\ task[p].absent = {} /\ task[p].txn.state = "prepared"
      BY <1>2, <1>3 DEF Holding, Held, Scope, Worked, TxnPcs, Local, Owning, StatesAt, Promoting
  <2>3. Extent(task[p]) = task[p].txn.roots
      BY <2>1, <2>2, JournalFields DEF Extent
  <2>4. journal[task[p].txn.lead] = task[p].txn
      BY <1>3, <2>2 DEF Mine, Work, Sight, Journalled, Exclusive, Worked, TxnPcs
  <2> QED BY <1>3, <2>1, <2>2, <2>3, <2>4
<1>4. CASE pc[p] # "publish"
  <2>1. pc[p] \in Started
      BY <1>1, <1>4 DEF Started, Promoting, Forward
  <2>2. task[p].txn.state = CASE pc[p] = "verify_committed" -> "committed" [] OTHER -> "publishing"
      BY <1>1, <1>2, <1>4 DEF Local, StatesAt, Promoting, Worked, TxnPcs
  <2> QED BY <1>1, <1>4, <2>1, <2>2, Agreed
<1> QED BY <1>3, <1>4

LEMMA EndedStays ==
    ASSUME TypeOK, TxnInHand, Holding, Coordinated, Unseens, NEW p \in Procs, Mine(p), Acts(p),
           NEW j \in Journals \cup {None}, Ended(j),
           (\E r \in Roots : j = journal[r]) \/ (\E q \in Procs : j = task[q].txn)
    PROVE  Ended(j)'
<1> SUFFICES ASSUME j # None, j.state = "finalized", SameTransaction(j, journal'[j.lead])
             PROVE  journal'[j.lead].state = "finalized"
    BY DEF Ended
<1> DEFINE t == task[p].txn
           l == j.lead
<1>0. j \in Journals /\ l \in Roots
    BY JournalFields
<1>1. CASE journal'[l] = journal[l]
    BY <1>1 DEF Ended
<1>2. CASE RecordsStep(p) /\ pc[p] = "finalize"
  <2>1. t \in Journals
      BY <1>2, TxnOf DEF TxnPcs
  <2>2. CASE t.lead = l
    <3>1. Recorded(pc[p], t).lead = l /\ Recorded(pc[p], t).state = "finalized"
        BY <1>2, <2>1, <2>2, RecordedIs DEF Recording
    <3> QED BY <1>0, <1>2, <3>1 DEF RecordsStep, TypeOK
  <2>3. CASE t.lead # l
      BY <1>0, <1>1, <1>2, <2>1, <2>3, RecordedIs DEF RecordsStep, Recording, TypeOK
  <2> QED BY <2>2, <2>3
<1>3. CASE RecordsStep(p) /\ pc[p] # "finalize"
  <2>1. t \in Journals /\ journal[t.lead] = t /\ t.state # "finalized" /\ t # None
      BY <1>3, RecordsOver, JournalFields
  <2>2. pc[p] \in Recording
      BY <1>3 DEF RecordsStep
  <2>3. CASE t.lead = l
    <3>1. journal'[l] = Recorded(pc[p], t)
        BY <1>0, <1>3, <2>1, <2>2, <2>3, RecordedIs DEF RecordsStep, TypeOK
    <3>2. SameTransaction(j, t)
        BY <2>1, <2>2, <3>1, RecordedIs DEF SameTransaction
    <3> QED BY <2>1, <2>3, <3>2 DEF Ended
  <2>4. CASE t.lead # l
      BY <1>0, <1>1, <1>3, <2>1, <2>2, <2>4, RecordedIs DEF RecordsStep, TypeOK
  <2> QED BY <2>3, <2>4
<1>4. CASE PersistsStep(p)
  <2>1. PICK r \in task[p].todo : /\ pc[p] = "persist"
                                  /\ journal' = [journal EXCEPT ![r] = t]
      BY <1>4 DEF PersistsStep
  <2>2. CASE r = l
    <3>1. journal'[l] = t
        BY <1>0, <2>1, <2>2 DEF TypeOK
    <3>2. t.lead = l /\ j.gen = t.gen
        BY <3>1 DEF SameTransaction
    <3>3. Unseen(p, t.gen)
        BY <2>1, <2>2, <3>2 DEF Unseens, Unwritten
    <3>4. t.state = "prepared"
        BY <2>1 DEF Mine, Work, Local, StatesAt, Promoting, Worked, TxnPcs
    <3>5. CASE \E x \in Roots : j = journal[x]
        BY <3>2, <3>3, <3>5 DEF Unseen, Unrelated
    <3>6. CASE \E q \in Procs : j = task[q].txn
        BY <3>2, <3>3, <3>4, <3>6 DEF Unseen, Unrelated
    <3> QED BY <3>5, <3>6
  <2>3. CASE r # l
      BY <1>0, <1>1, <2>1, <2>3 DEF TypeOK
  <2> QED BY <2>2, <2>3
<1>5. CASE RetiresStep(p)
  <2>1. PICK r \in task[p].todo : journal' = [journal EXCEPT ![r] = None]
      BY <1>5 DEF RetiresStep
  <2> QED BY <1>0, <1>1, <2>1 DEF TypeOK, SameTransaction
<1> QED BY <1>1, <1>2, <1>3, <1>4, <1>5, JournalWrites

LEMMA FinalsKept ==
    ASSUME TypeOK, TxnInHand, Holding, Coordinated, Unseens, Finals, NEW p \in Procs, Mine(p), Acts(p)
    PROVE  Finals'
<1> DEFINE t == task[p].txn
<1>1. ASSUME NEW j \in Journals \cup {None}, Ended(j),
             (\E r \in Roots : j = journal[r]) \/ (\E q \in Procs : j = task[q].txn)
      PROVE  Ended(j)'
    BY <1>1, EndedStays
<1>2. ASSUME NEW j, j = None \/ j.state # "finalized" \/ j = journal'[j.lead] PROVE Ended(j)'
    BY <1>2 DEF Ended
<1>3. \A j : j = None \/ j.state # "finalized" \/ j = journal'[j.lead] => Ended(j)'
    BY <1>2
<1>4. ASSUME NEW r \in Roots PROVE \A j : j = journal'[r] => Ended(j)'
  <2>0. journal[r] \in Journals \cup {None} /\ Ended(journal[r])
      BY DEF TypeOK, Finals
  <2>1. CASE journal'[r] = journal[r]
      BY <1>1, <2>0, <2>1
  <2>2. CASE RecordsStep(p) /\ journal'[r] # journal[r]
    <3>1. pc[p] \in Recording /\ t \in Journals
        BY <2>2, TxnOf DEF RecordsStep, Recording, TxnPcs
    <3>2. journal'[r] = Recorded(pc[p], t) /\ Recorded(pc[p], t).lead = r
        BY <2>2, <3>1, RecordedIs, JournalFields DEF RecordsStep, TypeOK
    <3> QED BY <1>3, <3>2
  <2>3. CASE PersistsStep(p) /\ journal'[r] # journal[r]
    <3>1. journal'[r] = t /\ pc[p] = "persist"
        BY <2>3 DEF PersistsStep, TypeOK
    <3>2. t.state = "prepared"
        BY <3>1 DEF Mine, Work, Local, StatesAt, Promoting, Worked, TxnPcs
    <3> QED BY <1>3, <3>1, <3>2
  <2>4. CASE RetiresStep(p) /\ journal'[r] # journal[r]
    <3>1. journal'[r] = None
        BY <2>4 DEF RetiresStep, TypeOK
    <3> QED BY <1>3, <3>1
  <2> QED BY <2>1, <2>2, <2>3, <2>4, JournalWrites
<1>5. ASSUME NEW q \in Procs PROVE \A j : j = task'[q].txn => Ended(j)'
  <2>0. task[q].txn \in Journals \cup {None} /\ Ended(task[q].txn)
      BY TaskOf, TasksFields DEF Finals
  <2>1. CASE task'[q].txn = task[q].txn
      BY <1>1, <2>0, <2>1
  <2>2. CASE q = p /\ task'[p].txn = None
      BY <1>3, <2>2
  <2>3. CASE q = p /\ Prepare(p)
    <3>1. task'[p].txn.state = "prepared"
        BY <2>3, Prepares
    <3> QED BY <1>3, <2>3, <3>1
  <2>4. CASE q = p /\ SameRecord(t, task'[p].txn) /\ journal'[t.lead] = task'[p].txn
      BY <1>3, <2>4 DEF SameRecord
  <2>5. CASE q = p /\ \E r \in Roots : task'[p].txn = journal[r]
    <3>1. PICK r \in Roots : task'[p].txn = journal[r]
        BY <2>5
    <3>2. journal[r] \in Journals \cup {None} /\ Ended(journal[r])
        BY DEF TypeOK, Finals
    <3> QED BY <1>1, <2>5, <3>1, <3>2
  <2>6. CASE q = p /\ Start(p)
      BY <2>2, <2>6, StartAfter
  <2>7. CASE q # p
      BY <2>1, <2>7, OnlyOwn
  <2> QED BY <2>1, <2>2, <2>3, <2>4, <2>5, <2>6, <2>7, StepDescends DEF Descends, NoTask
<1>6. \A r \in Roots : Ended(journal[r])'
    BY <1>4 DEF Ended
<1>7. \A q \in Procs : Ended(task[q].txn)'
    BY <1>5 DEF Ended
<1> QED BY <1>6, <1>7 DEF Finals

-----------------------------------------------------------------------------
(* The coordinator's record keeps telling the truth about every entry.        *)

\* A directory is staged, or put back to its stage, where there was none only by
\* the copy of an update and by a rollback.
LEMMA StageChanges ==
    ASSUME TypeOK, TxnInHand, NEW p \in Procs, Acts(p), NEW e \in Roots, NEW g \in Gens,
           stage[e][g] = Absent, stage'[e][g] # Absent
    PROVE  (Stage(p) /\ g = task[p].txn.gen) \/ UndoPromotion(p)
<1>0. stage \in [Roots -> [Gens -> Contents]]
    BY DEF TypeOK
<1>1. CASE UNCHANGED stage
    BY <1>1
<1>2. CASE Inspect(p)
  <2>1. PICK r \in task[p].todo : \/ UNCHANGED stage
                                  \/ stage' = [stage EXCEPT ![r] = [h \in Gens |-> Absent]]
      BY <1>2 DEF Inspect
  <2> QED BY <1>0, <1>1, <2>1
<1>3. CASE Stage(p)
  <2>1. \E r, c : stage' = [stage EXCEPT ![r][task[p].txn.gen] = c]
      BY <1>3 DEF Stage
  <2> QED BY <1>0, <1>3, <2>1
<1>4. CASE Discard(p) \/ DropStage(p) \/ Clean(p) \/ PromoteStage(p)
  <2>1. \E r : \E c : \/ UNCHANGED stage
                      \/ /\ stage' = [stage EXCEPT ![r][task[p].txn.gen] = c]
                         /\ c = Absent \/ stage[r][task[p].txn.gen] # Absent
    <3>1. CASE Discard(p)
        BY <3>1 DEF Discard
    <3>2. CASE DropStage(p)
        BY <3>2 DEF DropStage
    <3>3. CASE Clean(p)
        BY <3>3 DEF Clean
    <3>4. CASE PromoteStage(p)
        BY <3>4 DEF PromoteStage
    <3> QED BY <1>4, <3>1, <3>2, <3>3, <3>4
  <2> QED BY <1>0, <1>1, <2>1
<1>5. CASE CleanupStep(p) /\ ~UndoPromotion(p)
    BY <1>1, <1>4, <1>5 DEF CleanupStep, fs, VerifyPrepared, Finalize, Retire,
        VerifyRollback, UndoBackup, RecordPrepared, VerifyCommitted, VerifyCleaning
<1>6. CASE UpdateStep(p)
  <2>1. CASE Persist(p) \/ Publish(p) \/ Commit(p) \/ PromoteBackup(p)
      BY <1>1, <2>1 DEF Persist, Publish, Commit, PromoteBackup
  <2> QED BY <1>1, <1>2, <1>3, <1>4, <1>6, <2>1, OthersReadOnly DEF UpdateStep, fs
<1> QED BY <1>1, <1>5, <1>6, OthersReadOnly DEF Acts, Step, fs

\* Sufficient for one entry: nothing moves there.
LEMMA EntryFrame ==
    ASSUME NEW d \in Journals, NEW e \in Roots, Entry(d, e),
           dir'[e] = dir[e], journal'[e] = journal[e], backup'[e] = backup[e],
           stage[e][d.gen] = Absent => stage'[e][d.gen] = Absent
    PROVE  Entry(d, e)'
<1>1. RollbackEntryValid(d, e) => RollbackEntryValid(d, e)'
    BY DEF RollbackEntryValid
<1> QED BY <1>1 DEF Entry, SameTransaction

LEMMA MovingSteps ==
    ASSUME TypeOK, TxnInHand, NEW p \in Procs, Acts(p), UNCHANGED journal,
           NEW e \in Roots, dir'[e] # dir[e] \/ backup'[e] # backup[e]
    PROVE  PromoteBackup(p) \/ PromoteStage(p) \/ UndoPromotion(p) \/ UndoBackup(p) \/ Clean(p)
<1>1. CASE UNCHANGED <<dir, backup>>
    BY <1>1
<1>2. CASE CleanupStep(p)
    BY <1>1, <1>2 DEF CleanupStep, fs, VerifyPrepared, DropStage, Finalize, Retire,
        VerifyRollback, RecordPrepared, VerifyCommitted, VerifyCleaning
<1>3. CASE UpdateStep(p)
  <2>1. CASE Persist(p) \/ Publish(p) \/ Commit(p)
      BY <1>1, <2>1 DEF Persist, Publish, Commit
  <2>2. CASE Inspect(p) \/ Stage(p) \/ Discard(p)
      BY <1>1, <2>2, StagingTouches
  <2> QED BY <1>1, <1>3, <2>1, <2>2, OthersReadOnly DEF UpdateStep, fs
<1> QED BY <1>1, <1>2, <1>3, OthersReadOnly DEF Acts, Step, fs

\* What a step of p changes beside an entry concerns its own transaction.
LEMMA ChangesOwn ==
    ASSUME TypeOK, TxnInHand, Holding, Coordinated, NEW p \in Procs, Mine(p), Acts(p), NEW e \in Roots,
           dir'[e] # dir[e] \/ journal'[e] # journal[e] \/ backup'[e] # backup[e]
    PROVE  LET t == task[p].txn IN
           /\ t \in Journals /\ e \in t.roots /\ pc[p] \in Exclusive
           /\ journal[e] = None \/ SameTransaction(t, journal[e])
           /\ journal'[e] = None \/ SameTransaction(t, journal'[e])
<1> DEFINE t == task[p].txn
<1>1. pc[p] \in Exclusive /\ e \in Extent(task[p])
    BY WritesEntries
<1>2. t \in Journals /\ t # None
    BY <1>1, TxnOf, JournalFields DEF Exclusive, Worked
<1>3. e \in t.roots
    BY <1>1, <1>2 DEF Extent
<1>4. CASE RecordsStep(p)
  <2>1. pc[p] \in Recording
      BY <1>4 DEF RecordsStep
  <2>2. e = t.lead /\ journal'[e] = Recorded(pc[p], t)
      BY <1>2, <1>4, <2>1, RecordedIs DEF RecordsStep, TypeOK
  <2>3. SameTransaction(t, journal'[e])
      BY <1>2, <2>1, <2>2, RecordedIs DEF SameTransaction
  <2>4. journal[e] = None \/ journal[e] = t
    <3>1. CASE pc[p] = "finalize"
        BY <1>1, <2>2, <3>1 DEF Mine, Work, Sight, Journalled
    <3>2. CASE pc[p] # "finalize"
        BY <1>4, <2>2, <3>2, RecordsOver
    <3> QED BY <3>1, <3>2
  <2> QED BY <1>1, <1>2, <1>3, <2>3, <2>4 DEF SameTransaction
<1>5. CASE PersistsStep(p)
  <2>1. pc[p] = "persist" /\ e \in task[p].todo /\ journal'[e] = t
      BY <1>5 DEF PersistsStep, TypeOK
  <2>2. journal[e] = None
      BY <1>1, <2>1 DEF Mine, Work, Sight, Journalled
  <2> QED BY <1>1, <1>2, <1>3, <2>1, <2>2 DEF SameTransaction
<1>6. CASE RetiresStep(p)
    BY <1>1, <1>2, <1>3, <1>6 DEF RetiresStep, TypeOK
<1>7. CASE UNCHANGED journal
  <2>1. pc[p] \in Started
      BY <1>7, MovingSteps DEF PromoteBackup, PromoteStage, UndoPromotion, UndoBackup, Clean,
          Started, Promoting, Forward
  <2>2. Entry(t, e) /\ t.state \in {"publishing", "committed", "cleaning"}
      BY <1>3, <2>1, Agreed DEF Mine, Work, Local, StatesAt, Started, Promoting, Forward, Worked, TxnPcs
  <2>3. SameTransaction(journal[e], t)
      BY <2>2 DEF Entry
  <2> QED BY <1>1, <1>2, <1>3, <1>7, <2>3 DEF SameTransaction
<1> QED BY <1>4, <1>5, <1>6, <1>7, JournalWrites

\* A transaction never found its own generation.
LEMMA FoundOlder ==
    ASSUME NEW t \in Journals, Older(t), NEW e \in Roots
    PROVE  t.prev[e] # t.gen /\ t.gen # Absent
BY Numbers, JournalFields DEF Older

\* Promotion and rollback leave every entry as a rollback accepts it.
LEMMA MovesValid ==
    ASSUME TypeOK, TxnInHand, Holding, Staged, Coordinated, Ages, NEW p \in Procs, Mine(p),
           PromoteBackup(p) \/ PromoteStage(p) \/ UndoPromotion(p) \/ UndoBackup(p),
           NEW t \in Journals, t = task[p].txn, NEW e \in t.roots
    PROVE  RollbackEntryValid(t, e)'
<1> DEFINE g == t.gen
<1>0. /\ dir \in [Roots -> Contents] /\ stage \in [Roots -> [Gens -> Contents]]
      /\ backup \in [Roots -> [Gens -> Contents]] /\ g \in Gens /\ e \in Roots
    BY JournalFields DEF TypeOK
<1>1. pc[p] \in {"promote_backup", "promote_stage", "undo_promotion", "undo_backup"}
    BY DEF PromoteBackup, PromoteStage, UndoPromotion, UndoBackup
<1>2. /\ Extent(task[p]) = t.roots /\ RollbackEntryValid(t, e)
  <2>1. pc[p] \in Started /\ t.state = "publishing"
      BY <1>1 DEF Mine, Work, Local, StatesAt, Started, Promoting, Worked, TxnPcs
  <2> QED BY <2>1, Agreed DEF Entry
<1>3. Place(pc[p], task[p], e, dir[e], backup[e][g])
    BY <1>1, <1>2 DEF Mine, Work, Sight, Exclusive, Worked, TxnPcs
<1>4. t.prev[e] # g /\ g # Absent
    BY <1>0, FoundOlder DEF Ages
<1>5. CASE UNCHANGED <<dir, backup, stage>>
    BY <1>2, <1>5 DEF RollbackEntryValid
<1>6. CASE PromoteBackup(p)
  <2>1. PICK r \in task[p].todo :
           \/ UNCHANGED <<dir, backup>>
           \/ /\ t.prev[r] # Absent
              /\ dir' = [dir EXCEPT ![r] = Absent]
              /\ backup' = [backup EXCEPT ![r][g] = dir[r]]
      BY <1>6 DEF PromoteBackup
  <2>2. UNCHANGED stage /\ pc[p] = "promote_backup"
      BY <1>6 DEF PromoteBackup
  <2>3. CASE ~UNCHANGED <<dir, backup>> /\ e = r
    <3>1. dir[e] = t.prev[e]
        BY <1>3, <2>2, <2>3 DEF Place
    <3>2. dir'[e] = Absent /\ backup'[e][g] = t.prev[e] /\ t.prev[e] # Absent
        BY <1>0, <2>1, <2>3, <3>1
    <3> QED BY <1>4, <3>2 DEF RollbackEntryValid
  <2>4. CASE ~UNCHANGED <<dir, backup>> /\ e # r
    <3>1. dir'[e] = dir[e] /\ backup'[e][g] = backup[e][g]
        BY <1>0, <2>1, <2>4
    <3> QED BY <1>2, <2>2, <3>1 DEF RollbackEntryValid
  <2> QED BY <1>5, <2>2, <2>3, <2>4
<1>7. CASE PromoteStage(p)
  <2>1. PICK r \in task[p].todo :
           /\ IsFirst(r, task[p].todo)
           /\ \/ UNCHANGED <<dir, stage>>
              \/ /\ dir' = [dir EXCEPT ![r] = stage[r][g]]
                 /\ stage' = [stage EXCEPT ![r][g] = Absent]
      BY <1>7 DEF PromoteStage
  <2>2. UNCHANGED backup /\ pc[p] = "promote_stage"
      BY <1>7 DEF PromoteStage
  <2>3. CASE ~UNCHANGED <<dir, stage>> /\ e = r
    <3>1. dir[e] = Absent
        BY <1>3, <2>1, <2>2, <2>3 DEF Place
    <3>2. stage[e][g] = g
        BY <2>2, <2>3 DEF Staged, Ready
    <3>3. dir'[e] = g /\ stage'[e][g] = Absent
        BY <1>0, <2>1, <2>3, <3>2
    <3> QED BY <1>2, <1>4, <2>2, <3>1, <3>3 DEF RollbackEntryValid
  <2>4. CASE ~UNCHANGED <<dir, stage>> /\ e # r
    <3>1. dir'[e] = dir[e] /\ stage'[e][g] = stage[e][g]
        BY <1>0, <2>1, <2>4
    <3> QED BY <1>2, <2>2, <3>1 DEF RollbackEntryValid
  <2> QED BY <1>5, <2>2, <2>3, <2>4
<1>8. CASE UndoPromotion(p)
  <2>1. PICK r \in task[p].todo :
           \/ UNCHANGED <<dir, stage>>
           \/ /\ dir[r] = g
              /\ dir' = [dir EXCEPT ![r] = Absent]
              /\ stage' = [stage EXCEPT ![r][g] = g]
      BY <1>8 DEF UndoPromotion
  <2>2. UNCHANGED backup
      BY <1>8 DEF UndoPromotion
  <2>3. CASE ~UNCHANGED <<dir, stage>> /\ e = r
    <3>1. dir[e] = g /\ dir'[e] = Absent
        BY <1>0, <2>1, <2>3
    <3> QED BY <1>2, <1>4, <2>2, <3>1 DEF RollbackEntryValid
  <2>4. CASE ~UNCHANGED <<dir, stage>> /\ e # r
    <3>1. dir'[e] = dir[e] /\ stage'[e][g] = stage[e][g]
        BY <1>0, <2>1, <2>4
    <3> QED BY <1>2, <2>2, <3>1 DEF RollbackEntryValid
  <2> QED BY <1>5, <2>2, <2>3, <2>4
<1>9. CASE UndoBackup(p)
  <2>1. PICK r \in task[p].todo :
           \/ UNCHANGED <<dir, backup>>
           \/ /\ backup[r][g] # Absent
              /\ dir' = [dir EXCEPT ![r] = backup[r][g]]
              /\ backup' = [backup EXCEPT ![r][g] = Absent]
      BY <1>9 DEF UndoBackup
  <2>2. UNCHANGED stage
      BY <1>9 DEF UndoBackup
  <2>3. CASE ~UNCHANGED <<dir, backup>> /\ e = r
    <3>1. backup[e][g] # Absent /\ dir'[e] = backup[e][g] /\ backup'[e][g] = Absent
        BY <1>0, <2>1, <2>3
    <3>2. t.prev[e] # Absent /\ dir'[e] = t.prev[e]
        BY <1>2, <3>1 DEF RollbackEntryValid
    <3> QED BY <1>4, <3>1, <3>2 DEF RollbackEntryValid
  <2>4. CASE ~UNCHANGED <<dir, backup>> /\ e # r
    <3>1. dir'[e] = dir[e] /\ backup'[e][g] = backup[e][g]
        BY <1>0, <2>1, <2>4
    <3> QED BY <1>2, <2>2, <3>1 DEF RollbackEntryValid
  <2> QED BY <1>5, <2>2, <2>3, <2>4
<1> QED BY <1>6, <1>7, <1>8, <1>9

\* A new record of the coordinator is right about every entry.
LEMMA RecordedEntries ==
    ASSUME TypeOK, TxnInHand, Holding, Coordinated, Ages, NEW p \in Procs, Mine(p), RecordsStep(p),
           NEW d \in Journals, d = Recorded(pc[p], task[p].txn), NEW e \in d.roots
    PROVE  Entry(d, e)'
<1> DEFINE t == task[p].txn
<1>0. /\ pc[p] \in Recording /\ t \in Journals /\ journal \in [Roots -> Journals \cup {None}]
      /\ e \in Roots /\ d # None
    BY TxnOf, JournalFields DEF RecordsStep, Recording, TxnPcs, TypeOK
<1>1. d.gen = t.gen /\ d.lead = t.lead /\ d.roots = t.roots /\ d.prev = t.prev
    BY <1>0, RecordedIs
<1>2. UNCHANGED <<dir, stage, backup>> /\ journal' = [journal EXCEPT ![d.lead] = d]
    BY DEF RecordsStep
<1>3. CASE pc[p] = "finalize"
  <2>1. d.state = "finalized"
      BY <1>0, <1>3, RecordedIs
  <2> QED BY <2>1 DEF Entry
<1>4. CASE pc[p] # "finalize"
  <2>1. /\ t.lead \in t.roots /\ journal[t.lead] = t /\ Extent(task[p]) = t.roots
        /\ pc[p] \in {"publish", "verify_committed", "commit", "record_prepared"}
        /\ t.state = CASE pc[p] = "publish" -> "prepared"
                       [] pc[p] = "verify_committed" -> "committed"
                       [] OTHER -> "publishing"
      BY <1>4, RecordsOver
  <2>2. /\ Place(pc[p], task[p], e, dir[e], backup[e][t.gen])
        /\ Journalled(pc[p], task[p], e, journal[e])
      BY <1>1, <2>1 DEF Mine, Work, Sight, Exclusive, Worked, TxnPcs
  <2>3. pc[p] # "publish" => Entry(t, e)
      BY <1>1, <2>1, Agreed DEF Started, Promoting, Forward
  <2>4. SameTransaction(journal[e], t)
    <3>1. CASE pc[p] = "publish"
        BY <1>0, <2>2, <3>1, JournalFields DEF Journalled, SameTransaction
    <3>2. CASE pc[p] # "publish"
        BY <2>1, <2>3, <3>2 DEF Entry
    <3> QED BY <3>1, <3>2
  <2>5. SameTransaction(journal'[e], d)
      BY <1>0, <1>1, <1>2, <2>4 DEF SameTransaction
  <2>6. t.prev[e] # t.gen /\ t.gen # Absent
      BY <1>0, FoundOlder DEF Ages
  <2>7. CASE pc[p] = "publish"
    <3>0. d = Stated(t, "publishing")
        BY <2>7 DEF Recorded
    <3>1. d.state = "publishing"
        BY <1>0, <2>7, <3>0, StatedIs DEF States
    <3>2. dir[e] = d.prev[e] /\ backup[e][d.gen] = Absent
        BY <1>1, <2>2, <2>7 DEF Place
    <3>3. RollbackEntryValid(d, e)'
        BY <1>1, <1>2, <2>6, <3>2 DEF RollbackEntryValid
    <3> QED BY <2>5, <3>1, <3>3 DEF Entry
  <2>8. CASE pc[p] = "commit"
    <3>0. d = Stated(t, "committed")
        BY <2>8 DEF Recorded
    <3>1. d.state = "committed" /\ t.state = "publishing"
        BY <1>0, <2>1, <2>8, <3>0, StatedIs DEF States
    <3>2. dir[e] = d.gen
        BY <1>1, <2>2, <2>8 DEF Place
    <3>3. RollbackEntryValid(t, e)
        BY <2>3, <2>8, <3>1 DEF Entry
    <3>4. backup[e][d.gen] \in {Absent, d.prev[e]}
        BY <1>1, <3>3 DEF RollbackEntryValid
    <3> QED BY <1>2, <2>5, <3>1, <3>2, <3>4 DEF Entry
  <2>9. CASE pc[p] = "verify_committed"
    <3>0. d = Stated(t, "cleaning")
        BY <2>9 DEF Recorded
    <3>1. d.state = "cleaning" /\ t.state = "committed"
        BY <1>0, <2>1, <2>9, <3>0, StatedIs DEF States
    <3>2. dir[e] = d.gen
        BY <1>1, <2>3, <2>9, <3>1 DEF Entry
    <3> QED BY <1>2, <2>5, <3>1, <3>2 DEF Entry
  <2>10. CASE pc[p] = "record_prepared"
    <3>0. d = Stated(t, "prepared")
        BY <2>10 DEF Recorded
    <3>1. d.state = "prepared" /\ t.state = "publishing"
        BY <1>0, <2>1, <2>10, <3>0, StatedIs DEF States
    <3>2. dir[e] = t.prev[e]
        BY <2>2, <2>10 DEF Place
    <3>3. RollbackEntryValid(t, e)
        BY <2>3, <2>10, <3>1 DEF Entry
    <3>4. backup[e][t.gen] = Absent
        BY <2>6, <3>2, <3>3 DEF RollbackEntryValid
    <3> QED BY <1>1, <1>2, <3>1, <3>2, <3>4 DEF Entry
  <2> QED BY <2>1, <2>7, <2>8, <2>9, <2>10
<1> QED BY <1>3, <1>4

\* The coordinator keeps its record d while files beside an entry change.
LEMMA TouchedEntry ==
    ASSUME TypeOK, TxnInHand, Holding, Staged, Coordinated, Ages, Finals,
           NEW p \in Procs, Mine(p), Acts(p),
           NEW l \in Roots, NEW d \in Journals, journal[l] = d, journal'[l] = d, d.lead = l,
           NEW e \in d.roots, Entry(d, e),
           dir'[e] # dir[e] \/ journal'[e] # journal[e] \/ backup'[e] # backup[e]
    PROVE  Entry(d, e)'
<1> DEFINE t == task[p].txn
<1>0. /\ t \in Journals /\ e \in t.roots /\ pc[p] \in Exclusive /\ e \in Roots /\ d # None
      /\ journal[e] = None \/ SameTransaction(t, journal[e])
      /\ journal'[e] = None \/ SameTransaction(t, journal'[e])
      /\ journal \in [Roots -> Journals \cup {None}]
    BY ChangesOwn, JournalFields DEF TypeOK
<1>1. CASE ~SameTransaction(d, t)
  <2>1. ~SameTransaction(journal[e], d) /\ ~SameTransaction(journal'[e], d)
      BY <1>0, <1>1 DEF SameTransaction
  <2> QED BY <2>1 DEF Entry
<1>2. CASE SameTransaction(d, t)
  <2>0. t.lead = l
      BY <1>2 DEF SameTransaction
  <2>1. CASE RecordsStep(p)
    <3>1. Recorded(pc[p], t).lead = l
        BY <1>0, <2>0, <2>1, RecordedIs DEF RecordsStep
    <3>2. e = l
        BY <1>0, <2>1, <3>1 DEF RecordsStep
    <3> QED BY <2>1, <3>2 DEF RecordsStep
  <2>2. CASE PersistsStep(p)
    <3>1. /\ pc[p] = "persist" /\ IsFirst(e, task[p].todo) /\ journal'[e] = t
          /\ UNCHANGED <<dir, stage, backup>> /\ e # l
        BY <1>0, <2>2 DEF PersistsStep
    <3>2. IsFirst(l, Extent(task[p])) /\ Extent(task[p]) = t.roots /\ t.state = "prepared"
      <4>1. /\ IsFirst(t.lead, Extent(task[p])) /\ task[p].absent = {} /\ t.state = "prepared"
          BY <3>1 DEF Mine, Work, Local, Owning, StatesAt, Promoting, Worked, TxnPcs
      <4> QED BY <1>0, <2>0, <4>1, JournalFields DEF Extent
    <3>3. task[p].todo \subseteq Extent(task[p])
        BY <3>1 DEF Holding, Held, Scope, Worked, TxnPcs
    <3>4. l \notin task[p].todo
      <4>1. SUFFICES ASSUME l \in task[p].todo PROVE FALSE
          OBVIOUS
      <4>2. e <= l /\ l <= e /\ e \in Nat /\ l \in Nat
          BY <1>0, <3>1, <3>2, <3>3, <4>1, RootsAssumption DEF IsFirst
      <4> QED BY <3>1, <4>2
    <3>5. /\ Journalled("persist", task[p], l, journal[l])
          /\ Place("persist", task[p], e, dir[e], backup[e][t.gen])
        BY <1>0, <3>1, <3>2 DEF Mine, Work, Sight, IsFirst
    <3>6. d = t
        BY <3>4, <3>5 DEF Journalled
    <3>7. dir[e] = d.prev[e] /\ backup[e][d.gen] = Absent /\ d.state = "prepared"
        BY <3>2, <3>5, <3>6 DEF Place
    <3> QED BY <3>1, <3>7 DEF Entry
  <2>3. CASE RetiresStep(p)
    <3>1. pc[p] = "retire" /\ UNCHANGED <<dir, stage, backup>>
        BY <2>3 DEF RetiresStep
    <3>2. t.state = "finalized"
        BY <3>1 DEF Mine, Work, Local, StatesAt, Promoting, Worked, TxnPcs
    <3>3. Ended(t)
        BY DEF Finals
    <3>4. d.state = "finalized"
        BY <1>0, <1>2, <2>0, <3>2, <3>3 DEF Ended, SameTransaction
    <3> QED BY <3>4 DEF Entry
  <2>4. CASE UNCHANGED journal
    <3>1. PromoteBackup(p) \/ PromoteStage(p) \/ UndoPromotion(p) \/ UndoBackup(p) \/ Clean(p)
        BY <1>0, <2>4, MovingSteps
    <3>2. /\ pc[p] \in Started
          /\ Clean(p) => pc[p] = "clean"
          /\ ~Clean(p) => pc[p] \in Promoting
        BY <3>1 DEF PromoteBackup, PromoteStage, UndoPromotion, UndoBackup, Clean,
            Started, Promoting, Forward
    <3>3. d = t /\ Entry(t, e)
        BY <1>0, <2>0, <3>2, Agreed
    <3>4. CASE Clean(p)
      <4>1. d.state = "cleaning" /\ UNCHANGED dir
          BY <3>2, <3>3, <3>4 DEF Mine, Work, Local, StatesAt, Promoting, Worked, TxnPcs, Clean
      <4> QED BY <2>4, <4>1 DEF Entry
    <3>5. CASE ~Clean(p)
      <4>1. d.state = "publishing"
          BY <3>2, <3>3, <3>5 DEF Mine, Work, Local, StatesAt, Promoting, Worked, TxnPcs
      <4>2. RollbackEntryValid(d, e)'
          BY <3>1, <3>3, <3>5, MovesValid
      <4> QED BY <2>4, <4>1, <4>2 DEF Entry
    <3> QED BY <3>4, <3>5
  <2> QED BY <2>1, <2>2, <2>3, <2>4, JournalWrites
<1> QED BY <1>1, <1>2

LEMMA CoordinatedKept ==
    ASSUME TypeOK, TxnInHand, Holding, Staged, Coordinated, Ages, Unseens, Finals,
           NEW p \in Procs, Mine(p), Acts(p)
    PROVE  Coordinated'
<1> DEFINE t == task[p].txn
<1>0. journal \in [Roots -> Journals \cup {None}]
    BY DEF TypeOK
<1>1. ASSUME NEW l \in Roots, NEW d, journal'[l] = d, d # None, d.lead = l, NEW e \in d.roots
      PROVE  Entry(d, e)'
  <2>1. CASE journal[l] = d
    <3>1. d \in Journals /\ Entry(d, e) /\ e \in Roots /\ d.gen \in Gens
        BY <1>0, <1>1, <2>1, JournalFields DEF Coordinated
    <3>2. CASE dir'[e] # dir[e] \/ journal'[e] # journal[e] \/ backup'[e] # backup[e]
        BY <1>1, <2>1, <3>1, <3>2, TouchedEntry
    <3>3. CASE dir'[e] = dir[e] /\ journal'[e] = journal[e] /\ backup'[e] = backup[e]
      <4>1. CASE stage[e][d.gen] = Absent => stage'[e][d.gen] = Absent
          BY <3>1, <3>3, <4>1, EntryFrame
      <4>2. CASE Stage(p) /\ d.gen = t.gen
        <5>1. Unseen(p, t.gen)
            BY <4>2 DEF Unseens, Unwritten, Stage
        <5> QED BY <1>1, <2>1, <4>2, <5>1 DEF Unseen, Unrelated
      <4>3. CASE UndoPromotion(p)
        <5>1. pc[p] \in Promoting /\ pc[p] \in Started /\ pc[p] \in Exclusive
            BY <4>3 DEF UndoPromotion, Promoting, Started, Exclusive, Worked, TxnPcs
        <5>2. /\ t \in Journals /\ journal[t.lead] = t /\ \A x \in t.roots : Entry(t, x)
              /\ t.state = "publishing" /\ UNCHANGED journal
            BY <4>3, <5>1, Agreed DEF Mine, Work, Local, StatesAt, Promoting, Worked, TxnPcs,
                UndoPromotion
        <5>3. CASE t.lead = l
          <6>1. d = t
              BY <2>1, <5>2, <5>3
          <6>2. RollbackEntryValid(d, e)'
              BY <4>3, <5>2, <6>1, MovesValid
          <6>3. SameTransaction(journal'[e], d)
              BY <5>2, <6>1 DEF Entry
          <6> QED BY <5>2, <6>1, <6>2, <6>3 DEF Entry
        <5>4. CASE t.lead # l
          <6>1. CASE d.state = "publishing"
            <7>1. d.gen # t.gen \/ e \notin t.roots
              <8>1. SUFFICES ASSUME e \in t.roots PROVE d.gen # t.gen
                  OBVIOUS
              <8>2. SameTransaction(journal[e], t) /\ SameTransaction(journal[e], d)
                  BY <3>1, <5>2, <6>1, <8>1 DEF Entry
              <8> QED BY <1>1, <5>4, <8>2 DEF SameTransaction
            <7>2. PICK r \in task[p].todo : \/ UNCHANGED stage
                                            \/ \E c : stage' = [stage EXCEPT ![r][t.gen] = c]
                BY <4>3 DEF UndoPromotion
            <7>3. r \in t.roots
              <8>1. task[p].todo \subseteq Extent(task[p])
                  BY <5>1 DEF Holding, Held, Scope, Exclusive
              <8> QED BY <5>1, <8>1, Agreed
            <7>4. stage'[e][d.gen] = stage[e][d.gen]
                BY <3>1, <7>1, <7>2, <7>3 DEF TypeOK
            <7> QED BY <4>1, <7>4
          <6>2. CASE d.state # "publishing"
              BY <3>1, <3>3, <6>2 DEF Entry, SameTransaction
          <6> QED BY <6>1, <6>2
        <5> QED BY <5>3, <5>4
      <4> QED BY <3>1, <4>1, <4>2, <4>3, StageChanges
    <3> QED BY <3>2, <3>3
  <2>2. CASE journal[l] # d /\ RecordsStep(p)
    <3>1. pc[p] \in Recording /\ t \in Journals
        BY <2>2, TxnOf DEF RecordsStep, Recording, TxnPcs
    <3>2. d = Recorded(pc[p], t) /\ d \in Journals
        BY <1>0, <1>1, <2>2, <3>1, RecordedIs DEF RecordsStep
    <3> QED BY <1>1, <2>2, <3>2, RecordedEntries
  <2>3. CASE journal[l] # d /\ PersistsStep(p)
    <3>1. d = t /\ pc[p] = "persist" /\ UNCHANGED <<dir, stage, backup>>
        BY <1>0, <1>1, <2>3 DEF PersistsStep
    <3>2. task[p].absent = {} /\ t.state = "prepared" /\ t \in Journals
        BY <3>1, TxnOf DEF Mine, Work, Local, Owning, StatesAt, Promoting, Worked, TxnPcs
    <3>3. Extent(task[p]) = t.roots
        BY <3>2, JournalFields DEF Extent
    <3>4. Place("persist", task[p], e, dir[e], backup[e][t.gen])
        BY <1>1, <3>1, <3>3 DEF Mine, Work, Sight, Exclusive, Worked, TxnPcs
    <3> QED BY <3>1, <3>2, <3>4 DEF Entry, Place
  <2>4. CASE journal[l] # d /\ RetiresStep(p)
      BY <1>0, <1>1, <2>4 DEF RetiresStep
  <2> QED BY <1>1, <2>1, <2>2, <2>3, <2>4, JournalWrites
<1>2. ASSUME NEW l \in Roots, journal'[l] # None, journal'[l].lead = l, NEW e \in journal'[l].roots
      PROVE  \A d : d = journal'[l] => Entry(d, e)'
    BY <1>1, <1>2
<1>3. ASSUME NEW l \in Roots, journal'[l] # None, journal'[l].lead = l, NEW e \in journal'[l].roots
      PROVE  Entry(journal[l], e)'
    BY <1>2, <1>3 DEF Entry, RollbackEntryValid
<1> QED BY <1>3 DEF Coordinated

-----------------------------------------------------------------------------
(* The inductive invariant holds.                                             *)

LEMMA InitRecovers == ASSUME Init PROVE RInv
<1>1. \A p \in Procs : pc[p] = "idle" /\ task[p] = NoTask
    BY DEF Init
<1>2. Working
  <2>1. Purpose("idle", NoTask) /\ "idle" \in Plain
      BY NoTaskPurpose DEF Terminal
  <2> QED BY <1>1, <2>1, PlainWork DEF Working
<1>3. Coordinated /\ Beside
    BY DEF Init, Coordinated, Beside
<1>4. Ages
  <2>1. \A r \in Roots : journal[r] = None /\ dir[r] \in {0, Absent}
      BY DEF Init
  <2>2. nextGen = 1 /\ \A r \in Roots : \A g \in Gens : backup[r][g] = Absent
      BY DEF Init
  <2> QED BY <1>1, <2>1, <2>2, Numbers DEF Ages, Older, NoTask
<1>5. Unseens
    BY <1>1 DEF Unseens, Unwritten
<1>6. Finals
    BY <1>1 DEF Init, Finals, Ended, NoTask
<1> QED BY <1>2, <1>3, <1>4, <1>5, <1>6 DEF RInv

LEMMA StepRecovers ==
    ASSUME TypeOK, TxnInHand, LockExclusion, IInv, RInv, [Next]_vars
    PROVE  RInv'
<1>1. ASSUME NEW p \in Procs, Acts(p) PROVE RInv'
  <2>1. Mine(p)
      BY DEF RInv, Working, Mine
  <2>2. Working'
      BY <1>1, WorkingKept
  <2>3. Coordinated'
      BY <1>1, <2>1, CoordinatedKept DEF RInv, IInv
  <2>4. Beside'
      BY <1>1, BesideKept DEF RInv, IInv
  <2>5. Ages'
      BY <1>1, AgesKept DEF RInv, IInv
  <2>6. Unseens'
      BY <1>1, UnseensKept
  <2>7. Finals'
      BY <1>1, <2>1, FinalsKept DEF RInv, IInv
  <2> QED BY <2>2, <2>3, <2>4, <2>5, <2>6, <2>7 DEF RInv
<1>2. ASSUME UNCHANGED <<fs, pc, task, nextGen>> PROVE RInv'
  <2>1. /\ dir' = dir /\ stage' = stage /\ backup' = backup /\ journal' = journal
        /\ pc' = pc /\ task' = task /\ nextGen' = nextGen
      BY <1>2 DEF fs
  <2>2. Working' /\ Beside' /\ Finals'
      BY <2>1 DEF RInv, Working, Beside, Finals, Ended
  <2>3. Coordinated'
      BY <2>1 DEF RInv, Coordinated, Entry, RollbackEntryValid
  <2>4. Ages' /\ Unseens'
      BY <2>1 DEF RInv, Ages, Older, Unseens, Unseen, Unrelated
  <2> QED BY <2>2, <2>3, <2>4 DEF RInv
<1>3. CASE \E p \in Procs : Acts(p)
    BY <1>1, <1>3
<1>4. CASE \E r \in Roots : MoveAway(r) \/ MoveBack(r)
    BY <1>2, <1>4 DEF MoveAway, MoveBack
<1>5. CASE UNCHANGED vars
    BY <1>2, <1>5 DEF vars
<1> QED BY <1>3, <1>4, <1>5 DEF Next, Acts

\* The coordinator's journal tells the truth about every entry of its transaction,
\* and every running call finds its entries as its next step relies on.
THEOREM RecoveryInvariantHolds == Spec => []RInv
<1>1. Init => RInv
    BY InitRecovers
<1>2. TypeOK /\ TxnInHand /\ LockExclusion /\ IInv /\ RInv /\ [Next]_vars => RInv'
    BY StepRecovers
<1> QED BY <1>1, <1>2, TypeCorrect, LocksExclude, InvariantHolds, PTL DEF Spec

-----------------------------------------------------------------------------
(* What the invariant says of the outputs.                                    *)

\* The coordinator's record of a journal found beside r.
LEMMA DecisionIs ==
    ASSUME TypeOK, Records, Coordinated, Beside, NEW r \in Roots,
           SameTransaction(journal[r], Decision(r))
    PROVE  LET d == Decision(r) IN
           /\ d \in Journals /\ r \in d.roots /\ Entry(d, r)
           /\ d = journal[d.lead] /\ d.lead \in Roots /\ d.lead \in d.roots
           /\ \A e \in d.roots : Entry(d, e)
<1> DEFINE j == journal[r]
           d == journal[j.lead]
<1>1. j # None /\ d # None /\ Decision(r) = d /\ d.lead = j.lead /\ d.roots = j.roots
    BY DEF SameTransaction, Decision
<1>2. j \in Journals /\ d \in Journals /\ j.lead \in Roots
    BY <1>1, JournalFields DEF TypeOK
<1>3. r \in d.roots /\ d.lead \in d.roots
    BY <1>1, <1>2 DEF Beside, Records, Sound
<1>4. \A e \in d.roots : Entry(d, e)
    BY <1>1, <1>2 DEF Coordinated
<1> QED BY <1>1, <1>2, <1>3, <1>4

\* Whatever is interrupted, the last good output of every root of a transaction
\* is at the root or in the backup until the commit decision is durable, and the
\* new one is at the root from then on.
THEOREM LastGoodOutputKept == Spec => []LastGoodKept
<1>1. ASSUME TypeOK, Records, Coordinated, Beside PROVE LastGoodKept
  <2>1. ASSUME NEW r \in Roots, Decided(r, {"publishing"}), journal[r].prev[r] # Absent
        PROVE  journal[r].prev[r] \in {dir[r], backup[r][journal[r].gen]}
    <3>1. SameTransaction(journal[r], Decision(r)) /\ Decision(r).state = "publishing"
        BY <2>1 DEF Decided
    <3>2. RollbackEntryValid(Decision(r), r)
        BY <1>1, <3>1, DecisionIs DEF Entry
    <3>3. Decision(r).gen = journal[r].gen /\ Decision(r).prev = journal[r].prev
        BY <3>1 DEF SameTransaction
    <3> QED BY <2>1, <3>2, <3>3 DEF RollbackEntryValid
  <2>2. ASSUME NEW r \in Roots, Decided(r, {"committed", "cleaning"}) PROVE dir[r] = journal[r].gen
    <3>1. SameTransaction(journal[r], Decision(r)) /\ Decision(r).state \in {"committed", "cleaning"}
        BY <2>2 DEF Decided
    <3>2. dir[r] = Decision(r).gen
        BY <1>1, <3>1, DecisionIs DEF Entry
    <3> QED BY <3>1, <3>2 DEF SameTransaction
  <2> QED BY <2>1, <2>2 DEF LastGoodKept
<1>2. TypeOK /\ IInv /\ RInv => LastGoodKept
    BY <1>1 DEF IInv, RInv
<1> QED BY <1>2, TypeCorrect, InvariantHolds, RecoveryInvariantHolds, PTL

\* A publication whose journals are all written, or that is finalized, is found
\* by Recover as one of the cases it repairs: no step of any process, and no
\* crash, leaves it in a state that Recover refuses.
THEOREM StartedPublicationsRepairable == Spec => []StartedIsRepairable
<1>1. ASSUME TypeOK, Records, Coordinated, Beside PROVE StartedIsRepairable
  <2>1. ASSUME NEW r \in Roots \ away, journal[r] # None, journal[r].roots \cap away = {},
               \/ Decided(r, {"finalized"})
               \/ \A e \in journal[r].roots : SameTransaction(journal[r], journal[e])
        PROVE  Repairable(r)
    <3> DEFINE j == journal[r]
               d == Decision(r)
    <3>1. d = journal[j.lead] /\ j \in Journals /\ j.lead \in j.roots
        BY <1>1, <2>1 DEF Decision, TypeOK, Records, Sound
    <3>2. SameTransaction(j, d)
        BY <2>1, <3>1 DEF Decided
    <3>3. d \in Journals /\ d.roots = j.roots /\ d.state \in States
          /\ \A e \in d.roots : Entry(d, e)
        BY <1>1, <3>2, DecisionIs, JournalFields DEF SameTransaction
    <3>4. CASE d.state = "finalized"
        BY <3>2, <3>4 DEF Repairable
    <3>5. CASE d.state # "finalized"
      <4>1. \A e \in d.roots : SameTransaction(journal[e], d) /\ SameTransaction(d, journal[e])
          BY <2>1, <3>2, <3>3, <3>5 DEF Decided, SameTransaction
      <4>2. PeersAgree(d)
          BY <2>1, <3>3, <4>1 DEF PeersAgree, ReadJournal
      <4>3. CASE d.state = "prepared"
          BY <3>2, <3>3, <4>1, <4>2, <4>3 DEF Repairable, Entry
      <4>4. CASE d.state = "publishing"
          BY <3>2, <3>3, <4>2, <4>4 DEF Repairable, Entry
      <4>5. CASE d.state = "committed"
          BY <3>2, <3>3, <4>2, <4>5 DEF Repairable, Entry
      <4>6. CASE d.state = "cleaning"
          BY <3>2, <3>3, <4>2, <4>6 DEF Repairable, Entry
      <4> QED BY <3>3, <3>5, <4>3, <4>4, <4>5, <4>6 DEF States
    <3> QED BY <3>4, <3>5
  <2> QED BY <2>1 DEF StartedIsRepairable
<1>2. TypeOK /\ IInv /\ RInv => StartedIsRepairable
    BY <1>1 DEF IInv, RInv
<1> QED BY <1>2, TypeCorrect, InvariantHolds, RecoveryInvariantHolds, PTL

-----------------------------------------------------------------------------
(* What UpdateMany returns.                                                   *)

\* An update returns nil only from its last removal of a journal, and an error
\* that promises nothing happened only once its directories have been checked, or
\* with its transaction never written.
LEMMA UpdateReturnsFrom ==
    ASSUME TypeOK, TxnInHand, Holding, Present, NEW p \in Procs, Mine(p), Acts(p),
           NEW result \in {"ok", "failed"}, UpdateReturns(p, result)
    PROVE  \/ result = "failed" /\ Discard(p)
           \/ /\ Finalize(p) \/ Retire(p)
              /\ task[p].mode = "finish" <=> result = "ok"
              /\ result = "failed" => task[p].mode \in {"abandon", "undo"}
              /\ result = "ok" => Retire(p) /\ \E r \in task[p].todo :
                     /\ task[p].todo = {r} /\ IsLast(r, task[p].todo)
                     /\ journal' = IF SameTransaction(task[p].txn, ReadJournal(r))
                                   THEN [journal EXCEPT ![r] = None] ELSE journal
<1>0. /\ pc[p] \notin Terminal /\ pc'[p] = result /\ task[p].kind = "update"
      /\ task[p].queue = {} /\ task[p].txn # None /\ result \in Terminal
      /\ result # "recovery_required" /\ result # "idle"
    BY DEF UpdateReturns, Terminal
<1>1. /\ pc[p] \notin {"recover", "decision", "lock_recovery", "lock_finalized", "recheck_recovery"}
      /\ pc[p] \notin Beginning \cup Readers
      /\ pc[p] \in Cleanup => task[p].mode \notin {"none", "recover"}
    BY <1>0 DEF Mine, Work, Purpose, Holding, Held, Scope
<1>2. CASE Start(p) \/ RecoverStep(p) \/ ReadStep(p)
    BY <1>0, <1>1, <1>2 DEF Start, RecoverStep, ReadStep, RecoverReadLocal, RecoverReadDecision,
        RecoverLock, RecoverLockFails, RecoverRecheck, ReadInit, ReadWait, ReadLock, ReadCheck, Read,
        ReadDone
<1>3. CASE Cancel(p) \/ Crash(p)
  <2>1. CASE Crash(p)
      BY <1>0, <2>1, ReturnAfter DEF Crash, Terminal
  <2>2. CASE Cancel(p)
    <3>1. pc[p] = "excl_lock" /\ Goto(p, "discard")
        BY <1>1, <2>2 DEF Cancel
    <3> QED BY <1>0, <3>1, GotoAfter DEF Terminal
  <2> QED BY <1>3, <2>1, <2>2
<1>4. CASE UpdateStep(p)
  <2>1. CASE WriterLock(p) \/ SharedLock(p) \/ Inspect(p) \/ Prepare(p)
      BY <1>1, <2>1 DEF WriterLock, SharedLock, Inspect, Prepare
  <2>2. CASE Stage(p) \/ Validate(p) \/ ExclLock(p)
    <3>1. pc'[p] \in {"stage", "validate", "excl_lock", "discard", "recheck"}
      <4>1. CASE Stage(p)
          BY <4>1, LoopGoes, GotoAfter DEF Stage
      <4>2. CASE Validate(p)
          BY <4>2, GotoAfter DEF Validate
      <4>3. CASE ExclLock(p)
          BY <4>3, LoopGoes DEF ExclLock
      <4> QED BY <2>2, <4>1, <4>2, <4>3
    <3> QED BY <1>0, <3>1 DEF Terminal
  <2>3. CASE Recheck(p) \/ Persist(p) \/ PromoteBackup(p) \/ PromoteStage(p)
    <3>1. pc'[p] \in {"persist", "discard", "publish", "verify_prepared", "promote_stage", "commit",
                      "promote_backup", "verify_rollback"}
      <4>1. CASE Recheck(p)
          BY <4>1, GotoAfter DEF Recheck
      <4>2. CASE Persist(p)
          BY <4>2, LoopGoes, GotoAfter DEF Persist
      <4>3. CASE PromoteBackup(p) \/ PromoteStage(p)
          BY <4>3, GotoAfter DEF PromoteBackup, PromoteStage, Undo
      <4> QED BY <2>3, <4>1, <4>2, <4>3
    <3> QED BY <1>0, <3>1 DEF Terminal
  <2>4. CASE Discard(p)
    <3>1. PICK r \in task[p].todo : Return(p, "failed") \/ Loop(p, r, "discard")
        BY <2>4 DEF Discard
    <3>2. pc[p] = "discard"
        BY <2>4 DEF Discard
    <3> QED BY <1>0, <2>4, <3>1, <3>2, ReturnAfter, LoopGoes DEF Terminal
  <2>5. CASE Publish(p)
    <3>1. \/ pc'[p] = "promote_backup"
          \/ Return(p, IF task[p].mode = "abandon" /\ FALSE THEN "failed" ELSE "recovery_required")
        BY <2>5, GotoAfter DEF Publish, RecordDecision, CleanupFailed
    <3> QED BY <1>0, <3>1, ReturnAfter DEF Terminal
  <2>6. CASE Commit(p)
      BY <1>0, <2>6, ReturnAfter, GotoAfter DEF Commit, Undo, Terminal
  <2> QED BY <1>4, <2>1, <2>2, <2>3, <2>4, <2>5, <2>6 DEF UpdateStep
<1>5. CASE CleanupStep(p)
  <2>0. /\ ~CleanupFailed(p, FALSE)
        /\ CleanupFailed(p, TRUE) => result = "failed" /\ task[p].mode = "abandon"
      BY <1>0, ReturnAfter DEF CleanupFailed, Terminal
  <2>1. CASE VerifyPrepared(p) \/ DropStage(p) \/ VerifyRollback(p) \/ UndoPromotion(p) \/ UndoBackup(p)
             \/ VerifyCleaning(p) \/ Clean(p)
    <3>1. pc[p] \in Cleanup /\ pc'[p] \in {"drop_stage", "finalize", "undo_promotion", "undo_backup",
                                          "record_prepared", "clean"}
      <4>1. CASE VerifyPrepared(p) \/ VerifyRollback(p) \/ VerifyCleaning(p)
          BY <2>0, <4>1, GotoAfter DEF VerifyPrepared, VerifyRollback, VerifyCleaning, Cleanup, Backward,
              Forward
      <4>2. CASE DropStage(p) \/ Clean(p)
          BY <2>0, <4>2, LoopGoes DEF DropStage, Clean, Cleanup, Backward, Forward
      <4>3. CASE UndoPromotion(p) \/ UndoBackup(p)
          BY <2>0, <4>3, GotoAfter DEF UndoPromotion, UndoBackup, Cleanup, Backward, Forward
      <4> QED BY <2>1, <4>1, <4>2, <4>3
    <3> QED BY <1>0, <3>1 DEF Terminal
  <2>2. CASE RecordPrepared(p) \/ VerifyCommitted(p)
    <3>1. pc'[p] \in {"verify_prepared", "verify_cleaning"} \/ CleanupFailed(p, FALSE)
        BY <2>2, GotoAfter DEF RecordPrepared, VerifyCommitted, RecordDecision
    <3> QED BY <1>0, <2>0, <3>1 DEF Terminal
  <2>3. CASE Finalize(p)
    <3>1. pc'[p] = "retire" \/ CleanupFailed(p, TRUE)
        BY <2>3, GotoAfter DEF Finalize, RecordDecision
    <3> QED BY <1>0, <2>0, <2>3, <3>1 DEF Terminal
  <2>4. CASE Retire(p)
    <3>1. PICK r \in task[p].todo :
             /\ IsLast(r, task[p].todo)
             /\ \/ /\ journal' = IF SameTransaction(task[p].txn, ReadJournal(r))
                                 THEN [journal EXCEPT ![r] = None] ELSE journal
                   /\ IF task[p].todo = {r} THEN Retired(p) ELSE Loop(p, r, "retire")
                \/ CleanupFailed(p, TRUE)
        BY <2>4 DEF Retire, Write
    <3>2. pc[p] = "retire" /\ task[p].mode \in {"abandon", "undo", "finish"}
        BY <1>1, <2>4, TaskOf, TasksFields DEF Retire, Cleanup
    <3>3. CASE CleanupFailed(p, TRUE)
        BY <2>0, <2>4, <3>3
    <3>4. CASE Loop(p, r, "retire")
        BY <1>0, <3>2, <3>4, LoopGoes DEF Terminal
    <3>5. CASE Retired(p) /\ task[p].todo = {r} /\ ~CleanupFailed(p, TRUE)
      <4>1. Return(p, IF task[p].mode = "finish" THEN "ok" ELSE "failed")
          BY <3>2, <3>5 DEF Retired
      <4>2. result = IF task[p].mode = "finish" THEN "ok" ELSE "failed"
          BY <1>0, <4>1, ReturnAfter
      <4> QED BY <2>4, <3>1, <3>2, <3>5, <4>2
    <3> QED BY <3>1, <3>3, <3>4, <3>5
  <2> QED BY <1>5, <2>1, <2>2, <2>3, <2>4 DEF CleanupStep
<1> QED BY <1>2, <1>3, <1>4, <1>5 DEF Acts, Step

\* When an update returns nil, every root holds its output and no journal is left.
LEMMA DoneIsPublished ==
    ASSUME TypeOK, TxnInHand, Holding, Present, NEW p \in Procs, Mine(p), Acts(p),
           UpdateReturns(p, "ok"), NEW e \in task[p].txn.roots
    PROVE  dir'[e] = task[p].txn.gen /\ journal'[e] = None
<1> DEFINE t == task[p].txn
<1>1. /\ Retire(p) /\ task[p].mode = "finish" /\ pc[p] = "retire"
      /\ UNCHANGED dir
    BY UpdateReturnsFrom DEF Retire
<1>2. PICK r \in task[p].todo : /\ task[p].todo = {r}
                                /\ journal' = IF SameTransaction(t, ReadJournal(r))
                                              THEN [journal EXCEPT ![r] = None] ELSE journal
    BY UpdateReturnsFrom
<1>3. t \in Journals /\ t # None
    BY <1>1, TxnOf, JournalFields DEF TxnPcs
<1>4. task[p].absent = {} /\ t.roots = task[p].roots /\ task[p].kind = "update"
    BY <1>1 DEF Mine, Work, Local, OwnClosing, Cleanup
<1>5. e \in Extent(task[p]) /\ e \in Roots /\ e \notin away
    BY <1>3, <1>4, JournalFields DEF Extent, Present
<1>6. /\ Place("retire", task[p], e, dir[e], backup[e][t.gen])
      /\ Journalled("retire", task[p], e, journal[e])
    BY <1>1, <1>5 DEF Mine, Work, Sight, Exclusive, Worked, TxnPcs
<1>7. dir[e] = t.gen
    BY <1>1, <1>6 DEF Place, Closing
<1>8. journal[e] = None \/ (SameTransaction(t, journal[e]) /\ e = r)
  <2>1. "retire" \in Closing /\ OwnClosing(task[p])
      BY <1>1 DEF Closing, OwnClosing
  <2>2. journal[e] = None \/ (SameTransaction(t, journal[e]) /\ e \in task[p].todo)
      BY <1>6, <2>1 DEF Journalled
  <2> QED BY <1>2, <2>2
<1>9. journal'[e] = None
    BY <1>2, <1>5, <1>8 DEF TypeOK, ReadJournal
<1> QED BY <1>1, <1>7, <1>9

\* When it returns an error that promises nothing happened, no root shows it.
LEMMA FailedIsUnpublished ==
    ASSUME TypeOK, TxnInHand, Holding, Present, Ages, Unseens, NEW p \in Procs, Mine(p), Acts(p),
           UpdateReturns(p, "failed"), NEW t \in Journals, t = task[p].txn, NEW e \in t.roots
    PROVE  Current(e)' # t.gen
<1>0. e \in Roots
    BY JournalFields
<1>1. SUFFICES dir'[e] # t.gen /\ (journal'[e] # None => journal'[e].prev[e] # t.gen)
    BY DEF Current, Decided, SameTransaction
<1>2. CASE Discard(p)
  <2>1. Unseen(p, t.gen) /\ UNCHANGED <<dir, journal>>
      BY <1>2 DEF Discard, Unseens, Unwritten
  <2> QED BY <1>0, <2>1 DEF Unseen, Unrelated
<1>3. CASE ~Discard(p)
  <2>1. /\ pc[p] \in {"finalize", "retire"} /\ task[p].mode \in {"abandon", "undo"} /\ UNCHANGED dir
      BY <1>3, UpdateReturnsFrom DEF Finalize, Retire
  <2>2. task[p].absent = {}
      BY <2>1 DEF Mine, Work, Local, OwnClosing, Cleanup
  <2>3. e \in Extent(task[p])
      BY <2>2, JournalFields DEF Extent
  <2>4. /\ Place(pc[p], task[p], e, dir[e], backup[e][t.gen])
        /\ Journalled(pc[p], task[p], e, journal[e])
      BY <2>1, <2>3 DEF Mine, Work, Sight, Exclusive, Worked, TxnPcs
  <2>5. dir[e] = t.prev[e]
      BY <2>1, <2>4 DEF Place, Closing
  <2>6. journal[e] = None \/ journal[e].prev = t.prev
      BY <2>1, <2>4 DEF Journalled, Closing, OwnClosing, SameTransaction
  <2>7. journal'[e] = None \/ journal'[e].prev = t.prev
      BY <1>0, <2>6, StepWrites DEF SameRecord
  <2>8. t.prev[e] # t.gen
      BY <1>0, FoundOlder DEF Ages
  <2> QED BY <2>1, <2>5, <2>7, <2>8
<1> QED BY <1>2, <1>3

\* nil from UpdateMany means that every output is the new one and nothing is left
\* to recover; an error other than ErrRecoveryRequired means that no output is.
THEOREM ResultsAreHonest == Spec => ResultsHonest
<1> DEFINE Honest == \A p \in Procs :
        LET t == task[p].txn IN
        /\ UpdateReturns(p, "ok") =>
              \A r \in t.roots : dir'[r] = t.gen /\ journal'[r] = None
        /\ UpdateReturns(p, "failed") =>
              \A r \in t.roots : Current(r)' # t.gen
<1>1. ASSUME TypeOK, TxnInHand, Holding, Present, RInv, [Next]_vars PROVE [Honest]_vars
  <2> SUFFICES ASSUME NEW p \in Procs, UpdateReturns(p, "ok") \/ UpdateReturns(p, "failed")
               PROVE  /\ UpdateReturns(p, "ok") =>
                            \A r \in task[p].txn.roots :
                                dir'[r] = task[p].txn.gen /\ journal'[r] = None
                      /\ UpdateReturns(p, "failed") =>
                            \A r \in task[p].txn.roots : Current(r)' # task[p].txn.gen
      OBVIOUS
  <2>1. pc'[p] # pc[p] /\ task[p].txn # None
      BY DEF UpdateReturns, Terminal
  <2>2. Acts(p)
    <3>1. ~UNCHANGED pc
        BY <2>1
    <3>2. PICK q \in Procs : Acts(q)
        BY <1>1, <3>1 DEF Next, Acts, vars, MoveAway, MoveBack
    <3> QED BY <1>1, <2>1, <3>2, OnlyOwn
  <2>3. Mine(p)
      BY <1>1 DEF RInv, Working, Mine
  <2>4. task[p].txn \in Journals
      BY <1>1, <2>1, TaskOf, TasksFields
  <2>5. UpdateReturns(p, "ok") =>
            \A r \in task[p].txn.roots : dir'[r] = task[p].txn.gen /\ journal'[r] = None
      BY <1>1, <2>2, <2>3, DoneIsPublished
  <2>6. UpdateReturns(p, "failed") => \A r \in task[p].txn.roots : Current(r)' # task[p].txn.gen
      BY <1>1, <2>2, <2>3, <2>4, FailedIsUnpublished DEF RInv
  <2> QED BY <2>5, <2>6
<1>2. TypeOK /\ TxnInHand /\ IInv /\ RInv /\ [Next]_vars => [Honest]_vars
    BY <1>1 DEF IInv
<1> HIDE DEF Honest
<1>3. Spec => [][Honest]_vars
    BY <1>2, TypeCorrect, InvariantHolds, RecoveryInvariantHolds, PTL DEF Spec
<1> QED BY <1>3 DEF ResultsHonest, Honest

-----------------------------------------------------------------------------
(* The protocol implements AtomicPublication.                                 *)

\* A record of the coordinator changes what is published at no other root, and at
\* its own exactly when it is the commit decision.
LEMMA RecordsPublish ==
    ASSUME TypeOK, TxnInHand, Holding, Coordinated, Beside, NEW p \in Procs, Mine(p), RecordsStep(p),
           NEW r \in Roots
    PROVE  LET t == task[p].txn IN
           Current(r)' = IF pc[p] = "commit" /\ r \in t.roots THEN t.gen ELSE Current(r)
<1> DEFINE t == task[p].txn
           l == t.lead
           u == Recorded(pc[p], t)
<1>0. /\ pc[p] \in Recording /\ t \in Journals /\ t # None /\ l \in Roots
      /\ journal \in [Roots -> Journals \cup {None}]
    BY TxnOf, JournalFields DEF RecordsStep, Recording, TxnPcs, TypeOK
<1>1. /\ u # None /\ u.gen = t.gen /\ u.lead = l /\ u.roots = t.roots /\ u.prev = t.prev
      /\ journal' = [journal EXCEPT ![l] = u] /\ UNCHANGED dir
    BY <1>0, RecordedIs DEF RecordsStep
<1>2. /\ journal[l] = None \/ journal[l] = t
      /\ t.state = "publishing" => journal[l] = t
      /\ l \in t.roots /\ l \in Extent(task[p])
  <2>1. CASE pc[p] = "finalize"
    <3>1. l \in Extent(task[p]) /\ t.state # "publishing"
        BY <2>1 DEF Holding, Held, Scope, Worked, TxnPcs, Mine, Work, Local, StatesAt, Promoting
    <3>2. journal[l] \in {t, None}
        BY <2>1, <3>1 DEF Mine, Work, Sight, Journalled, Exclusive, Worked, TxnPcs
    <3> QED BY <1>0, <3>1, <3>2 DEF Extent
  <2>2. CASE pc[p] # "finalize"
      BY <2>2, RecordsOver
  <2> QED BY <2>1, <2>2
<1>3. CASE r \notin t.roots
  <2>1. journal'[r] = journal[r] /\ r # l
      BY <1>0, <1>1, <1>2, <1>3
  <2>2. journal[r] # None => journal[r] \in Journals /\ journal[r].lead \in Roots
                             /\ r \in journal[r].roots
      BY <1>0, JournalFields DEF Beside
  <2>3. Decided(r, {"publishing"})' = Decided(r, {"publishing"})
    <3>1. CASE journal[r] = None
        BY <2>1, <3>1 DEF Decided, SameTransaction
    <3>2. CASE journal[r] # None /\ journal[r].lead = l
      <4>1. ~SameTransaction(journal[r], journal[l]) /\ ~SameTransaction(journal[r], u)
          BY <1>1, <1>2, <1>3, <2>2, <3>2 DEF SameTransaction
      <4>2. Decision(r) = journal[l] /\ Decision(r)' = u
          BY <1>0, <1>1, <2>1, <3>2 DEF Decision
      <4>3. ~Decided(r, {"publishing"})
          BY <4>1, <4>2 DEF Decided
      <4>4. ~Decided(r, {"publishing"})'
          BY <2>1, <4>1, <4>2 DEF Decided
      <4> QED BY <4>3, <4>4 DEF Decided
    <3>3. CASE journal[r] # None /\ journal[r].lead # l
      <4>1. Decision(r)' = Decision(r)
          BY <1>0, <1>1, <2>1, <2>2, <3>3 DEF Decision
      <4> QED BY <2>1, <4>1 DEF Decided
    <3> QED BY <3>1, <3>2, <3>3
  <2> QED BY <1>1, <1>3, <2>1, <2>3 DEF Current
<1>4. CASE r \in t.roots /\ pc[p] \in {"publish", "verify_committed", "commit", "record_prepared"}
  <2>1. /\ journal[l] = t /\ Extent(task[p]) = t.roots
        /\ t.state = CASE pc[p] = "publish" -> "prepared"
                       [] pc[p] = "verify_committed" -> "committed"
                       [] OTHER -> "publishing"
      BY <1>4, RecordsOver
  <2>2. /\ Place(pc[p], task[p], r, dir[r], backup[r][t.gen])
        /\ Journalled(pc[p], task[p], r, journal[r])
      BY <1>4, <2>1 DEF Mine, Work, Sight, Exclusive, Worked, TxnPcs
  <2>3. SameTransaction(journal[r], t)
    <3>1. CASE pc[p] = "publish"
        BY <1>0, <2>2, <3>1 DEF Journalled, SameTransaction
    <3>2. CASE pc[p] # "publish"
      <4>1. pc[p] \in Started /\ t.state \in {"publishing", "committed"}
          BY <1>4, <2>1, <3>2 DEF Started, Promoting, Forward
      <4> QED BY <1>4, <4>1, Agreed DEF Entry
    <3> QED BY <3>1, <3>2
  <2>4. Decision(r) = t
      BY <1>0, <2>1, <2>3 DEF Decision, SameTransaction
  <2>5. Decision(r)' = u /\ SameTransaction(journal'[r], u) /\ journal'[r].prev = t.prev
      BY <1>0, <1>1, <2>3 DEF Decision, SameTransaction
  <2>6. Current(r) = IF t.state = "publishing" THEN t.prev[r] ELSE dir[r]
      BY <2>3, <2>4 DEF Current, Decided, SameTransaction
  <2>7. Current(r)' = IF u.state = "publishing" THEN t.prev[r] ELSE dir[r]
      BY <1>1, <2>5 DEF Current, Decided
  <2>8. CASE pc[p] = "publish"
    <3>1. u.state = "publishing" /\ t.state = "prepared" /\ dir[r] = t.prev[r]
        BY <1>0, <2>1, <2>2, <2>8, StatedIs DEF Recorded, Place, Stated
    <3> QED BY <2>6, <2>7, <2>8, <3>1
  <2>9. CASE pc[p] = "commit"
    <3>1. u.state = "committed" /\ dir[r] = t.gen
        BY <1>0, <2>2, <2>9, StatedIs DEF Recorded, Place, Stated
    <3> QED BY <1>4, <2>7, <2>9, <3>1
  <2>10. CASE pc[p] = "verify_committed"
    <3>1. u.state = "cleaning" /\ t.state = "committed"
        BY <1>0, <2>1, <2>10, StatedIs DEF Recorded, Stated
    <3> QED BY <2>6, <2>7, <2>10, <3>1
  <2>11. CASE pc[p] = "record_prepared"
    <3>1. u.state = "prepared" /\ t.state = "publishing" /\ dir[r] = t.prev[r]
        BY <1>0, <2>1, <2>2, <2>11, StatedIs DEF Recorded, Place, Stated
    <3> QED BY <2>6, <2>7, <2>11, <3>1
  <2> QED BY <1>4, <2>8, <2>9, <2>10, <2>11
<1>5. CASE r \in t.roots /\ pc[p] = "finalize"
  <2>1. u.state = "finalized" /\ t.state \in {"prepared", "cleaning"}
      BY <1>0, <1>5, RecordedIs DEF Mine, Work, Local, StatesAt, Promoting, Worked, TxnPcs
  <2>2. CASE journal[r] = None /\ r # l
    <3>1. journal'[r] = None
        BY <1>0, <1>1, <2>2
    <3> QED BY <1>1, <1>5, <2>2, <3>1 DEF Current, Decided, SameTransaction
  <2>3. CASE r = l
    <3>1. ~Decided(r, {"publishing"})
        BY <1>2, <2>1, <2>3 DEF Decided, Decision, SameTransaction
    <3>2. journal'[r] = u /\ Decision(r)' = u
        BY <1>0, <1>1, <2>3 DEF Decision
    <3>3. ~Decided(r, {"publishing"})'
        BY <2>1, <3>2 DEF Decided
    <3> QED BY <1>1, <1>5, <3>1, <3>3 DEF Current
  <2>4. CASE journal[r] # None /\ r # l
    <3>1. journal'[r] = journal[r] /\ journal[r].lead \in Roots
        BY <1>0, <1>1, <2>4, JournalFields
    <3>2. CASE journal[r].lead = l
      <4>1. Decision(r) = journal[l] /\ Decision(r)' = u
          BY <1>0, <1>1, <2>4, <3>1, <3>2 DEF Decision
      <4>2. ~Decided(r, {"publishing"})
          BY <1>2, <2>1, <4>1 DEF Decided, SameTransaction
      <4>3. ~Decided(r, {"publishing"})'
          BY <2>1, <4>1 DEF Decided
      <4> QED BY <1>1, <1>5, <4>2, <4>3 DEF Current
    <3>3. CASE journal[r].lead # l
      <4>1. Decision(r)' = Decision(r)
          BY <1>0, <1>1, <2>4, <3>1, <3>3 DEF Decision
      <4> QED BY <1>1, <1>5, <3>1, <4>1 DEF Current, Decided
    <3> QED BY <3>2, <3>3
  <2> QED BY <2>2, <2>3, <2>4
<1> QED BY <1>0, <1>3, <1>4, <1>5 DEF Recording

\* No other step changes what is published: until the commit decision the roots of
\* a transaction count as what they were.
LEMMA OthersPublishNothing ==
    ASSUME TypeOK, TxnInHand, Holding, Coordinated, Beside, Finals, NEW p \in Procs, Mine(p), Acts(p),
           ~RecordsStep(p), NEW r \in Roots
    PROVE  Current(r)' = Current(r)
<1> DEFINE t == task[p].txn
           d == journal[journal[r].lead]
<1>0. /\ journal \in [Roots -> Journals \cup {None}]
      /\ journal[r] # None => journal[r] \in Journals /\ journal[r].lead \in Roots
    BY JournalFields DEF TypeOK
<1>1. CASE UNCHANGED journal
  <2>1. Decided(r, {"publishing"})' = Decided(r, {"publishing"})
      BY <1>1 DEF Decided, Decision
  <2>2. CASE dir'[r] = dir[r]
      BY <1>1, <2>1, <2>2 DEF Current
  <2>3. CASE dir'[r] # dir[r]
    <3>1. PromoteBackup(p) \/ PromoteStage(p) \/ UndoPromotion(p) \/ UndoBackup(p)
        BY <1>1, <2>3, MovingSteps DEF Clean
    <3>2. pc[p] \in Promoting /\ pc[p] \in Started
        BY <3>1 DEF PromoteBackup, PromoteStage, UndoPromotion, UndoBackup, Promoting, Started
    <3>3. /\ t.state = "publishing" /\ r \in t.roots /\ journal[t.lead] = t /\ Entry(t, r)
        BY <2>3, <3>2, Agreed, ChangesOwn DEF Mine, Work, Local, StatesAt, Promoting, Worked, TxnPcs
    <3>4. SameTransaction(journal[r], t)
        BY <3>3 DEF Entry
    <3>5. Decided(r, {"publishing"})
        BY <3>3, <3>4 DEF Decided, Decision, SameTransaction
    <3> QED BY <1>1, <2>1, <3>5 DEF Current
  <2> QED BY <2>2, <2>3
<1>2. CASE PersistsStep(p)
  <2>1. PICK e \in task[p].todo : /\ pc[p] = "persist" /\ IsFirst(e, task[p].todo)
                                  /\ journal' = [journal EXCEPT ![e] = t]
      BY <1>2 DEF PersistsStep
  <2>2. UNCHANGED dir /\ e \in Roots
      BY <1>2, StepRoots DEF PersistsStep
  <2>3. /\ t.state = "prepared" /\ task[p].todo \subseteq Extent(task[p])
        /\ t.lead \in Extent(task[p]) /\ IsFirst(t.lead, Extent(task[p]))
      BY <2>1 DEF Mine, Work, Local, Owning, StatesAt, Promoting, Worked, TxnPcs, Holding, Held, Scope
  <2>4. t \in Journals /\ t # None /\ t.lead \in Roots
      BY <2>1, TxnOf, JournalFields DEF TxnPcs
  <2>5. journal[e] = None
      BY <2>1, <2>3 DEF Mine, Work, Sight, Journalled, Exclusive, Worked, TxnPcs
  <2>6. journal'[t.lead] = t
    <3>1. CASE e = t.lead
        BY <1>0, <2>1, <2>2, <3>1
    <3>2. CASE e # t.lead
      <4>1. t.lead \notin task[p].todo
        <5>1. SUFFICES ASSUME t.lead \in task[p].todo PROVE FALSE
            OBVIOUS
        <5>2. e <= t.lead /\ t.lead <= e /\ e \in Nat /\ t.lead \in Nat
            BY <2>1, <2>2, <2>3, <2>4, <5>1, RootsAssumption DEF IsFirst
        <5> QED BY <3>2, <5>2
      <4>2. journal[t.lead] = t
          BY <2>1, <2>3, <4>1 DEF Mine, Work, Sight, Journalled, Exclusive, Worked, TxnPcs
      <4> QED BY <1>0, <2>1, <2>4, <3>2, <4>2
    <3> QED BY <3>1, <3>2
  <2>7. CASE r = e
    <3>1. journal'[r] = t /\ Decision(r)' = t
        BY <1>0, <2>1, <2>2, <2>4, <2>6, <2>7 DEF Decision
    <3>2. ~Decided(r, {"publishing"})' /\ ~Decided(r, {"publishing"})
        BY <2>3, <2>5, <2>7, <3>1 DEF Decided, SameTransaction
    <3> QED BY <2>2, <3>2 DEF Current
  <2>8. CASE r # e
    <3>1. journal'[r] = journal[r]
        BY <1>0, <2>1, <2>8
    <3>2. CASE journal[r] = None
        BY <2>2, <3>1, <3>2 DEF Current, Decided, SameTransaction
    <3>3. CASE journal[r] # None /\ journal[r].lead = e
      <4>1. Decision(r) = None /\ Decision(r)' = t
          BY <1>0, <2>1, <2>2, <2>5, <3>1, <3>3 DEF Decision
      <4>2. ~Decided(r, {"publishing"})' /\ ~Decided(r, {"publishing"})
          BY <2>3, <4>1 DEF Decided, SameTransaction
      <4> QED BY <2>2, <4>2 DEF Current
    <3>4. CASE journal[r] # None /\ journal[r].lead # e
      <4>1. Decision(r)' = Decision(r)
          BY <1>0, <2>1, <3>1, <3>4 DEF Decision
      <4> QED BY <2>2, <3>1, <4>1 DEF Current, Decided
    <3> QED BY <3>2, <3>3, <3>4
  <2> QED BY <2>7, <2>8
<1>3. CASE RetiresStep(p)
  <2>1. PICK e \in task[p].todo : /\ pc[p] = "retire" /\ SameTransaction(t, journal[e])
                                  /\ journal' = [journal EXCEPT ![e] = None]
      BY <1>3 DEF RetiresStep
  <2>2. UNCHANGED dir /\ e \in Roots
      BY <1>3, StepRoots DEF RetiresStep
  <2>3. t.state = "finalized" /\ t # None /\ Ended(t)
      BY <2>1 DEF Mine, Work, Local, StatesAt, Promoting, Worked, TxnPcs, Finals, SameTransaction
  <2>4. CASE r = e
    <3>1. ~Decided(r, {"publishing"})
        BY <2>1, <2>3, <2>4 DEF Decided, Decision, SameTransaction, Ended
    <3>2. journal'[r] = None
        BY <1>0, <2>1, <2>2, <2>4
    <3>3. ~Decided(r, {"publishing"})'
        BY <3>2 DEF Decided, SameTransaction
    <3> QED BY <2>2, <3>1, <3>3 DEF Current
  <2>5. CASE r # e
    <3>1. journal'[r] = journal[r]
        BY <1>0, <2>1, <2>5
    <3>2. CASE journal[r] = None
        BY <2>2, <3>1, <3>2 DEF Current, Decided, SameTransaction
    <3>3. CASE journal[r] # None /\ journal[r].lead = e
      <4>1. Decision(r) = journal[e] /\ Decision(r)' = None
          BY <1>0, <2>1, <2>2, <3>1, <3>3 DEF Decision
      <4>2. ~Decided(r, {"publishing"})'
          BY <4>1 DEF Decided, SameTransaction
      <4>3. ~Decided(r, {"publishing"})
          BY <2>1, <2>3, <3>3, <4>1 DEF Decided, SameTransaction, Ended
      <4> QED BY <2>2, <4>2, <4>3 DEF Current
    <3>4. CASE journal[r] # None /\ journal[r].lead # e
      <4>1. Decision(r)' = Decision(r)
          BY <1>0, <2>1, <3>1, <3>4 DEF Decision
      <4> QED BY <2>2, <3>1, <4>1 DEF Current, Decided
    <3> QED BY <3>2, <3>3, <3>4
  <2> QED BY <2>4, <2>5
<1> QED BY <1>1, <1>2, <1>3, JournalWrites

\* What p has seen, when it has finished reading.
Seen(p) == IF pc[p] = "read_done" THEN [r \in task[p].roots |-> task[p].seen[r]] ELSE <<>>

\* A reader finishes with its outputs as they are published at that moment.
LEMMA ReadSees ==
    ASSUME TypeOK, TxnInHand, Records, Holding, Reading', NEW p \in Procs, Mine(p), Acts(p),
           pc'[p] = "read_done"
    PROVE  /\ pc[p] = "read" /\ task[p].roots \in ReadSets
           /\ UNCHANGED <<dir, journal>>
           /\ Seen(p)' = [r \in task[p].roots |-> Current(r)]
<1>1. Read(p) /\ pc[p] = "read"
  <2>1. ReadCheck(p) \/ Read(p)
      BY StepGoes
  <2>2. ~ReadCheck(p)
      BY GotoAfter, ReturnAfter DEF ReadCheck
  <2> QED BY <2>1, <2>2 DEF Read
<1>2. PICK r \in task[p].todo :
         /\ task' = [task EXCEPT ![p].seen[r] = dir[r], ![p].todo = @ \ {r}]
         /\ task[p].todo = {r}
  <2>1. PICK r \in task[p].todo :
           /\ task' = [task EXCEPT ![p].seen[r] = dir[r], ![p].todo = @ \ {r}]
           /\ Goto(p, IF task[p].todo = {r} THEN "read_done" ELSE "read")
      BY <1>1 DEF Read
  <2>2. task[p].todo = {r}
      BY <2>1, GotoAfter
  <2> QED BY <2>1, <2>2
<1>3. task'[p].roots = task[p].roots /\ task'[p].todo = {}
    BY <1>2, TaskOf DEF TypeOK, Tasks
<1>4. UNCHANGED <<dir, journal>>
    BY <1>1 DEF Read, fs
<1>5. \A e \in task[p].roots : task'[p].seen[e] = dir[e] /\ journal[e] = None
    BY <1>3, <1>4 DEF Reading
<1>6. \A e \in task[p].roots : Current(e) = dir[e]
    BY <1>5 DEF Current, Decided, SameTransaction
<1>7. task[p].kind = "read" /\ task[p].roots \in ReadSets
    BY <1>1 DEF Holding, Held, Scope, Mine, Work, Purpose
<1>8. Seen(p)' = [e \in task[p].roots |-> Current(e)]
    BY <1>3, <1>5, <1>6 DEF Seen
<1> QED BY <1>1, <1>4, <1>7, <1>8

\* The commit decision publishes every output of the transaction at once, each of
\* them older until then.
LEMMA CommitPublishes ==
    ASSUME TypeOK, TxnInHand, Holding, Records, Coordinated, Beside, Ages, NEW p \in Procs, Mine(p),
           RecordsStep(p), pc[p] = "commit"
    PROVE  LET t == task[p].txn IN
           /\ t.roots \in UpdateSets /\ t.gen \in Gens
           /\ \A r \in t.roots : Current(r) # Absent => Current(r) < t.gen
           /\ \A r \in Roots : Current(r)' = IF r \in t.roots THEN t.gen ELSE Current(r)
<1> DEFINE t == task[p].txn
<1>1. /\ t \in Journals /\ journal[t.lead] = t /\ t.state = "publishing"
    BY RecordsOver
<1>2. \A e \in t.roots : Entry(t, e)
    BY Agreed DEF Started, Promoting
<1>3. t.roots = task[p].roots /\ task[p].kind = "update" /\ task[p].roots \in UpdateSets
    BY DEF Mine, Work, Local, Purpose, Updating
<1>4. ASSUME NEW r \in t.roots, Current(r) # Absent PROVE Current(r) < t.gen
  <2>1. SameTransaction(journal[r], t) /\ r \in Roots
      BY <1>1, <1>2, JournalFields DEF Entry
  <2>2. Current(r) = t.prev[r]
      BY <1>1, <2>1 DEF Current, Decided, Decision, SameTransaction
  <2>3. t.prev[r] \in Contents /\ t.prev[r] # Torn
      BY <1>1, <2>1, JournalFields DEF Records, Sound
  <2>4. t.prev[r] \in Nat
      BY <1>4, <2>2, <2>3, BoundsAssumption DEF Contents
  <2>5. t.prev[r] < t.gen
      BY <1>1, <2>1, <2>4, JournalFields DEF Ages, Older
  <2> QED BY <2>2, <2>5
<1>5. \A r \in Roots : Current(r)' = IF r \in t.roots THEN t.gen ELSE Current(r)
    BY RecordsPublish
<1> QED BY <1>1, <1>3, <1>4, <1>5, JournalFields

LEMMA AbstractStep ==
    ASSUME TypeOK, TxnInHand, Holding, Records, RInv, Reading', [Next]_vars
    PROVE  [Abstract!Next]_(Abstract!vars)
<1> DEFINE published == [r \in Roots |-> Current(r)]
           view == [q \in Procs |-> Seen(q)]
<1>1. ASSUME UNCHANGED <<fs, pc, task>> PROVE UNCHANGED <<published, view>>
    BY <1>1 DEF fs, Current, Decided, Decision, Seen
<1>2. CASE \E r \in Roots : MoveAway(r) \/ MoveBack(r)
    BY <1>1, <1>2 DEF MoveAway, MoveBack, Abstract!vars, Seen
<1>3. CASE UNCHANGED vars
    BY <1>1, <1>3 DEF vars, Abstract!vars, Seen
<1>4. ASSUME NEW p \in Procs, Acts(p) PROVE [Abstract!Next]_(Abstract!vars)
  <2>1. Mine(p)
      BY DEF RInv, Working, Mine
  <2>2. \A q \in Procs \ {p} : Seen(q)' = Seen(q)
      BY <1>4, OnlyOwn DEF Seen
  <2>3. CASE RecordsStep(p) /\ pc[p] = "commit"
    <3> DEFINE t == task[p].txn
    <3>1. /\ t.roots \in UpdateSets /\ t.gen \in Gens
          /\ \A r \in t.roots : Current(r) # Absent => Current(r) < t.gen
          /\ \A r \in Roots : Current(r)' = IF r \in t.roots THEN t.gen ELSE Current(r)
        BY <2>1, <2>3, CommitPublishes DEF RInv
    <3>2. t.roots \subseteq Roots
        BY <2>3, TxnOf, JournalFields DEF TxnPcs
    <3>3. pc'[p] # "read_done"
        BY <1>4, <2>3, StepGoes DEF ReadCheck, Read
    <3>4. view' = view
        BY <2>2, <2>3, <3>3 DEF Seen
    <3>5. /\ \A r \in t.roots : published[r] # Absent => published[r] < t.gen
          /\ published' = [r \in Roots |-> IF r \in t.roots THEN t.gen ELSE published[r]]
        BY <3>1, <3>2
    <3>6. ASSUME NEW S, S = t.roots, NEW g, g = t.gen PROVE Abstract!Publish(S, g)
        BY <3>4, <3>5, <3>6 DEF Abstract!Publish, Seen
    <3> QED BY <3>1, <3>6 DEF Abstract!Next, UpdateSets
  <2>4. CASE ~(RecordsStep(p) /\ pc[p] = "commit")
    <3>1. \A r \in Roots : Current(r)' = Current(r)
        BY <1>4, <2>1, <2>4, RecordsPublish, OthersPublishNothing DEF RInv
    <3>2. published' = published
        BY <3>1
    <3>3. CASE pc'[p] = "read_done"
      <4>1. task[p].roots \in ReadSets /\ Seen(p)' = [r \in task[p].roots |-> Current(r)]
          BY <1>4, <2>1, <3>3, ReadSees
      <4>2. task[p].roots \subseteq Roots
          BY StepRoots
      <4>3. Seen(p)' = [r \in task[p].roots |-> published[r]]
          BY <4>1, <4>2
      <4>4. view' = [view EXCEPT ![p] = [r \in task[p].roots |-> published[r]]]
          BY <2>2, <4>3
      <4>5. ASSUME NEW S, S = task[p].roots PROVE Abstract!Look(p, S)
          BY <3>2, <4>4, <4>5 DEF Abstract!Look, Seen
      <4> QED BY <4>1, <4>5 DEF Abstract!Next, ReadSets
    <3>4. CASE pc'[p] # "read_done"
      <4>1. Seen(p)' = <<>>
          BY <3>4 DEF Seen
      <4>2. view' = [view EXCEPT ![p] = <<>>]
          BY <2>2, <4>1
      <4>3. Abstract!Forget(p)
          BY <3>2, <4>2 DEF Abstract!Forget, Seen
      <4> QED BY <4>3 DEF Abstract!Next
    <3> QED BY <3>3, <3>4
  <2> QED BY <2>3, <2>4
<1> QED BY <1>2, <1>3, <1>4 DEF Next, Acts

\* Publication is atomic and reading consistent, whatever crashes, fails, is rolled
\* back or recovered: UpdateMany and WithReads implement AtomicPublication.
THEOREM PublicationIsAtomic == Spec => AtomicPublicationSpec
<1>1. Init => Abstract!Init
  <2> SUFFICES ASSUME Init PROVE Abstract!Init
      OBVIOUS
  <2>1. \A r \in Roots : Current(r) = dir[r] /\ dir[r] \in {0, Absent}
      BY DEF Init, Current, Decided, SameTransaction
  <2>2. \A p \in Procs : pc[p] # "read_done"
      BY DEF Init
  <2> QED BY <2>1, <2>2 DEF Abstract!Init
<1>2. /\ TypeOK /\ TxnInHand /\ IInv /\ RInv /\ IInv'
      /\ [Next]_vars
      => [Abstract!Next]_(Abstract!vars)
    BY AbstractStep DEF IInv, RInv
<1> QED BY <1>1, <1>2, TypeCorrect, InvariantHolds, RecoveryInvariantHolds,
           PTL DEF Spec, AtomicPublicationSpec, Abstract!Spec

-----------------------------------------------------------------------------
(* Publications whose journals are not all written.  A generation stands for  *)
(* one transaction (Unique), and nothing is set aside for a prepared one      *)
(* (Unfollowed).  As long as no project was moved, the coordinator's journal  *)
(* comes first and goes last (Led).                                           *)

Unmoved == away = {} /\ \A p \in Procs : task[p].absent = {}

Complete(j) == j # None => IsFirst(j.lead, j.roots)
Formed == /\ \A r \in Roots : Complete(journal[r])
          /\ \A p \in Procs : Complete(task[p].txn)

Known == {journal[r] : r \in Roots} \cup {task[p].txn : p \in Procs}
Unique == \A j, k \in Known \ {None} : j.gen = k.gen => SameRecord(j, k)

Led == \A r \in Roots : journal[r] # None => SameTransaction(journal[r], journal[journal[r].lead])

\* What a prepared publication has not journalled may be anybody's, but nothing of
\* it is in the backup of this one.
Unfollowed == \A l \in Roots :
    journal[l] # None /\ journal[l].lead = l /\ journal[l].state = "prepared" =>
        \A e \in journal[l].roots : ~SameTransaction(journal[l], journal[e]) =>
            backup[e][journal[l].gen] = Absent

\* What is being retired is gone from the last root on.
Gone(t) == \A e \in t.txn.roots \ t.todo : ~SameTransaction(t.txn, journal[e])
Removed == \A p \in Procs : pc[p] = "retire" => Gone(task[p])

PInv == Formed /\ Unique /\ Unfollowed /\ (moves = 0 => Unmoved /\ Led /\ Removed)

LEMMA CountsNoMove ==
    ASSUME NEW p \in Procs, Acts(p) PROVE UNCHANGED moves
<1>1. CASE Start(p) \/ Cancel(p) \/ Crash(p)
    BY <1>1 DEF Start, Cancel, Crash
<1>2. CASE RecoverStep(p)
    BY <1>2 DEF RecoverStep, RecoverReadLocal, RecoverReadDecision, RecoverLock, RecoverLockFails,
        RecoverRecheck
<1>3. CASE CleanupStep(p)
    BY <1>3 DEF CleanupStep, VerifyPrepared, DropStage, Finalize, Retire, VerifyRollback,
        UndoPromotion, UndoBackup, RecordPrepared, VerifyCommitted, VerifyCleaning, Clean
<1>4. CASE UpdateStep(p)
    BY <1>4 DEF UpdateStep, WriterLock, SharedLock, Inspect, Prepare, Stage, Validate, ExclLock,
        Discard, Recheck, Persist, Publish, PromoteBackup, PromoteStage, Commit
<1>5. CASE ReadStep(p)
    BY <1>5 DEF ReadStep, ReadInit, ReadWait, ReadLock, ReadCheck, Read, ReadDone
<1> QED BY <1>1, <1>2, <1>3, <1>4, <1>5 DEF Acts, Step

LEMMA UnmovedKept ==
    ASSUME TypeOK, TxnInHand, Unmoved, moves' = 0, [Next]_vars
    PROVE  Unmoved'
<1>1. CASE UNCHANGED <<task, away>>
    BY <1>1 DEF Unmoved
<1>2. ASSUME NEW p \in Procs, Acts(p) PROVE Unmoved'
  <2>1. away' = {}
      BY <1>2, SetsNoCounter DEF Unmoved
  <2>2. CASE Start(p)
    <3>1. PICK j : StartUpdate(p, j) \/ StartRecover(p, j) \/ StartRead(p, j)
        BY <2>2 DEF Start
    <3>2. ASSUME StartUpdate(p, j) PROVE task'[p].absent = {}
      <4>1. task' = [task EXCEPT ![p] = [NoTask EXCEPT !.kind = "update", !.roots = j.roots,
                                                       !.queue = j.roots]]
          BY <3>2 DEF StartUpdate
      <4> QED BY <4>1 DEF TypeOK, NoTask
    <3>3. ASSUME StartRecover(p, j) PROVE task'[p].absent = {}
      <4>1. task' = [task EXCEPT ![p] = [NoTask EXCEPT !.kind = "recover", !.roots = j.roots,
                                                       !.queue = j.roots]]
          BY <3>3 DEF StartRecover
      <4> QED BY <4>1 DEF TypeOK, NoTask
    <3>4. ASSUME StartRead(p, j) PROVE task'[p].absent = {}
      <4>1. task' = [task EXCEPT ![p] = [NoTask EXCEPT !.kind = "read", !.roots = j.roots,
                                                       !.required = j.required, !.todo = j.roots]]
          BY <3>4 DEF StartRead
      <4> QED BY <4>1 DEF TypeOK, NoTask
    <3>5. task'[p].absent = {}
        BY <3>1, <3>2, <3>3, <3>4
    <3> QED BY <1>2, <2>1, <3>5, OnlyOwn DEF Unmoved
  <2>3. CASE Prepare(p)
    <3>1. task'[p].absent = {}
        BY <2>3, Prepares DEF Unmoved, SameCall
    <3> QED BY <1>2, <2>1, <3>1, OnlyOwn DEF Unmoved
  <2>4. CASE ~Start(p) /\ ~Prepare(p)
    <3>1. task'[p].absent = {}
        BY <1>2, <2>4, StepDescends DEF Descends, Unmoved, NoTask
    <3> QED BY <1>2, <2>1, <3>1, OnlyOwn DEF Unmoved
  <2> QED BY <2>2, <2>3, <2>4
<1>3. ~\E r \in Roots : MoveAway(r) \/ MoveBack(r)
  <2>1. moves \in Nat
      BY BoundsAssumption DEF TypeOK
  <2> QED BY <2>1 DEF MoveAway, MoveBack, Unmoved
<1> QED BY <1>1, <1>2, <1>3 DEF Next, vars, Acts

LEMMA FormedKept ==
    ASSUME TypeOK, TxnInHand, Formed, NEW p \in Procs, Acts(p)
    PROVE  Formed'
<1>1. \A r \in Roots : Complete(journal'[r])
  <2>1. SUFFICES ASSUME NEW r \in Roots PROVE Complete(journal'[r])
      OBVIOUS
  <2>2. journal'[r] \in {journal[r], None} \/ SameRecord(task[p].txn, journal'[r])
      BY StepWrites
  <2> QED BY <2>2 DEF Formed, Complete, SameRecord
<1>2. Complete(task'[p].txn)
  <2>1. CASE Prepare(p)
      BY <2>1, Prepares DEF Complete
  <2>2. CASE Start(p)
    <3>1. task'[p].txn = None
        BY <2>2, StartAfter
    <3> QED BY <3>1 DEF Complete
  <2>3. CASE ~Start(p) /\ ~Prepare(p)
      BY <2>3, StepDescends DEF Descends, Formed, Complete, SameRecord, NoTask
  <2> QED BY <2>1, <2>2, <2>3
<1>3. \A q \in Procs \ {p} : Complete(task'[q].txn)
    BY OnlyOwn DEF Formed
<1> QED BY <1>1, <1>2, <1>3 DEF Formed

\* A record is a former one, of another state perhaps, or has just been drawn up.
LEMMA KnownFrom ==
    ASSUME TypeOK, TxnInHand, NEW p \in Procs, Acts(p), NEW j \in Known', j # None
    PROVE  \/ \E k \in Known \ {None} : SameRecord(k, j)
           \/ Prepare(p) /\ j = task'[p].txn
<1>1. CASE \E r \in Roots : j = journal'[r]
  <2>1. PICK r \in Roots : j = journal'[r]
      BY <1>1
  <2>2. j = journal[r] \/ SameRecord(task[p].txn, j)
      BY <2>1, StepWrites
  <2> QED BY <2>2 DEF Known, SameRecord
<1>2. CASE \E q \in Procs : j = task'[q].txn
  <2>1. PICK q \in Procs : j = task'[q].txn
      BY <1>2
  <2>2. CASE q # p
    <3>1. j = task[q].txn
        BY <2>1, <2>2, OnlyOwn
    <3> QED BY <3>1 DEF Known, SameRecord
  <2>3. CASE q = p /\ Start(p)
      BY <2>1, <2>3, StartAfter
  <2>4. CASE q = p /\ Prepare(p)
      BY <2>1, <2>4
  <2>5. CASE q = p /\ ~Start(p) /\ ~Prepare(p)
    <3>1. \/ j = task[p].txn
          \/ SameRecord(task[p].txn, j)
          \/ \E r \in Roots : j = journal[r]
        BY <2>1, <2>5, StepDescends DEF Descends, NoTask
    <3> QED BY <3>1 DEF Known, SameRecord
  <2> QED BY <2>2, <2>3, <2>4, <2>5
<1> QED BY <1>1, <1>2 DEF Known

LEMMA UniqueKept ==
    ASSUME TypeOK, TxnInHand, Records, Unique, NEW p \in Procs, Acts(p)
    PROVE  Unique'
<1>1. SUFFICES ASSUME NEW j \in Known' \ {None}, NEW k \in Known' \ {None}, j.gen = k.gen
               PROVE  SameRecord(j, k)
    BY DEF Unique
<1>2. \A i \in Known \ {None} : i.gen < nextGen /\ i.gen \in Nat
  <2>1. \A i \in Known \ {None} : i \in Journals /\ i.gen < nextGen
      BY TaskOf, TasksFields DEF Known, Records, Sound, TypeOK
  <2> QED BY <2>1, Numbers
<1>3. ASSUME Prepare(p), NEW i \in Known \ {None} PROVE task'[p].txn.gen # i.gen
  <2>1. task'[p].txn.gen = nextGen
      BY <1>3, Prepares
  <2> QED BY <1>2, <1>3, <2>1
<1>4. CASE (\E i \in Known \ {None} : SameRecord(i, j)) /\ (\E i \in Known \ {None} : SameRecord(i, k))
  <2>1. PICK i \in Known \ {None} : SameRecord(i, j)
      BY <1>4
  <2>2. PICK h \in Known \ {None} : SameRecord(h, k)
      BY <1>4
  <2>3. SameRecord(i, h)
      BY <1>1, <2>1, <2>2 DEF Unique, SameRecord
  <2> QED BY <2>1, <2>2, <2>3 DEF SameRecord
<1>5. CASE Prepare(p) /\ j = task'[p].txn /\ k = task'[p].txn
    BY <1>5 DEF SameRecord
<1>6. CASE Prepare(p) /\ j = task'[p].txn /\ \E i \in Known \ {None} : SameRecord(i, k)
    BY <1>1, <1>3, <1>6 DEF SameRecord
<1>7. CASE Prepare(p) /\ k = task'[p].txn /\ \E i \in Known \ {None} : SameRecord(i, j)
    BY <1>1, <1>3, <1>7 DEF SameRecord
<1> QED BY <1>4, <1>5, <1>6, <1>7, KnownFrom

\* The coordinator's journal comes first and goes last.
LEMMA LedKept ==
    ASSUME TypeOK, TxnInHand, Holding, Coordinated, Beside, Unmoved, Formed, Led, Removed,
           NEW p \in Procs, Mine(p), Acts(p)
    PROVE  Led'
<1> DEFINE t == task[p].txn
<1>0. /\ journal \in [Roots -> Journals \cup {None}]
      /\ Local(pc[p], task[p]) /\ Sight(pc[p], task[p], dir, journal, backup)
      /\ Scope(pc[p], task[p])
    BY DEF TypeOK, Mine, Work, Holding, Held
<1>1. SUFFICES ASSUME NEW r \in Roots, journal'[r] # None
               PROVE  SameTransaction(journal'[r], journal'[journal'[r].lead])
    BY DEF Led
<1>2. pc[p] \in TxnPcs => t \in Journals /\ t # None /\ t.lead \in Roots /\ t.roots \subseteq Roots
    BY TxnOf, JournalFields
<1>3. journal[r] # None => journal[r].lead \in Roots
    BY <1>0, JournalFields
<1>4. CASE UNCHANGED journal
    BY <1>1, <1>4 DEF Led
<1>5. CASE RecordsStep(p)
  <2> DEFINE u == Recorded(pc[p], t)
  <2>1. pc[p] \in Recording /\ pc[p] \in TxnPcs
      BY <1>5 DEF RecordsStep, Recording, TxnPcs
  <2>2. u # None /\ u.gen = t.gen /\ u.lead = t.lead /\ u.roots = t.roots /\ u.prev = t.prev
      BY <1>2, <2>1, RecordedIs
  <2>3. journal' = [journal EXCEPT ![t.lead] = u]
      BY <1>5, <2>2 DEF RecordsStep
  <2> HIDE DEF u
  <2>4. journal[t.lead] \in {t, None}
    <3>1. CASE pc[p] = "finalize"
      <4>1. t.lead \in Extent(task[p])
          BY <1>0, <3>1 DEF Scope, Worked, TxnPcs
      <4>2. Journalled("finalize", task[p], t.lead, journal[t.lead])
          BY <1>0, <3>1, <4>1 DEF Sight, Exclusive, Worked, TxnPcs
      <4> QED BY <4>2 DEF Journalled
    <3> QED BY <1>5, <3>1, RecordsOver
  <2>5. CASE r = t.lead
      BY <1>0, <1>2, <2>1, <2>2, <2>3, <2>5 DEF SameTransaction
  <2>6. CASE r # t.lead
    <3>1. journal'[r] = journal[r] /\ SameTransaction(journal[r], journal[journal[r].lead])
        BY <1>0, <1>1, <2>3, <2>6 DEF Led
    <3>2. CASE journal[r].lead = t.lead
      <4>1. journal[t.lead] = t
          BY <2>4, <3>1, <3>2 DEF SameTransaction
      <4>2. journal'[t.lead] = u
          BY <1>0, <1>2, <2>1, <2>3
      <4> QED BY <2>2, <3>1, <3>2, <4>1, <4>2 DEF SameTransaction
    <3>3. CASE journal[r].lead # t.lead
        BY <1>0, <1>1, <1>3, <2>3, <3>1, <3>3
    <3> QED BY <3>2, <3>3
  <2> QED BY <2>5, <2>6
<1>6. CASE PersistsStep(p)
  <2>1. PICK s \in task[p].todo : /\ pc[p] = "persist" /\ IsFirst(s, task[p].todo)
                                  /\ journal' = [journal EXCEPT ![s] = t]
      BY <1>6 DEF PersistsStep
  <2>2. /\ t \in Journals /\ t # None /\ t.lead \in Roots
        /\ IsFirst(t.lead, Extent(task[p])) /\ task[p].todo \subseteq Extent(task[p])
        /\ Extent(task[p]) \subseteq Roots
      BY <1>0, <1>2, <2>1 DEF Local, Scope, Owning, Worked, TxnPcs, Extent
  <2>3. \A e \in Extent(task[p]) : journal[e] = IF e \in task[p].todo THEN None ELSE t
      BY <1>0, <2>1 DEF Sight, Journalled, Exclusive, Worked, TxnPcs
  <2>4. s \in Roots /\ journal[s] = None
      BY <2>1, <2>2, <2>3
  <2>5. CASE r = s
    <3>1. CASE s = t.lead
        BY <1>0, <2>1, <2>2, <2>5, <3>1 DEF SameTransaction
    <3>2. CASE s # t.lead
      <4>1. t.lead \notin task[p].todo
          BY <2>1, <2>2, <2>4, <3>2, RootsAssumption DEF IsFirst
      <4>2. journal[t.lead] = t
          BY <2>2, <2>3, <4>1 DEF IsFirst
      <4> QED BY <1>0, <2>1, <2>2, <2>4, <2>5, <3>2, <4>2 DEF SameTransaction
    <3> QED BY <3>1, <3>2
  <2>6. CASE r # s
    <3>1. journal'[r] = journal[r] /\ SameTransaction(journal[r], journal[journal[r].lead])
        BY <1>0, <1>1, <2>1, <2>6 DEF Led
    <3>2. journal[r].lead # s
        BY <2>4, <3>1 DEF SameTransaction
    <3> QED BY <1>0, <1>1, <1>3, <2>1, <3>1, <3>2
  <2> QED BY <2>5, <2>6
<1>7. CASE RetiresStep(p)
  <2>1. PICK s \in task[p].todo : /\ pc[p] = "retire" /\ IsLast(s, task[p].todo)
                                  /\ SameTransaction(t, journal[s])
                                  /\ journal' = [journal EXCEPT ![s] = None]
      BY <1>7 DEF RetiresStep
  <2>2. t \in Journals /\ t # None /\ t.roots \subseteq Roots /\ task[p].todo \subseteq t.roots
      BY <1>0, <1>2, <2>1 DEF Scope, Worked, TxnPcs, Extent
  <2>3. r # s /\ journal'[r] = journal[r]
      BY <1>0, <1>1, <2>1, <2>2
  <2>4. SameTransaction(journal[r], journal[journal[r].lead])
      BY <1>1, <2>3 DEF Led
  <2>5. ASSUME journal[r].lead = s PROVE FALSE
    <3>1. SameTransaction(t, journal[r]) /\ t.lead = s /\ r \in t.roots
        BY <1>1, <2>1, <2>3, <2>4, <2>5 DEF SameTransaction, Beside
    <3>2. IsFirst(t.lead, t.roots)
        BY <2>2 DEF Formed, Complete
    <3>3. r \notin task[p].todo
      <4>1. SUFFICES ASSUME r \in task[p].todo PROVE FALSE
          OBVIOUS
      <4>2. r <= s /\ s <= r /\ r \in Nat /\ s \in Nat
          BY <2>1, <2>2, <3>1, <3>2, <4>1, RootsAssumption DEF IsFirst, IsLast
      <4> QED BY <2>3, <4>2
    <3> QED BY <2>1, <3>1, <3>3 DEF Removed, Gone
  <2> QED BY <1>0, <1>1, <1>3, <2>1, <2>3, <2>4, <2>5
<1> QED BY <1>4, <1>5, <1>6, <1>7, JournalWrites

\* Nothing is set aside for a prepared publication where it has no journal.
LEMMA UnfollowedKept ==
    ASSUME TypeOK, TxnInHand, Holding, Coordinated, Unique, Unfollowed,
           NEW p \in Procs, Mine(p), Acts(p)
    PROVE  Unfollowed'
<1> DEFINE t == task[p].txn
<1>0. journal \in [Roots -> Journals \cup {None}]
    BY DEF TypeOK
<1>1. SUFFICES ASSUME NEW l \in Roots, NEW d, d = journal'[l], d # None, d.lead = l,
                      d.state = "prepared", NEW e \in d.roots, ~SameTransaction(d, journal'[e])
               PROVE  backup'[e][d.gen] = Absent
    BY DEF Unfollowed
<1>2. pc[p] \in TxnPcs => t \in Journals /\ t # None /\ t.lead \in Roots
    BY TxnOf, JournalFields
<1>3. CASE journal[l] = d
  <2>1. d \in Journals /\ e \in Roots /\ d.gen \in Gens /\ Entry(d, e)
      BY <1>0, <1>1, <1>3, JournalFields DEF Coordinated
  <2>2. backup[e][d.gen] = Absent
    <3>1. CASE SameTransaction(d, journal[e])
        BY <1>1, <2>1, <3>1 DEF Entry, SameTransaction
    <3>2. CASE ~SameTransaction(d, journal[e])
        BY <1>1, <1>3, <3>2 DEF Unfollowed
    <3> QED BY <3>1, <3>2
  <2>3. SUFFICES ASSUME backup'[e][d.gen] # backup[e][d.gen] PROVE FALSE
      BY <2>2
  <2>4. d.gen = t.gen /\ UNCHANGED journal
      BY <2>1, <2>3, BackupWrites, JournalWrites DEF RecordsStep, PersistsStep, RetiresStep
  <2>5. pc[p] \in Started
      BY <2>1, <2>3, <2>4, MovingSteps DEF PromoteBackup, PromoteStage, UndoPromotion,
          UndoBackup, Clean, Started, Promoting, Forward
  <2>6. t.state \in {"publishing", "committed", "cleaning"} /\ e \in t.roots
      BY <2>1, <2>3, <2>5, ChangesOwn DEF Mine, Work, Local, StatesAt, Started, Promoting,
          Forward, Worked, TxnPcs
  <2>7. SameTransaction(journal[e], t)
      BY <2>5, <2>6, Agreed DEF Entry
  <2>8. SameRecord(journal[e], d)
    <3>1. journal[e] # None /\ journal[e].gen = d.gen
        BY <2>4, <2>7 DEF SameTransaction
    <3>2. journal[e] \in Known \ {None} /\ d \in Known \ {None}
        BY <1>1, <1>3, <2>1, <3>1 DEF Known
    <3> QED BY <3>1, <3>2 DEF Unique
  <2>9. ~SameTransaction(d, journal[e])
      BY <1>1, <2>4
  <2> QED BY <2>8, <2>9 DEF SameRecord, SameTransaction
<1>4. CASE journal[l] # d /\ RecordsStep(p)
  <2>1. pc[p] \in Recording /\ pc[p] \in TxnPcs
      BY <1>4 DEF RecordsStep, Recording, TxnPcs
  <2>2. d = Recorded(pc[p], t) /\ d.roots = t.roots /\ t.lead = l
      BY <1>0, <1>1, <1>2, <1>4, <2>1, RecordedIs DEF RecordsStep
  <2>3. d.state = CASE pc[p] = "finalize" -> "finalized"
                    [] pc[p] = "record_prepared" -> "prepared"
                    [] pc[p] = "verify_committed" -> "cleaning"
                    [] pc[p] = "publish" -> "publishing"
                    [] pc[p] = "commit" -> "committed"
      BY <1>2, <2>1, <2>2, StatedIs DEF Recorded, Recording, States
  <2>4. pc[p] = "record_prepared"
      BY <1>1, <2>1, <2>3 DEF Recording
  <2>5. t.state = "publishing" /\ journal[l] = t
      BY <1>4, <2>2, <2>4, RecordsOver
  <2>6. SameTransaction(journal[e], t)
      BY <1>1, <1>2, <2>1, <2>2, <2>5 DEF Coordinated, Entry
  <2>7. d.gen = t.gen /\ d.lead = t.lead /\ d.prev = t.prev /\ d.roots = t.roots
      BY <1>2, <2>1, <2>2, RecordedIs
  <2>8. SameTransaction(d, journal'[e])
    <3>1. journal' = [journal EXCEPT ![l] = d]
        BY <1>1, <1>4, <2>2 DEF RecordsStep
    <3>2. e \in Roots
        BY <1>2, <2>1, <2>2, JournalFields
    <3>3. CASE e = l
        BY <1>1, <3>3 DEF SameTransaction
    <3>4. CASE e # l
      <4>1. journal'[e] = journal[e]
          BY <1>0, <3>1, <3>2, <3>4
      <4> QED BY <1>1, <2>6, <2>7, <4>1 DEF SameTransaction
    <3> QED BY <3>3, <3>4
  <2> QED BY <1>1, <2>8
<1>5. CASE journal[l] # d /\ PersistsStep(p)
  <2>1. pc[p] = "persist" /\ d = t /\ UNCHANGED <<dir, backup>>
      BY <1>0, <1>1, <1>5 DEF PersistsStep
  <2>2. e \in Extent(task[p])
      BY <1>1, <1>2, <2>1 DEF Mine, Work, Local, Owning, Extent, TxnPcs
  <2>3. Place("persist", task[p], e, dir[e], backup[e][t.gen])
      BY <2>1, <2>2 DEF Mine, Work, Sight, Exclusive, Worked, TxnPcs
  <2> QED BY <2>1, <2>3 DEF Place
<1>6. CASE journal[l] # d /\ RetiresStep(p)
    BY <1>0, <1>1, <1>6 DEF RetiresStep
<1> QED BY <1>1, <1>3, <1>4, <1>5, <1>6, JournalWrites

\* The journals of a finalized transaction are removed from the last root on.
LEMMA RemovedKept ==
    ASSUME TypeOK, TxnInHand, LockExclusion, Holding, Records, Unmoved, Unmoved', Removed,
           NEW p \in Procs, Mine(p), Acts(p)
    PROVE  Removed'
<1> DEFINE t == task[p].txn
<1>0. journal \in [Roots -> Journals \cup {None}]
    BY DEF TypeOK
<1>1. ASSUME NEW q \in Procs \ {p}, pc'[q] = "retire" PROVE Gone(task[q])'
  <2>1. pc[q] = "retire" /\ task'[q] = task[q] /\ Gone(task[q])
      BY <1>1, OnlyOwn DEF Removed
  <2>2. task[q].txn # None /\ task[q].absent = {}
      BY <2>1 DEF TxnInHand, TxnPcs, Unmoved
  <2>3. Extent(task[q]) = task[q].txn.roots
      BY <2>2 DEF Extent
  <2>4. \A e \in task[q].txn.roots : journal'[e] = journal[e]
      BY <1>1, <2>1, <2>3, OthersEntries DEF Exclusive, Worked, TxnPcs
  <2> QED BY <2>1, <2>4 DEF Gone
<1>2. ASSUME pc'[p] = "retire" PROVE Gone(task[p])'
  <2>1. CASE Retire(p)
    <3>1. PICK r \in task[p].todo :
             /\ IsLast(r, task[p].todo)
             /\ LET mine == SameTransaction(t, ReadJournal(r)) IN
                \/ /\ IF mine THEN Write(r, None) ELSE UNCHANGED journal
                   /\ IF task[p].todo = {r} THEN Retired(p) ELSE Loop(p, r, "retire") /\ UNCHANGED lock
                \/ \E result \in Terminal : Return(p, result)
        BY <2>1, CleanupFailedAfter DEF Retire
    <3>2. ~\E result \in Terminal : Return(p, result)
        BY <1>2, ReturnAfter DEF Terminal
    <3>3. ~Retired(p)
        BY <1>2, <3>2, RecoveredGoes DEF Retired, Terminal
    <3>4. /\ IF SameTransaction(t, ReadJournal(r)) THEN Write(r, None) ELSE UNCHANGED journal
          /\ task[p].todo # {r} /\ Loop(p, r, "retire")
        BY <3>1, <3>2, <3>3
    <3>5. task'[p].txn = t /\ task'[p].todo = task[p].todo \ {r}
        BY <3>4, LoopAfter DEF SameTask
    <3>6. ReadJournal(r) = journal[r]
        BY DEF ReadJournal, Unmoved
    <3>7. pc[p] = "retire" /\ t \in Journals /\ t.roots \subseteq Roots
        BY <2>1, TxnOf, JournalFields DEF Retire, TxnPcs
    <3>8. Gone(task[p])
        BY <3>7 DEF Removed
    <3>9. ASSUME NEW e \in t.roots \ (task[p].todo \ {r}) PROVE ~SameTransaction(t, journal'[e])
      <4>1. CASE e # r
        <5>1. ~SameTransaction(t, journal[e])
            BY <3>8, <3>9, <4>1 DEF Gone
        <5>2. journal'[e] = journal[e]
            BY <1>0, <3>4, <3>7, <3>9, <4>1 DEF Write
        <5> QED BY <5>1, <5>2
      <4>2. CASE e = r /\ SameTransaction(t, journal[r])
        <5>1. journal'[r] = None
            BY <1>0, <3>4, <3>6, <3>7, <3>9, <4>2 DEF Write
        <5> QED BY <4>2, <5>1 DEF SameTransaction
      <4>3. CASE e = r /\ ~SameTransaction(t, journal[r])
          BY <3>4, <3>6, <4>3
      <4> QED BY <4>1, <4>2, <4>3
    <3> QED BY <3>5, <3>9 DEF Gone
  <2>2. ASSUME RecoverLock(p) \/ RecoverRecheck(p) \/ Finalize(p)
        PROVE  task'[p].txn.roots = task'[p].todo
    <3>1. pc[p] \in TxnPcs /\ pc[p] # "retire" /\ task[p].absent = {}
        BY <2>2 DEF RecoverLock, RecoverRecheck, Finalize, TxnPcs, Unmoved
    <3>2. Extent(task[p]) = t.roots
        BY <3>1 DEF Extent, TxnInHand
    <3>3. Local(pc[p], task[p])
        BY DEF Mine, Work
    <3>4. CASE RecoverLock(p)
      <4>1. PICK r \in task[p].todo :
                Loop(p, r, IF pc[p] = "lock_finalized" THEN "retire" ELSE "recheck_recovery")
          BY <3>4 DEF RecoverLock
      <4>2. task[p].todo = {r}
          BY <1>2, <3>1, <4>1, LoopAfter
      <4> QED BY <3>2, <4>1, <4>2, LoopAfter DEF SameTask
    <3>5. CASE RecoverRecheck(p)
      <4> DEFINE d == ReadJournal(t.lead)
      <4>1. /\ pc[p] = "recheck_recovery" /\ SameTransaction(t, d)
            /\ task' = [task EXCEPT ![p].txn = d, ![p].mode = "recover"]
        <5>1. ~\E result \in Terminal : Return(p, result)
            BY <1>2, ReturnAfter DEF Terminal
        <5>2. ~\E r : Recovered(p, r)
            BY <1>2, RecoveredGoes DEF Terminal
        <5> QED BY <3>5, <5>1, <5>2 DEF RecoverRecheck, Terminal
      <4> HIDE DEF d
      <4>2. task'[p].txn = d /\ task'[p].todo = task[p].todo
          BY <4>1, TaskOf DEF TypeOK, Tasks
      <4>3. task[p].todo = t.roots
          BY <3>2, <3>3, <4>1 DEF Local
      <4> QED BY <4>1, <4>2, <4>3 DEF SameTransaction
    <3>6. CASE Finalize(p)
      <4>1. pc[p] = "finalize" /\ RecordDecision(p, "finalized", "retire")
          BY <3>6 DEF Finalize
      <4>2. /\ task'[p].todo = task[p].todo /\ task'[p].txn.roots = t.roots
        <5>1. ~\E result \in Terminal : Return(p, result)
            BY <1>2, ReturnAfter DEF Terminal
        <5>2. SameRecord(t, task'[p].txn) /\ task'[p].todo = task[p].todo
            BY <3>1, <4>1, <5>1, RecordAfter DEF States
        <5> QED BY <5>2 DEF SameRecord
      <4>3. task[p].todo = t.roots
          BY <3>2, <3>3, <4>1 DEF Local
      <4> QED BY <4>2, <4>3
    <3> QED BY <2>2, <3>4, <3>5, <3>6
  <2>3. RecoverLock(p) \/ RecoverRecheck(p) \/ Finalize(p) \/ Retire(p)
      BY <1>2, StepGoes
  <2> QED BY <2>1, <2>2, <2>3 DEF Gone
<1> QED BY <1>1, <1>2 DEF Removed

LEMMA InitPlaces == ASSUME Init PROVE PInv
<1>1. \A p \in Procs : pc[p] = "idle" /\ task[p] = NoTask
    BY DEF Init
<1>2. \A r \in Roots : journal[r] = None
    BY DEF Init
<1>3. NoTask.txn = None /\ NoTask.absent = {}
    BY DEF NoTask
<1>4. away = {}
    BY DEF Init
<1>5. \A j \in Known : j = None
    BY <1>1, <1>2, <1>3 DEF Known
<1> QED BY <1>1, <1>2, <1>3, <1>4, <1>5 DEF PInv, Unmoved, Formed, Complete, Unique, Led, Unfollowed,
        Removed

LEMMA StepPlaces ==
    ASSUME TypeOK, TxnInHand, LockExclusion, IInv, RInv, PInv, [Next]_vars
    PROVE  PInv'
<1>1. ASSUME moves' = 0 PROVE moves = 0 /\ Unmoved'
  <2>1. moves \in Nat
      BY BoundsAssumption DEF TypeOK
  <2>2. ASSUME NEW r \in Roots, MoveAway(r) \/ MoveBack(r) PROVE moves = 0
    <3>1. moves' = moves + 1 \/ moves' = moves
        BY <2>2 DEF MoveAway, MoveBack
    <3> QED BY <1>1, <2>1, <3>1
  <2>3. ASSUME NEW p \in Procs, Acts(p) PROVE moves = 0
    <3>1. moves' = moves
        BY <2>3, CountsNoMove
    <3> QED BY <1>1, <3>1
  <2>4. moves = 0
      BY <1>1, <2>2, <2>3 DEF Next, vars, Acts
  <2> QED BY <1>1, <2>4, UnmovedKept DEF PInv
<1>2. ASSUME NEW p \in Procs, Acts(p) PROVE PInv'
  <2>1. Mine(p)
      BY DEF RInv, Working, Mine
  <2>2. Formed' /\ Unique' /\ Unfollowed'
      BY <1>2, <2>1, FormedKept, UniqueKept, UnfollowedKept DEF PInv, RInv, IInv
  <2>3. ASSUME moves' = 0 PROVE Led' /\ Removed'
    <3>1. moves = 0 /\ Unmoved /\ Unmoved' /\ Formed /\ Led /\ Removed
        BY <1>1, <2>3 DEF PInv
    <3> QED BY <1>2, <2>1, <3>1, LedKept, RemovedKept DEF RInv, IInv
  <2> QED BY <1>1, <2>2, <2>3 DEF PInv
<1>3. ASSUME UNCHANGED <<fs, pc, task>> PROVE PInv'
  <2>1. dir' = dir /\ backup' = backup /\ journal' = journal /\ pc' = pc /\ task' = task
      BY <1>3 DEF fs
  <2>2. Formed' /\ Unique' /\ Unfollowed'
      BY <2>1 DEF PInv, Formed, Unique, Known, Unfollowed
  <2>3. ASSUME moves' = 0 PROVE Led' /\ Removed'
      BY <1>1, <2>1, <2>3 DEF PInv, Led, Removed, Gone
  <2> QED BY <1>1, <2>2, <2>3 DEF PInv
<1>4. CASE \E r \in Roots : MoveAway(r) \/ MoveBack(r)
    BY <1>3, <1>4 DEF MoveAway, MoveBack
<1>5. CASE UNCHANGED vars
    BY <1>3, <1>5 DEF vars
<1> QED BY <1>2, <1>4, <1>5 DEF Next, Acts

\* Whatever sets of roots are updated, moved and recovered, by however many
\* processes: Recover repairs every publication that nobody works on, from its
\* first journal on, unless a publication of other roots has meanwhile taken a root
\* this one has not journalled, or a project was moved and its coordinator's record
\* is gone.
THEOREM InterruptedPublicationsRepairable == Spec => []OnlyOvertakenUnrepairable
<1>1. ASSUME TypeOK, Records, Coordinated, Beside, PInv PROVE OnlyOvertakenUnrepairable
  <2>1. ASSUME NEW r \in Roots \ away, journal[r] # None, journal[r].roots \cap away = {},
               ~Orphaned(r),
               ~(Decided(r, {"prepared"}) /\ \E e \in journal[r].roots : Overtaken(journal[r], e))
        PROVE  Repairable(r)
    <3> DEFINE j == journal[r]
               d == Decision(r)
    <3>1. d = journal[j.lead] /\ j \in Journals /\ j.lead \in Roots
        BY <1>1, <2>1, JournalFields DEF Decision, TypeOK
    <3>2. SameTransaction(j, d)
      <4>1. moves \in Nat
          BY <1>1, BoundsAssumption DEF TypeOK
      <4>2. CASE moves = 0
          BY <1>1, <2>1, <3>1, <4>2 DEF PInv, Led
      <4>3. CASE moves > 0
          BY <2>1, <4>3 DEF Orphaned
      <4> QED BY <4>1, <4>2, <4>3
    <3>3. /\ d \in Journals /\ d.roots = j.roots /\ d.prev = j.prev /\ d.state \in States
          /\ d.lead \in Roots /\ d.roots \subseteq Roots /\ d = journal[d.lead] /\ d # None
          /\ \A e \in d.roots : Entry(d, e)
        BY <1>1, <3>2, DecisionIs, JournalFields DEF SameTransaction
    <3>4. \A e \in d.roots : ReadJournal(e) = journal[e]
        BY <2>1, <3>3 DEF ReadJournal
    <3>5. CASE d.state = "prepared"
      <4>1. \A e \in d.roots : \/ SameTransaction(d, journal[e])
                               \/ journal[e] = None /\ dir[e] = d.prev[e]
        <5>1. \A e \in j.roots : ~Overtaken(j, e)
            BY <2>1, <3>2, <3>5 DEF Decided
        <5>2. \A e \in d.roots : SameTransaction(j, journal[e]) => SameTransaction(d, journal[e])
            BY <3>2 DEF SameTransaction
        <5> QED BY <3>3, <5>1, <5>2 DEF Overtaken
      <4>2. PeersAgree(d)
          BY <3>4, <3>5, <4>1 DEF PeersAgree
      <4>3. ASSUME NEW e \in d.roots PROVE dir[e] = d.prev[e] /\ backup[e][d.gen] = Absent
        <5>1. CASE SameTransaction(d, journal[e])
            BY <3>3, <3>5, <4>3, <5>1 DEF Entry, SameTransaction
        <5>2. CASE ~SameTransaction(d, journal[e])
            BY <1>1, <3>3, <3>5, <4>1, <4>3, <5>2 DEF PInv, Unfollowed
        <5> QED BY <5>1, <5>2
      <4> QED BY <3>2, <3>5, <4>2, <4>3 DEF Repairable
    <3>6. CASE d.state \in {"publishing", "committed", "cleaning"}
      <4>1. PeersAgree(d)
          BY <3>3, <3>4, <3>6 DEF PeersAgree, Entry, SameTransaction
      <4>2. CASE d.state = "publishing"
          BY <3>2, <3>3, <4>1, <4>2 DEF Repairable, Entry
      <4>3. CASE d.state = "committed"
          BY <3>2, <3>3, <4>1, <4>3 DEF Repairable, Entry
      <4>4. CASE d.state = "cleaning"
          BY <3>2, <3>3, <4>1, <4>4 DEF Repairable, Entry
      <4> QED BY <3>6, <4>2, <4>3, <4>4
    <3>7. CASE d.state = "finalized"
        BY <3>2, <3>7 DEF Repairable
    <3> QED BY <3>3, <3>5, <3>6, <3>7 DEF States
  <2> QED BY <2>1 DEF OnlyOvertakenUnrepairable
<1>2. TypeOK /\ IInv /\ RInv /\ PInv => OnlyOvertakenUnrepairable
    BY <1>1 DEF IInv, RInv
<1>3. Init => PInv
    BY InitPlaces
<1>4. TypeOK /\ TxnInHand /\ LockExclusion /\ IInv /\ RInv /\ PInv /\ [Next]_vars => PInv'
    BY StepPlaces
<1> QED BY <1>2, <1>3, <1>4, TypeCorrect, LocksExclude, InvariantHolds, RecoveryInvariantHolds, PTL
        DEF Spec

=============================================================================
