-------------------------- MODULE OutputStoreProofs --------------------------
(***************************************************************************)
(* Machine-checked facts about OutputStore for every number of processes,  *)
(* roots, transactions and faults: types, which process holds a lock, and  *)
(* what the locks protect.  Nothing changes at a root without its lock,    *)
(* what a reader has read stays what is published, a stage that is going   *)
(* to be promoted stays complete, and no root ever shows a torn directory. *)
(*                                                                         *)
(* The inductive invariant IInv says of every process which roots the call *)
(* is about at each step (Scope) and which of their locks it holds         *)
(* (Locked).  From that follows what it may rely on while others take      *)
(* steps: what it has read (Reading), staged (Staged), and verified        *)
(* (Undoing).  Recovery reaches a stage by its generation and not by the   *)
(* writer lock, so that generations have to be fresh until the journals    *)
(* are written (Fresh).                                                    *)
(***************************************************************************)
EXTENDS OutputStoreProperties, TLAPS

\* The steps at which a process has a transaction's journal record in hand.
TxnPcs == {"decision", "lock_recovery", "lock_finalized", "recheck_recovery",
           "verify_prepared", "drop_stage", "finalize", "retire", "verify_rollback",
           "undo_promotion", "undo_backup", "record_prepared", "verify_committed",
           "verify_cleaning", "clean", "stage", "validate", "excl_lock", "discard",
           "recheck", "persist", "publish", "promote_backup", "promote_stage", "commit"}

TxnInHand == \A p \in Procs : pc[p] \in TxnPcs => task[p].txn # None

USE DEF Gens, Contents, States

-----------------------------------------------------------------------------
(* Types *)

LEMMA NoTaskType == NoTask \in Tasks
BY MarkersAssumption DEF NoTask, Tasks

LEMMA TasksFields ==
    ASSUME NEW t \in Tasks
    PROVE /\ t.kind \in {"none", "update", "recover", "read"}
          /\ t.roots \subseteq Roots /\ t.required \subseteq Roots
          /\ t.queue \subseteq Roots /\ t.todo \subseteq Roots
          /\ t.txn \in Journals \cup {None} /\ t.absent \subseteq Roots
          /\ t.mode \in {"none", "recover", "abandon", "undo", "finish"}
          /\ t.seen \in [Roots -> Contents]
BY DEF Tasks

LEMMA JournalFields ==
    ASSUME NEW j \in Journals
    PROVE /\ j.gen \in Gens /\ j.state \in States /\ j.lead \in Roots
          /\ j.roots \subseteq Roots /\ j.prev \in [Roots -> Contents] /\ j # None
BY MarkersAssumption DEF Journals

\* What a step of p leaves well typed besides the file system.
LocalOK == /\ pc' \in [Procs -> Labels] /\ task' \in [Procs -> Tasks]
           /\ lock' \in [Procs -> Locks] /\ TxnInHand'

LEMMA TaskOf == ASSUME TypeOK, NEW p \in Procs PROVE task[p] \in Tasks
BY DEF TypeOK

LEMMA TxnOf ==
    ASSUME TypeOK, TxnInHand, NEW p \in Procs, pc[p] \in TxnPcs
    PROVE task[p].txn \in Journals
BY TaskOf, TasksFields DEF TxnInHand

LEMMA SetTodo ==
    ASSUME NEW t \in Tasks, NEW S \in SUBSET Roots
    PROVE [t EXCEPT !.todo = S] \in Tasks /\ [t EXCEPT !.todo = S].txn = t.txn
BY DEF Tasks

LEMMA SetTxn ==
    ASSUME NEW t \in Tasks, NEW j \in Journals
    PROVE [t EXCEPT !.txn = j] \in Tasks /\ [t EXCEPT !.txn = j].txn = j
BY DEF Tasks

LEMMA SetMode ==
    ASSUME NEW t \in Tasks, NEW m \in {"none", "recover", "abandon", "undo", "finish"}
    PROVE [t EXCEPT !.mode = m] \in Tasks /\ [t EXCEPT !.mode = m].txn = t.txn
BY DEF Tasks

LEMMA SetAbsent ==
    ASSUME NEW t \in Tasks, NEW S \in SUBSET Roots
    PROVE [t EXCEPT !.absent = S] \in Tasks /\ [t EXCEPT !.absent = S].txn = t.txn
BY DEF Tasks

LEMMA SetSeen ==
    ASSUME NEW t \in Tasks, NEW r \in Roots, NEW c \in Contents
    PROVE [t EXCEPT !.seen[r] = c] \in Tasks /\ [t EXCEPT !.seen[r] = c].txn = t.txn
<1>1. t.seen \in [Roots -> Contents]
  BY TasksFields
<1>2. [t.seen EXCEPT ![r] = c] \in [Roots -> Contents]
  BY <1>1
<1>3. [t EXCEPT !.seen[r] = c] = [t EXCEPT !.seen = [t.seen EXCEPT ![r] = c]]
  BY DEF Tasks
<1> QED BY <1>2, <1>3 DEF Tasks

LEMMA SetState ==
    ASSUME NEW j \in Journals, NEW s \in States
    PROVE /\ [j EXCEPT !.state = s] \in Journals
          /\ [j EXCEPT !.state = s].gen = j.gen /\ [j EXCEPT !.state = s].lead = j.lead
          /\ [j EXCEPT !.state = s].roots = j.roots /\ [j EXCEPT !.state = s].prev = j.prev
          /\ [j EXCEPT !.state = s].state = s
BY DEF Journals

\* A step of p that goes to l with the local variables t.
LEMMA Moves ==
    ASSUME TypeOK, TxnInHand, NEW p \in Procs, NEW l \in Labels, NEW t \in Tasks,
           l \in TxnPcs => t.txn # None,
           pc' = [pc EXCEPT ![p] = l], task' = [task EXCEPT ![p] = t],
           lock' \in [Procs -> Locks]
    PROVE LocalOK
BY DEF LocalOK, TypeOK, TxnInHand

LEMMA StaysLocal ==
    ASSUME TypeOK, TxnInHand, NEW p \in Procs, NEW l \in Labels, Goto(p, l), UNCHANGED task,
           l \in TxnPcs => task[p].txn # None, lock' \in [Procs -> Locks]
    PROVE LocalOK
BY DEF LocalOK, TypeOK, TxnInHand, Goto

LEMMA UnchangedLock == ASSUME TypeOK, UNCHANGED lock PROVE lock' \in [Procs -> Locks]
BY DEF TypeOK

LEMMA AddLock ==
    ASSUME TypeOK, NEW p \in Procs, NEW r \in Roots
    PROVE /\ [lock EXCEPT ![p].excl = @ \cup {r}] \in [Procs -> Locks]
          /\ [lock EXCEPT ![p].shared = @ \cup {r}] \in [Procs -> Locks]
          /\ [lock EXCEPT ![p].writer = @ \cup {r}] \in [Procs -> Locks]
          /\ [lock EXCEPT ![p].init = @ \cup {r}] \in [Procs -> Locks]
<1> DEFINE L == lock[p]
<1>1. lock \in [Procs -> Locks] /\ L \in Locks
  BY DEF TypeOK
<1>2. /\ [L EXCEPT !.excl = L.excl \cup {r}] \in Locks
      /\ [L EXCEPT !.shared = L.shared \cup {r}] \in Locks
      /\ [L EXCEPT !.writer = L.writer \cup {r}] \in Locks
      /\ [L EXCEPT !.init = L.init \cup {r}] \in Locks
  <2> HIDE DEF L
  <2> QED BY <1>1 DEF Locks
<1>3. \A M \in Locks : [lock EXCEPT ![p] = M] \in [Procs -> Locks]
  BY <1>1
<1> QED
  <2> HIDE DEF Locks
  <2> QED BY <1>2, <1>3

LEMMA DropLock ==
    ASSUME TypeOK, NEW p \in Procs
    PROVE /\ [lock EXCEPT ![p].excl = {}] \in [Procs -> Locks]
          /\ [lock EXCEPT ![p].shared = {}] \in [Procs -> Locks]
          /\ [lock EXCEPT ![p] = NoLocks] \in [Procs -> Locks]
<1> DEFINE L == lock[p]
<1>1. lock \in [Procs -> Locks] /\ L \in Locks
  BY DEF TypeOK
<1>2. [L EXCEPT !.excl = {}] \in Locks /\ [L EXCEPT !.shared = {}] \in Locks /\ NoLocks \in Locks
  <2> HIDE DEF L
  <2> QED BY <1>1 DEF Locks, NoLocks
<1>3. \A M \in Locks : [lock EXCEPT ![p] = M] \in [Procs -> Locks]
  BY <1>1
<1> QED
  <2> HIDE DEF Locks, NoLocks
  <2> QED BY <1>2, <1>3

LEMMA ReturnLocal ==
    ASSUME TypeOK, TxnInHand, NEW p \in Procs, NEW result \in Terminal, Return(p, result)
    PROVE LocalOK
<1>1. lock' \in [Procs -> Locks]
  BY DEF Return, TypeOK, Locks, NoLocks
<1>2. result \in Labels /\ result \notin TxnPcs
  BY DEF Labels, Terminal, TxnPcs
<1> QED BY <1>1, <1>2, NoTaskType, Moves DEF Return, Goto

LEMMA CleanupFailedLocal ==
    ASSUME TypeOK, TxnInHand, NEW p \in Procs, NEW late \in BOOLEAN, CleanupFailed(p, late)
    PROVE LocalOK
BY ReturnLocal DEF CleanupFailed, Terminal

LEMMA AllRoots ==
    ASSUME TypeOK, NEW p \in Procs
    PROVE All(p) \subseteq Roots /\ (task[p].txn # None => Entries(p) \subseteq Roots)
<1>1. task[p].txn # None => Entries(p) \subseteq Roots
  BY TaskOf, TasksFields, JournalFields DEF Entries
<1> QED BY <1>1, TaskOf, TasksFields DEF All

LEMMA LoopLocal ==
    ASSUME TypeOK, TxnInHand, NEW p \in Procs, NEW r, NEW label \in Labels, Loop(p, r, label),
           {label, pc[p]} \cap TxnPcs # {} => task[p].txn # None,
           lock' \in [Procs -> Locks]
    PROVE LocalOK
<1> DEFINE rest == task[p].todo \ {r}
           next == IF rest = {} THEN All(p) ELSE rest
           l == IF rest = {} THEN label ELSE pc[p]
           t == [task[p] EXCEPT !.todo = next]
<1>1. next \in SUBSET Roots
  BY TaskOf, TasksFields, AllRoots
<1>2. t \in Tasks /\ t.txn = task[p].txn
  BY <1>1, TaskOf, SetTodo
<1>3. l \in Labels /\ (l \in TxnPcs => task[p].txn # None)
  BY DEF TypeOK
<1>4. task' = [task EXCEPT ![p] = t] /\ pc' = [pc EXCEPT ![p] = l]
  BY DEF Loop, Goto
<1> QED
  <2> HIDE DEF t, l
  <2> QED BY <1>2, <1>3, <1>4, Moves

LEMMA RecoveredLocal ==
    ASSUME TypeOK, TxnInHand, NEW p \in Procs, NEW r, Recovered(p, r)
    PROVE LocalOK
<1> DEFINE rest == task[p].queue \ {r}
           next == [NoTask EXCEPT !.kind = task[p].kind, !.roots = task[p].roots, !.queue = rest]
           more == [next EXCEPT !.todo = task[p].roots]
<1>1. next \in Tasks /\ more \in Tasks
  BY TaskOf, TasksFields, MarkersAssumption DEF Tasks, NoTask
<1> {"recover", "writer_lock"} \subseteq Labels \ TxnPcs
  BY DEF Labels, TxnPcs
<1>2. CASE rest # {}
  <2>1. /\ task' = [task EXCEPT ![p] = next] /\ pc' = [pc EXCEPT ![p] = "recover"]
        /\ lock' = [lock EXCEPT ![p] = NoLocks]
    BY <1>2 DEF Recovered, Goto
  <2>2. lock' \in [Procs -> Locks]
    BY <2>1, DropLock
  <2> HIDE DEF next, more
  <2> QED BY <1>1, <2>1, <2>2, Moves
<1>3. CASE rest = {} /\ task[p].kind = "update"
  <2>1. /\ task' = [task EXCEPT ![p] = more] /\ pc' = [pc EXCEPT ![p] = "writer_lock"]
        /\ lock' = [lock EXCEPT ![p] = NoLocks]
    BY <1>3 DEF Recovered, Goto
  <2>2. lock' \in [Procs -> Locks]
    BY <2>1, DropLock
  <2> HIDE DEF next, more
  <2> QED BY <1>1, <2>1, <2>2, Moves
<1>4. CASE rest = {} /\ task[p].kind # "update"
  BY <1>4, ReturnLocal DEF Recovered, Terminal
<1> QED BY <1>2, <1>3, <1>4

\* A decision recorded or refused: the journal and the process stay well typed.
LEMMA RecordLocal ==
    ASSUME TypeOK, TxnInHand, NEW p \in Procs, pc[p] \in TxnPcs,
           NEW s \in States, NEW l \in Labels, RecordDecision(p, s, l)
    PROVE LocalOK /\ journal' \in [Roots -> Journals \cup {None}] /\ faults' \in 0..MaxFaults
<1> DEFINE t == [task[p].txn EXCEPT !.state = s]
           u == [task[p] EXCEPT !.txn = t]
<1>1. t \in Journals /\ t.lead \in Roots /\ t # None
  BY TxnOf, SetState, JournalFields
<1>2. u \in Tasks /\ u.txn = t
  BY <1>1, TaskOf, SetTxn
<1>3. CASE Write(t.lead, t) /\ task' = [task EXCEPT ![p].txn = t] /\ Goto(p, l) /\ UNCHANGED <<lock, faults>>
  <2>1. journal' \in [Roots -> Journals \cup {None}] /\ faults' \in 0..MaxFaults
    BY <1>1, <1>3 DEF Write, TypeOK
  <2>2. task' = [task EXCEPT ![p] = u] /\ pc' = [pc EXCEPT ![p] = l] /\ lock' \in [Procs -> Locks]
    BY <1>3, UnchangedLock DEF Goto
  <2>3. LocalOK
    <3> HIDE DEF u
    <3> QED BY <1>1, <1>2, <2>2, Moves
  <2> QED BY <2>1, <2>3
<1>4. CASE WriteFails(t.lead, t) /\ CleanupFailed(p, s = "finalized")
  <2>1. journal' \in [Roots -> Journals \cup {None}]
    <3> HIDE DEF t
    <3> QED BY <1>1, <1>4 DEF WriteFails, Write, TypeOK
  <2>2. faults' \in 0..MaxFaults
    BY <1>4, BoundsAssumption DEF WriteFails, Fault, TypeOK
  <2> QED BY <1>4, <2>1, <2>2, CleanupFailedLocal
<1> QED BY <1>3, <1>4 DEF RecordDecision

LEMMA RetiredLocal ==
    ASSUME TypeOK, TxnInHand, NEW p \in Procs, Retired(p)
    PROVE LocalOK
<1>1. CASE task[p].mode \in {"abandon", "undo"}
  BY <1>1, ReturnLocal DEF Retired, Terminal
<1>2. CASE task[p].mode = "finish"
  BY <1>2, ReturnLocal DEF Retired, Terminal
<1>3. CASE task[p].mode \notin {"abandon", "undo", "finish"}
  <2>1. PICK r : Recovered(p, r)
    BY <1>3 DEF Retired
  <2> QED BY <2>1, RecoveredLocal
<1> QED BY <1>1, <1>2, <1>3

\* The file system and the counters are well typed.
FilesOK == /\ dir \in [Roots -> Contents]
           /\ stage \in [Roots -> [Gens -> Contents]]
           /\ backup \in [Roots -> [Gens -> Contents]]
           /\ journal \in [Roots -> Journals \cup {None}]
           /\ leased \subseteq Roots /\ away \subseteq Roots
CountersOK == nextGen \in 1..(MaxGen + 1) /\ faults \in 0..MaxFaults /\ moves \in 0..MaxMoves

LEMMA TypesJoined == ASSUME FilesOK', CountersOK', LocalOK PROVE TypeOK' /\ TxnInHand'
BY DEF TypeOK, FilesOK, CountersOK, LocalOK

LEMMA SameFiles == ASSUME TypeOK, UNCHANGED <<fs, leased, away>> PROVE FilesOK'
BY DEF TypeOK, FilesOK, fs

LEMMA SameCounters == ASSUME TypeOK, UNCHANGED <<nextGen, faults, moves>> PROVE CountersOK'
BY DEF TypeOK, CountersOK

LEMMA FaultCounted == ASSUME TypeOK, Fault, UNCHANGED <<nextGen, moves>> PROVE CountersOK'
BY BoundsAssumption DEF TypeOK, CountersOK, Fault

LEMMA DirSet ==
    ASSUME TypeOK, NEW r \in Roots, NEW c \in Contents, dir' = [dir EXCEPT ![r] = c]
    PROVE dir' \in [Roots -> Contents]
BY DEF TypeOK

LEMMA StageSet ==
    ASSUME TypeOK, NEW r \in Roots, NEW g \in Gens, NEW c \in Contents,
           stage' = [stage EXCEPT ![r][g] = c]
    PROVE stage' \in [Roots -> [Gens -> Contents]]
BY DEF TypeOK

LEMMA BackupSet ==
    ASSUME TypeOK, NEW r \in Roots, NEW g \in Gens, NEW c \in Contents,
           backup' = [backup EXCEPT ![r][g] = c]
    PROVE backup' \in [Roots -> [Gens -> Contents]]
BY DEF TypeOK

LEMMA SetJournal ==
    ASSUME TypeOK, NEW r \in Roots, NEW j \in Journals \cup {None}
    PROVE [journal EXCEPT ![r] = j] \in [Roots -> Journals \cup {None}]
BY DEF TypeOK

LEMMA ContentOf ==
    ASSUME TypeOK, NEW r \in Roots, NEW g \in Gens
    PROVE dir[r] \in Contents /\ stage[r][g] \in Contents /\ backup[r][g] \in Contents
<1> HIDE DEF Gens, Contents
<1>1. /\ dir \in [Roots -> Contents] /\ stage \in [Roots -> [Gens -> Contents]]
      /\ backup \in [Roots -> [Gens -> Contents]]
  BY DEF TypeOK
<1> QED BY <1>1

LEMMA GenContents == Gens \subseteq Contents /\ Absent \in Contents /\ Torn \in Contents
BY BoundsAssumption

LEMMA StepRoots ==
    ASSUME TypeOK, NEW p \in Procs
    PROVE task[p].todo \subseteq Roots /\ task[p].queue \subseteq Roots /\ task[p].roots \subseteq Roots
BY TaskOf, TasksFields

LEMMA JournalRead ==
    ASSUME TypeOK, NEW r \in Roots, ReadJournal(r) # None
    PROVE ReadJournal(r) \in Journals /\ ReadJournal(r) = journal[r]
BY DEF ReadJournal, TypeOK

LEMMA LockForLocal ==
    ASSUME TypeOK, TxnInHand, NEW p \in Procs, NEW j \in Journals, NEW l \in Labels,
           LockFor(p, j, l), lock' \in [Procs -> Locks]
    PROVE LocalOK
<1> DEFINE t == [task[p] EXCEPT !.txn = j, !.absent = AbsentEntries(j),
                                !.todo = j.roots \ AbsentEntries(j)]
<1>1. AbsentEntries(j) \subseteq Roots /\ j.roots \subseteq Roots /\ j # None
  BY JournalFields DEF AbsentEntries
<1>2. t \in Tasks /\ t.txn = j
  <2> HIDE DEF AbsentEntries
  <2> QED BY <1>1, TaskOf DEF Tasks
<1>3. task' = [task EXCEPT ![p] = t] /\ pc' = [pc EXCEPT ![p] = l]
  BY DEF LockFor, Goto
<1> QED
  <2> HIDE DEF t
  <2> QED BY <1>1, <1>2, <1>3, Moves

LEMMA RecoverStepType ==
    ASSUME TypeOK, TxnInHand, NEW p \in Procs, RecoverStep(p)
    PROVE TypeOK' /\ TxnInHand'
<1>1. FilesOK' /\ CountersOK'
  <2>1. UNCHANGED <<fs, leased, away>> /\ UNCHANGED <<nextGen, faults, moves>>
    BY DEF RecoverStep, RecoverReadLocal, RecoverReadDecision, RecoverLock,
           RecoverLockFails, RecoverRecheck
  <2> QED BY <2>1, SameFiles, SameCounters
<1> {"decision", "lock_recovery", "lock_finalized", "recheck_recovery", "retire"}
       \subseteq Labels \cap TxnPcs
  BY DEF Labels, TxnPcs
<1> {"failed", "recovery_required"} \subseteq Terminal
  BY DEF Terminal
<1>2. CASE RecoverReadLocal(p)
  <2>1. PICK r \in task[p].queue :
            IF ReadJournal(r) = None
            THEN Recovered(p, r)
            ELSE /\ task' = [task EXCEPT ![p].txn = journal[r]]
                 /\ Goto(p, "decision") /\ UNCHANGED lock
    BY <1>2 DEF RecoverReadLocal
  <2>2. CASE ReadJournal(r) = None
    BY <2>1, <2>2, RecoveredLocal, <1>1, TypesJoined
  <2>3. CASE ReadJournal(r) # None
    <3> DEFINE t == [task[p] EXCEPT !.txn = journal[r]]
    <3>1. journal[r] \in Journals
      BY <2>3, JournalRead, StepRoots
    <3>2. t \in Tasks /\ t.txn # None
      BY <3>1, TaskOf, SetTxn, JournalFields
    <3>3. task' = [task EXCEPT ![p] = t] /\ pc' = [pc EXCEPT ![p] = "decision"]
      BY <2>1, <2>3 DEF Goto
    <3>4. lock' \in [Procs -> Locks]
      BY <2>1, <2>3, UnchangedLock
    <3>5. LocalOK
      <4> HIDE DEF t
      <4> QED BY <3>2, <3>3, <3>4, Moves
    <3> QED BY <3>5, <1>1, TypesJoined
  <2> QED BY <2>2, <2>3
<1>3. CASE RecoverReadDecision(p)
  <2> DEFINE d == ReadJournal(task[p].txn.lead)
  <2>1. task[p].txn \in Journals /\ task[p].txn.lead \in Roots
    BY <1>3, TxnOf, JournalFields DEF RecoverReadDecision
  <2>2. CASE ~SameTransaction(task[p].txn, d)
    BY <1>3, <2>2, ReturnLocal, <1>1, TypesJoined DEF RecoverReadDecision
  <2>3. CASE SameTransaction(task[p].txn, d)
    <3>1. d \in Journals
      BY <2>1, <2>3, JournalRead DEF SameTransaction
    <3>2. PICK l \in {"lock_recovery", "lock_finalized"} : LockFor(p, d, l) /\ UNCHANGED lock
      BY <1>3, <2>3 DEF RecoverReadDecision
    <3>3. LocalOK
      BY <3>1, <3>2, UnchangedLock, LockForLocal
    <3> QED BY <3>3, <1>1, TypesJoined
  <2> QED BY <2>2, <2>3
<1>4. CASE RecoverLock(p)
  <2>1. PICK r \in task[p].todo, l \in {"retire", "recheck_recovery"} :
            lock' = [lock EXCEPT ![p].excl = @ \cup {r}] /\ Loop(p, r, l)
    BY <1>4 DEF RecoverLock
  <2>2. lock' \in [Procs -> Locks]
    BY <2>1, StepRoots, AddLock
  <2>3. task[p].txn # None
    BY <1>4 DEF RecoverLock, TxnInHand
  <2>4. LocalOK
    BY <2>1, <2>2, <2>3, LoopLocal
  <2> QED BY <2>4, <1>1, TypesJoined
<1>5. CASE RecoverLockFails(p)
  <2> DEFINE d == ReadJournal(task[p].txn.lead)
  <2>1. task[p].txn \in Journals /\ task[p].txn.lead \in Roots
    BY <1>5, TxnOf, JournalFields DEF RecoverLockFails
  <2>2. CASE Return(p, "failed")
    BY <2>2, ReturnLocal, <1>1, TypesJoined
  <2>3. CASE SameTransaction(task[p].txn, d) /\ LockFor(p, d, "lock_finalized")
             /\ lock' = [lock EXCEPT ![p] = NoLocks]
    <3>1. d \in Journals
      BY <2>1, <2>3, JournalRead DEF SameTransaction
    <3>2. LocalOK
      BY <2>3, <3>1, DropLock, LockForLocal
    <3> QED BY <3>2, <1>1, TypesJoined
  <2> QED BY <1>5, <2>2, <2>3 DEF RecoverLockFails
<1>6. CASE RecoverRecheck(p)
  <2>1. PICK r \in task[p].queue :
            LET t == task[p].txn
                d == ReadJournal(t.lead)
            IN \/ Recovered(p, r)
               \/ Return(p, "recovery_required")
               \/ /\ SameTransaction(t, d)
                  /\ task' = [task EXCEPT ![p].txn = d, ![p].mode = "recover"]
                  /\ Goto(p, RepairStep(d.state)) /\ UNCHANGED lock
    BY <1>6 DEF RecoverRecheck
  <2> DEFINE d == ReadJournal(task[p].txn.lead)
             t == [task[p] EXCEPT !.txn = d, !.mode = "recover"]
  <2>2. CASE Recovered(p, r)
    BY <2>2, RecoveredLocal, <1>1, TypesJoined
  <2>3. CASE Return(p, "recovery_required")
    BY <2>3, ReturnLocal, <1>1, TypesJoined
  <2>4. CASE /\ SameTransaction(task[p].txn, d)
             /\ task' = [task EXCEPT ![p].txn = d, ![p].mode = "recover"]
             /\ Goto(p, RepairStep(d.state)) /\ UNCHANGED lock
    <3>1. task[p].txn.lead \in Roots
      BY <1>6, TxnOf, JournalFields DEF RecoverRecheck
    <3>2. d \in Journals /\ d.state \in States /\ d # None
      BY <2>4, <3>1, JournalRead, JournalFields DEF SameTransaction
    <3>3. t \in Tasks /\ t.txn = d
      BY <3>2, TaskOf DEF Tasks
    <3>4. RepairStep(d.state) \in Labels
      BY <3>2 DEF RepairStep, Labels
    <3>5. task' = [task EXCEPT ![p] = t] /\ pc' = [pc EXCEPT ![p] = RepairStep(d.state)]
      BY <2>4 DEF Goto
    <3>6. lock' \in [Procs -> Locks]
      BY <2>4, UnchangedLock
    <3>7. LocalOK
      <4> HIDE DEF t, d
      <4> QED BY <3>2, <3>3, <3>4, <3>5, <3>6, Moves
    <3> QED BY <3>7, <1>1, TypesJoined
  <2> QED BY <2>1, <2>2, <2>3, <2>4
<1> QED BY <1>2, <1>3, <1>4, <1>5, <1>6 DEF RecoverStep

LEMMA NextEntryLocal ==
    ASSUME TypeOK, TxnInHand, NEW p \in Procs, NEW r, NEW l \in Labels, Goto(p, l),
           task' = [task EXCEPT ![p].todo = IF @ = {r} THEN All(p) ELSE @ \ {r}],
           l \in TxnPcs => task[p].txn # None, lock' \in [Procs -> Locks]
    PROVE LocalOK
<1> DEFINE next == IF task[p].todo = {r} THEN All(p) ELSE task[p].todo \ {r}
           t == [task[p] EXCEPT !.todo = next]
<1>1. next \in SUBSET Roots
  BY StepRoots, AllRoots
<1>2. t \in Tasks /\ t.txn = task[p].txn
  BY <1>1, TaskOf, SetTodo
<1>3. task' = [task EXCEPT ![p] = t] /\ pc' = [pc EXCEPT ![p] = l]
  BY DEF Goto
<1> QED
  <2> HIDE DEF t
  <2> QED BY <1>2, <1>3, Moves

LEMMA RefillLocal ==
    ASSUME TypeOK, TxnInHand, NEW p \in Procs, NEW l \in Labels, Goto(p, l),
           task' = [task EXCEPT ![p].todo = All(p)],
           l \in TxnPcs => task[p].txn # None, lock' \in [Procs -> Locks]
    PROVE LocalOK
<1> DEFINE t == [task[p] EXCEPT !.todo = All(p)]
<1>1. t \in Tasks /\ t.txn = task[p].txn
  BY AllRoots, TaskOf, SetTodo
<1>2. task' = [task EXCEPT ![p] = t] /\ pc' = [pc EXCEPT ![p] = l]
  BY DEF Goto
<1> QED
  <2> HIDE DEF t
  <2> QED BY <1>1, <1>2, Moves

LEMMA ModeLocal ==
    ASSUME TypeOK, TxnInHand, NEW p \in Procs, NEW l \in Labels, Goto(p, l),
           NEW m \in {"abandon", "undo"},
           task' = [task EXCEPT ![p].mode = m, ![p].todo = All(p)],
           l \in TxnPcs => task[p].txn # None, lock' \in [Procs -> Locks]
    PROVE LocalOK
<1> DEFINE u == [task[p] EXCEPT !.mode = m]
           t == [u EXCEPT !.todo = All(p)]
<1>1. t \in Tasks /\ t.txn = task[p].txn
  <2>1. u \in Tasks /\ u.txn = task[p].txn
    BY TaskOf, SetMode
  <2> HIDE DEF u
  <2> QED BY <2>1, AllRoots, SetTodo
<1>2. task' = [task EXCEPT ![p] = t] /\ pc' = [pc EXCEPT ![p] = l]
  BY DEF Goto
<1> QED
  <2> HIDE DEF t
  <2> QED BY <1>1, <1>2, Moves

\* Steps that check something and go on, or give up.
LEMMA CheckType ==
    ASSUME TypeOK, TxnInHand, NEW p \in Procs, NEW l \in Labels,
           l \in TxnPcs => task[p].txn # None,
           \/ Goto(p, l) /\ UNCHANGED <<task, lock>>
           \/ CleanupFailed(p, FALSE),
           UNCHANGED <<fs, leased, away, nextGen, faults, moves>>
    PROVE TypeOK' /\ TxnInHand'
<1>1. FilesOK' /\ CountersOK'
  BY SameFiles, SameCounters
<1>2. LocalOK
  BY StaysLocal, UnchangedLock, CleanupFailedLocal
<1> QED BY <1>1, <1>2, TypesJoined

LEMMA CleanupStepType ==
    ASSUME TypeOK, TxnInHand, NEW p \in Procs, CleanupStep(p)
    PROVE TypeOK' /\ TxnInHand'
<1> HIDE DEF Gens, Contents
<1> {"drop_stage", "finalize", "retire", "undo_promotion", "undo_backup", "record_prepared",
     "verify_prepared", "verify_cleaning", "clean"} \subseteq Labels \cap TxnPcs
  BY DEF Labels, TxnPcs
<1> {"prepared", "cleaning", "finalized"} \subseteq States
  OBVIOUS
<1>1. pc[p] \in TxnPcs
  BY DEF CleanupStep, VerifyPrepared, DropStage, Finalize, Retire, VerifyRollback, UndoPromotion,
         UndoBackup, RecordPrepared, VerifyCommitted, VerifyCleaning, Clean, TxnPcs
<1>2. task[p].txn \in Journals /\ task[p].txn # None /\ task[p].txn.gen \in Gens
  BY <1>1, TxnOf, JournalFields
<1>3. CASE VerifyPrepared(p)
  BY <1>2, <1>3, CheckType DEF VerifyPrepared
<1>4. CASE VerifyRollback(p)
  BY <1>2, <1>4, CheckType DEF VerifyRollback
<1>5. CASE VerifyCleaning(p)
  BY <1>2, <1>5, CheckType DEF VerifyCleaning
<1>6. CASE DropStage(p)
  <2>1. PICK r \in task[p].todo :
            \/ /\ stage' = [stage EXCEPT ![r][task[p].txn.gen] = Absent]
               /\ Loop(p, r, "finalize") /\ UNCHANGED <<lock, faults>>
            \/ /\ Fault
               /\ stage' = [stage EXCEPT ![r][task[p].txn.gen] = Torn]
               /\ CleanupFailed(p, FALSE)
    BY <1>6 DEF DropStage
  <2>2. UNCHANGED <<dir, backup, journal, leased, away, nextGen, moves>>
    BY <1>6 DEF DropStage
  <2> r \in Roots
    BY StepRoots
  <2>3. FilesOK'
    <3>1. stage' \in [Roots -> [Gens -> Contents]]
      <4>1. CASE UNCHANGED stage
        BY <4>1 DEF TypeOK
      <4>2. CASE ~UNCHANGED stage
        BY <4>2, <1>2, <2>1, StageSet, GenContents
      <4> QED BY <4>1, <4>2
    <3> QED BY <3>1, <2>2 DEF TypeOK, FilesOK
  <2>4. CountersOK'
    BY <2>1, <2>2, SameCounters, FaultCounted
  <2>5. LocalOK
    BY <1>2, <2>1, LoopLocal, UnchangedLock, CleanupFailedLocal
  <2> QED BY <2>3, <2>4, <2>5, TypesJoined
<1>7. ASSUME NEW s \in States, NEW l \in Labels, RecordDecision(p, s, l),
             UNCHANGED <<dir, stage, backup, leased, away, nextGen, moves>>
      PROVE TypeOK' /\ TxnInHand'
  <2>1. LocalOK /\ journal' \in [Roots -> Journals \cup {None}] /\ faults' \in 0..MaxFaults
    BY <1>1, <1>7, RecordLocal
  <2>2. FilesOK' /\ CountersOK'
    BY <2>1, <1>7 DEF FilesOK, CountersOK, TypeOK
  <2> QED BY <2>1, <2>2, TypesJoined
<1>8. CASE Finalize(p)
  BY <1>7, <1>8 DEF Finalize
<1>9. CASE RecordPrepared(p)
  BY <1>7, <1>9 DEF RecordPrepared
<1>10. CASE VerifyCommitted(p)
  <2>1. CASE RecordDecision(p, "cleaning", "verify_cleaning")
    BY <1>7, <1>10, <2>1 DEF VerifyCommitted
  <2>2. CASE CleanupFailed(p, FALSE) /\ UNCHANGED <<journal, faults>>
    <3>1. UNCHANGED <<fs, leased, away, nextGen, faults, moves>>
      BY <1>10, <2>2 DEF VerifyCommitted, fs
    <3> QED BY <1>2, <2>2, <3>1, CheckType
  <2> QED BY <1>10, <2>1, <2>2 DEF VerifyCommitted
<1>11. CASE Retire(p)
  <2>1. PICK r \in task[p].todo :
            \/ /\ Write(r, None) \/ UNCHANGED journal
               /\ Retired(p) \/ (Loop(p, r, "retire") /\ UNCHANGED lock)
               /\ UNCHANGED faults
            \/ WriteFails(r, None) /\ CleanupFailed(p, TRUE)
    BY <1>11 DEF Retire
  <2>2. UNCHANGED <<dir, stage, backup, leased, away, nextGen, moves>>
    BY <1>11 DEF Retire
  <2>3. FilesOK'
    BY <2>1, <2>2, StepRoots, SetJournal DEF TypeOK, FilesOK, Write, WriteFails
  <2>4. CountersOK'
    BY <2>1, <2>2, SameCounters, FaultCounted DEF WriteFails
  <2>5. LocalOK
    BY <1>2, <2>1, RetiredLocal, LoopLocal, UnchangedLock, CleanupFailedLocal
  <2> QED BY <2>3, <2>4, <2>5, TypesJoined
<1>12. CASE UndoPromotion(p)
  <2> DEFINE g == task[p].txn.gen
  <2>1. PICK r \in task[p].todo :
            /\ \/ dir' = [dir EXCEPT ![r] = Absent] /\ stage' = [stage EXCEPT ![r][g] = g]
               \/ UNCHANGED <<dir, stage>>
            /\ \/ Goto(p, "undo_backup") /\ UNCHANGED <<task, lock, faults>>
               \/ Fault /\ CleanupFailed(p, FALSE)
    BY <1>12 DEF UndoPromotion
  <2>2. UNCHANGED <<backup, journal, leased, away, nextGen, moves>>
    BY <1>12 DEF UndoPromotion
  <2> r \in Roots
    BY StepRoots
  <2>3. FilesOK'
    <3>1. dir' \in [Roots -> Contents]
      <4>1. CASE UNCHANGED dir
        BY <4>1 DEF TypeOK
      <4>2. CASE ~UNCHANGED dir
        BY <4>2, <1>2, <2>1, DirSet, GenContents
      <4> QED BY <4>1, <4>2
    <3>2. stage' \in [Roots -> [Gens -> Contents]]
      <4>1. CASE UNCHANGED stage
        BY <4>1 DEF TypeOK
      <4>2. CASE ~UNCHANGED stage
        BY <4>2, <1>2, <2>1, StageSet, GenContents
      <4> QED BY <4>1, <4>2
    <3> QED BY <3>1, <3>2, <2>2 DEF TypeOK, FilesOK
  <2>4. CountersOK'
    BY <2>1, <2>2, SameCounters, FaultCounted
  <2>5. LocalOK
    BY <1>2, <2>1, StaysLocal, UnchangedLock, CleanupFailedLocal
  <2> QED BY <2>3, <2>4, <2>5, TypesJoined
<1>13. CASE UndoBackup(p)
  <2> DEFINE g == task[p].txn.gen
  <2>1. PICK r \in task[p].todo :
            /\ \/ /\ dir' = [dir EXCEPT ![r] = backup[r][g]]
                  /\ backup' = [backup EXCEPT ![r][g] = Absent]
               \/ UNCHANGED <<dir, backup>>
            /\ \/ /\ Goto(p, "record_prepared") \/ Goto(p, "undo_promotion")
                  /\ task' = [task EXCEPT ![p].todo = IF @ = {r} THEN All(p) ELSE @ \ {r}]
                  /\ UNCHANGED <<lock, faults>>
               \/ Fault /\ CleanupFailed(p, FALSE)
    BY <1>13 DEF UndoBackup
  <2>2. UNCHANGED <<stage, journal, leased, away, nextGen, moves>>
    BY <1>13 DEF UndoBackup
  <2>3. r \in Roots /\ backup[r][g] \in Contents
    BY <1>2, StepRoots, ContentOf
  <2>4. FilesOK'
    <3>1. dir' \in [Roots -> Contents]
      <4>1. CASE UNCHANGED dir
        BY <4>1 DEF TypeOK
      <4>2. CASE ~UNCHANGED dir
        BY <4>2, <1>2, <2>1, <2>3, DirSet, GenContents
      <4> QED BY <4>1, <4>2
    <3>2. backup' \in [Roots -> [Gens -> Contents]]
      <4>1. CASE UNCHANGED backup
        BY <4>1 DEF TypeOK
      <4>2. CASE ~UNCHANGED backup
        BY <4>2, <1>2, <2>1, <2>3, BackupSet, GenContents
      <4> QED BY <4>1, <4>2
    <3> QED BY <3>1, <3>2, <2>2 DEF TypeOK, FilesOK
  <2>5. CountersOK'
    BY <2>1, <2>2, SameCounters, FaultCounted
  <2>6. LocalOK
    BY <1>2, <2>1, NextEntryLocal, UnchangedLock, CleanupFailedLocal
  <2> QED BY <2>4, <2>5, <2>6, TypesJoined
<1>14. CASE Clean(p)
  <2> DEFINE g == task[p].txn.gen
  <2>1. PICK r \in task[p].todo :
            /\ \E a, b \in {Absent, Torn} :
                  /\ stage' = [stage EXCEPT ![r][g] = a]
                  /\ \/ backup' = [backup EXCEPT ![r][g] = b]
                     \/ UNCHANGED backup
            /\ \/ Loop(p, r, "finalize") /\ UNCHANGED <<lock, faults>>
               \/ Fault /\ CleanupFailed(p, FALSE)
    BY <1>14 DEF Clean
  <2>2. UNCHANGED <<dir, journal, leased, away, nextGen, moves>>
    BY <1>14 DEF Clean
  <2> r \in Roots
    BY StepRoots
  <2>3. FilesOK'
    <3>1. stage' \in [Roots -> [Gens -> Contents]]
      <4>1. CASE UNCHANGED stage
        BY <4>1 DEF TypeOK
      <4>2. CASE ~UNCHANGED stage
        BY <4>2, <1>2, <2>1, StageSet, GenContents
      <4> QED BY <4>1, <4>2
    <3>2. backup' \in [Roots -> [Gens -> Contents]]
      <4>1. CASE UNCHANGED backup
        BY <4>1 DEF TypeOK
      <4>2. CASE ~UNCHANGED backup
        BY <4>2, <1>2, <2>1, BackupSet, GenContents
      <4> QED BY <4>1, <4>2
    <3> QED BY <3>1, <3>2, <2>2 DEF TypeOK, FilesOK
  <2>4. CountersOK'
    BY <2>1, <2>2, SameCounters, FaultCounted
  <2>5. LocalOK
    BY <1>2, <2>1, LoopLocal, UnchangedLock, CleanupFailedLocal
  <2> QED BY <2>3, <2>4, <2>5, TypesJoined
<1> QED BY <1>3, <1>4, <1>5, <1>6, <1>8, <1>9, <1>10, <1>11, <1>12, <1>13, <1>14 DEF CleanupStep

LEMMA UndoLocal ==
    ASSUME TypeOK, TxnInHand, NEW p \in Procs, pc[p] \in TxnPcs, Undo(p), UNCHANGED lock
    PROVE LocalOK
<1>1. "verify_rollback" \in Labels /\ task[p].txn # None
  BY DEF Labels, TxnInHand
<1> QED BY <1>1, ModeLocal, UnchangedLock DEF Undo

LEMMA LockingType ==
    ASSUME TypeOK, TxnInHand, NEW p \in Procs,
           WriterLock(p) \/ SharedLock(p) \/ Inspect(p) \/ Prepare(p)
    PROVE TypeOK' /\ TxnInHand'
<1> HIDE DEF Gens, Contents
<1> {"shared_lock", "inspect", "prepare", "stage"} \subseteq Labels
  BY DEF Labels
<1> {"writer_lock", "shared_lock", "inspect", "prepare"} \cap TxnPcs = {}
  BY DEF TxnPcs
<1>1. CASE WriterLock(p)
  <2>1. PICK r \in task[p].todo : /\ lock' = [lock EXCEPT ![p].writer = @ \cup {r}]
                                  /\ leased' = leased \cup {r}
                                  /\ Loop(p, r, "shared_lock")
    BY <1>1 DEF WriterLock
  <2>2. r \in Roots
    BY StepRoots
  <2>3. LocalOK
    <3>1. lock' \in [Procs -> Locks]
      BY <2>1, <2>2, AddLock
    <3>2. {"shared_lock", pc[p]} \cap TxnPcs = {}
      BY <1>1 DEF WriterLock
    <3> QED BY <2>1, <3>1, <3>2, LoopLocal
  <2>4. FilesOK' /\ CountersOK'
    BY <1>1, <2>1, <2>2, SameCounters DEF WriterLock, FilesOK, TypeOK, fs
  <2> QED BY <2>3, <2>4, TypesJoined
<1>2. CASE SharedLock(p)
  <2>1. PICK r \in task[p].todo : /\ lock' = [lock EXCEPT ![p].shared = @ \cup {r}]
                                  /\ Loop(p, r, "inspect")
    BY <1>2 DEF SharedLock
  <2>2. lock' \in [Procs -> Locks]
    BY <2>1, StepRoots, AddLock
  <2>3. {"inspect", pc[p]} \cap TxnPcs = {}
    BY <1>2 DEF SharedLock
  <2>4. LocalOK
    BY <2>1, <2>2, <2>3, LoopLocal
  <2>5. FilesOK' /\ CountersOK'
    BY <1>2, SameFiles, SameCounters DEF SharedLock
  <2> QED BY <2>4, <2>5, TypesJoined
<1>3. CASE Inspect(p)
  <2>1. PICK r \in task[p].todo :
            \/ Return(p, "recovery_required") /\ UNCHANGED stage
            \/ /\ stage' = [stage EXCEPT ![r] = [g \in Gens |-> Absent]]
               /\ Loop(p, r, "prepare") /\ UNCHANGED lock
    BY <1>3 DEF Inspect
  <2>2. LocalOK
    BY <1>3, <2>1, ReturnLocal, UnchangedLock, LoopLocal DEF Inspect, Terminal
  <2>3. stage' \in [Roots -> [Gens -> Contents]]
    BY <2>1, GenContents DEF TypeOK
  <2>4. FilesOK' /\ CountersOK'
    BY <1>3, <2>3, SameCounters DEF Inspect, FilesOK, TypeOK
  <2> QED BY <2>2, <2>4, TypesJoined
<1>4. CASE Prepare(p)
  <2>1. PICK lead \in task[p].roots :
            task' = [task EXCEPT ![p].txn =
               [gen |-> nextGen, state |-> "prepared", lead |-> lead, roots |-> task[p].roots,
                prev |-> [r \in Roots |-> IF r \in task[p].roots THEN dir[r] ELSE Absent]]]
    BY <1>4 DEF Prepare
  <2> DEFINE prev == [r \in Roots |-> IF r \in task[p].roots THEN dir[r] ELSE Absent]
             j == [gen |-> nextGen, state |-> "prepared", lead |-> lead, roots |-> task[p].roots,
                   prev |-> prev]
             t == [task[p] EXCEPT !.txn = j]
  <2>2. prev \in [Roots -> Contents]
    BY GenContents DEF TypeOK
  <2>3. j \in Journals
    <3> HIDE DEF prev
    <3> QED BY <1>4, <2>2, StepRoots DEF Prepare, Journals
  <2>4. t \in Tasks /\ t.txn # None
    <3> HIDE DEF j
    <3> QED BY <2>3, TaskOf, SetTxn, JournalFields
  <2>5. task' = [task EXCEPT ![p] = t] /\ pc' = [pc EXCEPT ![p] = "stage"]
    BY <1>4, <2>1 DEF Prepare, Goto
  <2>6. LocalOK
    <3>1. lock' \in [Procs -> Locks]
      BY <1>4, UnchangedLock DEF Prepare
    <3> HIDE DEF t
    <3> QED BY <2>4, <2>5, <3>1, Moves
  <2>7. CountersOK'
    BY <1>4, BoundsAssumption DEF Prepare, CountersOK, TypeOK, Gens
  <2>8. FilesOK'
    BY <1>4, SameFiles DEF Prepare
  <2> QED BY <2>6, <2>7, <2>8, TypesJoined
<1> QED BY <1>1, <1>2, <1>3, <1>4

LEMMA StagingType ==
    ASSUME TypeOK, TxnInHand, NEW p \in Procs,
           Stage(p) \/ Validate(p) \/ ExclLock(p) \/ Discard(p) \/ Recheck(p)
    PROVE TypeOK' /\ TxnInHand'
<1> HIDE DEF Gens, Contents
<1> {"validate", "discard", "excl_lock", "recheck", "persist"} \subseteq Labels
  BY DEF Labels
<1>1. task[p].txn # None /\ task[p].txn.gen \in Gens
  <2>1. pc[p] \in TxnPcs
    BY DEF Stage, Validate, ExclLock, Discard, Recheck, TxnPcs
  <2> QED BY <2>1, TxnOf, JournalFields
<1>2. CASE Stage(p)
  <2>1. PICK r \in task[p].todo, c \in {task[p].txn.gen, Absent, Torn} :
            /\ stage' = [stage EXCEPT ![r][task[p].txn.gen] = c]
            /\ \/ Loop(p, r, "validate")
               \/ task' = [task EXCEPT ![p].todo = All(p)] /\ Goto(p, "discard")
    BY <1>2 DEF Stage
  <2>2. lock' \in [Procs -> Locks]
    BY <1>2, UnchangedLock DEF Stage
  <2>3. LocalOK
    BY <1>1, <2>1, <2>2, LoopLocal, RefillLocal
  <2>4. r \in Roots /\ c \in Contents
    BY <1>1, StepRoots, GenContents
  <2>5. stage' \in [Roots -> [Gens -> Contents]]
    BY <1>1, <2>1, <2>4, StageSet
  <2>6. FilesOK' /\ CountersOK'
    BY <1>2, <2>5, SameCounters DEF Stage, FilesOK, TypeOK
  <2> QED BY <2>3, <2>6, TypesJoined
<1>3. CASE Validate(p)
  <2>1. PICK l \in {"excl_lock", "discard"} : Goto(p, l)
    BY <1>3 DEF Validate
  <2>2. lock' \in [Procs -> Locks]
    BY <1>3, UnchangedLock, DropLock DEF Validate
  <2>3. LocalOK
    BY <1>1, <1>3, <2>1, <2>2, StaysLocal DEF Validate
  <2>4. FilesOK' /\ CountersOK'
    BY <1>3, SameFiles, SameCounters DEF Validate
  <2> QED BY <2>3, <2>4, TypesJoined
<1>4. CASE ExclLock(p)
  <2>1. PICK r \in task[p].todo : /\ lock' = [lock EXCEPT ![p].excl = @ \cup {r}]
                                  /\ Loop(p, r, "recheck")
    BY <1>4 DEF ExclLock
  <2>2. LocalOK
    BY <1>1, <2>1, StepRoots, AddLock, LoopLocal
  <2>3. FilesOK' /\ CountersOK'
    BY <1>4, SameFiles, SameCounters DEF ExclLock
  <2> QED BY <2>2, <2>3, TypesJoined
<1>5. CASE Discard(p)
  <2>1. PICK r \in task[p].todo, c \in {Absent, Torn} :
            /\ stage' = [stage EXCEPT ![r][task[p].txn.gen] = c]
            /\ Return(p, "failed") \/ (Loop(p, r, "discard") /\ UNCHANGED lock)
            /\ Fault \/ UNCHANGED faults
    BY <1>5 DEF Discard
  <2>2. LocalOK
    BY <1>1, <2>1, ReturnLocal, LoopLocal, UnchangedLock DEF Terminal
  <2>3. r \in Roots /\ c \in Contents
    BY StepRoots, GenContents
  <2>4. stage' \in [Roots -> [Gens -> Contents]]
    BY <1>1, <2>1, <2>3, StageSet
  <2>5. FilesOK'
    BY <1>5, <2>4 DEF Discard, FilesOK, TypeOK
  <2>6. CountersOK'
    BY <1>5, <2>1, SameCounters, FaultCounted DEF Discard
  <2> QED BY <2>2, <2>5, <2>6, TypesJoined
<1>6. CASE Recheck(p)
  <2>1. PICK l \in {"persist", "discard"} : Goto(p, l)
    BY <1>6 DEF Recheck
  <2>2. LocalOK
    BY <1>1, <1>6, <2>1, UnchangedLock, StaysLocal DEF Recheck
  <2>3. FilesOK' /\ CountersOK'
    BY <1>6, SameFiles, SameCounters DEF Recheck
  <2> QED BY <2>2, <2>3, TypesJoined
<1> QED BY <1>2, <1>3, <1>4, <1>5, <1>6

LEMMA PublishingType ==
    ASSUME TypeOK, TxnInHand, NEW p \in Procs,
           Persist(p) \/ Publish(p) \/ PromoteBackup(p) \/ PromoteStage(p) \/ Commit(p)
    PROVE TypeOK' /\ TxnInHand'
<1> HIDE DEF Gens, Contents
<1> {"publish", "promote_backup", "promote_stage", "commit", "verify_prepared",
     "verify_committed"} \subseteq Labels
  BY DEF Labels
<1>1. pc[p] \in TxnPcs
  BY DEF Persist, Publish, PromoteBackup, PromoteStage, Commit, TxnPcs
<1>2. task[p].txn # None /\ task[p].txn \in Journals /\ task[p].txn.gen \in Gens
  BY <1>1, TxnOf, JournalFields
<1>3. CASE Persist(p)
  <2>1. PICK r \in task[p].todo :
            \/ Write(r, task[p].txn) /\ Loop(p, r, "publish") /\ UNCHANGED faults
            \/ /\ WriteFails(r, task[p].txn)
               /\ task' = [task EXCEPT ![p].mode = "abandon", ![p].todo = All(p)]
               /\ Goto(p, "verify_prepared")
    BY <1>3 DEF Persist
  <2>2. lock' \in [Procs -> Locks]
    BY <1>3, UnchangedLock DEF Persist
  <2>3. LocalOK
    BY <1>2, <2>1, <2>2, LoopLocal, ModeLocal
  <2>4. FilesOK'
    BY <1>2, <1>3, <2>1, StepRoots, SetJournal DEF Persist, Write, WriteFails, TypeOK, FilesOK
  <2>5. CountersOK'
    BY <1>3, <2>1, SameCounters, FaultCounted DEF Persist, WriteFails
  <2> QED BY <2>3, <2>4, <2>5, TypesJoined
<1>4. CASE Publish(p)
  <2>1. LocalOK /\ journal' \in [Roots -> Journals \cup {None}] /\ faults' \in 0..MaxFaults
    BY <1>1, <1>4, RecordLocal DEF Publish
  <2>2. FilesOK' /\ CountersOK'
    BY <1>4, <2>1 DEF Publish, FilesOK, CountersOK, TypeOK
  <2> QED BY <2>1, <2>2, TypesJoined
<1>5. CASE PromoteBackup(p)
  <2> DEFINE g == task[p].txn.gen
  <2>1. PICK r \in task[p].todo :
            /\ \/ /\ dir' = [dir EXCEPT ![r] = Absent]
                  /\ backup' = [backup EXCEPT ![r][g] = dir[r]]
               \/ UNCHANGED <<dir, backup>>
            /\ \/ Goto(p, "promote_stage") /\ UNCHANGED task
               \/ Undo(p)
            /\ Fault \/ UNCHANGED faults
    BY <1>5 DEF PromoteBackup
  <2>2. r \in Roots /\ dir[r] \in Contents
    BY <1>2, StepRoots, ContentOf
  <2>3. dir' \in [Roots -> Contents]
    BY <2>1, <2>2, DirSet, GenContents DEF TypeOK
  <2>4. backup' \in [Roots -> [Gens -> Contents]]
    <3>1. CASE UNCHANGED backup
      BY <3>1 DEF TypeOK
    <3>2. CASE ~UNCHANGED backup
      BY <1>2, <2>1, <2>2, <3>2, BackupSet
    <3> QED BY <3>1, <3>2
  <2>5. FilesOK'
    BY <1>5, <2>3, <2>4 DEF PromoteBackup, FilesOK, TypeOK
  <2>6. CountersOK'
    BY <1>5, <2>1, SameCounters, FaultCounted DEF PromoteBackup
  <2>7. UNCHANGED lock
    BY <1>5 DEF PromoteBackup
  <2>8. LocalOK
    BY <1>1, <1>2, <2>1, <2>7, StaysLocal, UndoLocal, UnchangedLock
  <2> QED BY <2>5, <2>6, <2>8, TypesJoined
<1>6. CASE PromoteStage(p)
  <2> DEFINE g == task[p].txn.gen
  <2>1. PICK r \in task[p].todo :
            /\ \/ /\ dir' = [dir EXCEPT ![r] = stage[r][g]]
                  /\ stage' = [stage EXCEPT ![r][g] = Absent]
               \/ UNCHANGED <<dir, stage>>
            /\ \/ /\ task' = [task EXCEPT ![p].todo = IF @ = {r} THEN All(p) ELSE @ \ {r}]
                  /\ Goto(p, "commit") \/ Goto(p, "promote_backup")
               \/ Undo(p)
            /\ Fault \/ UNCHANGED faults
    BY <1>6 DEF PromoteStage
  <2>2. r \in Roots /\ stage[r][g] \in Contents
    BY <1>2, StepRoots, ContentOf
  <2>3. dir' \in [Roots -> Contents]
    <3>1. CASE UNCHANGED dir
      BY <3>1 DEF TypeOK
    <3>2. CASE ~UNCHANGED dir
      BY <2>1, <2>2, <3>2, DirSet
    <3> QED BY <3>1, <3>2
  <2>4. stage' \in [Roots -> [Gens -> Contents]]
    <3>1. CASE UNCHANGED stage
      BY <3>1 DEF TypeOK
    <3>2. CASE ~UNCHANGED stage
      BY <1>2, <2>1, <2>2, <3>2, StageSet, GenContents
    <3> QED BY <3>1, <3>2
  <2>5. FilesOK'
    BY <1>6, <2>3, <2>4 DEF PromoteStage, FilesOK, TypeOK
  <2>6. CountersOK'
    BY <1>6, <2>1, SameCounters, FaultCounted DEF PromoteStage
  <2>7. UNCHANGED lock
    BY <1>6 DEF PromoteStage
  <2>8. LocalOK
    BY <1>1, <1>2, <2>1, <2>7, NextEntryLocal, UndoLocal, UnchangedLock
  <2> QED BY <2>5, <2>6, <2>8, TypesJoined
<1>7. CASE Commit(p)
  <2> DEFINE j == [task[p].txn EXCEPT !.state = "committed"]
             t == [task[p] EXCEPT !.txn = j, !.mode = "finish"]
  <2>1. \/ /\ Write(j.lead, j) /\ task' = [task EXCEPT ![p].txn = j, ![p].mode = "finish"]
           /\ Goto(p, "verify_committed") /\ UNCHANGED <<lock, faults>>
        \/ WriteFails(j.lead, j) /\ Return(p, "recovery_required")
        \/ Undo(p) /\ UNCHANGED <<journal, lock, faults>>
    BY <1>7 DEF Commit
  <2>2. j \in Journals /\ j.lead \in Roots /\ j # None
    BY <1>2, SetState, JournalFields
  <2>3. t \in Tasks /\ t.txn = j
    <3> HIDE DEF j
    <3> QED BY <2>2, TaskOf DEF Tasks
  <2>4. journal' \in [Roots -> Journals \cup {None}]
    <3> HIDE DEF j
    <3> QED BY <2>1, <2>2, SetJournal DEF Write, WriteFails, TypeOK
  <2>5. FilesOK'
    BY <1>7, <2>4 DEF Commit, FilesOK, TypeOK
  <2>6. CountersOK'
    BY <1>7, <2>1, SameCounters, FaultCounted DEF Commit, WriteFails
  <2>7. LocalOK
    <3>1. CASE /\ task' = [task EXCEPT ![p].txn = j, ![p].mode = "finish"]
               /\ Goto(p, "verify_committed") /\ UNCHANGED <<lock, faults>>
      <4>1. task' = [task EXCEPT ![p] = t] /\ pc' = [pc EXCEPT ![p] = "verify_committed"]
        BY <3>1 DEF Goto
      <4>2. lock' \in [Procs -> Locks]
        BY <3>1, UnchangedLock
      <4> HIDE DEF t, j
      <4> QED BY <2>2, <2>3, <4>1, <4>2, Moves
    <3>2. CASE Return(p, "recovery_required")
      BY <3>2, ReturnLocal DEF Terminal
    <3>3. CASE Undo(p) /\ UNCHANGED lock
      BY <1>1, <3>3, UndoLocal
    <3> QED BY <2>1, <3>1, <3>2, <3>3
  <2> QED BY <2>5, <2>6, <2>7, TypesJoined
<1> QED BY <1>3, <1>4, <1>5, <1>6, <1>7

LEMMA ReadStepType ==
    ASSUME TypeOK, TxnInHand, NEW p \in Procs, ReadStep(p)
    PROVE TypeOK' /\ TxnInHand'
<1> HIDE DEF Gens, Contents
<1> {"read_init", "read_wait", "read_lock", "read_check", "read", "read_done"}
       \subseteq Labels \ TxnPcs
  BY DEF Labels, TxnPcs
<1> {"ok", "recovery_required"} \subseteq Terminal
  BY DEF Terminal
<1>1. FilesOK' /\ CountersOK'
  <2>1. UNCHANGED <<fs, leased, away>> /\ UNCHANGED <<nextGen, faults, moves>>
    BY DEF ReadStep, ReadInit, ReadWait, ReadLock, ReadCheck, Read, ReadDone
  <2> QED BY <2>1, SameFiles, SameCounters
<1>2. CASE ReadInit(p)
  <2>1. PICK r \in task[p].todo : (Goto(p, "read_wait") /\ UNCHANGED task) \/ Loop(p, r, "read_lock")
    BY <1>2 DEF ReadInit
  <2>2. LocalOK
    BY <1>2, <2>1, UnchangedLock, StaysLocal, LoopLocal DEF ReadInit
  <2> QED BY <1>1, <2>2, TypesJoined
<1>3. CASE ReadWait(p)
  <2>1. PICK r \in task[p].todo, l \in {"read_lock", "read_init"} :
            /\ lock' = [lock EXCEPT ![p].init = @ \cup {r}]
            /\ task' = [task EXCEPT ![p].todo = IF @ = {r} THEN All(p) ELSE @ \ {r}]
            /\ Goto(p, l)
    BY <1>3 DEF ReadWait
  <2>2. LocalOK
    BY <2>1, StepRoots, AddLock, NextEntryLocal
  <2> QED BY <1>1, <2>2, TypesJoined
<1>4. CASE ReadLock(p)
  <2>1. PICK r \in task[p].todo : /\ lock' = [lock EXCEPT ![p].shared = @ \cup {r}]
                                  /\ Loop(p, r, "read_check")
    BY <1>4 DEF ReadLock
  <2>2. lock' \in [Procs -> Locks]
    BY <2>1, StepRoots, AddLock
  <2>3. LocalOK
    <3>1. {"read_check", pc[p]} \cap TxnPcs = {}
      BY <1>4 DEF ReadLock
    <3> QED BY <2>1, <2>2, <3>1, LoopLocal
  <2> QED BY <1>1, <2>3, TypesJoined
<1>5. CASE ReadCheck(p)
  <2>1. LocalOK
    BY <1>5, UnchangedLock, StaysLocal, ReturnLocal DEF ReadCheck
  <2> QED BY <1>1, <2>1, TypesJoined
<1>6. CASE Read(p)
  <2>1. PICK r \in task[p].todo, l \in {"read_done", "read"} :
            /\ task' = [task EXCEPT ![p].seen[r] = dir[r], ![p].todo = @ \ {r}]
            /\ Goto(p, l)
    BY <1>6 DEF Read
  <2> DEFINE seen == [task[p] EXCEPT !.seen[r] = dir[r]]
             t == [seen EXCEPT !.todo = task[p].todo \ {r}]
  <2>2. r \in Roots /\ dir[r] \in Contents
    BY StepRoots DEF TypeOK
  <2>3. seen \in Tasks
    BY <2>2, TaskOf, SetSeen
  <2>4. t \in Tasks
    <3> HIDE DEF seen
    <3> QED BY <2>3, StepRoots, SetTodo
  <2>5. task' = [task EXCEPT ![p] = t] /\ pc' = [pc EXCEPT ![p] = l]
    <3>1. [task EXCEPT ![p].seen[r] = dir[r]] = [task EXCEPT ![p] = seen]
      OBVIOUS
    <3>2. seen.todo = task[p].todo
      BY TaskOf DEF Tasks
    <3>3. task \in [Procs -> Tasks]
      BY DEF TypeOK
    <3>4. task' = [[task EXCEPT ![p] = seen] EXCEPT ![p] = [seen EXCEPT !.todo = seen.todo \ {r}]]
      BY <2>1, <3>1, <3>3
    <3> QED BY <2>1, <3>2, <3>3, <3>4 DEF Goto
  <2>6. LocalOK
    <3>1. lock' \in [Procs -> Locks]
      BY <1>6, UnchangedLock DEF Read
    <3> HIDE DEF t
    <3> QED BY <2>4, <2>5, <3>1, Moves
  <2> QED BY <1>1, <2>6, TypesJoined
<1>7. CASE ReadDone(p)
  <2>1. LocalOK
    BY <1>7, ReturnLocal DEF ReadDone
  <2> QED BY <1>1, <2>1, TypesJoined
<1> QED BY <1>2, <1>3, <1>4, <1>5, <1>6, <1>7 DEF ReadStep

LEMMA StartType ==
    ASSUME TypeOK, TxnInHand, NEW p \in Procs, Start(p)
    PROVE TypeOK' /\ TxnInHand'
<1> {"recover", "read_init"} \subseteq Labels \ TxnPcs
  BY DEF Labels, TxnPcs
<1>1. PICK j \in Jobs[p] : StartUpdate(p, j) \/ StartRecover(p, j) \/ StartRead(p, j)
  BY DEF Start
<1>2. j \in Requests
  BY JobsAssumption
<1>3. \E t \in Tasks, l \in {"recover", "read_init"} :
         task' = [task EXCEPT ![p] = t] /\ pc' = [pc EXCEPT ![p] = l]
  <2> DEFINE u == [NoTask EXCEPT !.kind = "update", !.roots = j.roots, !.queue = j.roots]
             v == [NoTask EXCEPT !.kind = "recover", !.roots = j.roots, !.queue = j.roots]
             w == [NoTask EXCEPT !.kind = "read", !.roots = j.roots,
                                 !.required = j.required, !.todo = j.roots]
  <2>1. j.roots \subseteq Roots /\ j.required \subseteq Roots
    BY <1>2 DEF Requests
  <2>2. u \in Tasks /\ v \in Tasks /\ w \in Tasks
    BY <2>1, NoTaskType DEF Tasks
  <2>3. CASE StartUpdate(p, j)
    <3>1. task' = [task EXCEPT ![p] = u] /\ pc' = [pc EXCEPT ![p] = "recover"]
      BY <2>3 DEF StartUpdate, Goto
    <3> QED BY <2>2, <3>1
  <2>4. CASE StartRecover(p, j)
    <3>1. task' = [task EXCEPT ![p] = v] /\ pc' = [pc EXCEPT ![p] = "recover"]
      BY <2>4 DEF StartRecover, Goto
    <3> QED BY <2>2, <3>1
  <2>5. CASE StartRead(p, j)
    <3>1. task' = [task EXCEPT ![p] = w] /\ pc' = [pc EXCEPT ![p] = "read_init"]
      BY <2>5 DEF StartRead, Goto
    <3> QED BY <2>2, <3>1
  <2> QED BY <1>1, <2>3, <2>4, <2>5
<1>4. LocalOK
  BY <1>3, UnchangedLock, Moves DEF Start
<1> QED BY <1>4, SameFiles, SameCounters, TypesJoined DEF Start

LEMMA EnvironmentType ==
    ASSUME TypeOK, TxnInHand,
           \/ \E p \in Procs : Cancel(p) \/ Crash(p)
           \/ \E r \in Roots : MoveAway(r) \/ MoveBack(r)
    PROVE TypeOK' /\ TxnInHand'
<1>1. ASSUME NEW p \in Procs, Cancel(p) \/ Crash(p)
      PROVE TypeOK' /\ TxnInHand'
  <2>1. FilesOK'
    BY <1>1, SameFiles DEF Cancel, Crash
  <2>2. CountersOK'
    BY <1>1, FaultCounted DEF Cancel, Crash
  <2>3. \/ Return(p, "failed") \/ Return(p, "idle")
        \/ /\ pc[p] = "excl_lock" /\ task' = [task EXCEPT ![p].todo = All(p)]
           /\ lock' = [lock EXCEPT ![p].excl = {}] /\ Goto(p, "discard")
    BY <1>1 DEF Cancel, Crash
  <2>4. CASE Return(p, "failed") \/ Return(p, "idle")
    BY <2>4, ReturnLocal, <2>1, <2>2, TypesJoined DEF Terminal
  <2>5. CASE /\ pc[p] = "excl_lock" /\ task' = [task EXCEPT ![p].todo = All(p)]
             /\ lock' = [lock EXCEPT ![p].excl = {}] /\ Goto(p, "discard")
    <3>1. "discard" \in Labels /\ task[p].txn # None
      BY <2>5 DEF Labels, TxnInHand, TxnPcs
    <3>2. lock' \in [Procs -> Locks]
      BY <2>5, DropLock
    <3>3. LocalOK
      BY <2>5, <3>1, <3>2, RefillLocal
    <3> QED BY <3>3, <2>1, <2>2, TypesJoined
  <2> QED BY <2>3, <2>4, <2>5
<1>2. ASSUME NEW r \in Roots, MoveAway(r) \/ MoveBack(r)
      PROVE TypeOK' /\ TxnInHand'
  BY <1>2, BoundsAssumption DEF MoveAway, MoveBack, TypeOK, TxnInHand, fs
<1> QED BY <1>1, <1>2

LEMMA InitType == Init => TypeOK /\ TxnInHand
BY NoTaskType, MarkersAssumption, BoundsAssumption
   DEF Init, TypeOK, TxnInHand, TxnPcs, Labels, Terminal, Locks, NoLocks, NoTask

\* Every variable stays in its type, and a process at a step that works on a
\* transaction has that transaction's journal record in hand: no step of the
\* protocol dereferences a record it did not read.
THEOREM TypeCorrect == Spec => [](TypeOK /\ TxnInHand)
<1>1. TypeOK /\ TxnInHand /\ [Next]_vars => TypeOK' /\ TxnInHand'
  <2> SUFFICES ASSUME TypeOK, TxnInHand, [Next]_vars PROVE TypeOK' /\ TxnInHand'
    OBVIOUS
  <2>1. CASE UNCHANGED vars
    BY <2>1 DEF vars, fs, TypeOK, TxnInHand
  <2>2. ASSUME NEW p \in Procs, UpdateStep(p) PROVE TypeOK' /\ TxnInHand'
    BY <2>2, LockingType, StagingType, PublishingType DEF UpdateStep
  <2>3. ASSUME NEW p \in Procs, Step(p) PROVE TypeOK' /\ TxnInHand'
    BY <2>2, <2>3, RecoverStepType, CleanupStepType, ReadStepType DEF Step
  <2>4. CASE Next
    BY <2>3, <2>4, StartType, EnvironmentType DEF Next
  <2> QED BY <2>1, <2>4
<1> QED BY InitType, <1>1, PTL DEF Spec

-----------------------------------------------------------------------------
(* Lock exclusion *)

\* A step of p that takes no lock and may drop some keeps the exclusion.
LEMMA ReleaseKeepsExclusion ==
    ASSUME TypeOK, LockExclusion, NEW p \in Procs,
           \/ UNCHANGED lock
           \/ lock' = [lock EXCEPT ![p] = NoLocks]
           \/ lock' = [lock EXCEPT ![p].excl = {}]
           \/ lock' = [lock EXCEPT ![p].shared = {}]
    PROVE LockExclusion'
<1>1. \A q \in Procs : /\ lock'[q].writer \subseteq lock[q].writer /\ lock'[q].init \subseteq lock[q].init
                       /\ lock'[q].excl \subseteq lock[q].excl /\ lock'[q].shared \subseteq lock[q].shared
  <2>1. lock \in [Procs -> Locks]
    BY DEF TypeOK
  <2>2. CASE UNCHANGED lock
    BY <2>2
  <2>3. CASE lock' = [lock EXCEPT ![p] = NoLocks]
    BY <2>1, <2>3 DEF NoLocks
  <2>4. CASE lock' = [lock EXCEPT ![p].excl = {}]
    BY <2>1, <2>4 DEF Locks
  <2>5. CASE lock' = [lock EXCEPT ![p].shared = {}]
    BY <2>1, <2>5 DEF Locks
  <2> QED BY <2>2, <2>3, <2>4, <2>5
<1> QED BY <1>1 DEF LockExclusion

\* Taking one lock nobody else holds in a conflicting mode keeps it too.
LEMMA AcquireKeepsExclusion ==
    ASSUME TypeOK, LockExclusion, NEW p \in Procs, NEW r,
           \/ /\ NoneHolds(p, r, {"writer", "init"})
              /\ lock' = [lock EXCEPT ![p].writer = @ \cup {r}]
           \/ NoneHolds(p, r, {"writer"}) /\ lock' = [lock EXCEPT ![p].init = @ \cup {r}]
           \/ NoneHolds(p, r, {"excl"}) /\ lock' = [lock EXCEPT ![p].shared = @ \cup {r}]
           \/ /\ NoneHolds(p, r, {"shared", "excl"})
              /\ lock' = [lock EXCEPT ![p].excl = @ \cup {r}]
    PROVE LockExclusion'
<1>1. lock \in [Procs -> Locks]
  BY DEF TypeOK
<1>2. CASE NoneHolds(p, r, {"writer", "init"}) /\ lock' = [lock EXCEPT ![p].writer = @ \cup {r}]
  BY <1>1, <1>2 DEF LockExclusion, NoneHolds, Locks
<1>3. CASE NoneHolds(p, r, {"writer"}) /\ lock' = [lock EXCEPT ![p].init = @ \cup {r}]
  BY <1>1, <1>3 DEF LockExclusion, NoneHolds, Locks
<1>4. CASE NoneHolds(p, r, {"excl"}) /\ lock' = [lock EXCEPT ![p].shared = @ \cup {r}]
  BY <1>1, <1>4 DEF LockExclusion, NoneHolds, Locks
<1>5. CASE NoneHolds(p, r, {"shared", "excl"}) /\ lock' = [lock EXCEPT ![p].excl = @ \cup {r}]
  BY <1>1, <1>5 DEF LockExclusion, NoneHolds, Locks
<1> QED BY <1>2, <1>3, <1>4, <1>5

\* No step but the six that acquire a lock takes one.
LEMMA OthersRelease ==
    ASSUME NEW p \in Procs, Start(p) \/ Step(p) \/ Cancel(p) \/ Crash(p),
           ~RecoverLock(p), ~WriterLock(p), ~SharedLock(p), ~ExclLock(p), ~ReadWait(p), ~ReadLock(p)
    PROVE \/ UNCHANGED lock
          \/ lock' = [lock EXCEPT ![p] = NoLocks]
          \/ lock' = [lock EXCEPT ![p].excl = {}]
          \/ lock' = [lock EXCEPT ![p].shared = {}]
<1>1. CASE Start(p) \/ Cancel(p) \/ Crash(p)
  BY <1>1 DEF Start, Cancel, Crash, Return
<1>2. CASE RecoverStep(p)
  BY <1>2 DEF RecoverStep, RecoverReadLocal, RecoverReadDecision, RecoverLockFails, RecoverRecheck,
              Recovered, Return
<1>3. CASE CleanupStep(p)
  BY <1>3 DEF CleanupStep, VerifyPrepared, DropStage, Finalize, Retire, VerifyRollback,
              UndoPromotion, UndoBackup, RecordPrepared, VerifyCommitted, VerifyCleaning, Clean,
              RecordDecision, CleanupFailed, Retired, Recovered, Return
<1>4. CASE UpdateStep(p)
  BY <1>4 DEF UpdateStep, Inspect, Prepare, Stage, Validate, Discard, Recheck, Persist, Publish,
              PromoteBackup, PromoteStage, Commit, RecordDecision, CleanupFailed, Return
<1>5. CASE ReadStep(p)
  BY <1>5 DEF ReadStep, ReadInit, ReadCheck, Read, ReadDone, Return
<1> QED BY <1>1, <1>2, <1>3, <1>4, <1>5 DEF Step

\* No two processes ever hold conflicting lock files, whatever the number of
\* processes and roots and wherever they crash, are cancelled or fail.
THEOREM LocksExclude == Spec => []LockExclusion
<1>1. Init => LockExclusion
  BY DEF Init, LockExclusion, NoLocks
<1>2. TypeOK /\ LockExclusion /\ [Next]_vars => LockExclusion'
  <2> SUFFICES ASSUME TypeOK, LockExclusion, [Next]_vars PROVE LockExclusion'
    OBVIOUS
  <2>1. CASE UNCHANGED vars
    BY <2>1 DEF vars, LockExclusion
  <2>2. ASSUME NEW p \in Procs, Start(p) \/ Step(p) \/ Cancel(p) \/ Crash(p) PROVE LockExclusion'
    <3>1. CASE RecoverLock(p) \/ ExclLock(p)
      <4>1. PICK r : NoneHolds(p, r, {"shared", "excl"}) /\ lock' = [lock EXCEPT ![p].excl = @ \cup {r}]
        BY <3>1 DEF RecoverLock, ExclLock
      <4> QED BY <4>1, AcquireKeepsExclusion
    <3>2. CASE WriterLock(p)
      <4>1. PICK r : NoneHolds(p, r, {"writer", "init"}) /\ lock' = [lock EXCEPT ![p].writer = @ \cup {r}]
        BY <3>2 DEF WriterLock
      <4> QED BY <4>1, AcquireKeepsExclusion
    <3>3. CASE ReadWait(p)
      <4>1. PICK r : NoneHolds(p, r, {"writer"}) /\ lock' = [lock EXCEPT ![p].init = @ \cup {r}]
        BY <3>3 DEF ReadWait
      <4> QED BY <4>1, AcquireKeepsExclusion
    <3>4. CASE SharedLock(p) \/ ReadLock(p)
      <4>1. PICK r : NoneHolds(p, r, {"excl"}) /\ lock' = [lock EXCEPT ![p].shared = @ \cup {r}]
        BY <3>4 DEF SharedLock, ReadLock
      <4> QED BY <4>1, AcquireKeepsExclusion
    <3>5. CASE ~(\/ RecoverLock(p) \/ WriterLock(p) \/ SharedLock(p) \/ ExclLock(p) \/ ReadWait(p)
                 \/ ReadLock(p))
      BY <2>2, <3>5, OthersRelease, ReleaseKeepsExclusion
    <3> QED BY <3>1, <3>2, <3>3, <3>4, <3>5
  <2>3. ASSUME NEW r \in Roots, MoveAway(r) \/ MoveBack(r) PROVE LockExclusion'
    BY <2>3 DEF MoveAway, MoveBack, LockExclusion
  <2> QED BY <2>1, <2>2, <2>3 DEF Next
<1> QED BY <1>1, <1>2, TypeCorrect, PTL DEF Spec

-----------------------------------------------------------------------------
(* What the locks protect *)


\* The steps of an update before it has a transaction, and while it owns the
\* stages; of a reader; and of whoever works on a transaction.
Beginning == {"writer_lock", "shared_lock", "inspect", "prepare"}
Owning == {"stage", "validate", "excl_lock", "recheck", "persist", "publish",
           "promote_backup", "promote_stage"}
Readers == {"read_init", "read_wait", "read_lock", "read_check", "read", "read_done"}
Worked == TxnPcs \ {"decision"}
Exclusive == Worked \ {"stage", "validate", "excl_lock", "discard", "lock_recovery", "lock_finalized"}

\* The roots a call is about.
Extent(t) == IF t.txn = None THEN t.roots ELSE t.txn.roots \ t.absent

\* What the local variables t of a call are at the step at.
Scope(at, t) ==
    /\ at \in Beginning \cup Readers => t.txn = None /\ t.absent = {}
    /\ at \in Beginning \cup Readers \cup Worked => t.todo \subseteq Extent(t)
    /\ at \in Worked => t.txn.lead \in Extent(t)
    /\ at \in {"prepare", "validate", "read_check"} => t.todo = Extent(t)
    /\ at \in Owning => Extent(t) = t.roots
    /\ at \in Readers => t.kind = "read"

\* The locks l that the call holds then.
Locked(at, t, l) ==
    /\ at = "writer_lock" => Extent(t) \ t.todo \subseteq l.writer
    /\ at \in {"shared_lock", "inspect", "prepare", "discard"} \cup Owning => Extent(t) \subseteq l.writer
    /\ at \in {"excl_lock", "lock_recovery", "lock_finalized"} => Extent(t) \ t.todo \subseteq l.excl
    /\ at \in Exclusive => Extent(t) \subseteq l.excl
    /\ at = "read_lock" => Extent(t) \ t.todo \subseteq l.shared
    /\ at \in {"read_check", "read", "read_done"} => Extent(t) \subseteq l.shared

Held(at, t, l) == Scope(at, t) /\ Locked(at, t, l)
Holding == \A p \in Procs : Held(pc[p], task[p], lock[p])

\* Journal records, on disk or in hand: the coordinator takes part, the generation
\* has been drawn, and what was found was complete.
Sound(j, next) == j # None => /\ j.lead \in j.roots /\ j.gen < next
                              /\ \A r \in Roots : j.prev[r] # Torn
Records == /\ \A r \in Roots : Sound(journal[r], nextGen)
           /\ \A p \in Procs : Sound(task[p].txn, nextGen)

\* Until its journals are written nobody else knows a transaction.
Fresh == \A p \in Procs : pc[p] \in {"stage", "validate", "excl_lock"} =>
    /\ \A r \in Roots : journal[r] # None => journal[r].gen # task[p].txn.gen
    /\ \A q \in Procs \ {p} : task[q].txn # None => task[q].txn.gen # task[p].txn.gen

\* Readers and updates are of roots that are there.
Present == \A p \in Procs : task[p].kind \in {"update", "read"} => task[p].roots \cap away = {}

Reading == \A p \in Procs : pc[p] \in {"read", "read_done"} =>
    \A r \in task[p].roots : /\ journal[r] = None
                             /\ r \notin task[p].todo => task[p].seen[r] = dir[r]

\* The stages that are complete.
Ready(at, t) == IF at = "stage" THEN Extent(t) \ t.todo
                ELSE IF at \in {"validate", "excl_lock", "recheck", "persist", "publish"} THEN Extent(t)
                ELSE IF at \in {"promote_backup", "promote_stage"} THEN t.todo ELSE {}
Staged == \A p \in Procs : \A r \in Ready(pc[p], task[p]) :
    stage[r][task[p].txn.gen] = task[p].txn.gen

\* What a rollback has verified.
Undoing == \A p \in Procs : pc[p] \in {"undo_promotion", "undo_backup"} =>
    \A r \in Extent(task[p]) :
        backup[r][task[p].txn.gen] \in {Absent, task[p].txn.prev[r]}

IInv == /\ Holding /\ Records /\ Fresh /\ Present
        /\ Reading /\ Staged /\ Undoing /\ NothingTornPublished

HIDE DEF Gens, Contents, States
USE DEF Beginning, Readers

-----------------------------------------------------------------------------
(* The effects of a step of p on its own state.                               *)

Acts(p) == Start(p) \/ Step(p) \/ Cancel(p) \/ Crash(p)

\* No step of a process changes the state of another one.
LEMMA OnlyOwn ==
    ASSUME TypeOK, NEW p \in Procs, Acts(p), NEW q \in Procs \ {p}
    PROVE  pc'[q] = pc[q] /\ task'[q] = task[q] /\ lock'[q] = lock[q]
<1> USE DEF Goto, Return
<1> HIDE DEF Beginning, Readers
<1>0. pc \in [Procs -> Labels] /\ task \in [Procs -> Tasks] /\ lock \in [Procs -> Locks]
    BY DEF TypeOK
<1>1. CASE Start(p)
    BY <1>0, <1>1 DEF Start, StartUpdate, StartRecover, StartRead
<1>2. CASE RecoverStep(p)
    BY <1>0, <1>2 DEF RecoverStep, RecoverReadLocal, RecoverReadDecision, RecoverLock, RecoverLockFails,
        RecoverRecheck, Recovered, LockFor, Loop
<1>3. CASE CleanupStep(p)
  <2>1. CASE VerifyPrepared(p) \/ VerifyRollback(p) \/ VerifyCleaning(p)
      BY <1>0, <2>1 DEF VerifyPrepared, VerifyRollback, VerifyCleaning, CleanupFailed
  <2>2. CASE DropStage(p) \/ Clean(p)
      BY <1>0, <2>2 DEF DropStage, Clean, CleanupFailed, Loop
  <2>3. CASE Finalize(p) \/ RecordPrepared(p) \/ VerifyCommitted(p)
      BY <1>0, <2>3 DEF Finalize, RecordPrepared, VerifyCommitted, RecordDecision, CleanupFailed
  <2>4. CASE Retire(p)
      BY <1>0, <2>4 DEF Retire, Retired, Recovered, CleanupFailed, Loop
  <2>5. CASE UndoPromotion(p) \/ UndoBackup(p)
      BY <1>0, <2>5 DEF UndoPromotion, UndoBackup, CleanupFailed
  <2> QED BY <1>3, <2>1, <2>2, <2>3, <2>4, <2>5 DEF CleanupStep
<1>4. CASE UpdateStep(p)
  <2>1. CASE WriterLock(p) \/ SharedLock(p) \/ Inspect(p) \/ Prepare(p)
      BY <1>0, <2>1 DEF WriterLock, SharedLock, Inspect, Prepare, Loop
  <2>2. CASE Stage(p) \/ Validate(p) \/ ExclLock(p) \/ Discard(p) \/ Recheck(p)
      BY <1>0, <2>2 DEF Stage, Validate, ExclLock, Discard, Recheck, Loop
  <2>3. CASE Persist(p) \/ Publish(p)
      BY <1>0, <2>3 DEF Persist, Publish, RecordDecision, CleanupFailed, Loop
  <2>4. CASE PromoteBackup(p) \/ PromoteStage(p) \/ Commit(p)
      BY <1>0, <2>4 DEF PromoteBackup, PromoteStage, Commit, Undo
  <2> QED BY <1>4, <2>1, <2>2, <2>3, <2>4 DEF UpdateStep
<1>5. CASE ReadStep(p)
    BY <1>0, <1>5 DEF ReadStep, ReadInit, ReadWait, ReadLock, ReadCheck, Read, ReadDone, Loop
<1>6. CASE Cancel(p) \/ Crash(p)
    BY <1>0, <1>6 DEF Cancel, Crash
<1> QED BY <1>1, <1>2, <1>3, <1>4, <1>5, <1>6 DEF Acts, Step

\* The same local variables but for the loop, the record and the mode.
SameCall(t, u) == /\ u.kind = t.kind /\ u.roots = t.roots /\ u.absent = t.absent
                  /\ u.queue = t.queue /\ u.seen = t.seen
SameTask(t, u) == SameCall(t, u) /\ u.txn = t.txn

LEMMA SameExtent == ASSUME NEW t, NEW u, SameTask(t, u) PROVE Extent(u) = Extent(t)
BY DEF SameTask, SameCall, Extent

\* What `task' = [task EXCEPT ![p].todo = S]' and the like leave.
LEMMA TodoAfter ==
    ASSUME TypeOK, NEW p \in Procs, NEW S, task' = [task EXCEPT ![p].todo = S]
    PROVE  SameTask(task[p], task'[p]) /\ task'[p].todo = S /\ task'[p].mode = task[p].mode
BY TaskOf DEF TypeOK, SameTask, SameCall, Tasks

LEMMA AllExtent == ASSUME NEW p PROVE All(p) = Extent(task[p])
BY DEF All, Extent, Entries

LEMMA LoopAfter ==
    ASSUME TypeOK, NEW p \in Procs, NEW r \in task[p].todo, NEW l, Loop(p, r, l)
    PROVE  /\ SameTask(task[p], task'[p])
           /\ IF task[p].todo = {r} THEN pc'[p] = l /\ task'[p].todo = Extent(task[p])
                                    ELSE pc'[p] = pc[p] /\ task'[p].todo = task[p].todo \ {r}
<1> DEFINE rest == task[p].todo \ {r}
           S == IF rest = {} THEN All(p) ELSE rest
<1>1. task' = [task EXCEPT ![p].todo = S]
    BY DEF Loop
<1>2. SameTask(task[p], task'[p]) /\ task'[p].todo = S
  <2> HIDE DEF S
  <2> QED BY <1>1, TodoAfter
<1>3. pc'[p] = IF rest = {} THEN l ELSE pc[p]
    BY DEF Loop, Goto, TypeOK
<1>4. task[p].todo = {r} <=> rest = {}
    OBVIOUS
<1> QED BY <1>2, <1>3, <1>4, AllExtent

LEMMA NextEntryAfter ==
    ASSUME TypeOK, NEW p \in Procs, NEW r,
           task' = [task EXCEPT ![p].todo = IF @ = {r} THEN All(p) ELSE @ \ {r}]
    PROVE  /\ SameTask(task[p], task'[p])
           /\ task'[p].todo = IF task[p].todo = {r} THEN Extent(task[p]) ELSE task[p].todo \ {r}
<1> DEFINE S == IF task[p].todo = {r} THEN All(p) ELSE task[p].todo \ {r}
<1>1. task' = [task EXCEPT ![p].todo = S]
    OBVIOUS
<1>2. SameTask(task[p], task'[p]) /\ task'[p].todo = S
  <2> HIDE DEF S
  <2> QED BY <1>1, TodoAfter
<1> QED BY <1>2, AllExtent

LEMMA ReturnAfter ==
    ASSUME TypeOK, NEW p \in Procs, NEW result, Return(p, result)
    PROVE  pc'[p] = result /\ task'[p] = NoTask /\ lock'[p] = NoLocks
BY DEF Return, Goto, TypeOK

LEMMA GotoAfter == ASSUME TypeOK, NEW p \in Procs, NEW l, Goto(p, l) PROVE pc'[p] = l
BY DEF Goto, TypeOK

\* One more lock of p.
LEMMA LockAfter ==
    ASSUME TypeOK, NEW p \in Procs, NEW r
    PROVE  /\ lock' = [lock EXCEPT ![p].writer = @ \cup {r}] =>
                 lock'[p].writer = lock[p].writer \cup {r} /\ lock'[p].excl = lock[p].excl
           /\ lock' = [lock EXCEPT ![p].shared = @ \cup {r}] =>
                 /\ lock'[p].shared = lock[p].shared \cup {r}
                 /\ lock'[p].writer = lock[p].writer
           /\ lock' = [lock EXCEPT ![p].excl = @ \cup {r}] =>
                 lock'[p].excl = lock[p].excl \cup {r} /\ lock'[p].writer = lock[p].writer
BY DEF TypeOK, Locks

\* A call that is over, or begins to recover, has nothing to hold.
Unbound == Labels \ (Beginning \cup Readers \cup Worked)

LEMMA UnboundHeld == ASSUME NEW at \in Unbound, NEW t, NEW l PROVE Held(at, t, l)
BY DEF Unbound, Held, Scope, Locked, Worked, Exclusive, Owning, TxnPcs

LEMMA TerminalUnbound == Terminal \cup {"recover", "decision"} \subseteq Unbound
BY DEF Terminal, Unbound, Labels, Worked, TxnPcs

LEMMA ReturnHeld ==
    ASSUME TypeOK, NEW p \in Procs, NEW result \in Terminal, Return(p, result)
    PROVE  Held(pc'[p], task'[p], lock'[p])
BY ReturnAfter, TerminalUnbound, UnboundHeld

LEMMA RecoveredHeld ==
    ASSUME TypeOK, NEW p \in Procs, NEW r, Recovered(p, r)
    PROVE  Held(pc'[p], task'[p], lock'[p])
<1> DEFINE rest == task[p].queue \ {r}
           next == [NoTask EXCEPT !.kind = task[p].kind, !.roots = task[p].roots, !.queue = rest]
<1>1. CASE rest # {}
  <2>1. Goto(p, "recover")
      BY <1>1 DEF Recovered
  <2> QED BY <2>1, GotoAfter, TerminalUnbound, UnboundHeld
<1>2. CASE rest = {} /\ task[p].kind = "update"
  <2>1. pc'[p] = "writer_lock" /\ task'[p] = [next EXCEPT !.todo = task[p].roots]
      BY <1>2, GotoAfter DEF Recovered, TypeOK
  <2>2. task'[p].txn = None /\ task'[p].absent = {} /\ task'[p].todo = task'[p].roots
      BY <2>1 DEF NoTask
  <2> QED BY <2>1, <2>2 DEF Held, Scope, Locked, Extent, Owning, Worked, Exclusive, TxnPcs
<1>3. CASE rest = {} /\ task[p].kind # "update"
    BY <1>3, ReturnHeld DEF Recovered, Terminal
<1> QED BY <1>1, <1>2, <1>3

-----------------------------------------------------------------------------
(* Which locks a call holds at which step.                                    *)

Repairing == Exclusive \ Owning

\* Under all the exclusive locks a call may go from any step to any other one of
\* a repair, and an update to the next one of its promotion.
LEMMA RepairHeld ==
    ASSUME NEW at \in Exclusive, NEW t, NEW l, Held(at, t, l),
           NEW next \in Repairing, NEW u, Extent(u) = Extent(t), u.txn.lead = t.txn.lead,
           u.todo \subseteq Extent(u)
    PROVE  Held(next, u, l)
BY DEF Held, Scope, Locked, Repairing, Exclusive, Owning, Worked, TxnPcs

LEMMA OwningHeld ==
    ASSUME NEW at \in Exclusive \cap Owning, NEW t, NEW l, Held(at, t, l),
           NEW next \in Exclusive \cap Owning, NEW u, Extent(u) = Extent(t),
           u.txn.lead = t.txn.lead, u.roots = t.roots, u.todo \subseteq Extent(u)
    PROVE  Held(next, u, l)
BY DEF Held, Scope, Locked, Exclusive, Owning, Worked, TxnPcs

\* A loop over the entries under locks that are all held.
LEMMA LoopHeld ==
    ASSUME TypeOK, NEW p \in Procs, NEW r \in task[p].todo, NEW l, Loop(p, r, l), UNCHANGED lock,
           Held(pc[p], task[p], lock[p]),
           \/ pc[p] \in Repairing /\ l \in Repairing
           \/ pc[p] \in Exclusive \cap Owning /\ l \in Exclusive \cap Owning
    PROVE  Held(pc'[p], task'[p], lock'[p])
<1>1. SameTask(task[p], task'[p]) /\ Extent(task'[p]) = Extent(task[p])
    BY LoopAfter, SameExtent
<1>2. task[p].todo \subseteq Extent(task[p])
    BY DEF Held, Scope, Repairing, Exclusive
<1>3. task'[p].todo \subseteq Extent(task'[p]) /\ pc'[p] \in {l, pc[p]}
    BY <1>1, <1>2, LoopAfter
<1> QED BY <1>1, <1>3, RepairHeld, OwningHeld DEF SameTask, SameCall, Repairing

\* The record in hand gets another state, and nothing else changes.
SameRecord(j, k) ==
    /\ j # None /\ k # None /\ k.gen = j.gen /\ k.lead = j.lead /\ k.roots = j.roots /\ k.prev = j.prev

LEMMA RecordExtent ==
    ASSUME NEW t, NEW u, SameCall(t, u), SameRecord(t.txn, u.txn)
    PROVE  Extent(u) = Extent(t)
BY DEF SameCall, SameRecord, Extent

LEMMA CleanupFailedAfter ==
    ASSUME NEW p \in Procs, NEW late, CleanupFailed(p, late)
    PROVE  \E result \in Terminal : Return(p, result)
BY DEF CleanupFailed, Terminal

LEMMA RecordAfter ==
    ASSUME TypeOK, TxnInHand, NEW p \in Procs, pc[p] \in TxnPcs,
           NEW s \in States, NEW l, RecordDecision(p, s, l)
    PROVE  \/ \E result \in Terminal : Return(p, result)
           \/ /\ pc'[p] = l /\ SameCall(task[p], task'[p]) /\ task'[p].todo = task[p].todo
              /\ SameRecord(task[p].txn, task'[p].txn) /\ UNCHANGED lock
              /\ journal'[task[p].txn.lead] = task'[p].txn
<1> DEFINE j == [task[p].txn EXCEPT !.state = s]
<1>1. task[p].txn \in Journals /\ task[p].txn # None
    BY TxnOf, JournalFields
<1>2. SameRecord(task[p].txn, j) /\ j.lead \in Roots
    BY <1>1, SetState, JournalFields DEF SameRecord
<1> HIDE DEF j
<1>3. CASE /\ Write(j.lead, j) /\ task' = [task EXCEPT ![p].txn = j] /\ Goto(p, l)
           /\ UNCHANGED lock
  <2>1. task'[p] = [task[p] EXCEPT !.txn = j]
      BY <1>3 DEF TypeOK
  <2>2. SameCall(task[p], task'[p]) /\ task'[p].todo = task[p].todo /\ task'[p].txn = j
      BY <2>1, TaskOf DEF Tasks, SameCall
  <2>3. journal'[task[p].txn.lead] = j
      BY <1>2, <1>3 DEF Write, TypeOK, SameRecord
  <2> QED BY <1>2, <1>3, <2>2, <2>3, GotoAfter
<1>4. CASE CleanupFailed(p, s = "finalized")
    BY <1>4, CleanupFailedAfter
<1> QED BY <1>3, <1>4 DEF RecordDecision, j

LEMMA RecordHeld ==
    ASSUME TypeOK, TxnInHand, NEW p \in Procs, NEW s \in States, NEW l, RecordDecision(p, s, l),
           Held(pc[p], task[p], lock[p]),
           \/ pc[p] \in Repairing /\ l \in Repairing
           \/ pc[p] \in Exclusive \cap Owning /\ l \in Exclusive \cap Owning
    PROVE  Held(pc'[p], task'[p], lock'[p])
<1>1. pc[p] \in TxnPcs /\ pc[p] \in Exclusive
    BY DEF Repairing, Exclusive, Worked
<1>2. CASE \E result \in Terminal : Return(p, result)
    BY <1>2, ReturnHeld
<1>3. CASE /\ pc'[p] = l /\ SameCall(task[p], task'[p]) /\ task'[p].todo = task[p].todo
           /\ SameRecord(task[p].txn, task'[p].txn) /\ UNCHANGED lock
  <2>1. Extent(task'[p]) = Extent(task[p])
      BY <1>3, RecordExtent
  <2>2. task[p].todo \subseteq Extent(task[p])
      BY <1>1 DEF Held, Scope, Exclusive
  <2> QED BY <1>1, <1>3, <2>1, <2>2, RepairHeld, OwningHeld DEF SameCall, SameRecord
<1> QED BY <1>1, <1>2, <1>3, RecordAfter

LEMMA LockForHeld ==
    ASSUME TypeOK, NEW p \in Procs, NEW j \in Journals, j.lead \in j.roots, j.lead \notin away,
           NEW at \in {"lock_recovery", "lock_finalized"}, LockFor(p, j, at)
    PROVE  Held(pc'[p], task'[p], lock'[p])
<1> DEFINE A == AbsentEntries(j)
<1>1. A \subseteq j.roots /\ j.lead \notin A /\ j # None
    BY JournalFields DEF AbsentEntries
<1>2. task'[p] = [task[p] EXCEPT !.txn = j, !.absent = A, !.todo = j.roots \ A]
    BY DEF LockFor, TypeOK
<1>3. task'[p].txn = j /\ task'[p].absent = A /\ task'[p].todo = j.roots \ A
  <2> HIDE DEF A
  <2> QED BY <1>2, TaskOf DEF Tasks
<1>4. pc'[p] = at
    BY GotoAfter DEF LockFor
<1>5. Extent(task'[p]) = j.roots \ A
    BY <1>1, <1>3 DEF Extent
<1> HIDE DEF A
<1> QED BY <1>1, <1>3, <1>4, <1>5 DEF Held, Scope, Locked, Owning, Worked, Exclusive, TxnPcs

LEMMA StartHeld ==
    ASSUME TypeOK, NEW p \in Procs, Start(p)
    PROVE  Held(pc'[p], task'[p], lock'[p])
<1>1. PICK j \in Jobs[p] : StartUpdate(p, j) \/ StartRecover(p, j) \/ StartRead(p, j)
    BY DEF Start
<1>2. CASE StartUpdate(p, j) \/ StartRecover(p, j)
  <2>1. pc'[p] = "recover"
      BY <1>2, GotoAfter DEF StartUpdate, StartRecover
  <2> QED BY <2>1, TerminalUnbound, UnboundHeld
<1>3. CASE StartRead(p, j)
  <2>1. pc'[p] = "read_init" /\ task'[p] = [NoTask EXCEPT !.kind = "read", !.roots = j.roots,
                                                        !.required = j.required, !.todo = j.roots]
      BY <1>3, GotoAfter DEF StartRead, TypeOK
  <2>2. /\ task'[p].txn = None /\ task'[p].absent = {} /\ task'[p].kind = "read"
        /\ task'[p].todo = task'[p].roots
      BY <2>1 DEF NoTask
  <2> QED BY <2>1, <2>2 DEF Held, Scope, Locked, Extent, Owning, Worked, Exclusive, TxnPcs
<1> QED BY <1>1, <1>2, <1>3

\* The coordinator's record of a transaction in hand is one to lock for.
LEMMA DecisionLead ==
    ASSUME TypeOK, Records, NEW p \in Procs, NEW d, d = ReadJournal(task[p].txn.lead),
           SameTransaction(task[p].txn, d), task[p].txn \in Journals
    PROVE  d \in Journals /\ d.lead \in d.roots /\ d.lead \notin away
<1>1. task[p].txn.lead \in Roots
    BY JournalFields
<1>2. d # None /\ d.lead = task[p].txn.lead
    BY DEF SameTransaction
<1>3. d = journal[task[p].txn.lead] /\ task[p].txn.lead \notin away
    BY <1>2 DEF ReadJournal
<1> QED BY <1>1, <1>2, <1>3 DEF Records, Sound, TypeOK

LEMMA RepairSteps == ASSUME NEW s \in States PROVE RepairStep(s) \in Repairing
BY DEF RepairStep, States, Repairing, Exclusive, Worked, TxnPcs, Owning

LEMMA RecoverHeld ==
    ASSUME TypeOK, TxnInHand, Records, NEW p \in Procs, Held(pc[p], task[p], lock[p]),
           RecoverStep(p)
    PROVE  Held(pc'[p], task'[p], lock'[p])
<1>1. CASE RecoverReadLocal(p)
  <2>1. PICK r : \/ Recovered(p, r)
                 \/ Goto(p, "decision")
      BY <1>1 DEF RecoverReadLocal
  <2> QED BY <2>1, RecoveredHeld, GotoAfter, TerminalUnbound, UnboundHeld
<1>2. CASE RecoverReadDecision(p)
  <2>1. task[p].txn \in Journals
      BY <1>2, TxnOf DEF RecoverReadDecision, TxnPcs
  <2> DEFINE d == ReadJournal(task[p].txn.lead)
  <2>2. CASE Return(p, "recovery_required")
      BY <2>2, ReturnHeld DEF Terminal
  <2>3. CASE SameTransaction(task[p].txn, d)
            /\ \E at \in {"lock_recovery", "lock_finalized"} : LockFor(p, d, at)
    <3>1. d \in Journals /\ d.lead \in d.roots /\ d.lead \notin away
        BY <2>1, <2>3, DecisionLead
    <3> HIDE DEF d
    <3> QED BY <2>3, <3>1, LockForHeld
  <2> QED BY <1>2, <2>2, <2>3 DEF RecoverReadDecision
<1>3. CASE RecoverLock(p)
  <2> DEFINE l == IF pc[p] = "lock_finalized" THEN "retire" ELSE "recheck_recovery"
  <2>1. PICK r \in task[p].todo : /\ lock' = [lock EXCEPT ![p].excl = @ \cup {r}]
                                  /\ Loop(p, r, l)
      BY <1>3 DEF RecoverLock
  <2>2. pc[p] \in {"lock_recovery", "lock_finalized"}
      BY <1>3 DEF RecoverLock
  <2> HIDE DEF l
  <2>3. SameTask(task[p], task'[p]) /\ Extent(task'[p]) = Extent(task[p])
      BY <2>1, LoopAfter, SameExtent
  <2>4. lock'[p].excl = lock[p].excl \cup {r}
      BY <2>1, LockAfter
  <2>5. /\ task[p].todo \subseteq Extent(task[p]) /\ task[p].txn.lead \in Extent(task[p])
        /\ Extent(task[p]) \ task[p].todo \subseteq lock[p].excl
      BY <2>2 DEF Held, Scope, Locked, Worked, TxnPcs
  <2>6. task'[p].txn.lead \in Extent(task'[p])
      BY <2>3, <2>5 DEF SameTask
  <2>7. CASE task[p].todo = {r}
    <3>1. pc'[p] = l /\ task'[p].todo = Extent(task'[p])
        BY <2>1, <2>3, <2>7, LoopAfter
    <3>2. Extent(task'[p]) \subseteq lock'[p].excl
        BY <2>3, <2>4, <2>5, <2>7
    <3>3. l \in {"retire", "recheck_recovery"}
        BY DEF l
    <3> QED BY <2>6, <3>1, <3>2, <3>3 DEF Held, Scope, Locked, Worked, TxnPcs, Exclusive, Owning
  <2>8. CASE task[p].todo # {r}
    <3>1. pc'[p] = pc[p] /\ task'[p].todo = task[p].todo \ {r}
        BY <2>1, <2>8, LoopAfter
    <3>2. Extent(task'[p]) \ task'[p].todo \subseteq lock'[p].excl
        BY <2>3, <2>4, <2>5, <3>1
    <3>3. task'[p].todo \subseteq Extent(task'[p])
        BY <2>3, <2>5, <3>1
    <3> QED BY <2>2, <2>6, <3>1, <3>2, <3>3 DEF Held, Scope, Locked, Worked, TxnPcs, Exclusive, Owning
  <2> QED BY <2>7, <2>8
<1>4. CASE RecoverLockFails(p)
  <2>1. task[p].txn \in Journals
      BY <1>4, TxnOf DEF RecoverLockFails, TxnPcs
  <2> DEFINE d == ReadJournal(task[p].txn.lead)
  <2>2. CASE Return(p, "failed")
      BY <2>2, ReturnHeld DEF Terminal
  <2>3. CASE SameTransaction(task[p].txn, d) /\ LockFor(p, d, "lock_finalized")
    <3>1. d \in Journals /\ d.lead \in d.roots /\ d.lead \notin away
        BY <2>1, <2>3, DecisionLead
    <3> HIDE DEF d
    <3> QED BY <2>3, <3>1, LockForHeld
  <2> QED BY <1>4, <2>2, <2>3 DEF RecoverLockFails
<1>5. CASE RecoverRecheck(p)
  <2> DEFINE t == task[p].txn
             d == ReadJournal(t.lead)
  <2>1. pc[p] = "recheck_recovery" /\ t \in Journals
      BY <1>5, TxnOf DEF RecoverRecheck, TxnPcs
  <2>2. CASE \E r : Recovered(p, r)
      BY <2>2, RecoveredHeld
  <2>3. CASE Return(p, "recovery_required")
      BY <2>3, ReturnHeld DEF Terminal
  <2>4. CASE /\ SameTransaction(t, d) /\ task' = [task EXCEPT ![p].txn = d, ![p].mode = "recover"]
             /\ Goto(p, RepairStep(d.state)) /\ UNCHANGED lock
    <3>1. d \in Journals
        BY <2>1, <2>4, DecisionLead
    <3> HIDE DEF d
    <3>2. /\ task'[p].txn = d /\ task'[p].roots = task[p].roots /\ task'[p].absent = task[p].absent
          /\ task'[p].todo = task[p].todo
      <4>1. task'[p] = [task[p] EXCEPT !.txn = d, !.mode = "recover"]
          BY <2>4 DEF TypeOK
      <4> QED BY <4>1, TaskOf DEF Tasks
    <3>3. d # None /\ t # None /\ d.roots = t.roots /\ d.lead = t.lead
        BY <2>4 DEF SameTransaction
    <3>4. Extent(task'[p]) = Extent(task[p])
        BY <3>2, <3>3 DEF Extent
    <3>5. pc'[p] \in Repairing
        BY <2>4, <3>1, GotoAfter, RepairSteps, JournalFields
    <3>6. task[p].todo \subseteq Extent(task[p]) /\ pc[p] \in Exclusive
        BY <2>1 DEF Held, Scope, Worked, TxnPcs, Exclusive
    <3> QED BY <2>4, <3>2, <3>3, <3>4, <3>5, <3>6, RepairHeld
  <2> QED BY <1>5, <2>2, <2>3, <2>4 DEF RecoverRecheck
<1> QED BY <1>1, <1>2, <1>3, <1>4, <1>5 DEF RecoverStep

LEMMA RetiredHeld ==
    ASSUME TypeOK, NEW p \in Procs, Retired(p)
    PROVE  Held(pc'[p], task'[p], lock'[p])
<1>1. (\E r : Recovered(p, r)) \/ (\E result \in Terminal : Return(p, result))
    BY DEF Retired, Terminal
<1> QED BY <1>1, RecoveredHeld, ReturnHeld

\* A step of a repair that does not leave the entry it is at.
LEMMA StayHeld ==
    ASSUME TypeOK, NEW p \in Procs, NEW l \in Repairing, pc[p] \in Repairing, Goto(p, l),
           UNCHANGED <<task, lock>>, Held(pc[p], task[p], lock[p])
    PROVE  Held(pc'[p], task'[p], lock'[p])
<1>1. task[p].todo \subseteq Extent(task[p]) /\ pc[p] \in Exclusive
    BY DEF Held, Scope, Repairing, Exclusive
<1> QED BY <1>1, GotoAfter, RepairHeld

LEMMA CleanupHeld ==
    ASSUME TypeOK, TxnInHand, NEW p \in Procs, Held(pc[p], task[p], lock[p]), CleanupStep(p)
    PROVE  Held(pc'[p], task'[p], lock'[p])
<1> DEFINE Here == {"verify_prepared", "drop_stage", "finalize", "retire", "verify_rollback",
                    "undo_promotion", "undo_backup", "record_prepared", "verify_committed",
                    "verify_cleaning", "clean"}
<1>1. Here \subseteq Repairing /\ {"prepared", "cleaning", "finalized"} \subseteq States
    BY DEF Repairing, Exclusive, Worked, TxnPcs, Owning, States
<1>2. pc[p] \in Here
    BY DEF CleanupStep, VerifyPrepared, DropStage, Finalize, Retire, VerifyRollback,
        UndoPromotion, UndoBackup, RecordPrepared, VerifyCommitted, VerifyCleaning, Clean
<1>3. CASE \E late \in BOOLEAN : CleanupFailed(p, late)
    BY <1>3, CleanupFailedAfter, ReturnHeld
<1>4. CASE UNCHANGED <<task, lock>> /\ \E l \in Here : Goto(p, l)
  <2> HIDE DEF Here
  <2> QED BY <1>1, <1>2, <1>4, StayHeld
<1>5. CASE UNCHANGED lock /\ \E r \in task[p].todo, l \in Here : Loop(p, r, l)
  <2> HIDE DEF Here
  <2> QED BY <1>1, <1>2, <1>5, LoopHeld
<1>6. CASE \E s \in {"prepared", "cleaning", "finalized"}, l \in Here : RecordDecision(p, s, l)
  <2> HIDE DEF Here
  <2> QED BY <1>1, <1>2, <1>6, RecordHeld
<1>7. CASE Retired(p)
    BY <1>7, RetiredHeld
<1>8. CASE VerifyPrepared(p) \/ VerifyRollback(p) \/ VerifyCleaning(p)
    BY <1>3, <1>4, <1>8 DEF VerifyPrepared, VerifyRollback, VerifyCleaning
<1>9. CASE DropStage(p) \/ Clean(p)
    BY <1>3, <1>5, <1>9 DEF DropStage, Clean
<1>10. CASE Finalize(p) \/ RecordPrepared(p) \/ VerifyCommitted(p)
    BY <1>3, <1>6, <1>10 DEF Finalize, RecordPrepared, VerifyCommitted
<1>11. CASE Retire(p)
    BY <1>3, <1>5, <1>7, <1>11 DEF Retire
<1>12. CASE UndoPromotion(p)
    BY <1>3, <1>4, <1>12 DEF UndoPromotion
<1>13. CASE UndoBackup(p)
  <2>1. CASE \E r \in Roots, l \in Here :
                  /\ task' = [task EXCEPT ![p].todo = IF @ = {r} THEN All(p) ELSE @ \ {r}]
                  /\ Goto(p, l) /\ UNCHANGED lock
    <3>1. PICK r \in Roots, l \in Here :
                  /\ task' = [task EXCEPT ![p].todo = IF @ = {r} THEN All(p) ELSE @ \ {r}]
                  /\ Goto(p, l) /\ UNCHANGED lock
        BY <2>1
    <3>2. /\ SameTask(task[p], task'[p]) /\ Extent(task'[p]) = Extent(task[p])
          /\ task'[p].todo = IF task[p].todo = {r} THEN Extent(task[p]) ELSE task[p].todo \ {r}
        BY <3>1, NextEntryAfter, SameExtent
    <3>3. task[p].todo \subseteq Extent(task[p]) /\ pc[p] \in Exclusive
        BY <1>1, <1>2 DEF Held, Scope, Repairing, Exclusive
    <3>4. pc'[p] \in Repairing
        BY <1>1, <3>1, GotoAfter
    <3> HIDE DEF Here
    <3>5. task'[p].todo \subseteq Extent(task'[p]) /\ task'[p].txn = task[p].txn
        BY <3>2, <3>3 DEF SameTask
    <3> QED BY <3>1, <3>2, <3>3, <3>4, <3>5, RepairHeld
  <2>2. task[p].todo \subseteq Roots
      BY TaskOf, TasksFields
  <2> QED BY <1>3, <1>13, <2>1, <2>2 DEF UndoBackup
<1> QED BY <1>8, <1>9, <1>10, <1>11, <1>12, <1>13 DEF CleanupStep

LEMMA LockingHeld ==
    ASSUME TypeOK, NEW p \in Procs, Held(pc[p], task[p], lock[p]),
           WriterLock(p) \/ SharedLock(p) \/ Inspect(p)
    PROVE  Held(pc'[p], task'[p], lock'[p])
<1> DEFINE l == IF pc[p] = "writer_lock" THEN "shared_lock"
                ELSE IF pc[p] = "shared_lock" THEN "inspect" ELSE "prepare"
<1>1. CASE Return(p, "recovery_required")
    BY <1>1, ReturnHeld DEF Terminal
<1>2. CASE \E r \in task[p].todo :
              /\ Loop(p, r, l)
              /\ \/ pc[p] = "writer_lock" /\ lock' = [lock EXCEPT ![p].writer = @ \cup {r}]
                 \/ pc[p] = "shared_lock" /\ lock' = [lock EXCEPT ![p].shared = @ \cup {r}]
                 \/ pc[p] = "inspect" /\ UNCHANGED lock
  <2>1. PICK r \in task[p].todo :
              /\ Loop(p, r, l)
              /\ \/ pc[p] = "writer_lock" /\ lock' = [lock EXCEPT ![p].writer = @ \cup {r}]
                 \/ pc[p] = "shared_lock" /\ lock' = [lock EXCEPT ![p].shared = @ \cup {r}]
                 \/ pc[p] = "inspect" /\ UNCHANGED lock
      BY <1>2
  <2>2. /\ task[p].txn = None /\ task[p].absent = {} /\ task[p].todo \subseteq Extent(task[p])
        /\ IF pc[p] = "writer_lock" THEN Extent(task[p]) \ task[p].todo \subseteq lock[p].writer
                                    ELSE Extent(task[p]) \subseteq lock[p].writer
      BY <2>1 DEF Held, Scope, Locked
  <2>3. IF pc[p] = "writer_lock" THEN lock'[p].writer = lock[p].writer \cup {r}
                                 ELSE lock'[p].writer = lock[p].writer
      BY <2>1, LockAfter
  <2>4. /\ SameTask(task[p], task'[p]) /\ Extent(task'[p]) = Extent(task[p])
        /\ IF task[p].todo = {r} THEN pc'[p] = l /\ task'[p].todo = Extent(task[p])
                                 ELSE pc'[p] = pc[p] /\ task'[p].todo = task[p].todo \ {r}
      BY <2>1, LoopAfter, SameExtent
  <2>5. task'[p].txn = None /\ task'[p].absent = {} /\ task'[p].todo \subseteq Extent(task'[p])
      BY <2>2, <2>4 DEF SameTask, SameCall
  <2>6. IF pc'[p] = "writer_lock" THEN Extent(task'[p]) \ task'[p].todo \subseteq lock'[p].writer
                                  ELSE Extent(task'[p]) \subseteq lock'[p].writer
      BY <2>1, <2>2, <2>3, <2>4
  <2>7. pc'[p] = "prepare" => task'[p].todo = Extent(task'[p])
      BY <2>1, <2>4
  <2>8. pc'[p] \in {"writer_lock", "shared_lock", "inspect", "prepare"}
      BY <2>1, <2>4
  <2> QED BY <2>5, <2>6, <2>7, <2>8 DEF Held, Scope, Locked, Worked, TxnPcs, Exclusive, Owning
<1> QED BY <1>1, <1>2 DEF WriterLock, SharedLock, Inspect

LEMMA PrepareHeld ==
    ASSUME TypeOK, NEW p \in Procs, Held(pc[p], task[p], lock[p]), Prepare(p)
    PROVE  Held(pc'[p], task'[p], lock'[p])
<1>1. PICK lead \in task[p].roots : task' = [task EXCEPT ![p].txn =
              [gen |-> nextGen, state |-> "prepared", lead |-> lead, roots |-> task[p].roots,
               prev |-> [r \in Roots |-> IF r \in task[p].roots THEN dir[r] ELSE Absent]]]
    BY DEF Prepare
<1> DEFINE j == [gen |-> nextGen, state |-> "prepared", lead |-> lead, roots |-> task[p].roots,
                 prev |-> [r \in Roots |-> IF r \in task[p].roots THEN dir[r] ELSE Absent]]
<1>2. j \in Journals
  <2>1. [r \in Roots |-> IF r \in task[p].roots THEN dir[r] ELSE Absent] \in [Roots -> Contents]
      BY GenContents DEF TypeOK
  <2> QED BY <2>1, TaskOf, TasksFields DEF Journals, States, Prepare
<1>3. j.roots = task[p].roots /\ j.lead = lead
    OBVIOUS
<1> HIDE DEF j
<1>4. task'[p].txn = j /\ SameCall(task[p], task'[p]) /\ task'[p].todo = task[p].todo
  <2>1. task'[p] = [task[p] EXCEPT !.txn = j]
      BY <1>1 DEF TypeOK, j
  <2> QED BY <2>1, TaskOf DEF Tasks, SameCall
<1>5. /\ pc[p] = "prepare" /\ pc'[p] = "stage" /\ UNCHANGED lock
    BY GotoAfter DEF Prepare
<1>6. /\ task[p].txn = None /\ task[p].absent = {} /\ task[p].todo = task[p].roots
      /\ task[p].roots \subseteq lock[p].writer
    BY <1>5 DEF Held, Scope, Locked, Extent
<1>7. Extent(task'[p]) = task[p].roots
    BY <1>2, <1>3, <1>4, <1>6, JournalFields DEF Extent, SameCall
<1>8. /\ task'[p].todo = Extent(task'[p]) /\ task'[p].txn.lead \in Extent(task'[p])
      /\ Extent(task'[p]) = task'[p].roots /\ Extent(task'[p]) \subseteq lock'[p].writer
    BY <1>3, <1>4, <1>5, <1>6, <1>7 DEF SameCall
<1> QED BY <1>5, <1>8 DEF Held, Scope, Locked, Worked, TxnPcs, Exclusive, Owning

LEMMA StagingHeld ==
    ASSUME TypeOK, NEW p \in Procs, Held(pc[p], task[p], lock[p]),
           Stage(p) \/ Validate(p) \/ ExclLock(p) \/ Discard(p) \/ Recheck(p)
    PROVE  Held(pc'[p], task'[p], lock'[p])
<1>0. /\ pc[p] \in {"stage", "validate", "excl_lock", "discard", "recheck"}
      /\ task[p].todo \subseteq Extent(task[p]) /\ task[p].txn.lead \in Extent(task[p])
      /\ Extent(task[p]) \subseteq lock[p].writer
      /\ pc[p] # "discard" => Extent(task[p]) = task[p].roots
  <2>1. pc[p] \in {"stage", "validate", "excl_lock", "discard", "recheck"}
      BY DEF Stage, Validate, ExclLock, Discard, Recheck
  <2> QED BY <2>1 DEF Held, Scope, Locked, Worked, TxnPcs, Owning
<1>1. CASE /\ task' = [task EXCEPT ![p].todo = All(p)] \/ UNCHANGED task
           /\ UNCHANGED lock /\ Goto(p, "discard")
  <2>1. task'[p].todo \subseteq Extent(task'[p]) /\ task'[p].txn = task[p].txn
        /\ Extent(task'[p]) = Extent(task[p])
    <3>1. CASE task' = [task EXCEPT ![p].todo = All(p)]
        BY <3>1, TodoAfter, SameExtent, AllExtent DEF SameTask
    <3> QED BY <1>0, <1>1, <3>1
  <2> QED BY <1>0, <1>1, <2>1, GotoAfter DEF Held, Scope, Locked, Worked, TxnPcs, Exclusive, Owning
<1>2. CASE Stage(p)
  <2>1. CASE \E r \in task[p].todo : Loop(p, r, "validate")
    <3>1. PICK r \in task[p].todo : Loop(p, r, "validate")
        BY <2>1
    <3>2. /\ SameTask(task[p], task'[p]) /\ Extent(task'[p]) = Extent(task[p])
          /\ IF task[p].todo = {r} THEN pc'[p] = "validate" /\ task'[p].todo = Extent(task[p])
                                   ELSE pc'[p] = pc[p] /\ task'[p].todo = task[p].todo \ {r}
        BY <3>1, LoopAfter, SameExtent
    <3>3. pc[p] = "stage" /\ UNCHANGED lock
        BY <1>2 DEF Stage
    <3>4. task'[p].txn = task[p].txn /\ task'[p].roots = task[p].roots
        BY <3>2 DEF SameTask, SameCall
    <3> QED BY <1>0, <3>2, <3>3, <3>4 DEF Held, Scope, Locked, Worked, TxnPcs, Exclusive, Owning
  <2> QED BY <1>1, <1>2, <2>1 DEF Stage
<1>3. CASE Validate(p)
  <2>1. CASE Goto(p, "excl_lock") /\ lock' = [lock EXCEPT ![p].shared = {}] /\ UNCHANGED task
    <3>1. lock'[p].writer = lock[p].writer
        BY <2>1 DEF TypeOK, Locks
    <3>2. task[p].todo = Extent(task[p])
        BY <1>3 DEF Validate, Held, Scope
    <3>3. Extent(task[p]) = task[p].roots
        BY <1>0, <1>3 DEF Validate
    <3> QED BY <1>0, <2>1, <3>1, <3>2, <3>3, GotoAfter
            DEF Held, Scope, Locked, Worked, TxnPcs, Exclusive, Owning
  <2> QED BY <1>1, <1>3, <2>1 DEF Validate
<1>4. CASE ExclLock(p)
  <2>1. PICK r \in task[p].todo : /\ lock' = [lock EXCEPT ![p].excl = @ \cup {r}]
                                  /\ Loop(p, r, "recheck")
      BY <1>4 DEF ExclLock
  <2>2. /\ SameTask(task[p], task'[p]) /\ Extent(task'[p]) = Extent(task[p])
        /\ IF task[p].todo = {r} THEN pc'[p] = "recheck" /\ task'[p].todo = Extent(task[p])
                                 ELSE pc'[p] = pc[p] /\ task'[p].todo = task[p].todo \ {r}
      BY <2>1, LoopAfter, SameExtent
  <2>3. lock'[p].excl = lock[p].excl \cup {r} /\ lock'[p].writer = lock[p].writer
      BY <2>1, LockAfter
  <2>4. pc[p] = "excl_lock" /\ Extent(task[p]) \ task[p].todo \subseteq lock[p].excl
      BY <1>4 DEF ExclLock, Held, Locked
  <2>5. task'[p].txn = task[p].txn /\ task'[p].roots = task[p].roots
      BY <2>2 DEF SameTask, SameCall
  <2>6. IF pc'[p] = "recheck" THEN Extent(task'[p]) \subseteq lock'[p].excl
                              ELSE Extent(task'[p]) \ task'[p].todo \subseteq lock'[p].excl
      BY <2>2, <2>3, <2>4
  <2> QED BY <1>0, <2>2, <2>3, <2>4, <2>5, <2>6
          DEF Held, Scope, Locked, Worked, TxnPcs, Exclusive, Owning
<1>5. CASE Discard(p)
  <2>1. CASE Return(p, "failed")
      BY <2>1, ReturnHeld DEF Terminal
  <2>2. CASE UNCHANGED lock /\ \E r \in task[p].todo : Loop(p, r, "discard")
    <3>1. SameTask(task[p], task'[p]) /\ Extent(task'[p]) = Extent(task[p])
        BY <2>2, LoopAfter, SameExtent
    <3>2. pc'[p] = "discard" /\ task'[p].todo \subseteq Extent(task'[p])
      <4>1. pc[p] = "discard"
          BY <1>5 DEF Discard
      <4> QED BY <1>0, <2>2, <3>1, <4>1, LoopAfter
    <3> QED BY <1>0, <2>2, <3>1, <3>2 DEF SameTask, Held, Scope, Locked, Worked, TxnPcs, Exclusive, Owning
  <2> QED BY <1>5, <2>1, <2>2 DEF Discard
<1>6. CASE Recheck(p)
  <2>1. CASE Goto(p, "persist") /\ UNCHANGED <<task, lock>>
    <3>1. "recheck" \in Exclusive \cap Owning /\ "persist" \in Exclusive \cap Owning
        BY DEF Exclusive, Owning, Worked, TxnPcs
    <3> QED BY <1>0, <1>6, <2>1, <3>1, GotoAfter, OwningHeld DEF Recheck
  <2> QED BY <1>1, <1>6, <2>1 DEF Recheck
<1> QED BY <1>2, <1>3, <1>4, <1>5, <1>6

\* The entries again, for somebody else's loop.
LEMMA RefillAfter ==
    ASSUME TypeOK, NEW p \in Procs, NEW m \in {"none", "recover", "abandon", "undo", "finish"},
           task' = [task EXCEPT ![p].mode = m, ![p].todo = All(p)]
    PROVE  SameTask(task[p], task'[p]) /\ task'[p].todo = Extent(task[p]) /\ task'[p].mode = m
<1> DEFINE S == All(p)
<1>1. S = Extent(task[p])
    BY AllExtent
<1> HIDE DEF S
<1>2. task'[p] = [task[p] EXCEPT !.mode = m, !.todo = S]
    BY DEF TypeOK, S
<1>3. /\ task'[p].kind = task[p].kind /\ task'[p].roots = task[p].roots
      /\ task'[p].absent = task[p].absent /\ task'[p].queue = task[p].queue
      /\ task'[p].seen = task[p].seen /\ task'[p].txn = task[p].txn
      /\ task'[p].todo = S /\ task'[p].mode = m
  <2>1. task[p] \in Tasks
      BY TaskOf
  <2> QED BY ONLY <1>2, <2>1 DEF Tasks
<1> QED BY <1>1, <1>3 DEF SameTask, SameCall

LEMMA PublishingHeld ==
    ASSUME TypeOK, TxnInHand, NEW p \in Procs, Held(pc[p], task[p], lock[p]),
           Persist(p) \/ Publish(p) \/ PromoteBackup(p) \/ PromoteStage(p) \/ Commit(p)
    PROVE  Held(pc'[p], task'[p], lock'[p])
<1> DEFINE Here == {"persist", "publish", "promote_backup", "promote_stage"}
<1>1. Here \subseteq Exclusive \cap Owning /\ {"verify_prepared", "verify_rollback", "verify_committed",
          "commit"} \subseteq Repairing
    BY DEF Repairing, Exclusive, Worked, TxnPcs, Owning
<1>2. pc[p] \in Here \cup {"commit"}
    BY DEF Persist, Publish, PromoteBackup, PromoteStage, Commit
<1>3. pc[p] \in Exclusive /\ task[p].todo \subseteq Extent(task[p]) /\ pc[p] \in TxnPcs
    BY <1>1, <1>2 DEF Held, Scope, Exclusive, Repairing, Worked
<1> HIDE DEF Here
<1>4. CASE UNCHANGED lock /\ \E m \in {"abandon", "undo"}, l \in {"verify_prepared", "verify_rollback"} :
               task' = [task EXCEPT ![p].mode = m, ![p].todo = All(p)] /\ Goto(p, l)
  <2>1. /\ SameTask(task[p], task'[p]) /\ Extent(task'[p]) = Extent(task[p])
        /\ task'[p].todo = Extent(task[p])
      BY <1>4, RefillAfter, SameExtent
  <2>2. pc'[p] \in Repairing
      BY <1>1, <1>4, GotoAfter
  <2> QED BY <1>3, <1>4, <2>1, <2>2, RepairHeld DEF SameTask
<1>5. CASE Persist(p)
  <2>1. CASE UNCHANGED lock /\ \E r \in task[p].todo : Loop(p, r, "publish")
    <3>1. pc[p] \in Here /\ "publish" \in Here
        BY <1>5 DEF Persist, Here
    <3> QED BY <1>1, <2>1, <3>1, LoopHeld
  <2> QED BY <1>4, <1>5, <2>1 DEF Persist
<1>6. CASE Publish(p)
  <2>1. pc[p] \in Here /\ "promote_backup" \in Here /\ "publishing" \in States
      BY <1>6 DEF Publish, Here, States
  <2> QED BY <1>1, <1>6, <2>1, RecordHeld DEF Publish
<1>7. CASE PromoteBackup(p)
  <2>1. CASE Goto(p, "promote_stage") /\ UNCHANGED <<task, lock>>
    <3>1. pc[p] \in Here /\ "promote_stage" \in Here
        BY <1>7 DEF PromoteBackup, Here
    <3>2. /\ pc[p] \in Exclusive \cap Owning /\ pc'[p] \in Exclusive \cap Owning
          /\ lock'[p] = lock[p] /\ task'[p] = task[p]
        BY <1>1, <2>1, <3>1, GotoAfter
    <3> QED BY <1>3, <3>2, OwningHeld
  <2> QED BY <1>4, <1>7, <2>1 DEF PromoteBackup, Undo
<1>8. CASE PromoteStage(p)
  <2>1. CASE \E r \in Roots :
                /\ task' = [task EXCEPT ![p].todo = IF @ = {r} THEN All(p) ELSE @ \ {r}]
                /\ Goto(p, IF task[p].todo = {r} THEN "commit" ELSE "promote_backup")
    <3>1. PICK r \in Roots :
                /\ task' = [task EXCEPT ![p].todo = IF @ = {r} THEN All(p) ELSE @ \ {r}]
                /\ Goto(p, IF task[p].todo = {r} THEN "commit" ELSE "promote_backup")
        BY <2>1
    <3>2. /\ SameTask(task[p], task'[p]) /\ Extent(task'[p]) = Extent(task[p])
          /\ task'[p].todo = IF task[p].todo = {r} THEN Extent(task[p]) ELSE task[p].todo \ {r}
        BY <3>1, NextEntryAfter, SameExtent
    <3>3. /\ task'[p].todo \subseteq Extent(task'[p]) /\ task'[p].txn = task[p].txn
          /\ task'[p].roots = task[p].roots
        BY <1>3, <3>2 DEF SameTask, SameCall
    <3>4. pc'[p] \in {"commit", "promote_backup"}
        BY <3>1, GotoAfter
    <3>5. /\ pc[p] \in Exclusive \cap Owning /\ "promote_backup" \in Exclusive \cap Owning
          /\ "commit" \in Repairing /\ lock'[p] = lock[p]
      <4>1. pc[p] \in Here /\ "promote_backup" \in Here
          BY <1>8 DEF PromoteStage, Here
      <4> QED BY <1>1, <1>8, <4>1 DEF PromoteStage
    <3> QED BY <3>2, <3>3, <3>4, <3>5, OwningHeld, RepairHeld
  <2>2. task[p].todo \subseteq Roots
      BY TaskOf, TasksFields
  <2> QED BY <1>4, <1>8, <2>1, <2>2 DEF PromoteStage, Undo
<1>9. CASE Commit(p)
  <2> DEFINE j == [task[p].txn EXCEPT !.state = "committed"]
  <2>1. task[p].txn \in Journals /\ "committed" \in States
      BY <1>3, TxnOf DEF States
  <2>2. SameRecord(task[p].txn, j)
      BY <2>1, SetState, JournalFields DEF SameRecord
  <2> HIDE DEF j
  <2>3. CASE /\ task' = [task EXCEPT ![p].txn = j, ![p].mode = "finish"]
             /\ Goto(p, "verify_committed") /\ UNCHANGED lock
    <3>1. /\ task'[p].txn = j /\ SameCall(task[p], task'[p]) /\ task'[p].todo = task[p].todo
      <4>1. task'[p] = [task[p] EXCEPT !.txn = j, !.mode = "finish"]
          BY <2>3 DEF TypeOK
      <4> QED BY <4>1, TaskOf DEF Tasks, SameCall
    <3>2. Extent(task'[p]) = Extent(task[p]) /\ task'[p].txn.lead = task[p].txn.lead
        BY <2>2, <3>1, RecordExtent DEF SameRecord
    <3>3. pc'[p] \in Repairing /\ lock'[p] = lock[p]
        BY <1>1, <2>3, GotoAfter
    <3> QED BY <1>3, <3>1, <3>2, <3>3, RepairHeld
  <2>4. CASE Return(p, "recovery_required")
      BY <2>4, ReturnHeld DEF Terminal
  <2> QED BY <1>4, <1>9, <2>3, <2>4 DEF Commit, Undo, j
<1> QED BY <1>5, <1>6, <1>7, <1>8, <1>9

LEMMA ReadHeld ==
    ASSUME TypeOK, NEW p \in Procs, Held(pc[p], task[p], lock[p]), ReadStep(p)
    PROVE  Held(pc'[p], task'[p], lock'[p])
<1>0. pc[p] \in Readers
    BY DEF ReadStep, ReadInit, ReadWait, ReadLock, ReadCheck, Read, ReadDone
<1>1. /\ task[p].txn = None /\ task[p].absent = {} /\ task[p].todo \subseteq Extent(task[p])
      /\ task[p].kind = "read"
    BY <1>0 DEF Held, Scope
<1>2. CASE Return(p, "recovery_required") \/ Return(p, "ok")
    BY <1>2, ReturnHeld DEF Terminal
<1>3. ASSUME SameTask(task[p], task'[p]), task'[p].todo \subseteq Extent(task'[p]), pc'[p] \in Readers,
             pc'[p] = "read_lock" => Extent(task'[p]) \ task'[p].todo \subseteq lock'[p].shared,
             pc'[p] = "read_check" => task'[p].todo = Extent(task'[p]),
             pc'[p] \in {"read_check", "read", "read_done"} => Extent(task'[p]) \subseteq lock'[p].shared
      PROVE  Held(pc'[p], task'[p], lock'[p])
    BY <1>1, <1>3 DEF SameTask, SameCall, Held, Scope, Locked, Worked, TxnPcs, Exclusive, Owning
<1>4. CASE ReadInit(p)
  <2>1. CASE Goto(p, "read_wait") /\ UNCHANGED <<task, lock>>
      BY <1>1, <1>3, <2>1, GotoAfter DEF SameTask, SameCall
  <2>2. CASE UNCHANGED lock /\ \E r \in task[p].todo : Loop(p, r, "read_lock")
    <3>1. PICK r \in task[p].todo : Loop(p, r, "read_lock")
        BY <2>2
    <3>2. /\ SameTask(task[p], task'[p]) /\ Extent(task'[p]) = Extent(task[p])
          /\ IF task[p].todo = {r} THEN pc'[p] = "read_lock" /\ task'[p].todo = Extent(task[p])
                                   ELSE pc'[p] = pc[p] /\ task'[p].todo = task[p].todo \ {r}
        BY <3>1, LoopAfter, SameExtent
    <3>3. pc[p] = "read_init"
        BY <1>4 DEF ReadInit
    <3> QED BY <1>1, <1>3, <3>2, <3>3
  <2> QED BY <1>4, <2>1, <2>2 DEF ReadInit
<1>5. CASE ReadWait(p)
  <2>1. PICK r : /\ task' = [task EXCEPT ![p].todo = IF @ = {r} THEN All(p) ELSE @ \ {r}]
                 /\ Goto(p, IF task[p].todo = {r} THEN "read_lock" ELSE "read_init")
      BY <1>5 DEF ReadWait
  <2>2. /\ SameTask(task[p], task'[p]) /\ Extent(task'[p]) = Extent(task[p])
        /\ task'[p].todo = IF task[p].todo = {r} THEN Extent(task[p]) ELSE task[p].todo \ {r}
      BY <2>1, NextEntryAfter, SameExtent
  <2>3. pc'[p] = IF task[p].todo = {r} THEN "read_lock" ELSE "read_init"
      BY <2>1, GotoAfter
  <2> QED BY <1>1, <1>3, <2>2, <2>3
<1>6. CASE ReadLock(p)
  <2>1. PICK r \in task[p].todo : /\ lock' = [lock EXCEPT ![p].shared = @ \cup {r}]
                                  /\ Loop(p, r, "read_check")
      BY <1>6 DEF ReadLock
  <2>2. /\ SameTask(task[p], task'[p]) /\ Extent(task'[p]) = Extent(task[p])
        /\ IF task[p].todo = {r} THEN pc'[p] = "read_check" /\ task'[p].todo = Extent(task[p])
                                 ELSE pc'[p] = pc[p] /\ task'[p].todo = task[p].todo \ {r}
      BY <2>1, LoopAfter, SameExtent
  <2>3. lock'[p].shared = lock[p].shared \cup {r}
      BY <2>1, LockAfter
  <2>4. pc[p] = "read_lock" /\ Extent(task[p]) \ task[p].todo \subseteq lock[p].shared
      BY <1>6 DEF ReadLock, Held, Locked
  <2> QED BY <1>1, <1>3, <2>2, <2>3, <2>4
<1>7. CASE ReadCheck(p)
  <2>1. CASE Goto(p, "read") /\ UNCHANGED <<task, lock>>
    <3>1. pc[p] = "read_check" /\ Extent(task[p]) \subseteq lock[p].shared
        BY <1>7 DEF ReadCheck, Held, Locked
    <3> QED BY <1>1, <1>3, <2>1, <3>1, GotoAfter DEF SameTask, SameCall
  <2> QED BY <1>2, <1>7, <2>1 DEF ReadCheck
<1>8. CASE Read(p)
  <2>1. PICK r : task' = [task EXCEPT ![p].seen[r] = dir[r], ![p].todo = @ \ {r}]
      BY <1>8 DEF Read
  <2>2. /\ task'[p].kind = task[p].kind /\ task'[p].roots = task[p].roots
        /\ task'[p].txn = task[p].txn /\ task'[p].absent = task[p].absent
        /\ task'[p].todo = task[p].todo \ {r}
      BY <2>1, TaskOf DEF TypeOK, Tasks
  <2>3. Extent(task'[p]) = Extent(task[p])
      BY <2>2 DEF Extent
  <2>4. pc[p] = "read" /\ Extent(task[p]) \subseteq lock[p].shared /\ UNCHANGED lock
      BY <1>8 DEF Read, Held, Locked
  <2>5. pc'[p] \in {"read", "read_done"}
      BY <1>8, GotoAfter DEF Read
  <2> QED BY <1>1, <2>2, <2>3, <2>4, <2>5 DEF Held, Scope, Locked, Worked, TxnPcs, Exclusive, Owning
<1>9. CASE ReadDone(p)
    BY <1>2, <1>9 DEF ReadDone
<1> QED BY <1>4, <1>5, <1>6, <1>7, <1>8, <1>9 DEF ReadStep

LEMMA EnvironmentHeld ==
    ASSUME TypeOK, NEW p \in Procs, Held(pc[p], task[p], lock[p]), Cancel(p) \/ Crash(p)
    PROVE  Held(pc'[p], task'[p], lock'[p])
<1>1. CASE Return(p, "failed") \/ Return(p, "idle")
    BY <1>1, ReturnHeld DEF Terminal
<1>2. CASE /\ pc[p] = "excl_lock" /\ task' = [task EXCEPT ![p].todo = All(p)]
           /\ lock' = [lock EXCEPT ![p].excl = {}] /\ Goto(p, "discard")
  <2>1. /\ SameTask(task[p], task'[p]) /\ Extent(task'[p]) = Extent(task[p])
        /\ task'[p].todo = Extent(task[p])
      BY <1>2, TodoAfter, SameExtent, AllExtent
  <2>2. lock'[p].writer = lock[p].writer
      BY <1>2 DEF TypeOK, Locks
  <2>3. task[p].txn.lead \in Extent(task[p]) /\ Extent(task[p]) \subseteq lock[p].writer
      BY <1>2 DEF Held, Scope, Locked, Worked, TxnPcs, Owning
  <2> QED BY <1>2, <2>1, <2>2, <2>3, GotoAfter
          DEF SameTask, Held, Scope, Locked, Worked, TxnPcs, Exclusive, Owning
<1> QED BY <1>1, <1>2 DEF Cancel, Crash

\* Every step keeps every call in possession of the locks it works under.
LEMMA HoldingKept ==
    ASSUME TypeOK, TxnInHand, Records, Holding, [Next]_vars
    PROVE  Holding'
<1>1. CASE UNCHANGED <<pc, task, lock>>
    BY <1>1 DEF Holding
<1>2. ASSUME NEW p \in Procs, Acts(p) PROVE Holding'
  <2>1. Held(pc[p], task[p], lock[p])
      BY DEF Holding
  <2>2. Held(pc'[p], task'[p], lock'[p])
    <3>1. CASE Start(p) \/ Cancel(p) \/ Crash(p)
        BY <2>1, <3>1, StartHeld, EnvironmentHeld
    <3>2. CASE RecoverStep(p) \/ CleanupStep(p) \/ ReadStep(p)
        BY <2>1, <3>2, RecoverHeld, CleanupHeld, ReadHeld
    <3>3. CASE UpdateStep(p)
        BY <2>1, <3>3, LockingHeld, PrepareHeld, StagingHeld, PublishingHeld DEF UpdateStep
    <3> QED BY <1>2, <3>1, <3>2, <3>3 DEF Acts, Step
  <2> QED BY <1>2, <2>2, OnlyOwn DEF Holding
<1> QED BY <1>1, <1>2 DEF Next, vars, Acts, MoveAway, MoveBack

-----------------------------------------------------------------------------
(* What a step writes, and under which lock.                                  *)

\* Nothing but the files of the root r changes, and no stage but that of the
\* transaction in hand.
Touches(p, r) ==
    /\ \A s \in Roots \ {r} : /\ dir'[s] = dir[s] /\ journal'[s] = journal[s]
                              /\ stage'[s] = stage[s] /\ backup'[s] = backup[s]
    /\ \A g \in Gens \ {task[p].txn.gen} : stage'[r][g] = stage[r][g]

LEMMA WritesOneEntry ==
    ASSUME TypeOK, NEW p \in Procs, NEW r \in Roots, UNCHANGED journal,
           UNCHANGED dir \/ \E c : dir' = [dir EXCEPT ![r] = c],
           UNCHANGED stage \/ \E c : stage' = [stage EXCEPT ![r][task[p].txn.gen] = c],
           UNCHANGED backup \/ \E c : backup' = [backup EXCEPT ![r][task[p].txn.gen] = c]
    PROVE  Touches(p, r)
<1>1. dir \in [Roots -> Contents] /\ stage \in [Roots -> [Gens -> Contents]]
      /\ backup \in [Roots -> [Gens -> Contents]]
    BY DEF TypeOK
<1>2. \A s \in Roots \ {r} : dir'[s] = dir[s] /\ stage'[s] = stage[s] /\ backup'[s] = backup[s]
    BY <1>1
<1>3. \A g \in Gens \ {task[p].txn.gen} : stage'[r][g] = stage[r][g]
    BY <1>1
<1> QED BY <1>2, <1>3 DEF Touches

\* The coordinator writes nothing but its own journal.
LEMMA RecordTouches ==
    ASSUME TypeOK, TxnInHand, NEW p \in Procs, pc[p] \in TxnPcs, NEW s \in States, NEW l,
           RecordDecision(p, s, l), UNCHANGED <<dir, stage, backup>>
    PROVE  /\ Touches(p, task[p].txn.lead)
           /\ \A r \in Roots : journal'[r] = journal[r] \/ SameRecord(task[p].txn, journal'[r])
<1> DEFINE j == [task[p].txn EXCEPT !.state = s]
<1>1. task[p].txn \in Journals /\ task[p].txn # None
    BY TxnOf, JournalFields
<1>2. SameRecord(task[p].txn, j)
    BY <1>1, SetState, JournalFields DEF SameRecord
<1>3. j.lead = task[p].txn.lead
    BY <1>1, SetState
<1>4. UNCHANGED journal \/ journal' = [journal EXCEPT ![j.lead] = j]
    BY DEF RecordDecision, Write, WriteFails
<1> HIDE DEF j
<1>5. journal \in [Roots -> Journals \cup {None}]
    BY DEF TypeOK
<1> QED BY <1>2, <1>3, <1>4, <1>5 DEF Touches

LEMMA CleanupTouches ==
    ASSUME TypeOK, TxnInHand, NEW p \in Procs, CleanupStep(p)
    PROVE  /\ pc[p] \in Repairing
           /\ \E r \in task[p].todo \cup {task[p].txn.lead} : Touches(p, r)
<1>0. dir \in [Roots -> Contents] /\ journal \in [Roots -> Journals \cup {None}]
      /\ stage \in [Roots -> [Gens -> Contents]] /\ backup \in [Roots -> [Gens -> Contents]]
    BY DEF TypeOK
<1>1. CASE VerifyPrepared(p) \/ VerifyRollback(p) \/ VerifyCleaning(p)
    BY <1>1 DEF VerifyPrepared, VerifyRollback, VerifyCleaning, fs, Touches, Repairing, Exclusive,
        Worked, TxnPcs, Owning
<1>2. CASE DropStage(p) \/ Clean(p)
  <2>1. pc[p] \in Repairing
      BY <1>2 DEF DropStage, Clean, Repairing, Exclusive, Worked, TxnPcs, Owning
  <2> DEFINE g == task[p].txn.gen
  <2>2. PICK r \in task[p].todo :
            /\ UNCHANGED <<dir, journal>>
            /\ \E c : stage' = [stage EXCEPT ![r][g] = c]
            /\ UNCHANGED backup \/ \E c : backup' = [backup EXCEPT ![r][g] = c]
      BY <1>2 DEF DropStage, Clean
  <2>3. r \in Roots
      BY StepRoots
  <2> QED BY <2>1, <2>2, <2>3, WritesOneEntry
<1>3. CASE UndoPromotion(p) \/ UndoBackup(p)
  <2>1. pc[p] \in Repairing
      BY <1>3 DEF UndoPromotion, UndoBackup, Repairing, Exclusive, Worked, TxnPcs, Owning
  <2> DEFINE g == task[p].txn.gen
  <2>2. PICK r \in task[p].todo :
            /\ UNCHANGED journal
            /\ UNCHANGED dir \/ \E c : dir' = [dir EXCEPT ![r] = c]
            /\ UNCHANGED stage \/ \E c : stage' = [stage EXCEPT ![r][g] = c]
            /\ UNCHANGED backup \/ \E c : backup' = [backup EXCEPT ![r][g] = c]
      BY <1>3 DEF UndoPromotion, UndoBackup
  <2>3. r \in Roots
      BY StepRoots
  <2> QED BY <2>1, <2>2, <2>3, WritesOneEntry
<1>4. CASE Retire(p)
    BY <1>0, <1>4 DEF Retire, Write, WriteFails, Touches, Repairing, Exclusive, Worked, TxnPcs, Owning
<1>5. CASE Finalize(p) \/ RecordPrepared(p)
  <2>1. pc[p] \in Repairing /\ pc[p] \in TxnPcs
      BY <1>5 DEF Finalize, RecordPrepared, Repairing, Exclusive, Worked, TxnPcs, Owning
  <2> QED BY <1>5, <2>1, RecordTouches DEF Finalize, RecordPrepared, States
<1>6. CASE VerifyCommitted(p)
  <2>1. pc[p] \in Repairing /\ pc[p] \in TxnPcs
      BY <1>6 DEF VerifyCommitted, Repairing, Exclusive, Worked, TxnPcs, Owning
  <2>2. UNCHANGED fs \/ RecordDecision(p, "cleaning", "verify_cleaning")
      BY <1>6 DEF VerifyCommitted, fs
  <2>3. CASE UNCHANGED fs
      BY <2>1, <2>3 DEF Touches, fs
  <2> QED BY <1>6, <2>1, <2>2, <2>3, RecordTouches DEF VerifyCommitted, States
<1> QED BY <1>1, <1>2, <1>3, <1>4, <1>5, <1>6 DEF CleanupStep

LEMMA PublishingTouches ==
    ASSUME TypeOK, TxnInHand, NEW p \in Procs,
           Persist(p) \/ Publish(p) \/ PromoteBackup(p) \/ PromoteStage(p) \/ Commit(p)
    PROVE  /\ pc[p] \in Exclusive
           /\ \E r \in task[p].todo \cup {task[p].txn.lead} : Touches(p, r)
<1>0. dir \in [Roots -> Contents] /\ journal \in [Roots -> Journals \cup {None}]
      /\ stage \in [Roots -> [Gens -> Contents]] /\ backup \in [Roots -> [Gens -> Contents]]
    BY DEF TypeOK
<1>1. CASE Persist(p)
    BY <1>0, <1>1 DEF Persist, Write, WriteFails, Touches, Exclusive, Worked, TxnPcs
<1>2. CASE Publish(p)
  <2>1. pc[p] \in Exclusive /\ pc[p] \in TxnPcs
      BY <1>2 DEF Publish, Exclusive, Worked, TxnPcs
  <2> QED BY <1>2, <2>1, RecordTouches DEF Publish, States
<1>3. CASE PromoteBackup(p)
    BY <1>0, <1>3 DEF PromoteBackup, Touches, Exclusive, Worked, TxnPcs
<1>4. CASE PromoteStage(p)
    BY <1>0, <1>4 DEF PromoteStage, Touches, Exclusive, Worked, TxnPcs
<1>5. CASE Commit(p)
  <2> DEFINE j == [task[p].txn EXCEPT !.state = "committed"]
  <2>1. task[p].txn \in Journals /\ pc[p] \in Exclusive
      BY <1>5, TxnOf DEF Commit, TxnPcs, Exclusive, Worked
  <2>2. j.lead = task[p].txn.lead
      BY <2>1, SetState DEF States
  <2>3. UNCHANGED journal \/ journal' = [journal EXCEPT ![j.lead] = j]
      BY <1>5 DEF Commit, Write, WriteFails
  <2> HIDE DEF j
  <2> QED BY <1>0, <1>5, <2>1, <2>2, <2>3 DEF Commit, Touches
<1> QED BY <1>1, <1>2, <1>3, <1>4, <1>5

LEMMA StagingTouches ==
    ASSUME TypeOK, NEW p \in Procs, Inspect(p) \/ Stage(p) \/ Discard(p)
    PROVE  /\ pc[p] \in {"inspect", "stage", "discard"} /\ UNCHANGED <<dir, journal, backup>>
           /\ \E r \in task[p].todo : \A s \in Roots \ {r} : stage'[s] = stage[s]
<1>0. stage \in [Roots -> [Gens -> Contents]]
    BY DEF TypeOK
<1> QED BY <1>0 DEF Inspect, Stage, Discard

\* The other steps leave the files alone.
LEMMA OthersReadOnly ==
    ASSUME NEW p \in Procs,
           \/ Start(p) \/ Cancel(p) \/ Crash(p) \/ RecoverStep(p) \/ ReadStep(p)
           \/ WriterLock(p) \/ SharedLock(p) \/ Prepare(p) \/ Validate(p) \/ ExclLock(p) \/ Recheck(p)
    PROVE  UNCHANGED fs
<1>1. CASE Start(p) \/ Cancel(p) \/ Crash(p)
    BY <1>1 DEF Start, Cancel, Crash
<1>2. CASE RecoverStep(p)
    BY <1>2 DEF RecoverStep, RecoverReadLocal, RecoverReadDecision, RecoverLock, RecoverLockFails,
        RecoverRecheck
<1>3. CASE ReadStep(p)
    BY <1>3 DEF ReadStep, ReadInit, ReadWait, ReadLock, ReadCheck, Read, ReadDone
<1> QED BY <1>1, <1>2, <1>3 DEF WriterLock, SharedLock, Prepare, Validate, ExclLock, Recheck

\* A published directory, a journal or a backup changes under the exclusive lock;
\* a stage under the writer lock, or by its own transaction under the exclusive one.
UnderLock(p) ==
    \A r \in Roots :
        /\ dir'[r] # dir[r] \/ journal'[r] # journal[r] \/ backup'[r] # backup[r] => r \in lock[p].excl
        /\ stage'[r] # stage[r] =>
              \/ r \in lock[p].writer
              \/ /\ r \in lock[p].excl /\ pc[p] \in TxnPcs
                 /\ \A g \in Gens \ {task[p].txn.gen} : stage'[r][g] = stage[r][g]

LEMMA WritesUnderLock ==
    ASSUME TypeOK, TxnInHand, Holding, NEW p \in Procs, Acts(p)
    PROVE  UnderLock(p)
<1>0. Held(pc[p], task[p], lock[p])
    BY DEF Holding
<1>1. CASE UNCHANGED fs
    BY <1>1 DEF fs, UnderLock
<1>2. CASE Inspect(p) \/ Stage(p) \/ Discard(p)
  <2>1. pc[p] \in {"inspect", "stage", "discard"} /\ UNCHANGED <<dir, journal, backup>>
      BY <1>2, StagingTouches
  <2>2. PICK r \in task[p].todo : \A s \in Roots \ {r} : stage'[s] = stage[s]
      BY <1>2, StagingTouches
  <2>3. task[p].todo \subseteq lock[p].writer
      BY <1>0, <2>1 DEF Held, Scope, Locked, Owning, Worked, TxnPcs
  <2> QED BY <2>1, <2>2, <2>3 DEF UnderLock
<1>3. CASE pc[p] \in Exclusive /\ \E r \in task[p].todo \cup {task[p].txn.lead} : Touches(p, r)
  <2>1. PICK r \in task[p].todo \cup {task[p].txn.lead} : Touches(p, r)
      BY <1>3
  <2>2. task[p].todo \cup {task[p].txn.lead} \subseteq lock[p].excl /\ pc[p] \in TxnPcs
      BY <1>0, <1>3 DEF Held, Scope, Locked, Exclusive, Worked
  <2> QED BY <2>1, <2>2 DEF UnderLock, Touches
<1>4. CASE CleanupStep(p)
    BY <1>3, <1>4, CleanupTouches DEF Repairing
<1>5. CASE UpdateStep(p)
    BY <1>1, <1>2, <1>3, <1>5, PublishingTouches, OthersReadOnly DEF UpdateStep
<1> QED BY <1>1, <1>4, <1>5, OthersReadOnly DEF Acts, Step

\* Where the records come from: a step of p writes its own record or nothing to a
\* journal, and takes a record from a journal or goes on with its own, whose state
\* it changes on the coordinator's journal only.  It leaves out what is away.
Descends(p) ==
    \/ task'[p] = NoTask
    \/ /\ task'[p].kind = task[p].kind /\ task'[p].roots = task[p].roots
       /\ task'[p].absent \subseteq task[p].absent \cup away
       /\ \/ task'[p].txn \in {task[p].txn, None}
          \/ /\ SameRecord(task[p].txn, task'[p].txn)
             /\ journal'[task[p].txn.lead] = task'[p].txn
          \/ \E r \in Roots : task'[p].txn = journal[r]

LEMMA SameTaskDescends ==
    ASSUME NEW p \in Procs,
           \/ UNCHANGED task
           \/ SameTask(task[p], task'[p])
           \/ /\ SameCall(task[p], task'[p]) /\ SameRecord(task[p].txn, task'[p].txn)
              /\ journal'[task[p].txn.lead] = task'[p].txn
    PROVE  Descends(p)
BY DEF Descends, SameTask, SameCall

LEMMA ReturnDescends ==
    ASSUME TypeOK, NEW p \in Procs, NEW result, Return(p, result) PROVE Descends(p)
BY ReturnAfter DEF Descends

LEMMA RecoveredDescends ==
    ASSUME TypeOK, NEW p \in Procs, NEW r, Recovered(p, r) PROVE Descends(p)
<1> DEFINE next == [NoTask EXCEPT !.kind = task[p].kind, !.roots = task[p].roots,
                                  !.queue = task[p].queue \ {r}]
<1>1. /\ next.kind = task[p].kind /\ next.roots = task[p].roots /\ next.txn = None
      /\ next.absent = {}
    BY DEF NoTask
<1>2. CASE task' = [task EXCEPT ![p] = next]
  <2>1. task'[p] = next
      BY <1>2 DEF TypeOK
  <2> QED BY <1>1, <2>1 DEF Descends
<1>3. CASE task' = [task EXCEPT ![p] = [next EXCEPT !.todo = task[p].roots]]
  <2>1. task'[p] = [next EXCEPT !.todo = task[p].roots]
      BY <1>3 DEF TypeOK
  <2>2. /\ task'[p].kind = next.kind /\ task'[p].roots = next.roots /\ task'[p].txn = next.txn
        /\ task'[p].absent = next.absent
      BY <2>1 DEF NoTask
  <2> QED BY <1>1, <2>2 DEF Descends
<1>4. CASE Return(p, "ok")
    BY <1>4, ReturnDescends
<1> QED BY <1>2, <1>3, <1>4 DEF Recovered

LEMMA LockForDescends ==
    ASSUME TypeOK, NEW p \in Procs, NEW r \in Roots, NEW l, LockFor(p, ReadJournal(r), l)
    PROVE  Descends(p)
<1> DEFINE j == ReadJournal(r)
           A == AbsentEntries(j)
<1>1. (j = None \/ j = journal[r]) /\ A \subseteq away
    BY DEF ReadJournal, AbsentEntries
<1>2. task'[p] = [task[p] EXCEPT !.txn = j, !.absent = A, !.todo = j.roots \ A]
    BY DEF LockFor, TypeOK
<1> HIDE DEF j, A
<1>3. /\ task'[p].kind = task[p].kind /\ task'[p].roots = task[p].roots /\ task'[p].txn = j
      /\ task'[p].absent = A
    BY <1>2, TaskOf DEF Tasks
<1> QED BY <1>1, <1>3 DEF Descends

LEMMA RecoverDescends ==
    ASSUME TypeOK, TxnInHand, NEW p \in Procs, RecoverStep(p)
    PROVE  Descends(p)
<1>0. task[p].queue \subseteq Roots /\ (pc[p] \in TxnPcs => task[p].txn.lead \in Roots)
    BY StepRoots, TxnOf, JournalFields
<1>1. CASE RecoverReadLocal(p)
  <2>1. CASE \E r : Recovered(p, r)
      BY <2>1, RecoveredDescends
  <2>2. CASE \E r \in Roots : task' = [task EXCEPT ![p].txn = journal[r]]
    <3>1. PICK r \in Roots : task' = [task EXCEPT ![p].txn = journal[r]]
        BY <2>2
    <3>2. task'[p] = [task[p] EXCEPT !.txn = journal[r]]
        BY <3>1 DEF TypeOK
    <3>3. /\ task'[p].kind = task[p].kind /\ task'[p].roots = task[p].roots /\ task'[p].txn = journal[r]
          /\ task'[p].absent = task[p].absent
        BY <3>2, TaskOf DEF Tasks
    <3> QED BY <3>3 DEF Descends
  <2> QED BY <1>0, <1>1, <2>1, <2>2 DEF RecoverReadLocal
<1>2. CASE RecoverReadDecision(p) \/ RecoverLockFails(p)
  <2>1. task[p].txn.lead \in Roots
      BY <1>0, <1>2 DEF RecoverReadDecision, RecoverLockFails, TxnPcs
  <2>2. \/ \E l : LockFor(p, ReadJournal(task[p].txn.lead), l)
        \/ \E result : Return(p, result)
      BY <1>2 DEF RecoverReadDecision, RecoverLockFails
  <2> QED BY <2>1, <2>2, LockForDescends, ReturnDescends
<1>3. CASE RecoverLock(p)
  <2>1. PICK r \in task[p].todo : \E l : Loop(p, r, l)
      BY <1>3 DEF RecoverLock
  <2> QED BY <2>1, LoopAfter, SameTaskDescends
<1>4. CASE RecoverRecheck(p)
  <2> DEFINE d == ReadJournal(task[p].txn.lead)
  <2>1. task[p].txn.lead \in Roots
      BY <1>0, <1>4 DEF RecoverRecheck, TxnPcs
  <2>2. d = None \/ d = journal[task[p].txn.lead]
      BY DEF ReadJournal
  <2>3. \/ \E r : Recovered(p, r)
        \/ task' = [task EXCEPT ![p].txn = d, ![p].mode = "recover"]
        \/ \E result : Return(p, result)
      BY <1>4 DEF RecoverRecheck
  <2> HIDE DEF d
  <2>4. CASE task' = [task EXCEPT ![p].txn = d, ![p].mode = "recover"]
    <3>1. task'[p] = [task[p] EXCEPT !.txn = d, !.mode = "recover"]
        BY <2>4 DEF TypeOK
    <3>2. /\ task'[p].kind = task[p].kind /\ task'[p].roots = task[p].roots /\ task'[p].txn = d
          /\ task'[p].absent = task[p].absent
        BY <3>1, TaskOf DEF Tasks
    <3> QED BY <2>1, <2>2, <3>2 DEF Descends
  <2> QED BY <2>3, <2>4, RecoveredDescends, ReturnDescends
<1> QED BY <1>1, <1>2, <1>3, <1>4 DEF RecoverStep

LEMMA RecordDescends ==
    ASSUME TypeOK, TxnInHand, NEW p \in Procs, pc[p] \in TxnPcs,
           NEW s \in States, NEW l, RecordDecision(p, s, l)
    PROVE  Descends(p)
BY RecordAfter, ReturnDescends, SameTaskDescends

LEMMA CleanupDescends ==
    ASSUME TypeOK, TxnInHand, NEW p \in Procs, CleanupStep(p)
    PROVE  Descends(p)
<1>0. pc[p] \in TxnPcs /\ {"prepared", "cleaning", "finalized"} \subseteq States
    BY CleanupTouches DEF Repairing, Exclusive, Worked, States
<1>1. CASE UNCHANGED task \/ (\E late : CleanupFailed(p, late)) \/ (\E r \in task[p].todo : \E l : Loop(p, r, l))
    BY <1>1, SameTaskDescends, CleanupFailedAfter, ReturnDescends, LoopAfter
<1>2. CASE \E s \in {"prepared", "cleaning", "finalized"} : \E l : RecordDecision(p, s, l)
    BY <1>0, <1>2, RecordDescends
<1>3. CASE Retired(p)
    BY <1>3, RecoveredDescends, ReturnDescends DEF Retired
<1>4. CASE \E r : task' = [task EXCEPT ![p].todo = IF @ = {r} THEN All(p) ELSE @ \ {r}]
    BY <1>4, NextEntryAfter, SameTaskDescends
<1>5. CASE VerifyPrepared(p) \/ VerifyRollback(p) \/ VerifyCleaning(p) \/ UndoPromotion(p)
    BY <1>1, <1>5 DEF VerifyPrepared, VerifyRollback, VerifyCleaning, UndoPromotion
<1>6. CASE DropStage(p) \/ Clean(p)
    BY <1>1, <1>6 DEF DropStage, Clean
<1>7. CASE Finalize(p) \/ RecordPrepared(p) \/ VerifyCommitted(p)
    BY <1>1, <1>2, <1>7 DEF Finalize, RecordPrepared, VerifyCommitted
<1>8. CASE Retire(p)
    BY <1>1, <1>3, <1>8 DEF Retire
<1>9. CASE UndoBackup(p)
    BY <1>1, <1>4, <1>9 DEF UndoBackup
<1> QED BY <1>5, <1>6, <1>7, <1>8, <1>9 DEF CleanupStep

LEMMA UpdateDescends ==
    ASSUME TypeOK, TxnInHand, NEW p \in Procs, UpdateStep(p), ~Prepare(p)
    PROVE  Descends(p)
<1>1. CASE \/ UNCHANGED task
           \/ \E result : Return(p, result)
           \/ \E r \in task[p].todo : \E l : Loop(p, r, l)
           \/ task' = [task EXCEPT ![p].todo = All(p)]
           \/ \E r : task' = [task EXCEPT ![p].todo = IF @ = {r} THEN All(p) ELSE @ \ {r}]
           \/ \E m \in {"abandon", "undo"} : task' = [task EXCEPT ![p].mode = m, ![p].todo = All(p)]
    BY <1>1, SameTaskDescends, ReturnDescends, LoopAfter, TodoAfter, NextEntryAfter, RefillAfter
<1>2. CASE WriterLock(p) \/ SharedLock(p) \/ Inspect(p)
    BY <1>1, <1>2 DEF WriterLock, SharedLock, Inspect
<1>3. CASE Stage(p) \/ Validate(p) \/ ExclLock(p) \/ Discard(p) \/ Recheck(p)
    BY <1>1, <1>3 DEF Stage, Validate, ExclLock, Discard, Recheck
<1>4. CASE Persist(p)
    BY <1>1, <1>4 DEF Persist
<1>5. CASE Publish(p)
    BY <1>5, RecordDescends DEF Publish, TxnPcs, States
<1>6. CASE PromoteBackup(p) \/ PromoteStage(p)
    BY <1>1, <1>6 DEF PromoteBackup, PromoteStage, Undo
<1>7. CASE Commit(p)
  <2> DEFINE j == [task[p].txn EXCEPT !.state = "committed"]
  <2>1. task[p].txn \in Journals /\ task[p].txn # None
      BY <1>7, TxnOf, JournalFields DEF Commit, TxnPcs
  <2>2. SameRecord(task[p].txn, j) /\ j.lead \in Roots
      BY <2>1, SetState, JournalFields DEF SameRecord, States
  <2> HIDE DEF j
  <2>3. CASE Write(j.lead, j) /\ task' = [task EXCEPT ![p].txn = j, ![p].mode = "finish"]
    <3>1. task'[p] = [task[p] EXCEPT !.txn = j, !.mode = "finish"]
        BY <2>3 DEF TypeOK
    <3>2. task'[p].txn = j /\ SameCall(task[p], task'[p])
        BY <3>1, TaskOf DEF Tasks, SameCall
    <3>3. journal'[task[p].txn.lead] = j
        BY <2>2, <2>3 DEF Write, TypeOK, SameRecord
    <3> QED BY <2>2, <3>2, <3>3, SameTaskDescends
  <2> QED BY <1>1, <1>7, <2>3 DEF Commit, Undo, j
<1> QED BY <1>2, <1>3, <1>4, <1>5, <1>6, <1>7 DEF UpdateStep

LEMMA ReadDescends ==
    ASSUME TypeOK, NEW p \in Procs, ReadStep(p)
    PROVE  Descends(p)
<1>1. CASE ReadInit(p) \/ ReadLock(p)
    BY <1>1, SameTaskDescends, LoopAfter DEF ReadInit, ReadLock
<1>2. CASE ReadWait(p)
    BY <1>2, SameTaskDescends, NextEntryAfter DEF ReadWait
<1>3. CASE ReadCheck(p) \/ ReadDone(p)
    BY <1>3, SameTaskDescends, ReturnDescends DEF ReadCheck, ReadDone
<1>4. CASE Read(p)
  <2>1. PICK r : task' = [task EXCEPT ![p].seen[r] = dir[r], ![p].todo = @ \ {r}]
      BY <1>4 DEF Read
  <2>2. /\ task'[p].kind = task[p].kind /\ task'[p].roots = task[p].roots
        /\ task'[p].txn = task[p].txn /\ task'[p].absent = task[p].absent
      BY <2>1, TaskOf DEF TypeOK, Tasks
  <2> QED BY <2>2 DEF Descends
<1> QED BY <1>1, <1>2, <1>3, <1>4 DEF ReadStep

LEMMA StepDescends ==
    ASSUME TypeOK, TxnInHand, NEW p \in Procs, Acts(p), ~Start(p), ~Prepare(p)
    PROVE  Descends(p)
<1>1. CASE Cancel(p) \/ Crash(p)
    BY <1>1, ReturnDescends, TodoAfter, SameTaskDescends DEF Cancel, Crash
<1> QED BY <1>1, RecoverDescends, CleanupDescends, UpdateDescends, ReadDescends DEF Acts, Step

LEMMA StepWrites ==
    ASSUME TypeOK, TxnInHand, NEW p \in Procs, Acts(p), NEW r \in Roots
    PROVE  \/ journal'[r] \in {journal[r], None}
           \/ SameRecord(task[p].txn, journal'[r])
<1>0. journal \in [Roots -> Journals \cup {None}]
    BY DEF TypeOK
<1>1. CASE UNCHANGED journal
    BY <1>1
<1>2. CASE pc[p] \in TxnPcs /\ UNCHANGED <<dir, stage, backup>>
           /\ \E s \in States : \E l : RecordDecision(p, s, l)
    BY <1>2, RecordTouches
<1>3. CASE CleanupStep(p)
  <2>1. CASE Retire(p)
      BY <1>0, <2>1 DEF Retire, Write, WriteFails
  <2>2. CASE Finalize(p) \/ RecordPrepared(p)
      BY <1>2, <2>2 DEF Finalize, RecordPrepared, States, TxnPcs
  <2>3. CASE VerifyCommitted(p)
      BY <1>1, <1>2, <2>3 DEF VerifyCommitted, States, TxnPcs
  <2> QED BY <1>1, <1>3, <2>1, <2>2, <2>3 DEF CleanupStep, fs, VerifyPrepared, DropStage,
          VerifyRollback, UndoPromotion, UndoBackup, VerifyCleaning, Clean
<1>4. CASE UpdateStep(p)
  <2>1. CASE Persist(p)
    <3>1. task[p].txn # None
        BY <2>1, TxnOf, JournalFields DEF Persist, TxnPcs
    <3>2. PICK s : UNCHANGED journal \/ journal' = [journal EXCEPT ![s] = task[p].txn]
        BY <2>1 DEF Persist, Write, WriteFails
    <3> QED BY <1>0, <3>1, <3>2 DEF SameRecord
  <2>2. CASE Publish(p)
      BY <1>2, <2>2 DEF Publish, States, TxnPcs
  <2>3. CASE Commit(p)
    <3> DEFINE j == [task[p].txn EXCEPT !.state = "committed"]
    <3>1. task[p].txn \in Journals /\ task[p].txn # None
        BY <2>3, TxnOf, JournalFields DEF Commit, TxnPcs
    <3>2. SameRecord(task[p].txn, j)
        BY <3>1, SetState, JournalFields DEF SameRecord, States
    <3>3. UNCHANGED journal \/ journal' = [journal EXCEPT ![j.lead] = j]
        BY <2>3 DEF Commit, Write, WriteFails
    <3> HIDE DEF j
    <3> QED BY <1>0, <3>2, <3>3
  <2>4. CASE PromoteBackup(p) \/ PromoteStage(p)
      BY <1>1, <2>4 DEF PromoteBackup, PromoteStage
  <2>5. CASE Inspect(p) \/ Stage(p) \/ Discard(p)
      BY <1>1, <2>5, StagingTouches
  <2> QED BY <1>1, <1>4, <2>1, <2>2, <2>3, <2>4, <2>5, OthersReadOnly DEF UpdateStep, fs
<1> QED BY <1>1, <1>3, <1>4, OthersReadOnly DEF Acts, Step, fs

LEMMA SetsNoCounter ==
    ASSUME NEW p \in Procs, Acts(p)
    PROVE  UNCHANGED away /\ (~Prepare(p) => UNCHANGED nextGen)
<1>1. CASE Start(p) \/ Cancel(p) \/ Crash(p)
    BY <1>1 DEF Start, Cancel, Crash
<1>2. CASE RecoverStep(p)
    BY <1>2 DEF RecoverStep, RecoverReadLocal, RecoverReadDecision, RecoverLock, RecoverLockFails,
        RecoverRecheck
<1>3. CASE CleanupStep(p)
    BY <1>3 DEF CleanupStep, VerifyPrepared, DropStage, Finalize, Retire, VerifyRollback,
        UndoPromotion, UndoBackup, RecordPrepared, VerifyCommitted, VerifyCleaning, Clean
<1>4. CASE UpdateStep(p)
    BY <1>4 DEF UpdateStep, WriterLock, SharedLock, Inspect, Prepare, Stage, Validate, ExclLock,
        Discard, Recheck, Persist, Publish, PromoteBackup, PromoteStage, Commit
<1>5. CASE ReadStep(p)
    BY <1>5 DEF ReadStep, ReadInit, ReadWait, ReadLock, ReadCheck, Read, ReadDone
<1> QED BY <1>1, <1>2, <1>3, <1>4, <1>5 DEF Acts, Step

\* What Prepare leaves: a new record of what is published now.
LEMMA PrepareAfter ==
    ASSUME TypeOK, NEW p \in Procs, Prepare(p)
    PROVE  /\ task'[p].kind = task[p].kind /\ task'[p].roots = task[p].roots
           /\ task'[p].todo = task[p].todo
           /\ task'[p].txn.gen = nextGen /\ task'[p].txn.lead \in task'[p].txn.roots
           /\ \A r \in Roots : task'[p].txn.prev[r] \in {dir[r], Absent}
           /\ nextGen' = nextGen + 1 /\ nextGen \in Nat
<1>1. PICK lead \in task[p].roots : task' = [task EXCEPT ![p].txn =
              [gen |-> nextGen, state |-> "prepared", lead |-> lead, roots |-> task[p].roots,
               prev |-> [r \in Roots |-> IF r \in task[p].roots THEN dir[r] ELSE Absent]]]
    BY DEF Prepare
<1> DEFINE j == [gen |-> nextGen, state |-> "prepared", lead |-> lead, roots |-> task[p].roots,
                 prev |-> [r \in Roots |-> IF r \in task[p].roots THEN dir[r] ELSE Absent]]
<1>2. j.gen = nextGen /\ j.lead \in j.roots /\ \A r \in Roots : j.prev[r] \in {dir[r], Absent}
    OBVIOUS
<1>3. task'[p] = [task[p] EXCEPT !.txn = j]
    BY <1>1 DEF TypeOK
<1> HIDE DEF j
<1>4. /\ task'[p].kind = task[p].kind /\ task'[p].roots = task[p].roots
      /\ task'[p].todo = task[p].todo /\ task'[p].txn = j
    BY <1>3, TaskOf DEF Tasks
<1>5. nextGen' = nextGen + 1 /\ nextGen \in Nat
    BY BoundsAssumption DEF Prepare, TypeOK
<1> QED BY <1>2, <1>4, <1>5

LEMMA StartAfter ==
    ASSUME TypeOK, NEW p \in Procs, Start(p)
    PROVE  /\ task'[p].txn = None /\ pc'[p] \in {"recover", "read_init"}
           /\ task'[p].kind = "recover" \/ task'[p].roots \cap away = {}
<1>1. PICK j : StartUpdate(p, j) \/ StartRecover(p, j) \/ StartRead(p, j)
    BY DEF Start
<1>2. CASE StartUpdate(p, j)
  <2>1. task'[p] = [NoTask EXCEPT !.kind = "update", !.roots = j.roots, !.queue = j.roots]
      BY <1>2 DEF StartUpdate, TypeOK
  <2>2. task'[p].txn = None /\ task'[p].roots = j.roots
      BY <2>1 DEF NoTask
  <2> QED BY <1>2, <2>2, GotoAfter DEF StartUpdate
<1>3. CASE StartRecover(p, j)
  <2>1. task'[p] = [NoTask EXCEPT !.kind = "recover", !.roots = j.roots, !.queue = j.roots]
      BY <1>3 DEF StartRecover, TypeOK
  <2>2. task'[p].txn = None /\ task'[p].kind = "recover"
      BY <2>1 DEF NoTask
  <2> QED BY <1>3, <2>2, GotoAfter DEF StartRecover
<1>4. CASE StartRead(p, j)
  <2>1. task'[p] = [NoTask EXCEPT !.kind = "read", !.roots = j.roots,
                                  !.required = j.required, !.todo = j.roots]
      BY <1>4 DEF StartRead, TypeOK
  <2>2. task'[p].txn = None /\ task'[p].roots = j.roots
      BY <2>1 DEF NoTask
  <2> QED BY <1>4, <2>2, GotoAfter DEF StartRead
<1> QED BY <1>1, <1>2, <1>3, <1>4

LEMMA RecordsKept ==
    ASSUME TypeOK, TxnInHand, Records, NothingTornPublished, [Next]_vars
    PROVE  Records'
<1>1. CASE UNCHANGED <<journal, task, nextGen>>
    BY <1>1 DEF Records
<1>2. ASSUME NEW p \in Procs, Acts(p) PROVE Records'
  <2>1. \A q \in Procs : task[q].txn # None => task[q].txn.gen \in Nat
      BY TaskOf, TasksFields, JournalFields, BoundsAssumption DEF Gens
  <2>2. \A r \in Roots : journal[r] # None => journal[r].gen \in Nat
      BY JournalFields, BoundsAssumption DEF TypeOK, Gens
  <2>3. nextGen' \in {nextGen, nextGen + 1} /\ nextGen \in Nat
    <3>1. nextGen \in Nat
        BY BoundsAssumption DEF TypeOK
    <3> QED BY <1>2, <3>1, SetsNoCounter, PrepareAfter
  <2>4. /\ \A q \in Procs : Sound(task[q].txn, nextGen')
        /\ \A r \in Roots : Sound(journal[r], nextGen')
      BY <2>1, <2>2, <2>3 DEF Records, Sound
  <2>5. \A r \in Roots : Sound(journal'[r], nextGen')
    <3>1. SUFFICES ASSUME NEW r \in Roots PROVE Sound(journal'[r], nextGen')
        OBVIOUS
    <3>2. journal'[r] \in {journal[r], None} \/ SameRecord(task[p].txn, journal'[r])
        BY <1>2, StepWrites
    <3> QED BY <2>4, <3>2 DEF Sound, SameRecord
  <2>6. Sound(task'[p].txn, nextGen')
    <3>1. CASE Prepare(p)
        BY <3>1, PrepareAfter, MarkersAssumption DEF Sound, NothingTornPublished
    <3>2. CASE Start(p)
      <4>1. task'[p].txn = None
          BY <3>2, StartAfter
      <4> QED BY <4>1 DEF Sound
    <3>3. CASE ~Start(p) /\ ~Prepare(p)
        BY <1>2, <2>4, <3>3, StepDescends DEF Descends, Sound, SameRecord, NoTask
    <3> QED BY <3>1, <3>2, <3>3
  <2>7. \A q \in Procs \ {p} : Sound(task'[q].txn, nextGen')
      BY <1>2, <2>4, OnlyOwn
  <2> QED BY <2>5, <2>6, <2>7 DEF Records
<1> QED BY <1>1, <1>2 DEF Next, vars, Acts, MoveAway, MoveBack, fs

\* Readers and updates stay where no project is moved.
LEMMA PresentKept ==
    ASSUME TypeOK, TxnInHand, Present, [Next]_vars
    PROVE  Present'
<1>1. CASE UNCHANGED <<task, away>>
    BY <1>1 DEF Present
<1>2. ASSUME NEW p \in Procs, Acts(p) PROVE Present'
  <2>1. UNCHANGED away
      BY <1>2, SetsNoCounter
  <2>2. task'[p].kind \in {"update", "read"} => task'[p].roots \cap away = {}
    <3>1. CASE Start(p)
        BY <3>1, StartAfter
    <3>2. CASE Prepare(p)
        BY <3>2, PrepareAfter DEF Present
    <3>3. CASE ~Start(p) /\ ~Prepare(p)
        BY <1>2, <3>3, StepDescends DEF Descends, NoTask, Present
    <3> QED BY <3>1, <3>2, <3>3
  <2> QED BY <1>2, <2>1, <2>2, OnlyOwn DEF Present
<1>3. ASSUME NEW r \in Roots, MoveAway(r) PROVE Present'
    BY <1>3 DEF MoveAway, Unused, Present
<1>4. ASSUME NEW r \in Roots, MoveBack(r) PROVE Present'
    BY <1>4 DEF MoveBack, Present
<1> QED BY <1>1, <1>2, <1>3, <1>4 DEF Next, vars, Acts

-----------------------------------------------------------------------------
(* Where the steps lead.                                                      *)

LEMMA LoopGoes ==
    ASSUME TypeOK, NEW p \in Procs, NEW r \in task[p].todo, NEW l, Loop(p, r, l)
    PROVE  pc'[p] \in {l, pc[p]}
BY LoopAfter

LEMMA RecoveredGoes ==
    ASSUME TypeOK, NEW p \in Procs, NEW r, Recovered(p, r)
    PROVE  pc'[p] \in Terminal \cup {"recover", "writer_lock"}
BY GotoAfter, ReturnAfter DEF Recovered, Terminal

LEMMA RecordGoes ==
    ASSUME TypeOK, NEW p \in Procs, NEW s, NEW l, RecordDecision(p, s, l)
    PROVE  pc'[p] \in Terminal \cup {l}
BY GotoAfter, CleanupFailedAfter, ReturnAfter DEF RecordDecision

LEMMA FailedGoes ==
    ASSUME TypeOK, NEW p \in Procs, NEW late, CleanupFailed(p, late)
    PROVE  pc'[p] \in Terminal
BY CleanupFailedAfter, ReturnAfter

Repairs == {"verify_prepared", "verify_rollback", "verify_committed", "verify_cleaning", "retire"}

LEMMA RecoverGoes ==
    ASSUME TypeOK, TxnInHand, Records, NEW p \in Procs, RecoverStep(p)
    PROVE  /\ pc'[p] \in Terminal \cup Repairs \cup
               {"recover", "writer_lock", "decision", "lock_recovery", "lock_finalized", "recheck_recovery"}
           /\ pc'[p] = "retire" => RecoverLock(p) \/ RecoverRecheck(p)
<1>1. CASE RecoverReadLocal(p)
    BY <1>1, GotoAfter, RecoveredGoes DEF RecoverReadLocal, Terminal
<1>2. CASE RecoverReadDecision(p) \/ RecoverLockFails(p)
    BY <1>2, GotoAfter, ReturnAfter DEF RecoverReadDecision, RecoverLockFails, LockFor, Terminal
<1>3. CASE RecoverLock(p)
  <2>1. PICK r \in task[p].todo :
            Loop(p, r, IF pc[p] = "lock_finalized" THEN "retire" ELSE "recheck_recovery")
      BY <1>3 DEF RecoverLock
  <2> QED BY <1>3, <2>1, LoopGoes DEF RecoverLock, Repairs
<1>4. CASE RecoverRecheck(p)
  <2> DEFINE d == ReadJournal(task[p].txn.lead)
  <2>1. CASE \E r : Recovered(p, r)
      BY <2>1, RecoveredGoes DEF Terminal
  <2>2. CASE Return(p, "recovery_required")
      BY <2>2, ReturnAfter DEF Terminal
  <2>3. CASE SameTransaction(task[p].txn, d) /\ Goto(p, RepairStep(d.state))
    <3>1. d \in Journals
        BY <1>4, <2>3, TxnOf, DecisionLead DEF RecoverRecheck, TxnPcs
    <3>2. d.state \in States
        BY <3>1, JournalFields
    <3> HIDE DEF d
    <3>3. RepairStep(d.state) \in Repairs
        BY <3>2 DEF RepairStep, States, Repairs
    <3> QED BY <1>4, <2>3, <3>3, GotoAfter
  <2> QED BY <1>4, <2>1, <2>2, <2>3 DEF RecoverRecheck
<1> QED BY <1>1, <1>2, <1>3, <1>4 DEF RecoverStep

LEMMA CleanupGoes ==
    ASSUME TypeOK, NEW p \in Procs, CleanupStep(p)
    PROVE  /\ pc'[p] \in Terminal \cup Repairs \cup {"recover", "writer_lock", "drop_stage", "finalize",
                  "undo_promotion", "undo_backup", "record_prepared", "clean"}
           /\ pc'[p] \in {"undo_promotion", "undo_backup"} =>
                  VerifyRollback(p) \/ UndoPromotion(p) \/ UndoBackup(p)
           /\ pc'[p] = "retire" => Finalize(p) \/ Retire(p)
<1> USE GotoAfter, FailedGoes DEF Terminal, Repairs
<1>1. CASE VerifyPrepared(p) \/ VerifyCleaning(p)
    BY <1>1 DEF VerifyPrepared, VerifyCleaning
<1>2. CASE VerifyRollback(p)
    BY <1>2 DEF VerifyRollback
<1>3. CASE UndoPromotion(p)
    BY <1>3 DEF UndoPromotion
<1>4. CASE UndoBackup(p)
    BY <1>4 DEF UndoBackup
<1>5. CASE DropStage(p) \/ Clean(p)
  <2>1. pc'[p] \in {"drop_stage", "clean", "finalize"} \cup Terminal
    <3>1. pc[p] \in {"drop_stage", "clean"}
        BY <1>5 DEF DropStage, Clean
    <3>2. (\E r \in task[p].todo : Loop(p, r, "finalize")) \/ \E late : CleanupFailed(p, late)
        BY <1>5 DEF DropStage, Clean
    <3> QED BY <3>1, <3>2, LoopGoes, FailedGoes
  <2> QED BY <2>1
<1>6. CASE Finalize(p) \/ RecordPrepared(p) \/ VerifyCommitted(p)
  <2>1. \/ \E s : \E l \in {"retire", "verify_prepared", "verify_cleaning"} : RecordDecision(p, s, l)
        \/ \E late : CleanupFailed(p, late)
      BY <1>6 DEF Finalize, RecordPrepared, VerifyCommitted
  <2>2. pc'[p] \in {"retire", "verify_prepared", "verify_cleaning"} \cup Terminal
      BY <2>1, RecordGoes, FailedGoes
  <2>3. pc'[p] = "retire" => Finalize(p)
    <3>1. RecordPrepared(p) \/ VerifyCommitted(p) =>
             \/ \E s : \E l \in {"verify_prepared", "verify_cleaning"} : RecordDecision(p, s, l)
             \/ \E late : CleanupFailed(p, late)
        BY DEF RecordPrepared, VerifyCommitted
    <3>2. RecordPrepared(p) \/ VerifyCommitted(p) =>
             pc'[p] \in {"verify_prepared", "verify_cleaning"} \cup Terminal
        BY <3>1, RecordGoes, FailedGoes
    <3> QED BY <1>6, <3>2
  <2> QED BY <2>2, <2>3
<1>7. CASE Retire(p)
  <2>1. \/ \E r \in task[p].todo : Loop(p, r, "retire")
        \/ \E late : CleanupFailed(p, late)
        \/ \E r : Recovered(p, r)
        \/ \E result \in {"ok", "failed"} : Return(p, result)
      BY <1>7 DEF Retire, Retired
  <2>2. pc'[p] \in {"retire", pc[p], "recover", "writer_lock", "ok", "failed"} \cup Terminal
      BY <2>1, LoopGoes, FailedGoes, RecoveredGoes, ReturnAfter
  <2>3. pc[p] = "retire"
      BY <1>7 DEF Retire
  <2> QED BY <1>7, <2>2, <2>3
<1> QED BY <1>1, <1>2, <1>3, <1>4, <1>5, <1>6, <1>7 DEF CleanupStep

LEMMA UpdateGoes ==
    ASSUME TypeOK, NEW p \in Procs, UpdateStep(p)
    PROVE  /\ pc'[p] \notin Readers \cup {"undo_promotion", "undo_backup", "retire"}
           /\ pc'[p] \in Owning =>
                  \/ Prepare(p) \/ Stage(p) \/ Validate(p) \/ ExclLock(p) \/ Recheck(p)
                  \/ Persist(p) \/ Publish(p) \/ PromoteBackup(p) \/ PromoteStage(p)
           /\ pc'[p] \in {"stage", "validate", "excl_lock"} =>
                  Prepare(p) \/ Stage(p) \/ Validate(p) \/ ExclLock(p)
<1> USE GotoAfter, ReturnAfter DEF Readers, Owning
<1>1. CASE WriterLock(p) \/ SharedLock(p) \/ Inspect(p)
    BY <1>1, LoopGoes DEF WriterLock, SharedLock, Inspect
<1>2. CASE Prepare(p)
  <2>1. Goto(p, "stage")
      BY <1>2 DEF Prepare
  <2>2. pc'[p] \in {"stage"}
      BY <2>1, LoopGoes
  <2> QED BY <1>2, <2>2
<1>3. CASE Stage(p)
  <2>1. /\ pc[p] = "stage"
        /\ Goto(p, "discard") \/ \E r \in task[p].todo : Loop(p, r, "validate")
      BY <1>3 DEF Stage
  <2>2. pc'[p] \in {"stage", "validate", "discard"}
      BY <2>1, LoopGoes
  <2> QED BY <1>3, <2>2
<1>4. CASE Validate(p)
  <2>1. Goto(p, "excl_lock") \/ Goto(p, "discard")
      BY <1>4 DEF Validate
  <2>2. pc'[p] \in {"excl_lock", "discard"}
      BY <2>1, LoopGoes
  <2> QED BY <1>4, <2>2
<1>5. CASE ExclLock(p)
  <2>1. pc[p] = "excl_lock" /\ \E r \in task[p].todo : Loop(p, r, "recheck")
      BY <1>5 DEF ExclLock
  <2>2. pc'[p] \in {"excl_lock", "recheck"}
      BY <2>1, LoopGoes
  <2> QED BY <1>5, <2>2
<1>6. CASE Discard(p)
  <2>1. /\ pc[p] = "discard"
        /\ Return(p, "failed") \/ \E r \in task[p].todo : Loop(p, r, "discard")
      BY <1>6 DEF Discard
  <2>2. pc'[p] \in {"discard", "failed"}
      BY <2>1, LoopGoes
  <2> QED BY <1>6, <2>2
<1>7. CASE Recheck(p)
  <2>1. Goto(p, "persist") \/ Goto(p, "discard")
      BY <1>7 DEF Recheck
  <2>2. pc'[p] \in {"persist", "discard"}
      BY <2>1, LoopGoes
  <2> QED BY <1>7, <2>2
<1>8. CASE Persist(p)
  <2>1. /\ pc[p] = "persist"
        /\ Goto(p, "verify_prepared") \/ \E r \in task[p].todo : Loop(p, r, "publish")
      BY <1>8 DEF Persist
  <2>2. pc'[p] \in {"persist", "publish", "verify_prepared"}
      BY <2>1, LoopGoes
  <2> QED BY <1>8, <2>2
<1>9. CASE Publish(p)
  <2>1. RecordDecision(p, "publishing", "promote_backup")
      BY <1>9 DEF Publish
  <2>2. pc'[p] \in Terminal \cup {"promote_backup"}
      BY <2>1, RecordGoes
  <2> QED BY <1>9, <2>2 DEF Terminal
<1>10. CASE PromoteBackup(p)
  <2>1. Goto(p, "promote_stage") \/ Goto(p, "verify_rollback")
      BY <1>10 DEF PromoteBackup, Undo
  <2>2. pc'[p] \in {"promote_stage", "verify_rollback"}
      BY <2>1, LoopGoes
  <2> QED BY <1>10, <2>2
<1>11. CASE PromoteStage(p)
  <2>1. \E l \in {"commit", "promote_backup", "verify_rollback"} : Goto(p, l)
      BY <1>11 DEF PromoteStage, Undo
  <2>2. pc'[p] \in {"commit", "promote_backup", "verify_rollback"}
      BY <2>1, LoopGoes
  <2> QED BY <1>11, <2>2
<1>12. CASE Commit(p)
  <2>1. \/ Goto(p, "verify_committed") \/ Goto(p, "verify_rollback")
        \/ Return(p, "recovery_required")
      BY <1>12 DEF Commit, Undo
  <2>2. pc'[p] \in {"verify_committed", "verify_rollback", "recovery_required"}
      BY <2>1, LoopGoes
  <2> QED BY <1>12, <2>2
<1> QED BY <1>1, <1>2, <1>3, <1>4, <1>5, <1>6, <1>7, <1>8, <1>9, <1>10, <1>11, <1>12 DEF UpdateStep

LEMMA ReadGoes ==
    ASSUME TypeOK, NEW p \in Procs, ReadStep(p)
    PROVE  /\ pc'[p] \in Readers \cup Terminal
           /\ pc'[p] \in {"read", "read_done"} => ReadCheck(p) \/ Read(p)
<1> USE GotoAfter, ReturnAfter DEF Readers, Terminal
<1>1. CASE ReadInit(p) \/ ReadLock(p)
    BY <1>1, LoopGoes DEF ReadInit, ReadLock
<1>2. CASE ReadWait(p) \/ ReadDone(p)
    BY <1>2 DEF ReadWait, ReadDone
<1>3. CASE ReadCheck(p) \/ Read(p)
    BY <1>3 DEF ReadCheck, Read
<1> QED BY <1>1, <1>2, <1>3 DEF ReadStep

\* The steps that lead to a step the invariant says something about.
LEMMA StepGoes ==
    ASSUME TypeOK, TxnInHand, Records, NEW p \in Procs, Acts(p)
    PROVE  /\ pc'[p] \in {"read", "read_done"} => ReadCheck(p) \/ Read(p)
           /\ pc'[p] \in {"undo_promotion", "undo_backup"} =>
                  VerifyRollback(p) \/ UndoPromotion(p) \/ UndoBackup(p)
           /\ pc'[p] \in {"stage", "validate", "excl_lock"} =>
                  Prepare(p) \/ Stage(p) \/ Validate(p) \/ ExclLock(p)
           /\ pc'[p] \in Owning =>
                  \/ Prepare(p) \/ Stage(p) \/ Validate(p) \/ ExclLock(p) \/ Recheck(p)
                  \/ Persist(p) \/ Publish(p) \/ PromoteBackup(p) \/ PromoteStage(p)
           /\ pc'[p] = "retire" =>
                  RecoverLock(p) \/ RecoverRecheck(p) \/ Finalize(p) \/ Retire(p)
<1>1. CASE Start(p)
    BY <1>1, StartAfter DEF Owning
<1>2. CASE Cancel(p) \/ Crash(p)
    BY <1>2, GotoAfter, ReturnAfter DEF Cancel, Crash, Owning
<1>3. CASE RecoverStep(p)
    BY <1>3, RecoverGoes DEF Terminal, Repairs, Owning
<1>4. CASE CleanupStep(p)
    BY <1>4, CleanupGoes DEF Terminal, Repairs, Owning
<1>5. CASE UpdateStep(p)
    BY <1>5, UpdateGoes
<1>6. CASE ReadStep(p)
    BY <1>6, ReadGoes DEF Terminal, Owning
<1> QED BY <1>1, <1>2, <1>3, <1>4, <1>5, <1>6 DEF Acts, Step

\* What a reader has read stays: nobody else holds the lock a change takes.
LEMMA ReadingKept ==
    ASSUME TypeOK, TxnInHand, LockExclusion, Holding, Records, Present, Reading, [Next]_vars
    PROVE  Reading'
<1>1. CASE UNCHANGED <<pc, task, dir, journal>>
    BY <1>1 DEF Reading
<1>2. ASSUME NEW p \in Procs, Acts(p) PROVE Reading'
  <2>1. ASSUME NEW q \in Procs \ {p}, pc[q] \in {"read", "read_done"}, NEW r \in task[q].roots
        PROVE  dir'[r] = dir[r] /\ journal'[r] = journal[r]
    <3>1. r \in lock[q].shared
        BY <2>1 DEF Holding, Held, Scope, Locked, Extent
    <3>2. r \notin lock[p].excl /\ r \in Roots
        BY <2>1, <3>1, StepRoots DEF LockExclusion
    <3> QED BY <1>2, <3>2, WritesUnderLock DEF UnderLock
  <2>2. \A q \in Procs \ {p} : pc'[q] \in {"read", "read_done"} =>
            \A r \in task'[q].roots : /\ journal'[r] = None
                                      /\ r \notin task'[q].todo => task'[q].seen[r] = dir'[r]
      BY <1>2, <2>1, OnlyOwn DEF Reading
  <2>3. pc'[p] \in {"read", "read_done"} =>
            \A r \in task'[p].roots : /\ journal'[r] = None
                                      /\ r \notin task'[p].todo => task'[p].seen[r] = dir'[r]
    <3>1. CASE ReadCheck(p)
      <4>1. CASE Return(p, "recovery_required")
          BY <4>1, ReturnAfter
      <4>2. CASE UNCHANGED task /\ \A r \in task[p].roots : ReadJournal(r) = None
        <5>1. task[p].todo = task[p].roots /\ task[p].kind = "read"
            BY <3>1 DEF ReadCheck, Holding, Held, Scope, Extent
        <5>2. \A r \in task[p].roots : journal[r] = None
            BY <4>2, <5>1 DEF Present, ReadJournal
        <5> QED BY <3>1, <4>2, <5>1, <5>2 DEF ReadCheck, fs
      <4> QED BY <3>1, <4>1, <4>2 DEF ReadCheck
    <3>2. CASE Read(p)
      <4>1. PICK r \in task[p].todo : task' = [task EXCEPT ![p].seen[r] = dir[r], ![p].todo = @ \ {r}]
          BY <3>2 DEF Read
      <4>2. pc[p] = "read" /\ UNCHANGED fs /\ r \in Roots
          BY <3>2, StepRoots DEF Read
      <4>3. /\ task'[p].roots = task[p].roots /\ task'[p].todo = task[p].todo \ {r}
            /\ task'[p].seen = [task[p].seen EXCEPT ![r] = dir[r]]
            /\ task[p].seen \in [Roots -> Contents] /\ task[p].roots \subseteq Roots
          BY <4>1, TaskOf DEF TypeOK, Tasks
      <4> QED BY <4>2, <4>3 DEF Reading, fs
    <3>3. CASE ~ReadCheck(p) /\ ~Read(p)
      <4>1. pc'[p] \notin {"read", "read_done"}
          BY <1>2, <3>3, StepGoes
      <4> QED BY <4>1
    <3> QED BY <3>1, <3>2, <3>3
  <2> QED BY <2>2, <2>3 DEF Reading
<1> QED BY <1>1, <1>2 DEF Next, vars, fs, Acts, MoveAway, MoveBack

-----------------------------------------------------------------------------
(* Generations, stages and backups.                                           *)

Preparing == {"stage", "validate", "excl_lock"}

\* While it prepares, a process keeps its record to itself.
LEMMA PreparingStep ==
    ASSUME TypeOK, NEW p \in Procs, Stage(p) \/ Validate(p) \/ ExclLock(p)
    PROVE  SameTask(task[p], task'[p]) /\ pc[p] \in Preparing /\ UNCHANGED journal
<1>1. pc[p] \in Preparing /\ UNCHANGED journal
    BY DEF Stage, Validate, ExclLock, Preparing, fs
<1>2. \/ UNCHANGED task
      \/ \E r \in task[p].todo : \E l : Loop(p, r, l)
      \/ task' = [task EXCEPT ![p].todo = All(p)]
    BY DEF Stage, Validate, ExclLock
<1>3. CASE UNCHANGED task
    BY <1>1, <1>3 DEF SameTask, SameCall
<1>4. CASE \E r \in task[p].todo : \E l : Loop(p, r, l)
    BY <1>1, <1>4, LoopAfter
<1>5. CASE task' = [task EXCEPT ![p].todo = All(p)]
    BY <1>1, <1>5, TodoAfter
<1> QED BY <1>2, <1>3, <1>4, <1>5

LEMMA FreshKept ==
    ASSUME TypeOK, TxnInHand, Records, Fresh, [Next]_vars
    PROVE  Fresh'
<1>1. CASE UNCHANGED <<pc, task, journal>>
    BY <1>1 DEF Fresh
<1>2. ASSUME NEW p \in Procs, Acts(p) PROVE Fresh'
  <2>1. /\ \A r \in Roots : journal[r] # None => journal[r].gen < nextGen
        /\ \A x \in Procs : task[x].txn # None => task[x].txn.gen < nextGen
        /\ \A x \in Procs : task[x].txn # None => task[x].txn.gen \in Nat
        /\ \A r \in Roots : journal[r] # None => journal[r].gen \in Nat
      BY TaskOf, TasksFields, JournalFields, BoundsAssumption DEF Records, Sound, TypeOK, Gens
  <2>2. ASSUME NEW q \in Procs \ {p}, pc[q] \in Preparing
        PROVE  /\ \A r \in Roots : journal'[r] # None => journal'[r].gen # task[q].txn.gen
               /\ \A x \in Procs \ {q} : task'[x].txn # None => task'[x].txn.gen # task[q].txn.gen
    <3>1. /\ \A r \in Roots : journal[r] # None => journal[r].gen # task[q].txn.gen
          /\ \A x \in Procs \ {q} : task[x].txn # None => task[x].txn.gen # task[q].txn.gen
        BY <2>2 DEF Fresh, Preparing
    <3>2. \A r \in Roots : journal'[r] # None => journal'[r].gen # task[q].txn.gen
      <4>1. SUFFICES ASSUME NEW r \in Roots, journal'[r] # None PROVE journal'[r].gen # task[q].txn.gen
          OBVIOUS
      <4>2. journal'[r] = journal[r] \/ SameRecord(task[p].txn, journal'[r])
          BY <1>2, <4>1, StepWrites
      <4> QED BY <3>1, <4>1, <4>2 DEF SameRecord
    <3>3. task'[p].txn # None => task'[p].txn.gen # task[q].txn.gen
      <4>1. CASE Prepare(p)
        <5>1. task[q].txn # None
            BY <2>2 DEF TxnInHand, TxnPcs, Preparing
        <5> QED BY <2>1, <4>1, <5>1, PrepareAfter
      <4>2. CASE Start(p)
          BY <4>2, StartAfter
      <4>3. CASE ~Start(p) /\ ~Prepare(p)
          BY <1>2, <3>1, <4>3, StepDescends DEF Descends, SameRecord, NoTask
      <4> QED BY <4>1, <4>2, <4>3
    <3>4. \A x \in Procs \ {p} : task'[x] = task[x]
        BY <1>2, OnlyOwn
    <3> QED BY <3>1, <3>2, <3>3, <3>4
  <2>3. ASSUME pc'[p] \in Preparing
        PROVE  /\ \A r \in Roots : journal'[r] # None => journal'[r].gen # task'[p].txn.gen
               /\ \A x \in Procs \ {p} : task'[x].txn # None => task'[x].txn.gen # task'[p].txn.gen
    <3>1. \A x \in Procs \ {p} : task'[x] = task[x]
        BY <1>2, OnlyOwn
    <3>2. CASE Prepare(p)
      <4>1. UNCHANGED journal
          BY <3>2 DEF Prepare, fs
      <4> QED BY <2>1, <3>1, <3>2, <4>1, PrepareAfter
    <3>3. CASE Stage(p) \/ Validate(p) \/ ExclLock(p)
      <4>1. task'[p].txn = task[p].txn /\ pc[p] \in Preparing /\ UNCHANGED journal
          BY <3>3, PreparingStep DEF SameTask
      <4> QED BY <3>1, <4>1 DEF Fresh, Preparing
    <3> QED BY <1>2, <2>3, <3>2, <3>3, StepGoes DEF Preparing
  <2>4. ASSUME NEW q \in Procs, pc'[q] \in Preparing
        PROVE  /\ \A r \in Roots : journal'[r] # None => journal'[r].gen # task'[q].txn.gen
               /\ \A x \in Procs \ {q} : task'[x].txn # None => task'[x].txn.gen # task'[q].txn.gen
    <3>1. CASE q = p
        BY <2>3, <2>4, <3>1
    <3>2. CASE q # p
      <4>1. pc[q] = pc'[q] /\ task'[q] = task[q]
          BY <1>2, <3>2, OnlyOwn
      <4> QED BY <2>2, <2>4, <3>2, <4>1
    <3> QED BY <3>1, <3>2
  <2> QED BY <2>4 DEF Fresh, Preparing
<1> QED BY <1>1, <1>2 DEF Next, vars, fs, Acts, MoveAway, MoveBack

\* A step of another process leaves a stage that is going to be promoted alone.
LEMMA StagedByOthers ==
    ASSUME TypeOK, TxnInHand, LockExclusion, Holding, Fresh,
           NEW p \in Procs, Acts(p), NEW q \in Procs \ {p}, NEW r \in Ready(pc[q], task[q])
    PROVE  stage'[r][task[q].txn.gen] = stage[r][task[q].txn.gen]
<1> DEFINE g == task[q].txn.gen
<1>1. pc[q] \in Owning
    BY DEF Ready, Owning
<1>2. task[q].txn \in Journals /\ task[q].txn # None /\ g \in Gens
    BY <1>1, TxnOf, JournalFields DEF Owning, TxnPcs
<1>3. Held(pc[q], task[q], lock[q])
    BY DEF Holding
<1>4. task[q].todo \subseteq Extent(task[q]) /\ Extent(task[q]) \subseteq lock[q].writer
      /\ Extent(task[q]) = task[q].roots
    BY <1>1, <1>3 DEF Held, Scope, Locked, Owning, Worked, TxnPcs
<1>5. r \in Extent(task[q]) /\ r \in Roots
    BY <1>4, StepRoots DEF Ready
<1>6. r \notin lock[p].writer
    BY <1>4, <1>5 DEF LockExclusion
<1>7. CASE pc[q] \in Preparing
  <2>1. task[p].txn # None => task[p].txn.gen # g
      BY <1>7 DEF Fresh, Preparing
  <2>2. pc[p] \in TxnPcs => task[p].txn # None
      BY DEF TxnInHand
  <2> QED BY <1>2, <1>5, <1>6, <2>1, <2>2, WritesUnderLock DEF UnderLock
<1>8. CASE pc[q] \notin Preparing
  <2>1. r \in lock[q].excl
      BY <1>1, <1>3, <1>5, <1>8 DEF Held, Locked, Preparing, Exclusive, Owning, Worked, TxnPcs
  <2>2. r \notin lock[p].excl
      BY <2>1 DEF LockExclusion
  <2> QED BY <1>5, <1>6, <2>2, WritesUnderLock DEF UnderLock
<1> QED BY <1>7, <1>8

\* A backup that a rollback has verified, too.
LEMMA UndoingByOthers ==
    ASSUME TypeOK, TxnInHand, LockExclusion, Holding,
           NEW p \in Procs, Acts(p), NEW q \in Procs \ {p}, pc[q] \in {"undo_promotion", "undo_backup"},
           NEW r \in Extent(task[q])
    PROVE  backup'[r] = backup[r]
<1>1. r \in lock[q].excl /\ r \in Roots
  <2>1. Held(pc[q], task[q], lock[q])
      BY DEF Holding
  <2>2. task[q].txn \in Journals /\ task[q].txn # None
      BY TxnOf, JournalFields DEF TxnPcs
  <2> QED BY <2>1, <2>2, JournalFields DEF Held, Locked, Exclusive, Worked, TxnPcs, Extent
<1>2. r \notin lock[p].excl
    BY <1>1 DEF LockExclusion
<1> QED BY <1>1, <1>2, WritesUnderLock DEF UnderLock

LEMMA UndoingKept ==
    ASSUME TypeOK, TxnInHand, LockExclusion, Holding, Records, Undoing, [Next]_vars
    PROVE  Undoing'
<1>1. CASE UNCHANGED <<pc, task, backup>>
    BY <1>1 DEF Undoing, Extent
<1>2. ASSUME NEW p \in Procs, Acts(p) PROVE Undoing'
  <2>1. ASSUME NEW q \in Procs, pc'[q] \in {"undo_promotion", "undo_backup"}, NEW r \in Extent(task'[q])
        PROVE  backup'[r][task'[q].txn.gen] \in {Absent, task'[q].txn.prev[r]}
    <3>1. CASE q # p
      <4>1. pc[q] = pc'[q] /\ task'[q] = task[q]
          BY <1>2, <3>1, OnlyOwn
      <4>2. backup'[r] = backup[r]
          BY <1>2, <2>1, <3>1, <4>1, UndoingByOthers
      <4> QED BY <2>1, <4>1, <4>2 DEF Undoing
    <3>2. CASE q = p
      <4> DEFINE g == task[p].txn.gen
      <4>0. backup \in [Roots -> [Gens -> Contents]]
          BY DEF TypeOK
      <4>1. CASE VerifyRollback(p)
        <5>1. pc[p] = "verify_rollback" /\ UNCHANGED backup
            BY <4>1 DEF VerifyRollback, fs
        <5>2. task[p].txn \in Journals /\ task[p].txn # None
            BY <5>1, TxnOf, JournalFields DEF TxnPcs
        <5>3. CASE \E late : CleanupFailed(p, late)
            BY <2>1, <3>2, <5>3, FailedGoes DEF Terminal
        <5>4. CASE UNCHANGED task /\ \A s \in Entries(p) : RollbackEntryValid(task[p].txn, s)
          <6>1. Entries(p) = Extent(task[p])
              BY <5>2 DEF Entries, Extent
          <6>2. RollbackEntryValid(task[p].txn, r)
              BY <2>1, <3>2, <5>4, <6>1
          <6>3. backup[r][g] \in {Absent, task[p].txn.prev[r]}
              BY <6>2 DEF RollbackEntryValid
          <6> QED BY <3>2, <5>1, <5>4, <6>3
        <5> QED BY <4>1, <5>3, <5>4 DEF VerifyRollback
      <4>2. CASE UndoPromotion(p)
        <5>1. CASE \E late : CleanupFailed(p, late)
            BY <2>1, <3>2, <5>1, FailedGoes DEF Terminal
        <5>2. CASE UNCHANGED task
            BY <2>1, <3>2, <4>2, <5>2 DEF UndoPromotion, Undoing
        <5> QED BY <4>2, <5>1, <5>2 DEF UndoPromotion
      <4>3. CASE UndoBackup(p)
        <5>1. CASE \E late : CleanupFailed(p, late)
            BY <2>1, <3>2, <5>1, FailedGoes DEF Terminal
        <5>2. CASE \E s \in Roots :
                      /\ task' = [task EXCEPT ![p].todo = IF @ = {s} THEN All(p) ELSE @ \ {s}]
                      /\ UNCHANGED backup \/ backup' = [backup EXCEPT ![s][g] = Absent]
          <6>1. PICK s \in Roots :
                      /\ task' = [task EXCEPT ![p].todo = IF @ = {s} THEN All(p) ELSE @ \ {s}]
                      /\ UNCHANGED backup \/ backup' = [backup EXCEPT ![s][g] = Absent]
              BY <5>2
          <6>2. Extent(task'[p]) = Extent(task[p]) /\ task'[p].txn = task[p].txn
              BY <6>1, NextEntryAfter, SameExtent DEF SameTask
          <6>3. pc[p] = "undo_backup" /\ task[p].txn \in Journals /\ task[p].txn # None
              BY <4>3, TxnOf, JournalFields DEF UndoBackup, TxnPcs
          <6>4. r \in Roots /\ g \in Gens
              BY <2>1, <3>2, <6>2, <6>3, JournalFields DEF Extent
          <6>5. backup[r][g] \in {Absent, task[p].txn.prev[r]}
              BY <2>1, <3>2, <6>2, <6>3 DEF Undoing
          <6>6. backup'[r][g] \in {backup[r][g], Absent}
              BY <4>0, <6>1, <6>4
          <6> QED BY <3>2, <6>2, <6>5, <6>6
        <5>3. task[p].todo \subseteq Roots
            BY StepRoots
        <5> QED BY <4>3, <5>1, <5>2, <5>3 DEF UndoBackup
      <4> QED BY <1>2, <2>1, <3>2, <4>1, <4>2, <4>3, StepGoes
    <3> QED BY <3>1, <3>2
  <2> QED BY <2>1 DEF Undoing
<1> QED BY <1>1, <1>2 DEF Next, vars, fs, Acts, MoveAway, MoveBack

\* An update goes through its stages one after the other, and promotes no stage
\* before all are complete.
LEMMA StagedByOwner ==
    ASSUME TypeOK, TxnInHand, Records, Holding, Holding', Staged, NEW p \in Procs, Acts(p),
           NEW r \in Ready(pc'[p], task'[p])
    PROVE  stage'[r][task'[p].txn.gen] = task'[p].txn.gen
<1> DEFINE g == task[p].txn.gen
<1>0. stage \in [Roots -> [Gens -> Contents]] /\ task[p].todo \subseteq Roots
    BY StepRoots DEF TypeOK
<1>1. pc'[p] \in Owning
    BY DEF Ready, Owning
<1>2. Held(pc[p], task[p], lock[p]) /\ Held(pc'[p], task'[p], lock'[p])
    BY DEF Holding
<1>3. \A s \in Ready(pc[p], task[p]) : stage[s][g] = g
    BY DEF Staged
<1>4. pc[p] \in TxnPcs => /\ task[p].txn \in Journals /\ task[p].txn # None /\ g \in Gens
                          /\ Extent(task[p]) \subseteq Roots
    BY TxnOf, JournalFields DEF Extent
<1>5. CASE UNCHANGED stage /\ r \in Ready(pc[p], task[p]) /\ task'[p].txn.gen = g
    BY <1>3, <1>5
<1>6. CASE Prepare(p)
  <2>1. pc[p] = "prepare" /\ pc'[p] = "stage"
      BY <1>6, GotoAfter DEF Prepare
  <2>2. task[p].todo = task[p].roots
      BY <1>2, <2>1 DEF Held, Scope, Extent
  <2>3. Extent(task'[p]) = task'[p].roots
      BY <1>2, <2>1 DEF Held, Scope, Owning
  <2>4. Extent(task'[p]) \ task'[p].todo = {}
      BY <1>6, <2>2, <2>3, PrepareAfter
  <2> QED BY <2>1, <2>4 DEF Ready
<1>7. CASE Stage(p)
  <2>1. pc[p] = "stage" /\ pc'[p] # "discard"
      BY <1>1, <1>7 DEF Stage, Owning
  <2>2. PICK s \in task[p].todo : stage' = [stage EXCEPT ![s][g] = g] /\ Loop(p, s, "validate")
      BY <1>7, <2>1, GotoAfter DEF Stage
  <2>3. /\ SameTask(task[p], task'[p]) /\ Extent(task'[p]) = Extent(task[p])
        /\ IF task[p].todo = {s} THEN pc'[p] = "validate" /\ task'[p].todo = Extent(task[p])
                                 ELSE pc'[p] = pc[p] /\ task'[p].todo = task[p].todo \ {s}
      BY <2>2, LoopAfter, SameExtent
  <2>4. r \in Ready(pc[p], task[p]) \cup {s}
      BY <2>1, <2>3 DEF Ready
  <2>5. g \in Gens /\ r \in Roots /\ task'[p].txn.gen = g
      BY <1>0, <1>4, <2>1, <2>3, <2>4 DEF TxnPcs, Ready, SameTask
  <2>6. stage'[r][g] = IF r = s THEN g ELSE stage[r][g]
      BY <1>0, <2>2, <2>5
  <2> QED BY <1>3, <2>4, <2>5, <2>6
<1>8. CASE Validate(p) \/ ExclLock(p)
  <2>1. SameTask(task[p], task'[p]) /\ pc[p] \in {"validate", "excl_lock"} /\ UNCHANGED stage
      BY <1>8, PreparingStep DEF Validate, ExclLock, fs
  <2>2. Extent(task'[p]) = Extent(task[p])
      BY <2>1, SameExtent
  <2>3. pc'[p] \in {"excl_lock", "recheck"}
    <3>1. CASE Validate(p)
        BY <1>1, <3>1, GotoAfter DEF Validate, Owning
    <3>2. CASE ExclLock(p)
      <4>1. pc[p] = "excl_lock" /\ \E s \in task[p].todo : Loop(p, s, "recheck")
          BY <3>2 DEF ExclLock
      <4> QED BY <4>1, LoopGoes
    <3> QED BY <1>8, <3>1, <3>2
  <2> QED BY <1>5, <2>1, <2>2, <2>3 DEF Ready, SameTask
<1>9. CASE Recheck(p)
  <2>1. pc[p] = "recheck" /\ pc'[p] = "persist" /\ UNCHANGED <<stage, task>>
      BY <1>1, <1>9, GotoAfter DEF Recheck, Owning, fs
  <2> QED BY <1>5, <2>1 DEF Ready
<1>10. CASE Persist(p)
  <2>1. pc[p] = "persist" /\ UNCHANGED stage
      BY <1>10 DEF Persist
  <2>2. PICK s \in task[p].todo : Loop(p, s, "publish")
      BY <1>1, <1>10, GotoAfter DEF Persist, Owning
  <2>3. SameTask(task[p], task'[p]) /\ Extent(task'[p]) = Extent(task[p])
      BY <2>2, LoopAfter, SameExtent
  <2>4. pc'[p] \in {"persist", "publish"}
      BY <2>1, <2>2, LoopGoes
  <2> QED BY <1>5, <2>1, <2>3, <2>4 DEF Ready, SameTask
<1>11. CASE Publish(p)
  <2>1. pc[p] = "publish" /\ UNCHANGED stage /\ RecordDecision(p, "publishing", "promote_backup")
      BY <1>11 DEF Publish
  <2>2. pc'[p] \notin Terminal
      BY <1>1 DEF Terminal, Owning
  <2>3. /\ pc'[p] = "promote_backup" /\ task'[p].todo = task[p].todo
        /\ SameRecord(task[p].txn, task'[p].txn)
      BY <2>1, <2>2, RecordAfter, ReturnAfter DEF TxnPcs, States
  <2>4. task[p].todo \subseteq Extent(task[p])
      BY <1>2, <2>1 DEF Held, Scope, Worked, TxnPcs
  <2> QED BY <1>5, <2>1, <2>3, <2>4 DEF Ready, SameRecord
<1>12. CASE PromoteBackup(p)
  <2>1. pc[p] = "promote_backup" /\ UNCHANGED stage
      BY <1>12 DEF PromoteBackup
  <2>2. pc'[p] = "promote_stage" /\ UNCHANGED task
      BY <1>1, <1>12, GotoAfter DEF PromoteBackup, Undo, Owning
  <2> QED BY <1>5, <2>1, <2>2 DEF Ready
<1>13. CASE PromoteStage(p)
  <2>1. pc[p] = "promote_stage"
      BY <1>13 DEF PromoteStage
  <2>2. PICK s \in task[p].todo :
            /\ stage' = [stage EXCEPT ![s][g] = Absent]
            /\ task' = [task EXCEPT ![p].todo = IF @ = {s} THEN All(p) ELSE @ \ {s}]
            /\ Goto(p, IF task[p].todo = {s} THEN "commit" ELSE "promote_backup")
      BY <1>1, <1>13, GotoAfter DEF PromoteStage, Undo, Owning
  <2>3. pc'[p] = "promote_backup" /\ task[p].todo # {s}
      BY <1>1, <2>2, GotoAfter DEF Owning
  <2>4. task'[p].todo = task[p].todo \ {s} /\ task'[p].txn = task[p].txn
      BY <2>2, <2>3, NextEntryAfter DEF SameTask
  <2>5. r \in task[p].todo /\ r # s
      BY <2>3, <2>4 DEF Ready
  <2>6. stage'[r] = stage[r]
      BY <1>0, <2>2, <2>5
  <2> QED BY <1>3, <2>1, <2>4, <2>5, <2>6 DEF Ready
<1> QED BY <1>1, <1>6, <1>7, <1>8, <1>9, <1>10, <1>11, <1>12, <1>13, StepGoes

LEMMA StagedKept ==
    ASSUME TypeOK, TxnInHand, LockExclusion, Holding, Holding', Records, Fresh, Staged, [Next]_vars
    PROVE  Staged'
<1>1. CASE UNCHANGED <<pc, task, stage>>
    BY <1>1 DEF Staged, Ready, Extent
<1>2. ASSUME NEW p \in Procs, Acts(p) PROVE Staged'
  <2>1. ASSUME NEW q \in Procs, NEW r \in Ready(pc'[q], task'[q])
        PROVE  stage'[r][task'[q].txn.gen] = task'[q].txn.gen
    <3>1. CASE q = p
        BY <1>2, <2>1, <3>1, StagedByOwner
    <3>2. CASE q # p
      <4>1. pc'[q] = pc[q] /\ task'[q] = task[q]
          BY <1>2, <3>2, OnlyOwn
      <4>2. stage'[r][task[q].txn.gen] = stage[r][task[q].txn.gen]
          BY <1>2, <2>1, <3>2, <4>1, StagedByOthers
      <4> QED BY <2>1, <4>1, <4>2 DEF Staged
    <3> QED BY <3>1, <3>2
  <2> QED BY <2>1 DEF Staged
<1> QED BY <1>1, <1>2 DEF Next, vars, fs, Acts, MoveAway, MoveBack

\* What comes to a root: nothing, a stage being promoted, or a backup restored.
LEMMA PublishedFrom ==
    ASSUME TypeOK, TxnInHand, NEW p \in Procs, Acts(p), NEW r \in Roots
    PROVE  \/ dir'[r] \in {dir[r], Absent}
           \/ /\ pc[p] = "promote_stage" /\ r \in task[p].todo
              /\ dir'[r] = stage[r][task[p].txn.gen]
           \/ /\ pc[p] = "undo_backup" /\ r \in task[p].todo /\ backup[r][task[p].txn.gen] # Absent
              /\ dir'[r] = backup[r][task[p].txn.gen]
<1>0. dir \in [Roots -> Contents]
    BY DEF TypeOK
<1>1. CASE UNCHANGED dir
    BY <1>1
<1>2. CASE \E s : dir' = [dir EXCEPT ![s] = Absent]
    BY <1>0, <1>2
<1>3. CASE PromoteStage(p)
  <2>1. PICK s \in task[p].todo :
            UNCHANGED dir \/ dir' = [dir EXCEPT ![s] = stage[s][task[p].txn.gen]]
      BY <1>3 DEF PromoteStage
  <2>2. pc[p] = "promote_stage"
      BY <1>3 DEF PromoteStage
  <2> QED BY <1>0, <2>1, <2>2
<1>4. CASE UndoBackup(p)
  <2>1. PICK s \in task[p].todo :
            \/ UNCHANGED dir
            \/ /\ backup[s][task[p].txn.gen] # Absent
               /\ dir' = [dir EXCEPT ![s] = backup[s][task[p].txn.gen]]
      BY <1>4 DEF UndoBackup
  <2>2. pc[p] = "undo_backup"
      BY <1>4 DEF UndoBackup
  <2> QED BY <1>0, <2>1, <2>2
<1>5. CASE CleanupStep(p)
    BY <1>1, <1>2, <1>4, <1>5 DEF CleanupStep, fs, VerifyPrepared, DropStage, Finalize, Retire,
        VerifyRollback, UndoPromotion, RecordPrepared, VerifyCommitted, VerifyCleaning, Clean
<1>6. CASE UpdateStep(p)
  <2>1. CASE Persist(p) \/ Publish(p) \/ Commit(p)
      BY <1>1, <2>1 DEF Persist, Publish, Commit
  <2>2. CASE PromoteBackup(p)
      BY <1>1, <1>2, <2>2 DEF PromoteBackup
  <2>3. CASE Inspect(p) \/ Stage(p) \/ Discard(p)
      BY <1>1, <2>3, StagingTouches
  <2> QED BY <1>1, <1>3, <1>6, <2>1, <2>2, <2>3, OthersReadOnly DEF UpdateStep, fs
<1> QED BY <1>1, <1>5, <1>6, OthersReadOnly DEF Acts, Step, fs

LEMMA NotTornKept ==
    ASSUME TypeOK, TxnInHand, Holding, Records, Staged, Undoing, NothingTornPublished, [Next]_vars
    PROVE  NothingTornPublished'
<1>1. CASE UNCHANGED dir
    BY <1>1 DEF NothingTornPublished
<1>2. ASSUME NEW p \in Procs, Acts(p), NEW r \in Roots PROVE dir'[r] # Torn
  <2> DEFINE g == task[p].txn.gen
  <2>1. CASE dir'[r] \in {dir[r], Absent}
      BY <2>1, MarkersAssumption DEF NothingTornPublished
  <2>2. CASE pc[p] = "promote_stage" /\ r \in task[p].todo /\ dir'[r] = stage[r][g]
    <3>1. stage[r][g] = g
        BY <2>2 DEF Staged, Ready
    <3>2. g \in Nat
        BY <2>2, TxnOf, JournalFields, BoundsAssumption DEF TxnPcs, Gens
    <3> QED BY <2>2, <3>1, <3>2, MarkersAssumption
  <2>3. CASE /\ pc[p] = "undo_backup" /\ r \in task[p].todo /\ backup[r][g] # Absent
             /\ dir'[r] = backup[r][g]
    <3>1. r \in Extent(task[p])
        BY <2>3 DEF Holding, Held, Scope, Worked, TxnPcs
    <3>2. dir'[r] = task[p].txn.prev[r]
        BY <2>3, <3>1 DEF Undoing
    <3>3. task[p].txn # None
        BY <2>3 DEF TxnInHand, TxnPcs
    <3> QED BY <3>2, <3>3 DEF Records, Sound
  <2> QED BY <1>2, <2>1, <2>2, <2>3, PublishedFrom
<1> QED BY <1>1, <1>2 DEF NothingTornPublished, Next, vars, fs, Acts, MoveAway, MoveBack

-----------------------------------------------------------------------------

\* The invariant holds of a file system nobody has worked on.
LEMMA InitHolds == ASSUME Init PROVE IInv
<1>1. /\ \A p \in Procs : pc[p] = "idle" /\ task[p] = NoTask
      /\ \A r \in Roots : journal[r] = None /\ dir[r] \in {0, Absent}
    BY DEF Init
<1>2. NoTask.txn = None /\ NoTask.kind = "none"
    BY DEF NoTask
<1>3. Holding
    BY <1>1, TerminalUnbound, UnboundHeld DEF Holding, Terminal
<1>4. Records /\ Fresh /\ Present /\ Reading /\ Staged /\ Undoing
    BY <1>1, <1>2 DEF Records, Sound, Fresh, Present, Reading, Staged, Ready, Undoing
<1>5. NothingTornPublished
    BY <1>1, MarkersAssumption DEF NothingTornPublished
<1> QED BY <1>3, <1>4, <1>5 DEF IInv

LEMMA StepHolds ==
    ASSUME TypeOK, TxnInHand, LockExclusion, IInv, [Next]_vars
    PROVE  IInv'
<1>1. Holding' /\ Records' /\ Fresh' /\ Present'
    BY HoldingKept, RecordsKept, FreshKept, PresentKept DEF IInv
<1>2. Reading' /\ Undoing' /\ NothingTornPublished'
    BY ReadingKept, UndoingKept, NotTornKept DEF IInv
<1>3. Staged'
    BY <1>1, StagedKept DEF IInv
<1> QED BY <1>1, <1>2, <1>3 DEF IInv

\* What every call may rely on at every step, for any number of calls.
THEOREM InvariantHolds == Spec => []IInv
BY InitHolds, StepHolds, TypeCorrect, LocksExclude, PTL DEF Spec

\* No root ever shows a torn directory, whatever fails or crashes: what is promoted
\* was checked, and nobody touched it since; what is restored was found complete.
THEOREM NoTornOutput == Spec => []NothingTornPublished
<1>1. IInv => NothingTornPublished
    BY DEF IInv
<1> QED BY <1>1, InvariantHolds, PTL

\* No recovery and no other writer's removal of abandoned stages ever reaches a
\* stage that is going to be promoted.
THEOREM StagesStayIntact == Spec => []StagesIntact
<1>1. ASSUME Holding, Staged PROVE StagesIntact
  <2>1. ASSUME NEW p \in Procs, NEW r \in Unpromoted(p)
        PROVE  stage[r][task[p].txn.gen] = task[p].txn.gen
    <3>1. pc[p] \in Owning => Extent(task[p]) = task[p].roots
        BY <1>1 DEF Holding, Held, Scope
    <3>2. r \in Ready(pc[p], task[p])
        BY <2>1, <3>1 DEF Unpromoted, Ready, Owning
    <3> QED BY <1>1, <3>2 DEF Staged
  <2> QED BY <2>1 DEF StagesIntact
<1>2. IInv => StagesIntact
    BY <1>1 DEF IInv
<1> QED BY <1>2, InvariantHolds, PTL

\* A reader's outputs stay as it has read them until it has finished, and no
\* publication of them is pending.
THEOREM ReadersUndisturbed == Spec => []ReadsStayCurrent
<1>1. ASSUME Holding, Reading PROVE ReadsStayCurrent
  <2>1. ASSUME NEW p \in Procs, pc[p] \in {"read", "read_done"} PROVE task[p].roots \subseteq lock[p].shared
      BY <1>1, <2>1 DEF Holding, Held, Scope, Locked, Extent
  <2> QED BY <1>1, <2>1 DEF Reading, ReadsStayCurrent
<1>2. IInv => ReadsStayCurrent
    BY <1>1 DEF IInv
<1> QED BY <1>2, InvariantHolds, PTL

\* Nothing changes at a root but under its lock: a process that recovers or rolls
\* back a transaction owns every sibling it repairs.
THEOREM LocksGuardChanges == Spec => ChangesUnderLock
<1> DEFINE Guarded == \A r \in Roots :
        /\ (dir[r] # dir'[r] \/ journal[r] # journal'[r] \/ backup[r] # backup'[r]) =>
              \E p \in Procs : r \in lock[p].excl
        /\ stage[r] # stage'[r] => \E p \in Procs : r \in lock[p].excl \cup lock[p].writer
<1>1. ASSUME TypeOK, TxnInHand, Holding, [Next]_vars PROVE [Guarded]_vars
  <2>1. CASE UNCHANGED fs
      BY <2>1 DEF fs
  <2>2. CASE \E p \in Procs : Acts(p)
    <3>1. PICK p \in Procs : UnderLock(p)
        BY <1>1, <2>2, WritesUnderLock
    <3> QED BY <3>1 DEF UnderLock
  <2> QED BY <1>1, <2>1, <2>2 DEF Next, vars, Acts, MoveAway, MoveBack
<1>2. TypeOK /\ TxnInHand /\ IInv /\ [Next]_vars => [Guarded]_vars
    BY <1>1 DEF IInv
<1> HIDE DEF Guarded
<1>3. Spec => [][Guarded]_vars
    BY <1>2, TypeCorrect, InvariantHolds, PTL DEF Spec
<1> QED BY <1>3 DEF ChangesUnderLock, Guarded

=============================================================================
