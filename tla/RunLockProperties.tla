------------------------- MODULE RunLockProperties -------------------------
(* What the run lock promises to the watch workers of a root. *)
EXTENDS RunLock

\* Every variable keeps to the values its declaration describes.
TypeOK ==
    /\ lock \in Locks \cup {None}
    /\ runtime \in Runtimes \cup {None}
    /\ {request, asking} \subseteq Tokens
    /\ pc \in [Workers -> {"idle", "judge", "aside", "again"} \cup Starting
                            \cup Working \cup Leaving \cup Reaping \cup Gone]
    /\ beat \in [Workers -> {"off", "ready", "write"}]
    /\ crashes \in 0..MaxCrashes /\ pauses \in 0..MaxPauses /\ asks \in 0..MaxAsks

(***************************************************************************)
(* docs/file-watcher-proposal.md: "Es laeuft hoechstens eine               *)
(* Aktualisierung gleichzeitig".  One worker's update is still running     *)
(* only if no other worker's is (watch.go:576-578, :733-806), unless one   *)
(* slept through a deadline.                                               *)
(***************************************************************************)
OneUpdate ==
    \A v, w \in Workers :
        pc[v] = "updating" /\ pc[w] = "updating" => v = w \/ pauses > 0

(***************************************************************************)
(* A worker that has lost its lock, by whatever race or pause, ends        *)
(* (watch.go:685, check.go:35-45).                                         *)
(***************************************************************************)
LossEndsWorker ==
    \A w \in Workers : (pc[w] \in Working /\ ~Owns(w)) ~> (pc[w] \in Gone)

(***************************************************************************)
(* A worker that owns the lock and runs is reported as running sooner or   *)
(* later, also when the last word of an earlier worker overwrote its       *)
(* heartbeat (watch.go:541-549, :369).                                     *)
(***************************************************************************)
RunningIsReported ==
    \A w \in Workers : (pc[w] \in Working /\ Owns(w))
                          ~> (pc[w] \notin Working \/ ~Owns(w) \/ (Alive /\ runtime.token = w))

(***************************************************************************)
(* Whatever state dead workers left the three files in, with or without a  *)
(* supervisor to release their lock, a worker that is started again and    *)
(* again gets to run once nobody dies any more (watch.go:752-806,          *)
(* supervisor.go:313-338).                                                 *)
(***************************************************************************)
NobodyRuns ==
    \A w \in Workers : pc[w] \in {"idle", "ended"} \/ (pc[w] = "dead" /\ w \notin Supervised)

NewStartSucceeds ==
    (NobodyRuns /\ crashes = MaxCrashes /\ \E w \in Workers : pc[w] = "idle")
        ~> \E w \in Workers : pc[w] \in Working
=============================================================================
