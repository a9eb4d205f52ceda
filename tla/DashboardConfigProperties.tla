---------------------- MODULE DashboardConfigProperties ----------------------
(* What the editors of the dashboard configuration may rely on.               *)
EXTENDS DashboardConfig

\* The types of the variables; one editor at most holds the lock.
TypeOK ==
    /\ file \in Contents \cup {NoFile}
    /\ holds \subseteq Editors /\ \A d, e \in holds : d = e
    /\ pc \in [Editors -> Rest \cup {"loaded", "lock", "compare", "write", "rename"}]
    /\ task \in [Editors -> [content : Contents \cup {NoFile}, expected : Contents \cup {NoFile}]]
    /\ byHand \in [Editors -> BOOLEAN]
    /\ writes \in 0..MaxWrites

\* No save overwrites what its editor has not seen: whatever is replaced is what
\* the editor loaded, and another editor's save in between is a conflict, unless
\* the file was changed by hand between the comparison and the rename.
NoLostSave ==
    [][\A e \in Editors :
        pc[e] = "rename" /\ file' # file =>
            file = task[e].expected \/ byHand[e]]_vars

=============================================================================
