----------------------------- MODULE MCServices -----------------------------
(***************************************************************************)
(* Small instances, for TLC, of four components that share no state with   *)
(* each other: the supervisor of a watched root, the update of a git       *)
(* repository, the editors of the dashboard configuration and the input of *)
(* the MCP server.  A behaviour is one of a single component, the others   *)
(* stay in an initial state; interleaving them would only multiply states. *)
(***************************************************************************)
EXTENDS SupervisorProperties, Sequences

CONSTANTS Components, Branches, OriginHead, MaxOutside, Editors, Contents, MaxWrites, NoFile,
          Inputs, MaxLine, ReadSize, MaxReplacements

VARIABLES
    component,   \* the one that runs
    origin, tracked, local, head, detachedAt, dirty, operation,
    gitPc, initial, fetched, result, since, outside,
    file, holds, editorPc, task, byHand, writes,
    input, written, closed, consumed, unread, eof, mcpPc, answers, installed

Git == INSTANCE GitUpdateProperties WITH pc <- gitPc
Dashboard == INSTANCE DashboardConfigProperties WITH pc <- editorPc
Mcp == INSTANCE McpStreamProperties WITH pc <- mcpPc, pending <- unread

gitVars == <<origin, tracked, local, head, detachedAt, dirty, operation,
             gitPc, initial, fetched, result, since, outside>>
dashboardVars == <<file, holds, editorPc, task, byHand, writes>>
mcpVars == <<input, written, closed, consumed, unread, eof, mcpPc, answers, installed>>
allVars == <<component, vars, gitVars, dashboardVars, mcpVars>>

ServicesInit ==
    /\ component \in Components
    /\ Init /\ Git!Init /\ Dashboard!Init /\ Mcp!Init
    /\ component # "git" => head = "main" /\ origin = tracked /\ local = tracked
    /\ component # "mcp" => input = CHOOSE i \in Inputs : TRUE

SupervisorRuns == /\ component = "supervisor" /\ Next
                  /\ UNCHANGED <<component, gitVars, dashboardVars, mcpVars>>
GitRuns == /\ component = "git" /\ Git!Next
           /\ UNCHANGED <<component, vars, dashboardVars, mcpVars>>
DashboardRuns == /\ component = "dashboard" /\ Dashboard!Next
                 /\ UNCHANGED <<component, vars, gitVars, mcpVars>>
McpServes == /\ component = "mcp" /\ Mcp!Server
             /\ UNCHANGED <<component, vars, gitVars, dashboardVars>>
McpClient == /\ component = "mcp" /\ (Mcp!Write \/ Mcp!Close)
             /\ UNCHANGED <<component, vars, gitVars, dashboardVars>>

ServicesNext == SupervisorRuns \/ GitRuns \/ DashboardRuns \/ McpServes \/ McpClient

Services == ServicesInit /\ [][ServicesNext]_allVars /\ Fairness /\ WF_allVars(McpServes)

\* The properties of the components, see their modules.
ServicesTypeOK == TypeOK /\ Git!TypeOK /\ Dashboard!TypeOK /\ Mcp!TypeOK
FastForwardsOnly == Git!FastForwardsOnly
ReportTrue == Git!ReportTrue
NoLostSave == Dashboard!NoLostSave
AllAnswered == Mcp!AllAnswered

-----------------------------------------------------------------------------

FourComponents == {"supervisor", "git", "dashboard", "mcp"}
OnlySupervisor == {"supervisor"}
ThreeBranches == {"main", "master", "work"}

\* Requests of one and two characters, an empty line, and input that ends without
\* a line end; and a request that is too long.
x == "x"
end == "nl"
TwoInputs == {<<x, end, x, x, end, end, x, x>>, <<x, x, end, x, x, x, x, end>>}

=============================================================================
