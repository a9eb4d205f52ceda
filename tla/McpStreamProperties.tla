------------------------- MODULE McpStreamProperties -------------------------
(* What the client of the MCP server may rely on.                             *)
EXTENDS McpStream

Ends == {"ended", "too_long"}

\* The types of the variables; the bytes kept fit into a hand-off.
TypeOK ==
    /\ input \in Inputs /\ {closed, eof} \subseteq BOOLEAN
    /\ consumed \in 0..written /\ written \in 0..Len(input)
    /\ pending \in Seq(1..Len(input)) /\ Len(pending) <= MaxLine
    /\ pc \in {"checkpoint", "serve"} \cup Ends
    /\ answers \in Seq(Seq(1..Len(input)))
    /\ installed \in 0..MaxReplacements

\* The requests in the first n characters, complete or not, in order.
Requests(n) ==
    LET starts == {i \in 1..n : ~IsNL(i) /\ (i = 1 \/ IsNL(i - 1))}
        End(i) == CHOOSE j \in i..n : (j = n \/ IsNL(j + 1)) /\ \A k \in i..j : ~IsNL(k)
    IN [k \in 1..Cardinality(starts) |->
            LET i == CHOOSE s \in starts : Cardinality({t \in starts : t <= s}) = k
            IN Positions(i - 1, End(i))]

\* Liveness; the server takes its steps, and nothing forces the client's.

\* Every request is answered once, whole and in order, whatever pieces it came in
\* and however often the server was replaced; and once the client has closed its
\* end, everything it wrote has been answered unless a line was too long.
AllAnswered ==
    <>[](/\ IsPrefix(answers, Requests(consumed))
         /\ closed => pc = "too_long" \/ answers = Requests(written))

=============================================================================
