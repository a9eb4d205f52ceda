----------------------------- MODULE McpStream -----------------------------
(***************************************************************************)
(* The input of the MCP server (internal/mcp/stream.go, reload.go).  The   *)
(* client writes lines, one request each, in pieces and without waiting    *)
(* for answers.  Between two requests, and when a read times out, the      *)
(* server may find another executable installed and become it: what it has *)
(* read and not answered goes with it.                                     *)
(*                                                                         *)
(* The input is a sequence of characters, of which only NL is told apart;  *)
(* an answer is the request it answers, as the positions of its characters.*)
(***************************************************************************)
EXTENDS Integers, Sequences, FiniteSets, SequencesExt

CONSTANTS
    Inputs,        \* what the client may write in the end: sequences of NL and others
    MaxLine,       \* bufio.MaxScanTokenSize: characters the server keeps unanswered
    ReadSize,      \* characters one read returns at most
    MaxReplacements  \* bound: installations of another executable

NL == "nl"
VARIABLES
    input,           \* what this client writes
    written, closed, \* characters written so far, and whether the client is done
    consumed,        \* characters read so far
    pending, eof,    \* serveStream's unread bytes, as positions, and readErr
    pc,              \* "checkpoint", "serve", or how the stream ended
    answers,
    installed        \* replacements that were installed

vars == <<input, written, closed, consumed, pending, eof, pc, answers, installed>>

Positions(from, to) == [i \in 1..(to - from) |-> from + i]
IsNL(i) == input[i] = NL
\* The first line of a sequence of positions, and the index of its end.
LineEnd(s) == SelectInSeq(s, IsNL)

-----------------------------------------------------------------------------

\* Mutated form: a request that is not complete is not handed over.
CheckpointLines ==
    /\ pc = "checkpoint" /\ pc' = "serve"
    /\ \/ UNCHANGED <<pending, installed>>
       \/ /\ ~eof /\ installed < MaxReplacements /\ installed' = installed + 1
          /\ pending' = IF LineEnd(pending) = 0 THEN <<>> ELSE pending
    /\ UNCHANGED <<input, written, closed, consumed, eof, answers>>

\* Nothing new is installed, it is not valid or the exec fails; or the server
\* becomes the new executable and starts its loop with the bytes handed over.
Checkpoint ==
    /\ pc = "checkpoint"
    /\ \/ pc' = "serve" /\ UNCHANGED installed
       \/ /\ ~eof /\ installed < MaxReplacements /\ Len(pending) <= MaxLine
          /\ installed' = installed + 1 /\ UNCHANGED pc
    /\ UNCHANGED <<input, written, closed, consumed, pending, eof, answers>>

\* Mutated form: the characters after the line are dropped with it.
AnswerRest ==
    /\ pc = "serve" /\ pc' = "checkpoint"
    /\ \E end \in {LineEnd(pending)} :
          /\ end # 0
          /\ answers' = IF end = 1 THEN answers ELSE Append(answers, SubSeq(pending, 1, end - 1))
          /\ pending' = <<>>
    /\ UNCHANGED <<input, written, closed, consumed, eof, installed>>

\* One line is answered, the last one also without its end; an empty one is not.
Answer ==
    LET end == LineEnd(pending)
        line == IF end = 0 THEN pending ELSE SubSeq(pending, 1, end - 1)
    IN /\ pc = "serve" /\ (end # 0 \/ (eof /\ pending # <<>>))
       /\ answers' = IF line = <<>> THEN answers ELSE Append(answers, line)
       /\ pending' = SubSeq(pending, Len(line) + 2, Len(pending))
       /\ pc' = "checkpoint"
       /\ UNCHANGED <<input, written, closed, consumed, eof, installed>>

NoLine == pc = "serve" /\ LineEnd(pending) = 0 /\ ~(eof /\ pending # <<>>)

EndOfInput ==
    /\ NoLine /\ eof /\ pc' = "ended"
    /\ UNCHANGED <<input, written, closed, consumed, pending, eof, answers, installed>>

TooLong ==
    /\ NoLine /\ ~eof /\ Len(pending) >= MaxLine /\ pc' = "too_long"
    /\ UNCHANGED <<input, written, closed, consumed, pending, eof, answers, installed>>

\* Mutated form: every read returns up to ReadSize characters.
RoomForAll == ReadSize

\* What is kept never gets larger than what can be handed over.
Room == IF ReadSize < MaxLine - Len(pending) THEN ReadSize ELSE MaxLine - Len(pending)

\* Some characters, the end of the input, or nothing for a second.
Read ==
    /\ NoLine /\ ~eof /\ Len(pending) < MaxLine
    /\ \/ \E n \in 1..Room :
             /\ consumed + n <= written
             /\ consumed' = consumed + n
             /\ pending' = pending \o Positions(consumed, consumed + n)
             /\ UNCHANGED eof
       \/ consumed = written /\ eof' = closed /\ UNCHANGED <<consumed, pending>>
    /\ pc' = "checkpoint"
    /\ UNCHANGED <<input, written, closed, answers, installed>>

\* The client.
Write ==
    /\ ~closed /\ written < Len(input) /\ written' = written + 1
    /\ UNCHANGED <<input, closed, consumed, pending, eof, pc, answers, installed>>

Close ==
    /\ ~closed /\ closed' = TRUE
    /\ UNCHANGED <<input, written, consumed, pending, eof, pc, answers, installed>>

-----------------------------------------------------------------------------

Init ==
    /\ input \in Inputs
    /\ written = 0 /\ closed = FALSE /\ consumed = 0
    /\ pending = <<>> /\ eof = FALSE /\ pc = "checkpoint"
    /\ answers = <<>> /\ installed = 0

Server == Checkpoint \/ Answer \/ EndOfInput \/ TooLong \/ Read

Next == Server \/ Write \/ Close

Spec == Init /\ [][Next]_vars

=============================================================================
