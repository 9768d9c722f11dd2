----------------------------- MODULE FilePrint -----------------------------
(***************************************************************************)
(* What printing a file promises, without queues and planners: the lines   *)
(* with a command are processed one by one in the order of the file, their *)
(* moves are executed in that order, and a print that is saved goes back   *)
(* exactly to where its execution has come, and goes on from there.        *)
(***************************************************************************)
EXTENDS Integers

CONSTANTS
    LineEnd,    \* offsets just behind the end of a line of the file
    Blank       \* offsets of the lines that hold no command

VARIABLES
    state,      \* "printing", "saved" or "ended"
    next,       \* the lines before this offset are processed
    done        \* the lines before this offset are executed

\* There is a line of the file from offset p to offset e.
IsLine(p, e) ==
    /\ p \in {0} \cup LineEnd /\ e \in LineEnd /\ p < e
    /\ ~\E f \in LineEnd : p < f /\ f < e

\* The first line behind offset p that holds a command ends at e.
CommandEnd(p, e) ==
    \E s \in {0} \cup LineEnd :
        /\ p <= s /\ IsLine(s, e) /\ s \notin Blank
        /\ \A t \in {0} \cup LineEnd : p <= t /\ t < s => t \in Blank

Init == state = "printing" /\ next = 0 /\ done = 0

\* The next line is processed.  If it moves nothing and nothing is moving,
\* it is executed at once.
Process ==
    /\ state = "printing"
    /\ \E e \in LineEnd : CommandEnd(next, e) /\ next' = e
    /\ done' \in {done, next'}
    /\ UNCHANGED state

\* Some more of the lines that are processed have been executed.
Execute ==
    /\ state = "printing"
    /\ done' \in done + 1 .. next
    /\ UNCHANGED <<state, next>>

\* The print is stopped; what is not executed will be processed again.
Save ==
    /\ state = "printing"
    /\ state' = "saved" /\ next' = done
    /\ UNCHANGED done

Resume ==
    /\ state = "saved"
    /\ state' = "printing"
    /\ UNCHANGED <<next, done>>

\* The print ends when all its lines have been executed.
Finish ==
    /\ state = "printing" /\ done = next
    /\ ~\E e \in LineEnd : CommandEnd(next, e)
    /\ state' = "ended"
    /\ UNCHANGED <<next, done>>

\* The print is given up.
Cancel == state # "ended" /\ state' = "ended" /\ next' \in Int /\ done' = next'

Next == Process \/ Execute \/ Save \/ Resume \/ Finish \/ Cancel

Spec == Init /\ [][Next]_<<state, next, done>>
=============================================================================
