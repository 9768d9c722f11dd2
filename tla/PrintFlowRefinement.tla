------------------------ MODULE PrintFlowRefinement ------------------------
(***************************************************************************)
(* PrintFlow implements FilePrint: the queue, the planner, the truncated   *)
(* lengths and the saved position together are a cursor into the file.     *)
(***************************************************************************)
EXTENDS PrintFlowInv

State == IF SavedSD THEN "saved" ELSE IF sdprinting THEN "printing" ELSE "ended"

Executed == IF SavedSD THEN saved_sdpos ELSE ResumePoint

FP == INSTANCE FilePrint WITH state <- State, next <- reached, done <- Executed

\* Whatever is paused, resumed, reloaded or cancelled, the printer processes
\* and executes the lines of the file in order, none twice, none left out.
ImplementsFilePrint == FP!Spec

-----------------------------------------------------------------------------
(* What the refinement needs besides Inv and Reached.                      *)

Offsets == {0} \cup LineEnd

\* Only lines without a command lie between the offsets p and q.
OnlyBlank(p, q) == \A t \in Offsets : p <= t /\ t < q => t \in Blank

\* Everything begins and ends where a line does, and a queued line stands for
\* one line with a command and the lines without one in front of it.
FileLines ==
    /\ readpos \in Offsets /\ sdpos_atomic \in Offsets
    /\ pc = "commit" => FP!CommandEnd(sdpos_atomic, readpos)
    /\ pc # "commit" => OnlyBlank(sdpos_atomic, readpos)
    /\ \A i \in 1 .. Len(cmds) :
          /\ cmds[i].from \in Offsets /\ cmds[i].to \in Offsets
          /\ cmds[i].type = "SDCARD" => FP!CommandEnd(cmds[i].from, cmds[i].to)
    /\ \A i \in 1 .. Len(blocks) : blocks[i].from \in Offsets
    /\ SavedSD => saved_sdpos \in Offsets

\* When the end of the file is found, its lines have all been handed over.
AtFileEnd == pc = "finish" \/ (pc \in {"restore", "m600", "front"} /\ back = "finish")
EndOfFile == AtFileEnd => QueueStart = sdpos_atomic

\* A print that has ended leaves nothing behind.
Ended == State = "ended" => ResumePoint = sdpos_atomic /\ reached = sdpos_atomic

RefinementInv == FileLines /\ EndOfFile /\ Ended
=============================================================================
