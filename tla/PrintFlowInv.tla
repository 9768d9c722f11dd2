---------------------------- MODULE PrintFlowInv ----------------------------
(***************************************************************************)
(* The inductive invariant of PrintFlow.  It says that the queue and the   *)
(* planner hold one contiguous stretch of the file, who may stand at the   *)
(* head of the queue at which point of the main thread, and how far the    *)
(* two loops that sum up the lengths have come.                            *)
(***************************************************************************)
EXTENDS PrintFlow

\* The main thread is inside process_commands(), get_command() called from
\* there included.
InCommand ==
    \/ pc \in {"proc", "prep"}
    \/ pc \in {"get", "commit", "finish"} /\ ret = "proc"

NoSDLine == \A i \in 1 .. Len(cmds) : cmds[i].type # "SDCARD"

SavedSD == saved_printing /\ saved_type = "sd"

\* The commands in the queue are adjacent stretches of the file.
QueueChain ==
    /\ \A i \in 1 .. Len(cmds) : cmds[i].from <= cmds[i].to
    /\ \A i, j \in 1 .. Len(cmds) : i < j => cmds[i].to <= cmds[j].from
    /\ \A i, j \in 1 .. Len(cmds) : j = i + 1 => cmds[i].to = cmds[j].from
    /\ Len(cmds) > 0 => cmds[Len(cmds)].to = sdpos_atomic
    /\ sdpos_atomic <= readpos

\* A file line is longer than nothing, and its length is stored truncated.
\* Every other command stands for no byte of the file.
QueueBytes ==
    \A i \in 1 .. Len(cmds) :
        /\ cmds[i].type \in {"SDCARD", "TO_BE_REMOVED"}
              => cmds[i].from < cmds[i].to
        /\ cmds[i].type = "SDCARD"
              => cmds[i].len = Trunc(cmds[i].to - cmds[i].from)
        /\ cmds[i].type \in {"UI", "STALE"} => cmds[i].from = cmds[i].to
        /\ cmds[i].type = "STALE" => i = 1 /\ pc = "front"
        /\ cmds[i].type = "TO_BE_REMOVED"
              => i = 1 /\ pc \in {"pop", "pop2"} /\ ret = "idle"

\* Who stands at the head of the queue, and which points of the main thread
\* are nested in which.
Control ==
    /\ pc = "front" => Len(cmds) > 0 /\ cmds[1].type = "STALE"
    /\ pc \in {"handover", "pop", "pop2"} => Len(cmds) > 0
    /\ pc \in {"pop", "pop2"} => ret \in {"idle", "m601"}
    /\ pc \in {"pop", "pop2"} /\ ret = "m601"
          => cmds[1].type = "SDCARD" /\ blocks = <<>>
    /\ pc \in {"pop", "pop2"} /\ ret = "idle" => cmds[1].type # "SDCARD"
    /\ pc = "commit" => sdpos_atomic < readpos
    /\ pc \in {"get", "commit", "finish"} => ret \in {"top", "loop", "proc"}
    /\ pc \in {"restore", "m600", "front"} /\ back = "finish"
          => ret \in {"top", "loop", "proc"}

\* The line that is being processed stays at the head until it is released;
\* a command whose moves have been aborted is not released at all.
Processed ==
    /\ (InCommand \/ pc \in {"hand", "handover"}) /\ line # NoLine /\ ~already
          => Len(cmds) > 0 /\ cmds[1].type = "SDCARD" /\ cmds[1].from = line
    /\ InCommand /\ ~planner_aborted => ~already
    /\ pc \in {"restore", "m600", "front"} => already \/ line = NoLine
    /\ pc = "m600" \/ (pc = "front" /\ back # "hand")
          => planner_aborted \/ ~already

\* The blocks in the planner are adjacent stretches of the file, and end
\* where the queue starts.
BlockChain ==
    /\ \A i \in 1 .. Len(blocks) : blocks[i].from <= blocks[i].to
    /\ \A i, j \in 1 .. Len(blocks) : i < j => blocks[i].to <= blocks[j].from
    /\ \A i, j \in 1 .. Len(blocks) : j = i + 1 => blocks[i].to = blocks[j].from
    /\ Len(blocks) > 0 => blocks[Len(blocks)].to = QueueStart
    /\ \A i \in 1 .. Len(blocks) :
          /\ blocks[i].line \in {NoLine, blocks[i].from}
          /\ blocks[i].to - blocks[i].from < SDLEN_MOD
                => blocks[i].sdlen = blocks[i].to - blocks[i].from

\* A block whose line has not been handed over yet is followed by another
\* one of that line, or the line is still being processed.
Unfinished(b) == b.line # NoLine /\ b.to = b.from

BlockLines ==
    /\ \A i, j \in 1 .. Len(blocks) :
          j = i + 1 /\ Unfinished(blocks[i]) => blocks[j].line = blocks[i].line
    /\ Len(blocks) > 0 /\ Unfinished(blocks[Len(blocks)])
          => /\ InCommand \/ pc \in {"hand", "handover"}
             /\ ~already /\ segs > 0 /\ line = blocks[Len(blocks)].line

\* What the main thread does only while a print runs, or is not saved.
Alone ==
    /\ pc \in {"get", "commit"} => sdprinting
    /\ pc = "m601" \/ (pc \in {"pop", "pop2"} /\ ret = "m601") => ~saved_printing

\* While a print is saved, nothing of the file is read, queued or planned.
Quiet ==
    saved_printing =>
        /\ ~sdprinting
        /\ already \/ line = NoLine
        /\ \A i \in 1 .. Len(cmds) : cmds[i].type \notin {"SDCARD", "TO_BE_REMOVED"}
        /\ \A i \in 1 .. Len(blocks) : blocks[i].line = NoLine

\* In which states of the main thread a save or a restore is found.
Saver ==
    /\ save \in {"planner", "cmdqueue"} => saved_type = "sd"
    /\ save # "off" =>
          /\ by \in {"pause", "runout", "int4"}
          /\ by = "runout" => pc \in Waits
          /\ by = "pause" => pc \in Waits \cup {"m601"}
          /\ by \in {"pause", "runout"} => ~saved_printing
          /\ ~SavedSD
          /\ saved_type = "sd" => sdprinting /\ saved_sdpos <= sdpos_atomic
    /\ SavedSD => saved_sdpos <= sdpos_atomic
    /\ pc = "restore" => ~sdprinting /\ (saved_printing \/ saved_type # "sd")

\* The lines that have moved are executed, or they are still on their way.
Moved ==
    \A l \in moved :
        /\ l < ResumePoint \/ l \in Pending
        /\ l < sdpos_atomic
        /\ SavedSD => l < saved_sdpos

\* Of the lines not handed over yet, only the one being processed has moved,
\* and then the last block is its own.
MovedHere ==
    \A l \in moved :
        /\ l # NoLine
        /\ QueueStart <= l =>
              /\ l = QueueStart /\ l = line
              /\ InCommand \/ pc \in {"hand", "handover"}
              /\ ~already /\ segs > 0
              /\ Len(blocks) > 0 => blocks[Len(blocks)].line = l

\* How far the loops of save_print_file_state() have come.
PlannerSum ==
    IF idx \in 1 .. Len(blocks) THEN blocks[idx].from ELSE QueueStart

QueueSum ==
    IF idx = 1 THEN QueueStart
    ELSE IF idx \in 1 .. Len(cmds) THEN cmds[idx].from ELSE sdpos_atomic

Summed ==
    /\ save = "planner" => saved_sdpos = sdpos_atomic
    /\ save = "planner" /\ InFlight < SDLEN_MOD =>
          idx <= Len(blocks) + 1 /\ acc = PlannerSum - ResumePoint
    /\ save = "cmdqueue" /\ InFlight < SDLEN_MOD /\ ~Window =>
          /\ idx <= Len(cmds) + 1
          /\ saved_sdpos = sdpos_atomic - (QueueStart - ResumePoint)
          /\ acc = QueueSum - QueueStart
    /\ PositionSaved => saved_sdpos = ResumePoint

\* What the queue, the planner and the sums satisfy whoever stops the print.
Core == /\ TypeOK /\ BuflenAgrees /\ QueueChain /\ QueueBytes /\ Control
        /\ Processed /\ BlockChain /\ Summed

Inv == Core /\ Alone /\ BlockLines /\ Quiet /\ Saver /\ Moved /\ MovedHere

\* As long as no length overflows, the next line to be processed begins where
\* the last one that was not aborted ended.
Reached ==
    \/ SavedSD /\ reached = saved_sdpos
    \/ ~SavedSD /\ reached = QueueStart
    \/ ~SavedSD /\ ~sdprinting /\ NoSDLine
=============================================================================
