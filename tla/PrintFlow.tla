----------------------------- MODULE PrintFlow -----------------------------
(***************************************************************************)
(* A print from the SD card, from the bytes of the file to the blocks the  *)
(* stepper interrupt executes, and the file position from which the print  *)
(* is resumed after a pause, a filament runout or a power failure.         *)
(*                                                                         *)
(* Three threads of control share the state: the main Arduino loop()       *)
(* (get_command, process_commands and every function that waits inside     *)
(* them), the stepper interrupt, and the power panic interrupt INT4.  The  *)
(* main thread is cut into one action per point where an interrupt can     *)
(* see a difference; code between cli() and sei() is a single action.      *)
(*                                                                         *)
(* Ghosts: the fields `from' and `to' of commands and blocks (the bytes of *)
(* the file they stand for), the field `line' of blocks (the line that     *)
(* planned them), `moved' and `reached'.  No guard reads them.             *)
(***************************************************************************)
EXTENDS Integers, Sequences, FiniteSets

CONSTANTS
    LineEnd,            \* offsets just behind the end of a line of the file
    Blank,              \* offsets of the lines that hold no command
    Hash,               \* offsets of the lines that are ended by a '#'
    EndPos,             \* length of the file
    QUEUE_MAX,          \* most commands the bytes of cmdbuffer are let hold
    BUFSIZE,            \* manage_inactivity reads only below BUFSIZE - 1
    BLOCK_BUFFER_SIZE,  \* slots of the planner ring, one of them never used
    MAX_SEGMENTS,       \* most blocks one command plans
    SDLEN_MOD,          \* lengths are uint16_t: 2^16 in the firmware
    Events              \* which events of the environment may happen

ASSUME FileAssumption ==
    /\ EndPos \in Nat /\ EndPos \in LineEnd
    /\ LineEnd \subseteq 1 .. EndPos
    /\ Blank \subseteq Nat /\ Hash \subseteq Nat

ASSUME SizeAssumption ==
    /\ QUEUE_MAX \in Nat \ {0} /\ BUFSIZE \in Nat \ {0}
    /\ BLOCK_BUFFER_SIZE \in Nat /\ BLOCK_BUFFER_SIZE >= 2
    /\ MAX_SEGMENTS \in Nat /\ SDLEN_MOD \in Nat \ {0}
    /\ Events \subseteq {"pause", "m601", "runout", "cancel", "ui", "repeat",
                         "power"}

VARIABLES
    readpos,        \* card.get_sdpos() of the open file
    isopen,         \* card.isFileOpen()
    stopBuffering,  \* get_command()'s static stop_buffering
    sdprinting,     \* card.sdprinting
    sdpos_atomic,   \* end of the last line that entered the queue
    cmds,           \* the commands in cmdbuffer, from bufindr on
    buflen,         \* number of commands in cmdbuffer
    already,        \* cmdbuffer_front_already_processed
    blocks,         \* block_buffer from block_buffer_tail to _head
    planner_aborted,
    saved_printing, saved_type, saved_sdpos,
    paused,         \* did_pause_print
    finished,       \* GetPrinterState() = SDPrintingFinished
    pc,             \* where the main thread is
    ret,            \* where get_command() or cmdqueue_pop_front() returns to
    back,           \* where a restore or enquecommand_front() returns to
    line,           \* offset of the line being processed, or NoLine
    segs,           \* blocks it has planned so far
    save,           \* progress of save_print_file_state()
    by,             \* who called it
    idx, acc,       \* loop index and sum of the two *_calc_sd_length()
    power,          \* "failed" once uvlo_() has written the EEPROM
    moved,          \* ghost: lines that planned a block that was not aborted
    reached         \* ghost: end of the lines processed and not aborted

fileVars  == <<readpos, isopen, stopBuffering, sdprinting, sdpos_atomic>>
queueVars == <<cmds, buflen, already>>
planVars  == <<blocks, planner_aborted>>
savedVars == <<saved_printing, saved_type, saved_sdpos, paused>>
mainVars  == <<pc, ret, back, line, segs>>
isrVars   == <<save, by, idx, acc, power>>
ghostVars == <<moved, reached>>
vars == <<fileVars, queueVars, planVars, savedVars, mainVars, isrVars,
          finished, ghostVars>>

-----------------------------------------------------------------------------
NoLine == -1

\* A length is stored in 16 bits.
Trunc(n) == n % SDLEN_MOD

\* `what' tells the commands of the user interface apart.
Kinds   == {"line", "ui", "crash", "recover", "cancel"}
Types   == {"SDCARD", "UI", "TO_BE_REMOVED", "STALE"}
Command == [type: Types, what: Kinds, len: Nat, from: Int, to: Int]
Block   == [sdlen: Nat, line: Int, from: Int, to: Int]

UI(what, p) == [type |-> "UI", what |-> what, len |-> 0, from |-> p, to |-> p]

Eof == readpos >= EndPos

\* e is the end of the line that get_command() reads at offset p.
EndsLine(p, e) == e > p /\ \A f \in LineEnd : f > p => e <= f

\* The file offset at which the commands that the queue still has to hand
\* over to the planner begin.
QueueStart ==
    IF cmds = <<>> THEN sdpos_atomic
    ELSE IF cmds[1].type = "TO_BE_REMOVED" THEN cmds[1].to ELSE cmds[1].from

\* The offset up to which the print is completely executed.
ResumePoint == IF blocks = <<>> THEN QueueStart ELSE blocks[1].from

\* Bytes between the resume point and the last line in the queue.
InFlight == sdpos_atomic - ResumePoint

\* The file lines that are queued or have a block that is not executed yet.
Pending ==
    {cmds[i].from : i \in {j \in 1 .. Len(cmds) : cmds[j].type = "SDCARD"}}
    \cup ({blocks[i].line : i \in 1 .. Len(blocks)} \ {NoLine})

Room == Len(cmds) < QUEUE_MAX

-----------------------------------------------------------------------------
(* The print has just been started: M24 after M23.                         *)
Init ==
    /\ readpos = 0 /\ isopen = TRUE /\ stopBuffering = FALSE
    /\ sdprinting = TRUE /\ sdpos_atomic = 0
    /\ cmds = <<>> /\ buflen = 0 /\ already = FALSE
    /\ blocks = <<>> /\ planner_aborted = FALSE
    /\ saved_printing = FALSE /\ saved_type = "none" /\ saved_sdpos = 0
    /\ paused = FALSE /\ finished = FALSE
    /\ pc = "loop" /\ ret = "top" /\ back = "idle" /\ line = NoLine /\ segs = 0
    /\ save = "off" /\ by = "none" /\ idx = 1 /\ acc = 0
    /\ power = "on" /\ moved = {} /\ reached = 0

\* The main thread runs: no interrupt handler is active.
Running(p) == pc = p /\ save = "off" /\ power = "on"

-----------------------------------------------------------------------------
(* loop() and get_command()                                                *)

\* GetEnter as it would be if get_command() never cleared stop_buffering.
GetEnterBuffering(r) ==
    /\ ret' = r
    /\ pc' = IF Room /\ sdprinting /\ isopen THEN "get" ELSE r
    /\ UNCHANGED <<readpos, isopen, stopBuffering, sdprinting, sdpos_atomic>>

\* Entering get_command(): nothing to do without room, an open file and a
\* running SD print.  r is where the caller goes on.
GetEnter(r) ==
    /\ ret' = r
    /\ IF Room /\ sdprinting /\ isopen
       THEN /\ pc' = "get"
            /\ stopBuffering' = IF buflen = 0 THEN FALSE ELSE stopBuffering
       ELSE pc' = r /\ UNCHANGED stopBuffering
    /\ UNCHANGED <<readpos, isopen, sdprinting, sdpos_atomic>>

LoopTop ==
    /\ Running("loop")
    /\ planner_aborted' = FALSE
    /\ GetEnter("top")
    /\ UNCHANGED <<queueVars, blocks, savedVars, isrVars, back, line, segs,
                   finished, ghostVars>>

\* The characters of a line with a command have been stored behind bufindw.
GetLine ==
    /\ Running("get") /\ ~Eof /\ ~stopBuffering
    /\ readpos \notin Blank
    /\ \E e \in LineEnd : EndsLine(readpos, e) /\ readpos' = e
    /\ stopBuffering' = (readpos \in Hash)
    /\ pc' = "commit"
    /\ UNCHANGED <<isopen, sdprinting, sdpos_atomic, queueVars, planVars,
                   savedVars, isrVars, ret, back, line, segs, finished,
                   ghostVars>>

\* GetBlankLine as it would be if the bytes of a comment were discarded.
GetBlankLineDiscarded ==
    /\ Running("get") /\ ~Eof /\ ~stopBuffering
    /\ readpos \in Blank
    /\ \E e \in LineEnd :
          EndsLine(readpos, e) /\ readpos' = e /\ sdpos_atomic' = e
    /\ stopBuffering' = (readpos \in Hash)
    /\ pc' = ret
    /\ UNCHANGED <<isopen, sdprinting, queueVars, planVars, savedVars, isrVars,
                   ret, back, line, segs, finished, ghostVars>>

\* A line without a command: its bytes are left to be counted with the next
\* one, and get_command() returns.
GetBlankLine ==
    /\ Running("get") /\ ~Eof /\ ~stopBuffering
    /\ readpos \in Blank
    /\ \E e \in LineEnd : EndsLine(readpos, e) /\ readpos' = e
    /\ stopBuffering' = (readpos \in Hash)
    /\ pc' = ret
    /\ UNCHANGED <<isopen, sdprinting, sdpos_atomic, queueVars, planVars,
                   savedVars, isrVars, ret, back, line, segs, finished,
                   ghostVars>>

\* The section between cli() and sei() that makes the line a command.  Then
\* the loop goes on if there is room for one more.
CommitLine ==
    /\ Running("commit")
    /\ cmds' = Append(cmds, [type |-> "SDCARD", what |-> "line",
                             len  |-> Trunc(readpos - sdpos_atomic),
                             from |-> sdpos_atomic, to |-> readpos])
    /\ buflen' = buflen + 1
    /\ sdpos_atomic' = readpos
    /\ pc' = IF Eof \/ Len(cmds') < QUEUE_MAX THEN "get" ELSE ret
    /\ UNCHANGED <<readpos, isopen, stopBuffering, sdprinting, already,
                   planVars, savedVars, isrVars, ret, back, line, segs,
                   finished, ghostVars>>

\* cmdqueue_calc_sd_length(), called by get_command() at the end of the file.
CalcSdLength ==
    LET sum[i \in 0 .. buflen] ==
            IF i = 0 THEN 0
            ELSE Trunc(sum[i - 1] + IF cmds[i].type = "SDCARD"
                                    THEN cmds[i].len ELSE 0)
    IN  sum[buflen]

\* The end of the file, or of the part that may be buffered now.
GetReturn ==
    /\ Running("get") /\ (Eof \/ stopBuffering)
    /\ ~(Eof /\ CalcSdLength = 0)
    /\ pc' = ret
    /\ UNCHANGED <<fileVars, queueVars, planVars, savedVars, isrVars, ret,
                   back, line, segs, finished, ghostVars>>

\* The last command of the file is handed over: the file is closed, but
\* card.sdprinting stays set until the planner has run dry.
GetEndOfFile ==
    /\ Running("get") /\ Eof /\ CalcSdLength = 0
    /\ isopen' = FALSE
    /\ pc' = "finish"
    /\ UNCHANGED <<readpos, stopBuffering, sdprinting, sdpos_atomic,
                   queueVars, planVars, savedVars, isrVars, ret, back, line,
                   segs, finished, ghostVars>>

\* card.printingHasFinished(), after its st_synchronize().
PrintingHasFinished ==
    /\ Running("finish") /\ blocks = <<>>
    /\ sdprinting' = FALSE /\ finished' = TRUE
    /\ pc' = ret
    /\ UNCHANGED <<readpos, isopen, stopBuffering, sdpos_atomic, queueVars,
                   planVars, savedVars, isrVars, ret, back, line, segs,
                   ghostVars>>

\* get_command() is back.  loop() processes the command at the front.
LoopDispatch ==
    /\ Running("top")
    /\ IF buflen > 0
       THEN /\ already' = FALSE /\ segs' = 0 /\ pc' = "proc"
            /\ line' = IF cmds[1].type = "SDCARD" THEN cmds[1].from ELSE NoLine
       ELSE pc' = "idle" /\ UNCHANGED <<already, line, segs>>
    /\ UNCHANGED <<fileVars, cmds, buflen, planVars, savedVars, isrVars, ret,
                   back, finished, ghostVars>>

-----------------------------------------------------------------------------
(* process_commands()                                                      *)

\* plan_buffer_line() up to the point where the new block is filled in.  The
\* wait for a free slot is the guard; an aborted move is not planned.
PlanPrepare ==
    /\ Running("proc") /\ segs < MAX_SEGMENTS
    /\ Len(blocks) < BLOCK_BUFFER_SIZE - 1
    /\ ~planner_aborted
    /\ pc' = "prep"
    /\ UNCHANGED <<fileVars, queueVars, planVars, savedVars, isrVars, ret,
                   back, line, segs, finished, ghostVars>>

\* The block becomes visible to the stepper interrupt, unless it has been
\* cancelled in the meantime.
PlanPublish ==
    /\ Running("prep")
    /\ segs' = segs + 1
    /\ pc' = "proc"
    /\ IF planner_aborted
       THEN UNCHANGED <<blocks, moved>>
       ELSE /\ blocks' = Append(blocks, [sdlen |-> 0, line |-> line,
                                         from |-> QueueStart,
                                         to |-> QueueStart])
            /\ moved' = moved \cup ({line} \ {NoLine})
    /\ UNCHANGED <<fileVars, queueVars, planner_aborted, savedVars, isrVars,
                   ret, back, line, finished, reached>>

\* A command that waits (for a free block, for st_synchronize() or for a
\* heater) runs manage_inactivity(), which calls get_command().
GetWhileWaiting ==
    /\ Running("proc") /\ buflen < BUFSIZE - 1
    /\ Room /\ sdprinting /\ isopen
    /\ GetEnter("proc")
    /\ UNCHANGED <<queueVars, planVars, savedVars, isrVars, back, line, segs,
                   finished, ghostVars>>

\* repeatcommand_front() and enquecommand_front(), as G80 does when the axes
\* are not homed.  First bufindr moves in front of a command that is not
\* written yet, then the command is counted.
RepeatAfterHoming ==
    /\ Running("proc") /\ "repeat" \in Events
    /\ segs = 0 /\ line # NoLine /\ ~planner_aborted /\ Room
    /\ already' = TRUE
    /\ cmds' = <<[UI("ui", QueueStart) EXCEPT !.type = "STALE"]>> \o cmds
    /\ pc' = "front" /\ back' = "hand"
    /\ UNCHANGED <<fileVars, buflen, planVars, savedVars, isrVars, ret, line,
                   segs, finished, ghostVars>>

\* EnqueueFrontCommit as it would be if the command were not counted.
EnqueueFrontUncounted ==
    /\ Running("front")
    /\ cmds' = [cmds EXCEPT ![1].type = "UI"]
    /\ pc' = back
    /\ UNCHANGED <<fileVars, buflen, already, planVars, savedVars, isrVars,
                   ret, back, line, segs, finished, ghostVars>>

EnqueueFrontCommit ==
    /\ Running("front")
    /\ cmds' = [cmds EXCEPT ![1].type = "UI"]
    /\ buflen' = buflen + 1
    /\ pc' = back
    /\ UNCHANGED <<fileVars, already, planVars, savedVars, isrVars, ret, back,
                   line, segs, finished, ghostVars>>

\* M601 from the file: it removes itself from the queue, then pauses.
ProcessM601 ==
    /\ Running("proc") /\ "m601" \in Events
    /\ ~paused /\ blocks = <<>> /\ segs = 0
    /\ ~already /\ line # NoLine
    /\ pc' = "pop" /\ ret' = "m601"
    /\ UNCHANGED <<fileVars, queueVars, planVars, savedVars, isrVars, back,
                   line, segs, finished, ghostVars>>

CommandDone ==
    /\ Running("proc")
    /\ pc' = "hand"
    /\ UNCHANGED <<fileVars, queueVars, planVars, savedVars, isrVars, ret,
                   back, line, segs, finished, ghostVars>>

\* loop(), behind process_commands(): is there a command to release?
ReleaseCheck ==
    /\ Running("hand")
    /\ pc' = IF ~already /\ buflen > 0 THEN "handover" ELSE "idle"
    /\ UNCHANGED <<fileVars, queueVars, planVars, savedVars, isrVars, ret,
                   back, line, segs, finished, ghostVars>>

\* AddSdLength as it would be if it stored the length instead of adding it.
AddSdLengthOverwriting(c) ==
    IF blocks = <<>> THEN UNCHANGED blocks
    ELSE blocks' = [blocks EXCEPT ![Len(blocks)].sdlen = Trunc(c.len),
                                  ![Len(blocks)].to    = c.to]

\* planner_add_sd_length(): the last block queued stands for n more bytes.
AddSdLength(c) ==
    IF blocks = <<>> THEN UNCHANGED blocks
    ELSE blocks' = [blocks EXCEPT
                      ![Len(blocks)].sdlen = Trunc(@ + c.len),
                      ![Len(blocks)].to    = c.to]

\* HandOver as it would be if the command kept its type SDCARD.
HandOverCountedTwice ==
    /\ Running("handover")
    /\ IF cmds[1].type = "SDCARD"
       THEN AddSdLength(cmds[1]) /\ reached' = cmds[1].to
       ELSE UNCHANGED <<blocks, reached>>
    /\ pc' = "pop" /\ ret' = "idle"
    /\ UNCHANGED <<fileVars, cmds, buflen, already, planner_aborted, savedVars,
                   isrVars, back, line, segs, finished, moved>>

\* Between cli() and sei() the length of an SD command moves from the queue
\* to the planner.
HandOver ==
    /\ Running("handover")
    /\ IF cmds[1].type = "SDCARD"
       THEN /\ cmds' = [cmds EXCEPT ![1].type = "TO_BE_REMOVED"]
            /\ AddSdLength(cmds[1])
            /\ reached' = cmds[1].to
       ELSE UNCHANGED <<cmds, blocks, reached>>
    /\ pc' = "pop" /\ ret' = "idle"
    /\ UNCHANGED <<fileVars, buflen, already, planner_aborted, savedVars,
                   isrVars, back, line, segs, finished, moved>>

\* cmdqueue_pop_front() first decrements buflen ...
PopCount ==
    /\ Running("pop")
    /\ buflen' = buflen - 1
    /\ pc' = "pop2"
    /\ UNCHANGED <<fileVars, cmds, already, planVars, savedVars, isrVars, ret,
                   back, line, segs, finished, ghostVars>>

\* ... and then walks bufindr to the next command.
PopAdvance ==
    /\ Running("pop2")
    /\ cmds' = Tail(cmds)
    /\ pc' = ret
    /\ reached' = IF cmds[1].type = "SDCARD" THEN cmds[1].to ELSE reached
    /\ UNCHANGED <<fileVars, buflen, already, planVars, savedVars, isrVars,
                   ret, back, line, segs, finished, moved>>

\* manage_inactivity() at the end of loop() calls get_command() once more.
\* lcd_update() and the rest of loop() do nothing here but run the events.
LoopEnd ==
    /\ Running("idle")
    /\ IF buflen < BUFSIZE - 1
       THEN GetEnter("loop")
       ELSE pc' = "loop" /\ UNCHANGED <<fileVars, ret>>
    /\ UNCHANGED <<queueVars, planVars, savedVars, isrVars, back, line, segs,
                   finished, ghostVars>>

\* The LCD menu appends a command of its own.
EnqueueUI ==
    /\ save = "off" /\ power = "on" /\ "ui" \in Events
    /\ pc \in {"idle", "proc"} /\ Room
    /\ cmds' = Append(cmds, UI("ui", sdpos_atomic))
    /\ buflen' = buflen + 1
    /\ UNCHANGED <<fileVars, already, planVars, savedVars, mainVars, isrVars,
                   finished, ghostVars>>

-----------------------------------------------------------------------------
(* stop_and_save_print_to_ram() and restore_print_from_ram_and_continue()  *)

\* Where the main thread waits with the menu and the filament sensor at work:
\* the end of loop(), a waiting command, or printingHasFinished().  A restore
\* waits too, but nothing can be paused there.
Waits == {"idle", "proc", "finish"}

\* save_print_file_state() starts with interrupts disabled.
StartSave(who) ==
    /\ by' = who
    /\ idx' = 1 /\ acc' = 0
    /\ IF sdprinting
       THEN save' = "planner" /\ saved_sdpos' = sdpos_atomic
       ELSE save' = "done" /\ UNCHANGED saved_sdpos
    /\ saved_type' = IF sdprinting THEN "sd" ELSE "none"

\* lcd_pause_print().  A print that is already saved is only marked paused.
PauseAt(q) ==
    /\ IF saved_printing
       THEN /\ paused' = TRUE /\ pc' = q
            /\ UNCHANGED <<save, by, idx, acc, saved_sdpos, saved_type>>
       ELSE StartSave("pause") /\ UNCHANGED <<paused, pc>>
    /\ UNCHANGED <<fileVars, queueVars, planVars, saved_printing, power, ret,
                   back, line, segs, finished, ghostVars>>

\* ... chosen from the menu while the main thread waits,
Pause ==
    /\ save = "off" /\ power = "on" /\ "pause" \in Events
    /\ pc \in Waits /\ sdprinting /\ ~paused
    /\ PauseAt(pc)

\* ... or called by M601 once it has removed itself.
PauseAfterM601 == Running("m601") /\ PauseAt("proc")

\* Filament_sensor::filRunout(), from manage_inactivity().
FilamentRunout ==
    /\ save = "off" /\ power = "on" /\ "runout" \in Events
    /\ pc \in Waits /\ ~saved_printing /\ sdprinting
    /\ StartSave("runout")
    /\ UNCHANGED <<fileVars, queueVars, planVars, saved_printing, paused,
                   power, mainVars, finished, ghostVars>>

\* One iteration of planner_calc_sd_length(), or its end.
SavePlanner ==
    /\ save = "planner"
    /\ IF idx <= Len(blocks)
       THEN /\ acc' = Trunc(acc + blocks[idx].sdlen)
            /\ idx' = idx + 1
            /\ UNCHANGED <<save, saved_sdpos>>
       ELSE /\ saved_sdpos' = saved_sdpos - acc
            /\ save' = "cmdqueue" /\ idx' = 1 /\ acc' = 0
    /\ UNCHANGED <<fileVars, queueVars, planVars, saved_printing, saved_type,
                   paused, by, power, mainVars, finished, ghostVars>>

\* One iteration of cmdqueue_calc_sd_length(), or its end.
SaveCmdqueue ==
    /\ save = "cmdqueue"
    /\ IF idx <= buflen
       THEN /\ acc' = IF cmds[idx].type = "SDCARD"
                      THEN Trunc(acc + cmds[idx].len) ELSE acc
            /\ idx' = idx + 1
            /\ UNCHANGED <<save, saved_sdpos>>
       ELSE /\ saved_sdpos' = saved_sdpos - acc
            /\ save' = "done"
            /\ UNCHANGED <<idx, acc>>
    /\ UNCHANGED <<fileVars, queueVars, planVars, saved_printing, saved_type,
                   paused, by, power, mainVars, finished, ghostVars>>

\* StopPrint as it would be if cmdqueue_reset() miscounted the queue ...
StopPrintMiscounted(newcmds) ==
    /\ blocks' = <<>> /\ planner_aborted' = TRUE
    /\ cmds' = newcmds /\ buflen' = Len(newcmds) - 1
    /\ already' = TRUE
    /\ sdprinting' = FALSE
    /\ UNCHANGED <<readpos, isopen, stopBuffering, sdpos_atomic, moved, reached>>

\* ... or if the queue were not reset at all.
StopPrintQueueKept(newcmds) ==
    /\ blocks' = <<>> /\ planner_aborted' = TRUE
    /\ cmds' = cmds \o newcmds /\ buflen' = buflen + Len(newcmds)
    /\ already' = TRUE
    /\ sdprinting' = FALSE
    /\ UNCHANGED <<readpos, isopen, stopBuffering, sdpos_atomic, moved, reached>>

\* planner_abort_hard(), cmdqueue_reset() and the rest of the section with
\* interrupts disabled.  A pause then queues its retraction.
StopPrint(newcmds) ==
    /\ blocks' = <<>> /\ planner_aborted' = TRUE
    /\ cmds' = newcmds /\ buflen' = Len(newcmds)
    /\ already' = TRUE
    /\ sdprinting' = FALSE
    /\ IF saved_type = "sd"
       THEN /\ moved' = {l \in moved : l < saved_sdpos}
            /\ reached' = IF saved_sdpos < reached THEN saved_sdpos ELSE reached
       ELSE UNCHANGED ghostVars
    /\ UNCHANGED <<readpos, isopen, stopBuffering, sdpos_atomic>>

FinishPause ==
    /\ save = "done" /\ by = "pause"
    /\ StopPrint(<<UI("ui", sdpos_atomic)>>)
    /\ saved_printing' = TRUE /\ paused' = TRUE
    /\ save' = "off" /\ by' = "none"
    /\ pc' = IF pc = "m601" THEN "proc" ELSE pc
    /\ UNCHANGED <<saved_type, saved_sdpos, idx, acc, power, ret, back, line,
                   segs, finished>>

\* FinishRunout as it would be if the handler did not resume the print.
FinishRunoutNotResumed ==
    /\ save = "done" /\ by = "runout"
    /\ StopPrint(<<>>)
    /\ saved_printing' = TRUE
    /\ save' = "off"
    /\ UNCHANGED <<saved_type, saved_sdpos, paused, by, idx, acc, power,
                   mainVars, finished>>

\* A runout resumes at once, and M600 will run before the rest of the file.
FinishRunout ==
    /\ save = "done" /\ by = "runout"
    /\ StopPrint(<<>>)
    /\ saved_printing' = TRUE
    /\ save' = "off"
    /\ pc' = "restore" /\ back' = pc
    /\ UNCHANGED <<saved_type, saved_sdpos, paused, by, idx, acc, power, ret,
                   line, segs, finished>>

\* lcd_resume_print(), from the menu, once its st_synchronize() is through.
Resume ==
    /\ pc \in Waits /\ save = "off" /\ power = "on"
    /\ paused /\ blocks = <<>>
    /\ IF saved_printing
       THEN pc' = "restore" /\ back' = pc /\ UNCHANGED paused
       ELSE paused' = FALSE /\ UNCHANGED <<pc, back>>
    /\ UNCHANGED <<fileVars, queueVars, planVars, saved_printing, saved_type,
                   saved_sdpos, isrVars, ret, line, segs, finished, ghostVars>>

\* The moves back to the saved position are a block of the printer's own.
RestoreMove ==
    /\ Running("restore") /\ ~planner_aborted /\ blocks = <<>>
    /\ segs < MAX_SEGMENTS
    /\ blocks' = <<[sdlen |-> 0, line |-> NoLine, from |-> QueueStart,
                    to |-> QueueStart]>>
    /\ segs' = segs + 1
    /\ UNCHANGED <<fileVars, queueVars, planner_aborted, savedVars, isrVars,
                   pc, ret, back, line, finished, ghostVars>>

\* The queued commands stand for no byte of the file: give them the new
\* position (a ghost).
Rebase(s, p) == [i \in DOMAIN s |-> [s[i] EXCEPT !.from = p, !.to = p]]

\* RestoreFinish as it would be if the file were not set back.
RestoreWithoutSeek ==
    /\ Running("restore") /\ blocks = <<>>
    /\ sdprinting' = (saved_type = "sd" \/ sdprinting)
    /\ saved_type' = "none" /\ saved_printing' = FALSE
    /\ paused' = FALSE
    /\ planner_aborted' = TRUE
    /\ pc' = IF by = "runout" THEN "m600" ELSE back
    /\ by' = "none"
    /\ UNCHANGED <<readpos, isopen, stopBuffering, sdpos_atomic, cmds, buflen,
                   already, blocks, saved_sdpos, save, idx, acc, power, ret,
                   back, line, segs, finished, ghostVars>>

\* restore_print_file_state() and the end of the restore: the stack of
\* functions that plan moves is unrolled.
RestoreFinish ==
    /\ Running("restore") /\ blocks = <<>>
    /\ IF saved_type = "sd"
       THEN /\ readpos' = saved_sdpos /\ sdpos_atomic' = saved_sdpos
            /\ sdprinting' = TRUE
            /\ cmds' = Rebase(cmds, saved_sdpos)
       ELSE UNCHANGED <<readpos, sdpos_atomic, sdprinting, cmds>>
    /\ saved_type' = "none" /\ saved_printing' = FALSE
    /\ paused' = FALSE
    /\ planner_aborted' = TRUE
    /\ pc' = IF by = "runout" THEN "m600" ELSE back
    /\ by' = "none"
    /\ UNCHANGED <<isopen, stopBuffering, buflen, already, blocks,
                   saved_sdpos, save, idx, acc, power, ret, back, line, segs,
                   finished, ghostVars>>

\* The runout handler pushes M600 to the front of the queue.  The flag
\* already is set, so nothing is popped.
EnqueueM600 ==
    /\ Running("m600")
    /\ cmds' = <<[UI("ui", QueueStart) EXCEPT !.type = "STALE"]>> \o cmds
    /\ pc' = "front"
    /\ UNCHANGED <<fileVars, buflen, already, planVars, savedVars, isrVars,
                   ret, back, line, segs, finished, ghostVars>>

\* print_stop() forgets the moves, the queue, what was saved and the file.
PrintStop ==
    /\ blocks' = <<>> /\ planner_aborted' = TRUE
    /\ cmds' = <<>> /\ buflen' = 0 /\ already' = TRUE
    /\ saved_printing' = FALSE /\ saved_type' = "none" /\ paused' = FALSE
    /\ sdprinting' = FALSE /\ isopen' = FALSE
    /\ moved' = {} /\ reached' = sdpos_atomic
    /\ UNCHANGED <<readpos, stopBuffering, sdpos_atomic, saved_sdpos, isrVars,
                   finished>>

\* The user cancels the print from the menu, which is also served while the
\* print is stopped and while a restore waits for its moves.
CancelPrint ==
    /\ save = "off" /\ power = "on" /\ "cancel" \in Events
    /\ pc \in Waits \cup {"restore"}
    /\ sdprinting \/ paused \/ saved_printing
    /\ PrintStop
    /\ UNCHANGED mainVars

-----------------------------------------------------------------------------
(* Interrupts                                                              *)

\* The stepper interrupt has executed the block at the tail.
StepperDone ==
    /\ save = "off" /\ power = "on"
    /\ blocks # <<>>
    /\ blocks' = Tail(blocks)
    /\ UNCHANGED <<fileVars, queueVars, planner_aborted, savedVars, mainVars,
                   isrVars, finished, ghostVars>>

\* INT4: uvlo_() takes the position saved in RAM, or computes it.
PowerFail ==
    /\ save = "off" /\ power = "on" /\ "power" \in Events
    /\ sdprinting \/ saved_printing \/ paused     \* printer_active()
    /\ IF saved_printing /\ saved_type # "none"
       THEN /\ power' = "failed"
            /\ UNCHANGED <<save, by, idx, acc, saved_sdpos, saved_type>>
       ELSE StartSave("int4") /\ UNCHANGED power
    /\ UNCHANGED <<fileVars, queueVars, planVars, saved_printing, paused,
                   mainVars, finished, ghostVars>>

\* uvlo_() has computed the position: it goes to the EEPROM, and the
\* processor spins until the supply is gone.
FinishPowerFail ==
    /\ save = "done" /\ by = "int4" /\ power = "on"
    /\ power' = "failed"
    /\ UNCHANGED <<fileVars, queueVars, planVars, savedVars, mainVars, save,
                   by, idx, acc, finished, ghostVars>>

\* while(1) at the end of uvlo_().
PowerDown == power = "failed" /\ UNCHANGED vars

-----------------------------------------------------------------------------
Main ==
    \/ LoopTop \/ GetLine \/ GetBlankLine \/ CommitLine \/ GetReturn
    \/ GetEndOfFile \/ PrintingHasFinished \/ LoopDispatch \/ PlanPrepare
    \/ PlanPublish \/ GetWhileWaiting \/ RepeatAfterHoming
    \/ EnqueueFrontCommit \/ ProcessM601 \/ CommandDone \/ ReleaseCheck
    \/ HandOver \/ PopCount \/ PopAdvance \/ LoopEnd
    \/ PauseAfterM601 \/ RestoreMove \/ RestoreFinish \/ EnqueueM600

Saving == SavePlanner \/ SaveCmdqueue \/ FinishPause \/ FinishRunout

Environment ==
    \/ EnqueueUI \/ Pause \/ FilamentRunout \/ Resume \/ CancelPrint
    \/ PowerFail

Next == Main \/ Saving \/ Environment \/ StepperDone \/ FinishPowerFail
        \/ PowerDown

Spec == Init /\ [][Next]_vars

\* The main loop never stops, the stepper interrupt keeps executing blocks,
\* and a command that waits does not wait for ever.
Fairness ==
    /\ WF_vars(Main) /\ WF_vars(Saving) /\ WF_vars(StepperDone)
    /\ SF_vars(CommandDone)

FairSpec == Spec /\ Fairness

-----------------------------------------------------------------------------
(* Properties                                                              *)

FileTypes ==
    /\ readpos \in Int /\ sdpos_atomic \in Int
    /\ isopen \in BOOLEAN /\ stopBuffering \in BOOLEAN /\ sdprinting \in BOOLEAN

QueueTypes ==
    /\ cmds \in Seq(Command) /\ buflen \in Nat /\ already \in BOOLEAN

PlanTypes ==
    /\ blocks \in Seq(Block) /\ planner_aborted \in BOOLEAN

SavedTypes ==
    /\ saved_printing \in BOOLEAN /\ saved_type \in {"none", "sd"}
    /\ saved_sdpos \in Int
    /\ paused \in BOOLEAN /\ finished \in BOOLEAN

MainTypes ==
    /\ pc \in {"loop", "get", "commit", "finish", "top", "proc", "prep",
               "front", "hand", "handover", "pop", "pop2", "m601", "idle",
               "restore", "m600"}
    /\ ret \in {"top", "loop", "idle", "proc", "m601"}
    /\ back \in {"idle", "proc", "finish", "hand"}
    /\ line \in Int /\ segs \in Nat

SaveTypes ==
    /\ save \in {"off", "planner", "cmdqueue", "done"}
    /\ by \in {"none", "pause", "runout", "int4", "crash"}
    /\ idx \in Nat \ {0} /\ acc \in Nat
    /\ power \in {"on", "failed"}

GhostTypes == moved \subseteq Int /\ reached \in Int

\* The variables have the types of their declarations in the source; no
\* length and no counter of the queue ever becomes negative.
TypeOK == /\ FileTypes /\ QueueTypes /\ PlanTypes /\ SavedTypes /\ MainTypes
          /\ SaveTypes /\ GhostTypes

\* bufindr and buflen disagree while cmdqueue_pop_front() or
\* enquecommand_front() is between its two stores.
Window == pc \in {"pop2", "front"}

\* A position has been computed, and the lengths did not overflow.
PositionSaved ==
    save = "done" /\ saved_type = "sd" /\ ~Window /\ InFlight < SDLEN_MOD

\* Resuming at the saved position skips nothing: no line of the file that is
\* still queued, or has a move that is not executed, lies before it, and
\* neither does the part of the file that has not been read.
NoLineSkipped ==
    PositionSaved => /\ \A l \in Pending : saved_sdpos <= l
                     /\ saved_sdpos <= sdpos_atomic

\* Resuming at the saved position repeats no line all of whose moves have
\* been executed: the length of a command is never counted twice.
NoMoveRepeated ==
    PositionSaved => \A l \in moved : l >= saved_sdpos => l \in Pending

\* Lines reach process_commands() in the order of the file, each one where
\* the one before it ended, whatever pauses and runouts came in between.
NoGap ==
    pc = "proc" /\ line # NoLine /\ ~already => line = reached

\* While a print is saved, nothing of the file is queued or planned.
SavedMeansQuiet ==
    saved_printing /\ saved_type = "sd" => Pending = {} /\ ~sdprinting

\* The length of the queue is what the queue holds, but for the two windows.
BuflenAgrees ==
    Len(cmds) = buflen + IF Window THEN 1 ELSE 0

\* A print that runs gets to its end, unless it is interrupted.
PrintCompletes ==
    (sdprinting /\ isopen) ~> (finished \/ saved_printing \/ ~isopen)

\* A print that was saved for a filament runout is resumed by itself.
RunoutResumes ==
    (saved_printing /\ ~paused) ~> (~saved_printing \/ paused)

\* Marlin_main.cpp says that it is safe to release the processed command
\* when its type is TO_BE_REMOVED: a power panic then resumes at the right
\* position.
ReleaseIsSafe ==
    (save = "done" /\ by = "int4" /\ pc \in {"pop", "pop2"} /\ ret = "idle")
        => \A l \in Pending : saved_sdpos <= l

\* cmdqueue.cpp says that sdprinting is cleared, and the print declared
\* finished, only after all remaining moves have been performed.
FinishedMeansPrinted ==
    finished => ~(saved_type = "sd" /\ saved_sdpos < sdpos_atomic)

=============================================================================
