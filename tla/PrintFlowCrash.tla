--------------------------- MODULE PrintFlowCrash ---------------------------
(***************************************************************************)
(* PrintFlow with the TMC2130 crash detection enabled.  The stepper        *)
(* interrupt then calls stop_and_save_print_to_ram() itself, wherever the  *)
(* main thread happens to be: the queue is emptied under its hands.        *)
(***************************************************************************)
EXTENDS PrintFlow

VARIABLES
    armed,      \* tmc2130_sg_stop_on_crash
    sg_crash,   \* tmc2130_sg_crash # 0
    torn,       \* the queue was reset between two stores to its indices
    refused,    \* ghost: since the stop, a command did not fit the buffer
    readOn      \* ghost: the stop found get_command() in the middle of a line

crashVars == <<armed, sg_crash, torn, refused, readOn>>
allVars == <<vars, crashVars>>

InitCrash ==
    /\ Init
    /\ armed = TRUE /\ sg_crash = FALSE /\ torn = FALSE
    /\ refused = FALSE /\ readOn = FALSE

\* tmc2130_st_isr(): the driver reports a stall while a block is executed.
CrashDetected ==
    /\ save = "off" /\ power = "on" /\ armed /\ blocks # <<>>
    /\ armed' = FALSE /\ sg_crash' = TRUE
    /\ IF saved_printing
       THEN UNCHANGED <<save, by, idx, acc, saved_sdpos, saved_type>>
       ELSE StartSave("crash")
    /\ UNCHANGED <<fileVars, queueVars, planVars, saved_printing, paused,
                   power, mainVars, finished, ghostVars, torn, refused, readOn>>

\* The interrupt stops the print.  The main thread goes on where it was: a
\* get_command() reads the file on until the buffer is full.
FinishCrash ==
    /\ save = "done" /\ by = "crash"
    /\ StopPrint(<<UI("ui", sdpos_atomic)>>)
    /\ saved_printing' = TRUE
    /\ save' = "off" /\ by' = "none"
    /\ torn' = Window
    /\ refused' = FALSE /\ readOn' = (pc \in {"get", "commit"})
    /\ UNCHANGED <<saved_type, saved_sdpos, paused, idx, acc, power, mainVars,
                   finished, armed, sg_crash>>

\* enquecommand(): without room the command is dropped, and nobody is told.
\* A short command may still fit where the longest line would not.
Enqueue(what) ==
    \/ /\ cmds' = Append(cmds, UI(what, sdpos_atomic))
       /\ buflen' = buflen + 1
       /\ UNCHANGED refused
    \/ /\ ~Room
       /\ UNCHANGED <<cmds, buflen>>
       /\ refused' = TRUE

\* The end of loop() turns the crash into a command.
EnqueueCrash ==
    /\ Running("loop") /\ sg_crash
    /\ sg_crash' = FALSE
    /\ Enqueue("crash")
    /\ UNCHANGED <<fileVars, already, planVars, savedVars, mainVars, isrVars,
                   finished, ghostVars, armed, torn, readOn>>

\* The commands of the crash detection.
CrashCommands == {"crash", "recover", "cancel"}

Front(what) ==
    Running("proc") /\ ~already /\ cmds # <<>> /\ cmds[1].what = what

\* ProcessCrashDetected as it would be if it did not queue the recovery.
ProcessCrashForgotten ==
    /\ Front("crash") /\ blocks = <<>>
    /\ pc' = "hand"
    /\ UNCHANGED <<fileVars, queueVars, planVars, savedVars, ret, back, line,
                   segs, isrVars, finished, ghostVars, crashVars>>

\* crashdet_detected(): home, then queue CRASH_RECOVER.  After too many
\* crashes the user is asked, and may have CRASH_CANCEL queued instead.
ProcessCrashDetected ==
    /\ Front("crash") /\ blocks = <<>>
    /\ \E answer \in {"recover", "cancel"} : Enqueue(answer)
    /\ pc' = "hand"
    /\ UNCHANGED <<fileVars, already, planVars, savedVars, ret, back, line,
                   segs, isrVars, finished, ghostVars, armed, sg_crash, torn,
                   readOn>>

\* crashdet_recover(): resume the print and arm the detection again.
ProcessCrashRecover ==
    /\ Front("recover") /\ blocks = <<>>
    /\ IF ~paused /\ saved_printing
       THEN pc' = "restore" /\ back' = "hand"
       ELSE pc' = "hand" /\ UNCHANGED back
    /\ armed' = TRUE
    /\ UNCHANGED <<fileVars, queueVars, planVars, savedVars, ret, line, segs,
                   isrVars, finished, ghostVars, sg_crash, torn, refused,
                   readOn>>

\* crashdet_cancel(): arm the detection again and give the print up.
ProcessCrashCancel ==
    /\ Front("cancel")
    /\ armed' = TRUE
    /\ PrintStop
    /\ pc' = "hand"
    /\ UNCHANGED <<ret, back, line, segs, sg_crash, torn, refused, readOn>>

\* Everything else is as in PrintFlow.  Once the indices of the queue are
\* torn, nothing more is said of the program.
Base ==
    /\ Next
    /\ ~torn
    /\ ~(pc = "loop" /\ pc' # "loop" /\ sg_crash)
    /\ ~(pc' # pc /\ \E what \in CrashCommands : Front(what))
    /\ UNCHANGED crashVars

Torn == torn /\ UNCHANGED allVars

NextCrash ==
    \/ Base \/ CrashDetected \/ FinishCrash \/ EnqueueCrash
    \/ ProcessCrashDetected \/ ProcessCrashRecover \/ ProcessCrashCancel
    \/ Torn

SpecCrash == InitCrash /\ [][NextCrash]_allVars

-----------------------------------------------------------------------------
\* Once a crash has stopped the print, no move of the file is planned until
\* the print is resumed: stop_and_save_print_to_ram() stops the moves.
StoppedMeansNoMoves ==
    [][saved_printing /\ saved_printing' /\ saved_type = "sd"
         => ~\E i \in DOMAIN blocks' : blocks'[i].line # NoLine]_allVars

\* A print that a crash has stopped is not forgotten: the crash, or the command
\* that will resume or cancel the print, is queued or is going to be.  Only if
\* the interrupt came in the middle of get_command(), which then fills the
\* buffer with lines of the file, may that command have been dropped.
CrashNotForgotten ==
    saved_printing /\ ~paused /\ save = "off" /\ pc # "restore" /\ ~torn
        => \/ sg_crash
           \/ \E i \in DOMAIN cmds : cmds[i].what \in CrashCommands
           \/ refused /\ readOn
=============================================================================
