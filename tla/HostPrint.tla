------------------------------ MODULE HostPrint ------------------------------
(***************************************************************************)
(* A print from a host: numbered lines with checksums (cmdqueue.cpp), a    *)
(* print that is saved and restored by its line number (Marlin_main.cpp),  *)
(* and a host that sends one line at a time and again what it is asked     *)
(* for.  Lines may be lost or garbled, and lines that are on their way     *)
(* arrive after the printer has asked for others.  A command is handled in *)
(* one step, so that a print is saved between two commands.                *)
(***************************************************************************)
EXTENDS Integers, Sequences, SequencesExt

CONSTANTS HostLines,     \* lines of the print
          HostMoves,     \* those that are moves; the others are done at once
          HostQueueMax, HostBlockMax, HostWireMax,
          LINES_MOD,     \* 256: save_print_file_state() counts the planned lines in a uint8_t
          HostFaults,    \* lines that may be lost or garbled
          HostSaves      \* times the print may be saved

ASSUME HostAssumption ==
  /\ HostLines \in Nat \ {0} /\ HostMoves \subseteq 1 .. HostLines
  /\ HostQueueMax \in Nat \ {0} /\ HostBlockMax \in Nat \ {0} /\ HostWireMax \in Nat \ {0}
  /\ LINES_MOD \in Nat \ {0}
  /\ HostFaults \in Nat /\ HostSaves \in Nat

VARIABLES hostNext, hostWaiting,   \* the host
          wire, replies,           \* the serial line, both ways
          gcode_LastN, hostQueue,  \* cmdqueue: numbers of the queued lines
          hostBlocks,              \* planner: line and sdlen of each block
          hostSaved,               \* "no", "crash" (not paused) or "thermal" (paused)
          Stopped, saved_sdpos,
          moved, commanded,        \* ghosts: moves made, commands carried out
          hostFaults, hostSaves    \* faults and saves so far
hostSide  == <<hostNext, hostWaiting>>
hostRx    == <<gcode_LastN, hostQueue>>
hostStop  == <<hostSaved, Stopped, saved_sdpos>>
hostDone  == <<moved, commanded>>
hostCount == <<hostFaults, hostSaves>>
hostVars  == <<hostSide, wire, replies, hostRx, hostBlocks, hostStop, hostDone, hostCount>>

Ok          == [t |-> "ok", n |-> 0]
Resend(n)   == [t |-> "resend", n |-> n]
Line(n, ok) == [n |-> n, ok |-> ok]

HostInit ==
  /\ hostNext = 1 /\ hostWaiting = FALSE /\ wire = <<>> /\ replies = <<>>
  /\ gcode_LastN = 0 /\ hostQueue = <<>> /\ hostBlocks = <<>>
  /\ hostSaved = "no" /\ Stopped = FALSE /\ saved_sdpos = 0
  /\ moved = <<>> /\ commanded = {} /\ hostFaults = 0 /\ hostSaves = 0

-----------------------------------------------------------------------------
(* The host.                                                               *)

HostSend ==
  /\ ~hostWaiting /\ hostNext <= HostLines /\ Len(wire) < HostWireMax
  /\ hostWaiting' = TRUE /\ hostNext' = hostNext + 1
  /\ \/ wire' = Append(wire, Line(hostNext, TRUE)) /\ UNCHANGED hostFaults
     \/ /\ hostFaults < HostFaults /\ hostFaults' = hostFaults + 1
        /\ \/ wire' = Append(wire, Line(hostNext, FALSE))
           \/ UNCHANGED wire
  /\ UNCHANGED <<replies, hostRx, hostBlocks, hostStop, hostDone, hostSaves>>

HostReads ==
  /\ replies # <<>> /\ replies' = Tail(replies) /\ hostWaiting' = FALSE
  /\ hostNext' = IF Head(replies).t = "resend" THEN Head(replies).n ELSE hostNext
  /\ UNCHANGED <<wire, hostRx, hostBlocks, hostStop, hostDone, hostCount>>

\* Nothing is heard of the printer any more, not even that it is busy, or the
\* polls behind the last line show that it is missing: it is sent again.
HostTimeout ==
  /\ hostWaiting \/ (hostNext > HostLines /\ gcode_LastN < HostLines)
  /\ replies = <<>> /\ wire = <<>> /\ hostQueue = <<>>
  /\ hostWaiting' = FALSE /\ hostNext' = hostNext - 1
  /\ UNCHANGED <<wire, replies, hostRx, hostBlocks, hostStop, hostDone, hostCount>>

-----------------------------------------------------------------------------
(* The printer.                                                            *)

\* FlushSerialRequestResend(): what has arrived is dropped, what is on its
\* way still comes.
FlushSerialRequestResend(last, rest) ==
  /\ wire' \in {<<>>, rest}
  /\ replies' = Append(replies, Resend(last + 1))

\* get_command(): serial data are read unless the print is saved and not
\* paused.  A stopped printer drops the line without a word.
GetLine ==
  /\ wire # <<>> /\ hostSaved # "crash" /\ Len(hostQueue) < HostQueueMax
  /\ LET l == Head(wire)
     IN  IF l.n # gcode_LastN + 1 \/ ~l.ok
         THEN FlushSerialRequestResend(gcode_LastN, Tail(wire)) /\ UNCHANGED hostRx
         ELSE /\ wire' = Tail(wire) /\ UNCHANGED replies
              /\ IF Stopped THEN UNCHANGED hostRx
                 ELSE gcode_LastN' = l.n /\ hostQueue' = Append(hostQueue, l.n)
  /\ UNCHANGED <<hostSide, hostBlocks, hostStop, hostDone, hostCount>>

\* planner_add_sd_length(1): the line belongs to the last block, if there is one.
AddLength(blocks) ==
  IF blocks = <<>> THEN blocks ELSE [blocks EXCEPT ![Len(blocks)].len = @ + 1]

\* loop(): the command is processed, confirmed and removed.
ProcessLine ==
  /\ hostQueue # <<>> /\ hostQueue' = Tail(hostQueue)
  /\ LET n == Head(hostQueue)
     IN  IF n \in HostMoves
         THEN /\ Len(hostBlocks) < HostBlockMax
              /\ hostBlocks' = AddLength(Append(hostBlocks, [line |-> n, len |-> 0]))
              /\ UNCHANGED commanded
         ELSE hostBlocks' = AddLength(hostBlocks) /\ commanded' = commanded \union {n}
  /\ replies' = Append(replies, Ok)
  /\ UNCHANGED <<hostSide, wire, gcode_LastN, hostStop, moved, hostCount>>

\* The stepper interrupt finishes a block.
FinishBlock ==
  /\ hostBlocks # <<>> /\ hostBlocks' = Tail(hostBlocks)
  /\ moved' = Append(moved, Head(hostBlocks).line)
  /\ UNCHANGED <<hostSide, wire, replies, hostRx, hostStop, commanded, hostCount>>

\* The line to resume from as it would be without the lines in the planner.
ResumeLineQueueOnly == gcode_LastN - Len(hostQueue)

\* planner_calc_sd_length(): the lines the blocks stand for.
PlannedLines ==
  LET sum[i \in 0 .. Len(hostBlocks)] == IF i = 0 THEN 0 ELSE sum[i - 1] + hostBlocks[i].len
  IN  sum[Len(hostBlocks)]

\* save_print_file_state() of a host print.
ResumeLine == gcode_LastN - (PlannedLines % LINES_MOD) - Len(hostQueue)

\* A crash, or ThermalStop(): the print is saved, the queues are emptied.
SaveHostPrint ==
  /\ hostSaved = "no" /\ hostNext > 1 /\ hostSaves < HostSaves /\ hostSaves' = hostSaves + 1
  /\ hostSaved' \in {"crash", "thermal"} /\ Stopped' = (hostSaved' = "thermal")
  /\ saved_sdpos' = ResumeLine
  /\ hostQueue' = <<>> /\ hostBlocks' = <<>>
  /\ UNCHANGED <<hostSide, wire, replies, gcode_LastN, hostDone, hostFaults>>

\* restore_print_file_state() as it would be after a pause that stays stopped.
RestoreStopped ==
  /\ hostSaved # "no" /\ hostSaved' = "no" /\ UNCHANGED Stopped
  /\ gcode_LastN' = saved_sdpos
  /\ FlushSerialRequestResend(saved_sdpos, wire)
  /\ UNCHANGED <<hostSide, hostQueue, hostBlocks, saved_sdpos, hostDone, hostCount>>

\* lcd_resume_print(), or the commands behind a crash: restore_print_file_state().
RestoreHostPrint ==
  /\ hostSaved # "no" /\ hostSaved' = "no" /\ Stopped' = FALSE
  /\ gcode_LastN' = saved_sdpos
  /\ FlushSerialRequestResend(saved_sdpos, wire)
  /\ UNCHANGED <<hostSide, hostQueue, hostBlocks, saved_sdpos, hostDone, hostCount>>

HostNextStep == \/ HostSend \/ HostReads \/ HostTimeout \/ GetLine \/ ProcessLine \/ FinishBlock
                \/ SaveHostPrint \/ RestoreHostPrint
HostSpec ==
  /\ HostInit /\ [][HostNextStep]_hostVars
  /\ WF_hostVars(HostSend) /\ WF_hostVars(HostReads) /\ WF_hostVars(HostTimeout)
  /\ WF_hostVars(GetLine) /\ WF_hostVars(ProcessLine) /\ WF_hostVars(FinishBlock)
  /\ WF_hostVars(RestoreHostPrint)

-----------------------------------------------------------------------------
HostTypeOK ==
  /\ hostNext \in 0 .. HostLines + 1 /\ hostWaiting \in BOOLEAN
  /\ \A i \in DOMAIN wire : wire[i].n \in 0 .. HostLines /\ wire[i].ok \in BOOLEAN
  /\ \A i \in DOMAIN replies : replies[i].t \in {"ok", "resend"}
  /\ gcode_LastN \in 0 .. HostLines /\ hostSaved \in {"no", "crash", "thermal"}
  /\ Stopped \in BOOLEAN /\ saved_sdpos \in 0 .. HostLines

\* The moves are made once each and in order, and no command is left out,
\* whatever was lost, garbled, late, asked for twice or saved in between.
ExactlyOnceInOrder ==
  /\ \A i \in DOMAIN moved :
       /\ moved[i] \in HostMoves
       /\ {n \in HostMoves : n < moved[i]} = {moved[j] : j \in 1 .. i - 1}
  /\ \A n \in commanded \union ToSet(moved) : \A k \in 1 .. n - 1 : k \notin HostMoves => k \in commanded

\* Why: the lines that are done, planned and queued follow one another.
\* The last line that has been processed, and the first that is not done.
HostProcessed == IF hostSaved = "no" THEN gcode_LastN - Len(hostQueue) ELSE saved_sdpos
HostResume == IF hostBlocks = <<>> THEN HostProcessed + 1 ELSE hostBlocks[1].line
\* The line behind those a block stands for.
BlockEnd(i) == IF i < Len(hostBlocks) THEN hostBlocks[i + 1].line ELSE HostProcessed + 1

HostShape ==
  /\ gcode_LastN \in Nat /\ saved_sdpos \in Nat /\ HostProcessed \in Nat
  /\ hostQueue \in Seq(Nat) /\ hostBlocks \in Seq([line : Nat, len : Nat])
  /\ moved \in Seq(Nat) /\ commanded \subseteq Nat /\ hostSaved \in {"no", "crash", "thermal"}
QueueFollows == \A i \in DOMAIN hostQueue : hostQueue[i] = gcode_LastN - Len(hostQueue) + i
BlocksFollow ==
  \A i \in DOMAIN hostBlocks :
    /\ hostBlocks[i].line \in HostMoves /\ hostBlocks[i].line <= HostProcessed
    /\ hostBlocks[i].len > 0
    /\ hostBlocks[i].line + hostBlocks[i].len = BlockEnd(i)
    /\ \A n \in HostMoves : ~(hostBlocks[i].line < n /\ n < BlockEnd(i))
SavedIsEmpty ==
  /\ hostSaved # "no" => hostQueue = <<>> /\ hostBlocks = <<>>
  /\ hostSaved = "thermal" => Stopped
DoneBefore ==
  /\ ToSet(moved) = {n \in HostMoves : n < HostResume}
  /\ \A k \in 1 .. HostProcessed : k \notin HostMoves => k \in commanded
HostInv ==
  HostShape /\ QueueFollows /\ BlocksFollow /\ SavedIsEmpty /\ DoneBefore /\ ExactlyOnceInOrder

\* A print that has begun ends, and the host is not left waiting for an "ok"
\* that was dropped with the queue.
HostPrintEnds ==
  hostNext > 1 ~> Len(moved) + Cardinality(commanded) = HostLines /\ ~hostWaiting
=============================================================================
