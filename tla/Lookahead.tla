------------------------------ MODULE Lookahead ------------------------------
(***************************************************************************)
(* planner.cpp, planner.h: how plan_buffer_line() and                      *)
(* planner_recalculate() give the queued blocks their entry and exit       *)
(* speeds while the stepper interrupt takes and discards blocks.  All      *)
(* speeds are squares, so that a block of distance d and acceleration a    *)
(* changes its speed by at most gain = 2ad.  Geometry, the choice of the   *)
(* junction speed from the jerk limits, the least step rate and linear     *)
(* advance are left out.                                                   *)
(*                                                                         *)
(* window is the queue, with the blocks in front of it that were discarded *)
(* since planner_recalculate() copied block_buffer_tail; block_buffer_tail *)
(* is an index into window.                                                *)
(***************************************************************************)
EXTENDS Integers, Sequences, SequencesExt

CONSTANTS QueueSize,     \* blocks the queue holds: BLOCK_BUFFER_SIZE - 1
          Moves,         \* [nominal, safe, gain] of the moves
          SafeMax,       \* what the jerk limits let a move end at
          JunctionSpeeds \* and what they may allow at a junction

ASSUME LookaheadAssumption ==
  /\ QueueSize \in Nat \ {0} /\ JunctionSpeeds \subseteq Nat \ {0} /\ SafeMax \in Nat
  /\ \A move \in Moves : /\ move.nominal \in Nat /\ move.safe \in Nat /\ move.gain \in Nat
                         /\ 0 < move.safe /\ move.safe <= move.nominal /\ move.safe <= SafeMax
                         /\ 0 < move.gain

VARIABLES window, block_buffer_tail,
          busy,             \* the block at the tail is being executed
          planning,         \* where the main program is in plan_buffer_line()
          moves_queued,     \* its copy of the length of the queue
          from,             \* index of the forward pass of planner_recalculate()
          previous,         \* [nominal, safe] of the previous move
          planner_aborted
lookaheadVars == <<window, block_buffer_tail, busy, planning, moves_queued, from,
                   previous, planner_aborted>>

Least(a, b) == IF a < b THEN a ELSE b
Greatest(a, b) == IF a > b THEN a ELSE b
QueueFrom(b) == SubSeq(window, b, Len(window))
Queued == QueueFrom(block_buffer_tail)
AtRest == [nominal |-> 0, safe |-> 0]

LookaheadInit ==
  /\ window = <<>> /\ block_buffer_tail = 1 /\ busy = FALSE
  /\ planning = "no" /\ moves_queued = 0 /\ from = 0
  /\ previous = AtRest /\ planner_aborted = FALSE

-----------------------------------------------------------------------------
(* plan_buffer_line().                                                     *)

\* There is room: the length of the queue is read long before it is used.
PlanLine ==
  /\ planning = "no" /\ ~planner_aborted /\ Len(Queued) < QueueSize
  /\ planning' = "line" /\ moves_queued' = Len(Queued)
  /\ UNCHANGED <<window, block_buffer_tail, busy, from, previous, planner_aborted>>

\* max_allowable_entry_speed()
Allowable(gain, speed) == speed + gain

\* The junction with the previous move at speed v is worth it.
Coasts(move, v) ==
  /\ moves_queued > 1 /\ previous.nominal > 0
  /\ v <= Least(previous.nominal, move.nominal)
  /\ ~(previous.safe >= v /\ move.safe >= v)

\* EntrySpeed without the limit of the distance.
EntryUnlimited(move, vmax) == vmax

EntrySpeed(move, vmax) == Least(vmax, Allowable(move.gain, move.safe))

\* calculate_trapezoid_for_block(): not while the interrupt runs the block.
Trapezoid(block, exit, running) ==
  IF running THEN block
  ELSE [block EXCEPT !.initial = Least(block.entry, block.nominal),
                     !.final = Least(exit, block.nominal)]

NewBlock(move, vmax, halt) ==
  LET entry == EntrySpeed(move, vmax)
  IN Trapezoid([nominal |-> move.nominal, safe |-> move.safe, gain |-> move.gain,
                max_entry |-> vmax, entry |-> entry, full_halt |-> halt,
                nominal_length |-> move.nominal <= Allowable(move.gain, move.safe),
                recalculate |-> TRUE, initial |-> 0, final |-> 0], move.safe, FALSE)

\* From the speeds of the new block to block_buffer_head = next_buffer_head.
Publish ==
  /\ planning = "line"
  /\ \E move \in Moves, v \in JunctionSpeeds \union {0} :
       /\ IF Coasts(move, v) THEN TRUE ELSE v = 0
       /\ previous' = [nominal |-> move.nominal, safe |-> move.safe]
       /\ IF planner_aborted
          THEN planning' = "no" /\ UNCHANGED window
          ELSE /\ planning' = "recalculate"
               /\ window' = Append(window, NewBlock(move, IF v = 0 THEN move.safe ELSE v, v = 0))
  /\ moves_queued' = 0
  /\ UNCHANGED <<block_buffer_tail, busy, from, planner_aborted>>

-----------------------------------------------------------------------------
(* planner_recalculate().                                                  *)

\* Raised without BLOCK_FLAG_RECALCULATE.
RaisedUnflagged(block, next) ==
  IF block.entry = block.max_entry THEN block
  ELSE [block EXCEPT
          !.entry = IF block.nominal_length \/ block.max_entry <= next.entry
                    THEN block.max_entry
                    ELSE Least(block.max_entry, Allowable(block.gain, next.entry))]

Raised(block, next) ==
  IF block.entry = block.max_entry THEN block
  ELSE [block EXCEPT
          !.entry = IF block.nominal_length \/ block.max_entry <= next.entry
                    THEN block.max_entry
                    ELSE Least(block.max_entry, Allowable(block.gain, next.entry)),
          !.recalculate = TRUE]

\* Where the reverse pass stops: at the last block
\* that starts from a halt, or at the tail.  The newest block is not looked at.
StopsAt(w) ==
  LET halts == {b \in 2 .. Len(w) - 1 : w[b].full_halt}
  IN IF halts = {} THEN 1 ELSE CHOOSE b \in halts : \A c \in halts : c <= b

\* The entry speeds after the reverse pass, from the last block backwards.
ReversePass(w, stop) ==
  LET pass[b \in 1 .. Len(w)] ==
        IF stop < b /\ b < Len(w) THEN Raised(w[b], pass[b + 1]) ELSE w[b]
  IN pass

\* The copy of the tail and the reverse pass, which writes nothing that the
\* interrupt reads.
StartRecalculate ==
  /\ planning = "recalculate"
  /\ LET stop == StopsAt(Queued)
     IN /\ window' = ReversePass(Queued, stop)
        /\ IF Queued # <<>> THEN planning' = "forward" /\ from' = stop
                            ELSE planning' = "no" /\ from' = 0
  /\ block_buffer_tail' = 1
  /\ UNCHANGED <<busy, moves_queued, previous, planner_aborted>>

\* The block is being executed, or already was.
TakenBlock(b) == b < block_buffer_tail \/ (b = block_buffer_tail /\ busy)

\* One round of the forward pass: the block at from and its successor.
Forward ==
  /\ planning = "forward" /\ from < Len(window)
  /\ LET prev    == window[from]
         current == window[from + 1]
         reached == Least(current.entry, Allowable(prev.gain, prev.entry))
         limited == IF ~prev.nominal_length /\ reached < current.entry
                    THEN [current EXCEPT !.entry = reached, !.recalculate = TRUE]
                    ELSE current
         planned == IF prev.recalculate \/ limited.recalculate
                    THEN [Trapezoid(prev, limited.entry, TakenBlock(from)) EXCEPT !.recalculate = FALSE]
                    ELSE prev
     IN window' = [window EXCEPT ![from] = planned, ![from + 1] = limited]
  /\ from' = from + 1
  /\ UNCHANGED <<block_buffer_tail, busy, planning, moves_queued, previous, planner_aborted>>

\* The newest block always ends at its safe speed.
LastTrapezoid ==
  /\ planning = "forward" /\ from = Len(window)
  /\ window' = LET w == [window EXCEPT ![from] =
                           [Trapezoid(window[from], window[from].safe, TakenBlock(from))
                              EXCEPT !.recalculate = FALSE]]
               IN SubSeq(w, block_buffer_tail, Len(w))
  /\ block_buffer_tail' = 1 /\ planning' = "no" /\ from' = 0
  /\ UNCHANGED <<busy, moves_queued, previous, planner_aborted>>

-----------------------------------------------------------------------------
(* The stepper interrupt.                                                  *)

\* plan_get_current_block()
TakeBlock ==
  /\ Queued # <<>> /\ ~busy
  /\ busy' = TRUE
  /\ UNCHANGED <<window, block_buffer_tail, planning, moves_queued, from, previous, planner_aborted>>

\* plan_discard_current_block(); the forward pass still reads the block.
DiscardBlock ==
  /\ busy /\ busy' = FALSE
  /\ IF planning = "forward"
     THEN block_buffer_tail' = block_buffer_tail + 1 /\ UNCHANGED window
     ELSE window' = Tail(window) /\ UNCHANGED block_buffer_tail
  /\ UNCHANGED <<planning, moves_queued, from, previous, planner_aborted>>

\* planner_abort_hard(): a crash, or stopping.
AbortHard ==
  /\ ~planner_aborted /\ planner_aborted' = TRUE
  /\ busy' = FALSE /\ previous' = AtRest
  /\ IF planning = "forward"
     THEN block_buffer_tail' = Len(window) + 1 /\ UNCHANGED window
     ELSE window' = <<>> /\ UNCHANGED block_buffer_tail
  /\ UNCHANGED <<planning, moves_queued, from>>

\* loop() clears planner_aborted when the aborted command has returned.
ResetAborted ==
  /\ planner_aborted /\ planning = "no" /\ planner_aborted' = FALSE
  /\ UNCHANGED <<window, block_buffer_tail, busy, planning, moves_queued, from, previous>>

LookaheadNext ==
  \/ PlanLine \/ Publish \/ StartRecalculate \/ Forward \/ LastTrapezoid
  \/ TakeBlock \/ DiscardBlock \/ AbortHard \/ ResetAborted

LookaheadSpec == LookaheadInit /\ [][LookaheadNext]_lookaheadVars

-----------------------------------------------------------------------------
LookaheadTypeOK ==
  /\ Len(window) <= QueueSize
  /\ block_buffer_tail \in 1 .. Len(window) + 1
  /\ busy \in BOOLEAN /\ busy => block_buffer_tail <= Len(window)
  /\ planning \in {"no", "line", "recalculate", "forward"}
  /\ from \in 0 .. Len(window) + 1 /\ moves_queued \in 0 .. QueueSize
  /\ \A b \in 1 .. Len(window) : LET x == window[b] IN
       x.entry <= x.max_entry /\ x.max_entry <= x.nominal

\* The speed the stepper really has at the end of a block.
ExitSpeed(block) ==
  IF block.final >= block.initial THEN Least(block.final, Allowable(block.gain, block.initial))
  ELSE Greatest(block.final, block.initial - block.gain)

\* Whenever no more moves come, the machine can halt after the newest block:
\* it ends at its safe speed, also while planner_recalculate() is under way
\* and wherever the interrupt took a block from it.
EndsSafe == Queued # <<>> => ExitSpeed(window[Len(window)]) <= window[Len(window)].safe

\* Between two calls of plan_buffer_line(), a queued block that is not being
\* executed is to end at the speed its successor starts with, or at its own
\* nominal speed if that is lower; if it is too short to brake to it, it ends
\* faster by no more than the jerk limits allow.
JunctionsMeet ==
  planning = "no" =>
    \A b \in block_buffer_tail .. Len(window) - 1 :
      ~TakenBlock(b) => /\ window[b].final = Least(window[b + 1].initial, window[b].nominal)
                        /\ ExitSpeed(window[b]) <= window[b].final + SafeMax

\* Why.  The blocks are what plan_buffer_line() makes of the moves.
PlannedBlocks ==
  [nominal : Nat, safe : Nat, gain : Nat, max_entry : Nat, entry : Nat, full_halt : BOOLEAN,
   nominal_length : BOOLEAN, recalculate : BOOLEAN, initial : Nat, final : Nat]
BlocksOK(w) ==
  /\ w \in Seq(PlannedBlocks)
  /\ \A b \in 1 .. Len(w) :
       /\ w[b].entry <= w[b].max_entry /\ w[b].max_entry <= w[b].nominal
       /\ w[b].safe <= w[b].nominal /\ w[b].safe <= SafeMax
       /\ w[b].nominal_length => w[b].nominal <= w[b].safe + w[b].gain
LastSafe(w) ==
  w # <<>> => /\ w[Len(w)].final = w[Len(w)].safe
              /\ w[Len(w)].initial <= w[Len(w)].safe + w[Len(w)].gain
              /\ w[Len(w)].entry <= w[Len(w)].safe + w[Len(w)].gain
\* The entry speeds are possible with the newest block ending at SafeMax; p is
\* what can be braked off in front of a block.
BrakesWith(w, p) ==
  /\ \A b \in 1 .. Len(w) : p[b + 1] = p[b] + w[b].gain
  /\ \A b, c \in 1 .. Len(w) + 1 : b < c => p[b] <= p[c]
  /\ \A b \in 1 .. Len(w) : w[b].entry + p[b] <= SafeMax + p[Len(w) + 1]
  /\ \A b, c \in 1 .. Len(w) : b < c => w[b].entry + p[b] <= SafeMax + w[c].entry + p[c]
Brakes(w) == \E p \in [1 .. Len(w) + 1 -> Int] : BrakesWith(w, p)
\* Blocks without BLOCK_FLAG_RECALCULATE are final, unless they are executed.
Finished(b) ==
  \/ planning \in {"no", "line"}
  \/ planning = "recalculate" /\ b < Len(window)
  \/ planning = "forward" /\ b < from
FlagsOK ==
  /\ \A b \in 1 .. Len(window) : Finished(b) => ~window[b].recalculate
  /\ \A b \in 1 .. Len(window) :
       ~TakenBlock(b) /\ ~window[b].recalculate => window[b].initial = window[b].entry
  /\ \A b \in 1 .. Len(window) - 1 :
       /\ ~TakenBlock(b) /\ ~window[b].recalculate
       /\ ~window[b + 1].recalculate \/ (planning = "forward" /\ b < from)
       => window[b].final = Least(window[b + 1].entry, window[b].nominal)
PlanningOK ==
  /\ planning \in {"no", "line", "recalculate", "forward"} /\ busy \in BOOLEAN
  /\ block_buffer_tail \in 1 .. Len(window) + 1 /\ (busy => block_buffer_tail <= Len(window))
  /\ IF planning = "forward" THEN from \in 1 .. Len(window)
     ELSE block_buffer_tail = 1 /\ from = 0
  /\ Len(window) <= QueueSize /\ (planning = "line" => Len(window) < QueueSize)
  /\ moves_queued \in 0 .. QueueSize /\ previous \in [nominal : Nat, safe : Nat]
LookaheadInv == PlanningOK /\ BlocksOK(window) /\ LastSafe(window) /\ Brakes(window) /\ FlagsOK
=============================================================================
