# Prusa MK3 firmware: a verification project

The firmware runs on one 8-bit processor: a main loop and the interrupts of the
stepper, the temperatures, the serial ports and the power panic share the
command queue, the planner, the targets of the heaters and the state of the
print without a lock; a host and a multi-material unit talk to it over lines
that lose bytes. This directory holds TLA+ models of that, TLC runs on small
instances, and TLAPS proofs for all instances.

Everything is translated from `src/Firmware`; line numbers are in
`PROJECT.json` under `map`.

## 1. Inventory

| Component | State | Operations | Interacts with |
|---|---|---|---|
| Command queue (`cmdqueue.cpp`) | `cmdbuffer`, `bufindr`, `bufindw`, `buflen`, `cmdbuffer_front_already_processed`, `sdpos_atomic`, `stop_buffering`, serial line state | `get_command`, `enquecommand`, `enquecommand_front`, `repeatcommand_front`, `cmdqueue_pop_front`, `cmdqueue_reset`, `cmdqueue_calc_sd_length` | called by the main loop, by every function that waits, by menus, by the crash interrupt; read by the power panic |
| Main loop (`Marlin_main.cpp`) | `saved_printing`, `saved_printing_type`, `saved_sdpos`, `did_pause_print` (LCD), `Stopped` | `loop`, `process_commands`, `manage_inactivity`, `stop_and_save_print_to_ram`, `restore_print_from_ram_and_continue`, `crashdet_*`, `UnconditionalStop` | everything |
| Planner (`planner.cpp`) | `block_buffer`, head and tail, `planner_aborted`, `sdlen`, entry and exit speeds of each block | `plan_buffer_line`, `planner_recalculate`, `planner_abort_hard`, `planner_add_sd_length`, `planner_calc_sd_length` | filled by the main thread, emptied by the stepper interrupt, also amid a recalculation |
| Stepper interrupt (`stepper.cpp`) | `current_block`, step counters | `isr`, `st_synchronize`, `quickStop` | takes blocks; calls `tmc2130_st_isr` |
| Crash detection (`tmc2130.cpp`) | `tmc2130_sg_stop_on_crash`, `tmc2130_sg_crash` | `tmc2130_st_isr`, `crashdet_detected/recover/cancel` | stops and saves the print from an interrupt |
| Power panic (`power_panic.cpp`) | EEPROM record, `EEPROM_UVLO`, `EEPROM_UVLO_Z_LIFTED` | `uvlo_`, `uvlo_tiny`, `recover_print`, `restore_print_from_eeprom` | interrupts everything; spins until the supply is gone; the recovery is a list of queued commands |
| Pause, runout, resume (`ultralcd.cpp`, `Filament_sensor.cpp`) | `did_pause_print` | `lcd_pause_print`, `lcd_resume_print`, `print_stop`, `filRunout` | from menus and sensor polling inside any wait |
| SD card (`cardreader.cpp`) | position, open file, `sdprinting` | `getFilteredGcodeChar`, `setIndex`, `closefile`, `printingHasFinished` | read by `get_command` |
| Host print (`cmdqueue.cpp`, `Marlin_main.cpp`) | `gcode_N`, `gcode_LastN`, `Stopped`, `saved_sdpos` as a line number | `get_command`, `FlushSerialRequestResend`, `ClearToSend`, `save/restore_print_file_state` | the host, one line at a time |
| MMU2 protocol (`mmu2_protocol_logic.cpp`) | scope, state, planned request, running request, retries, drop-outs | `Step`, the steps of the scopes, `PlanGenericRequest` | serial line to the unit |
| MMU2 front end (`mmu2.cpp`) | `state`, `mmu_print_saved`, last error and button | `mmu_loop`, `manage_response`, tool change, load, unload, cut, read | polls the protocol while it waits; parks the head, cools the hotend |
| Fan check (`fancheck.cpp`) | `fan_speed_errors`, `fan_check_error` | `checkFanSpeed`, `fanSpeedError`, `lcd_resume_print` | pauses the print; a restore is refused |
| Thermal errors (`temperature.cpp`) | `temp_error_state`, targets on both sides of the interrupt | `temp_mgr_isr`, `manage_heater`, `ThermalStop` | pauses or stops the print, switches the heaters off |
| Stuck heater (`temperature.cpp`) | preheat and runaway counters | `temp_runaway_check` | stops for good |
| Bed PWM (`heatbed_pwm.cpp`) | `bedState`, slow and fast counters, cached power | the timer interrupt | `soft_pwm_bed` from the regulator |
| Serial port (`MarlinSerial.cpp`, `meatpack.cpp`) | receive ring, decoder state | `store_char`, `read`, `mp_handle_rx_char` | feeds `get_command` |
| Timers (`Timer.cpp`) | `m_started`, `m_isRunning` | `start`, `stop`, `expired`, `elapsed` | used everywhere |
| LCD, calibration, geometry, EEPROM layout, flash, drivers | | | not modelled: presentation, numerics, device I/O |

**What is hard.** A print can be interrupted at any instruction, and has to go
on at the right byte of the file. That byte is never stored; it is computed as
`sdpos_atomic` minus the 16-bit lengths of the blocks in the planner and of
the commands in the queue. Each length has to be in exactly one of them at
every instant an interrupt may come. Any function that waits runs
`manage_inactivity()` and `lcd_update()`, so reading the file, pausing,
resuming and a filament runout are nested inside the processing of a command.
Errors of fans and heaters are latched in one context and handled in another,
while menus and resumes change what they look at. Requests to the MMU and lines
of a host are lost, garbled, late or repeated, and what was done must not be
done again. The power may fail again during a recovery.

**What makes the parts correct.** *Print from the card*: the position is
neither too late (a line is lost) nor too early (a line is printed twice);
lines are processed in the order of the file; a saved print is quiet; a print
ends. *Host print*: each move once and in order. *Power panic*: the print goes
on with its line at its height, and homes clear of it. *MMU*: a response
belongs to its request, "finished" means done, the head and the hotend are as
they were, an error is retried or shown. *Fans and heaters*: no print and no
power with a latched error, and an error that is gone goes away. *Planner*: the
machine can always halt. *Queue, serial port, PWM, timers*: the bytes of the
ring stay readable, no character is lost, the duty and the periods are exact
across every wrap.

## 2. Modules

| Module | What it is |
|---|---|
| `FilePrint` | the abstract specification: a cursor `next` of what is processed, a cursor `done` of what is executed, and `state` |
| `PrintFlow` | the firmware: file, queue, planner, main thread, stepper interrupt, power panic, and the properties |
| `PrintFlowInv` | the inductive invariant `Inv`, and `Core`, its part that survives a crash |
| `PrintFlowRefinement` | the refinement mapping from `PrintFlow` to `FilePrint` |
| `PrintFlowCrash` | `PrintFlow` with crash detection enabled |
| `MMUProtocol` | `ProtocolLogic` as a record and its methods as operators |
| `MMU2` | the front end, the line and the unit, with faults: the state machine over `MMUProtocol` |
| `CmdBuffer` | the bytes of the ring of commands |
| `HostPrint` | a print from a host: line numbers, resends, saving and restoring |
| `PowerPanic` | the power panic, the recovery, and failures during the recovery |
| `FanCheck` | failing fans against a print that is paused and resumed |
| `ThermalGuard` | thermal errors between the interrupt, `manage_heater()` and the print |
| `HeaterRunaway` | the check for a heater that does not get warm or stay so |
| `HeatbedPwm` | the automaton of the bed's PWM |
| `SerialRx` | the receive ring and the MeatPack decoder |
| `Lookahead` | speeds of the planner's blocks while they are executed |
| `Timer` | a timer over a clock that wraps |
| `MCPrintFlow`, `MCPrintFlowCrash`, `MCMMU2` | constants for TLC |
| `MCUnits` | the ten parts from `CmdBuffer` to `Timer`, each on its own: a behaviour runs one of them (`Only(name)`), so that their states add up and do not multiply |
| `PrintFlow_proofs` | proofs about `PrintFlow` and `PrintFlowCrash`: lemmas on the operators, one or more lemmas per action, the theorems |
| `PrintFlowRefinement_proofs` | the refinement of `FilePrint`, step by step |
| `MMU2_proofs` | one message on the line, the head and the hotend as they were: a lemma per method of the protocol and per action of the front end and the unit |
| `Guards_proofs` | proofs about `ThermalGuard`, `FanCheck`, `HeatbedPwm`, `HeaterRunaway`, `Timer` and `PowerPanic` |
| `Serial_proofs` | proofs about `HostPrint`, `SerialRx` and `CmdBuffer` |
| `Lookahead_proofs` | proofs about `Lookahead` |
| `Units_proofs` | the types of the ten parts of `MCUnits` together |
| `Induction` | the least number of a set, induction up and down, for the sums and loops of the models |

### The print from the card: state

`cmds` is the content of `cmdbuffer` from `bufindr` on, one record per command:
its type, its `len` (the two bytes behind the type) and, as ghosts, the
stretch `from`..`to` of the file it stands for. `buflen` is a variable of its
own because it is stored at another time than `bufindr`: for a few
instructions they disagree. `blocks` is `block_buffer` from tail to head.
`pc`, `ret`, `back`, `line` and `segs` say where the main thread is;
`save`, `by`, `idx` and `acc` are the locals of `save_print_file_state()` and of
the two loops it calls. `moved` and `reached` are ghosts: no guard reads them.

The file is a set of offsets: `LineEnd`, the lines without a command (`Blank`)
and the lines ended by `#` (`Hash`).

### The print from the card: actions

The main thread is cut where an interrupt can see a difference; what runs
between `cli()` and `sei()` is one action.

| `pc` | in the code | action |
|---|---|---|
| `loop` | top of `loop()`: clear `planner_aborted`, enter `get_command()` | `LoopTop`, `GetEnter` |
| `get` | the `while` of `get_command()`, one line at a time | `GetLine`, `GetBlankLine`, `GetReturn`, `GetEndOfFile` |
| `commit` | the `cli()` section that publishes the line | `CommitLine` |
| `finish` | `printingHasFinished()` waits in `st_synchronize()` | `PrintingHasFinished` |
| `top` | `if(buflen)` | `LoopDispatch` |
| `proc` | inside `process_commands()` | `PlanPrepare`, `GetWhileWaiting`, `RepeatAfterHoming`, `ProcessM601`, `CommandDone` |
| `prep` | `plan_buffer_line()` fills in the block | `PlanPublish` |
| `hand`, `handover` | the release check, the `cli()` section with `planner_add_sd_length()` | `ReleaseCheck`, `HandOver` |
| `pop`, `pop2` | `--buflen`, then the walk of `bufindr` | `PopCount`, `PopAdvance` |
| `front` | `enquecommand_front()` between moving `bufindr` and `++buflen` | `EnqueueFrontCommit` |
| `m601` | M601 has removed itself, and pauses | `PauseAfterM601` |
| `restore`, `m600` | `restore_print_from_ram_and_continue()`, then M600 to the front | `RestoreMove`, `RestoreFinish`, `EnqueueM600` |
| `idle` | the rest of `loop()` | `LoopEnd` |

`Pause`, `FilamentRunout`, `Resume` and `CancelPrint` happen where the main
thread polls the menu or the sensor (`Waits`); a cancel also while a restore
waits for its moves, or of a print that a crash has stopped (`PrintStop` is
`print_stop()`). `StartSave`, `SavePlanner` and
`SaveCmdqueue` are `save_print_file_state()` with its two loops, one iteration
per step; nothing else runs meanwhile, since interrupts are off. Only then does
`StopPrint` abort the planner and reset the queue. `PowerFail` may come at any
point with `save = "off"`, and nothing follows it but `PowerDown`.

In `PrintFlowCrash` the stepper interrupt runs the same `StartSave` and
`StopPrint` at any point of the main thread, which goes on where it was.
`EnqueueCrash`, `ProcessCrashDetected`, `ProcessCrashRecover` and
`ProcessCrashCancel` follow. The first two go through `Enqueue`, the test for
room of `enquecommand()`: in a full buffer the command may be dropped, and its
caller does not learn of it (whether it fits depends on its length, which the
model does not have). Three ghosts: `torn` records that the queue was reset between two
stores to its indices, and from then on the model says nothing (`Torn` is its
only step); `refused`, that a command has been dropped since the stop; `readOn`,
that the stop came in the middle of `get_command()`, which then fills the
buffer with lines of the stopped print.

### The print from the card: abstractions

* A command plans up to `MAX_SEGMENTS` blocks and may wait at any point; which
  G-code it is does not matter, except for G80, M600, M601 and the crash
  commands.
* One command of type UI stands for the one to three commands that
  `stop_and_save_print_to_ram()` queues (M83, retraction, lift), and one block
  for the up to three moves back. Commands entered by a host behave as UI
  commands while a file is printed: they carry no byte of it.
* The bytes of `cmdbuffer` are abstracted to `QUEUE_MAX` commands: whether
  another one fits depends on their lengths.
* The resumption inside a multi-segment command (`saved_segment_idx`) is left
  out: a line counts as not executed until its last block is.

### The multi-material unit

`mmu.logic` is the `ProtocolLogic` object: `scope` and `st` are its two states,
`rq` the running command, `planned` the request that waits for its turn. Each
method is an operator on it, `ret` the `StepStatus` it returns and `out` what it
has written to the line. `Step` is one call of it: it reads a response only when
one is expected. The front end polls it once in each turn of the main loop:
`PollFree` when nobody waits, `PollWait` inside `manage_response()`, which parks
the head, cools the hotend, and ends by "Finished" or "Interrupted". `todo`
holds the commands that are left of an operation; `VerifyFails` lengthens it as
`ToolChangeCommonOnce()` does. `hot` and `parked` are where the hotend and the
head really are; `unfinished`, a ghost, is set when `manage_response()` leaves a
command that has not finished.

The unit (`unit`) does one command at a time and answers what it is asked.
Faults are chosen by `Scenarios`: lost requests or responses, garbled
responses, an answer later than its timeout, errors, restarts, the death of the
unit, its button, filament that slips and a changing filament sensor. A turn
of the main loop is one step, whatever it calls; time is the age of the last
activity on the line, with the two limits the code compares it to.

### The ten other parts

* **CmdBuffer.** `cmdbuffer` holds one cell per byte: 0, a type, a character, or
  a byte of a line that has not been received to its end. The room tests,
  pushes and pops work on the bytes as the code does; `queue` is a ghost, the
  commands the program believes to have queued. `RESERVE_FRONT` is the room
  that `could_enqueue_back` keeps free.
* **HostPrint.** The host sends a line when it has its "ok", the wire keeps the
  order and may lose or garble; a resend drops what has arrived, not what is on
  its way. A command is handled in one step. `FinishBlock` is the stepper.
* **PowerPanic.** A layer per line, heights as small integers, `nozzle` the real
  one; the EEPROM and the commands queued by the recovery are variables, and
  the power may fail before, during and after each. A move of Z may be found
  half way.
* **FanCheck.** `BeginResume`, `RestoreSaved`, `RestoreMoves` and `RestoreDone` cut
  `lcd_resume_print()` where the fans are checked while it waits.
* **ThermalGuard.** `manage_heater()` is cut between its reads and writes of
  what the interrupt shares: `UpdateTemperatures`, `ReadErrorType`,
  `HandleTempError`, `ClearModelError`. `TempMgrIsr` may come in between.
  Temperatures are on or off. Stopping a print has two parts: `StopByUser`
  (`ConditionalStop()`, which leaves the heaters on) or `PrintStop`
  (`UnconditionalStop()`), and in a later turn of the main loop
  `lcd_print_stop_finish()`, which may heat to unload the filament (`StopUnloads`) and
  then switches the heaters off (`StopFinish`). A print is not resumed while it is being stopped.
* **HeaterRunaway.** One check per two seconds, with any temperature in between.
* **HeatbedPwm.** Each state of the automaton is an action; the regulator and the
  disabling are actions of the main loop. The two counters keep their width.
* **SerialRx.** `StoreChar` is the interrupt, which drops a byte for which the
  ring has no room; `EnterGet` the call of `get_command()`, which empties a ring it
  finds full (`Flushed`), `ReadByte` one round of its loop, `LeaveGet` its end; bytes
  are pairs of halves. `filled`, a ghost, says that the ring has been full: from then
  on characters are lost, and the host of the model sends no more. What lost
  characters do to numbered lines is in `HostPrint`.
* **Lookahead.** Speeds are squares, so that a block changes its speed by at most
  `gain`. `planner_recalculate()` is cut where the interrupt sees its writes:
  `StartRecalculate` (copy of the tail and reverse pass), `Forward` (one block),
  `LastTrapezoid`. `TakeBlock` and `DiscardBlock` are the interrupt.
* **Timer.** Sums in a type of `TimerW` values; `timerAge` and `timerGap` are ghosts.

## 3. Runs

| Run | Question | Result |
|---|---|---|
| `safety` | every event, at every point: types, right resume position, order, quiet when saved, and does the pipeline implement `FilePrint`? | holds, 2.8 million states |
| `live` | does a print end, does a runout resume? | holds under `FairSpec` |
| `crash_safety` | is the position right when the crash interrupt saves, is the crash followed by a recovery or the end of the print? | holds, but for a command that is dropped when the crash came in the middle of `get_command()` |
| `mmu` | in seven environments: one question at a time, "finished" means done, a read returns its register, head and hotend as they were, operations end, errors and a dead unit are not hidden | holds, 144 000 states |
| `units` | the properties of the ten parts (below) | holds, 740 000 states |
| `window` | the comment at `Marlin_main.cpp:1880`, "Now it is safe to release..." | violated |
| `finish` | the comment at `cmdqueue.cpp:653`, "...after peforming all remaining moves" | violated |
| `crash_moves` | the comment at `Marlin_main.cpp:10900`, "Immediately stop print moves" | violated |
| `mmu_parked` | the comment at `mmu2.cpp:328`, "if the extruder has been parked, it will get unparked once the ToolChange command finishes OK" | violated |
| `mmu_lost` | the comment at `mmu2_protocol_logic.cpp:327`, "Returning Finished is not a good idea..." | violated |
| `panic_mesh` | the comment at `power_panic.cpp:108`, "Store the print logical Z position, which we need to recover" | violated |
| `thermal_unacked` | the comment at `Marlin_main.cpp:9848`, "This either pauses [...] or stops" | violated |

| Property of `units` | Says |
|---|---|
| `QueueReadable` | following the zeros from `bufindr` visits exactly the queued commands |
| `ExactlyOnceInOrder`, `HostPrintEnds` | the moves of a host print are made once each and in order; it ends |
| `ResumesAtLine`, `HomesClear`, `NozzleAtPrint` | after any number of power failures the print goes on with its line, at its height, having homed clear of it |
| `NoPrintWithFanError`, `FanErrorClears` | a print does not run with a reported fan error, except one reported during the restore; the error goes away with its cause |
| `NoPowerOnError`, `ThermalPauseKeepsTargets`, `ThermalStopStops`, `ModelErrorClears` | no power with a latched error; the targets of a paused print survive; the print stops; the error clears |
| `StuckHeaterReported` | a driven heater that gets no warmer is reported |
| `DutyExact`, `BedGoesOff` | the bed is on for the share asked for, and goes off |
| `TextArrives` | the lines get exactly the characters that were sent, as long as the receive ring has not been full |
| `EndsSafe`, `JunctionsMeet` | the machine can halt after the newest block; blocks are planned to meet at one speed, and miss it by no more than the jerk limits allow |
| `ExactAcrossWrap` | timers are exact across the wrap: they expire neither early nor late |

**The seven divergences.**
1. `window`: `cmdqueue_pop_front()` decrements `buflen` at `cmdqueue.cpp:61`
   and moves `bufindr` some lines later. A power failure in between sums
   `buflen` commands starting at the released one, so the last line in the
   queue is not counted and is skipped on recovery.
2. `finish`: pausing from the menu while `printingHasFinished()` waits aborts
   the last moves, the wait ends because the planner is empty, and the print
   is declared finished.
3. `crash_moves`: `get_command()` tests `card.sdprinting` only on entry, so
   the line being read when the crash comes enters the queue and moves.
4. `mmu_parked`: the unit restarts while an error of a tool change has the head
   parked. `ToolChangeCommonOnce()` unloads and starts again; the
   `manage_response()` of the unload has forgotten that the head is parked
   (`mmu2.cpp:772`), and the print goes on from where the head stands.
5. `mmu_lost`: the request of a command is lost, the communication restarts
   after the timeout, and the first idle cycle returns Finished, which
   `manage_response()` takes for the end of the command.
6. `panic_mesh`: `uvlo_()` takes the mesh offset off a height that is logical
   already when the print was paused; the recovered print is too low by it.
7. `thermal_unacked`: `ThermalStop()` returns at once while `Stopped` is set; a
   print started without acknowledging an earlier stop goes on, cold.

`NoLineSkipped` and `NoMoveRepeated` exclude the two windows (`Window`) and
`InFlight >= SDLEN_MOD`: the first is what `window` refutes, the second is the
assumption the 16-bit lengths rest on.

`NozzleAtPrint` holds in `units` where `PausedWithMesh = FALSE` keeps divergence 6
out; `ThermalStopStops` where `StartsUnacknowledged = FALSE` keeps divergence 7
out; `QueueReadable` where `UiWhileReceiving = FALSE` keeps a menu from
enqueueing while a line is being received (`cmdqueue.cpp:172` says that the
received data should be moved, which is not done): with `TRUE`, TLC finds the ring
unreadable. `OperationRestores` excepts the operations with a command that
`manage_response()` left unfinished: divergence 4.

`FinishedMeansDone`, `ReadReturnsRegister` and `ErrorIsHandled` are promises about a
line that fails in some ways only; that is why they are checked in chosen
environments and not proved for all. TLC refutes `FinishedMeansDone` when the
*request of a command* is lost (divergence 5), and also with an error and a lost
response together, or an error and several restarts, for the same reason: a
recovered line returns Finished. `ReadReturnsRegister` falls as soon as the messages
of a read are lost. `ErrorIsHandled` falls with errors and restarts together, where a
command the unit rejects is repeated for ever (`mmu2_protocol_logic.cpp:817`).

**Late answers of the unit.** There is no number in a response that would tell
which request it answers. In the environment with a late answer the run checks
that commands are done, operations end and the head and the hotend are as they
were; `OneOutstanding` leaves it out (`LateAnswers`), and nothing is read there, for TLC
refutes it and `ReadReturnsRegister`. With two late answers `FinishedMeansDone` falls too,
by divergence 5: the rejection of a command is dropped unread at the restart.

**Further differences met while modelling**, which no run singles out:

* *MMU.* The answer to a button while the protocol waits to restart is taken
  for "Finished" (`mmu2_protocol_logic.cpp:299`); a register is returned
  although the answer was garbled (`mmu2.cpp:163`, against `mmu2.h:88`); after
  "Disable" an operation that waits never returns (`mmu2.cpp:786`, against
  `mmu2.h:116`); a rejected command is sent again for ever
  (`mmu2_protocol_logic.cpp:817`); the hotend that was let cool over an unload
  that is broken off stays cold; a planned request is overwritten by the button of an
  automatic retry (`mmu2_protocol_logic.cpp:620`), where
  `mmu2_protocol_logic.h:341` says "that should not happen"; a read whose answer is
  lost returns the value of an older answer as its register (`mmu2.cpp:162`).
* *Fans.* A failure while a restore heats up leaves the print running with a
  reported error (`NoPrintWithFanError` excepts it); a restore refused at
  `Marlin_main.cpp:11024` leaves the print saved with the pause gone; the
  `uint8_t` counters wrap.
* *Power panic.* Z counts as lifted when the lift is queued, before it is made
  (`power_panic.cpp:343`); a print that is lost between
  `Marlin_main.cpp:4185` and its M24 is not offered again; a line of a host with a
  `G` clears `EEPROM_UVLO` and not `EEPROM_UVLO_Z_LIFTED` (`cmdqueue.cpp:487`).
* *Host.* Commands of menus and lines without a number are counted when the
  resume line is computed, so that lines are made twice (`Marlin_main.cpp:10742`);
  a line is counted before its number is stored (`cmdqueue.cpp:526`); the
  USB timer makes the print's type NONE. The run has numbered lines only.
* *Queue.* The crash interrupt may reset the queue while `cmdqueue_pop_front()` is
  between its stores to `buflen` and `bufindr` (`cmdqueue.cpp:61`), which then walks
  through an empty ring: `torn` in `PrintFlowCrash` says when. When it comes in the
  middle of the `get_command()` at the end of `loop()`, that call goes on to fill the
  emptied buffer with lines of the file; `loop()` then clears `tmc2130_sg_crash`
  (`Marlin_main.cpp:1898`) and enqueues CRASH_DETECTED into the full buffer, which drops
  it (`cmdqueue.cpp:282`). The lines are printed, and then the print stays
  stopped: nothing resumes it but the user's cancel. `CrashNotForgotten` names this case
  (`refused /\ readOn`); without the disjunct TLC finds it in thirty steps. A power
  failure while `enquecommand_front()` is between moving `bufindr` and `++buflen`
  (`cmdqueue.cpp:324`) miscounts as divergence 1 does. It may also come
  between the test of a command's type and `cli()` (`Marlin_main.cpp:1845`); the
  model hands over in one step. A command of a menu is written over the characters of
  a line that is being received (`cmdqueue.cpp:285`), and a `cmdqueue_reset()` amid such
  a line sets `bufindw` to 0 and leaves its characters behind (`cmdqueue.cpp:105`).
* *Thermal.* An error that comes between the test and the clearing at
  `temperature.cpp:1552` is cleared and found again; an error shorter than the
  latency of the main loop leaves the target 0 and the print running; the end
  of a minimum temperature error never calls `ThermalStop()`; a pause by the
  user between the interrupt and `manage_heater()` saves targets of 0.
* *Stuck heater.* A new target does not reset the preheat errors; a heater that
  oscillates is never reported, so `StuckHeaterReported` is about one that stays.
* *Planner.* When the interrupt holds a block, its exit is not raised while the
  entry of its successor is: a jump of the speed the comment at `planner.cpp:290`
  rules out (`JunctionsMeet` leaves out the block being executed). `moves_queued`,
  read at `planner.cpp:959`, may be stale at `:1120`: a block then starts from rest
  at its junction speed; `EndsSafe` holds all the same. The reverse pass skips
  the blocks that are at their highest entry speed (`planner.cpp:392`) and the
  first one, though the block behind may have been slowed down for a move that
  may only end slowly: the block in front is then planned to end at a speed it
  is too short to brake to, where `planner.cpp:330` says "all blocks have an
  entry_factor that will allow all speed changes". `JunctionsMeet` bounds what is
  missed: the square of the speed by no more than `SafeMax`, the highest square
  the jerk limits let a block end at. Its earlier form, without the term, failed
  to be proved, and TLC found why.
**Bounds.** The file has four lines of unequal length, the second a comment,
one ended by `#`. `QUEUE_MAX = 3` and `BLOCK_BUFFER_SIZE = 3` (two usable
slots) let both rings be empty, half full and full, with a file that does not
fit; `BUFSIZE = 4` is the firmware's. The file of the crash runs has five lines, as many as
it takes to fill the buffer again after a crash, so that a command is really dropped. `MAX_SEGMENTS = 2` gives commands with
no, one and several blocks, so the head block of a line can be executed before
its length is handed over. `SDLEN_MOD = 65536` is the firmware's. `Events`
selects events of the environment; nothing bounds how often they occur.
`live` uses a planner with one usable slot, the hardest case for progress. No
symmetry is used: offsets are ordered.

`mmu`: one register to read after a query of each kind and one to write (the
loops over them have a first and a last round), two version retries, two
automatic retries, a drop-out filter of three; up to two or three faults in a
behaviour, so that a fault may hit the recovery from the first one. `mmu_parked`
needs four: errors until the retries are spent, and a restart. Its
`TypeOK` includes that no drop-out is counted beyond the filter.

`units`: 8 levels of the PWM with edges of 2 (the counter wraps, the duty is
below, at and above the width of an edge); timers of 8 values with period 3;
a ring of 2 x 4 + 5 bytes, in which commands of one and two characters wrap, meet its
end exactly and leave gaps; two fans with 2 errors to report, and counters that
wrap at 5; two lines to print, three different lifts, so that heights tell
which one was made; three lines of a host of which two move, queue, planner
and line of two, one fault and two saves (`LINES_MOD = 256` is the planner's
count of lines in a `uint8_t`); a receive ring of 4 bytes (three fit); temperatures to 4
with targets 2 and 4; four blocks with a long and a short move, of which the short
one reaches its speed and may end faster (`SafeMax = 3`), and a junction speed
below the long one's and not above the short one's, so that blocks are skipped
by the reverse pass and miss their junction. Units stop by themselves (a host print ends, the
stepper has nothing to do), so deadlock is not checked in the runs of `MCUnits`.

**Fairness.** `WF(Main)`: `loop()` never stops and every wait polls.
`WF(Saving)`: a section with interrupts disabled ends. `WF(StepperDone)`: the
timer interrupt keeps executing blocks. `SF(CommandDone)`: a command that waits
for a temperature or for moves ends, however often it is entered for reading
more of the file in between. Nothing is assumed of the user, so
`PrintCompletes` is excused once the print is saved or the file closed, and
`RunoutResumes` once it is paused. Weak fairness of the power supply is
not assumed either. Deadlock is checked in the runs of the print and the unit;
the spin at the end of `uvlo_()` is the step `PowerDown`.

`mmu`: `LoopRuns`, the main loop polls again and again (weak fairness of a poll that
would change something); time passes; a unit with power answers and finishes
what it does; nothing is assumed of faults, buttons and users. `units`: the timer
interrupt (`BedIsr`), the temperature interrupt and `manage_heater()`, the five
second check of the fans and the two second check of the heaters are all
periodic; a host that has its "ok" sends, one that waits gives up after its
timeout, and a print that is saved is restored (`HostPrintEnds` is about prints
the user resumes).

**Mutants.** The operators named "... as it would be if" are plausible bugs of
the operator below them, one for each property; they are not part of `Next`.

## 4. Proofs

Proved by TLAPS for every value of the constants that the named assumptions
allow: every file, every size of both rings, every number of segments, blocks,
heaters, fans, PWM levels, registers, retries, lines and layers, and every order
of events. The assumptions stand with the constants (`FileAssumption`,
`SizeAssumption`, `TimerAssumption`, `ThermalAssumption`, `FanAssumption`, `PwmAssumption`,
`RunawayAssumption`, `PanicAssumption`, `CountAssumption`, `EnvironmentAssumption`,
`HostAssumption`, `CmdBufferAssumption`, `LookaheadAssumption`, `RxAssumption`,
`UnitsAssumption`) and hold for the firmware's values; TLC evaluates them in the runs.

| Module | Theorem | Statement |
|---|---|---|
| `PrintFlow_proofs` | `Invariance` | `Spec => []Inv` |
| | `TypeCorrect` | `Spec => []TypeOK` |
| | `QueueLengthAgrees` | `Spec => []BuflenAgrees` |
| | `NothingSkipped` | `Spec => []NoLineSkipped` |
| | `NothingRepeated` | `Spec => []NoMoveRepeated` |
| | `SavedIsQuiet` | `Spec => []SavedMeansQuiet` |
| | `NothingLost` | `Spec /\ [](InFlight < SDLEN_MOD) => []NoGap` |
| | `CrashSkipsNothing` | `SpecCrash => []NoLineSkipped`, if `"m601" \notin Events` |
| | `CrashRemembered` | `SpecCrash => []CrashNotForgotten`, if `Events \cap {"m601", "ui"} = {}` and `QUEUE_MAX >= 2` |
| `PrintFlowRefinement_proofs` | `FilePrintImplemented` | `Spec /\ [](InFlight < SDLEN_MOD) => ImplementsFilePrint` |
| `MMU2_proofs` | `MMUTyped`, `OneQuestion` | `Spec => []TypeOK`, `Spec => []OneOutstanding` |
| | `HeadAndHotendRestored` | `Spec => []OperationRestores` |
| `Guards_proofs` | `ThermalTyped`, `HeatersStayOff`, `PauseKeepsTargets` | `ThermalSpec => []ThermalTypeOK`, `[]NoPowerOnError`, `[]ThermalPauseKeepsTargets` |
| | `ThermalStopLeavesNoPrint` | `ThermalSpec => ThermalStopStops`, if `~StartsUnacknowledged` |
| | `FanTyped`, `FanErrorPauses` | `FanSpec => []FanTypeOK`, `[]NoPrintWithFanError` |
| | `PwmTyped`, `BedDutyExact` | `PwmSpec => []PwmTypeOK`, `[]DutyExact` |
| | `RunawayTyped` | `RunawaySpec => []RunawayTypeOK` |
| | `TimerTyped`, `TimerExact` | `TimerSpec => []TimerTypeOK`, `[]ExactAcrossWrap` |
| | `ResumesWithItsLine` | `PanicSpec => []ResumesAtLine` |
| | `HomesAboveThePrint`, `GoesOnAtItsHeight`, `PanicTyped` | `PanicSpec => []HomesClear`, `[]NozzleAtPrint`, `[]PanicTypeOK`, if `~PausedWithMesh` |
| `Serial_proofs` | `HostLinesOnce`, `HostTyped` | `HostSpec /\ [](PlannedLines < LINES_MOD) => []ExactlyOnceInOrder`, `[]HostTypeOK` |
| | `CharactersArrive`, `SerialTyped` | `RxSpec => []TextArrives`, `[]RxTypeOK` |
| | `QueueFound`, `CommandsTyped` | `CmdSpec => []QueueReadable`, `[]CmdTypeOK`, if `~UiWhileReceiving` |
| `Lookahead_proofs` | `LookaheadTyped`, `NewestEndsSafe`, `SpeedsMeet` | `LookaheadSpec => []LookaheadTypeOK`, `[]EndsSafe`, `[]JunctionsMeet` |
| `Units_proofs` | `UnitsTyped` | `UnitsSpec /\ [](PlannedLines < LINES_MOD) => []UnitsTypeOK`, if `~PausedWithMesh` and `~UiWhileReceiving` |

**Hypotheses.** `[](InFlight < SDLEN_MOD)` and `[](PlannedLines < LINES_MOD)` say that
the 16-bit length of a block and its 8-bit count of lines do not wrap: the
code takes both for granted. Comments of 64 kB, or 256 lines that move nothing
between two that do, break it. `~PausedWithMesh` and `~StartsUnacknowledged` keep out
the two cases that `panic_mesh` and `thermal_unacked` refute, `~UiWhileReceiving` the menu
that enqueues while a line is being received. `"m601" \notin Events`
keeps a file with M601 out of the crash model, as its runs do: an M601 that was being read
when the crash came takes itself out of the queue of a print that is already saved.
`"ui" \notin Events` in `CrashRemembered`: a menu that fills the buffer of a stopped print
with commands of its own may take the room of the crash command as well.

None of the properties is inductive. Each theorem rests on an inductive
invariant that says why the property holds, and that TLC checked on the
instance of a run before it was proved.

**`Inv`, the print from the card.** `NoLineSkipped` speaks
about the result of a loop over data that other steps have built, so `Inv`
has to say what that data is: the queue and the planner together hold one
contiguous stretch of the file (`QueueChain`, `BlockChain`), and each stored
length is the length of its stretch, truncated (`QueueBytes`). A block's length
is exact if its stretch is shorter than `SDLEN_MOD`. `Summed` is the loop
invariant of the two loops: after `idx` commands, `acc` is the distance from
the first one. As the loops telescope, their result is
`sdpos_atomic - ResumePoint`, without induction over the queue. `Control`
says who may stand at the head of the queue at which `pc`; `Processed` that a
command whose moves were aborted is never released in place of another one;
`BlockLines`, `Moved` and `MovedHere` tie the lines that have moved to the
blocks, so that an executed line lies before the resume point; `Quiet` and
`Saver` restrict what is found while a print is saved. What of it holds whoever stops
the print is `Core`; `NoLineSkipped` follows from that alone.

`NothingLost` needs `Reached` besides: the next line to be processed begins
where the last one that was not aborted ended. It is only true as long as no
save has computed a wrong position, so it rests on the assumption
`[](InFlight < SDLEN_MOD)`, and the temporal step carries it along.

**The crash.** `CrashInv`: a stopped print has its crash pending, or a command that
will resume or cancel it which is not on its way out of the queue (`Releasing`), or
that command has been refused. So `G80`'s
front command, the restore and a second crash may come at any point. It needs who may have
emptied the queue at which `pc` (`CrashControl`), and that the count of the queue
agrees outside of its two windows; a crash inside of them tears the queue (`torn`), and
nothing is said of it. `Counted` is why nothing is refused unless the crash came in the
middle of `get_command()`: nothing is read any more and no second crash is detected,
so that beside the retraction the queue holds one command of the detection, or
CRASH_DETECTED at its head while it queues the next one. It rests on `CrashFlow` for what the
main thread may still be doing, and on `QUEUE_MAX >= 2`.

After a crash the main thread goes on from the middle of any function, with a line in
flight that belongs to a print which has been stopped. It may still put that line
into the queue, so that most of `Quiet`, `Moved` and `Alone` is lost; `Core` is not.
`CrashFlow` adds to it who may be reading a line at which `pc` (`Flowing`), that a
position is only computed for a print that was running when the save began
(`CrashSaver`), and what remains of `Quiet` (`Stopped`): the lines that were left over
stand in front of the command that resumes the print, so that they are gone before it
runs, and a print that is resumed starts from an empty queue. `Disarmed` says that
the interrupt does not come again while it stops the print, or into a torn queue.

**The refinement.** `next` of `FilePrint` is `reached`, `done` the saved position
or the resume point. `RefinementInv` adds that every command of the file is one
line with a command behind lines without one (`FileLines`), that the lines are all
handed over when the end of the file is found (`EndOfFile`), and that a print
which has ended leaves nothing behind (`Ended`). Then each action of `PrintFlow`
is a step of `FilePrint` or a stutter; there is a lemma for each. The length that
`get_command()` computes, `CalcSdLength`, is a sum over the queue: an induction on its
length (`Induction!SetInduction`) shows that it telescopes.

**The temperatures.** `ThermalInv`: an asserted error is an error and has a type;
while an error lasts, the targets saved for a print whose job goes on or that is
being resumed are those it had when the error came, also if it is being stopped. `StoppedInv` says that a stop is never found with a print that runs.

**The fans.** `FanInv`: a print that runs is neither saved nor paused, and an error
that is reported behind the test in `lcd_resume_print()` is a late one. The job
timer belongs to it, for `fanSpeedError()` looks at it.

**The bed's PWM.** `PwmInv` says how much of the duty is settled after one, two and
three rises: the cache of the power is fresh after the first, the bed falls at
that power or a tick behind after the second, and the ghosts agree with the
counter after the third.

**The power panic.** `PanicFlowInv` gives the order of the commands of the recovery
and says that `EEPROM_UVLO` is pending exactly until the print is restored, with
the line in the EEPROM. `PanicHeightInv` says where the nozzle, the steppers and
the EEPROM believe to be in each stage. A panic in any stage starts from it again,
so any number of failures is covered.

**The stuck heater.** `RunawayInv`: a reported heater has neither a target nor an
output, so nothing is counted any more and no counter passes its limit.

**The MMU.** `Good(logic, n)`, with `n` messages on the line: at most one of them and
of those about to be written is on its way, and none when the protocol expects no
answer or gives up waiting. Each method of `ProtocolLogic` keeps it; `LineInv` adds
the records' types, from which the limits of the retries and drop-outs follow.

`RestoreInv` is about the head and the hotend, for every environment, late answers
and lost requests included. Unless a command has been left unfinished,
`manage_response()` remembers what it has changed (`Restorable`): a parked head is in
`mmu_print_saved`, so is a hotend that has cooled, and what cools may be heated
again. When nobody waits, nothing is changed any more (`Restored`). It has to be told
of every method of the protocol that it leaves the head alone (`SameHead`), and of
the front end that what it undoes it also forgets, and the other way round.

**The host.** `HostInv`: the commands in the queue are the lines up to `gcode_LastN`,
and the blocks cut the lines before them into stretches that each begin with a
move and have no other. So the count of lines that is taken off at a save
(`PlannedLines`, a sum, again by induction) leads back to the first line not done.
`HostBounds` is what the types need besides: a host that waits has sent a line, so
it can go back to it, and line 0 is never asked for.

**The ring of commands.** `QueueInv` lays the commands out at addresses that go at most
once around the ring: each begins where the one before it ended or behind a gap,
lies in one piece, has a type, a text without a zero, and zeros up to the next one
(`Chain`, `CommandAt`). `NextCommand` skips zeros, so an induction along the addresses
shows that it visits exactly those commands. An empty ring and a line that is being
received need more: room for a line of full length without a turn around the end
(`RoomAt`), for `cmdqueue_could_enqueue_back()` may not move `bufindw` any more. That is
why the menu has to be kept out while a line is received. The
zeros between two commands are terminators and what `cmdqueue_could_enqueue_back()`
and `_front()` clear at an end of the ring before they skip it.

**The receive ring.** `RxInv`: from the decoder's state, the bytes in the ring and on
the wire decode to exactly the text that is missing, and leave the decoder idle
in the host's mode. What a list of bytes decodes to would be a recursive
definition; `DecodedBy` says it with the sequence of states on the way
instead, to which each message of the host appends (`DecodesOneMore`) and from which the
reader takes the first (`DecodesFirst`). It holds until the ring has been full; a call that
finds less than a full ring leaves it alone, which is where the test of
`cmdqueue.cpp:365` matters. TLC checked it as a fold over the ring. That
the end of a line is alone in its byte is part of it: a call that returns behind it
forgets nothing.

**The planner.** `BlocksOK`, `LastSafe` and `FlagsOK` say what the blocks, the newest one
and the flags are at each point of the recalculation; `LastSafe` is what makes the
machine halt. `Brakes` is the reason for the bound in `JunctionsMeet`: there is a
potential that grows along the queue by what each block can brake off, and no
entry speed is higher above it than that of a later block by more than `SafeMax`.
It survives the skipped blocks, which "each block can brake to the next" does
not. That the reverse pass establishes it goes by induction from the newest block
down (`Induction!DownInduction`); the interrupt may take a block at any point of it.

**The timers.** `expired()` sees only the clock, the start and the due time,
each modulo the width. `ClockAgrees` in `TimerInv` says what the clock is in terms of the
time that really passed, and that the last call that did not expire came
before the period was over: with the gap between two calls its comment asks
for, the clock cannot come round to the start again.

**The ten parts together.** In `MCUnits` each step is a step of one part and a stutter
of the others (`UnitsStep`), so the invariants of the parts hold side by side
(`UnitsInv`), and with them the types of all.

**Induction.** The library's induction theorems take an operator as a
parameter, which the installed provers cannot instantiate. `Induction` states the same
for sets of numbers (a set that has 0 and every successor is all of `Nat`), from the
well-foundedness of the finite sets.

**Only model-checked.** Every liveness property (`PrintCompletes`, `RunoutResumes`,
`OperationEnds`, `DeadIsReported`, `ErrorIsHandled`, `BedGoesOff`, `FanErrorClears`, `HostPrintEnds`,
`ModelErrorClears`, `StuckHeaterReported`), for fairness is beyond the prover.
`FinishedMeansDone` and `ReadReturnsRegister`, which hold in environments that are
a choice of faults and of how many there are (section 3): a proof would be about
that choice. The types, all other invariants and all other action properties of
the runs are proved.

## 5. Plan

Done: the models, and the proofs above. What is left, in order:

1. `PowerPanic` composed with `PrintFlow`, so that the line of the EEPROM is the one
   that is computed; the hand-over cut at `Marlin_main.cpp:1845`.
2. `FilamentSensor` (debouncing, auto-load) and `SpoolJoin`.

### Not modelled

* In the parts above: the old unit's "ok" messages, ejecting, FINDA, the polls
  while a hotend reheats, progress messages; the time the residual power
  lasts, prints from a host in the recovery; M110, line errors and transmission
  of the serial ports, the removal of spaces by MeatPack; PID regulation and its autotune, the
  arithmetic of the thermal model; the geometry of moves, jerk limits, the
  least step rate and linear advance; step generation.
* Mesh bed leveling, calibration, arcs: sequential numerics over sensor
  values, without a state that outlives them but their result.
* LCD screens, menus and languages: presentation. What a menu does to a print is
  in the models of the print.
* EEPROM layout, external flash, bootloader, pins, fast I/O and drivers: tables
  and register access.
* The vendored SdFat and Catch2.

These make up most of the lines of `src`: the parts above are small next to the
screens, tables, calibration and vendored code around them.
