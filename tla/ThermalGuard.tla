---------------------------- MODULE ThermalGuard ----------------------------
(***************************************************************************)
(* temperature.cpp: the interrupt temp_mgr_isr() looks for errors, switches*)
(* the heaters off and latches the error; manage_heater(), called wherever *)
(* the main loop waits, shares the targets with the interrupt and pauses   *)
(* or stops the print (ThermalStop() in Marlin_main.cpp).  The interrupt   *)
(* may come anywhere except in updateTemperatures(), and more than once    *)
(* between two calls of manage_heater().  Temperatures are off or on; the  *)
(* print is one from the SD card.  `errorTargets' and `pausedByError' are  *)
(* ghosts.                                                                 *)
(***************************************************************************)
EXTENDS Integers

CONSTANT StartsUnacknowledged \* prints may be started while Stopped

ASSUME ThermalAssumption == StartsUnacknowledged \in BOOLEAN

VARIABLES condition,       \* what the sensors show: "none", "max", "min" or "model"
          temp_error_state,
          temp_meas_ready,
          targets, isrTargets, \* heaters switched on: target_temperature...(_isr)
          powered,         \* heaters with soft_pwm # 0
          savedTargets,    \* saved_extruder_temperature, saved_bed_temperature
          handling,        \* where manage_heater() is
          thermalStopped,  \* Stopped
          menuBlocked,
          thermalPrint,    \* "none", "printing", "paused" (saved in RAM) or "left" (still
                           \* saved after lcd_print_stop_finish())
          thermalStopping, \* lcd_print_stop_finish() has still to come, for a print that was
                           \* "running", "paused" or "idle", or "unloading" in it, or "no"
          thermalResume,   \* where lcd_resume_print() is
          errorTargets, pausedByError
thermalSensor == <<condition, temp_error_state, temp_meas_ready>>
thermalHeat   == <<targets, isrTargets, powered>>
thermalMain   == <<handling, thermalStopped, menuBlocked>>
thermalFlow   == <<thermalPrint, thermalStopping, thermalResume>>
thermalGhosts == <<errorTargets, pausedByError>>
thermalVars   == <<thermalSensor, thermalHeat, savedTargets, thermalMain, thermalFlow, thermalGhosts>>

Heaters == {"hotend", "bed"}
NoError == [error |-> FALSE, assert |-> FALSE, type |-> "none"]

\* disable_heater()
DisableHeater == targets' = {} /\ isrTargets' = {} /\ powered' = {}

ThermalInit ==
  /\ condition = "none" /\ temp_error_state = NoError /\ temp_meas_ready = FALSE
  /\ targets = {} /\ isrTargets = {} /\ powered = {} /\ savedTargets = {}
  /\ handling = "loop" /\ thermalStopped = FALSE /\ menuBlocked = FALSE
  /\ thermalPrint = "none" /\ thermalStopping = "no" /\ thermalResume = "no"
  /\ errorTargets = {} /\ pausedByError = FALSE

-----------------------------------------------------------------------------
(* The interrupt.                                                          *)

ConditionChanges ==
  /\ condition' \in {"none", "max", "min", "model"} \ {condition}
  /\ UNCHANGED <<temp_error_state, temp_meas_ready, thermalHeat, savedTargets, thermalMain,
                 thermalFlow, thermalGhosts>>

\* check_min_temp_raw() only looks at a heater that is on.
Found == condition # "none" /\ (condition = "min" => isrTargets # {})

\* The types in order of decreasing priority.
Priority(type) == CASE type = "max" -> 0 [] type = "min" -> 1 [] type = "model" -> 2 [] OTHER -> 3

\* saved_printing
ThermalSaved == thermalPrint \in {"paused", "left"}

\* set_temp_error()
SetTempError(type) ==
  /\ savedTargets' = IF ~temp_error_state.error /\ ~ThermalSaved THEN targets ELSE savedTargets
  /\ errorTargets' = IF temp_error_state.error THEN errorTargets
                     ELSE IF ThermalSaved THEN savedTargets ELSE targets
  /\ DisableHeater
  /\ temp_error_state' =
       [error |-> TRUE, assert |-> TRUE,
        type  |-> IF Priority(type) < Priority(temp_error_state.type) THEN type
                  ELSE temp_error_state.type]

\* temp_mgr_isr(): measure, look for errors, regulate.
TempMgrIsr ==
  /\ temp_meas_ready' = TRUE
  /\ IF Found THEN SetTempError(condition)
     ELSE /\ temp_error_state' = [temp_error_state EXCEPT !.assert = FALSE]
          /\ powered' = isrTargets
          /\ UNCHANGED <<targets, isrTargets, savedTargets, errorTargets>>
  /\ UNCHANGED <<condition, thermalMain, thermalFlow, pausedByError>>

-----------------------------------------------------------------------------
(* manage_heater()                                                         *)

\* The targets for the interrupt as they would be without the test of errors.
SharedAlways == targets
\* The targets updateTemperatures() leaves to the interrupt.
SharedTargets == IF temp_error_state.error THEN isrTargets ELSE targets

UpdateTemperatures ==
  /\ handling = "loop" /\ temp_meas_ready /\ temp_meas_ready' = FALSE
  /\ isrTargets' = SharedTargets
  /\ handling' = "handle"
  /\ thermalResume' = IF thermalResume = "heating" THEN "waiting" ELSE thermalResume
  /\ UNCHANGED <<condition, temp_error_state, targets, powered, savedTargets, thermalStopped,
                 menuBlocked, thermalPrint, thermalStopping, thermalGhosts>>

\* The type of the error is read first ...
ReadErrorType ==
  /\ handling = "handle"
  /\ handling' = IF temp_error_state.error THEN temp_error_state.type ELSE "loop"
  /\ UNCHANGED <<thermalSensor, thermalHeat, savedTargets, thermalStopped, menuBlocked,
                 thermalFlow, thermalGhosts>>

\* Pausing as it would be without putting the temperatures back.
SavedAtPause == targets
\* lcd_pause_print() in ThermalStop() saves the targets, which are put back to
\* what set_temp_error() had saved.
SavedAtThermalPause == savedTargets

\* print_stop() with UnconditionalStop()
PrintStop ==
  /\ DisableHeater /\ thermalPrint' = "none" /\ thermalResume' = "no" /\ pausedByError' = FALSE
  /\ thermalStopping' = "idle"

\* printJobOngoing(): the timer of the job runs until lcd_print_stop_finish().
JobOngoing == thermalPrint = "printing" \/ (thermalPrint = "none" /\ thermalStopping = "running")

\* ThermalStop()
ThermalStop(allow_recovery) ==
  IF thermalStopped
  THEN UNCHANGED <<thermalHeat, savedTargets, thermalStopped, menuBlocked, thermalFlow, pausedByError>>
  ELSE /\ thermalStopped' = TRUE
       /\ menuBlocked' = (menuBlocked \/ ~allow_recovery)
       /\ IF allow_recovery /\ JobOngoing
          THEN /\ thermalPrint' = "paused" /\ pausedByError' = TRUE
               /\ savedTargets' = SavedAtThermalPause
               /\ UNCHANGED <<thermalHeat, thermalStopping, thermalResume>>
          ELSE PrintStop /\ UNCHANGED savedTargets

\* ... then handle_temp_error() looks whether it is still asserted: an error
\* of the model is about to be cleared if it is not, one of the minimum only
\* shown.
CallsThermalStop ==
  \/ handling = "max"
  \/ handling \in {"min", "model"} /\ temp_error_state.assert
HandleTempError ==
  /\ handling \in {"max", "min", "model"}
  /\ handling' = IF handling = "model" /\ ~temp_error_state.assert THEN "clear" ELSE "loop"
  /\ IF CallsThermalStop THEN ThermalStop(handling = "model")
     ELSE UNCHANGED <<thermalHeat, savedTargets, thermalStopped, menuBlocked, thermalFlow, pausedByError>>
  /\ UNCHANGED <<thermalSensor, errorTargets>>

\* Clearing as it would be if it kept the error of an idle printer.
KeepWhenIdle == IF thermalPrint = "none" THEN temp_error_state ELSE NoError
\* The state after an error of the model has been cleared.
Cleared == NoError

\* The error is cleared, and the bed is switched on again.
ClearModelError ==
  /\ handling = "clear" /\ handling' = "loop"
  /\ temp_error_state' = Cleared
  /\ targets' = IF "bed" \in targets THEN targets ELSE targets \union (savedTargets \ {"hotend"})
  /\ UNCHANGED <<condition, temp_meas_ready, isrTargets, powered, savedTargets, thermalStopped,
                 menuBlocked, thermalFlow, thermalGhosts>>

ManageHeater == UpdateTemperatures \/ ReadErrorType \/ HandleTempError \/ ClearModelError

-----------------------------------------------------------------------------
(* The menus and the print, between two calls of manage_heater().          *)

MenuOpen == handling = "loop" /\ thermalResume = "no" /\ ~menuBlocked

SetTargets ==
  /\ MenuOpen /\ targets' \in SUBSET Heaters
  /\ UNCHANGED <<thermalSensor, isrTargets, powered, savedTargets, thermalMain, thermalFlow,
                 thermalGhosts>>

\* A print is only offered without an error and another print, also one that
\* is being stopped, but whatever Stopped is.
StartSdPrint ==
  /\ MenuOpen /\ thermalPrint = "none" /\ thermalStopping = "no" /\ ~temp_error_state.error
  /\ thermalStopped => StartsUnacknowledged
  /\ thermalPrint' = "printing" /\ targets' = Heaters
  /\ UNCHANGED <<thermalSensor, isrTargets, powered, savedTargets, thermalMain, thermalStopping,
                 thermalResume, thermalGhosts>>

\* lcd_pause_print(): stop_and_save_print_to_ram(), then long_pause().
PauseByUser ==
  /\ MenuOpen /\ thermalPrint = "printing"
  /\ thermalPrint' = "paused" /\ savedTargets' = targets /\ targets' = targets \ {"hotend"}
  /\ UNCHANGED <<thermalSensor, isrTargets, powered, thermalMain, thermalStopping, thermalResume,
                 thermalGhosts>>

\* lcd_print_stop(), also the acknowledgement of an error without a print:
\* ConditionalStop() leaves the heaters on ...
StopByUser ==
  /\ MenuOpen /\ (thermalPrint \in {"printing", "paused"} \/ thermalStopped)
  /\ thermalPrint' = "none" /\ pausedByError' = FALSE /\ thermalStopped' = FALSE
  /\ thermalStopping' = CASE thermalPrint = "printing" -> "running"
                          [] thermalPrint = "paused" -> "paused"
                          [] OTHER -> IF thermalStopping = "no" THEN "idle" ELSE thermalStopping
  /\ UNCHANGED <<thermalSensor, thermalHeat, savedTargets, handling, menuBlocked, thermalResume,
                 errorTargets>>

\* ... lcd_print_stop_finish() heats once more for the unloading of the
\* filament of a paused print ...
StopUnloads ==
  /\ handling = "loop"
  /\ thermalStopping = "paused" \/ (thermalStopping = "running" /\ thermalPrint = "paused")
  /\ ~temp_error_state.error
  /\ targets' = (targets \ {"hotend"}) \union (savedTargets \ {"bed"})
  /\ thermalStopping' = "unloading"
  /\ UNCHANGED <<thermalSensor, isrTargets, powered, savedTargets, thermalMain, thermalPrint,
                 thermalResume, thermalGhosts>>

\* ... and switches them off.  What ThermalStop() has saved meanwhile stays.
StopFinish ==
  /\ handling = "loop" /\ thermalStopping # "no" /\ thermalStopping' = "no"
  /\ DisableHeater
  /\ thermalPrint' = IF thermalPrint = "paused" THEN "left" ELSE thermalPrint
  /\ pausedByError' = FALSE
  /\ UNCHANGED <<thermalSensor, savedTargets, thermalMain, thermalResume, errorTargets>>

PrintEnds ==
  /\ handling = "loop" /\ thermalPrint = "printing"
  /\ thermalPrint' = "none" /\ targets' = {}
  /\ UNCHANGED <<thermalSensor, isrTargets, powered, savedTargets, thermalMain, thermalStopping,
                 thermalResume, thermalGhosts>>

\* lcd_resume_print(): resume_print_checks(), and st_synchronize() ...  Of a
\* print that is not being stopped.
ResumeChecked ==
  /\ MenuOpen /\ thermalPrint = "paused" /\ thermalStopping = "no" /\ ~temp_error_state.error
  /\ thermalResume' = "synchronizing"
  /\ UNCHANGED <<thermalSensor, thermalHeat, savedTargets, thermalMain, thermalPrint,
                 thermalStopping, thermalGhosts>>

\* Stopped as it would be if it were kept until the restore is over.
StoppedKept == thermalStopped
\* What lcd_resume_print() makes of Stopped.
StoppedAtResume == FALSE

\* ... then the targets are restored and waited for; the bed only if its
\* temperature is another one ...
RestoreTargets ==
  /\ handling = "loop" /\ thermalResume = "synchronizing"
  /\ thermalStopped' = StoppedAtResume
  /\ \E bedThere \in BOOLEAN :
       targets' = IF bedThere THEN (targets \ {"hotend"}) \union (savedTargets \ {"bed"})
                              ELSE savedTargets
  /\ thermalResume' = "heating"
  /\ UNCHANGED <<thermalSensor, isrTargets, powered, savedTargets, handling, menuBlocked,
                 thermalPrint, thermalStopping, thermalGhosts>>

\* ... and the print goes on, after heaters and moves that are waited for.
RestoreEnds ==
  /\ handling = "loop" /\ thermalResume = "waiting" /\ thermalResume' = "no"
  /\ thermalPrint' = "printing" /\ pausedByError' = FALSE
  /\ UNCHANGED <<thermalSensor, thermalHeat, savedTargets, thermalMain, thermalStopping, errorTargets>>

ThermalNext ==
  \/ ConditionChanges \/ TempMgrIsr
  \/ UpdateTemperatures \/ ReadErrorType \/ HandleTempError \/ ClearModelError
  \/ SetTargets \/ StartSdPrint \/ PauseByUser \/ StopByUser \/ StopUnloads \/ StopFinish \/ PrintEnds
  \/ ResumeChecked \/ RestoreTargets \/ RestoreEnds
ThermalSpec ==
  /\ ThermalInit /\ [][ThermalNext]_thermalVars
  /\ WF_thermalVars(TempMgrIsr) /\ WF_thermalVars(ManageHeater)

-----------------------------------------------------------------------------
ThermalTypeOK ==
  /\ condition \in {"none", "max", "min", "model"}
  /\ temp_error_state \in [error : BOOLEAN, assert : BOOLEAN, type : {"none", "max", "min", "model"}]
  /\ temp_meas_ready \in BOOLEAN /\ thermalStopped \in BOOLEAN /\ menuBlocked \in BOOLEAN
  /\ targets \subseteq Heaters /\ isrTargets \subseteq Heaters /\ powered \subseteq Heaters
  /\ savedTargets \subseteq Heaters /\ errorTargets \subseteq Heaters
  /\ handling \in {"loop", "handle", "max", "min", "model", "clear"}
  /\ thermalPrint \in {"none", "printing", "paused", "left"} /\ pausedByError \in BOOLEAN
  /\ thermalStopping \in {"no", "running", "paused", "idle", "unloading"}
  /\ thermalResume \in {"no", "synchronizing", "heating", "waiting"}

\* "immediately disable all heaters [...] until all errors are cleared": no
\* heater has power while an error is latched, whatever targets the print,
\* the menus and a resume set in the meantime.
NoPowerOnError == temp_error_state.error => powered = {} /\ isrTargets = {}

\* A print that an error has paused is saved with the targets it had when the
\* error was found, although the heaters were off when it was paused.
ThermalPauseKeepsTargets == pausedByError => savedTargets = errorTargets

\* ThermalStop() "either pauses (for thermal model errors) or stops": no print
\* goes on behind it.
ThermalStopStops ==
  [][handling # "loop" /\ CallsThermalStop /\ handling' = "loop" => thermalPrint' # "printing"]_thermalVars

\* The inductive invariant of the heaters and of the paused print: an asserted
\* error is a latched one, which has a type; while one is latched, a print whose
\* job goes on, or that is being resumed, has the targets of the error saved; a
\* resumed print is a paused one, and a print that is being stopped no other.
ThermalInv ==
  /\ ThermalTypeOK
  /\ temp_error_state.assert => temp_error_state.error
  /\ temp_error_state.error => temp_error_state.type # "none"
  /\ NoPowerOnError
  /\ thermalResume # "no" => thermalPrint = "paused"
  /\ thermalStopping # "no" => thermalPrint \notin {"printing", "left"} /\ thermalResume = "no"
  /\ temp_error_state.error /\ (JobOngoing \/ thermalResume # "no") => savedTargets = errorTargets
  /\ pausedByError => thermalPrint = "paused" /\ savedTargets = errorTargets

\* The inductive invariant of Stopped, for prints that are not started behind it.
StoppedInv ==
  /\ thermalStopped => thermalPrint # "printing"
  /\ thermalResume \in {"heating", "waiting"} => ~thermalStopped

\* An error of the model that has gone for ever is cleared, so that the print
\* it has paused can be resumed.
ModelErrorClears ==
  <>[](condition = "none") => <>[](temp_error_state.error => temp_error_state.type # "model")
=============================================================================
