---------------------------- MODULE Guards_proofs ----------------------------
(***************************************************************************)
(* What guards a print, for every interleaving of the interrupts, the main *)
(* loop and the menus: the errors of the temperatures, the fans, the check *)
(* for stuck heaters, the output of the bed for every number of levels,    *)
(* the timers; and the recovery after a loss of power, for files of every  *)
(* length, every height of the mesh and every lift, however often the      *)
(* power fails.                                                            *)
(***************************************************************************)
EXTENDS ThermalGuard, FanCheck, HeatbedPwm, HeaterRunaway, Timer, PowerPanic, TLAPS

-----------------------------------------------------------------------------
(* ThermalGuard.                                                           *)

LEMMA ThermalInitInv == ThermalInit => ThermalInv
<1> SUFFICES ASSUME ThermalInit PROVE ThermalInv
  OBVIOUS
<1>1. ~temp_error_state.error /\ ~temp_error_state.assert
  BY Zenon DEF ThermalInit, NoError
<1>2. temp_error_state \in [error : BOOLEAN, assert : BOOLEAN, type : {"none", "max", "min", "model"}]
  BY DEF ThermalInit, NoError
<1>3. temp_meas_ready \in BOOLEAN /\ thermalStopped \in BOOLEAN /\ menuBlocked \in BOOLEAN
      /\ pausedByError \in BOOLEAN /\ ~pausedByError
  BY Zenon DEF ThermalInit
<1>4. QED
  BY <1>1, <1>2, <1>3 DEF ThermalInit, ThermalInv, ThermalTypeOK, NoPowerOnError, Heaters

LEMMA ThermalConditionStep == ThermalInv /\ ConditionChanges => ThermalInv'
BY DEF ThermalInv, ThermalTypeOK, NoPowerOnError, ConditionChanges, thermalHeat, thermalMain,
       thermalFlow, thermalGhosts, JobOngoing

\* set_temp_error() leaves no heater on, and the targets of the error in RAM
\* if a print runs.
LEMMA ThermalIsrStep == ThermalInv /\ TempMgrIsr => ThermalInv'
<1> SUFFICES ASSUME ThermalInv, TempMgrIsr PROVE ThermalInv'
  OBVIOUS
<1> USE DEF ThermalInv, ThermalTypeOK, NoPowerOnError
<1>1. CASE Found
  <2>1. temp_error_state' =
          [error |-> TRUE, assert |-> TRUE,
           type  |-> IF Priority(condition) < Priority(temp_error_state.type) THEN condition
                     ELSE temp_error_state.type]
    BY <1>1, Zenon DEF TempMgrIsr, SetTempError
  <2>2. /\ temp_error_state' \in [error : BOOLEAN, assert : BOOLEAN, type : {"none", "max", "min", "model"}]
        /\ temp_error_state'.error /\ temp_error_state'.type # "none"
    BY <1>1, <2>1 DEF Found, Priority
  <2>3. temp_meas_ready' \in BOOLEAN
    BY Zenon DEF TempMgrIsr
  <2>4. powered' = {} /\ isrTargets' = {} /\ targets' = {}
    BY <1>1 DEF TempMgrIsr, SetTempError, DisableHeater
  <2>5. /\ savedTargets' = IF ~temp_error_state.error /\ ~ThermalSaved THEN targets ELSE savedTargets
        /\ errorTargets' = IF temp_error_state.error THEN errorTargets
                          ELSE IF ThermalSaved THEN savedTargets ELSE targets
    <3>1. SetTempError(condition)
      BY <1>1, Zenon DEF TempMgrIsr
    <3>2. CASE temp_error_state.error
      BY <3>1, <3>2 DEF SetTempError
    <3>3. CASE ~temp_error_state.error /\ ThermalSaved
      BY <3>1, <3>3, Zenon DEF SetTempError
    <3>4. CASE ~temp_error_state.error /\ ~ThermalSaved
      BY <3>1, <3>4, Zenon DEF SetTempError
    <3>5. QED
      BY <3>2, <3>3, <3>4, Zenon
  <2>6. QED
    BY <2>2, <2>3, <2>4, <2>5 DEF TempMgrIsr, thermalMain, thermalFlow, JobOngoing, ThermalSaved
<1>2. CASE ~Found
  <2>1. temp_error_state' = [temp_error_state EXCEPT !.assert = FALSE]
    BY <1>2 DEF TempMgrIsr
  <2>2. /\ temp_error_state' \in [error : BOOLEAN, assert : BOOLEAN, type : {"none", "max", "min", "model"}]
        /\ temp_error_state'.error = temp_error_state.error /\ ~temp_error_state'.assert
    BY <2>1
  <2>3. temp_meas_ready' \in BOOLEAN
    BY Zenon DEF TempMgrIsr
  <2>4. QED
    BY <1>2, <2>2, <2>3 DEF TempMgrIsr, thermalMain, thermalFlow, JobOngoing
<1>3. QED
  BY <1>1, <1>2

LEMMA ThermalManageStep == ThermalInv /\ ManageHeater => ThermalInv'
<1> SUFFICES ASSUME ThermalInv, ManageHeater PROVE ThermalInv'
  OBVIOUS
<1> USE DEF ThermalInv, ThermalTypeOK, NoPowerOnError, thermalSensor, thermalHeat, thermalFlow,
            thermalGhosts
<1>1. CASE UpdateTemperatures
  <2>1. temp_meas_ready' \in BOOLEAN
    BY <1>1, Zenon DEF UpdateTemperatures
  <2>2. QED
    BY <1>1, <2>1 DEF UpdateTemperatures, SharedTargets, JobOngoing
<1>2. CASE ReadErrorType
  <2>1. handling' \in {"loop", "none", "max", "min", "model"}
    BY <1>2 DEF ReadErrorType
  <2>2. QED
    BY <1>2, <2>1 DEF ReadErrorType, JobOngoing
<1>3. CASE HandleTempError
  <2>1. handling' \in {"loop", "clear"}
    BY <1>3 DEF HandleTempError
  <2>2. CASE ~CallsThermalStop \/ thermalStopped
    BY <1>3, <2>1, <2>2 DEF HandleTempError, ThermalStop, JobOngoing
  <2>3. CASE CallsThermalStop /\ ~thermalStopped
    <3>1. CASE handling = "model" /\ JobOngoing
      BY <1>3, <2>1, <2>3, <3>1
         DEF HandleTempError, ThermalStop, CallsThermalStop, SavedAtThermalPause, JobOngoing
    <3>2. CASE ~(handling = "model" /\ JobOngoing)
      BY <1>3, <2>1, <2>3, <3>2 DEF HandleTempError, ThermalStop, PrintStop, DisableHeater, JobOngoing
    <3>3. QED
      BY <3>1, <3>2
  <2>4. QED
    BY <2>2, <2>3
<1>4. CASE ClearModelError
  BY <1>4 DEF ClearModelError, Cleared, NoError, JobOngoing
<1>5. QED
  BY <1>1, <1>2, <1>3, <1>4 DEF ManageHeater

MenuActions ==
  \/ SetTargets \/ StartSdPrint \/ PauseByUser \/ PrintEnds
  \/ StopByUser \/ StopUnloads \/ StopFinish
ResumeActions == ResumeChecked \/ RestoreTargets \/ RestoreEnds

LEMMA ThermalMenuStep == ThermalInv /\ (MenuActions \/ ResumeActions) => ThermalInv'
<1> SUFFICES ASSUME ThermalInv, MenuActions \/ ResumeActions PROVE ThermalInv'
  OBVIOUS
<1> USE DEF ThermalInv, ThermalTypeOK, NoPowerOnError, thermalSensor, thermalHeat, thermalMain,
            thermalFlow, thermalGhosts, MenuOpen, Heaters
<1>1. CASE SetTargets
  BY <1>1 DEF SetTargets, JobOngoing
<1>2. CASE StartSdPrint
  BY <1>2 DEF StartSdPrint, JobOngoing
<1>3. CASE PauseByUser
  BY <1>3 DEF PauseByUser, JobOngoing
<1>4. CASE StopByUser
  <2>1. /\ thermalStopped' \in BOOLEAN /\ pausedByError' \in BOOLEAN /\ ~pausedByError'
        /\ thermalPrint' = "none" /\ thermalResume' = "no" /\ savedTargets' = savedTargets
    BY <1>4, Zenon DEF StopByUser
  <2>2. /\ thermalStopping' \in {"no", "running", "paused", "idle", "unloading"}
        /\ thermalStopping' = "running" => thermalPrint = "printing" \/ thermalStopping = "running"
    BY <1>4 DEF StopByUser
  <2>3. CASE thermalStopping' = "running" /\ thermalPrint # "printing"
    <3>1. thermalPrint = "none"
      BY <1>4, <2>3 DEF StopByUser
    <3> QED
      BY <1>4, <2>1, <2>2, <2>3, <3>1 DEF StopByUser, JobOngoing
  <2>4. CASE ~(thermalStopping' = "running" /\ thermalPrint # "printing")
    BY <1>4, <2>1, <2>2, <2>4 DEF StopByUser, JobOngoing
  <2> QED
    BY <2>3, <2>4
<1>10. CASE StopUnloads
  BY <1>10 DEF StopUnloads, JobOngoing
<1>11. CASE StopFinish
  BY <1>11 DEF StopFinish, DisableHeater, JobOngoing
<1>5. CASE PrintEnds
  BY <1>5 DEF PrintEnds, JobOngoing
<1>6. CASE ResumeChecked
  BY <1>6 DEF ResumeChecked, JobOngoing
<1>7. CASE RestoreTargets
  BY <1>7 DEF RestoreTargets, StoppedAtResume, JobOngoing
<1>8. CASE RestoreEnds
  BY <1>8 DEF RestoreEnds, JobOngoing
<1>9. QED
  BY <1>1, <1>2, <1>3, <1>4, <1>5, <1>6, <1>7, <1>8, <1>10, <1>11 DEF MenuActions, ResumeActions

LEMMA ThermalStepInv == ThermalInv /\ [ThermalNext]_thermalVars => ThermalInv'
<1>1. ThermalInv /\ UNCHANGED thermalVars => ThermalInv'
  BY DEF ThermalInv, ThermalTypeOK, NoPowerOnError, thermalVars, thermalSensor, thermalHeat,
         thermalMain, thermalFlow, thermalGhosts, JobOngoing
<1>2. QED
  BY <1>1, ThermalConditionStep, ThermalIsrStep, ThermalManageStep, ThermalMenuStep
     DEF ThermalNext, ManageHeater, MenuActions, ResumeActions

LEMMA ThermalInvariant == ThermalSpec => []ThermalInv
BY ThermalInitInv, ThermalStepInv, PTL DEF ThermalSpec

\* The types of the temperature control.
THEOREM ThermalTyped == ThermalSpec => []ThermalTypeOK
BY ThermalInvariant, PTL DEF ThermalInv

\* While an error is latched no heater has power, wherever the interrupt came.
THEOREM HeatersStayOff == ThermalSpec => []NoPowerOnError
BY ThermalInvariant, PTL DEF ThermalInv

\* A print that an error has paused keeps the targets it had when the error
\* was found.
THEOREM PauseKeepsTargets == ThermalSpec => []ThermalPauseKeepsTargets
<1>1. ThermalInv => ThermalPauseKeepsTargets
  BY DEF ThermalInv, ThermalPauseKeepsTargets
<1>2. QED
  BY <1>1, ThermalInvariant, PTL

\* Stopped and a print that goes on exclude each other, if no print is started
\* while Stopped.
LEMMA StoppedStepInv ==
  ASSUME ~StartsUnacknowledged
  PROVE  ThermalInv /\ StoppedInv /\ [ThermalNext]_thermalVars => StoppedInv'
<1> SUFFICES ASSUME ThermalInv, StoppedInv, [ThermalNext]_thermalVars PROVE StoppedInv'
  OBVIOUS
<1> USE DEF StoppedInv, thermalHeat, thermalMain, thermalFlow
<1>1. CASE ConditionChanges \/ TempMgrIsr
  BY <1>1 DEF ConditionChanges, TempMgrIsr
<1>2. CASE UpdateTemperatures \/ ReadErrorType \/ ClearModelError
  BY <1>2 DEF UpdateTemperatures, ReadErrorType, ClearModelError
<1>3. CASE HandleTempError
  <2>1. CASE ~CallsThermalStop \/ thermalStopped
    BY <1>3, <2>1 DEF HandleTempError, ThermalStop
  <2>2. CASE CallsThermalStop /\ ~thermalStopped
    <3>1. CASE handling = "model" /\ JobOngoing
      BY <1>3, <2>2, <3>1 DEF HandleTempError, ThermalStop, ThermalInv, JobOngoing
    <3>2. CASE ~(handling = "model" /\ JobOngoing)
      BY <1>3, <2>2, <3>2 DEF HandleTempError, ThermalStop, PrintStop
    <3>3. QED
      BY <3>1, <3>2
  <2>3. QED
    BY <2>1, <2>2
<1>4. CASE SetTargets \/ PauseByUser \/ StopByUser \/ StopUnloads \/ StopFinish \/ PrintEnds
  BY <1>4 DEF SetTargets, PauseByUser, StopByUser, StopUnloads, StopFinish, PrintEnds, MenuOpen, ThermalInv
<1>5. CASE StartSdPrint
  BY <1>5 DEF StartSdPrint
<1>6. CASE ResumeChecked \/ RestoreTargets \/ RestoreEnds
  BY <1>6 DEF ResumeChecked, RestoreTargets, RestoreEnds, StoppedAtResume
<1>7. CASE UNCHANGED thermalVars
  BY <1>7 DEF thermalVars
<1>8. QED
  BY <1>1, <1>2, <1>3, <1>4, <1>5, <1>6, <1>7 DEF ThermalNext

\* ThermalStop() leaves no print that goes on, unless one was started while
\* Stopped: the hypothesis is what the menus do not see to.
THEOREM ThermalStopLeavesNoPrint ==
  ASSUME ~StartsUnacknowledged
  PROVE  ThermalSpec => ThermalStopStops
<1>1. ThermalInit => StoppedInv
  BY DEF ThermalInit, StoppedInv
<1>2. ThermalInv /\ StoppedInv /\ [ThermalNext]_thermalVars
        => [handling # "loop" /\ CallsThermalStop /\ handling' = "loop"
              => thermalPrint' # "printing"]_thermalVars
  <2> SUFFICES ASSUME ThermalInv, StoppedInv, ThermalNext,
                      handling # "loop", CallsThermalStop, handling' = "loop"
               PROVE  thermalPrint' # "printing"
    OBVIOUS
  <2>1. handling \in {"max", "min", "model"}
    BY DEF CallsThermalStop
  <2>2. ~ConditionChanges /\ ~TempMgrIsr
    BY DEF ConditionChanges, TempMgrIsr, thermalMain
  <2>3. ~UpdateTemperatures /\ ~ReadErrorType /\ ~ClearModelError
    BY <2>1 DEF UpdateTemperatures, ReadErrorType, ClearModelError
  <2>4. ~MenuActions /\ ~ResumeActions
    BY DEF MenuActions, ResumeActions, MenuOpen, SetTargets, StartSdPrint, PauseByUser,
           StopByUser, StopUnloads, StopFinish, PrintEnds, ResumeChecked, RestoreTargets, RestoreEnds
  <2>5. HandleTempError
    BY <2>2, <2>3, <2>4 DEF ThermalNext, MenuActions, ResumeActions
  <2>6. QED
    BY <2>5 DEF HandleTempError, ThermalStop, PrintStop, StoppedInv, ThermalInv, thermalFlow
<1>3. QED
  BY <1>1, <1>2, ThermalInvariant, StoppedStepInv, PTL DEF ThermalSpec, ThermalStopStops

-----------------------------------------------------------------------------
(* FanCheck.                                                               *)

\* The counters of the errors stay bytes.
LEMMA FanErrorsType ==
  ASSUME NEW errors \in [Fans -> 0 .. ErrorCounts - 1]
  PROVE  FanErrors(errors) \in [Fans -> 0 .. ErrorCounts - 1]
<1>1. ASSUME NEW f \in Fans PROVE (errors[f] + 1) % ErrorCounts \in 0 .. ErrorCounts - 1
  BY FanAssumption
<1>2. QED
  BY <1>1, FanAssumption DEF FanErrors

LEMMA FanInitInv == FanInit => FanInv
<1> SUFFICES ASSUME FanInit PROVE FanInv
  OBVIOUS
<1>1. fan_speed_errors \in [Fans -> 0 .. ErrorCounts - 1]
  BY FanAssumption DEF FanInit
<1>2. /\ fans_check_enabled \in BOOLEAN /\ eepromCheck \in BOOLEAN
      /\ sdprinting = FALSE /\ saved_printing \in BOOLEAN
      /\ did_pause_print = FALSE /\ lateError \in BOOLEAN
  BY Zenon DEF FanInit
<1>3. QED
  BY <1>1, <1>2 DEF FanInit, FanInv, FanTypeOK

\* What pausing a print that runs, or is resumed, keeps.
LEMMA PausePrintKeeps ==
  ASSUME FanInv, PausePrint, jobTimer # "stopped"
  PROVE  /\ ~sdprinting' /\ saved_printing' \in BOOLEAN /\ did_pause_print' \in BOOLEAN
         /\ sdprinting' \in BOOLEAN /\ jobTimer' = "paused"
<1>1. sdprinting' = (sdprinting /\ saved_printing) /\ saved_printing' = TRUE /\ did_pause_print' = TRUE
  BY Zenon DEF PausePrint
<1>2. ~(sdprinting /\ saved_printing)
  BY DEF FanInv
<1>3. ~sdprinting' /\ sdprinting' \in BOOLEAN /\ saved_printing' \in BOOLEAN /\ did_pause_print' \in BOOLEAN
  BY <1>1, <1>2, Zenon
<1>4. jobTimer' = "paused"
  BY DEF PausePrint, FanInv, FanTypeOK
<1>5. QED
  BY <1>3, <1>4

\* checkFanSpeed(), wherever the print is.
LEMMA CheckFanSpeedStep ==
  ASSUME FanInv, CheckFanSpeed
  PROVE  FanInv'
<1> DEFINE errors  == FanErrors(fan_speed_errors)
           failed  == {f \in Fans : errors[f] > MaxFanErrors}
           enabled == fans_check_enabled /\ eepromCheck
           reports == enabled /\ FanFixed(errors) = "OK" /\ failed # {}
<1>1. errors \in [Fans -> 0 .. ErrorCounts - 1]
  BY FanErrorsType DEF FanInv, FanTypeOK
<1>2. /\ fans_check_enabled' = enabled /\ fans_check_enabled' \in BOOLEAN
      /\ UNCHANGED <<eepromCheck, slow, resuming>>
  BY Zenon DEF CheckFanSpeed
<1>3. FanFixed(errors) \in {"OK", "REPORTED", "FIXED"} /\ (FanFixed(errors) = "REPORTED" => fan_check_error = "REPORTED")
  BY DEF FanFixed, FanInv, FanTypeOK
<1>4. CASE ~reports
  <2>1. fan_check_error' = FanFixed(errors) /\ fan_speed_errors' = errors /\ UNCHANGED <<fanPrint, lateError>>
    BY <1>4, Zenon DEF CheckFanSpeed
  <2>2. QED
    BY <1>1, <1>2, <1>3, <2>1 DEF FanInv, FanTypeOK, fanPrint
<1>5. CASE reports
  <2>1. /\ fan_check_error' = "REPORTED" /\ FanSpeedError
        /\ fan_speed_errors' = [f \in Fans |-> IF f \in failed THEN 0 ELSE errors[f]]
        /\ lateError' = (resuming \in {"heating", "moving"})
    BY <1>5, Zenon DEF CheckFanSpeed
  <2>2. fan_speed_errors' \in [Fans -> 0 .. ErrorCounts - 1]
    BY <1>1, <2>1, FanAssumption
  <2>3. lateError' \in BOOLEAN /\ (lateError' <=> resuming \in {"heating", "moving"})
    <3>1. (resuming \in {"heating", "moving"}) \in BOOLEAN
      BY SMT
    <3>2. lateError' \in BOOLEAN
      BY <2>1, <3>1, Zenon
    <3>3. QED
      BY <2>1, <3>2
  <2>4. CASE printJobOngoing /\ ~printingIsPaused
    <3>1. PausePrint /\ jobTimer # "stopped"
      BY <2>1, <2>4 DEF FanSpeedError, printJobOngoing, FanInv
    <3>2. QED
      BY <1>2, <2>1, <2>2, <2>3, <3>1, PausePrintKeeps DEF FanInv, FanTypeOK, PausePrint
  <2>5. CASE ~(printJobOngoing /\ ~printingIsPaused)
    <3>1. UNCHANGED fanPrint
      BY <2>1, <2>5 DEF FanSpeedError
    <3>2. ~sdprinting
      BY <2>5 DEF printJobOngoing, printingIsPaused, FanInv
    <3>3. QED
      BY <1>2, <2>1, <2>2, <2>3, <3>1, <3>2 DEF FanInv, FanTypeOK, fanPrint
  <2>6. QED
    BY <2>4, <2>5
<1>6. QED
  BY <1>4, <1>5

LEMMA FanStepInv == FanInv /\ [FanNext]_fanVars => FanInv'
<1> SUFFICES ASSUME FanInv, [FanNext]_fanVars PROVE FanInv'
  OBVIOUS
<1> USE DEF FanInv, FanTypeOK, fanSensors, fanPrint, printJobOngoing, printingIsPaused, printer_active
<1>1. CASE FanChanges
  BY <1>1 DEF FanChanges
<1>2. CASE CheckFanSpeed
  BY <1>2, CheckFanSpeedStep
<1>3. CASE StartPrint
  <2>1. sdprinting' \in BOOLEAN
    BY <1>3, Zenon DEF StartPrint
  <2>2. QED
    BY <1>3, <2>1 DEF StartPrint
<1>4. CASE PauseFromMenu
  <2>1. PausePrint /\ jobTimer # "stopped"
    BY <1>4 DEF PauseFromMenu
  <2>2. QED
    BY <1>4, <2>1, PausePrintKeeps DEF PauseFromMenu
<1>5. CASE EndPrint
  <2>1. /\ sdprinting' \in BOOLEAN /\ saved_printing' \in BOOLEAN /\ did_pause_print' \in BOOLEAN
        /\ ~sdprinting' /\ ~did_pause_print'
    BY <1>5, Zenon DEF EndPrint
  <2>2. QED
    BY <1>5, <2>1 DEF EndPrint
<1>6. CASE ToggleCheck
  <2>1. fans_check_enabled' \in BOOLEAN /\ eepromCheck' \in BOOLEAN
    BY <1>6, Zenon DEF ToggleCheck
  <2>2. fan_check_error' \in {"OK", fan_check_error}
    BY <1>6 DEF ToggleCheck
  <2>3. QED
    BY <1>6, <2>1, <2>2 DEF ToggleCheck
<1>7. CASE BeginResume
  <2>1. FanErrors(fan_speed_errors) \in [Fans -> 0 .. ErrorCounts - 1]
    BY FanErrorsType
  <2>2. ~sdprinting /\ jobTimer # "stopped"
    BY <1>7 DEF BeginResume
  <2>3. FanFixed(FanErrors(fan_speed_errors)) \in {"OK", "REPORTED", "FIXED"}
    BY DEF FanFixed
  <2>4. QED
    BY <1>7, <2>1, <2>2, <2>3 DEF BeginResume
<1>8. CASE RestoreSaved
  <2>1. did_pause_print' \in BOOLEAN /\ (did_pause_print' => did_pause_print)
    BY <1>8, Zenon DEF RestoreSaved
  <2>2. QED
    BY <1>8, <2>1 DEF RestoreSaved
<1>9. CASE RestoreMoves
  <2>1. fans_check_enabled' \in BOOLEAN
    BY <1>9, Zenon DEF RestoreMoves
  <2>2. QED
    BY <1>9, <2>1 DEF RestoreMoves
<1>10. CASE RestoreDone
  <2>1. /\ fans_check_enabled' \in BOOLEAN /\ sdprinting' \in BOOLEAN
        /\ saved_printing' \in BOOLEAN /\ ~saved_printing'
        /\ did_pause_print' \in BOOLEAN /\ ~did_pause_print'
    BY <1>10, Zenon DEF RestoreDone
  <2>2. QED
    BY <1>10, <2>1 DEF RestoreDone
<1>11. CASE UNCHANGED fanVars
  BY <1>11 DEF fanVars
<1>12. QED
  BY <1>1, <1>2, <1>3, <1>4, <1>5, <1>6, <1>7, <1>8, <1>9, <1>10, <1>11 DEF FanNext

\* No print goes on while the error of a fan is reported, except one that was
\* being restored when it was reported.
THEOREM FanErrorPauses == FanSpec => []NoPrintWithFanError
<1>1. FanInv => NoPrintWithFanError
  BY DEF FanInv, NoPrintWithFanError
<1>2. QED
  BY <1>1, FanInitInv, FanStepInv, PTL DEF FanSpec

\* Types of the fan check, of its counters for every limit.
THEOREM FanTyped == FanSpec => []FanTypeOK
<1>1. FanInv => FanTypeOK
  BY DEF FanInv
<1>2. QED
  BY <1>1, FanInitInv, FanStepInv, PTL DEF FanSpec

-----------------------------------------------------------------------------
(* HeatbedPwm.                                                             *)

\* The power is even and below the number of levels; what is not full power
\* leaves room for the tick behind the power.
LEMMA PwmPower ==
  ASSUME NEW soft \in SoftLevels
  PROVE  /\ 2 * soft \in 0 .. PwmLevels - 2
         /\ ~FullPower(soft) => 2 * soft <= PwmLevels - 4
BY PwmAssumption DEF SoftLevels, FullPower, slowInc

\* The counter wraps.
LEMMA PwmTick ==
  ASSUME NEW c \in 0 .. PwmLevels - 1
  PROVE  (c + slowInc) % PwmLevels = IF c = PwmLevels - 1 THEN 0 ELSE c + 1
BY PwmAssumption DEF slowInc

LEMMA PwmInitInv == PwmInit => PwmInv
<1> SUFFICES ASSUME PwmInit PROVE PwmInv
  OBVIOUS
<1>1. bedPWMDisabled \in BOOLEAN
  BY Zenon DEF PwmInit
<1>2. 0 \in SoftLevels
  BY PwmAssumption DEF SoftLevels
<1>3. QED
  BY <1>1, <1>2, PwmAssumption DEF PwmInit, PwmInv, PwmTypeOK

\* The interrupt before a rise.
LEMMA PwmOffStep == PwmInv /\ (ZeroStart \/ Zero \/ ZeroToRise) => PwmInv'
<1> SUFFICES ASSUME PwmInv, ZeroStart \/ Zero \/ ZeroToRise PROVE PwmInv'
  OBVIOUS
<1> USE PwmAssumption DEF PwmInv, PwmTypeOK, GoesOn, GoesOff, pwmInputs, pwmGhosts
<1>1. CASE ZeroStart
  <2>1. 2 * soft_pwm_bed \in 0 .. PwmLevels - 1
    BY PwmPower
  <2>2. pwm' = 2 * soft_pwm_bed /\ bedState' = IF pwm' # 0 THEN "ZERO" ELSE bedState
    BY <1>1 DEF ZeroStart
  <2>3. UNCHANGED <<slowCounter, fastCounter, soft_pwm_bed, bedPWMDisabled, onTicks, offTicks, rises>>
    BY <1>1 DEF ZeroStart
  <2>4. rises >= 1 => ~FullPower(soft_pwm_bed)
    BY <1>1 DEF ZeroStart
  <2>5. QED
    BY <1>1, <2>1, <2>2, <2>3, <2>4 DEF ZeroStart, FullPower, slowInc
<1>2. CASE Zero
  <2>1. slowCounter' = IF slowCounter = PwmLevels - 1 THEN 0 ELSE slowCounter + 1
    BY <1>2, PwmTick DEF Zero
  <2>2. offTicks' = IF offTicks < PwmLevels THEN offTicks + 1 ELSE offTicks
    BY <1>2 DEF Zero, Counted
  <2>3. QED
    BY <1>2, <2>1, <2>2 DEF Zero, FullPower, slowInc
<1>3. CASE ZeroToRise
  BY <1>3 DEF ZeroToRise, FullPower, slowInc
<1>4. QED
  BY <1>1, <1>2, <1>3

\* The edges, and the states that only lead on.
LEMMA PwmEdgeStep == PwmInv /\ (Rise \/ RiseToOne \/ Fall \/ FallToZero) => PwmInv'
<1> SUFFICES ASSUME PwmInv, Rise \/ RiseToOne \/ Fall \/ FallToZero PROVE PwmInv'
  OBVIOUS
<1> USE PwmAssumption DEF PwmInv, PwmTypeOK, GoesOn, GoesOff, pwmInputs, pwmGhosts, FullPower, slowInc
<1>1. CASE Rise
  BY <1>1 DEF Rise, Edge
<1>2. CASE RiseToOne
  BY <1>2 DEF RiseToOne
<1>3. CASE Fall
  BY <1>3 DEF Fall, Edge
<1>4. CASE FallToZero
  BY <1>4 DEF FallToZero
<1>5. QED
  BY <1>1, <1>2, <1>3, <1>4

\* The bed is on.
LEMMA PwmOnStep == PwmInv /\ One => PwmInv'
<1> SUFFICES ASSUME PwmInv, One PROVE PwmInv'
  OBVIOUS
<1> USE PwmAssumption DEF PwmInv, PwmTypeOK, GoesOn, GoesOff, pwmInputs
<1>1. slowCounter' = IF slowCounter = PwmLevels - 1 THEN 0 ELSE slowCounter + 1
  BY PwmTick DEF One
<1>2. onTicks' = IF onTicks < PwmLevels THEN onTicks + 1 ELSE onTicks
  BY DEF One, Counted
<1>3. UNCHANGED <<pwm, soft_pwm_bed, bedPWMDisabled, offTicks, rises>> /\ bedState = "ONE"
  BY DEF One
<1>4. CASE FullPower(soft_pwm_bed)
  BY <1>1, <1>2, <1>3, <1>4 DEF One, FullPower, slowInc
<1>5. CASE ~FullPower(soft_pwm_bed)
  <2>1. 2 * soft_pwm_bed <= PwmLevels - 4
    BY <1>5, PwmPower
  <2>2. CASE slowCounter' < pwm
    BY <1>1, <1>2, <1>3, <1>5, <2>1, <2>2 DEF One, FullPower, slowInc
  <2>3. CASE ~(slowCounter' < pwm)
    BY <1>1, <1>2, <1>3, <1>5, <2>1, <2>3 DEF One, FullPower, slowInc
  <2>4. QED
    BY <2>2, <2>3
<1>6. QED
  BY <1>4, <1>5

LEMMA PwmStepInv == PwmInv /\ [PwmNext]_pwmVars => PwmInv'
<1> SUFFICES ASSUME PwmInv, [PwmNext]_pwmVars PROVE PwmInv'
  OBVIOUS
<1> USE DEF PwmInv, PwmTypeOK, GoesOn, GoesOff
<1>1. CASE BedIsr
  BY <1>1, PwmOffStep, PwmEdgeStep, PwmOnStep DEF BedIsr
<1>2. CASE SetBed
  BY <1>2 DEF SetBed
<1>3. CASE HoldBed
  <2>1. bedPWMDisabled' \in BOOLEAN
    BY <1>3, Zenon DEF HoldBed
  <2>2. QED
    BY <1>3, <2>1 DEF HoldBed
<1>4. CASE DisableBed
  <2>1. bedPWMDisabled' \in BOOLEAN
    BY <1>4, Zenon DEF DisableBed
  <2>2. 0 \in SoftLevels
    BY PwmAssumption DEF SoftLevels
  <2>3. QED
    BY <1>4, <2>1, <2>2 DEF DisableBed
<1>5. CASE UNCHANGED pwmVars
  BY <1>5 DEF pwmVars, FullPower
<1>6. QED
  BY <1>1, <1>2, <1>3, <1>4, <1>5 DEF PwmNext

\* The duty is exact for every even number of levels and every number of steps
\* of an edge.
THEOREM BedDutyExact == PwmSpec => []DutyExact
<1>1. PwmInv => DutyExact
  <2> SUFFICES ASSUME PwmInv, bedState = "ZERO_TO_RISE", rises = 3
               PROVE  onTicks = 2 * soft_pwm_bed /\ onTicks + offTicks = PwmLevels
    BY DEF DutyExact
  <2>1. pwm = 2 * soft_pwm_bed /\ onTicks = pwm /\ offTicks = PwmLevels - pwm
    BY DEF PwmInv
  <2>2. QED
    BY <2>1, PwmAssumption DEF PwmInv, PwmTypeOK
<1>2. QED
  BY <1>1, PwmInitInv, PwmStepInv, PTL DEF PwmSpec

\* Types of the bed's PWM: no counter leaves the width it has in the code.
THEOREM PwmTyped == PwmSpec => []PwmTypeOK
<1>1. PwmInv => PwmTypeOK
  BY DEF PwmInv
<1>2. QED
  BY <1>1, PwmInitInv, PwmStepInv, PTL DEF PwmSpec

-----------------------------------------------------------------------------
(* HeaterRunaway.                                                          *)

\* The counters end where the heater is reported, for a reported heater has
\* neither a target nor an output: without them nothing is counted.
RunawayInv ==
  /\ RunawayTypeOK
  /\ heaterReported => heaterTarget = 0 /\ ~heaterOutput
  /\ ~heaterReported => /\ 2 * temp_runaway_error_counter <= RunawayTimeout
                        /\ preheat_errors <= PreheatErrors

LEMMA RunawayInitInv == RunawayInit => RunawayInv
<1> SUFFICES ASSUME RunawayInit PROVE RunawayInv
  OBVIOUS
<1>1. heaterOutput \in BOOLEAN /\ heaterReported \in BOOLEAN /\ ~heaterReported
  BY Zenon DEF RunawayInit
<1>2. QED
  BY <1>1, RunawayAssumption DEF RunawayInit, RunawayInv, RunawayTypeOK

\* What a check does with the fields, in which `due' ends a period of the
\* preheat and `failed' reports the heater.
LEMMA RunawayChecks ==
    ASSUME RunawayInv, RunawayCheck
    PROVE  /\ heaterTemp' = heaterTemp /\ temp_runaway_target' = heaterTarget
           /\ temp_runaway_status' \in {"INACTIVE", "PREHEAT", "ACTIVE"}
           /\ \/ heaterReported' = heaterReported /\ UNCHANGED <<heaterTarget, heaterOutput>>
              \/ heaterReported' = TRUE /\ heaterTarget' = 0 /\ heaterOutput' = FALSE
           /\ preheat_start' \in {preheat_start, heaterTemp}
           /\ preheat_counter' \in 0 .. PreheatChecks
           /\ preheat_errors' \in {0, preheat_errors, preheat_errors + 1}
           /\ preheat_errors' > preheat_errors =>
                heaterTarget > heaterTemp /\ (preheat_errors' <= PreheatErrors \/ heaterReported')
           /\ temp_runaway_error_counter' \in
                {0, 1, temp_runaway_error_counter, temp_runaway_error_counter + 1}
           /\ temp_runaway_error_counter' > 0 => heaterOutput
           /\ temp_runaway_error_counter' > temp_runaway_error_counter =>
                2 * temp_runaway_error_counter' <= RunawayTimeout \/ heaterReported'
  <1> DEFINE fresh    == temp_runaway_target # heaterTarget
             status   == IF ~fresh THEN temp_runaway_status
                         ELSE IF heaterTarget > 0 THEN "PREHEAT" ELSE "INACTIVE"
             restarts == fresh /\ heaterTarget > 0
             start    == IF restarts THEN heaterTemp ELSE preheat_start
             heating  == heaterTemp < heaterTarget /\ status = "PREHEAT"
             count    == (IF restarts THEN 0 ELSE preheat_counter) + (IF heating THEN 1 ELSE 0)
             due      == heating /\ count > PreheatChecks
             errors   == IF due THEN ErrorsAfter(start) ELSE preheat_errors
             reached  == status = "PREHEAT" /\ heaterTemp > heaterTarget - Hysteresis
             active   == reached \/ status = "ACTIVE"
             counted  == IF heaterOutput /\ ~reached THEN temp_runaway_error_counter ELSE 0
             counter  == IF ~heaterOutput \/ InRange THEN IF heaterOutput THEN 0 ELSE counted
                         ELSE IF active THEN counted + 1 ELSE counted
             failed   == \/ due /\ errors > PreheatErrors
                         \/ heaterOutput /\ ~InRange /\ active /\ counter * 2 > RunawayTimeout
  <1>1. /\ temp_runaway_status' = IF reached THEN "ACTIVE" ELSE status
        /\ temp_runaway_target' = heaterTarget
        /\ temp_runaway_error_counter' = counter
        /\ preheat_start' = (IF due THEN heaterTemp ELSE start)
        /\ preheat_counter' = (IF due THEN 0 ELSE count)
        /\ preheat_errors' = errors
        /\ heaterReported' = (heaterReported \/ failed)
        /\ IF failed THEN heaterTarget' = 0 /\ heaterOutput' = FALSE
                     ELSE UNCHANGED <<heaterTarget, heaterOutput>>
        /\ UNCHANGED heaterTemp
    BY Zenon DEF RunawayCheck
  <1>2. /\ heaterTarget \in Nat /\ heaterTemp \in Nat /\ preheat_start \in Nat
        /\ preheat_counter \in 0 .. PreheatChecks /\ preheat_errors \in Nat
        /\ temp_runaway_error_counter \in Nat
        /\ temp_runaway_status \in {"INACTIVE", "PREHEAT", "ACTIVE"}
    BY RunawayAssumption DEF RunawayInv, RunawayTypeOK
  <1>3. heaterReported \in BOOLEAN /\ heaterOutput \in BOOLEAN
    BY DEF RunawayInv, RunawayTypeOK
  <1>4. RunawayTimeout \in Nat /\ PreheatChecks \in Nat /\ PreheatErrors \in Nat
    BY RunawayAssumption
  <1>5. status \in {"INACTIVE", "PREHEAT", "ACTIVE"} /\ start \in {preheat_start, heaterTemp}
    BY <1>2
  <1>6. /\ heating => heaterTarget > heaterTemp
        /\ count \in Nat /\ (~due => count \in 0 .. PreheatChecks)
    BY <1>2, <1>4
  <1>7. errors \in {0, preheat_errors, preheat_errors + 1} /\ (errors > preheat_errors => due)
    BY <1>2 DEF ErrorsAfter
  <1>8. /\ counter \in {0, 1, temp_runaway_error_counter, temp_runaway_error_counter + 1}
        /\ counter > 0 => heaterOutput
        /\ counter > temp_runaway_error_counter => heaterOutput /\ ~InRange /\ active
    BY <1>2
  <1>9. /\ errors > preheat_errors => errors <= PreheatErrors \/ failed
        /\ counter > temp_runaway_error_counter => 2 * counter <= RunawayTimeout \/ failed
    BY <1>2, <1>4, <1>7, <1>8
  <1>10. /\ temp_runaway_status' \in {"INACTIVE", "PREHEAT", "ACTIVE"}
         /\ preheat_start' \in {preheat_start, heaterTemp}
         /\ preheat_counter' \in 0 .. PreheatChecks
         /\ errors > preheat_errors => heaterTarget > heaterTemp
    BY <1>1, <1>2, <1>4, <1>5, <1>6, <1>7
  <1> HIDE DEF fresh, status, restarts, start, heating, count, due, errors, reached, active,
              counted, counter, failed
  <1>11. CASE failed
    <2>1. heaterReported' = TRUE
      BY <1>1, <1>11, Zenon
    <2>2. heaterTarget' = 0 /\ heaterOutput' = FALSE
      BY <1>1, <1>11, Zenon
    <2> QED
      BY <1>1, <1>7, <1>8, <1>10, <2>1, <2>2
  <1>12. CASE ~failed
    <2>1. heaterReported' = heaterReported
      BY <1>1, <1>3, <1>12, Zenon
    <2>2. UNCHANGED <<heaterTarget, heaterOutput>>
      BY <1>1, <1>12, Zenon
    <2> QED
      BY <1>1, <1>7, <1>8, <1>9, <1>10, <1>12, <2>1, <2>2
  <1> QED
    BY <1>11, <1>12

LEMMA RunawayCheckStep == RunawayInv /\ RunawayCheck => RunawayInv'
<1> SUFFICES ASSUME RunawayInv, RunawayCheck PROVE RunawayInv'
  OBVIOUS
<1>0. /\ heaterTemp' = heaterTemp /\ temp_runaway_target' = heaterTarget
      /\ temp_runaway_status' \in {"INACTIVE", "PREHEAT", "ACTIVE"}
      /\ \/ heaterReported' = heaterReported /\ UNCHANGED <<heaterTarget, heaterOutput>>
         \/ heaterReported' = TRUE /\ heaterTarget' = 0 /\ heaterOutput' = FALSE
      /\ preheat_start' \in {preheat_start, heaterTemp}
      /\ preheat_counter' \in 0 .. PreheatChecks
      /\ preheat_errors' \in {0, preheat_errors, preheat_errors + 1}
      /\ preheat_errors' > preheat_errors =>
           heaterTarget > heaterTemp /\ (preheat_errors' <= PreheatErrors \/ heaterReported')
      /\ temp_runaway_error_counter' \in
           {0, 1, temp_runaway_error_counter, temp_runaway_error_counter + 1}
      /\ temp_runaway_error_counter' > 0 => heaterOutput
      /\ temp_runaway_error_counter' > temp_runaway_error_counter =>
           2 * temp_runaway_error_counter' <= RunawayTimeout \/ heaterReported'
  BY RunawayChecks
<1>1. heaterReported' \in BOOLEAN /\ heaterOutput' \in BOOLEAN
  <2>1. heaterReported \in BOOLEAN /\ heaterOutput \in BOOLEAN
    BY DEF RunawayInv, RunawayTypeOK
  <2> QED
    BY <1>0, <2>1, Zenon
<1>2. /\ preheat_errors \in 0 .. PreheatErrors + 1
      /\ temp_runaway_error_counter \in 0 .. RunawayTimeout + 1
      /\ heaterTarget \in {0} \union HeaterTargets
      /\ heaterTemp \in 0 .. MaxTemp /\ preheat_start \in 0 .. MaxTemp /\ MaxTemp \in Nat
      /\ RunawayTimeout \in Nat /\ PreheatErrors \in Nat
  BY RunawayAssumption DEF RunawayInv, RunawayTypeOK
<1>3. /\ heaterReported' => heaterTarget' = 0 /\ ~heaterOutput'
  BY <1>0 DEF RunawayInv
<1>4. /\ heaterTarget' \in {0} \union HeaterTargets /\ heaterTemp' \in 0 .. MaxTemp
      /\ temp_runaway_target' \in {0} \union HeaterTargets /\ preheat_start' \in 0 .. MaxTemp
  BY <1>0, <1>2
<1>5. /\ preheat_errors' \in 0 .. PreheatErrors + 1
      /\ temp_runaway_error_counter' \in 0 .. RunawayTimeout + 1
      /\ ~heaterReported' => /\ 2 * temp_runaway_error_counter' <= RunawayTimeout
                             /\ preheat_errors' <= PreheatErrors
  <2>1. CASE heaterReported
    <3>1. heaterTarget = 0 /\ ~heaterOutput /\ heaterReported'
      BY <1>0, <2>1 DEF RunawayInv
    <3>2. ~(preheat_errors' > preheat_errors) /\ ~(temp_runaway_error_counter' > 0)
      BY <1>0, <1>2, <3>1
    <3> QED
      BY <1>0, <1>2, <3>1, <3>2
  <2>2. CASE ~heaterReported
    <3>1. 2 * temp_runaway_error_counter <= RunawayTimeout /\ preheat_errors <= PreheatErrors
      BY <2>2 DEF RunawayInv
    <3>2. /\ preheat_errors' \in 0 .. PreheatErrors + 1
          /\ ~heaterReported' => preheat_errors' <= PreheatErrors
      BY <1>0, <1>2, <3>1
    <3>3. /\ temp_runaway_error_counter' \in 0 .. RunawayTimeout + 1
          /\ ~heaterReported' => 2 * temp_runaway_error_counter' <= RunawayTimeout
      <4>1. \A c, d, t \in Nat : /\ 2 * c <= t /\ d \in {0, 1, c, c + 1} =>
                                     d <= t + 1 /\ (d <= c => 2 * d <= t)
        OBVIOUS
      <4>2. temp_runaway_error_counter' \in Nat
        BY <1>0, <1>2
      <4>3. /\ temp_runaway_error_counter' <= RunawayTimeout + 1
            /\ temp_runaway_error_counter' <= temp_runaway_error_counter =>
                 2 * temp_runaway_error_counter' <= RunawayTimeout
        <5>1. temp_runaway_error_counter \in Nat
          BY <1>2
        <5>2. temp_runaway_error_counter' \in
                {0, 1, temp_runaway_error_counter, temp_runaway_error_counter + 1}
          BY <1>0
        <5> QED
          BY <1>2, <3>1, <4>1, <4>2, <5>1, <5>2
      <4>4. ASSUME ~heaterReported'
            PROVE  temp_runaway_error_counter' > temp_runaway_error_counter =>
                     2 * temp_runaway_error_counter' <= RunawayTimeout
        BY <1>0, <4>4, Zenon
      <4>5. temp_runaway_error_counter' \in 0 .. RunawayTimeout + 1
        BY <1>2, <4>2, <4>3
      <4>6. ASSUME ~heaterReported' PROVE 2 * temp_runaway_error_counter' <= RunawayTimeout
        <5>1. temp_runaway_error_counter' > temp_runaway_error_counter =>
                2 * temp_runaway_error_counter' <= RunawayTimeout
          BY <4>4, <4>6
        <5>2. temp_runaway_error_counter \in Nat
          BY <1>2
        <5> QED
          BY <4>2, <4>3, <5>1, <5>2
      <4> QED
        BY <4>5, <4>6
    <3> QED
      BY <3>2, <3>3
  <2> QED
    BY <2>1, <2>2
<1>6. QED
  BY <1>0, <1>1, <1>3, <1>4, <1>5 DEF RunawayInv, RunawayTypeOK

LEMMA RunawayStepInv == RunawayInv /\ [RunawayNext]_runawayVars => RunawayInv'
<1> SUFFICES ASSUME RunawayInv, [RunawayNext]_runawayVars PROVE RunawayInv'
  OBVIOUS
<1>1. CASE HeaterMoves
  BY <1>1, RunawayAssumption DEF HeaterMoves, RunawayInv, RunawayTypeOK, runawayState
<1>2. CASE SetHeaterTarget
  <2>1. heaterOutput' \in BOOLEAN /\ UNCHANGED <<heaterTemp, runawayState, heaterReported>>
        /\ ~heaterReported /\ heaterTarget' \in {0} \union HeaterTargets
    BY <1>2, Zenon DEF SetHeaterTarget
  <2> QED
    BY <2>1 DEF RunawayInv, RunawayTypeOK, runawayState
<1>3. CASE UNCHANGED runawayVars
  BY <1>3 DEF runawayVars, runawayHeater, runawayState, RunawayInv, RunawayTypeOK
<1>4. QED
  BY <1>1, <1>2, <1>3, RunawayCheckStep DEF RunawayNext

\* Types of the check for stuck heaters: its counters end at their limits, for
\* every limit, however the target and the temperature change, since a report
\* takes the target and the output that are needed to count.
THEOREM RunawayTyped == RunawaySpec => []RunawayTypeOK
<1>1. RunawayInv => RunawayTypeOK
  BY DEF RunawayInv
<1>2. QED
  BY <1>1, RunawayInitInv, RunawayStepInv, PTL DEF RunawaySpec

-----------------------------------------------------------------------------
(* The timer, on which the checks of the heaters rest, for every width of T *)
(* and every period.                                                       *)

\* TimerInv holds initially.
LEMMA TimerInitInv == TimerInit => TimerInv
<1>1. TimerInit => TimerTypeOK
  <2>1. TimerInit => /\ timerNow \in 0 .. TimerW - 1 /\ m_started \in 0 .. TimerW - 1
                /\ timerAge \in 0 .. TimerW - 1 /\ timerGap \in 0 .. TimerW - 1
    BY TimerAssumption DEF TimerInit
  <2>2. TimerInit => m_isRunning \in BOOLEAN
    BY Zenon DEF TimerInit
  <2>3. QED
    BY <2>1, <2>2 DEF TimerTypeOK
<1>2. TimerInit => ClockAgrees
  BY Zenon DEF TimerInit, ClockAgrees
<1>3. QED
  BY <1>1, <1>2 DEF TimerInv

\* What TimerInv says is what the condition of expired() computes.
LEMMA TimerInvExact == TimerInv => ExactAcrossWrap
BY TimerAssumption DEF TimerInv, TimerTypeOK, ClockAgrees, ExactAcrossWrap, TimerExpired, TimerElapsed, Wrapped

\* Every step keeps TimerInv: between two calls of expired() the clock cannot
\* come round to the time of the start again.
LEMMA TimerStepInv == TimerInv /\ [TimerNext]_timerVars => TimerInv'
<1> SUFFICES ASSUME TimerInv, [TimerNext]_timerVars PROVE TimerInv'
  OBVIOUS
<1> USE TimerAssumption DEF TimerInv, TimerTypeOK, ClockAgrees
<1>1. CASE StartTimer
  BY <1>1 DEF StartTimer, Wrapped
<1>2. CASE AskTimer
  <2>1. ExactAcrossWrap
    BY TimerInvExact
  <2>2. m_isRunning' \in BOOLEAN
    BY <1>2, Zenon DEF AskTimer
  <2>3. CASE ~m_isRunning'
    BY <1>2, <2>2, <2>3 DEF AskTimer
  <2>4. CASE m_isRunning'
    <3>1. m_isRunning /\ ~TimerExpired(m_started, TimerPeriod, timerNow)
      BY <1>2, <2>4 DEF AskTimer
    <3>2. timerAge < TimerPeriod
      BY <2>1, <3>1 DEF ExactAcrossWrap
    <3>3. timerNow' = timerNow /\ m_started' = m_started /\ timerGap' = 0 /\ timerAge' = timerAge
      BY <1>2, <2>4 DEF AskTimer
    <3>4. QED
      BY <2>2, <3>1, <3>2, <3>3 DEF Wrapped
  <2>5. QED
    BY <2>3, <2>4
<1>3. CASE Millisecond
  BY <1>3 DEF Millisecond, Wrapped
<1>4. CASE StopTimer
  <2>1. ~m_isRunning' /\ m_isRunning' \in BOOLEAN
    BY <1>4, Zenon DEF StopTimer
  <2>2. /\ timerNow' = timerNow /\ m_started' = m_started
        /\ timerAge' = 0 /\ timerGap' = 0
    BY <1>4, Zenon DEF StopTimer
  <2>3. QED
    BY <2>1, <2>2
<1>5. CASE UNCHANGED timerVars
  BY <1>5 DEF timerVars
<1>6. QED
  BY <1>1, <1>2, <1>3, <1>4, <1>5 DEF TimerNext

\* A running timer expires exactly at the first call after its period, for
\* every width of the clock and wherever in its range it was started.
THEOREM TimerExact == TimerSpec => []ExactAcrossWrap
BY TimerInitInv, TimerStepInv, TimerInvExact, PTL DEF TimerSpec

\* Types of the timer, whose sums stay in the width of its type.
THEOREM TimerTyped == TimerSpec => []TimerTypeOK
<1>1. TimerInv => TimerTypeOK
  BY DEF TimerInv
<1>2. QED
  BY <1>1, TimerInitInv, TimerStepInv, PTL DEF TimerSpec

-----------------------------------------------------------------------------
(* PowerPanic: the queue of the recovery.                                  *)

\* Equal sequences.
LEMMA SameSequence ==
  ASSUME NEW S, NEW s \in Seq(S), NEW t \in Seq(S), Len(s) = Len(t),
         \A i \in 1 .. Len(s) : s[i] = t[i]
  PROVE  s = t
OBVIOUS

\* Nothing is queued exactly if there is no stage.
LEMMA StageNone == RecoveryInOrder => /\ recovery = <<>> <=> Stage = "none"
                                      /\ Stage \in RecoveryCommands \union {"none"}
<1> SUFFICES ASSUME RecoveryInOrder PROVE /\ recovery = <<>> <=> Stage = "none"
                                          /\ Stage \in RecoveryCommands \union {"none"}
  OBVIOUS
<1>1. CASE recovery = <<>>
  BY <1>1 DEF Stage
<1>2. CASE recovery # <<>>
  <2>1. Head(recovery) \in RecoveryEntry
    BY <1>2 DEF RecoveryInOrder
  <2>2. Stage \in RecoveryCommands
    BY <1>2, <2>1 DEF Stage, RecoveryEntry
  <2>3. QED
    BY <1>2, <2>2 DEF RecoveryCommands
<1>3. QED
  BY <1>1, <1>2

\* A step that leaves the queue and what it depends on alone.
LEMMA QueueKept ==
  ASSUME RecoveryInOrder, UNCHANGED <<recovery, eepromZ, eepromTinyZ, eepromMesh>>
  PROVE  RecoveryInOrder' /\ Stage' = Stage
BY DEF RecoveryInOrder, Stage, Follower

\* An empty queue is in order.
LEMMA QueueEmpty ==
  ASSUME recovery' = <<>>
  PROVE  RecoveryInOrder' /\ Stage' = "none"
BY DEF RecoveryInOrder, Stage

\* Behind the first command the queue is that of the next stage.
LEMMA QueueTail ==
  ASSUME RecoveryInOrder, recovery # <<>>, recovery' = Tail(recovery),
         UNCHANGED <<eepromZ, eepromTinyZ, eepromMesh>>
  PROVE  RecoveryInOrder' /\ Stage' = Follower(Stage)
<1> DEFINE t == Tail(recovery)
<1>1. /\ recovery \in Seq(RecoveryEntry) /\ Len(recovery) \in Nat /\ Len(recovery) > 0
      /\ t \in Seq(RecoveryEntry) /\ Len(t) = Len(recovery) - 1
      /\ \A i \in 1 .. Len(t) : t[i] = recovery[i + 1]
      /\ Head(recovery) = recovery[1]
  BY DEF RecoveryInOrder
<1>2. ASSUME NEW i \in 1 .. Len(recovery)
      PROVE  /\ i < Len(recovery) => recovery[i + 1].c = Follower(recovery[i].c)
             /\ i = Len(recovery) => Follower(recovery[i].c) = "none"
             /\ recovery[i].c = "down" => recovery[i].z = eepromZ
             /\ recovery[i].c = "lift" => recovery[i].z = eepromTinyZ + Z_PAUSE_LIFT
  BY DEF RecoveryInOrder
<1>3. \A c : Follower(c)' = Follower(c)
  BY DEF Follower
<1> HIDE DEF t
<1>4. ASSUME NEW i \in 1 .. Len(t)
      PROVE  /\ i < Len(t) => t[i + 1].c = Follower(t[i].c)
             /\ i = Len(t) => Follower(t[i].c) = "none"
             /\ t[i].c = "down" => t[i].z = eepromZ
             /\ t[i].c = "lift" => t[i].z = eepromTinyZ + Z_PAUSE_LIFT
  <2>1. t[i] = recovery[i + 1] /\ i + 1 \in 1 .. Len(recovery)
    BY <1>1
  <2>2. i < Len(t) => t[i + 1] = recovery[i + 1 + 1] /\ i + 1 < Len(recovery)
    BY <1>1
  <2>3. i = Len(t) => i + 1 = Len(recovery)
    BY <1>1
  <2>4. QED
    BY <1>2, <2>1, <2>2, <2>3
<1>5. RecoveryInOrder'
  BY <1>1, <1>3, <1>4 DEF RecoveryInOrder, t
<1>6. CASE Len(recovery) = 1
  <2>1. t = <<>>
    BY <1>1, <1>6
  <2>2. Follower(recovery[1].c) = "none"
    BY <1>1, <1>2, <1>6
  <2>3. QED
    BY <1>1, <1>5, <2>1, <2>2 DEF Stage, t
<1>7. CASE Len(recovery) # 1
  <2>1. t # <<>> /\ Head(t) = recovery[2]
    BY <1>1, <1>7
  <2>2. recovery[2].c = Follower(recovery[1].c)
    BY <1>1, <1>2, <1>7
  <2>3. QED
    BY <1>1, <1>5, <2>1, <2>2 DEF Stage, t
<1>8. QED
  BY <1>6, <1>7

\* A number between 0 and 2.
LEMMA NotMoreThanOne == ASSUME NEW n \in Nat, n > 0, ~(n > 1) PROVE n = 1
OBVIOUS

\* A command queued on an empty queue.
LEMMA AppendFirst ==
  ASSUME NEW S, NEW s \in Seq(S), Len(s) = 0, NEW e \in S
  PROVE  Append(s, e) \in Seq(S) /\ Len(Append(s, e)) = 1 /\ Append(s, e)[1] = e
OBVIOUS

\* A queue in order, by its elements.
LEMMA InOrder ==
  ASSUME NEW q \in Seq(RecoveryEntry), recovery' = q, Len(q) > 0,
         UNCHANGED <<eepromZ, eepromTinyZ, eepromMesh>>,
         \A i \in 1 .. Len(q) : /\ i < Len(q) => q[i + 1].c = Follower(q[i].c)
                                /\ i = Len(q) => Follower(q[i].c) = "none"
                                /\ q[i].c = "down" => q[i].z = eepromZ
                                /\ q[i].c = "lift" => q[i].z = eepromTinyZ + Z_PAUSE_LIFT
  PROVE  RecoveryInOrder' /\ Stage' = q[1].c
<1>1. \A c : Follower(c)' = Follower(c)
  BY DEF Follower
<1>2. RecoveryInOrder'
  BY <1>1 DEF RecoveryInOrder
<1>3. q # <<>> /\ Head(q) = q[1]
  OBVIOUS
<1>4. QED
  BY <1>2, <1>3 DEF Stage

\* The second element of a queue in order.
LEMMA OrderSecond ==
  ASSUME RecoveryInOrder, Len(recovery) > 1
  PROVE  recovery[2].c = Follower(recovery[1].c)
<1>1. Len(recovery) \in Nat
  BY DEF RecoveryInOrder
<1>2. ASSUME NEW i \in 1 .. Len(recovery)
      PROVE  i < Len(recovery) => recovery[i + 1].c = Follower(recovery[i].c)
  BY DEF RecoveryInOrder
<1>3. QED
  BY <1>1, <1>2

\* PRUSA uvlo replaces itself by M24.
LEMMA QueueM24 ==
  /\ RecoveryInOrder /\ Stage = "uvlo" /\ recovery' = Append(Tail(recovery), Command("m24"))
  /\ UNCHANGED <<eepromZ, eepromTinyZ, eepromMesh>>
  => RecoveryInOrder' /\ Stage' = "m24"
<1>1. SUFFICES ASSUME RecoveryInOrder, Stage = "uvlo",
                      recovery' = Append(Tail(recovery), Command("m24")),
                      UNCHANGED <<eepromZ, eepromTinyZ, eepromMesh>>
               PROVE  RecoveryInOrder' /\ Stage' = "m24"
  OBVIOUS
<1>2. recovery \in Seq(RecoveryEntry) /\ recovery # <<>>
  BY <1>1, StageNone DEF RecoveryInOrder
<1>3. Len(recovery) > 0 /\ Head(recovery) = recovery[1]
  BY <1>2
<1>4. recovery[1].c = "uvlo"
  BY <1>1, <1>2, <1>3 DEF Stage
<1>5. ~(Len(recovery) > 1)
  <2>1. SUFFICES ASSUME Len(recovery) > 1 PROVE FALSE
    OBVIOUS
  <2>2. 2 \in 1 .. Len(recovery)
    BY <1>2, <2>1
  <2>3. recovery[2].c = Follower(recovery[1].c)
    BY <1>1, <2>1, OrderSecond
  <2>4. recovery[2].c \in RecoveryCommands
    <3>1. recovery[2] \in RecoveryEntry
      BY <1>2, <2>2
    <3>2. QED
      BY <3>1 DEF RecoveryEntry
  <2>5. recovery[2].c = "none"
    BY <1>4, <2>3 DEF Follower
  <2>6. QED
    BY <2>4, <2>5 DEF RecoveryCommands
<1> DEFINE t == Tail(recovery)
           m24 == Command("m24")
           q == Append(t, m24)
<1>6. m24 \in RecoveryEntry /\ m24.c = "m24"
  BY DEF Command, RecoveryCommands, RecoveryEntry
<1>7. t \in Seq(RecoveryEntry) /\ Len(t) = 0
  <2>1. Len(recovery) \in Nat
    BY <1>2
  <2>2. Len(recovery) = 1
    BY <1>3, <1>5, <2>1, NotMoreThanOne
  <2>3. QED
    BY <1>2, <2>2
<1>8. recovery' = q
  BY <1>1
<1> HIDE DEF t, m24
<1>9. q \in Seq(RecoveryEntry) /\ Len(q) = 1 /\ q[1] = m24
  BY <1>6, <1>7, AppendFirst
<1> HIDE DEF q
<1>10. ASSUME NEW i \in 1 .. Len(q)
       PROVE  i = Len(q) /\ q[i].c = "m24"
  BY <1>6, <1>9
<1>11. Follower("m24") = "none"
  BY DEF Follower
<1>12. QED
  BY <1>1, <1>6, <1>8, <1>9, <1>10, <1>11, InOrder

\* A command in front of a queue that is in order.
LEMMA ConsInOrder ==
  ASSUME NEW e \in RecoveryEntry, NEW s \in Seq(RecoveryEntry)
  PROVE  /\ <<e>> \o s \in Seq(RecoveryEntry) /\ Len(<<e>> \o s) = Len(s) + 1
         /\ (<<e>> \o s)[1] = e
         /\ \A i \in 1 .. Len(s) : (<<e>> \o s)[i + 1] = s[i]
OBVIOUS

\* What recover_print() queues.
LEMMA QueueRecovery ==
  ASSUME RecoverPrint, eepromZ \in Int, eepromTinyZ \in Int, eepromMesh \in BOOLEAN
  PROVE  RecoveryInOrder' /\ Stage' = IF EEPROM_UVLO_Z_LIFTED THEN "home" ELSE "lift"
<1> DEFINE lift == MoveZ("lift", eepromTinyZ + Z_PAUSE_LIFT)
           home == Command("home")
           mesh == Command("mesh")
           down == MoveZ("down", eepromZ)
           m26  == Command("m26")
           uvlo == Command("uvlo")
<1>1. /\ lift \in RecoveryEntry /\ home \in RecoveryEntry /\ mesh \in RecoveryEntry
      /\ down \in RecoveryEntry /\ m26 \in RecoveryEntry /\ uvlo \in RecoveryEntry
  BY PanicAssumption DEF MoveZ, Command, RecoveryCommands, RecoveryEntry
<1>2. /\ lift.c = "lift" /\ home.c = "home" /\ mesh.c = "mesh" /\ down.c = "down"
      /\ m26.c = "m26" /\ uvlo.c = "uvlo"
      /\ lift.z = eepromTinyZ + Z_PAUSE_LIFT /\ down.z = eepromZ
  BY DEF MoveZ, Command
<1>3. UNCHANGED <<eepromZ, eepromTinyZ, eepromMesh>>
  BY DEF RecoverPrint
<1> DEFINE rest == (IF eepromMesh THEN <<mesh>> ELSE <<>>) \o <<down, m26, uvlo>>
           back == <<home>> \o rest
<1>4. recovery' = IF EEPROM_UVLO_Z_LIFTED THEN back ELSE <<lift>> \o back
  BY DEF RecoverPrint, RestoreFromEeprom
<1> HIDE DEF lift, home, mesh, down, m26, uvlo
<1>5. /\ back \in Seq(RecoveryEntry) /\ Len(back) = IF eepromMesh THEN 5 ELSE 4
      /\ back[1] = home
      /\ eepromMesh => back[2] = mesh /\ back[3] = down /\ back[4] = m26 /\ back[5] = uvlo
      /\ ~eepromMesh => back[2] = down /\ back[3] = m26 /\ back[4] = uvlo
  <2>1. CASE eepromMesh
    BY <1>1, <2>1
  <2>2. CASE ~eepromMesh
    BY <1>1, <2>2
  <2>3. QED
    BY <2>1, <2>2
<1> HIDE DEF rest, back
<1>6. ASSUME NEW i \in 1 .. Len(back)
      PROVE  /\ i < Len(back) => back[i + 1].c = Follower(back[i].c)
             /\ i = Len(back) => Follower(back[i].c) = "none"
             /\ back[i].c = "down" => back[i].z = eepromZ
             /\ back[i].c # "lift"
  <2>1. CASE eepromMesh
    BY <1>2, <1>5, <2>1 DEF Follower
  <2>2. CASE ~eepromMesh
    BY <1>2, <1>5, <2>2 DEF Follower
  <2>3. QED
    BY <2>1, <2>2
<1>7. Len(back) \in Nat /\ Len(back) > 0
  BY <1>5
<1>8. CASE EEPROM_UVLO_Z_LIFTED
  BY <1>2, <1>3, <1>4, <1>5, <1>6, <1>7, <1>8, InOrder
<1>9. CASE ~EEPROM_UVLO_Z_LIFTED
  <2> DEFINE q == <<lift>> \o back
  <2>1. /\ q \in Seq(RecoveryEntry) /\ Len(q) = Len(back) + 1 /\ q[1] = lift
        /\ \A i \in 1 .. Len(back) : q[i + 1] = back[i]
    BY <1>1, <1>5, ConsInOrder
  <2>2. recovery' = q
    BY <1>4, <1>9
  <2> HIDE DEF q
  <2>3. ASSUME NEW i \in 1 .. Len(q)
        PROVE  /\ i < Len(q) => q[i + 1].c = Follower(q[i].c)
               /\ i = Len(q) => Follower(q[i].c) = "none"
               /\ q[i].c = "down" => q[i].z = eepromZ
               /\ q[i].c = "lift" => q[i].z = eepromTinyZ + Z_PAUSE_LIFT
    <3>1. CASE i = 1
      <4>1. 1 \in 1 .. Len(back) /\ q[1 + 1] = back[1]
        BY <1>7, <2>1
      <4>2. QED
        BY <1>2, <1>5, <1>7, <2>1, <3>1, <4>1 DEF Follower
    <3>2. CASE i # 1
      <4> DEFINE j == i - 1
      <4>1. j \in 1 .. Len(back) /\ i = j + 1
        BY <1>7, <2>1, <3>2
      <4> HIDE DEF j
      <4>2. q[i] = back[j] /\ (j < Len(back) => q[i + 1] = back[j + 1])
        <5>1. j < Len(back) => q[(j + 1) + 1] = back[j + 1]
          BY <1>7, <2>1, <4>1
        <5>2. QED
          BY <2>1, <4>1, <5>1
      <4>3. (i < Len(q) => j < Len(back)) /\ (i = Len(q) => j = Len(back))
        BY <1>7, <2>1, <4>1
      <4>4. /\ j < Len(back) => back[j + 1].c = Follower(back[j].c)
            /\ j = Len(back) => Follower(back[j].c) = "none"
            /\ back[j].c = "down" => back[j].z = eepromZ
            /\ back[j].c # "lift"
        BY <1>6, <4>1
      <4>5. QED
        BY <4>2, <4>3, <4>4
    <3>3. QED
      BY <3>1, <3>2
  <2>4. QED
    BY <1>2, <1>3, <1>7, <1>9, <2>1, <2>2, <2>3, InOrder
<1>10. QED
  BY <1>8, <1>9

-----------------------------------------------------------------------------
(* Which line goes on.                                                        *)

\* Nothing is saved or printed when the printer starts for the first time.
LEMMA FlowInit == PanicInit => PanicFlowInv
<1> SUFFICES ASSUME PanicInit PROVE PanicFlowInv
  OBVIOUS
<1>1. RecoveryInOrder /\ Stage = "none"
  BY DEF PanicInit, RecoveryInOrder, Stage
<1>2. PanicHeightTypes
  BY DEF PanicInit, PanicHeightTypes
<1>3. /\ EEPROM_UVLO_Z_LIFTED \in BOOLEAN /\ eepromMesh \in BOOLEAN /\ meshActive \in BOOLEAN
      /\ printing \in BOOLEAN /\ printPaused \in BOOLEAN /\ lifting \in BOOLEAN
      /\ ~printing /\ ~printPaused /\ ~lifting
  BY Zenon DEF PanicInit
<1>4. /\ EEPROM_UVLO = "NO_PENDING" /\ power = "on" /\ recovery = <<>>
      /\ nextLine = 0 /\ sdLine = 0 /\ eepromLine = 0
  BY DEF PanicInit
<1>5. 0 \in 0 .. PrintLines
  BY PanicAssumption
<1>6. QED
  BY <1>1, <1>2, <1>3, <1>4, <1>5 DEF PanicFlowInv, Idle

\* What is left when the power is off.
LEMMA FlowOff ==
  ASSUME PanicFlowInv, Off, UNCHANGED nextLine, PanicHeightTypes',
         EEPROM_UVLO' \in {"NO_PENDING", "PENDING", "RETRY"},
         EEPROM_UVLO_Z_LIFTED' \in BOOLEAN, eepromMesh' \in BOOLEAN,
         eepromLine' \in 0 .. PrintLines, EEPROM_UVLO' # "NO_PENDING" => eepromLine' = nextLine
  PROVE  PanicFlowInv'
<1>1. RecoveryInOrder' /\ Stage' = "none"
  BY QueueEmpty DEF Off
<1>2. /\ printing' \in BOOLEAN /\ printPaused' \in BOOLEAN /\ lifting' \in BOOLEAN
      /\ meshActive' \in BOOLEAN /\ ~printing' /\ ~printPaused' /\ ~lifting'
  BY Zenon DEF Off
<1>3. power' = "off" /\ recovery' = <<>> /\ sdLine' = 0
  BY DEF Off
<1>4. nextLine' \in 0 .. PrintLines /\ 0 \in 0 .. PrintLines
  BY PanicAssumption DEF PanicFlowInv
<1>5. QED
  BY <1>1, <1>2, <1>3, <1>4 DEF PanicFlowInv, Idle

\* Every step leaves the heights numbers.
LEMMA HeightTypesStep == PanicFlowInv /\ [PanicNext]_panicVars => PanicHeightTypes'
<1> SUFFICES ASSUME PanicFlowInv, [PanicNext]_panicVars
             PROVE  PanicHeightTypes'
  OBVIOUS
<1> USE DEF panicVars, panicEeprom, panicFlow, panicHeight, panicGhosts
<1>q. RecoveryInOrder /\ PanicHeightTypes /\ sdLine \in Int
  BY PanicAssumption DEF PanicFlowInv
<1>m. MeshZ \in Int /\ Z_PAUSE_LIFT \in Int /\ UVLO_Z_AXIS_SHIFT \in Int
      /\ UVLO_TINY_Z_AXIS_SHIFT \in Int
  BY PanicAssumption
<1>a. \A b : Mesh(b) \in Int
  BY <1>m DEF Mesh
<1>1. CASE \/ FinishPrint \/ SavePaused \/ PowerLost \/ Boot \/ CancelRecovery \/ RecoveryHome
           \/ RecoveryMesh \/ RecoverySetLine \/ RecoveryEnds \/ RecoveryContinues
           \/ UNCHANGED panicVars
  BY <1>q, <1>1 DEF PanicHeightTypes, FinishPrint, SavePaused, PowerLost, Off, Boot, CancelRecovery,
     RecoveryHome, RecoveryMesh, RecoverySetLine, RecoveryEnds, RecoveryContinues
<1>2. CASE BeginPrint \/ PrintLine \/ LiftPaused \/ ResumePaused \/ RecoverPrint
  <2> HIDE DEF Mesh
  <2>1. QED
    BY <1>q, <1>m, <1>a, <1>2
       DEF PanicHeightTypes, BeginPrint, PrintLine, LiftPaused, ResumePaused, RecoverPrint, MoveTo
<1>3. CASE Uvlo
  <2>1. PICK z \in StoppedAt : /\ eepromZ' = LogicalZ(IF printPaused THEN savedZ ELSE z)
                              /\ eepromTinyZ' = z + UVLO_Z_AXIS_SHIFT
    BY <1>3 DEF Uvlo
  <2>2. z \in Int
    BY DEF StoppedAt
  <2>3. eepromZ' \in Int /\ eepromTinyZ' \in Int
    BY <1>q, <1>m, <1>a, <2>1, <2>2 DEF LogicalZ, PanicHeightTypes
  <2>4. QED
    BY <1>3, <2>3 DEF PanicHeightTypes, Uvlo, Off
<1>4. CASE UvloTiny
  <2>1. PICK z \in StoppedAt : TinyRaise(z)
    BY <1>4 DEF UvloTiny
  <2>2. z \in Int
    BY DEF StoppedAt
  <2>3. eepromTinyZ' \in Int
    BY <1>q, <1>m, <2>1, <2>2 DEF TinyRaise, PanicHeightTypes
  <2>4. QED
    BY <1>q, <1>4, <2>3 DEF PanicHeightTypes, UvloTiny, Off
<1>5. CASE RecoveryMove
  <2>1. recovery \in Seq(RecoveryEntry) /\ recovery # <<>>
    BY <1>q, <1>5 DEF RecoveryMove, NextCommandIs, RecoveryInOrder
  <2>2. Head(recovery) \in RecoveryEntry
    BY <2>1
  <2>3. Head(recovery).z \in Int
    BY <2>2 DEF RecoveryEntry
  <2>4. QED
    BY <1>q, <1>a, <1>5, <2>3 DEF PanicHeightTypes, RecoveryMove, MoveTo
<1>6. QED
  BY <1>1, <1>2, <1>3, <1>4, <1>5 DEF PanicNext

\* Every step keeps the order of a print, its pause and its recovery.
LEMMA FlowStep == PanicFlowInv /\ [PanicNext]_panicVars => PanicFlowInv'
<1> SUFFICES ASSUME PanicFlowInv, [PanicNext]_panicVars
             PROVE  PanicFlowInv'
  OBVIOUS
<1> USE DEF panicVars, panicEeprom, panicFlow, panicHeight, panicGhosts
<1>q. RecoveryInOrder /\ PanicHeightTypes'
  BY HeightTypesStep DEF PanicFlowInv
<1>s. /\ recovery = <<>> <=> Stage = "none"
      /\ Stage \in RecoveryCommands \union {"none"}
  BY <1>q, StageNone
<1>1. CASE BeginPrint
  <2>1. RecoveryInOrder' /\ Stage' = Stage
    BY <1>1, <1>q, QueueKept DEF BeginPrint
  <2>2. QED
    BY <1>1, <1>q, <1>s, <2>1, PanicAssumption DEF PanicFlowInv, Idle, BeginPrint
<1>2. CASE PrintLine
  <2>1. RecoveryInOrder' /\ Stage' = Stage
    BY <1>2, <1>q, QueueKept DEF PrintLine
  <2>2. QED
    BY <1>2, <1>q, <1>s, <2>1, PanicAssumption DEF PanicFlowInv, Idle, PrintLine, MoveTo
<1>3. CASE FinishPrint
  <2>1. RecoveryInOrder' /\ Stage' = Stage
    BY <1>3, <1>q, QueueKept DEF FinishPrint
  <2>2. QED
    BY <1>3, <1>q, <1>s, <2>1, PanicAssumption DEF PanicFlowInv, Idle, FinishPrint
<1>4. CASE SavePaused
  <2>1. RecoveryInOrder' /\ Stage' = Stage
    BY <1>4, <1>q, QueueKept DEF SavePaused
  <2>2. QED
    BY <1>4, <1>q, <1>s, <2>1, PanicAssumption DEF PanicFlowInv, Idle, SavePaused
<1>5. CASE LiftPaused
  <2>1. RecoveryInOrder' /\ Stage' = Stage
    BY <1>5, <1>q, QueueKept DEF LiftPaused
  <2>2. QED
    BY <1>5, <1>q, <1>s, <2>1, PanicAssumption DEF PanicFlowInv, Idle, LiftPaused, MoveTo
<1>6. CASE ResumePaused
  <2>1. RecoveryInOrder' /\ Stage' = Stage
    BY <1>6, <1>q, QueueKept DEF ResumePaused
  <2>2. QED
    BY <1>6, <1>q, <1>s, <2>1, PanicAssumption DEF PanicFlowInv, Idle, ResumePaused, MoveTo
<1>7. CASE Uvlo
  <2>1. printPaused \in BOOLEAN /\ EEPROM_UVLO_Z_LIFTED \in BOOLEAN /\ meshActive \in BOOLEAN
        /\ sdLine \in 0 .. PrintLines /\ sdLine = nextLine
    BY <1>7 DEF Uvlo, PanicFlowInv
  <2>2. EEPROM_UVLO_Z_LIFTED' \in BOOLEAN /\ eepromMesh' \in BOOLEAN
    BY <1>7, <2>1, Zenon DEF Uvlo
  <2>3. EEPROM_UVLO' = "PENDING" /\ eepromLine' = sdLine /\ UNCHANGED nextLine /\ Off
    BY <1>7 DEF Uvlo
  <2>4. QED
    BY <1>q, <2>1, <2>2, <2>3, FlowOff DEF PanicFlowInv
<1>8. CASE UvloTiny
  <2>1. EEPROM_UVLO' = "RETRY" /\ EEPROM_UVLO # "NO_PENDING" /\ Off
        /\ UNCHANGED <<EEPROM_UVLO_Z_LIFTED, eepromMesh, eepromLine, nextLine>>
    BY <1>8 DEF UvloTiny
  <2>2. QED
    BY <1>q, <2>1, FlowOff DEF PanicFlowInv
<1>9. CASE PowerLost
  <2>1. Off /\ UNCHANGED <<EEPROM_UVLO, EEPROM_UVLO_Z_LIFTED, eepromMesh, eepromLine, nextLine>>
    BY <1>9 DEF PowerLost
  <2>2. QED
    BY <1>q, <2>1, FlowOff DEF PanicFlowInv
<1>10. CASE Boot
  <2>1. RecoveryInOrder' /\ Stage' = Stage
    BY <1>10, <1>q, QueueKept DEF Boot
  <2>2. QED
    BY <1>10, <1>q, <1>s, <2>1, PanicAssumption DEF PanicFlowInv, Idle, Boot
<1>11. CASE RecoverPrint
  <2>1. RecoveryInOrder' /\ Stage' \in {"home", "lift"}
    BY <1>11, QueueRecovery DEF PanicFlowInv, PanicHeightTypes
  <2>2. /\ EEPROM_UVLO_Z_LIFTED' \in BOOLEAN /\ power = "asking" /\ power' = "on"
        /\ UNCHANGED <<EEPROM_UVLO, eepromLine, printing, printPaused, lifting, sdLine, nextLine,
                       eepromMesh, meshActive>>
    BY <1>11, Zenon DEF RecoverPrint
  <2>3. recovery' # <<>>
    BY <2>1 DEF Stage
  <2>4. QED
    BY <1>q, <1>s, <2>1, <2>2, <2>3 DEF PanicFlowInv, Idle, RecoveryCommands
<1>12. CASE CancelRecovery
  <2>1. RecoveryInOrder' /\ Stage' = Stage
    BY <1>12, <1>q, QueueKept DEF CancelRecovery
  <2>2. QED
    BY <1>12, <1>q, <1>s, <2>1, PanicAssumption DEF PanicFlowInv, Idle, CancelRecovery
<1>13. CASE RecoveryMove
  <2>1. RecoveryInOrder' /\ Stage \in {"lift", "down"} /\ Stage' = Follower(Stage)
    BY <1>13, <1>q, QueueTail DEF RecoveryMove, NextCommandIs, Stage
  <2>2. QED
    BY <1>13, <1>q, <1>s, <2>1, PanicAssumption DEF PanicFlowInv, Idle, RecoveryMove, NextCommandIs, Follower, RecoveryCommands
<1>14. CASE RecoveryHome
  <2>1. RecoveryInOrder' /\ Stage = "home" /\ Stage' = Follower(Stage)
    BY <1>14, <1>q, QueueTail DEF RecoveryHome, NextCommandIs, Stage
  <2>2. QED
    BY <1>14, <1>q, <1>s, <2>1, PanicAssumption DEF PanicFlowInv, Idle, RecoveryHome, NextCommandIs, Follower, RecoveryCommands
<1>15. CASE RecoveryMesh
  <2>1. RecoveryInOrder' /\ Stage = "mesh" /\ Stage' = Follower(Stage)
    BY <1>15, <1>q, QueueTail DEF RecoveryMesh, NextCommandIs, Stage
  <2>2. QED
    BY <1>15, <1>q, <1>s, <2>1, PanicAssumption DEF PanicFlowInv, Idle, RecoveryMesh, NextCommandIs, Follower, RecoveryCommands
<1>16. CASE RecoverySetLine
  <2>1. RecoveryInOrder' /\ Stage = "m26" /\ Stage' = Follower(Stage)
    BY <1>16, <1>q, QueueTail DEF RecoverySetLine, NextCommandIs, Stage
  <2>2. QED
    BY <1>16, <1>q, <1>s, <2>1, PanicAssumption DEF PanicFlowInv, Idle, RecoverySetLine, NextCommandIs, Follower, RecoveryCommands
<1>17. CASE RecoveryEnds
  <2>1. RecoveryInOrder' /\ Stage = "uvlo" /\ Stage' = "m24"
    BY <1>17, <1>q, QueueM24 DEF RecoveryEnds, NextCommandIs, Stage
  <2>2. QED
    BY <1>17, <1>q, <1>s, <2>1, PanicAssumption DEF PanicFlowInv, Idle, RecoveryEnds, NextCommandIs
<1>18. CASE RecoveryContinues
  <2>1. RecoveryInOrder' /\ Stage = "m24" /\ Stage' = Follower(Stage)
    BY <1>18, <1>q, QueueTail DEF RecoveryContinues, NextCommandIs, Stage
  <2>2. Stage' = "none" /\ recovery' = <<>>
    <3>1. Stage' = "none"
      BY <2>1 DEF Follower
    <3>2. CASE recovery' # <<>>
      <4>1. Head(recovery') \in RecoveryEntry
        BY <2>1, <3>2 DEF RecoveryInOrder
      <4>2. QED
        BY <3>1, <3>2, <4>1 DEF Stage, RecoveryEntry, RecoveryCommands
    <3>3. QED
      BY <3>1, <3>2
  <2>3. printing' \in BOOLEAN /\ printing'
    BY <1>18, Zenon DEF RecoveryContinues
  <2>4. QED
    BY <1>18, <1>q, <2>1, <2>2, <2>3 DEF PanicFlowInv, Idle, RecoveryContinues, NextCommandIs
<1>19. CASE UNCHANGED panicVars
  <2>1. RecoveryInOrder' /\ Stage' = Stage
    BY <1>19, <1>q, QueueKept
  <2>2. QED
    BY <1>19, <1>q, <2>1 DEF PanicFlowInv, Idle
<1>20. QED
  BY <1>1, <1>2, <1>3, <1>4, <1>5, <1>6, <1>7, <1>8, <1>9, <1>10, <1>11, <1>12, <1>13, <1>14, <1>15, <1>16, <1>17, <1>18, <1>19 DEF PanicNext

\* The print is always in order.
LEMMA FlowInv == PanicSpec => []PanicFlowInv
<1>1. PanicInit => PanicFlowInv
  BY FlowInit
<1>2. PanicFlowInv /\ [PanicNext]_panicVars => PanicFlowInv'
  BY FlowStep
<1>3. QED
  BY <1>1, <1>2, PTL DEF PanicSpec

\* A print that goes on goes on with the line it was interrupted in, however
\* often the power fails: uvlo_() saves the line of the print, uvlo_tiny() keeps
\* it, and M24 is not reached without M26.  No assumption on how a print is paused.
THEOREM ResumesWithItsLine == PanicSpec => []ResumesAtLine
<1>1. PanicFlowInv => ResumesAtLine
  BY DEF PanicFlowInv, ResumesAtLine
<1>2. QED
  BY <1>1, FlowInv, PTL

-----------------------------------------------------------------------------
(* Where the nozzle is.                                                       *)

\* The offset of the mesh.
LEMMA MeshOffset == /\ \A b \in BOOLEAN : Mesh(b) \in Nat
                    /\ \A b \in BOOLEAN : ~b => Mesh(b) = 0
BY PanicAssumption DEF Mesh

LEMMA HeightInit == PanicInit => PanicHeightInv
<1> SUFFICES ASSUME PanicInit PROVE PanicHeightInv
  OBVIOUS
<1>1. /\ EEPROM_UVLO = "NO_PENDING" /\ power = "on" /\ recovery = <<>> /\ Stage = "none"
      /\ eepromZ = 0 /\ eepromTinyZ = 0 /\ savedZ = 0 /\ steppersZ = 0 /\ currentZ = 0
      /\ nozzle = 0 /\ printHeight = 0
  BY DEF PanicInit, Stage
<1>2. ~printing /\ ~printPaused
  BY Zenon DEF PanicInit
<1>3. QED
  BY <1>1, <1>2 DEF PanicHeightInv, Idle

\* Where an axis may be stopped that belongs to a print: above it, unless the
\* print itself moves it.
LEMMA StoppedAbove ==
  ASSUME PanicFlowInv, PanicHeightInv, power = "on", NEW z \in StoppedAt
  PROVE  /\ z \in Nat
         /\ EEPROM_UVLO # "NO_PENDING" \/ printPaused => z >= printHeight
<1>b. /\ meshActive \in BOOLEAN /\ eepromMesh \in BOOLEAN /\ printing \in BOOLEAN
      /\ printPaused \in BOOLEAN /\ lifting \in BOOLEAN /\ RecoveryInOrder
  BY DEF PanicFlowInv
<1>m. Mesh(meshActive) \in Nat /\ Mesh(eepromMesh) \in Nat /\ (~meshActive => Mesh(meshActive) = 0)
      /\ (meshActive = eepromMesh => Mesh(meshActive) = Mesh(eepromMesh))
  BY <1>b, MeshOffset
<1>h. /\ steppersZ \in Nat /\ eepromZ \in Int /\ eepromTinyZ \in Nat /\ printHeight \in Nat
      /\ nozzle \in Int /\ Z_PAUSE_LIFT \in Nat /\ UVLO_TINY_Z_AXIS_SHIFT \in Nat /\ sdLine \in Nat
  BY PanicAssumption DEF PanicHeightInv, PanicFlowInv
<1>1. z \in Nat
  BY DEF StoppedAt
<1>2. CASE EEPROM_UVLO # "NO_PENDING"
  <2>1. ~printing /\ ~printPaused /\ ~lifting /\ Stage \in RecoveryCommands \ {"m24"}
        /\ recovery # <<>> /\ Stage = Head(recovery).c
    <3>1. Stage \in RecoveryCommands \ {"m24"}
      BY <1>2 DEF PanicFlowInv
    <3>2. recovery # <<>>
      BY <1>b, <3>1, StageNone DEF RecoveryCommands
    <3>3. ~printing /\ ~printPaused /\ ~lifting
      BY <3>2 DEF PanicFlowInv
    <3>4. QED
      BY <3>1, <3>2, <3>3 DEF Stage
  <2>2. Head(recovery) = recovery[1] /\ 1 \in 1 .. Len(recovery)
    BY <1>b, <2>1 DEF RecoveryInOrder
  <2>3. /\ Stage = "down" => Head(recovery).z = eepromZ
        /\ Stage = "lift" => Head(recovery).z = eepromTinyZ + Z_PAUSE_LIFT
    BY <1>b, <2>1, <2>2 DEF RecoveryInOrder
  <2>4. /\ nozzle = steppersZ
        /\ eepromZ + Mesh(eepromMesh) = printHeight
        /\ eepromTinyZ >= printHeight + UVLO_TINY_Z_AXIS_SHIFT
    BY <1>2, <2>1 DEF PanicHeightInv, Idle
  <2>5. CASE Stage = "lift"
    <3>1. steppersZ = eepromTinyZ /\ Mesh(meshActive) = 0
      BY <1>m, <2>4, <2>5 DEF PanicHeightInv
    <3>2. QED
      BY <1>1, <1>h, <2>1, <2>3, <2>4, <2>5, <3>1 DEF StoppedAt
  <2>6. CASE Stage = "down"
    <3>1. meshActive = eepromMesh /\ steppersZ >= printHeight + UVLO_TINY_Z_AXIS_SHIFT
      BY <2>4, <2>6 DEF PanicHeightInv
    <3>2. Head(recovery).z + Mesh(meshActive) = printHeight
      BY <1>m, <2>3, <2>4, <2>6, <3>1
    <3>3. QED
      BY <1>1, <1>h, <2>1, <2>6, <3>1, <3>2 DEF StoppedAt
  <2>7. CASE Stage \notin {"lift", "down"}
    <3>1. z = steppersZ
      BY <1>h, <2>1, <2>7 DEF StoppedAt
    <3>2. steppersZ >= printHeight
      BY <1>h, <2>1, <2>4, <2>7 DEF PanicHeightInv, RecoveryCommands
    <3>3. QED
      BY <1>1, <3>1, <3>2
  <2>8. QED
    BY <2>5, <2>6, <2>7
<1>3. CASE EEPROM_UVLO = "NO_PENDING" /\ printPaused
  <2>1. recovery = <<>> /\ ~printing /\ nozzle = steppersZ /\ nozzle >= printHeight
    BY <1>3 DEF PanicFlowInv, PanicHeightInv, Idle
  <2>2. QED
    BY <1>1, <1>h, <1>3, <2>1 DEF StoppedAt
<1>4. QED
  BY <1>1, <1>2, <1>3

\* What is known when the power is off.
LEMMA HeightOff ==
  ASSUME Off, eepromZ' \in Int, eepromTinyZ' \in Nat, nozzle' \in Int, printHeight' \in Nat,
         EEPROM_UVLO' # "NO_PENDING" => /\ eepromZ' + Mesh(eepromMesh') = printHeight'
                                        /\ eepromTinyZ' >= printHeight' + UVLO_TINY_Z_AXIS_SHIFT
                                        /\ nozzle' = eepromTinyZ'
  PROVE  PanicHeightInv'
<1>1. Stage' = "none" /\ recovery' = <<>>
  BY QueueEmpty DEF Off
<1>2. ~printing' /\ ~printPaused' /\ ~meshActive'
  BY Zenon DEF Off
<1>3. power' = "off" /\ savedZ' = 0 /\ steppersZ' = 0 /\ currentZ' = 0
  BY DEF Off
<1>4. Mesh(eepromMesh') = Mesh(eepromMesh)'
  BY DEF Mesh
<1>5. QED
  BY <1>1, <1>2, <1>3, <1>4 DEF PanicHeightInv, Idle

\* Every step keeps the heights of a print, its pause and its recovery, unless a
\* print may be paused while leveling is active.
LEMMA HeightStep ==
  ASSUME ~PausedWithMesh
  PROVE  PanicFlowInv /\ PanicHeightInv /\ [PanicNext]_panicVars => PanicHeightInv'
<1> SUFFICES ASSUME PanicFlowInv, PanicHeightInv, [PanicNext]_panicVars
             PROVE  PanicHeightInv'
  OBVIOUS
<1> USE DEF panicVars, panicEeprom, panicFlow, panicHeight, panicGhosts
<1>q. RecoveryInOrder /\ sdLine \in Nat
  BY PanicAssumption DEF PanicFlowInv
<1>b. /\ meshActive \in BOOLEAN /\ eepromMesh \in BOOLEAN /\ printing \in BOOLEAN
      /\ printPaused \in BOOLEAN /\ lifting \in BOOLEAN
  BY DEF PanicFlowInv
<1>s. /\ recovery = <<>> <=> Stage = "none"
      /\ Stage \in RecoveryCommands \union {"none"}
  BY <1>q, StageNone
<1>m. Mesh(meshActive) \in Nat /\ Mesh(eepromMesh) \in Nat /\ (~meshActive => Mesh(meshActive) = 0)
  BY <1>b, MeshOffset
<1>c. /\ UVLO_TINY_Z_AXIS_SHIFT \in Nat /\ UVLO_Z_AXIS_SHIFT \in Nat /\ Z_PAUSE_LIFT \in Nat
      /\ UVLO_Z_AXIS_SHIFT >= UVLO_TINY_Z_AXIS_SHIFT
  BY PanicAssumption
<1>1. CASE BeginPrint
  <2>1. Stage' = Stage
    BY <1>1, <1>q, QueueKept DEF BeginPrint
  <2>2. /\ power' = "on" /\ UNCHANGED <<eepromZ, eepromTinyZ, savedZ, printPaused, EEPROM_UVLO>>
        /\ currentZ' = 1 /\ steppersZ' = 1 + Mesh(meshActive') /\ nozzle' = steppersZ'
        /\ printHeight' = nozzle' /\ Idle /\ EEPROM_UVLO = "NO_PENDING"
    BY <1>1 DEF BeginPrint
  <2>3. Mesh(meshActive') \in Nat
    BY <1>1, MeshOffset DEF BeginPrint
  <2>4. Mesh(meshActive') = Mesh(meshActive)'
    BY DEF Mesh
  <2>5. QED
    BY <1>s, <2>1, <2>2, <2>3, <2>4 DEF PanicHeightInv, Idle
<1>2. CASE PrintLine
  <2>1. Stage' = Stage
    BY <1>2, <1>q, QueueKept DEF PrintLine
  <2>2. QED
    BY <1>q, <1>b, <1>s, <1>m, <1>c, <1>2, <2>1 DEF PanicFlowInv, PanicHeightInv, Idle, PrintLine, MoveTo
<1>3. CASE FinishPrint
  <2>1. Stage' = Stage
    BY <1>3, <1>q, QueueKept DEF FinishPrint
  <2>2. QED
    BY <1>q, <1>b, <1>s, <1>m, <1>c, <1>3, <2>1 DEF PanicFlowInv, PanicHeightInv, Idle, FinishPrint
<1>4. CASE SavePaused
  <2>1. Stage' = Stage
    BY <1>4, <1>q, QueueKept DEF SavePaused
  <2>2. ~meshActive /\ ~meshActive' /\ Mesh(meshActive) = 0
    BY <1>b, <1>m, <1>4 DEF SavePaused
  <2>3. /\ printing /\ ~printing' /\ printPaused' /\ savedZ' = currentZ /\ power' = "on"
        /\ UNCHANGED <<eepromZ, eepromTinyZ, steppersZ, currentZ, nozzle, printHeight, EEPROM_UVLO,
                       eepromMesh, recovery>>
    BY <1>4 DEF SavePaused
  <2>4. recovery = <<>> /\ EEPROM_UVLO = "NO_PENDING" /\ power = "on"
    BY <1>4, <2>3 DEF PanicFlowInv, SavePaused
  <2>5. /\ nozzle = printHeight /\ steppersZ = currentZ /\ nozzle = steppersZ
        /\ steppersZ \in Nat
    <3>1. /\ nozzle = printHeight /\ steppersZ = currentZ + Mesh(meshActive)
          /\ currentZ \in Int /\ steppersZ \in Nat
      BY <2>3 DEF PanicHeightInv
    <3>2. nozzle = steppersZ
      BY <2>3, <2>4 DEF PanicHeightInv, Idle
    <3>3. QED
      BY <2>2, <3>1, <3>2
  <2>6. QED
    BY <1>s, <2>1, <2>2, <2>3, <2>4, <2>5 DEF PanicHeightInv, Idle
<1>5. CASE LiftPaused
  <2>1. Stage' = Stage
    BY <1>5, <1>q, QueueKept DEF LiftPaused
  <2>2. QED
    BY <1>q, <1>b, <1>s, <1>m, <1>c, <1>5, <2>1 DEF PanicFlowInv, PanicHeightInv, Idle, LiftPaused, MoveTo
<1>6. CASE ResumePaused
  <2>1. Stage' = Stage
    BY <1>6, <1>q, QueueKept DEF ResumePaused
  <2>2. QED
    BY <1>q, <1>b, <1>s, <1>m, <1>c, <1>6, <2>1 DEF PanicFlowInv, PanicHeightInv, Idle, ResumePaused, MoveTo
<1>7. CASE Uvlo
  <2>1. PICK z \in StoppedAt :
               /\ eepromZ' = LogicalZ(IF printPaused THEN savedZ ELSE z)
               /\ eepromTinyZ' = z + UVLO_Z_AXIS_SHIFT
               /\ nozzle' = nozzle + (z - steppersZ) + UVLO_Z_AXIS_SHIFT
               /\ printHeight' = IF printPaused THEN printHeight ELSE nozzle + (z - steppersZ)
    BY <1>7 DEF Uvlo
  <2>2. /\ power = "on" /\ EEPROM_UVLO = "NO_PENDING" /\ (printing \/ printPaused)
        /\ Off /\ EEPROM_UVLO' = "PENDING"
    BY <1>7 DEF Uvlo
  <2>3. z \in Nat /\ (printPaused => z >= printHeight)
    BY <2>2, StoppedAbove
  <2>4. Mesh(eepromMesh)' = Mesh(meshActive)
    BY <1>7 DEF Uvlo, Mesh
  <2>5. nozzle = steppersZ
    BY <2>2 DEF PanicHeightInv, Idle
  <2>6. /\ steppersZ \in Nat /\ savedZ \in Nat /\ printHeight \in Nat
        /\ printPaused => savedZ = printHeight /\ Mesh(meshActive) = 0
    BY <1>m DEF PanicHeightInv
  <2>7. CASE printPaused
    BY <1>c, <2>1, <2>2, <2>3, <2>4, <2>5, <2>6, <2>7, HeightOff DEF LogicalZ
  <2>8. CASE ~printPaused
    BY <1>c, <1>m, <2>1, <2>2, <2>3, <2>4, <2>5, <2>6, <2>8, HeightOff DEF LogicalZ
  <2>9. QED
    BY <2>7, <2>8
<1>8. CASE UvloTiny
  <2>1. PICK z \in StoppedAt : TinyRaise(z)
    BY <1>8 DEF UvloTiny
  <2>2. power = "on" /\ EEPROM_UVLO # "NO_PENDING" /\ Off
        /\ UNCHANGED <<eepromZ, eepromMesh, printHeight>>
    BY <1>8 DEF UvloTiny
  <2>3. z \in Nat /\ z >= printHeight
    BY <2>2, StoppedAbove
  <2>4. recovery # <<>>
    BY <1>s, <2>2 DEF PanicFlowInv, RecoveryCommands
  <2>5. /\ nozzle = steppersZ /\ steppersZ \in Nat /\ printHeight \in Nat /\ eepromTinyZ \in Nat
        /\ eepromZ \in Int /\ eepromZ + Mesh(eepromMesh) = printHeight
        /\ eepromTinyZ >= printHeight + UVLO_TINY_Z_AXIS_SHIFT
    BY <2>2, <2>4 DEF PanicHeightInv, Idle
  <2>6. Mesh(eepromMesh)' = Mesh(eepromMesh)
    BY <2>2 DEF Mesh
  <2>7. QED
    BY <1>c, <1>m, <2>1, <2>2, <2>3, <2>5, <2>6, HeightOff DEF TinyRaise
<1>9. CASE PowerLost
  <2>1. Off /\ UNCHANGED <<panicEeprom, nozzle, printHeight>>
    BY <1>9 DEF PowerLost
  <2>2. EEPROM_UVLO # "NO_PENDING" => power = "asking"
    BY <1>9 DEF PowerLost
  <2>3. Mesh(eepromMesh)' = Mesh(eepromMesh)
    BY <2>1 DEF Mesh
  <2>4. QED
    BY <2>1, <2>2, <2>3, HeightOff DEF PanicHeightInv
<1>10. CASE Boot
  <2>1. Stage' = Stage
    BY <1>10, <1>q, QueueKept DEF Boot
  <2>2. QED
    BY <1>q, <1>b, <1>s, <1>m, <1>c, <1>10, <2>1 DEF PanicFlowInv, PanicHeightInv, Idle, Boot
<1>11. CASE RecoverPrint
  <2>1. Stage' \in {"home", "lift"}
    BY <1>11, <1>b, QueueRecovery DEF PanicFlowInv, PanicHeightTypes
  <2>2. power = "asking" /\ power' = "on" /\ steppersZ' = eepromTinyZ
        /\ UNCHANGED <<EEPROM_UVLO, eepromZ, eepromTinyZ, eepromMesh, printing, printPaused, savedZ,
                       meshActive, nozzle, printHeight>>
    BY <1>11 DEF RecoverPrint
  <2>3. EEPROM_UVLO # "NO_PENDING" /\ ~printing /\ ~printPaused
    BY <2>2 DEF PanicFlowInv, Idle
  <2>4. currentZ' \in Int
    BY <1>11, <1>c DEF RecoverPrint, PanicHeightInv
  <2>5. nozzle = eepromTinyZ /\ ~meshActive
    BY <2>2, <2>3 DEF PanicHeightInv
  <2>6. Mesh(eepromMesh)' = Mesh(eepromMesh) /\ Mesh(meshActive)' = Mesh(meshActive)
    BY <2>2 DEF Mesh
  <2>7. QED
    BY <1>c, <2>1, <2>2, <2>3, <2>4, <2>5, <2>6 DEF PanicHeightInv
<1>12. CASE CancelRecovery
  <2>1. Stage' = Stage
    BY <1>12, <1>q, QueueKept DEF CancelRecovery
  <2>2. QED
    BY <1>q, <1>b, <1>s, <1>m, <1>c, <1>12, <2>1 DEF PanicFlowInv, PanicHeightInv, Idle, CancelRecovery
<1>13. CASE RecoveryMove
  <2>1. /\ Stage \in {"lift", "down"} /\ Stage' = Follower(Stage) /\ recovery # <<>>
        /\ Stage = Head(recovery).c
    BY <1>13, <1>q, QueueTail DEF RecoveryMove, NextCommandIs, Stage
  <2>2. Head(recovery) = recovery[1] /\ 1 \in 1 .. Len(recovery)
    BY <1>q, <2>1 DEF RecoveryInOrder
  <2>3. /\ Stage = "down" => Head(recovery).z = eepromZ
        /\ Stage = "lift" => Head(recovery).z = eepromTinyZ + Z_PAUSE_LIFT
    BY <1>q, <2>1, <2>2 DEF RecoveryInOrder
  <2>4. /\ power = "on" /\ UNCHANGED <<EEPROM_UVLO, eepromZ, eepromTinyZ, eepromMesh, power, printing,
                                       printPaused, savedZ, meshActive, printHeight>>
        /\ currentZ' = Head(recovery).z /\ steppersZ' = currentZ' + Mesh(meshActive)
        /\ nozzle' = nozzle + steppersZ' - steppersZ
    BY <1>13 DEF RecoveryMove, NextCommandIs, MoveTo
  <2>5. EEPROM_UVLO # "NO_PENDING" /\ ~printing /\ ~printPaused
    BY <2>1, <2>4 DEF PanicFlowInv
  <2>6. /\ nozzle = steppersZ /\ steppersZ \in Nat /\ nozzle \in Int /\ eepromZ \in Int
        /\ eepromTinyZ \in Nat /\ printHeight \in Nat /\ savedZ \in Nat
        /\ eepromZ + Mesh(eepromMesh) = printHeight
        /\ eepromTinyZ >= printHeight + UVLO_TINY_Z_AXIS_SHIFT
    BY <2>1, <2>4, <2>5 DEF PanicHeightInv, Idle
  <2>7. Mesh(eepromMesh)' = Mesh(eepromMesh) /\ Mesh(meshActive)' = Mesh(meshActive)
    BY <2>4 DEF Mesh
  <2>8. CASE Stage = "lift"
    <3>1. Stage' = "home" /\ ~meshActive /\ Mesh(meshActive) = 0
      BY <1>m, <2>1, <2>8 DEF Follower, PanicHeightInv
    <3>2. steppersZ' = eepromTinyZ + Z_PAUSE_LIFT /\ nozzle' = steppersZ' /\ steppersZ' \in Nat
          /\ currentZ' \in Int
      BY <1>c, <2>3, <2>4, <2>6, <2>8, <3>1
    <3>3. QED
      BY <1>c, <2>4, <2>5, <2>6, <2>7, <3>1, <3>2 DEF PanicHeightInv
  <2>9. CASE Stage = "down"
    <3>1. Stage' = "m26" /\ meshActive = eepromMesh /\ Mesh(meshActive) = Mesh(eepromMesh)
      BY <2>1, <2>9 DEF Follower, PanicHeightInv
    <3>2. steppersZ' = printHeight /\ nozzle' = steppersZ' /\ currentZ' = eepromZ
          /\ steppersZ' = currentZ' + Mesh(meshActive)
      BY <1>m, <2>3, <2>4, <2>6, <2>9, <3>1
    <3>3. QED
      BY <2>4, <2>5, <2>6, <2>7, <3>1, <3>2 DEF PanicHeightInv
  <2>10. QED
    BY <2>1, <2>8, <2>9
<1>14. CASE RecoveryHome
  <2>1. Stage = "home" /\ Stage' = Follower(Stage) /\ recovery # <<>>
    BY <1>14, <1>q, QueueTail DEF RecoveryHome, NextCommandIs, Stage
  <2>2. QED
    BY <1>q, <1>b, <1>s, <1>m, <1>c, <1>14, <2>1 DEF PanicFlowInv, PanicHeightInv, Idle, RecoveryHome, NextCommandIs, Follower
<1>15. CASE RecoveryMesh
  <2>1. Stage = "mesh" /\ Stage' = Follower(Stage) /\ recovery # <<>>
    BY <1>15, <1>q, QueueTail DEF RecoveryMesh, NextCommandIs, Stage
  <2>2. QED
    BY <1>q, <1>b, <1>s, <1>m, <1>c, <1>15, <2>1 DEF PanicFlowInv, PanicHeightInv, Idle, RecoveryMesh, NextCommandIs, Follower
<1>16. CASE RecoverySetLine
  <2>1. Stage = "m26" /\ Stage' = Follower(Stage) /\ recovery # <<>>
    BY <1>16, <1>q, QueueTail DEF RecoverySetLine, NextCommandIs, Stage
  <2>2. QED
    BY <1>q, <1>b, <1>s, <1>m, <1>c, <1>16, <2>1 DEF PanicFlowInv, PanicHeightInv, Idle, RecoverySetLine, NextCommandIs, Follower
<1>17. CASE RecoveryEnds
  <2>1. Stage = "uvlo" /\ Stage' = "m24" /\ recovery # <<>>
    BY <1>17, <1>q, QueueM24 DEF RecoveryEnds, NextCommandIs, Stage
  <2>2. QED
    BY <1>q, <1>b, <1>s, <1>m, <1>c, <1>17, <2>1 DEF PanicFlowInv, PanicHeightInv, Idle, RecoveryEnds, NextCommandIs
<1>18. CASE RecoveryContinues
  <2>1. Stage = "m24" /\ Stage' = Follower(Stage) /\ recovery # <<>>
    BY <1>18, <1>q, QueueTail DEF RecoveryContinues, NextCommandIs, Stage
  <2>2. QED
    BY <1>q, <1>b, <1>s, <1>m, <1>c, <1>18, <2>1 DEF PanicFlowInv, PanicHeightInv, Idle, RecoveryContinues, NextCommandIs, Follower
<1>19. CASE UNCHANGED panicVars
  <2>1. Stage' = Stage
    BY <1>19, <1>q, QueueKept
  <2>2. QED
    BY <1>19, <2>1 DEF PanicHeightInv, Idle, Mesh
<1>20. QED
  BY <1>1, <1>2, <1>3, <1>4, <1>5, <1>6, <1>7, <1>8, <1>9, <1>10, <1>11, <1>12, <1>13, <1>14, <1>15, <1>16, <1>17, <1>18, <1>19 DEF PanicNext
\* The heights are always in order, unless a print may be paused while leveling
\* is active.
LEMMA HeightInv == ASSUME ~PausedWithMesh PROVE PanicSpec => []PanicHeightInv
<1>1. PanicInit => PanicHeightInv
  BY HeightInit
<1>2. PanicFlowInv /\ PanicHeightInv /\ [PanicNext]_panicVars => PanicHeightInv'
  BY HeightStep
<1>3. QED
  BY <1>1, <1>2, FlowInv, PTL DEF PanicSpec

\* The recovery lifts and homes clear of the print, wherever in an earlier
\* recovery uvlo_tiny() stopped the axis: the height it writes to the EEPROM is
\* the one it leaves the nozzle at.
THEOREM HomesAboveThePrint == ASSUME ~PausedWithMesh PROVE PanicSpec => []HomesClear
<1>1. PanicFlowInv /\ PanicHeightInv => HomesClear
  BY DEF PanicFlowInv, PanicHeightInv, HomesClear, NextCommandIs, Stage
<1>2. QED
  BY <1>1, FlowInv, HeightInv, PTL

\* The nozzle goes on at the height where the print was interrupted: G1 Z of
\* restore_print_from_eeprom() and the leveling that PRUSA MBL V1 activates
\* again cancel what uvlo_() has taken off.
THEOREM GoesOnAtItsHeight == ASSUME ~PausedWithMesh PROVE PanicSpec => []NozzleAtPrint
<1>1. PanicHeightInv => NozzleAtPrint
  BY DEF PanicHeightInv, NozzleAtPrint
<1>2. QED
  BY <1>1, HeightInv, PTL

LEMMA PanicInvTyped == PanicFlowInv /\ PanicHeightInv => PanicTypeOK
  <1> SUFFICES ASSUME PanicFlowInv, PanicHeightInv PROVE PanicTypeOK
    OBVIOUS
  <1>1. ASSUME NEW i \in DOMAIN recovery
        PROVE  recovery[i].c \in {"lift", "home", "mesh", "down", "m26", "uvlo", "m24"}
    <2>1. recovery[i] \in RecoveryEntry
      BY DEF PanicFlowInv, RecoveryInOrder
    <2>2. QED
      BY <2>1 DEF RecoveryEntry, RecoveryCommands
  <1>2. QED
    BY <1>1 DEF PanicFlowInv, PanicHeightInv, PanicTypeOK

\* The variables of the recovery stay in their types.
THEOREM PanicTyped == ASSUME ~PausedWithMesh PROVE PanicSpec => []PanicTypeOK
  BY PanicInvTyped, FlowInv, HeightInv, PTL
=============================================================================
