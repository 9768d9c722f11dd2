------------------------------ MODULE FanCheck ------------------------------
(***************************************************************************)
(* fancheck.cpp: the two fans are judged every five seconds; a fan that is *)
(* too slow for several checks pauses the print, and lcd_resume_print()    *)
(* does not restore it before the error is gone.  Both sides share the     *)
(* saved print and the pause with the menus.                               *)
(***************************************************************************)
EXTENDS Integers, FiniteSets

CONSTANTS Fans,            \* 0: hotend, 1: print fan
          MaxFanErrors,    \* max_fan_errors of both fans
          ErrorCounts      \* the values of an element of fan_speed_errors (256)

ASSUME FanAssumption ==
  /\ IsFiniteSet(Fans) /\ MaxFanErrors \in Nat /\ ErrorCounts \in Nat
  /\ ErrorCounts > MaxFanErrors + 1

VARIABLES fan_speed_errors, fan_check_error, fans_check_enabled, eepromCheck,
          slow,              \* fans that should turn and are measured too slow
          sdprinting, saved_printing, did_pause_print,
          jobTimer,          \* print_job_timer
          resuming,          \* where lcd_resume_print() is
          lateError          \* ghost: the error was reported in a restore
fanVars == <<fan_speed_errors, fan_check_error, fans_check_enabled, eepromCheck, slow,
             sdprinting, saved_printing, did_pause_print, jobTimer, resuming, lateError>>
fanSensors == <<fan_speed_errors, slow>>
fanPrint   == <<sdprinting, saved_printing, did_pause_print, jobTimer>>

printJobOngoing  == sdprinting \/ jobTimer = "running"
printingIsPaused == did_pause_print \/ jobTimer = "paused"
printer_active   == printJobOngoing \/ printingIsPaused \/ saved_printing

FanInit ==
  /\ fan_speed_errors = [f \in Fans |-> 0] /\ fan_check_error = "OK"
  /\ fans_check_enabled = TRUE /\ eepromCheck = TRUE /\ slow = {}
  /\ sdprinting = FALSE /\ saved_printing = FALSE /\ did_pause_print = FALSE
  /\ jobTimer = "stopped" /\ resuming = "no" /\ lateError = FALSE

-----------------------------------------------------------------------------
(* lcd_pause_print(): a print that is saved already stays as it was saved. *)
PausePrint ==
  /\ sdprinting' = (sdprinting /\ saved_printing)
  /\ saved_printing' = TRUE /\ did_pause_print' = TRUE
  /\ jobTimer' = IF jobTimer = "running" THEN "paused" ELSE jobTimer

\* A fan gets slow, gets well or need not turn.
FanChanges ==
  /\ \E f \in Fans : slow' = (slow \ {f}) \union ({f} \ slow)
  /\ UNCHANGED <<fan_speed_errors, fan_check_error, fans_check_enabled, eepromCheck,
                 fanPrint, resuming, lateError>>

FanErrors(errors) == [f \in Fans |-> IF f \in slow THEN (errors[f] + 1) % ErrorCounts ELSE 0]

\* The state of the error before new errors are looked for, as it would be if
\* a fixed error waited for the next resume, also of an idle printer.
FixedStays(errors) ==
  IF fan_check_error = "REPORTED" /\ \A f \in Fans : errors[f] = 0 THEN "FIXED"
  ELSE fan_check_error

\* The state of the error before new errors are looked for.
FanFixed(errors) ==
  LET e == IF fan_check_error = "REPORTED" /\ \A f \in Fans : errors[f] = 0 THEN "FIXED"
           ELSE fan_check_error
  IN  IF e = "FIXED" /\ ~printer_active THEN "OK" ELSE e

\* fanSpeedError() as it would be without the pause.
ReportOnly == UNCHANGED fanPrint

\* What fanSpeedError() does to a print.
FanSpeedError ==
  IF printJobOngoing /\ ~printingIsPaused THEN PausePrint ELSE UNCHANGED fanPrint

\* checkFanSpeed(), called by manage_heater() wherever the program waits.
CheckFanSpeed ==
  LET errors  == FanErrors(fan_speed_errors)
      e       == FanFixed(errors)
      enabled == fans_check_enabled /\ eepromCheck
      failed  == {f \in Fans : errors[f] > MaxFanErrors}
  IN  /\ fans_check_enabled' = enabled
      /\ IF enabled /\ e = "OK" /\ failed # {}
         THEN /\ fan_check_error' = "REPORTED"
              /\ fan_speed_errors' = [f \in Fans |-> IF f \in failed THEN 0 ELSE errors[f]]
              /\ FanSpeedError /\ lateError' = (resuming \in {"heating", "moving"})
         ELSE /\ fan_check_error' = e /\ fan_speed_errors' = errors
              /\ UNCHANGED <<fanPrint, lateError>>
      /\ UNCHANGED <<eepromCheck, slow, resuming>>

-----------------------------------------------------------------------------
(* The menus.                                                              *)

\* A print can only be started while no error is reported.
StartPrint ==
  /\ ~printer_active /\ resuming = "no" /\ fan_check_error # "REPORTED"
  /\ sdprinting' = TRUE /\ jobTimer' = "running"
  /\ UNCHANGED <<fanSensors, fan_check_error, fans_check_enabled, eepromCheck,
                 saved_printing, did_pause_print, resuming, lateError>>

PauseFromMenu ==
  /\ resuming = "no" /\ sdprinting /\ ~printingIsPaused
  /\ PausePrint
  /\ UNCHANGED <<fanSensors, fan_check_error, fans_check_enabled, eepromCheck, resuming, lateError>>

\* The print ends or is stopped.
EndPrint ==
  /\ resuming = "no" /\ printer_active
  /\ sdprinting' = FALSE /\ saved_printing' = FALSE /\ did_pause_print' = FALSE
  /\ jobTimer' = "stopped"
  /\ UNCHANGED <<fanSensors, fan_check_error, fans_check_enabled, eepromCheck, resuming, lateError>>

\* lcd_set_fan_check()
ToggleCheck ==
  /\ resuming = "no"
  /\ fans_check_enabled' = ~fans_check_enabled /\ eepromCheck' = fans_check_enabled'
  /\ fan_check_error' = IF fans_check_enabled' THEN fan_check_error ELSE "OK"
  /\ UNCHANGED <<fanSensors, fanPrint, resuming, lateError>>

\* lcd_resume_print(): the checks of resume_print_checks() at full speed of the
\* fans, with the check of the speed they contain, then st_synchronize().
BeginResume ==
  /\ resuming = "no" /\ printingIsPaused /\ saved_printing
  /\ IF fans_check_enabled
     THEN /\ slow = {} /\ fan_check_error' = FanFixed(FanErrors(fan_speed_errors))
          /\ fan_speed_errors' = FanErrors(fan_speed_errors)
          /\ fans_check_enabled' = eepromCheck
     ELSE /\ fan_check_error # "REPORTED"
          /\ UNCHANGED <<fan_check_error, fan_speed_errors, fans_check_enabled>>
  /\ resuming' = "synchronizing"
  /\ UNCHANGED <<eepromCheck, slow, fanPrint, lateError>>

\* restore_print_from_ram_and_continue() is refused without a word, and
\* lcd_resume_print() goes on as if it had restored the print.
RestoreSaved ==
  /\ resuming = "synchronizing"
  /\ IF fan_check_error = "REPORTED"
     THEN /\ resuming' = "no" /\ did_pause_print' = FALSE
          /\ jobTimer' = IF jobTimer = "paused" THEN "running" ELSE jobTimer
          /\ UNCHANGED fan_check_error
     ELSE /\ resuming' = "heating" /\ UNCHANGED <<did_pause_print, jobTimer>>
          /\ fan_check_error' = IF fan_check_error = "FIXED" THEN "OK" ELSE fan_check_error
  /\ UNCHANGED <<fanSensors, fans_check_enabled, eepromCheck, sdprinting, saved_printing, lateError>>

\* The temperatures are reached; the fans are not checked during the moves.
RestoreMoves ==
  /\ resuming = "heating" /\ resuming' = "moving" /\ fans_check_enabled' = FALSE
  /\ UNCHANGED <<fanSensors, fan_check_error, eepromCheck, fanPrint, lateError>>

RestoreDone ==
  /\ resuming = "moving" /\ resuming' = "no" /\ fans_check_enabled' = TRUE
  /\ sdprinting' = TRUE /\ saved_printing' = FALSE /\ did_pause_print' = FALSE
  /\ jobTimer' = IF jobTimer = "paused" THEN "running" ELSE jobTimer
  /\ UNCHANGED <<fanSensors, fan_check_error, eepromCheck, lateError>>

FanNext == \/ FanChanges \/ CheckFanSpeed \/ StartPrint \/ PauseFromMenu \/ EndPrint
           \/ ToggleCheck \/ BeginResume \/ RestoreSaved \/ RestoreMoves \/ RestoreDone
FanSpec == FanInit /\ [][FanNext]_fanVars /\ WF_fanVars(CheckFanSpeed)

-----------------------------------------------------------------------------
FanTypeOK ==
  /\ fan_speed_errors \in [Fans -> 0 .. ErrorCounts - 1]
  /\ fan_check_error \in {"OK", "REPORTED", "FIXED"}
  /\ fans_check_enabled \in BOOLEAN /\ eepromCheck \in BOOLEAN /\ slow \subseteq Fans
  /\ sdprinting \in BOOLEAN /\ saved_printing \in BOOLEAN /\ did_pause_print \in BOOLEAN
  /\ jobTimer \in {"stopped", "running", "paused"}
  /\ resuming \in {"no", "synchronizing", "heating", "moving"} /\ lateError \in BOOLEAN

\* No print goes on while a fan error is reported: the report pauses it, and
\* "Do not allow resume printing if fans are still not ok".  The exception: an
\* error that is reported while the restore heats up or moves does not pause
\* the print, which is paused already, and the restore goes on.
NoPrintWithFanError == fan_check_error = "REPORTED" /\ sdprinting => lateError

\* The inductive invariant: a print that goes on is neither saved nor paused,
\* a paused one has its timer paused, a resumed one has a timer, and an error
\* that is reported behind the test of the restore is a late one.
FanInv ==
  /\ FanTypeOK
  /\ sdprinting => ~saved_printing /\ ~did_pause_print /\ jobTimer = "running"
  /\ did_pause_print => jobTimer = "paused"
  /\ resuming # "no" => jobTimer # "stopped"
  /\ fan_check_error = "REPORTED" /\ (sdprinting \/ resuming \in {"heating", "moving"})
       => lateError

\* Once the fans turn and the printer stays idle, the error goes away by
\* itself, whatever the counters and the menus have been through.
FanErrorClears ==
  <>[](slow = {} /\ ~printer_active) => <>[](fan_check_error = "OK")
=============================================================================
