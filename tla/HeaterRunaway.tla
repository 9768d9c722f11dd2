---------------------------- MODULE HeaterRunaway ----------------------------
(***************************************************************************)
(* temp_runaway_check() of temperature.cpp for one heater: every two       *)
(* seconds it compares the temperature with the target, watches the rise   *)
(* of a heater that preheats and counts the checks an active heater is out *)
(* of range.  Its report switches the heater off for good.                 *)
(***************************************************************************)
EXTENDS Integers

CONSTANTS MaxTemp, HeaterTargets, Hysteresis,
          RunawayTimeout,  \* seconds out of range
          PreheatChecks,   \* checks of a preheat period (16 or 8)
          PreheatErrors,   \* periods without a rise (3 or 5)
          PreheatDelta     \* the rise of a period

ASSUME RunawayAssumption ==
  /\ MaxTemp \in Nat /\ HeaterTargets \subseteq 1 .. MaxTemp
  /\ Hysteresis \in Nat \ {0} /\ RunawayTimeout \in Nat /\ PreheatChecks \in Nat
  /\ PreheatErrors \in Nat /\ PreheatDelta \in Nat \ {0}

VARIABLES heaterTarget, heaterTemp, heaterOutput, \* the arguments of the check
          temp_runaway_status, temp_runaway_target, temp_runaway_error_counter,
          preheat_start, preheat_counter, preheat_errors,
          heaterReported
runawayHeater == <<heaterTarget, heaterTemp, heaterOutput>>
runawayState  == <<temp_runaway_status, temp_runaway_target, temp_runaway_error_counter,
                   preheat_start, preheat_counter, preheat_errors>>
runawayVars   == <<runawayHeater, runawayState, heaterReported>>

RunawayInit ==
  /\ heaterTarget = 0 /\ heaterTemp = 0 /\ heaterOutput = FALSE
  /\ temp_runaway_status = "INACTIVE" /\ temp_runaway_target = 0 /\ temp_runaway_error_counter = 0
  /\ preheat_start = 0 /\ preheat_counter = 0 /\ preheat_errors = 0
  /\ heaterReported = FALSE

InRange == heaterTemp > heaterTarget - Hysteresis /\ heaterTemp < heaterTarget + Hysteresis

-----------------------------------------------------------------------------
\* The heater and its regulator: anything between two checks.
HeaterMoves ==
  /\ heaterTemp' \in 0 .. MaxTemp
  /\ heaterOutput' \in BOOLEAN /\ (heaterOutput' => heaterTarget # 0)
  /\ UNCHANGED <<heaterTarget, runawayState, heaterReported>>

SetHeaterTarget ==
  /\ ~heaterReported
  /\ heaterTarget' \in {0} \union HeaterTargets
  /\ heaterOutput' = (heaterOutput /\ heaterTarget' # 0)
  /\ UNCHANGED <<heaterTemp, runawayState, heaterReported>>

\* The errors of a preheat as they would be if the rise were compared with 0.
ErrorsWhenFalling(start) == IF heaterTemp - start < 0 THEN preheat_errors + 1 ELSE 0
\* The errors of a preheat after a period that began at `start'.
ErrorsAfter(start) == IF heaterTemp - start < PreheatDelta THEN preheat_errors + 1 ELSE 0

\* temp_runaway_check(), when its two seconds are over.
RunawayCheck ==
  LET fresh    == temp_runaway_target # heaterTarget
      status   == IF ~fresh THEN temp_runaway_status
                  ELSE IF heaterTarget > 0 THEN "PREHEAT" ELSE "INACTIVE"
      restarts == fresh /\ heaterTarget > 0
      start    == IF restarts THEN heaterTemp ELSE preheat_start
      heating  == heaterTemp < heaterTarget /\ status = "PREHEAT"
      count    == (IF restarts THEN 0 ELSE preheat_counter) + (IF heating THEN 1 ELSE 0)
      due      == heating /\ count > PreheatChecks
      errors   == IF due THEN ErrorsAfter(start) ELSE preheat_errors
      reached  == status = "PREHEAT" /\ heaterTemp > heaterTarget - Hysteresis
      active   == reached \/ status = "ACTIVE"
      counted  == IF heaterOutput /\ ~reached THEN temp_runaway_error_counter ELSE 0
      counter  == IF ~heaterOutput \/ InRange THEN IF heaterOutput THEN 0 ELSE counted
                  ELSE IF active THEN counted + 1 ELSE counted
      failed   == \/ due /\ errors > PreheatErrors
                  \/ heaterOutput /\ ~InRange /\ active /\ counter * 2 > RunawayTimeout
  IN  /\ temp_runaway_status' = IF reached THEN "ACTIVE" ELSE status
      /\ temp_runaway_target' = heaterTarget
      /\ temp_runaway_error_counter' = counter
      /\ preheat_start' = IF due THEN heaterTemp ELSE start
      /\ preheat_counter' = IF due THEN 0 ELSE count
      /\ preheat_errors' = errors
      /\ heaterReported' = (heaterReported \/ failed)
      /\ IF failed THEN heaterTarget' = 0 /\ heaterOutput' = FALSE
                   ELSE UNCHANGED <<heaterTarget, heaterOutput>>
      /\ UNCHANGED heaterTemp

RunawayNext == HeaterMoves \/ SetHeaterTarget \/ RunawayCheck
RunawaySpec == RunawayInit /\ [][RunawayNext]_runawayVars /\ WF_runawayVars(RunawayCheck)

-----------------------------------------------------------------------------
RunawayTypeOK ==
  /\ heaterTarget \in {0} \union HeaterTargets /\ heaterTemp \in 0 .. MaxTemp
  /\ heaterOutput \in BOOLEAN /\ heaterReported \in BOOLEAN
  /\ temp_runaway_status \in {"INACTIVE", "PREHEAT", "ACTIVE"}
  /\ temp_runaway_target \in {0} \union HeaterTargets
  /\ temp_runaway_error_counter \in 0 .. RunawayTimeout + 1
  /\ preheat_start \in 0 .. MaxTemp /\ preheat_counter \in 0 .. PreheatChecks
  /\ preheat_errors \in 0 .. PreheatErrors + 1

\* A heater that is driven and does not get into the range of its target by
\* getting warmer is reported, whatever targets, temperatures and pauses of
\* its output the counters have seen before.
StuckHeaterReported ==
  /\ <>[](heaterOutput /\ ~InRange)
  /\ <>[][heaterTarget' = heaterTarget /\ heaterTemp' <= heaterTemp]_<<heaterTarget, heaterTemp>>
  => <>heaterReported
=============================================================================
