------------------------------- MODULE MCUnits -------------------------------
(***************************************************************************)
(* The parts of the firmware that are checked each on its own, on small    *)
(* instances: a behaviour runs one of the units and leaves the others as   *)
(* they are, so that the state spaces add up and do not multiply.          *)
(***************************************************************************)
EXTENDS HeatbedPwm, Timer, CmdBuffer, FanCheck, PowerPanic, HostPrint, SerialRx,
        ThermalGuard, HeaterRunaway, Lookahead

CONSTANT Units \* the units that are run

ASSUME UnitsAssumption ==
  Units \subseteq {"pwm", "timer", "cmd", "fan", "panic", "host", "rx", "thermal", "runaway",
                   "lookahead"}

\* A long and a short move; the short one reaches its speed in its length.
MixedMoves == {[nominal |-> 6, safe |-> 1, gain |-> 2], [nominal |-> 4, safe |-> 3, gain |-> 2]}

VARIABLE unit
unitVars == <<unit, pwmVars, timerVars, cmdVars, fanVars, panicVars, hostVars, rxVars,
              thermalVars, runawayVars, lookaheadVars>>

UnitsInit ==
  /\ unit \in Units
  /\ PwmInit /\ TimerInit /\ CmdInit /\ FanInit /\ PanicInit /\ HostInit /\ RxInit
  /\ ThermalInit /\ RunawayInit /\ LookaheadInit

Kept(name, vars) == IF unit = name THEN TRUE ELSE UNCHANGED vars

Only(name) ==
  /\ unit = name /\ UNCHANGED unit
  /\ Kept("pwm", pwmVars) /\ Kept("timer", timerVars) /\ Kept("cmd", cmdVars)
  /\ Kept("fan", fanVars) /\ Kept("panic", panicVars) /\ Kept("host", hostVars)
  /\ Kept("rx", rxVars) /\ Kept("thermal", thermalVars) /\ Kept("runaway", runawayVars)
  /\ Kept("lookahead", lookaheadVars)

UnitsNext ==
  \/ Only("pwm") /\ PwmNext
  \/ Only("timer") /\ TimerNext
  \/ Only("cmd") /\ CmdNext
  \/ Only("fan") /\ FanNext
  \/ Only("panic") /\ PanicNext
  \/ Only("host") /\ HostNextStep
  \/ Only("rx") /\ RxNext
  \/ Only("thermal") /\ ThermalNext
  \/ Only("runaway") /\ RunawayNext
  \/ Only("lookahead") /\ LookaheadNext

UnitsSpec == UnitsInit /\ [][UnitsNext]_unitVars

\* The fairness of each unit's own specification.
UnitsFairSpec ==
  /\ UnitsSpec
  /\ WF_pwmVars(unit = "pwm" /\ BedIsr)
  /\ WF_fanVars(unit = "fan" /\ CheckFanSpeed)
  /\ WF_hostVars(unit = "host" /\ HostSend) /\ WF_hostVars(unit = "host" /\ HostReads)
  /\ WF_hostVars(unit = "host" /\ HostTimeout) /\ WF_hostVars(unit = "host" /\ GetLine)
  /\ WF_hostVars(unit = "host" /\ ProcessLine) /\ WF_hostVars(unit = "host" /\ FinishBlock)
  /\ WF_hostVars(unit = "host" /\ RestoreHostPrint)
  /\ WF_thermalVars(unit = "thermal" /\ TempMgrIsr)
  /\ WF_thermalVars(unit = "thermal" /\ ManageHeater)
  /\ WF_runawayVars(unit = "runaway" /\ RunawayCheck)

\* The types of the variables of the unit that runs, and so of all units.
UnitsTypeOK ==
  CASE unit = "pwm"     -> PwmTypeOK     [] unit = "timer"     -> TimerTypeOK
    [] unit = "cmd"     -> CmdTypeOK     [] unit = "fan"       -> FanTypeOK
    [] unit = "panic"   -> PanicTypeOK   [] unit = "host"      -> HostTypeOK
    [] unit = "rx"      -> RxTypeOK      [] unit = "thermal"   -> ThermalTypeOK
    [] unit = "runaway" -> RunawayTypeOK [] unit = "lookahead" -> LookaheadTypeOK
=============================================================================
