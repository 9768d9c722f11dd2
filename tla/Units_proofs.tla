----------------------------- MODULE Units_proofs -----------------------------
(***************************************************************************)
(* The units together, as the run of MCUnits has them: each takes steps of *)
(* its own specification or none, whichever unit runs.                     *)
(***************************************************************************)
EXTENDS MCUnits, Guards_proofs, Serial_proofs, Lookahead_proofs

\* A step of the unit that runs is a step of its specification, and no step of
\* the others.
LEMMA UnitsStep ==
    ASSUME [UnitsNext]_unitVars
    PROVE  /\ [PwmNext]_pwmVars
           /\ [TimerNext]_timerVars
           /\ [CmdNext]_cmdVars
           /\ [FanNext]_fanVars
           /\ [PanicNext]_panicVars
           /\ [HostNextStep]_hostVars
           /\ [RxNext]_rxVars
           /\ [ThermalNext]_thermalVars
           /\ [RunawayNext]_runawayVars
           /\ [LookaheadNext]_lookaheadVars
  <1>1. CASE UNCHANGED unitVars
    BY <1>1 DEF unitVars
  <1>2. CASE Only("pwm") /\ PwmNext
    <2>1. UNCHANGED <<timerVars, cmdVars, fanVars, panicVars, hostVars, rxVars, thermalVars, runawayVars, lookaheadVars>>
      BY <1>2, Zenon DEF Only, Kept
    <2> QED
      BY <1>2, <2>1
  <1>3. CASE Only("timer") /\ TimerNext
    <2>1. UNCHANGED <<pwmVars, cmdVars, fanVars, panicVars, hostVars, rxVars, thermalVars, runawayVars, lookaheadVars>>
      BY <1>3, Zenon DEF Only, Kept
    <2> QED
      BY <1>3, <2>1
  <1>4. CASE Only("cmd") /\ CmdNext
    <2>1. UNCHANGED <<pwmVars, timerVars, fanVars, panicVars, hostVars, rxVars, thermalVars, runawayVars, lookaheadVars>>
      BY <1>4, Zenon DEF Only, Kept
    <2> QED
      BY <1>4, <2>1
  <1>5. CASE Only("fan") /\ FanNext
    <2>1. UNCHANGED <<pwmVars, timerVars, cmdVars, panicVars, hostVars, rxVars, thermalVars, runawayVars, lookaheadVars>>
      BY <1>5, Zenon DEF Only, Kept
    <2> QED
      BY <1>5, <2>1
  <1>6. CASE Only("panic") /\ PanicNext
    <2>1. UNCHANGED <<pwmVars, timerVars, cmdVars, fanVars, hostVars, rxVars, thermalVars, runawayVars, lookaheadVars>>
      BY <1>6, Zenon DEF Only, Kept
    <2> QED
      BY <1>6, <2>1
  <1>7. CASE Only("host") /\ HostNextStep
    <2>1. UNCHANGED <<pwmVars, timerVars, cmdVars, fanVars, panicVars, rxVars, thermalVars, runawayVars, lookaheadVars>>
      BY <1>7, Zenon DEF Only, Kept
    <2> QED
      BY <1>7, <2>1
  <1>8. CASE Only("rx") /\ RxNext
    <2>1. UNCHANGED <<pwmVars, timerVars, cmdVars, fanVars, panicVars, hostVars, thermalVars, runawayVars, lookaheadVars>>
      BY <1>8, Zenon DEF Only, Kept
    <2> QED
      BY <1>8, <2>1
  <1>9. CASE Only("thermal") /\ ThermalNext
    <2>1. UNCHANGED <<pwmVars, timerVars, cmdVars, fanVars, panicVars, hostVars, rxVars, runawayVars, lookaheadVars>>
      BY <1>9, Zenon DEF Only, Kept
    <2> QED
      BY <1>9, <2>1
  <1>10. CASE Only("runaway") /\ RunawayNext
    <2>1. UNCHANGED <<pwmVars, timerVars, cmdVars, fanVars, panicVars, hostVars, rxVars, thermalVars, lookaheadVars>>
      BY <1>10, Zenon DEF Only, Kept
    <2> QED
      BY <1>10, <2>1
  <1>11. CASE Only("lookahead") /\ LookaheadNext
    <2>1. UNCHANGED <<pwmVars, timerVars, cmdVars, fanVars, panicVars, hostVars, rxVars, thermalVars, runawayVars>>
      BY <1>11, Zenon DEF Only, Kept
    <2> QED
      BY <1>11, <2>1
  <1> QED
    BY <1>1, <1>2, <1>3, <1>4, <1>5, <1>6, <1>7, <1>8, <1>9, <1>10, <1>11 DEF UnitsNext

\* The invariants of the units, of which the types follow.
UnitsInv ==
  /\ unit \in Units
  /\ PwmInv /\ TimerInv /\ QueueInv /\ FanInv /\ PanicFlowInv /\ PanicHeightInv
  /\ HostInv /\ HostBounds /\ RxInv /\ ThermalInv /\ RunawayInv /\ LookaheadInv

LEMMA UnitsInitInv == ASSUME ~PausedWithMesh, ~UiWhileReceiving PROVE UnitsInit => UnitsInv
  BY PwmInitInv, TimerInitInv, QueueInit, FanInitInv, FlowInit, HeightInit, HostInitInv,
     HostBoundsInit, RxInitInv, ThermalInitInv, RunawayInitInv, LookaheadInitInv
     DEF UnitsInit, UnitsInv

LEMMA UnitsStepInv ==
    ASSUME ~PausedWithMesh, ~UiWhileReceiving
    PROVE  UnitsInv /\ PlannedLines < LINES_MOD /\ [UnitsNext]_unitVars => UnitsInv'
  <1> SUFFICES ASSUME UnitsInv, PlannedLines < LINES_MOD, [UnitsNext]_unitVars PROVE UnitsInv'
    OBVIOUS
  <1> USE DEF UnitsInv
  <1>1. PwmInv' /\ TimerInv' /\ FanInv' /\ ThermalInv' /\ RunawayInv'
    BY UnitsStep, PwmStepInv, TimerStepInv, FanStepInv, ThermalStepInv, RunawayStepInv
  <1>2. QueueInv' /\ RxInv' /\ LookaheadInv'
    BY UnitsStep, QueueKeeps, RxStepInv, LookaheadStepInv
  <1>3. PanicFlowInv' /\ PanicHeightInv'
    BY UnitsStep, FlowStep, HeightStep
  <1>4. HostInv' /\ HostBounds'
    BY UnitsStep, HostStepInv, HostBoundsStep
  <1>5. unit' \in Units
    BY UnitsAssumption DEF UnitsNext, Only, unitVars
  <1> QED
    BY <1>1, <1>2, <1>3, <1>4, <1>5

LEMMA UnitsInvTyped == UnitsInv => UnitsTypeOK
  <1> SUFFICES ASSUME UnitsInv PROVE UnitsTypeOK
    OBVIOUS
  <1>1. /\ PwmTypeOK /\ TimerTypeOK /\ CmdTypeOK /\ FanTypeOK /\ PanicTypeOK /\ HostTypeOK
        /\ RxTypeOK /\ ThermalTypeOK /\ RunawayTypeOK /\ LookaheadTypeOK
    BY QueueTyped, PanicInvTyped, HostBoundsTyped, RxInvTyped, LookaheadInvTyped
       DEF UnitsInv, PwmInv, TimerInv, FanInv, ThermalInv, RunawayInv
  <1>2. unit \in {"pwm", "timer", "cmd", "fan", "panic", "host", "rx", "thermal", "runaway",
                  "lookahead"}
    BY UnitsAssumption DEF UnitsInv
  <1> QED
    BY <1>1, <1>2 DEF UnitsTypeOK

\* Types of whichever unit runs: the counters, indices and states of the ten
\* parts keep the ranges they have in the code, for all sizes and limits.
THEOREM UnitsTyped ==
    ASSUME ~PausedWithMesh, ~UiWhileReceiving
    PROVE  UnitsSpec /\ [](PlannedLines < LINES_MOD) => []UnitsTypeOK
  <1> QED
    BY UnitsInitInv, UnitsStepInv, UnitsInvTyped, PTL DEF UnitsSpec
=============================================================================
