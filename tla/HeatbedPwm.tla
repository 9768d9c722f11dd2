----------------------------- MODULE HeatbedPwm -----------------------------
(***************************************************************************)
(* heatbed_pwm.cpp: the automaton of the timer 0 interrupt, which switches *)
(* the bed at 30 Hz and softens the edges with bursts of fast PWM.  The    *)
(* main loop sets soft_pwm_bed and holds the output with bedPWMDisabled    *)
(* whenever it likes.  The registers of the timer are left out; onTicks,   *)
(* offTicks and rises are ghosts.                                          *)
(***************************************************************************)
EXTENDS Integers

CONSTANTS PwmLevels, \* values of the slow counter (256)
          FastMax    \* steps of an edge (16)

ASSUME PwmAssumption ==
  PwmLevels \in Nat /\ PwmLevels > 4 /\ PwmLevels % 2 = 0 /\ FastMax \in Nat \ {0}

VARIABLES bedState, slowCounter, fastCounter,
          pwm,            \* cache of soft_pwm_bed for a whole cycle
          soft_pwm_bed, bedPWMDisabled,
          onTicks, offTicks, \* slow ticks since the last rise, on and off
          rises           \* rises since the main loop last changed anything (at most 3)
pwmVars == <<bedState, slowCounter, fastCounter, pwm, soft_pwm_bed, bedPWMDisabled,
             onTicks, offTicks, rises>>
pwmGhosts == <<onTicks, offTicks, rises>>
pwmInputs == <<soft_pwm_bed, bedPWMDisabled>>

SoftLevels == 0 .. PwmLevels \div 2 - 1
slowInc    == 1
Counted(ticks) == IF ticks < PwmLevels THEN ticks + 1 ELSE ticks

PwmInit ==
  /\ bedState = "ZERO_START" /\ slowCounter = 0 /\ fastCounter = 0 /\ pwm = 0
  /\ soft_pwm_bed = 0 /\ bedPWMDisabled = FALSE
  /\ onTicks = 0 /\ offTicks = 0 /\ rises = 0

-----------------------------------------------------------------------------
(* The interrupt, one action per state.                                    *)

ZeroStart ==
  /\ bedState = "ZERO_START" /\ ~bedPWMDisabled
  /\ pwm' = 2 * soft_pwm_bed
  /\ bedState' = IF pwm' # 0 THEN "ZERO" ELSE bedState
  /\ UNCHANGED <<slowCounter, fastCounter, pwmInputs, pwmGhosts>>

Zero ==
  /\ bedState = "ZERO"
  /\ slowCounter' = (slowCounter + slowInc) % PwmLevels
  /\ bedState' = IF slowCounter' > pwm THEN bedState ELSE "ZERO_TO_RISE"
  /\ offTicks' = Counted(offTicks)
  /\ UNCHANGED <<fastCounter, pwm, pwmInputs, onTicks, rises>>

ZeroToRise ==
  /\ bedState = "ZERO_TO_RISE"
  /\ bedState' = "RISE" /\ fastCounter' = FastMax - 1
  /\ onTicks' = 0 /\ offTicks' = 0 /\ rises' = IF rises < 3 THEN rises + 1 ELSE rises
  /\ UNCHANGED <<slowCounter, pwm, pwmInputs>>

\* Rising and falling edges: FastMax periods of the fast PWM.
Edge(from, to) ==
  /\ bedState = from
  /\ IF fastCounter # 0 THEN fastCounter' = fastCounter - 1 /\ UNCHANGED bedState
                        ELSE bedState' = to /\ UNCHANGED fastCounter
  /\ UNCHANGED <<slowCounter, pwm, pwmInputs, pwmGhosts>>
Rise == Edge("RISE", "RISE_TO_ONE")
Fall == Edge("FALL", "FALL_TO_ZERO")

RiseToOne ==
  /\ bedState = "RISE_TO_ONE" /\ bedState' = "ONE"
  /\ UNCHANGED <<slowCounter, fastCounter, pwm, pwmInputs, pwmGhosts>>

\* Full power, as it would be if it were judged by the cached value.
FullPowerCached(soft) == pwm >= PwmLevels - 1 - slowInc - 1
\* The duty at which the bed stays on from one period to the next.
FullPower(soft) == 2 * soft >= PwmLevels - 1 - slowInc - 1

\* One as it would be with <= for <.
OneTooLong ==
  /\ bedState = "ONE" /\ ~bedPWMDisabled
  /\ slowCounter' = (slowCounter + slowInc) % PwmLevels
  /\ onTicks' = Counted(onTicks)
  /\ IF slowCounter' <= pwm \/ FullPower(soft_pwm_bed)
     THEN UNCHANGED <<bedState, fastCounter>>
     ELSE bedState' = "FALL" /\ fastCounter' = FastMax - 1
  /\ UNCHANGED <<pwm, pwmInputs, offTicks, rises>>

One ==
  /\ bedState = "ONE" /\ ~bedPWMDisabled
  /\ slowCounter' = (slowCounter + slowInc) % PwmLevels
  /\ onTicks' = Counted(onTicks)
  /\ IF slowCounter' < pwm \/ FullPower(soft_pwm_bed)
     THEN UNCHANGED <<bedState, fastCounter>>
     ELSE bedState' = "FALL" /\ fastCounter' = FastMax - 1
  /\ UNCHANGED <<pwm, pwmInputs, offTicks, rises>>

FallToZero ==
  /\ bedState = "FALL_TO_ZERO" /\ bedState' = "ZERO_START"
  /\ UNCHANGED <<slowCounter, fastCounter, pwm, pwmInputs, pwmGhosts>>

BedIsr == ZeroStart \/ Zero \/ ZeroToRise \/ Rise \/ RiseToOne \/ One \/ Fall \/ FallToZero

-----------------------------------------------------------------------------
(* The main loop.                                                          *)

\* A regulator sets the power.
SetBed ==
  /\ soft_pwm_bed' \in SoftLevels \ {soft_pwm_bed} /\ rises' = 0
  /\ UNCHANGED <<bedState, slowCounter, fastCounter, pwm, bedPWMDisabled, onTicks, offTicks>>

\* Probing the bed holds the output and lets it go.
HoldBed ==
  /\ bedPWMDisabled' = ~bedPWMDisabled /\ rises' = 0
  /\ UNCHANGED <<bedState, slowCounter, fastCounter, pwm, soft_pwm_bed, onTicks, offTicks>>

\* disable_heater(), from a thermal error.
DisableBed ==
  /\ soft_pwm_bed' = 0 /\ bedPWMDisabled' = FALSE /\ rises' = 0
  /\ UNCHANGED <<bedState, slowCounter, fastCounter, pwm, onTicks, offTicks>>

PwmNext == BedIsr \/ SetBed \/ HoldBed \/ DisableBed
PwmSpec == PwmInit /\ [][PwmNext]_pwmVars /\ WF_pwmVars(BedIsr)

-----------------------------------------------------------------------------
PwmTypeOK ==
  /\ bedState \in {"ZERO_START", "ZERO", "ZERO_TO_RISE", "RISE", "RISE_TO_ONE", "ONE",
                   "FALL", "FALL_TO_ZERO"}
  /\ slowCounter \in 0 .. PwmLevels - 1 /\ fastCounter \in 0 .. FastMax - 1
  /\ pwm \in 0 .. PwmLevels - 1 /\ soft_pwm_bed \in SoftLevels
  /\ bedPWMDisabled \in BOOLEAN
  /\ onTicks \in 0 .. PwmLevels /\ offTicks \in 0 .. PwmLevels /\ rises \in 0 .. 3

\* Once the power has been the same for two periods, the bed is on for
\* exactly the share of the next period that was asked for, although the
\* counter wraps and the power is read twice in a period.
DutyExact ==
  bedState = "ZERO_TO_RISE" /\ rises = 3
    => onTicks = 2 * soft_pwm_bed /\ onTicks + offTicks = PwmLevels

\* The states of the automaton from a rise to full power, and from a fall to
\* the next period.
GoesOn  == {"RISE", "RISE_TO_ONE", "ONE"}
GoesOff == {"FALL", "FALL_TO_ZERO", "ZERO_START"}

\* The inductive invariant.  After one rise the cache is fresh in the next
\* pause; after two the bed falls at the power or, if it rose late, a tick
\* behind it, so that it rises again at the wrap of the counter; after three
\* the ghosts agree with the counter.
PwmInv ==
  /\ PwmTypeOK
  /\ bedState \in {"ZERO", "ZERO_TO_RISE"} => pwm # 0
  /\ bedState = "ZERO_TO_RISE" => slowCounter <= pwm
  /\ rises >= 1 => /\ FullPower(soft_pwm_bed) => bedState \in GoesOn
                   /\ bedState \in {"ZERO", "ZERO_TO_RISE"} => pwm = 2 * soft_pwm_bed
  /\ rises >= 2 => /\ pwm = 2 * soft_pwm_bed /\ pwm # 0
                   /\ bedState \in {"RISE", "RISE_TO_ONE"} => slowCounter <= pwm
                   /\ bedState = "ONE" => slowCounter <= pwm \/ FullPower(soft_pwm_bed)
                   /\ bedState \in GoesOff => slowCounter \in {pwm, pwm + 1}
                   /\ bedState = "ZERO" => slowCounter >= pwm
                   /\ bedState = "ZERO_TO_RISE" => slowCounter = 0
  /\ rises = 3  => /\ bedState \in {"RISE", "RISE_TO_ONE"} =>
                        slowCounter = 0 /\ onTicks = 0 /\ offTicks = 0
                   /\ bedState = "ONE" /\ ~FullPower(soft_pwm_bed) =>
                        slowCounter < pwm /\ onTicks = slowCounter /\ offTicks = 0
                   /\ bedState \in GoesOff =>
                        slowCounter = pwm /\ onTicks = pwm /\ offTicks = 0
                   /\ bedState = "ZERO" => onTicks = pwm /\ offTicks = slowCounter - pwm
                   /\ bedState = "ZERO_TO_RISE" => onTicks = pwm /\ offTicks = PwmLevels - pwm

\* A bed that is switched off and not held goes off and stays off, wherever in
\* the period the automaton was.
BedGoesOff ==
  <>[](soft_pwm_bed = 0 /\ ~bedPWMDisabled) => <>[](bedState = "ZERO_START")
=============================================================================
