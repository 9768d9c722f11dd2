-------------------------------- MODULE Timer --------------------------------
(***************************************************************************)
(* Timer.cpp: a millisecond timer over a clock of type T that wraps around *)
(* at TimerW (2^16 for ShortTimer, 2^32 for LongTimer).  All sums are      *)
(* computed in T.  `timerAge' and `timerGap' are ghosts: the milliseconds  *)
(* that really passed since start() and since the last call of expired().  *)
(***************************************************************************)
EXTENDS Integers

CONSTANTS TimerW,        \* the number of values of T
          TimerPeriod    \* msPeriod: each timer is asked with one period

ASSUME TimerAssumption ==
  TimerW \in Nat /\ TimerPeriod \in Nat /\ 0 < TimerPeriod /\ TimerPeriod < TimerW

VARIABLES timerNow,             \* _millis(), truncated to T
          m_started, m_isRunning,
          timerAge, timerGap    \* ghosts

timerVars == <<timerNow, m_started, m_isRunning, timerAge, timerGap>>

\* A sum as it would be if the value TimerW were not told from 0.
WrapLate(x) == IF x > TimerW THEN x - TimerW ELSE x

\* A sum of two values of T.
Wrapped(x) == IF x >= TimerW THEN x - TimerW ELSE x

\* expired() as it would be without the clock that wraps before the sum does.
ExpiredOneWrap(s, p, n) ==
  LET due == Wrapped(s + p)
  IN  IF s <= due THEN n >= due ELSE n >= due /\ n < s

\* The condition of expired(), with the time and the due time as T has them.
TimerExpired(s, p, n) ==
  LET due == Wrapped(s + p)
  IN  IF s <= due THEN n >= due \/ n < s
                  ELSE n >= due /\ n < s

\* elapsed()
TimerElapsed == IF m_isRunning THEN Wrapped(timerNow + (TimerW - m_started)) ELSE 0

TimerInit ==
  /\ timerNow = 0 /\ m_started = 0 /\ m_isRunning = FALSE
  /\ timerAge = 0 /\ timerGap = 0

\* start(), also of a timer that is running.
StartTimer ==
  /\ m_started' = timerNow /\ m_isRunning' = TRUE
  /\ timerAge' = 0 /\ timerGap' = 0
  /\ UNCHANGED timerNow

\* expired(msPeriod)
AskTimer ==
  /\ m_isRunning
  /\ m_isRunning' = ~TimerExpired(m_started, TimerPeriod, timerNow)
  /\ timerGap' = 0
  /\ timerAge' = IF m_isRunning' THEN timerAge ELSE 0
  /\ UNCHANGED <<timerNow, m_started>>

\* stop()
StopTimer ==
  /\ m_isRunning' = FALSE
  /\ timerAge' = 0 /\ timerGap' = 0
  /\ UNCHANGED <<timerNow, m_started>>

\* A millisecond passes.  The comment of expired() asks its callers to call
\* it at least each (maximum of T - msPeriod) milliseconds.
Millisecond ==
  /\ m_isRunning => timerGap < TimerW - 1 - TimerPeriod
  /\ timerNow' = Wrapped(timerNow + 1)
  /\ timerAge' = IF m_isRunning THEN timerAge + 1 ELSE 0
  /\ timerGap' = IF m_isRunning THEN timerGap + 1 ELSE 0
  /\ UNCHANGED <<m_started, m_isRunning>>

TimerNext == StartTimer \/ AskTimer \/ StopTimer \/ Millisecond
TimerSpec == TimerInit /\ [][TimerNext]_timerVars

-----------------------------------------------------------------------------
TimerTypeOK ==
  /\ timerNow \in 0 .. TimerW - 1
  /\ m_started \in 0 .. TimerW - 1
  /\ m_isRunning \in BOOLEAN
  /\ timerAge \in 0 .. TimerW - 1
  /\ timerGap \in 0 .. TimerW - 1

\* The clock and the ghosts agree, however often the clock has wrapped, and
\* the last call that did not expire was made before the period was over.
ClockAgrees ==
  m_isRunning => /\ timerNow = Wrapped(m_started + timerAge)
                 /\ timerGap <= TimerW - 1 - TimerPeriod
                 /\ timerAge < timerGap + TimerPeriod

TimerInv == TimerTypeOK /\ ClockAgrees

\* The comment of expired(), "expected to handle wrap around of time register
\* well": a running timer expires at the first call at which its period is
\* over and at no earlier call, and elapsed() is the time since the start.
ExactAcrossWrap ==
  m_isRunning => /\ TimerExpired(m_started, TimerPeriod, timerNow) <=> timerAge >= TimerPeriod
                 /\ TimerElapsed = timerAge
=============================================================================
