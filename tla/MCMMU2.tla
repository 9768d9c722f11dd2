------------------------------- MODULE MCMMU2 -------------------------------
\* The unit, its line and the front end of the printer on small instances: each
\* scenario is what the printer asks for and what can go wrong.
EXTENDS MMU2

Scenario(operations, faultKinds, most) ==
  [operations |-> operations, faults |-> faultKinds, most |-> most]

Covered == {
  Scenario(AllOperations, {"error", "slip", "sensor"}, 2),
  Scenario({"ToolChange", "Load"}, {"lose response", "garble", "restart"}, 2),
  Scenario({"ToolChange"}, {"restart", "slip"}, 3),
  Scenario({"ToolChange", "Cut"}, {"lose query", "lose response", "garble"}, 2),
  Scenario({"Load"}, {"error", "button"}, 3),
  Scenario({"Load"}, {"die"}, 2),
  Scenario({"ToolChange", "Load"}, {"late"}, 1)}

\* A tool change that the unit breaks off while an error has the head parked.
InterruptedChange == {Scenario({"ToolChange"}, {"error", "restart"}, 4)}
LostRequest == {Scenario({"Load"}, {"lose request"}, 1)}
=============================================================================
