-------------------------------- MODULE MMU2 --------------------------------
(***************************************************************************)
(* The front end of the multi-material unit (mmu2.cpp): operations made of *)
(* commands, each waited for in manage_response() while the main loop      *)
(* polls the protocol (MMUProtocol) on every turn; errors that park the    *)
(* head and cool the hotend; the buttons of the error screen; the unit at  *)
(* the other end of a serial line that can lose and garble messages.       *)
(*                                                                         *)
(* One Poll is one turn of the main loop: mmu_loop(), and, while an        *)
(* operation waits, the rest of the turn of manage_response().  Reheating  *)
(* the hotend is one step: the polls made while it warms up are left out.  *)
(* So are the old unit's "ok" messages, the FINDA sensor, the moves of the *)
(* extruder and the progress messages.                                     *)
(***************************************************************************)
EXTENDS MMUProtocol, FiniteSets

CONSTANTS Scenarios,    \* the environments: the operations asked for, the kinds
                        \* of faults and the most faults of one behaviour
          UnitSupported \* the unit's firmware has the version expected

AllOperations == {"ToolChange", "ManualToolChange", "Unload", "Load", "Cut", "Read"}
AllFaults == {"lose request", "lose query", "lose response", "garble", "late", "restart",
              "die", "error", "button", "slip", "sensor"}

ASSUME EnvironmentAssumption ==
  /\ Scenarios \subseteq [operations: SUBSET AllOperations, faults: SUBSET AllFaults, most: Nat]
  /\ UnitSupported \in BOOLEAN

VARIABLES mmu,     \* the MMU2 object, with its ProtocolLogic
          pc,      \* "free", "wait" (in manage_response) or "verify"
          todo,    \* the commands left to the operation that runs
          attempt, \* the loads left to ToolChangeCommonOnce
          unit, tx, rx, \* the unit and the two directions of the line
          performed, \* commands the unit has finished since the last issue
          scenario   \* one of Scenarios, with the faults that are left of it
vars == <<mmu, pc, todo, attempt, unit, tx, rx, performed, scenario>>

Slot == 1
CommandOf == [Tool |-> Req("Tool", Slot), Unload |-> Req("Unload", 0), Cut |-> Req("Cut", Slot),
              Load |-> Req("Load", Slot), Read |-> Req("Read", Regs8Count + Regs16Count)]
CommandsOf == [ToolChange |-> <<"Tool">>, ManualToolChange |-> <<"Unload", "Tool">>,
               Unload |-> <<"Unload">>, Load |-> <<"Load">>, Cut |-> <<"Cut">>,
               Read |-> <<"Read">>]
\* Whether manage_response parks the head and lets the hotend cool.
MoveAxes(c)      == c \in {"Tool", "Report"}
TurnOffNozzle(c) == c \notin {"Load", "Read"}

-----------------------------------------------------------------------------
(* The buttons of the error screen.                                        *)

ConnectErrors == {"MMU_NOT_RESPONDING", "PROTOCOL_ERROR", "VERSION_MISMATCH"}
\* What the screen of an error offers (errors_list.h).
Offered(ec) == CASE ec = "MMU" -> {"Retry"}
                 [] ec = "LOAD_TO_EXTRUDER_FAILED" -> {"Continue"}
                 [] ec \in ConnectErrors -> {"ResetMMU", "DisableMMU"}
                 [] OTHER -> {}
ButtonAvailable(ec, operation) ==
  CASE operation \notin Offered(ec) -> "NoButton"
    [] operation \in Offered(ec) /\ operation \in {"Retry", "Continue"} -> "Middle"
    [] OTHER -> operation

\* hot and parked say where the hotend's target and the head really are, and
\* unfinished that a command has been left before it finished.
ResumeHotendTemp(m) ==
  LET resumes == "Cooldown" \in m.saved /\ m.resumeHot
  IN  [m EXCEPT !.saved = @ \ ({"CooldownPending"} \cup IF resumes THEN {"Cooldown"} ELSE {}),
                !.hot = @ \/ resumes]
\* ResumeUnpark as it would be if it only forgot where the head was.
ForgetParked(m) == [m EXCEPT !.saved = @ \ {"ParkExtruder"}]

ResumeUnpark(m) == [m EXCEPT !.saved = @ \ {"ParkExtruder"},
                             !.parked = @ /\ "ParkExtruder" \notin m.saved]
SaveAndPark(m, move_axes) ==
  IF m.saved = {} /\ move_axes THEN [m EXCEPT !.saved = {"ParkExtruder"}, !.parked = TRUE]
                               ELSE m
SaveHotendTemp(m, turn_off_nozzle) ==
  IF turn_off_nozzle /\ m.saved \cap {"Cooldown", "CooldownPending"} = {}
  THEN [m EXCEPT !.saved = @ \cup {"CooldownPending"}, !.resumeHot = m.hot] ELSE m

ClearPrinterError(m) == [m EXCEPT !.logic.printerError = FALSE, !.lastError = "OK",
                                  !.source = "None"]
StopKeepPowered(m) == [m EXCEPT !.state = "Stopped", !.logic = Stop(@)]

CheckUserInput(m0) ==
  LET pressed == ButtonAvailable(m0.lastError, m0.selected)
      onUnit  == pressed = "NoButton" /\ m0.lastButton # "NoButton"
      btn     == IF onUnit THEN m0.lastButton ELSE pressed
      m1      == [m0 EXCEPT !.selected = "NoOperation",
                            !.lastButton = IF onUnit THEN "NoButton" ELSE @]
      m       == IF m1.source = "Printer" /\ btn # "NoButton" THEN ClearPrinterError(m1) ELSE m1
  IN  CASE btn = "Middle" /\ m.source = "MMU" ->
             [ResumeHotendTemp(m) EXCEPT !.logic = PlanGenericRequest(@, Req("Button", 1))]
        [] btn = "Middle" /\ m.source # "MMU" -> ResumeHotendTemp(m)
        [] btn = "ResetMMU"   -> [m EXCEPT !.reset = TRUE]
        [] btn = "DisableMMU" -> StopKeepPowered(m)
        [] OTHER -> m

-----------------------------------------------------------------------------
(* A turn of the main loop.                                                *)

ReportErrorHook(m) ==
  [m EXCEPT !.screen = ~(m.logic.error = "OK" /\ m.source = "MMU")]

\* RetryIfPossible as it would be if it did not end with the attempts.
RetryAlways(m, ec) ==
  LET m1 == IF m.logic.retryAttempts > 0 THEN [m EXCEPT !.selected = "Retry"] ELSE m
  IN  [m1 EXCEPT !.logic.inAutoRetry = ButtonAvailable(ec, "Retry") # "NoButton"]

RetryIfPossible(m, ec) ==
  LET m1 == IF m.logic.retryAttempts > 0 THEN [m EXCEPT !.selected = "Retry"] ELSE m
      possible == m.logic.retryAttempts > 0 /\ ButtonAvailable(ec, "Retry") # "NoButton"
  IN  [m1 EXCEPT !.logic.inAutoRetry = possible]

ReportError(m, ec, source) ==
  LET m1 == IF ec # m.lastError THEN [m EXCEPT !.lastError = ec, !.source = source] ELSE m
      m2 == RetryIfPossible(m1, ec)
  IN  IF m2.logic.inAutoRetry THEN m2 ELSE ReportErrorHook(m2)

\* What follows from the status of the step.
HandleStepResult(m) ==
  CASE m.status = "ButtonPushed" -> CheckUserInput([m EXCEPT !.lastButton = "Middle"])
    [] m.status = "CommandError" -> ReportError(m, m.logic.error, "MMU")
    [] m.status = "CommunicationTimeout" ->
         ReportError([m EXCEPT !.state = "Connecting"], "MMU_NOT_RESPONDING", "Printer")
    [] m.status = "ProtocolError" ->
         ReportError([m EXCEPT !.state = "Connecting"], "PROTOCOL_ERROR", "Printer")
    [] m.status = "VersionMismatch" ->
         ReportError(StopKeepPowered(m), "VERSION_MISMATCH", "Printer")
    [] m.status = "PrinterError" -> ReportError(m, "LOAD_TO_EXTRUDER_FAILED", "Printer")
    [] OTHER -> m
CheckRunning(m) == IF Running(m.logic) THEN [m EXCEPT !.state = "Active"] ELSE m
Stepped(m, logic) == [m EXCEPT !.logic = logic, !.status = logic.ret]

LogicStep(m0, msg, fs) ==
  LET m == CheckUserInput(m0)
  IN  CheckRunning(HandleStepResult(Stepped(m, Step(m.logic, msg, fs))))

\* The user turns the knob to an operation of the error screen, or not.
CheckErrorScreenUserInput(m, click) ==
  IF ~m.screen THEN m
  ELSE LET m1 == ReportErrorHook(m)
       IN  IF m1.screen /\ click # "NoOperation"
           THEN [m1 EXCEPT !.screen = FALSE, !.selected = click] ELSE m1

mmu_loop(m, msg, fs, click) == CheckErrorScreenUserInput(LogicStep(m, msg, fs), click)

ErrorStatuses == {"CommandError", "CommunicationTimeout", "ProtocolError", "ButtonPushed"}

\* The rest of a turn of manage_response(): cooled says that the hotend has
\* waited long enough.  The result is TRUE, FALSE or "Stay".
manage_response(m0, c, cooled) ==
  LET m == IF cooled /\ "CooldownPending" \in m0.saved
           THEN [m0 EXCEPT !.saved = (@ \ {"CooldownPending"}) \cup {"Cooldown"}, !.hot = FALSE]
           ELSE m0
      Save(m1) == CheckUserInput(SaveHotendTemp(SaveAndPark(m1, MoveAxes(c)), TurnOffNozzle(c)))
  IN  CASE m.status = "Finished" ->
             [mmu |-> [ResumeUnpark(ResumeHotendTemp(m)) EXCEPT
                         !.logic.retryAttempts = MAX_RETRIES], result |-> "TRUE"]
        [] m.status = "Interrupted" ->
             [mmu |-> [m EXCEPT !.unfinished = TRUE], result |-> "FALSE"]
        [] m.status = "VersionMismatch" ->
             [mmu |-> [CheckUserInput(m) EXCEPT !.unfinished = TRUE], result |-> "TRUE"]
        [] m.status = "PrinterError" \/ (m.status \in ErrorStatuses /\ ~m.logic.inAutoRetry) ->
             [mmu |-> Save(m), result |-> "Stay"]
        [] OTHER -> [mmu |-> m, result |-> "Stay"]

-----------------------------------------------------------------------------
(* The printer.                                                            *)

\* mmu_init: MMU2::Start.
Started ==
  [logic |-> Start(Logic), state |-> "Connecting", status |-> "Finished",
   selected |-> "NoOperation", lastButton |-> "NoButton",
   lastError |-> "MMU_NOT_RESPONDING", source |-> "None", screen |-> FALSE,
   saved |-> {}, resumeHot |-> FALSE, hot |-> TRUE, parked |-> FALSE, reset |-> FALSE,
   unfinished |-> FALSE]
UnitStarted == [cmd |-> Req("Reset", 0), st |-> "Finished"]

\* The requests a turn has written leave for the unit; a pulse on its reset
\* pin restarts the unit and loses what was under way.
Commit(m, msg) ==
  LET drain == m.logic.drained
      rest  == IF msg = NoMsg \/ rx = <<>> THEN rx ELSE Tail(rx)
      clean == [m EXCEPT !.logic.out = <<>>, !.logic.drained = FALSE, !.reset = FALSE]
  IN  /\ mmu' = clean
      /\ unit' = IF m.reset THEN UnitStarted ELSE unit
      /\ tx' = IF m.reset THEN <<>> ELSE tx \o m.logic.out
      /\ rx' = IF m.reset \/ drain THEN <<>> ELSE rest

\* What Step() will read, if it reads.
Next1 == IF rx # <<>> /\ ReadsMessage(CheckUserInput(mmu).logic) THEN Head(rx) ELSE NoMsg

Fault(kind) ==
  kind \in scenario.faults /\ scenario.most > 0 /\ scenario' = [scenario EXCEPT !.most = @ - 1]

Clicks == {"NoOperation", "Retry", "Continue", "ResetMMU", "DisableMMU"}

\* The user picks an operation of the screen; the filament sensor changes.
Choices(click, fs) ==
  /\ click \in {"NoOperation"} \cup (IF mmu.screen THEN Offered(mmu.lastError) ELSE {})
  /\ IF fs THEN Fault("sensor") ELSE UNCHANGED scenario

\* A turn of the main loop with nobody in manage_response(): the printer is
\* free, waits for its moves before a tool change, rams before it unloads, or
\* verifies a load.
PollsFree == pc = "verify" \/ (pc = "free" /\ (todo # <<>> => Head(todo) \in {"Tool", "Unload"}))

PollFree ==
  /\ PollsFree
  /\ \E click \in Clicks, fs \in BOOLEAN :
       /\ Choices(click, fs)
       /\ LET m == mmu_loop(mmu, Next1, fs, click) IN Commit(m, Next1)
  /\ UNCHANGED <<pc, todo, attempt, performed>>

\* After the command at the head of todo has been waited for.
After(result) ==
  LET c == Head(todo)
      rest == Tail(todo)
  IN  CASE c = "Tool" /\ result = "TRUE" -> pc' = "verify" /\ todo' = todo
        [] c = "Tool" /\ result = "FALSE" -> pc' = "free" /\ todo' = <<"Unload">> \o todo
        [] c = "Report" \/ (c # "Tool" /\ result = "TRUE") -> pc' = "free" /\ todo' = rest
        [] OTHER -> pc' = "free" /\ todo' = todo

\* The rest of a turn in manage_response().  A tool change that was interrupted
\* reheats before it unloads.
EndTurn(w) ==
  LET again == Head(todo) = "Tool" /\ w.result = "FALSE"
  IN  /\ Commit(IF again THEN ResumeHotendTemp(w.mmu) ELSE w.mmu, Next1)
      /\ IF w.result = "Stay" THEN UNCHANGED <<pc, todo>> ELSE After(w.result)

PollWait ==
  /\ pc = "wait"
  /\ \E click \in Clicks, fs \in BOOLEAN, cooled \in BOOLEAN :
       /\ Choices(click, fs)
       /\ EndTurn(manage_response(mmu_loop(mmu, Next1, fs, click), Head(todo), cooled))
  /\ UNCHANGED <<attempt, performed>>

\* An operation starts unless the unit is stopped.
Begin ==
  /\ pc = "free" /\ todo = <<>> /\ mmu.state # "Stopped"
  /\ \E o \in scenario.operations : todo' = CommandsOf[o]
  /\ attempt' = MAX_RETRIES
  /\ UNCHANGED <<mmu, pc, unit, tx, rx, performed, scenario>>

\* The next command is planned, and waited for: manage_response() forgets
\* what it had saved.
Issue ==
  /\ pc = "free" /\ todo # <<>>
  /\ LET c == Head(todo)
         m == [mmu EXCEPT !.saved = {},
                 !.logic = IF c = "Report" THEN [@ EXCEPT !.printerError = TRUE]
                           ELSE PlanGenericRequest(@, CommandOf[c])]
     IN Commit(m, NoMsg)
  /\ pc' = "wait" /\ performed' = {}
  /\ UNCHANGED <<todo, attempt, scenario>>

\* VerifyFilamentEnteredPTFE() finds the filament.
VerifyOk ==
  /\ pc = "verify"
  /\ pc' = "free" /\ todo' = Tail(todo)
  /\ UNCHANGED <<mmu, attempt, unit, tx, rx, performed, scenario>>

\* It does not: unload, cut the tip before the last load, and load again; when
\* the loads are used up, ask the user first.
VerifyFails ==
  /\ pc = "verify" /\ Fault("slip")
  /\ pc' = "free"
  /\ todo' = <<"Unload">> \o (IF attempt = 2 THEN <<"Cut">> ELSE <<>>)
               \o (IF attempt = 1 THEN <<"Report">> ELSE <<>>) \o todo
  /\ attempt' = IF attempt = 1 THEN MAX_RETRIES ELSE attempt - 1
  /\ UNCHANGED <<mmu, unit, tx, rx, performed>>

\* Time passes on a silent line.  A request answered, or an answer read, later
\* than that is a fault.
Tick ==
  /\ mmu.logic.quiet < (IF ExpectsResponse(mmu.logic) THEN linkLayerTimeout ELSE heartBeatPeriod)
  /\ mmu' = [mmu EXCEPT !.logic.quiet =
                IF ExpectsResponse(mmu.logic) THEN linkLayerTimeout ELSE heartBeatPeriod]
  /\ IF tx # <<>> \/ (ExpectsResponse(mmu.logic) /\ rx # <<>>) THEN Fault("late")
                                                              ELSE UNCHANGED scenario
  /\ UNCHANGED <<pc, todo, attempt, unit, tx, rx, performed>>

-----------------------------------------------------------------------------
(* The unit and the line.                                                  *)

Busy == unit.st # "Finished"
Answer(rq) ==
  LET accept(b) == IF b THEN "Accepted" ELSE "Rejected"
  IN  CASE rq.code = "Query"     -> Rsp(unit.cmd, unit.st)
        [] rq.code = "Version"   -> [Rsp(rq, "Accepted") EXCEPT !.supported = UnitSupported]
        [] rq.code = "Button"    -> Rsp(rq, accept(unit.st \in {"Error", "Button"}))
        [] rq.code \in Motions   -> Rsp(rq, accept(~Busy))
        [] OTHER                 -> Rsp(rq, "Accepted")

UnitAnswers ==
  /\ tx # <<>> /\ unit.st # "Dead"
  /\ LET rq == Head(tx) IN
       /\ tx' = Tail(tx) /\ rx' = Append(rx, Answer(rq))
       /\ unit' = CASE rq.code = "Button" /\ unit.st \in {"Error", "Button"} ->
                         [unit EXCEPT !.st = "Processing"]
                    [] rq.code \in Motions /\ ~Busy -> [cmd |-> rq, st |-> "Processing"]
                    [] OTHER -> unit
  /\ UNCHANGED <<mmu, pc, todo, attempt, performed, scenario>>

UnitFinishes ==
  /\ unit.st = "Processing"
  /\ unit' = [unit EXCEPT !.st = "Finished"] /\ performed' = performed \cup {unit.cmd}
  /\ UNCHANGED <<mmu, pc, todo, attempt, tx, rx, scenario>>

UnitFails ==
  /\ unit.st = "Processing" /\ Fault("error")
  /\ unit' = [unit EXCEPT !.st = "Error"]
  /\ UNCHANGED <<mmu, pc, todo, attempt, tx, rx, performed>>

\* Somebody pushes the button of the unit.
UnitButton ==
  /\ unit.st = "Error" /\ Fault("button")
  /\ unit' = [unit EXCEPT !.st = "Button"]
  /\ UNCHANGED <<mmu, pc, todo, attempt, tx, rx, performed>>

UnitRestarts ==
  /\ unit.st # "Dead" /\ Fault("restart")
  /\ unit' = UnitStarted /\ tx' = <<>>
  /\ UNCHANGED <<mmu, pc, todo, attempt, rx, performed>>

\* The unit loses its power, until its reset pin is pulsed.
UnitDies ==
  /\ unit.st # "Dead" /\ Fault("die")
  /\ unit' = [UnitStarted EXCEPT !.st = "Dead"] /\ tx' = <<>>
  /\ UNCHANGED <<mmu, pc, todo, attempt, rx, performed>>

\* A dead unit hears nothing.
Unheard ==
  /\ unit.st = "Dead" /\ tx # <<>>
  /\ tx' = <<>>
  /\ UNCHANGED <<mmu, pc, todo, attempt, unit, rx, performed, scenario>>

\* "lose query" spares the commands.
LoseRequest ==
  /\ tx # <<>>
  /\ \E kind \in {"lose request", "lose query"} :
       Fault(kind) /\ (kind = "lose query" => Head(tx).code \notin Motions)
  /\ tx' = Tail(tx)
  /\ UNCHANGED <<mmu, pc, todo, attempt, unit, rx, performed>>

LoseResponse ==
  /\ rx # <<>> /\ Fault("lose response")
  /\ rx' = Tail(rx)
  /\ UNCHANGED <<mmu, pc, todo, attempt, unit, tx, performed>>

Garble ==
  /\ rx # <<>> /\ Head(rx) # Garbage /\ Fault("garble")
  /\ rx' = <<Garbage>> \o Tail(rx)
  /\ UNCHANGED <<mmu, pc, todo, attempt, unit, tx, performed>>

-----------------------------------------------------------------------------
Init ==
  /\ mmu = [Started EXCEPT !.logic.out = <<>>] /\ pc = "free" /\ todo = <<>>
  /\ attempt = MAX_RETRIES
  /\ unit = UnitStarted /\ tx = Started.logic.out /\ rx = <<>> /\ performed = {}
  /\ scenario \in Scenarios

Next ==
  \/ PollFree \/ PollWait \/ Begin \/ Issue \/ VerifyOk \/ VerifyFails \/ Tick
  \/ UnitAnswers \/ UnitFinishes \/ UnitFails \/ UnitButton \/ UnitRestarts
  \/ UnitDies \/ Unheard \/ LoseRequest \/ LoseResponse \/ Garble

Spec == Init /\ [][Next]_vars

\* The turn that the next poll would be, were nothing pushed.
Turn   == mmu_loop(mmu, Next1, FALSE, "NoOperation")
InTurn == manage_response(Turn, Head(todo), FALSE)

\* The main loop runs: weak fairness of the polls that have something to do.
LoopRuns ==
  /\ []<>(~PollsFree \/ Turn = mmu) \/ []<><<PollFree>>_vars
  /\ []<>(pc # "wait" \/ InTurn = [mmu |-> mmu, result |-> "Stay"]) \/ []<><<PollWait>>_vars

\* Time passes, operations go on, and a unit that is alive answers and does the
\* work it has been given.
FairSpec == Spec /\ LoopRuns /\ WF_vars(Issue) /\ WF_vars(VerifyOk) /\ WF_vars(Tick)
                 /\ WF_vars(UnitAnswers) /\ WF_vars(Unheard) /\ WF_vars(UnitFinishes)

-----------------------------------------------------------------------------
(* Properties.                                                             *)

TypeOK ==
  /\ pc \in {"free", "wait", "verify"} /\ (pc # "free" => todo # <<>>)
  /\ \A i \in DOMAIN todo : todo[i] \in DOMAIN CommandOf \cup {"Report"}
  /\ attempt \in 1..MAX_RETRIES
  /\ mmu.logic.scope \in {"Stopped", "StartSeq", "DelayedRestart", "Idle", "Command"}
  /\ mmu.logic.st \in ScopeStates /\ mmu.logic.ret \in Statuses
  /\ mmu.state \in {"Stopped", "Connecting", "Active"}
  /\ mmu.logic.retryAttempts \in 0..MAX_RETRIES
  /\ mmu.logic.occurrences \in 0..MaxOccurrences
  /\ mmu.saved \subseteq {"ParkExtruder", "CooldownPending", "Cooldown"}
  /\ scenario.most \in Nat

Returns(result) == pc = "wait" /\ pc' # "wait" /\ mmu'.status = result

\* manage_response() reports a finished command only when the unit has
\* finished it since it was issued: a recovery of the line must not end the
\* command for the printer.
FinishedMeansDone ==
  [][Returns("Finished") /\ Head(todo) \notin {"Report", "Read"}
       => CommandOf[Head(todo)] \in performed]_vars

\* ReadRegister() returns the value of the register it asked for.
ReadReturnsRegister ==
  [][Returns("Finished") /\ Head(todo) = "Read" => mmu'.logic.rsp.req = CommandOf["Read"]]_vars

\* An answer that arrives after its timeout is taken for the answer to the next
\* request: what is promised of such a line is only that commands are done and
\* operations end.
LateAnswers == "late" \in scenario.faults

\* The protocol asks one question at a time, whatever the buttons, the planned
\* requests and the restarts of the communication do.
OneOutstanding == LateAnswers \/ Len(tx) + Len(rx) <= 1

\* When an operation is over, the head is back where it was and the hotend is to
\* be as hot as it was, unless a command has been left before it finished.
OperationRestores ==
  pc = "free" /\ todo = <<>> /\ ~mmu.unfinished => ~mmu.parked /\ mmu.hot

\* "If the extruder has been parked, it will get unparked once the ToolChange
\* command finishes OK", says ToolChangeCommonOnce() where it starts again.
UnparkedAfterToolChange ==
  [][Returns("Finished") /\ Head(todo) = "Tool" => ~mmu'.parked]_vars

\* An operation comes to an end, however the line loses and garbles responses and
\* loses queries, and however late the answers are.
OperationEnds ==
  todo # <<>> /\ scenario.faults \subseteq {"lose query", "lose response", "garble", "late"}
    ~> todo = <<>>

\* A unit that has died is reported to the user.
DeadIsReported ==
  unit.st = "Dead" ~> \/ unit.st # "Dead" \/ mmu.state = "Stopped"
                      \/ mmu.screen /\ mmu.lastError = "MMU_NOT_RESPONDING"

\* An error of the unit is retried or shown to the user.
ErrorIsHandled ==
  unit.st = "Error" ~> unit.st # "Error" \/ mmu.screen \/ mmu.state = "Stopped"
=============================================================================
