----------------------------- MODULE MMUProtocol -----------------------------
(***************************************************************************)
(* ProtocolLogic (mmu2_protocol_logic.cpp): the printer's end of the       *)
(* request-response protocol with the multi-material unit.  The object is  *)
(* a record, every method an operator on it.  A method's StepStatus is     *)
(* left in the field ret, the requests it writes to the UART are appended  *)
(* to out, and drained says that it emptied the input buffer.              *)
(*                                                                         *)
(* The values of registers, versions and sensors are abstracted: a         *)
(* response says whether its version is the supported one.  Time is quiet, *)
(* the age of the last activity on the line: 0, 1 (heartBeatPeriod has     *)
(* passed) or 2 (linkLayerTimeout has passed).                             *)
(***************************************************************************)
EXTENDS Integers, Sequences

CONSTANTS Regs8Count,      \* registers read after each query (3)
          Regs16Count,     \* 16-bit registers read after those (2)
          InitRegs8Count,  \* registers written at the start (2)
          MaxRetries,      \* of a version query (maxRetries, 6)
          MaxOccurrences,  \* drop-outs before one is reported (10)
          MAX_RETRIES      \* automatic retries of a failed command (3)

ASSUME CountAssumption ==
  /\ Regs8Count \in Nat \ {0} /\ Regs16Count \in Nat \ {0} /\ InitRegs8Count \in Nat \ {0}
  /\ MaxRetries \in Nat \ {0}
  /\ MaxOccurrences \in Nat /\ MaxOccurrences > 1
  /\ MAX_RETRIES \in Nat /\ MAX_RETRIES > 1

Req(code, value) == [code |-> code, value |-> value]
NoReq   == Req("unknown", 0)
Rsp(rq, param) == [req |-> rq, param |-> param, supported |-> TRUE]
NoRsp   == Rsp(NoReq, "unknown")
NoMsg   == Rsp(NoReq, "none")     \* the input buffer is empty
Garbage == Rsp(NoReq, "garbage")  \* bytes that do not decode

Motions   == {"Tool", "Unload", "Load", "Cut", "Eject", "Mode"}
Waiting   == {"Wait", "Ready", "RecoveringProtocolError"}
VersionSent == <<"S0Sent", "S1Sent", "S2Sent", "S3Sent">>
ScopeStates ==
  Waiting \cup {"S0Sent", "S1Sent", "S2Sent", "S3Sent", "QuerySent", "CommandSent",
    "FilamentSensorStateSent", "Reading8bitRegisters", "Reading16bitRegisters",
    "WritingInitRegisters", "ButtonSent", "ReadRegisterSent", "WriteRegisterSent"}
Statuses == {"Processing", "Finished", "Interrupted", "CommunicationTimeout",
  "ProtocolError", "CommandRejected", "CommandError", "VersionMismatch", "PrinterError",
  "ButtonPushed"}

\* A new ProtocolLogic.
Logic == [scope |-> "Stopped", st |-> "Ready", state |-> "Stopped", rq |-> NoReq,
          planned |-> NoReq, rsp |-> NoRsp, reg |-> 0, retries |-> 0,
          occurrences |-> MaxOccurrences, cause |-> "ProtocolError",
          error |-> "OK", printerError |-> FALSE,
          retryAttempts |-> MAX_RETRIES, inAutoRetry |-> FALSE,
          quiet |-> 0, ret |-> "Processing", out |-> <<>>, drained |-> FALSE]

ExpectsResponse(p) == p.st \notin Waiting
Ret(p, status)     == [p EXCEPT !.ret = status]
Elapsed(p, timeout) == p.quiet >= timeout
heartBeatPeriod  == 1
linkLayerTimeout == 2

-----------------------------------------------------------------------------
(* Requests.                                                               *)

Send(p, rq, st) == [p EXCEPT !.out = Append(@, rq), !.st = st, !.quiet = 0]

SendQuery(p)       == Send(p, Req("Query", 0), "QuerySent")
SendButton(p, btn) == Send(p, Req("Button", btn), "ButtonSent")
SendVersion(p, stage) == Send(p, Req("Version", stage), VersionSent[stage + 1])
SendAndUpdateFilamentSensor(p) ==
  Send(p, Req("FilamentSensor", 0), "FilamentSensorStateSent")

StartReading8bitRegisters(p) ==
  Send([p EXCEPT !.reg = 0], Req("Read", 0), "Reading8bitRegisters")
StartReading16bitRegisters(p) ==
  Send([p EXCEPT !.reg = 0], Req("Read", Regs8Count), "Reading16bitRegisters")
StartWritingInitRegisters(p) ==
  Send([p EXCEPT !.reg = 0], Req("Write", 0), "WritingInitRegisters")

ProcessRead8bitRegister(p) ==
  LET q == [p EXCEPT !.reg = @ + 1]
  IN  IF q.reg >= Regs8Count THEN StartReading16bitRegisters(q)
      ELSE Send(q, Req("Read", q.reg), "Reading8bitRegisters")

ProcessRead16bitRegister(p, stateAtEnd) ==
  LET q == [p EXCEPT !.reg = @ + 1]
  IN  IF q.reg >= Regs16Count THEN [q EXCEPT !.st = stateAtEnd]
      ELSE Send(q, Req("Read", Regs8Count + q.reg), "Reading16bitRegisters")

ProcessWritingInitRegister(p) ==
  LET q == [p EXCEPT !.reg = @ + 1]
  IN  IF q.reg >= InitRegs8Count THEN SendAndUpdateFilamentSensor(q)
      ELSE Send(q, Req("Write", q.reg), "WritingInitRegisters")

-----------------------------------------------------------------------------
(* Planned requests and changes of scope.                                  *)

CommandRestart(p) == Send(p, p.rq, "CommandSent")

\* Does nothing when no request is planned.
ActivatePlannedRequest(p) ==
  LET q == [p EXCEPT !.planned = NoReq]
  IN  CASE p.planned.code = "unknown" -> p
        [] p.planned.code = "Button"  -> SendButton(q, p.planned.value)
        [] p.planned.code = "Read"    -> Send(q, p.planned, "ReadRegisterSent")
        [] p.planned.code = "Write"   -> Send(q, p.planned, "WriteRegisterSent")
        [] OTHER -> CommandRestart([q EXCEPT !.scope = "Command", !.rq = p.planned])

\* PlanGenericRequest as it would be if it did not wait for an empty window.
PlanAndActivate(p, rq) == ActivatePlannedRequest([p EXCEPT !.planned = rq])

PlanGenericRequest(p, rq) ==
  LET q == [p EXCEPT !.planned = rq]
  IN  IF ExpectsResponse(q) THEN q ELSE ActivatePlannedRequest(q)

Start(p) == SendVersion([p EXCEPT !.state = "InitSequence", !.scope = "StartSeq",
                                  !.retries = MaxRetries], 0)
Stop(p)  == [p EXCEPT !.state = "Stopped", !.scope = "Stopped"]

SwitchToIdle(p) == [p EXCEPT !.state = "Running", !.scope = "Idle", !.st = "Ready"]
SwitchFromStartToIdle(p) == SendQuery(SwitchToIdle(p))

-----------------------------------------------------------------------------
(* Responses.                                                              *)

ResetCommunicationTimeoutAttempts(p) == [p EXCEPT !.occurrences = MaxOccurrences]

DecrementRetryAttempts(p) ==
  IF p.inAutoRetry /\ p.retryAttempts > 0 THEN [p EXCEPT !.retryAttempts = @ - 1] ELSE p

ProcessVersionResponse(p, stage) ==
  CASE p.rsp.req # Req("Version", stage) -> Ret(SendVersion(p, stage), "Processing")
    [] p.rsp.req = Req("Version", stage) /\ p.rsp.supported ->
         Ret(SendVersion(ResetCommunicationTimeoutAttempts(p), stage + 1), "Processing")
    [] OTHER ->
         LET q == [p EXCEPT !.retries = (@ + 255) % 256]
         IN  IF q.retries = 0 THEN Ret(q, "VersionMismatch")
                              ELSE Ret(SendVersion(q, stage), "Processing")

\* StartSeqStep as it would be if a recovery of the line ended the command.
RecoveryFinishes(p) ==
  CASE p.st = "S0Sent" -> ProcessVersionResponse(p, 0)
    [] p.st = "S1Sent" -> ProcessVersionResponse(p, 1)
    [] p.st = "S2Sent" -> ProcessVersionResponse(p, 2)
    [] p.st = "S3Sent" -> Ret(StartWritingInitRegisters(p), "Processing")
    [] p.st = "WritingInitRegisters" -> Ret(ProcessWritingInitRegister(p), "Processing")
    [] OTHER -> Ret(SwitchFromStartToIdle(p), "Finished")

StartSeqStep(p) ==
  CASE p.st = "S0Sent" -> ProcessVersionResponse(p, 0)
    [] p.st = "S1Sent" -> ProcessVersionResponse(p, 1)
    [] p.st = "S2Sent" -> ProcessVersionResponse(p, 2)
    [] p.st = "S3Sent" -> Ret(IF p.rsp.req # Req("Version", 3) THEN SendVersion(p, 3)
                              ELSE StartWritingInitRegisters(p), "Processing")
    [] p.st = "WritingInitRegisters" -> Ret(ProcessWritingInitRegister(p), "Processing")
    [] p.st = "FilamentSensorStateSent" -> Ret(SwitchFromStartToIdle(p), "Processing")
    [] OTHER -> Ret(p, "VersionMismatch")

\* "Finished" may be the end of another command, or of a restart ("X0 F").
ProcessCommandQueryResponse(p) ==
  CASE p.rsp.param = "Processing" ->
         Ret(SendAndUpdateFilamentSensor([p EXCEPT !.error = "OK"]), "Processing")
    [] p.rsp.param = "Error" ->
         Ret(SendAndUpdateFilamentSensor([p EXCEPT !.error = "MMU"]), "CommandError")
    [] p.rsp.param = "Button" -> Ret(SendAndUpdateFilamentSensor(p), "ButtonPushed")
    [] p.rsp.param = "Finished" /\ p.rq = p.rsp.req ->
         Ret([p EXCEPT !.error = "OK", !.st = "Ready", !.rq = NoReq], "Finished")
    [] p.rsp.param = "Finished" /\ p.rq # p.rsp.req -> Ret(p, "Interrupted")
    [] OTHER -> Ret(p, "ProtocolError")

CommandStep(p) ==
  CASE p.st = "CommandSent" /\ p.rsp.param = "Accepted" ->
         Ret([p EXCEPT !.error = "RUNNING", !.st = "Wait"], "Processing")
    [] p.st = "CommandSent" /\ p.rsp.param = "Rejected" ->
         Ret([p EXCEPT !.error = "PROTOCOL_ERROR"], "CommandRejected")
    [] p.st = "QuerySent" -> ProcessCommandQueryResponse(p)
    [] p.st = "FilamentSensorStateSent" -> Ret(StartReading8bitRegisters(p), "Processing")
    [] p.st = "Reading8bitRegisters" -> Ret(ProcessRead8bitRegister(p), "Processing")
    [] p.st = "Reading16bitRegisters" -> Ret(ProcessRead16bitRegister(p, "Wait"), "Processing")
    [] p.st = "ButtonSent" ->
         Ret(SendAndUpdateFilamentSensor(
               IF p.rsp.param = "Accepted" THEN DecrementRetryAttempts(p) ELSE p), "Processing")
    [] OTHER -> Ret(p, "ProtocolError")

\* A running command found in Idle: the line dropped out while it ran.
SwitchFromIdleToCommand(p) ==
  ProcessCommandQueryResponse([p EXCEPT !.scope = "Command", !.rq = p.rsp.req])

\* The answer to a query in Idle.
IdleQueryResponse(p) ==
  CASE p.rsp.req.code \in Motions /\ p.rsp.param # "Finished" -> SwitchFromIdleToCommand(p)
    [] p.rsp.req.code = "Reset" /\ p.rsp.param = "Button" ->
         Ret(StartReading8bitRegisters(p), "ButtonPushed")
    [] p.rsp.req.code = "Reset" /\ p.rsp.param = "Finished" /\ p.rq.code # "unknown" ->
         Ret([p EXCEPT !.st = "Ready"], "Interrupted")
    [] p.rsp.req.code = "Reset" /\ p.rsp.param \in {"Finished", "Processing"} /\
       ~(p.rsp.param = "Finished" /\ p.rq.code # "unknown") ->
         Ret(StartReading8bitRegisters([p EXCEPT !.error = "OK"]), "Processing")
    [] p.rsp.req.code = "Reset" /\ p.rsp.param \notin {"Button", "Finished", "Processing"} ->
         Ret(StartReading8bitRegisters([p EXCEPT !.error = "MMU"]), "CommandError")
    [] p.rsp.req.code \in Motions /\ p.rsp.param = "Finished" ->
         Ret(StartReading8bitRegisters(p), "Processing")
    [] OTHER -> Ret(p, "ProtocolError")

IdleStep(p) ==
  CASE p.st = "QuerySent" -> IdleQueryResponse(p)
    [] p.st = "Reading8bitRegisters" -> Ret(ProcessRead8bitRegister(p), "Processing")
    [] p.st = "Reading16bitRegisters" ->
         LET q == ProcessRead16bitRegister(p, "Ready")
         IN  Ret(q, IF q.st = "Ready" THEN "Finished" ELSE "Processing")
    [] p.st = "ButtonSent" ->
         Ret(StartReading8bitRegisters(
               IF p.rsp.param = "Accepted" THEN DecrementRetryAttempts(p) ELSE p), "Processing")
    [] p.st \in {"ReadRegisterSent", "WriteRegisterSent"} -> Ret(p, "Finished")
    [] OTHER -> Ret(p, "ProtocolError")

-----------------------------------------------------------------------------
(* Waiting.  fs says that the filament sensor has changed.                 *)

DelayedRestartWait(p) ==
  Ret(IF Elapsed(p, heartBeatPeriod) THEN Start([p EXCEPT !.drained = TRUE]) ELSE p,
      "Processing")

CommandWait(p, fs) ==
  Ret(CASE Elapsed(p, heartBeatPeriod) -> SendQuery(p)
        [] ~Elapsed(p, heartBeatPeriod) /\ fs -> SendAndUpdateFilamentSensor(p)
        [] OTHER -> p, "Processing")

IdleWait(p) ==
  IF p.st = "Ready" /\ Elapsed(p, heartBeatPeriod) THEN Ret(SendQuery(p), "Processing")
                                                   ELSE Ret(p, "Finished")

-----------------------------------------------------------------------------
(* One step.  msg is what the UART holds: a response, NoMsg or Garbage.    *)

\* ScopeStep() when no message is expected, or one has been received.
WaitStep(p, fs) ==
  CASE p.scope = "DelayedRestart" -> DelayedRestartWait(p)
    [] p.scope = "Idle"    -> IdleWait(p)
    [] p.scope = "Command" -> CommandWait(p, fs)
    [] p.scope = "Stopped" -> Ret(p, "Processing")
    [] OTHER -> Ret(p, "Finished")

MessageStep(p) ==
  CASE p.scope = "StartSeq" -> StartSeqStep(p)
    [] p.scope = "Idle"     -> IdleStep(p)
    [] p.scope = "Command"  -> CommandStep(p)
    [] p.scope = "Stopped"  -> Ret(p, "Processing")
    [] OTHER -> Ret(p, "Finished")

ScopeStep(p, msg, fs) ==
  CASE ~ExpectsResponse(p) -> WaitStep(p, fs)
    [] ExpectsResponse(p) /\ msg = Garbage -> Ret([p EXCEPT !.quiet = 0], "ProtocolError")
    [] ExpectsResponse(p) /\ msg = NoMsg ->
         Ret(p, IF Elapsed(p, linkLayerTimeout) /\ p.scope # "Stopped"
                THEN "CommunicationTimeout" ELSE "Processing")
    [] OTHER -> MessageStep([p EXCEPT !.rsp = msg, !.quiet = 0])

\* SuppressShortDropOuts as it would be if no drop-out were counted.
SuppressAllDropOuts(p, status) == Ret(p, "Processing")

\* SuppressShortDropOuts as it would be if a report did not rearm the filter.
SuppressOnce(p, status) ==
  LET q == [p EXCEPT !.cause = IF p.occurrences = MaxOccurrences THEN status ELSE @,
                     !.occurrences = @ - 1]
  IN  IF q.occurrences = 0 THEN Ret(q, q.cause) ELSE Ret(q, "Processing")

\* DropOutFilter::Record and the report of the first cause.
SuppressShortDropOuts(p, status) ==
  LET q == [p EXCEPT !.cause = IF p.occurrences = MaxOccurrences THEN status ELSE @,
                     !.occurrences = @ - 1]
  IN  IF q.occurrences = 0 THEN Ret(ResetCommunicationTimeoutAttempts(q), q.cause)
                           ELSE Ret(q, "Processing")

\* HandleCommunicationTimeout as it would be without the restart.
ReportTimeout(p) == SuppressShortDropOuts(p, "CommunicationTimeout")

HandleCommunicationTimeout(p) == SuppressShortDropOuts(Start(p), "CommunicationTimeout")
HandleProtocolError(p) ==
  SuppressShortDropOuts([p EXCEPT !.state = "InitSequence", !.scope = "DelayedRestart",
                                  !.st = "RecoveringProtocolError"], "ProtocolError")

\* HandleFinished as it would be if the end of an Idle cycle were always
\* reported.
AlwaysFinished(p) ==
  IF p.planned = NoReq THEN SwitchToIdle(p) ELSE ActivatePlannedRequest(p)

HandleFinished(p) ==
  IF p.planned = NoReq THEN SwitchToIdle(p)
                       ELSE Ret(ActivatePlannedRequest(p), "Processing")

HandleStepStatus(p) ==
  CASE p.ret = "Finished"             -> HandleFinished(p)
    [] p.ret = "CommandRejected"      -> CommandRestart(p)
    [] p.ret = "ProtocolError"        -> HandleProtocolError(p)
    [] p.ret = "CommunicationTimeout" -> HandleCommunicationTimeout(p)
    [] OTHER -> p
ReportPrinterError(p) == IF p.printerError THEN Ret(p, "PrinterError") ELSE p

Step(p, msg, fs) ==
  ReportPrinterError(HandleStepStatus(
    ScopeStep(IF ExpectsResponse(p) THEN p ELSE ActivatePlannedRequest(p), msg, fs)))

\* Step() reads a message from the UART only when it expects one, which it
\* also does after it has just sent a planned request.
ReadsMessage(p) == ExpectsResponse(p) \/ p.planned # NoReq

CommandInProgress(p) == p.scope = "Command"
Running(p) == p.state = "Running"
=============================================================================
