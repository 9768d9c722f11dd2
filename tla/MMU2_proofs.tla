----------------------------- MODULE MMU2_proofs -----------------------------
(* One question at a time on the line of the multi-material unit, for every   *)
(* number of registers, retries and drop-outs, every operation and all faults *)
(* but answers that are too late.                                             *)
EXTENDS MMU2, TLAPS

Codes     == {"unknown", "Query", "FilamentSensor", "Button", "Version", "Read", "Write", "Reset",
              "Tool", "Unload", "Load", "Cut", "Eject", "Mode"}
UnitStates == {"Finished", "Processing", "Error", "Button", "Dead"}
Params    == UnitStates \union {"Accepted", "Rejected", "unknown", "none", "garbage"}
Errors    == {"OK", "RUNNING", "MMU", "PROTOCOL_ERROR", "MMU_NOT_RESPONDING", "VERSION_MISMATCH",
              "LOAD_TO_EXTRUDER_FAILED"}
Requests  == [code : Codes, value : Nat]
Responses == [req : Requests, param : Params, supported : BOOLEAN]
LogicStates == {"Stopped", "InitSequence", "Running"}
Scopes    == {"Stopped", "StartSeq", "DelayedRestart", "Idle", "Command"}
LogicRecords ==
  [scope : Scopes, st : ScopeStates, state : LogicStates, rq : Requests, planned : Requests,
   rsp : Responses, reg : Nat, retries : Int, occurrences : 1 .. MaxOccurrences, cause : Statuses,
   error : Errors, printerError : BOOLEAN, retryAttempts : 0 .. MAX_RETRIES,
   inAutoRetry : BOOLEAN, quiet : Nat, ret : Statuses, out : Seq(Requests), drained : BOOLEAN]

\* With n other messages on the line, nothing is on its way.
Free(p, n) == p \in LogicRecords /\ (LateAnswers \/ Len(p.out) + n = 0)
\* At most one message is on its way, and none is when the protocol expects none
\* or gives up waiting for it.
Orderly(p, n) ==
  LateAnswers \/ /\ Len(p.out) + n <= 1
                 /\ ~ExpectsResponse(p) \/ p.quiet >= linkLayerTimeout => Len(p.out) + n = 0
Good(p, n) == p \in LogicRecords /\ Orderly(p, n)

-----------------------------------------------------------------------------
(* The changes the methods are made of.                                       *)

LEMMA FreeIsGood == ASSUME NEW n \in Nat, NEW p, Free(p, n) PROVE Good(p, n)
BY DEF Free, Good, Orderly

LEMMA WaitingIsFree ==
  ASSUME NEW n \in Nat, NEW p, Good(p, n), ~ExpectsResponse(p) PROVE Free(p, n)
BY DEF Free, Good, Orderly

LEMMA SendGood ==
  ASSUME NEW n \in Nat, NEW p, Free(p, n), NEW rq \in Requests, NEW st \in ScopeStates \ Waiting
  PROVE  Good(Send(p, rq, st), n)
<1> DEFINE q == Send(p, rq, st)
<1>1. p \in LogicRecords /\ p.out \in Seq(Requests) /\ Append(p.out, rq) \in Seq(Requests)
  BY DEF Free, LogicRecords
<1>2. /\ q \in LogicRecords
      /\ q.out = Append(p.out, rq) /\ q.st = st /\ q.quiet = 0
  BY <1>1 DEF LogicRecords, Send
<1>3. Len(q.out) = Len(p.out) + 1
  BY <1>1, <1>2
<1>4. QED
  BY <1>1, <1>2, <1>3 DEF Free, Good, Orderly, ExpectsResponse, linkLayerTimeout

LEMMA RetFree ==
  ASSUME NEW n \in Nat, NEW p, Free(p, n), NEW s \in Statuses
  PROVE  Free(Ret(p, s), n) /\ Ret(p, s).ret = s
BY DEF Free, LogicRecords, Ret

LEMMA RetGood ==
  ASSUME NEW n \in Nat, NEW p, Good(p, n), NEW s \in Statuses
  PROVE  Good(Ret(p, s), n) /\ Ret(p, s).ret = s
BY DEF Good, Orderly, LogicRecords, Ret, ExpectsResponse

\* A change of the other fields.
LEMMA SameLine ==
  ASSUME NEW n \in Nat, NEW p, NEW q \in LogicRecords, q.out = p.out, q.st = p.st, q.quiet = p.quiet
  PROVE  (Free(p, n) => Free(q, n)) /\ (Good(p, n) => Good(q, n))
         /\ (ExpectsResponse(q) <=> ExpectsResponse(p))
BY DEF Free, Good, Orderly, ExpectsResponse

\* A change of the state of the line while nothing is on its way.
LEMMA FreeLine ==
  ASSUME NEW n \in Nat, NEW p, Free(p, n), NEW q \in LogicRecords, q.out = p.out
  PROVE  Free(q, n)
BY DEF Free

\* What is sent, and the states that wait for the answer.
LEMMA Sent ==
  /\ Req("Query", 0) \in Requests /\ Req("FilamentSensor", 0) \in Requests
  /\ NoReq \in Requests
  /\ \A v \in Nat : /\ Req("Button", v) \in Requests /\ Req("Version", v) \in Requests
                    /\ Req("Read", v) \in Requests /\ Req("Write", v) \in Requests
BY DEF Req, NoReq, Requests, Codes

LEMMA Counts ==
  /\ MaxRetries \in Int /\ MaxOccurrences \in 1 .. MaxOccurrences /\ MaxOccurrences > 1
  /\ MAX_RETRIES \in 0 .. MAX_RETRIES /\ MAX_RETRIES \in 1 .. MAX_RETRIES /\ MAX_RETRIES > 1
  /\ MaxOccurrences \in Nat /\ MAX_RETRIES \in Nat
BY CountAssumption

LEMMA SentStates ==
  /\ "QuerySent" \in ScopeStates \ Waiting /\ "FilamentSensorStateSent" \in ScopeStates \ Waiting
  /\ "CommandSent" \in ScopeStates \ Waiting /\ "ButtonSent" \in ScopeStates \ Waiting
  /\ "Reading8bitRegisters" \in ScopeStates \ Waiting
  /\ "Reading16bitRegisters" \in ScopeStates \ Waiting
  /\ "WritingInitRegisters" \in ScopeStates \ Waiting
  /\ "ReadRegisterSent" \in ScopeStates \ Waiting /\ "WriteRegisterSent" \in ScopeStates \ Waiting
  /\ \A stage \in 0 .. 3 : VersionSent[stage + 1] \in ScopeStates \ Waiting
  /\ Waiting \subseteq ScopeStates
BY DEF ScopeStates, Waiting, VersionSent

-----------------------------------------------------------------------------
(* Requests.                                                                  *)

LEMMA QueryGood ==
  ASSUME NEW n \in Nat, NEW p, Free(p, n) PROVE Good(SendQuery(p), n)
<1>1. Req("Query", 0) \in Requests /\ "QuerySent" \in ScopeStates \ Waiting
  BY Sent, SentStates
<1>2. QED
  BY <1>1, SendGood DEF SendQuery

LEMMA SensorGood ==
  ASSUME NEW n \in Nat, NEW p, Free(p, n) PROVE Good(SendAndUpdateFilamentSensor(p), n)
<1>1. Req("FilamentSensor", 0) \in Requests /\ "FilamentSensorStateSent" \in ScopeStates \ Waiting
  BY Sent, SentStates
<1>2. QED
  BY <1>1, SendGood DEF SendAndUpdateFilamentSensor

LEMMA RestartGood ==
  ASSUME NEW n \in Nat, NEW p, Free(p, n) PROVE Good(CommandRestart(p), n)
<1>1. p.rq \in Requests /\ "CommandSent" \in ScopeStates \ Waiting
  BY SentStates DEF Free, LogicRecords
<1>2. QED
  BY <1>1, SendGood DEF CommandRestart

LEMMA ButtonGood ==
  ASSUME NEW n \in Nat, NEW p, Free(p, n), NEW v \in Nat PROVE Good(SendButton(p, v), n)
<1>1. Req("Button", v) \in Requests /\ "ButtonSent" \in ScopeStates \ Waiting
  BY Sent, SentStates
<1>2. QED
  BY <1>1, SendGood DEF SendButton

LEMMA VersionGood ==
  ASSUME NEW n \in Nat, NEW p, Free(p, n), NEW v \in 0 .. 3 PROVE Good(SendVersion(p, v), n)
<1>1. Req("Version", v) \in Requests /\ VersionSent[v + 1] \in ScopeStates \ Waiting
  BY Sent, SentStates
<1>2. QED
  BY <1>1, SendGood DEF SendVersion

\* Registers are asked for one by one.
LEMMA SetReg ==
  ASSUME NEW n \in Nat, NEW p, Free(p, n), NEW r \in Nat
  PROVE  Free([p EXCEPT !.reg = r], n) /\ [p EXCEPT !.reg = r].reg = r
BY DEF Free, LogicRecords

LEMMA StartRegisters ==
  ASSUME NEW n \in Nat, NEW p, Free(p, n)
  PROVE  /\ Good(StartReading8bitRegisters(p), n) /\ Good(StartReading16bitRegisters(p), n)
         /\ Good(StartWritingInitRegisters(p), n)
<1>1. Free([p EXCEPT !.reg = 0], n)
  BY SetReg
<1>2. Regs8Count \in Nat
  BY CountAssumption
<1>3. Req("Read", 0) \in Requests /\ Req("Read", Regs8Count) \in Requests
      /\ Req("Write", 0) \in Requests
  BY <1>2, Sent
<1>4. Good(StartReading8bitRegisters(p), n)
  BY <1>1, <1>3, SentStates, SendGood DEF StartReading8bitRegisters
<1>5. Good(StartReading16bitRegisters(p), n)
  BY <1>1, <1>3, SentStates, SendGood DEF StartReading16bitRegisters
<1>6. Good(StartWritingInitRegisters(p), n)
  BY <1>1, <1>3, SentStates, SendGood DEF StartWritingInitRegisters
<1>7. QED
  BY <1>4, <1>5, <1>6

LEMMA NextRegister ==
  ASSUME NEW n \in Nat, NEW p, Free(p, n)
  PROVE  Good(ProcessRead8bitRegister(p), n) /\ Good(ProcessWritingInitRegister(p), n)
<1> DEFINE r == p.reg + 1
           q == [p EXCEPT !.reg = r]
<1>1. r \in Nat
  BY DEF Free, LogicRecords
<1>2. Free(q, n) /\ q.reg = r
  BY <1>1, SetReg
<1>3. Req("Read", r) \in Requests /\ Req("Write", r) \in Requests
  BY <1>1, Sent
<1> HIDE DEF r, q
<1>4. /\ Good(Send(q, Req("Read", r), "Reading8bitRegisters"), n)
      /\ Good(Send(q, Req("Write", r), "WritingInitRegisters"), n)
  BY <1>2, <1>3, SentStates, SendGood
<1>5. Good(StartReading16bitRegisters(q), n) /\ Good(SendAndUpdateFilamentSensor(q), n)
  BY <1>2, StartRegisters, SensorGood
<1>6. /\ ProcessRead8bitRegister(p) =
           IF q.reg >= Regs8Count THEN StartReading16bitRegisters(q)
           ELSE Send(q, Req("Read", q.reg), "Reading8bitRegisters")
      /\ ProcessWritingInitRegister(p) =
           IF q.reg >= InitRegs8Count THEN SendAndUpdateFilamentSensor(q)
           ELSE Send(q, Req("Write", q.reg), "WritingInitRegisters")
  BY DEF ProcessRead8bitRegister, ProcessWritingInitRegister, q, r
<1>7. QED
  BY <1>2, <1>4, <1>5, <1>6

\* The last of the 16-bit registers sends nothing.
LEMMA Read16Sends ==
  ASSUME NEW n \in Nat, NEW p, Free(p, n), NEW st \in Waiting
  PROVE  LET q == ProcessRead16bitRegister(p, st)
         IN  Good(q, n) /\ (q.st = st => Free(q, n))
<1> DEFINE r == [p EXCEPT !.reg = @ + 1]
<1>1. p \in LogicRecords /\ Regs8Count \in Nat
  BY CountAssumption DEF Free
<1>2. r \in LogicRecords /\ r.reg \in Nat /\ r.out = p.out
  BY <1>1 DEF LogicRecords
<1>3. Free(r, n)
  BY <1>2, FreeLine
<1>4. st \in ScopeStates /\ "Reading16bitRegisters" \in ScopeStates \ Waiting
  BY DEF ScopeStates, Waiting
<1>5. [r EXCEPT !.st = st] \in LogicRecords /\ [r EXCEPT !.st = st].out = p.out
  BY <1>2, <1>4 DEF LogicRecords
<1> DEFINE s == Send(r, Req("Read", Regs8Count + r.reg), "Reading16bitRegisters")
<1>6. Good(s, n)
  <2>1. Req("Read", Regs8Count + r.reg) \in Requests
    BY <1>1, <1>2, Sent
  <2>2. QED
    BY <1>3, <1>4, <2>1, SendGood
<1>7. s.st = "Reading16bitRegisters"
  BY <1>2 DEF Send, LogicRecords
<1>8. Free([r EXCEPT !.st = st], n)
  BY <1>5, FreeLine
<1>9. QED
  BY <1>4, <1>6, <1>7, <1>8, FreeIsGood DEF ProcessRead16bitRegister

-----------------------------------------------------------------------------
(* Planned requests and changes of scope.                                     *)

LEMMA PlannedGood ==
  ASSUME NEW n \in Nat, NEW p, Free(p, n) PROVE Good(ActivatePlannedRequest(p), n)
<1> DEFINE q == [p EXCEPT !.planned = NoReq]
           c == [q EXCEPT !.scope = "Command", !.rq = p.planned]
<1>1. p \in LogicRecords /\ p.planned \in Requests /\ p.planned.value \in Nat
  BY DEF Free, LogicRecords, Requests
<1>2. q \in LogicRecords /\ q.out = p.out
  BY <1>1, Sent DEF LogicRecords
<1>3. c \in LogicRecords /\ c.out = p.out
  BY <1>1, <1>2 DEF LogicRecords, LogicStates, Scopes
<1>4. Free(q, n) /\ Free(c, n) /\ Good(p, n)
  BY <1>2, <1>3, FreeLine, FreeIsGood
<1> HIDE DEF q, c
<1>5. /\ Good(SendButton(q, p.planned.value), n) /\ Good(CommandRestart(c), n)
      /\ Good(Send(q, p.planned, "ReadRegisterSent"), n)
      /\ Good(Send(q, p.planned, "WriteRegisterSent"), n)
  BY <1>1, <1>4, SentStates, SendGood, ButtonGood, RestartGood
<1>6. QED
  BY <1>4, <1>5 DEF ActivatePlannedRequest, q, c

LEMMA PlanGood ==
  ASSUME NEW n \in Nat, NEW p, Good(p, n), NEW rq \in Requests
  PROVE  Good(PlanGenericRequest(p, rq), n)
<1> DEFINE q == [p EXCEPT !.planned = rq]
<1>1. q \in LogicRecords /\ q.out = p.out /\ q.st = p.st /\ q.quiet = p.quiet
  BY DEF Good, LogicRecords
<1>2. Good(q, n)
  BY <1>1, SameLine
<1> HIDE DEF q
<1>3. ~ExpectsResponse(q) => Good(ActivatePlannedRequest(q), n)
  BY <1>2, WaitingIsFree, PlannedGood
<1>4. QED
  BY <1>2, <1>3 DEF PlanGenericRequest, q

LEMMA StartGood ==
  ASSUME NEW n \in Nat, NEW p, Free(p, n) PROVE Good(Start(p), n)
<1> DEFINE q == [p EXCEPT !.state = "InitSequence", !.scope = "StartSeq", !.retries = MaxRetries]
<1>1. q \in LogicRecords /\ q.out = p.out
  BY Counts DEF Free, LogicRecords, LogicStates, Scopes
<1>2. Free(q, n)
  BY <1>1, FreeLine
<1> HIDE DEF q
<1>3. QED
  BY <1>2, VersionGood DEF Start, q

LEMMA StopGood ==
  ASSUME NEW n \in Nat, NEW p, Good(p, n)
  PROVE  Good(Stop(p), n) /\ Stop(p).out = p.out /\ (ExpectsResponse(Stop(p)) <=> ExpectsResponse(p))
<1>1. Stop(p) \in LogicRecords /\ Stop(p).out = p.out /\ Stop(p).st = p.st /\ Stop(p).quiet = p.quiet
  BY DEF Stop, Good, LogicRecords, LogicStates, Scopes
<1>2. QED
  BY <1>1, SameLine

LEMMA IdleFree ==
  ASSUME NEW n \in Nat, NEW p, Free(p, n)
  PROVE  Free(SwitchToIdle(p), n) /\ Good(SwitchFromStartToIdle(p), n)
<1>1. SwitchToIdle(p) \in LogicRecords /\ SwitchToIdle(p).out = p.out
  BY SentStates DEF SwitchToIdle, Free, LogicRecords, LogicStates, Scopes, Waiting
<1>2. Free(SwitchToIdle(p), n)
  BY <1>1, FreeLine
<1>3. QED
  BY <1>2, QueryGood DEF SwitchFromStartToIdle

-----------------------------------------------------------------------------
(* Responses.                                                                 *)

\* The statuses after which nothing has been sent.
SilentStatuses == {"Finished", "CommandRejected", "ProtocolError", "CommunicationTimeout"}
\* The object after ScopeStep().
Answered(p, n) == Good(p, n) /\ (p.ret \in SilentStatuses => Free(p, n))

LEMMA RetAnswered ==
  ASSUME NEW n \in Nat, NEW p, NEW s \in Statuses
  PROVE  /\ Free(p, n) => Answered(Ret(p, s), n)
         /\ Good(p, n) /\ s \notin SilentStatuses => Answered(Ret(p, s), n)
BY FreeIsGood, RetFree, RetGood DEF Answered

LEMMA StatusesSent ==
  /\ SilentStatuses \subseteq Statuses
  /\ "Processing" \in Statuses \ SilentStatuses /\ "Interrupted" \in Statuses \ SilentStatuses
  /\ "CommandError" \in Statuses \ SilentStatuses /\ "ButtonPushed" \in Statuses \ SilentStatuses
  /\ "VersionMismatch" \in Statuses \ SilentStatuses /\ "PrinterError" \in Statuses \ SilentStatuses
  /\ "Finished" \in Statuses /\ "CommandRejected" \in Statuses /\ "ProtocolError" \in Statuses
  /\ "CommunicationTimeout" \in Statuses
BY DEF SilentStatuses, Statuses

LEMMA VersionAnswered ==
  ASSUME NEW n \in Nat, NEW p, Free(p, n), NEW stage \in 0 .. 2
  PROVE  Answered(ProcessVersionResponse(p, stage), n)
<1> DEFINE a == ResetCommunicationTimeoutAttempts(p)
           q == [p EXCEPT !.retries = (@ + 255) % 256]
<1>1. p \in LogicRecords /\ p.retries \in Int
  BY DEF Free, LogicRecords
<1>2. a \in LogicRecords /\ a.out = p.out
  BY <1>1, Counts DEF ResetCommunicationTimeoutAttempts, LogicRecords
<1>3. (p.retries + 255) % 256 \in Int
  BY <1>1
<1>4. q \in LogicRecords /\ q.out = p.out
  BY <1>1, <1>3 DEF LogicRecords
<1>5. Free(a, n) /\ Free(q, n)
  BY <1>2, <1>4, FreeLine
<1>6. stage \in 0 .. 3 /\ stage + 1 \in 0 .. 3
  OBVIOUS
<1> HIDE DEF a, q
<1>7. /\ Good(SendVersion(p, stage), n) /\ Good(SendVersion(a, stage + 1), n)
      /\ Good(SendVersion(q, stage), n)
  BY <1>5, <1>6, VersionGood
<1>8. /\ Answered(Ret(SendVersion(p, stage), "Processing"), n)
      /\ Answered(Ret(SendVersion(a, stage + 1), "Processing"), n)
      /\ Answered(Ret(SendVersion(q, stage), "Processing"), n)
      /\ Answered(Ret(q, "VersionMismatch"), n)
  BY <1>5, <1>7, StatusesSent, RetAnswered
<1>9. QED
  BY <1>8 DEF ProcessVersionResponse, a, q

\* What else an answer changes.
LEMMA Changes ==
  ASSUME NEW n \in Nat, NEW p, Free(p, n)
  PROVE  /\ \A e \in Errors : Free([p EXCEPT !.error = e], n)
         /\ Free([p EXCEPT !.st = "Ready"], n)
         /\ Free([p EXCEPT !.error = "RUNNING", !.st = "Wait"], n)
         /\ Free([p EXCEPT !.error = "OK", !.st = "Ready", !.rq = NoReq], n)
         /\ Free([p EXCEPT !.scope = "Command", !.rq = p.rsp.req], n)
         /\ Free(DecrementRetryAttempts(p), n)
<1>1. p \in LogicRecords
  BY DEF Free
<1>2. ASSUME NEW e \in Errors PROVE Free([p EXCEPT !.error = e], n)
  <2>1. [p EXCEPT !.error = e] \in LogicRecords /\ [p EXCEPT !.error = e].out = p.out
    BY <1>1 DEF LogicRecords
  <2>2. QED
    BY <2>1, FreeLine
<1>3. Free([p EXCEPT !.st = "Ready"], n)
  <2>1. [p EXCEPT !.st = "Ready"] \in LogicRecords /\ [p EXCEPT !.st = "Ready"].out = p.out
    BY <1>1, SentStates DEF LogicRecords, Waiting
  <2>2. QED
    BY <2>1, FreeLine
<1>4. Free([p EXCEPT !.error = "RUNNING", !.st = "Wait"], n)
  <2> DEFINE q == [p EXCEPT !.error = "RUNNING", !.st = "Wait"]
  <2>1. q \in LogicRecords /\ q.out = p.out
    BY <1>1, SentStates DEF LogicRecords, Waiting, Errors
  <2>2. QED
    BY <2>1, FreeLine
<1>5. Free([p EXCEPT !.error = "OK", !.st = "Ready", !.rq = NoReq], n)
  <2> DEFINE q == [p EXCEPT !.error = "OK", !.st = "Ready", !.rq = NoReq]
  <2>1. q \in LogicRecords /\ q.out = p.out
    BY <1>1, SentStates, Sent DEF LogicRecords, Waiting, Errors
  <2>2. QED
    BY <2>1, FreeLine
<1>6. Free([p EXCEPT !.scope = "Command", !.rq = p.rsp.req], n)
  <2> DEFINE q == [p EXCEPT !.scope = "Command", !.rq = p.rsp.req]
  <2>1. p.rsp.req \in Requests
    BY <1>1 DEF LogicRecords, Responses
  <2>2. q \in LogicRecords /\ q.out = p.out
    BY <1>1, <2>1 DEF LogicRecords, Scopes
  <2>3. QED
    BY <2>2, FreeLine
<1>7. Free(DecrementRetryAttempts(p), n)
  <2> DEFINE q == [p EXCEPT !.retryAttempts = @ - 1]
  <2>1. CASE p.retryAttempts > 0
    <3>1. p.retryAttempts - 1 \in 0 .. MAX_RETRIES
      BY <1>1, <2>1, Counts DEF LogicRecords
    <3>2. q \in LogicRecords /\ q.out = p.out
      BY <1>1, <3>1 DEF LogicRecords
    <3>3. Free(q, n)
      BY <3>2, FreeLine
    <3>4. QED
      BY <3>3 DEF DecrementRetryAttempts
  <2>2. CASE ~(p.retryAttempts > 0)
    BY <2>2 DEF DecrementRetryAttempts
  <2>3. QED
    BY <2>1, <2>2
<1>8. QED
  BY <1>2, <1>3, <1>4, <1>5, <1>6, <1>7

LEMMA StartSeqAnswered ==
  ASSUME NEW n \in Nat, NEW p, Free(p, n) PROVE Answered(StartSeqStep(p), n)
<1>1. /\ Answered(ProcessVersionResponse(p, 0), n) /\ Answered(ProcessVersionResponse(p, 1), n)
      /\ Answered(ProcessVersionResponse(p, 2), n)
  BY VersionAnswered
<1>2. /\ Good(SendVersion(p, 3), n) /\ Good(StartWritingInitRegisters(p), n)
      /\ Good(ProcessWritingInitRegister(p), n) /\ Good(SwitchFromStartToIdle(p), n)
  BY VersionGood, StartRegisters, NextRegister, IdleFree
<1>3. /\ Answered(Ret(SendVersion(p, 3), "Processing"), n)
      /\ Answered(Ret(StartWritingInitRegisters(p), "Processing"), n)
      /\ Answered(Ret(ProcessWritingInitRegister(p), "Processing"), n)
      /\ Answered(Ret(SwitchFromStartToIdle(p), "Processing"), n)
      /\ Answered(Ret(p, "VersionMismatch"), n)
  BY <1>2, StatusesSent, RetAnswered
<1>4. QED
  BY <1>1, <1>3 DEF StartSeqStep

LEMMA CommandQueryAnswered ==
  ASSUME NEW n \in Nat, NEW p, Free(p, n) PROVE Answered(ProcessCommandQueryResponse(p), n)
<1> DEFINE ok == [p EXCEPT !.error = "OK"]
           mmuError == [p EXCEPT !.error = "MMU"]
           done == [p EXCEPT !.error = "OK", !.st = "Ready", !.rq = NoReq]
<1>1. Free(ok, n) /\ Free(mmuError, n) /\ Free(done, n)
  BY Changes DEF Errors
<1> HIDE DEF ok, mmuError, done
<1>2. /\ Good(SendAndUpdateFilamentSensor(ok), n) /\ Good(SendAndUpdateFilamentSensor(mmuError), n)
      /\ Good(SendAndUpdateFilamentSensor(p), n)
  BY <1>1, SensorGood
<1>3. /\ Answered(Ret(SendAndUpdateFilamentSensor(ok), "Processing"), n)
      /\ Answered(Ret(SendAndUpdateFilamentSensor(mmuError), "CommandError"), n)
      /\ Answered(Ret(SendAndUpdateFilamentSensor(p), "ButtonPushed"), n)
  BY <1>2, StatusesSent, RetAnswered
<1>4. /\ Answered(Ret(done, "Finished"), n) /\ Answered(Ret(p, "Interrupted"), n)
      /\ Answered(Ret(p, "ProtocolError"), n)
  BY <1>1, StatusesSent, RetAnswered
<1>5. QED
  BY <1>3, <1>4 DEF ProcessCommandQueryResponse, ok, mmuError, done

\* Asking for the first register and for the next one, in Idle and in Command.
LEMMA ButtonAnswered ==
  ASSUME NEW n \in Nat, NEW p, Free(p, n)
  PROVE  LET q == IF p.rsp.param = "Accepted" THEN DecrementRetryAttempts(p) ELSE p
         IN  /\ Answered(Ret(SendAndUpdateFilamentSensor(q), "Processing"), n)
             /\ Answered(Ret(StartReading8bitRegisters(q), "Processing"), n)
<1> DEFINE q == IF p.rsp.param = "Accepted" THEN DecrementRetryAttempts(p) ELSE p
<1>1. Free(q, n)
  BY Changes
<1> HIDE DEF q
<1>2. Good(SendAndUpdateFilamentSensor(q), n) /\ Good(StartReading8bitRegisters(q), n)
  BY <1>1, SensorGood, StartRegisters
<1>3. /\ Answered(Ret(SendAndUpdateFilamentSensor(q), "Processing"), n)
      /\ Answered(Ret(StartReading8bitRegisters(q), "Processing"), n)
  BY <1>2, StatusesSent, RetAnswered
<1>4. QED
  BY <1>3 DEF q

LEMMA CommandAnswered ==
  ASSUME NEW n \in Nat, NEW p, Free(p, n) PROVE Answered(CommandStep(p), n)
<1> DEFINE running == [p EXCEPT !.error = "RUNNING", !.st = "Wait"]
           refused == [p EXCEPT !.error = "PROTOCOL_ERROR"]
<1>1. Free(running, n) /\ Free(refused, n)
  BY Changes DEF Errors
<1>2. Good(ProcessRead16bitRegister(p, "Wait"), n)
  BY Read16Sends DEF Waiting
<1>3. Good(StartReading8bitRegisters(p), n) /\ Good(ProcessRead8bitRegister(p), n)
  BY StartRegisters, NextRegister
<1> HIDE DEF running, refused
<1>4. /\ Answered(Ret(running, "Processing"), n) /\ Answered(Ret(refused, "CommandRejected"), n)
      /\ Answered(Ret(StartReading8bitRegisters(p), "Processing"), n)
      /\ Answered(Ret(ProcessRead8bitRegister(p), "Processing"), n)
      /\ Answered(Ret(ProcessRead16bitRegister(p, "Wait"), "Processing"), n)
      /\ Answered(Ret(p, "ProtocolError"), n)
  BY <1>1, <1>2, <1>3, StatusesSent, RetAnswered
<1>5. QED
  BY <1>4, CommandQueryAnswered, ButtonAnswered DEF CommandStep, running, refused

LEMMA IdleQueryAnswered ==
  ASSUME NEW n \in Nat, NEW p, Free(p, n) PROVE Answered(IdleQueryResponse(p), n)
<1> DEFINE command == [p EXCEPT !.scope = "Command", !.rq = p.rsp.req]
           ready == [p EXCEPT !.st = "Ready"]
           ok == [p EXCEPT !.error = "OK"]
           mmuError == [p EXCEPT !.error = "MMU"]
<1>1. Free(command, n) /\ Free(ready, n) /\ Free(ok, n) /\ Free(mmuError, n)
  BY Changes DEF Errors
<1> HIDE DEF command, ready, ok, mmuError
<1>2. Answered(ProcessCommandQueryResponse(command), n)
  BY <1>1, CommandQueryAnswered
<1>3. /\ Good(StartReading8bitRegisters(p), n) /\ Good(StartReading8bitRegisters(ok), n)
      /\ Good(StartReading8bitRegisters(mmuError), n)
  BY <1>1, StartRegisters
<1>4. /\ Answered(Ret(StartReading8bitRegisters(p), "ButtonPushed"), n)
      /\ Answered(Ret(StartReading8bitRegisters(p), "Processing"), n)
      /\ Answered(Ret(StartReading8bitRegisters(ok), "Processing"), n)
      /\ Answered(Ret(StartReading8bitRegisters(mmuError), "CommandError"), n)
      /\ Answered(Ret(ready, "Interrupted"), n) /\ Answered(Ret(p, "ProtocolError"), n)
  BY <1>1, <1>3, StatusesSent, RetAnswered
<1>5. QED
  BY <1>2, <1>4
     DEF IdleQueryResponse, SwitchFromIdleToCommand, command, ready, ok, mmuError, Motions

LEMMA IdleAnswered ==
  ASSUME NEW n \in Nat, NEW p, Free(p, n) PROVE Answered(IdleStep(p), n)
<1> DEFINE q == ProcessRead16bitRegister(p, "Ready")
<1>1. Good(q, n) /\ (q.st = "Ready" => Free(q, n))
  BY Read16Sends DEF Waiting
<1>2. Good(ProcessRead8bitRegister(p), n)
  BY NextRegister
<1> HIDE DEF q
<1>3. /\ q.st = "Ready" => Answered(Ret(q, "Finished"), n)
      /\ Answered(Ret(q, "Processing"), n)
      /\ Answered(Ret(ProcessRead8bitRegister(p), "Processing"), n)
      /\ Answered(Ret(p, "Finished"), n) /\ Answered(Ret(p, "ProtocolError"), n)
  BY <1>1, <1>2, StatusesSent, RetAnswered
<1>4. Answered(Ret(q, IF q.st = "Ready" THEN "Finished" ELSE "Processing"), n)
  BY <1>3
<1>5. QED
  BY <1>3, <1>4, IdleQueryAnswered, ButtonAnswered DEF IdleStep, q

-----------------------------------------------------------------------------
(* One step of the protocol.                                                  *)

LEMMA WaitAnswered ==
  ASSUME NEW n \in Nat, NEW p, Free(p, n), NEW fs PROVE Answered(WaitStep(p, fs), n)
<1> DEFINE drained == [p EXCEPT !.drained = TRUE]
<1>1. Free(drained, n)
  <2>1. drained \in LogicRecords /\ drained.out = p.out
    BY DEF Free, LogicRecords
  <2>2. QED
    BY <2>1, FreeLine
<1> HIDE DEF drained
<1>2. Good(Start(drained), n) /\ Good(SendQuery(p), n) /\ Good(SendAndUpdateFilamentSensor(p), n)
  BY <1>1, StartGood, QueryGood, SensorGood
<1>3. /\ Answered(Ret(Start(drained), "Processing"), n)
      /\ Answered(Ret(SendQuery(p), "Processing"), n)
      /\ Answered(Ret(SendAndUpdateFilamentSensor(p), "Processing"), n)
      /\ Answered(Ret(p, "Processing"), n) /\ Answered(Ret(p, "Finished"), n)
  BY <1>2, StatusesSent, RetAnswered
<1>4. Answered(DelayedRestartWait(p), n)
  BY <1>3 DEF DelayedRestartWait, drained
<1>5. Answered(CommandWait(p, fs), n)
  BY <1>3 DEF CommandWait
<1>6. Answered(IdleWait(p), n)
  BY <1>3 DEF IdleWait
<1>7. QED
  BY <1>3, <1>4, <1>5, <1>6 DEF WaitStep

LEMMA MessageAnswered ==
  ASSUME NEW n \in Nat, NEW p, Free(p, n) PROVE Answered(MessageStep(p), n)
<1>1. Answered(Ret(p, "Processing"), n) /\ Answered(Ret(p, "Finished"), n)
  BY StatusesSent, RetAnswered
<1>2. QED
  BY <1>1, StartSeqAnswered, IdleAnswered, CommandAnswered DEF MessageStep

\* A message that is read is taken off the line: nothing else is on it.
LEMMA ScopeAnswered ==
  ASSUME NEW n \in Nat, NEW p, Good(p, n), NEW msg \in Responses, NEW fs,
         ExpectsResponse(p) /\ msg # NoMsg => Free(p, n)
  PROVE  Answered(ScopeStep(p, msg, fs), n)
<1> DEFINE heard == [p EXCEPT !.quiet = 0]
           read  == [p EXCEPT !.rsp = msg, !.quiet = 0]
<1>1. heard \in LogicRecords /\ heard.out = p.out /\ read \in LogicRecords /\ read.out = p.out
  BY DEF Good, LogicRecords
<1>2. CASE ~ExpectsResponse(p)
  BY <1>2, WaitingIsFree, WaitAnswered DEF ScopeStep
<1>3. CASE ExpectsResponse(p) /\ msg = NoMsg
  <2>1. Elapsed(p, linkLayerTimeout) => Free(p, n)
    BY DEF Elapsed, Good, Orderly, Free
  <2>2. /\ Elapsed(p, linkLayerTimeout) => Answered(Ret(p, "CommunicationTimeout"), n)
        /\ Answered(Ret(p, "Processing"), n)
    BY <2>1, StatusesSent, RetAnswered
  <2>3. NoMsg # Garbage
    BY DEF NoMsg, Garbage, Rsp
  <2>4. ScopeStep(p, msg, fs) =
          Ret(p, IF Elapsed(p, linkLayerTimeout) /\ p.scope # "Stopped"
                 THEN "CommunicationTimeout" ELSE "Processing")
    BY <1>3, <2>3 DEF ScopeStep
  <2>5. QED
    BY <2>2, <2>4
<1>4. CASE ExpectsResponse(p) /\ msg # NoMsg
  <2>1. Free(heard, n) /\ Free(read, n)
    BY <1>1, <1>4, FreeLine
  <2> HIDE DEF heard, read
  <2>2. Answered(Ret(heard, "ProtocolError"), n)
    BY <2>1, StatusesSent, RetAnswered
  <2>3. Answered(MessageStep(read), n)
    BY <2>1, MessageAnswered
  <2>4. QED
    BY <1>4, <2>2, <2>3 DEF ScopeStep, heard, read
<1>5. QED
  BY <1>2, <1>3, <1>4

LEMMA DropOutGood ==
  ASSUME NEW n \in Nat, NEW p, Good(p, n), NEW s \in Statuses
  PROVE  Good(SuppressShortDropOuts(p, s), n)
<1> DEFINE q == [p EXCEPT !.cause = IF p.occurrences = MaxOccurrences THEN s ELSE @,
                          !.occurrences = @ - 1]
           r == [q EXCEPT !.occurrences = MaxOccurrences]
<1>1. p \in LogicRecords /\ p.occurrences \in 1 .. MaxOccurrences /\ p.cause \in Statuses
  BY DEF Good, LogicRecords
<1>2. q.occurrences = p.occurrences - 1 /\ q.cause \in Statuses /\ q.out = p.out /\ q.st = p.st
      /\ q.quiet = p.quiet
  BY <1>1 DEF LogicRecords
<1>3. r \in LogicRecords /\ r.out = p.out /\ r.st = p.st /\ r.quiet = p.quiet
  BY <1>1, <1>2, Counts DEF LogicRecords
<1>4. q.occurrences # 0 => q \in LogicRecords
  <2> SUFFICES ASSUME q.occurrences # 0 PROVE q \in LogicRecords
    OBVIOUS
  <2>1. p.occurrences - 1 \in 1 .. MaxOccurrences
    BY <1>1, <1>2, Counts
  <2>2. QED
    BY <1>1, <2>1 DEF LogicRecords
<1>5. Good(r, n) /\ (q.occurrences # 0 => Good(q, n))
  BY <1>2, <1>3, <1>4, SameLine
<1>6. SuppressShortDropOuts(p, s) = IF q.occurrences = 0 THEN Ret(r, q.cause) ELSE Ret(q, "Processing")
  BY DEF SuppressShortDropOuts, ResetCommunicationTimeoutAttempts
<1> HIDE DEF q, r
<1>7. QED
  BY <1>2, <1>5, <1>6, StatusesSent, RetGood

LEMMA StatusGood ==
  ASSUME NEW n \in Nat, NEW p, Answered(p, n) PROVE Good(HandleStepStatus(p), n)
<1>1. p.ret \in SilentStatuses => Free(p, n)
  BY DEF Answered
<1>2. CASE p.ret = "Finished"
  <2>1. Free(p, n)
    BY <1>1, <1>2 DEF SilentStatuses
  <2>2. Good(SwitchToIdle(p), n) /\ Good(ActivatePlannedRequest(p), n)
    BY <2>1, IdleFree, FreeIsGood, PlannedGood
  <2>3. Good(Ret(ActivatePlannedRequest(p), "Processing"), n)
    BY <2>2, StatusesSent, RetGood
  <2>4. QED
    BY <1>2, <2>2, <2>3 DEF HandleStepStatus, HandleFinished
<1>3. CASE p.ret = "CommandRejected"
  <2>1. Good(CommandRestart(p), n)
    BY <1>1, <1>3, RestartGood DEF SilentStatuses
  <2>2. QED
    BY <1>3, <2>1 DEF HandleStepStatus
<1>4. CASE p.ret = "ProtocolError"
  <2> DEFINE q == [p EXCEPT !.state = "InitSequence", !.scope = "DelayedRestart",
                            !.st = "RecoveringProtocolError"]
  <2>1. Free(p, n)
    BY <1>1, <1>4 DEF SilentStatuses
  <2>2. q \in LogicRecords /\ q.out = p.out
    BY <2>1, SentStates DEF Free, LogicRecords, LogicStates, Scopes, Waiting
  <2>3. Good(q, n)
    BY <2>1, <2>2, FreeLine, FreeIsGood
  <2> HIDE DEF q
  <2>4. Good(SuppressShortDropOuts(q, "ProtocolError"), n)
    BY <2>3, StatusesSent, DropOutGood
  <2>5. QED
    BY <1>4, <2>4 DEF HandleStepStatus, HandleProtocolError, q
<1>5. CASE p.ret = "CommunicationTimeout"
  <2>1. Good(Start(p), n)
    BY <1>1, <1>5, StartGood DEF SilentStatuses
  <2>2. Good(SuppressShortDropOuts(Start(p), "CommunicationTimeout"), n)
    BY <2>1, StatusesSent, DropOutGood
  <2>3. QED
    BY <1>5, <2>2 DEF HandleStepStatus, HandleCommunicationTimeout
<1>6. CASE p.ret \notin SilentStatuses
  <2>1. HandleStepStatus(p) = p
    BY <1>6 DEF HandleStepStatus, SilentStatuses
  <2>2. QED
    BY <2>1 DEF Answered
<1>7. QED
  BY <1>2, <1>3, <1>4, <1>5, <1>6 DEF SilentStatuses

\* A step with the message that has been taken off the line.
LEMMA StepGood ==
  ASSUME NEW n \in Nat, NEW p, Good(p, n), NEW msg \in Responses, NEW fs,
         msg # NoMsg => Free(p, n) /\ (ExpectsResponse(p) \/ LateAnswers)
  PROVE  Good(Step(p, msg, fs), n)
<1> DEFINE q == IF ExpectsResponse(p) THEN p ELSE ActivatePlannedRequest(p)
           r == HandleStepStatus(ScopeStep(q, msg, fs))
<1>1. Good(q, n)
  BY WaitingIsFree, PlannedGood
<1>2. ExpectsResponse(q) /\ msg # NoMsg => Free(q, n)
  BY <1>1 DEF Free, Good
<1> HIDE DEF q
<1>3. Good(r, n)
  BY <1>1, <1>2, ScopeAnswered, StatusGood
<1> HIDE DEF r
<1>4. Good(ReportPrinterError(r), n)
  BY <1>3, StatusesSent, RetGood DEF ReportPrinterError
<1>5. QED
  BY <1>4 DEF Step, q, r

-----------------------------------------------------------------------------
(* The front end.                                                             *)

Operations == {"NoOperation", "Retry", "Continue", "ResetMMU", "DisableMMU"}
MmuRecords ==
  [logic : LogicRecords, state : {"Stopped", "Connecting", "Active"}, status : Statuses,
   selected : Operations, lastButton : {"NoButton", "Middle"}, lastError : Errors,
   source : {"None", "MMU", "Printer"}, screen : BOOLEAN,
   saved : SUBSET {"ParkExtruder", "CooldownPending", "Cooldown"},
   resumeHot : BOOLEAN, hot : BOOLEAN, parked : BOOLEAN, reset : BOOLEAN, unfinished : BOOLEAN]
GoodMmu(m, n) == m \in MmuRecords /\ Good(m.logic, n)

LEMMA SameLogic ==
  ASSUME NEW n \in Nat, NEW m, GoodMmu(m, n), NEW q \in MmuRecords, q.logic = m.logic
  PROVE  GoodMmu(q, n)
BY DEF GoodMmu

LEMMA NewLogic ==
  ASSUME NEW n \in Nat, NEW m \in MmuRecords, NEW p, Good(p, n)
  PROVE  GoodMmu([m EXCEPT !.logic = p], n)
BY DEF GoodMmu, Good, MmuRecords

\* Reheating changes what is remembered of the hotend, and its target.
LEMMA Resumes ==
  ASSUME NEW m \in MmuRecords
  PROVE  ResumeHotendTemp(m) \in MmuRecords /\ ResumeHotendTemp(m).logic = m.logic
<1> DEFINE resumes == "Cooldown" \in m.saved /\ m.resumeHot
           gone == {"CooldownPending"} \cup IF resumes THEN {"Cooldown"} ELSE {}
           h == m.hot \/ resumes
           s == m.saved \ gone
<1>1. m.hot \in BOOLEAN /\ m.saved \subseteq {"ParkExtruder", "CooldownPending", "Cooldown"}
  BY DEF MmuRecords
<1>2. h \in BOOLEAN
  BY Zenon
<1>3. s \subseteq {"ParkExtruder", "CooldownPending", "Cooldown"}
  BY <1>1
<1>4. ResumeHotendTemp(m) = [m EXCEPT !.saved = s, !.hot = h]
  BY DEF ResumeHotendTemp
<1> HIDE DEF s, h
<1>5. QED
  BY <1>2, <1>3, <1>4 DEF MmuRecords

LEMMA Unparks ==
  ASSUME NEW m \in MmuRecords
  PROVE  ResumeUnpark(m) \in MmuRecords /\ ResumeUnpark(m).logic = m.logic
<1> DEFINE h == m.parked /\ "ParkExtruder" \notin m.saved
           s == m.saved \ {"ParkExtruder"}
<1>1. s \subseteq {"ParkExtruder", "CooldownPending", "Cooldown"}
  BY DEF MmuRecords
<1>2. h \in BOOLEAN
  BY Zenon
<1>3. ResumeUnpark(m) = [m EXCEPT !.saved = s, !.parked = h]
  BY DEF ResumeUnpark
<1> HIDE DEF s, h
<1>4. QED
  BY <1>1, <1>2, <1>3 DEF MmuRecords

LEMMA Saves ==
  ASSUME NEW m \in MmuRecords, NEW b
  PROVE  /\ SaveAndPark(m, b) \in MmuRecords /\ SaveAndPark(m, b).logic = m.logic
         /\ SaveHotendTemp(m, b) \in MmuRecords /\ SaveHotendTemp(m, b).logic = m.logic
<1>1. /\ [m EXCEPT !.saved = {"ParkExtruder"}, !.parked = TRUE] \in MmuRecords
      /\ [m EXCEPT !.saved = {"ParkExtruder"}, !.parked = TRUE].logic = m.logic
  BY DEF MmuRecords
<1> DEFINE q == [m EXCEPT !.saved = @ \cup {"CooldownPending"}, !.resumeHot = m.hot]
<1>2. m.saved \cup {"CooldownPending"} \in SUBSET {"ParkExtruder", "CooldownPending", "Cooldown"}
  BY DEF MmuRecords
<1>3. q \in MmuRecords /\ q.logic = m.logic
  BY <1>2 DEF MmuRecords
<1>4. QED
  BY <1>1, <1>3 DEF SaveAndPark, SaveHotendTemp

\* The buttons.
LEMMA InputGood ==
  ASSUME NEW n \in Nat, NEW m, GoodMmu(m, n)
  PROVE  /\ GoodMmu(CheckUserInput(m), n)
         /\ ExpectsResponse(m.logic) => /\ ExpectsResponse(CheckUserInput(m).logic)
                                        /\ CheckUserInput(m).logic.out = m.logic.out
<1> DEFINE pressed == ButtonAvailable(m.lastError, m.selected)
           onUnit  == pressed = "NoButton" /\ m.lastButton # "NoButton"
           btn     == IF onUnit THEN m.lastButton ELSE pressed
           m1      == [m EXCEPT !.selected = "NoOperation",
                                !.lastButton = IF onUnit THEN "NoButton" ELSE @]
           m2      == IF m1.source = "Printer" /\ btn # "NoButton" THEN ClearPrinterError(m1) ELSE m1
<1> DEFINE Kept(q) == q \in MmuRecords /\ Good(q.logic, n) /\ q.logic.out = m.logic.out
                      /\ (ExpectsResponse(m.logic) => ExpectsResponse(q.logic))
<1>1. m \in MmuRecords /\ Good(m.logic, n) /\ m.logic \in LogicRecords
  BY DEF GoodMmu, MmuRecords
<1>2. m1 \in MmuRecords /\ m1.logic = m.logic
  BY <1>1 DEF MmuRecords, Operations
<1>3. ASSUME NEW q \in MmuRecords, q.logic = m.logic
      PROVE  Kept(ClearPrinterError(q))
  <2> DEFINE p == [q.logic EXCEPT !.printerError = FALSE]
             c == ClearPrinterError(q)
  <2>1. /\ p \in LogicRecords /\ p.out = m.logic.out /\ p.st = m.logic.st
        /\ p.quiet = m.logic.quiet
    BY <1>1, <1>3 DEF LogicRecords
  <2>2. c \in MmuRecords /\ c.logic = p
    <3>1. c = [q EXCEPT !.logic = p, !.lastError = "OK", !.source = "None"]
      BY DEF ClearPrinterError
    <3> HIDE DEF p, c
    <3>2. QED
      BY <2>1, <3>1 DEF MmuRecords, Errors
  <2>3. QED
    BY <1>1, <2>1, <2>2, SameLine
<1>4. Kept(m1)
  BY <1>1, <1>2
<1>5. Kept(m2)
  BY <1>2, <1>3, <1>4
<1>6. CheckUserInput(m) =
        CASE btn = "Middle" /\ m2.source = "MMU" ->
               [ResumeHotendTemp(m2) EXCEPT !.logic = PlanGenericRequest(@, Req("Button", 1))]
          [] btn = "Middle" /\ m2.source # "MMU" -> ResumeHotendTemp(m2)
          [] btn = "ResetMMU"   -> [m2 EXCEPT !.reset = TRUE]
          [] btn = "DisableMMU" -> StopKeepPowered(m2)
          [] OTHER -> m2
  BY DEF CheckUserInput
<1> HIDE DEF pressed, onUnit, btn, m1, m2
<1>7. Kept(ResumeHotendTemp(m2))
  BY <1>5, Resumes
<1>8. Kept([m2 EXCEPT !.reset = TRUE])
  <2>1. [m2 EXCEPT !.reset = TRUE] \in MmuRecords /\ [m2 EXCEPT !.reset = TRUE].logic = m2.logic
    BY <1>5 DEF MmuRecords
  <2>2. QED
    BY <1>5, <2>1
<1>9. Kept(StopKeepPowered(m2))
  <2>1. /\ StopKeepPowered(m2) \in MmuRecords
        /\ StopKeepPowered(m2).logic = Stop(m2.logic)
    <3>1. Stop(m2.logic) \in LogicRecords
      BY <1>5, StopGood DEF Good
    <3>2. QED
      BY <1>5, <3>1 DEF StopKeepPowered, MmuRecords
  <2>2. QED
    BY <1>5, <2>1, StopGood
<1> DEFINE r == ResumeHotendTemp(m2)
           p == PlanGenericRequest(r.logic, Req("Button", 1))
           b == [r EXCEPT !.logic = p]
<1>10. GoodMmu(b, n) /\ (ExpectsResponse(m.logic) => ExpectsResponse(b.logic)
                                                     /\ b.logic.out = m.logic.out)
  <2>1. r \in MmuRecords /\ Good(r.logic, n) /\ r.logic.out = m.logic.out
        /\ (ExpectsResponse(m.logic) => ExpectsResponse(r.logic)) /\ r.logic \in LogicRecords
    BY <1>7 DEF MmuRecords
  <2>2. Req("Button", 1) \in Requests
    BY Sent
  <2>3. Good(p, n)
    BY <2>1, <2>2, PlanGood
  <2>4. GoodMmu(b, n) /\ b.logic = p
    BY <2>1, <2>3, NewLogic DEF MmuRecords
  <2>5. ExpectsResponse(r.logic) => ExpectsResponse(p) /\ p.out = r.logic.out
    BY <2>1 DEF PlanGenericRequest, ExpectsResponse, LogicRecords
  <2>6. QED
    BY <2>1, <2>4, <2>5
<1>11. QED
  BY <1>5, <1>6, <1>7, <1>8, <1>9, <1>10 DEF GoodMmu

\* What follows from the status of a step.
LEMMA HookKept ==
  ASSUME NEW m \in MmuRecords
  PROVE  ReportErrorHook(m) \in MmuRecords /\ ReportErrorHook(m).logic = m.logic
<1> DEFINE h == ~(m.logic.error = "OK" /\ m.source = "MMU")
<1>1. h \in BOOLEAN
  BY Zenon
<1>2. ReportErrorHook(m) = [m EXCEPT !.screen = h]
  BY DEF ReportErrorHook
<1> HIDE DEF h
<1>3. QED
  BY <1>1, <1>2 DEF MmuRecords

LEMMA ErrorGood ==
  ASSUME NEW n \in Nat, NEW m, GoodMmu(m, n), NEW ec \in Errors,
         NEW source \in {"None", "MMU", "Printer"}
  PROVE  GoodMmu(ReportError(m, ec, source), n)
<1> DEFINE m1 == IF ec # m.lastError THEN [m EXCEPT !.lastError = ec, !.source = source] ELSE m
           m2 == IF m1.logic.retryAttempts > 0 THEN [m1 EXCEPT !.selected = "Retry"] ELSE m1
           possible == m1.logic.retryAttempts > 0 /\ ButtonAvailable(ec, "Retry") # "NoButton"
           p == [m2.logic EXCEPT !.inAutoRetry = possible]
           m3 == [m2 EXCEPT !.logic = p]
<1>1. m \in MmuRecords
  BY DEF GoodMmu
<1>2. m1 \in MmuRecords /\ m1.logic = m.logic
  BY <1>1 DEF MmuRecords
<1>3. possible \in BOOLEAN
  BY Zenon
<1>4. ReportError(m, ec, source) = IF m3.logic.inAutoRetry THEN m3 ELSE ReportErrorHook(m3)
  BY DEF ReportError, RetryIfPossible
<1> HIDE DEF m1, possible
<1>5. m2 \in MmuRecords /\ m2.logic = m.logic
  BY <1>2 DEF MmuRecords, Operations
<1> HIDE DEF m2
<1>6. Good(m2.logic, n) /\ m2.logic \in LogicRecords
  BY <1>5 DEF GoodMmu, Good
<1>7. p \in LogicRecords /\ p.out = m2.logic.out /\ p.st = m2.logic.st /\ p.quiet = m2.logic.quiet
  BY <1>3, <1>6 DEF LogicRecords
<1>8. Good(p, n)
  BY <1>6, <1>7, SameLine
<1> HIDE DEF p
<1>9. GoodMmu(m3, n)
  BY <1>5, <1>8, NewLogic
<1> HIDE DEF m3
<1>10. GoodMmu(ReportErrorHook(m3), n)
  BY <1>9, HookKept DEF GoodMmu
<1>11. QED
  BY <1>4, <1>9, <1>10

LEMMA ResultGood ==
  ASSUME NEW n \in Nat, NEW m, GoodMmu(m, n) PROVE GoodMmu(HandleStepResult(m), n)
<1>1. m \in MmuRecords /\ m.logic \in LogicRecords /\ m.logic.error \in Errors
  BY DEF GoodMmu, MmuRecords, LogicRecords
<1> DEFINE pushed == [m EXCEPT !.lastButton = "Middle"]
           lost == [m EXCEPT !.state = "Connecting"]
<1>2. pushed \in MmuRecords /\ pushed.logic = m.logic /\ lost \in MmuRecords /\ lost.logic = m.logic
  BY <1>1 DEF MmuRecords
<1>3. GoodMmu(pushed, n) /\ GoodMmu(lost, n)
  BY <1>2, SameLogic
<1>4. GoodMmu(StopKeepPowered(m), n)
  <2>1. Good(Stop(m.logic), n)
    BY StopGood DEF GoodMmu
  <2>2. StopKeepPowered(m) \in MmuRecords /\ StopKeepPowered(m).logic = Stop(m.logic)
    BY <1>1, <2>1 DEF StopKeepPowered, MmuRecords, Good
  <2>3. QED
    BY <2>1, <2>2 DEF GoodMmu
<1> HIDE DEF pushed, lost
<1>5. /\ "MMU_NOT_RESPONDING" \in Errors /\ "PROTOCOL_ERROR" \in Errors
      /\ "VERSION_MISMATCH" \in Errors /\ "LOAD_TO_EXTRUDER_FAILED" \in Errors
  BY DEF Errors
<1>6. /\ GoodMmu(CheckUserInput(pushed), n) /\ GoodMmu(ReportError(m, m.logic.error, "MMU"), n)
      /\ GoodMmu(ReportError(lost, "MMU_NOT_RESPONDING", "Printer"), n)
      /\ GoodMmu(ReportError(lost, "PROTOCOL_ERROR", "Printer"), n)
      /\ GoodMmu(ReportError(StopKeepPowered(m), "VERSION_MISMATCH", "Printer"), n)
      /\ GoodMmu(ReportError(m, "LOAD_TO_EXTRUDER_FAILED", "Printer"), n)
  BY <1>1, <1>3, <1>4, <1>5, InputGood, ErrorGood
<1>7. QED
  BY <1>6 DEF HandleStepResult, pushed, lost

\* A turn of the main loop, with the message that has been taken off the line.
LEMMA TurnGood ==
  ASSUME NEW n \in Nat, NEW m, GoodMmu(m, n), NEW msg \in Responses, NEW fs,
         NEW click \in Operations,
         msg # NoMsg => Free(m.logic, n) /\ (ExpectsResponse(m.logic) \/ LateAnswers)
  PROVE  GoodMmu(mmu_loop(m, msg, fs, click), n)
<1> DEFINE c == CheckUserInput(m)
           p == Step(c.logic, msg, fs)
           s == Stepped(c, p)
           h == HandleStepResult(s)
           t == CheckRunning(h)
<1>1. GoodMmu(c, n) /\ Good(c.logic, n) /\ c \in MmuRecords
  BY InputGood DEF GoodMmu
<1>2. msg # NoMsg => Free(c.logic, n) /\ (ExpectsResponse(c.logic) \/ LateAnswers)
  BY <1>1, InputGood DEF Free, Good
<1>3. Good(p, n) /\ p \in LogicRecords /\ p.ret \in Statuses
  BY <1>1, <1>2, StepGood DEF Good, LogicRecords
<1> HIDE DEF c, p
<1>4. GoodMmu(s, n)
  <2>1. s \in MmuRecords /\ s.logic = p
    BY <1>1, <1>3 DEF Stepped, MmuRecords
  <2>2. QED
    BY <1>3, <2>1 DEF GoodMmu
<1> HIDE DEF s
<1>5. GoodMmu(h, n)
  BY <1>4, ResultGood
<1> HIDE DEF h
<1>6. GoodMmu(t, n)
  <2>1. [h EXCEPT !.state = "Active"] \in MmuRecords /\ [h EXCEPT !.state = "Active"].logic = h.logic
    BY <1>5 DEF GoodMmu, MmuRecords
  <2>2. QED
    BY <1>5, <2>1, SameLogic DEF CheckRunning
<1> HIDE DEF t
<1>7. GoodMmu(CheckErrorScreenUserInput(t, click), n)
  <2> DEFINE u == ReportErrorHook(t)
             v == [u EXCEPT !.screen = FALSE, !.selected = click]
  <2>1. u \in MmuRecords /\ u.logic = t.logic /\ GoodMmu(u, n)
    BY <1>6, HookKept, SameLogic DEF GoodMmu
  <2> HIDE DEF u
  <2>2. v \in MmuRecords /\ v.logic = u.logic
    BY <2>1 DEF MmuRecords
  <2>3. GoodMmu(v, n)
    BY <2>1, <2>2, SameLogic
  <2> HIDE DEF v
  <2>4. CheckErrorScreenUserInput(t, click) =
          IF ~t.screen THEN t ELSE IF u.screen /\ click # "NoOperation" THEN v ELSE u
    BY DEF CheckErrorScreenUserInput, u, v
  <2>5. QED
    BY <1>6, <2>1, <2>3, <2>4
<1>8. QED
  BY <1>7 DEF mmu_loop, LogicStep, t, h, s, p, c

\* A command left before it finished.
Left(m) == [m EXCEPT !.unfinished = TRUE]

LEMMA LeftGood ==
  ASSUME NEW n \in Nat, NEW m, GoodMmu(m, n) PROVE GoodMmu(Left(m), n)
<1>1. Left(m) \in MmuRecords /\ Left(m).logic = m.logic
  BY DEF GoodMmu, MmuRecords, Left
<1>2. QED
  BY <1>1, SameLogic

\* The rest of a turn in manage_response().
LEMMA ManageGood ==
  ASSUME NEW n \in Nat, NEW m0, GoodMmu(m0, n), NEW c, NEW cooled
  PROVE  /\ GoodMmu(manage_response(m0, c, cooled).mmu, n)
         /\ manage_response(m0, c, cooled).result \in {"TRUE", "FALSE", "Stay"}
<1> DEFINE cold == [m0 EXCEPT !.saved = (@ \ {"CooldownPending"}) \cup {"Cooldown"}, !.hot = FALSE]
           m == IF cooled /\ "CooldownPending" \in m0.saved THEN cold ELSE m0
           saved == SaveHotendTemp(SaveAndPark(m, MoveAxes(c)), TurnOffNozzle(c))
           back == ResumeUnpark(ResumeHotendTemp(m))
           done == [back EXCEPT !.logic.retryAttempts = MAX_RETRIES]
<1>1. m0 \in MmuRecords
  BY DEF GoodMmu
<1>2. cold \in MmuRecords /\ cold.logic = m0.logic
  <2>1. (m0.saved \ {"CooldownPending"}) \cup {"Cooldown"}
          \in SUBSET {"ParkExtruder", "CooldownPending", "Cooldown"}
    BY <1>1 DEF MmuRecords
  <2>2. QED
    BY <1>1, <2>1 DEF MmuRecords
<1> HIDE DEF cold
<1>3. GoodMmu(m, n) /\ m \in MmuRecords
  BY <1>1, <1>2, SameLogic
<1> HIDE DEF m
<1>4. GoodMmu(CheckUserInput(m), n) /\ GoodMmu(CheckUserInput(saved), n)
  <2>1. saved \in MmuRecords /\ saved.logic = m.logic
    BY <1>3, Saves
  <2>2. GoodMmu(saved, n)
    BY <1>3, <2>1, SameLogic
  <2>3. QED
    BY <1>3, <2>2, InputGood
<1>5. back \in MmuRecords /\ back.logic = m.logic
  BY <1>3, Resumes, Unparks
<1> HIDE DEF back
<1>6. GoodMmu(done, n)
  <2> DEFINE p == [back.logic EXCEPT !.retryAttempts = MAX_RETRIES]
  <2>1. back.logic \in LogicRecords /\ Good(back.logic, n)
    BY <1>3, <1>5 DEF GoodMmu, Good
  <2>2. p \in LogicRecords /\ p.out = back.logic.out /\ p.st = back.logic.st
        /\ p.quiet = back.logic.quiet
    BY <2>1, Counts DEF LogicRecords
  <2>3. Good(p, n)
    BY <2>1, <2>2, SameLine
  <2>4. done = [back EXCEPT !.logic = p]
    OBVIOUS
  <2> HIDE DEF p
  <2>5. QED
    BY <1>5, <2>3, <2>4, NewLogic
<1>7. manage_response(m0, c, cooled) =
        CASE m.status = "Finished" -> [mmu |-> done, result |-> "TRUE"]
          [] m.status = "Interrupted" -> [mmu |-> Left(m), result |-> "FALSE"]
          [] m.status = "VersionMismatch" -> [mmu |-> Left(CheckUserInput(m)), result |-> "TRUE"]
          [] m.status = "PrinterError" \/ (m.status \in ErrorStatuses /\ ~m.logic.inAutoRetry) ->
               [mmu |-> CheckUserInput(saved), result |-> "Stay"]
          [] OTHER -> [mmu |-> m, result |-> "Stay"]
  BY DEF manage_response, m, cold, back, Left
<1> HIDE DEF saved, done
<1>8. GoodMmu(Left(m), n) /\ GoodMmu(Left(CheckUserInput(m)), n)
  BY <1>3, <1>4, LeftGood
<1>9. QED
  BY <1>3, <1>4, <1>6, <1>7, <1>8 DEF ErrorStatuses

-----------------------------------------------------------------------------
(* The line.                                                                  *)

ScenarioRecords == [operations : SUBSET AllOperations, faults : SUBSET AllFaults, most : Nat]
CommandNames == {"Tool", "Unload", "Cut", "Load", "Read", "Report"}

LineOK ==
  /\ mmu \in MmuRecords /\ mmu.logic.out = <<>>
  /\ tx \in Seq(Requests) /\ rx \in Seq(Responses) /\ unit \in [cmd : Requests, st : UnitStates]
  /\ Good(mmu.logic, Len(tx) + Len(rx))
OperationOK ==
  /\ pc \in {"free", "wait", "verify"} /\ (pc # "free" => todo # <<>>)
  /\ todo \in Seq(CommandNames) /\ attempt \in 1 .. MAX_RETRIES /\ scenario \in ScenarioRecords
\* The inductive invariant.
LineInv == LineOK /\ OperationOK

\* A fault takes place only if the scenario has its kind.
LEMMA FaultKept ==
  ASSUME scenario \in ScenarioRecords, NEW kind, Fault(kind)
  PROVE  scenario' \in ScenarioRecords /\ kind \in scenario.faults /\ (LateAnswers' <=> LateAnswers)
<1>1. scenario.most > 0 /\ scenario.most \in Nat /\ scenario' = [scenario EXCEPT !.most = @ - 1]
  BY DEF Fault, ScenarioRecords
<1>2. scenario' \in ScenarioRecords /\ scenario'.faults = scenario.faults
  BY <1>1 DEF ScenarioRecords
<1>3. QED
  BY <1>2 DEF Fault, LateAnswers

\* The unit and the line take messages away, or answer one.
LEMMA LineShrinks ==
  ASSUME LineOK, UNCHANGED mmu, LateAnswers' <=> LateAnswers,
         tx' \in Seq(Requests), rx' \in Seq(Responses), unit' \in [cmd : Requests, st : UnitStates],
         Len(tx') + Len(rx') <= Len(tx) + Len(rx)
  PROVE  LineOK'
<1>1. Len(tx') \in Nat /\ Len(rx') \in Nat /\ Len(tx) \in Nat /\ Len(rx) \in Nat
  BY DEF LineOK
<1>2. mmu.logic \in LogicRecords /\ Orderly(mmu.logic, Len(tx) + Len(rx)) /\ Len(mmu.logic.out) = 0
  BY DEF LineOK, Good
<1>3. Orderly(mmu.logic, Len(tx) + Len(rx))'
  BY <1>1, <1>2 DEF Orderly, ExpectsResponse
<1>4. QED
  BY <1>2, <1>3 DEF LineOK, Good

LEMMA StartedRecords == UnitStarted \in [cmd : Requests, st : UnitStates]
BY DEF UnitStarted, Requests, UnitStates, Codes, Req

\* Messages on their way, before and after they are put on the line.
LEMMA Fewer ==
  ASSUME NEW a \in Nat, NEW b \in Nat, NEW c \in Nat, NEW d \in Nat, NEW e \in Nat,
         d <= b + a, e <= c
  PROVE  /\ a + (b + c) <= 1 => 0 + (d + e) <= 1
         /\ a + (b + c) = 0 => 0 + (d + e) = 0
OBVIOUS

\* What a turn leaves on the line when the message read is off it.
Rest(msg) == IF msg = NoMsg \/ rx = <<>> THEN rx ELSE Tail(rx)

LEMMA CommitGood ==
  ASSUME LineOK, NEW m, NEW msg, Commit(m, msg), LateAnswers' <=> LateAnswers,
         GoodMmu(m, Len(tx) + Len(Rest(msg)))
  PROVE  LineOK'
<1> DEFINE p == [m.logic EXCEPT !.out = <<>>, !.drained = FALSE]
           clean == [m EXCEPT !.logic = p, !.reset = FALSE]
<1>1. m \in MmuRecords /\ m.logic \in LogicRecords /\ m.logic.out \in Seq(Requests)
      /\ Orderly(m.logic, Len(tx) + Len(Rest(msg)))
  BY DEF GoodMmu, Good, MmuRecords, LogicRecords
<1>2. Rest(msg) \in Seq(Responses) /\ tx \in Seq(Requests) /\ unit \in [cmd : Requests, st : UnitStates]
  <2>1. rx \in Seq(Responses) /\ (rx # <<>> => Tail(rx) \in Seq(Responses))
    BY DEF LineOK
  <2>2. CASE msg = NoMsg \/ rx = <<>>
    <3>1. Rest(msg) = rx
      BY <2>2 DEF Rest
    <3>2. QED
      BY <2>1, <3>1 DEF LineOK
  <2>3. CASE ~(msg = NoMsg \/ rx = <<>>)
    <3>1. Rest(msg) = Tail(rx)
      BY <2>3 DEF Rest
    <3>2. QED
      BY <2>1, <2>3, <3>1 DEF LineOK
  <2>4. QED
    BY <2>2, <2>3
<1>3. p \in LogicRecords /\ p.out = <<>> /\ p.st = m.logic.st /\ p.quiet = m.logic.quiet
  <2> DEFINE l == m.logic
  <2>1. l \in LogicRecords /\ <<>> \in Seq(Requests) /\ p = [l EXCEPT !.out = <<>>, !.drained = FALSE]
    BY <1>1
  <2> HIDE DEF l, p
  <2>2. QED
    <3>1. p \in LogicRecords /\ p.out = <<>> /\ p.st = l.st /\ p.quiet = l.quiet
      BY <2>1 DEF LogicRecords
    <3>2. QED
      BY <3>1 DEF l
<1>4. clean \in MmuRecords /\ clean.logic = p
  BY <1>1, <1>3 DEF MmuRecords
<1>5. /\ mmu' = clean
      /\ unit' = IF m.reset THEN UnitStarted ELSE unit
      /\ tx' = IF m.reset THEN <<>> ELSE tx \o m.logic.out
      /\ rx' = IF m.reset \/ m.logic.drained THEN <<>> ELSE Rest(msg)
  BY DEF Commit, Rest
<1> HIDE DEF p, clean
<1>6. unit' \in [cmd : Requests, st : UnitStates]
  BY <1>2, <1>5, StartedRecords
<1>7. /\ tx' \in Seq(Requests) /\ Len(tx') <= Len(tx) + Len(m.logic.out) /\ Len(tx') \in Nat
  <2>1. CASE m.reset
    BY <1>1, <1>2, <1>5, <2>1
  <2>2. CASE ~m.reset
    BY <1>1, <1>2, <1>5, <2>2
  <2>3. QED
    BY <2>1, <2>2
<1>8. /\ rx' \in Seq(Responses) /\ Len(rx') <= Len(Rest(msg)) /\ Len(rx') \in Nat
  BY <1>2, <1>5
<1>9. Len(p.out) = 0 /\ Len(tx) \in Nat /\ Len(Rest(msg)) \in Nat /\ Len(m.logic.out) \in Nat
  BY <1>1, <1>2, <1>3
<1>10. Orderly(mmu.logic, Len(tx) + Len(rx))'
  <2>1. mmu'.logic = p
    BY <1>4, <1>5
  <2>2. (ExpectsResponse(m.logic) <=> ExpectsResponse(p)) /\ (ExpectsResponse(mmu.logic)' <=> ExpectsResponse(p))
    BY <1>3, <2>1 DEF ExpectsResponse
  <2>3. CASE LateAnswers
    BY <2>3 DEF Orderly
  <2>4. CASE ~LateAnswers
    <3>1. Len(m.logic.out) + (Len(tx) + Len(Rest(msg))) <= 1
      BY <1>1, <2>4 DEF Orderly
    <3>2. ~ExpectsResponse(p) \/ p.quiet >= linkLayerTimeout
            => Len(m.logic.out) + (Len(tx) + Len(Rest(msg))) = 0
      BY <1>1, <1>3, <2>2, <2>4 DEF Orderly
    <3> DEFINE a == Len(m.logic.out)  b == Len(tx)  c == Len(Rest(msg))
               d == Len(tx')  e == Len(rx')
    <3>a. /\ a \in Nat /\ b \in Nat /\ c \in Nat /\ d \in Nat /\ e \in Nat
          /\ d <= b + a /\ e <= c
      BY <1>7, <1>8, <1>9
    <3>b. /\ a + (b + c) <= 1 => 0 + (d + e) <= 1
          /\ a + (b + c) = 0 => 0 + (d + e) = 0
      <4> HIDE DEF a, b, c, d, e
      <4>1. QED
        BY <3>a, Fewer
    <3>3. Len(p.out) + (Len(tx') + Len(rx')) <= 1
      BY <1>9, <3>1, <3>b
    <3>4. ~ExpectsResponse(p) \/ p.quiet >= linkLayerTimeout => Len(p.out) + (Len(tx') + Len(rx')) = 0
      BY <1>9, <3>2, <3>b
    <3>5. QED
      BY <2>1, <2>2, <3>3, <3>4 DEF Orderly, linkLayerTimeout
  <2>5. QED
    BY <2>3, <2>4
<1>11. QED
  BY <1>3, <1>4, <1>5, <1>6, <1>7, <1>8, <1>10 DEF LineOK, Good

\* What a poll finds on the line.
LEMMA PollsLine ==
  ASSUME LineOK
  PROVE  /\ Next1 \in Responses /\ Len(tx) + Len(Rest(Next1)) \in Nat
         /\ GoodMmu(mmu, Len(tx) + Len(Rest(Next1)))
         /\ Next1 # NoMsg => /\ Free(mmu.logic, Len(tx) + Len(Rest(Next1)))
                             /\ ExpectsResponse(mmu.logic) \/ LateAnswers
<1>1. NoMsg \in Responses
  BY DEF NoMsg, Rsp, NoReq, Req, Responses, Requests, Params, Codes
<1>2. tx \in Seq(Requests) /\ rx \in Seq(Responses) /\ Len(tx) \in Nat /\ Len(rx) \in Nat
  BY DEF LineOK
<1>3. Next1 \in Responses
  BY <1>1, <1>2 DEF Next1
<1>4. Len(Rest(Next1)) \in Nat /\ Len(Rest(Next1)) <= Len(rx)
  BY <1>2 DEF Rest
<1>5. Next1 # NoMsg => Len(rx) > 0 /\ Len(Rest(Next1)) = Len(rx) - 1
  <2> SUFFICES ASSUME Next1 # NoMsg PROVE Len(rx) > 0 /\ Len(Rest(Next1)) = Len(rx) - 1
    OBVIOUS
  <2>1. rx # <<>>
    BY DEF Next1
  <2>2. Rest(Next1) = Tail(rx)
    BY <2>1 DEF Rest
  <2>3. QED
    BY <1>2, <2>1, <2>2
<1>6. /\ mmu \in MmuRecords /\ mmu.logic \in LogicRecords /\ Len(mmu.logic.out) = 0
      /\ Orderly(mmu.logic, Len(tx) + Len(rx))
  BY DEF LineOK, Good
<1>7. Orderly(mmu.logic, Len(tx) + Len(Rest(Next1)))
  BY <1>2, <1>4, <1>6 DEF Orderly
<1>8. ASSUME Next1 # NoMsg, ~LateAnswers
      PROVE  Len(tx) + Len(Rest(Next1)) = 0 /\ ExpectsResponse(mmu.logic)
  <2>1. /\ Len(mmu.logic.out) + (Len(tx) + Len(rx)) <= 1
        /\ ~ExpectsResponse(mmu.logic) => Len(mmu.logic.out) + (Len(tx) + Len(rx)) = 0
    BY <1>6, <1>8 DEF Orderly
  <2>2. QED
    BY <1>2, <1>4, <1>5, <1>6, <1>8, <2>1
<1>9. QED
  BY <1>2, <1>3, <1>4, <1>6, <1>7, <1>8 DEF GoodMmu, Good, Free

-----------------------------------------------------------------------------
(* The actions.                                                               *)

LEMMA ChoicesKept ==
  ASSUME OperationOK, NEW click \in Clicks, NEW fs \in BOOLEAN, Choices(click, fs)
  PROVE  scenario' \in ScenarioRecords /\ (LateAnswers' <=> LateAnswers)
<1>1. scenario \in ScenarioRecords
  BY DEF OperationOK
<1>2. Fault("sensor") \/ UNCHANGED scenario
  BY DEF Choices
<1>3. QED
  BY <1>1, <1>2, FaultKept DEF LateAnswers

\* A turn of a poll, with nobody or with manage_response() waiting.
LEMMA PollTurnGood ==
  ASSUME LineOK, NEW click \in Clicks, NEW fs
  PROVE  GoodMmu(mmu_loop(mmu, Next1, fs, click), Len(tx) + Len(Rest(Next1)))
<1>1. click \in Operations
  BY DEF Clicks, Operations
<1>2. QED
  BY <1>1, PollsLine, TurnGood

LEMMA PollFreeKeeps == LineInv /\ PollFree => LineInv'
<1> SUFFICES ASSUME LineInv, PollFree PROVE LineInv'
  OBVIOUS
<1>1. LineOK /\ OperationOK
  BY DEF LineInv
<1>2. PICK click \in Clicks, fs \in BOOLEAN :
         Choices(click, fs) /\ Commit(mmu_loop(mmu, Next1, fs, click), Next1)
  BY DEF PollFree
<1>3. scenario' \in ScenarioRecords /\ (LateAnswers' <=> LateAnswers)
  BY <1>1, <1>2, ChoicesKept
<1>4. LineOK'
  BY <1>1, <1>2, <1>3, PollTurnGood, CommitGood
<1>5. OperationOK'
  BY <1>1, <1>3 DEF OperationOK, PollFree
<1>6. QED
  BY <1>4, <1>5 DEF LineInv

\* The queue of commands after one of them.
LEMMA AfterTyped ==
  ASSUME OperationOK, todo # <<>>, NEW result, After(result)
  PROVE  pc' \in {"free", "verify"} /\ (pc' # "free" => todo' # <<>>) /\ todo' \in Seq(CommandNames)
<1>1. todo \in Seq(CommandNames) /\ Tail(todo) \in Seq(CommandNames)
      /\ <<"Unload">> \o todo \in Seq(CommandNames)
  BY DEF OperationOK, CommandNames
<1>2. QED
  BY <1>1 DEF After

LEMMA PollWaitKeeps == LineInv /\ PollWait => LineInv'
<1> SUFFICES ASSUME LineInv, PollWait PROVE LineInv'
  OBVIOUS
<1>1. LineOK /\ OperationOK /\ todo # <<>>
  BY DEF LineInv, OperationOK, PollWait
<1>2. PICK click \in Clicks, fs \in BOOLEAN, cooled \in BOOLEAN :
         /\ Choices(click, fs)
         /\ EndTurn(manage_response(mmu_loop(mmu, Next1, fs, click), Head(todo), cooled))
  BY DEF PollWait
<1>3. scenario' \in ScenarioRecords /\ (LateAnswers' <=> LateAnswers)
  BY <1>1, <1>2, ChoicesKept
<1> DEFINE w == manage_response(mmu_loop(mmu, Next1, fs, click), Head(todo), cooled)
           n == Len(tx) + Len(Rest(Next1))
<1>4. n \in Nat
  BY <1>1, PollsLine
<1>5. GoodMmu(mmu_loop(mmu, Next1, fs, click), n)
  BY <1>1, PollTurnGood
<1>6. GoodMmu(w.mmu, n)
  BY <1>4, <1>5, ManageGood
<1> HIDE DEF w
<1>7. GoodMmu(ResumeHotendTemp(w.mmu), n)
  BY <1>4, <1>6, Resumes, SameLogic DEF GoodMmu
<1>8. EndTurn(w)
  BY <1>2 DEF w
<1>9. /\ Commit(ResumeHotendTemp(w.mmu), Next1) \/ Commit(w.mmu, Next1)
      /\ UNCHANGED <<pc, todo>> \/ After(w.result)
  BY <1>8 DEF EndTurn
<1>10. LineOK'
  BY <1>1, <1>3, <1>6, <1>7, <1>9, CommitGood
<1>11. pc' \in {"free", "wait", "verify"} /\ (pc' # "free" => todo' # <<>>)
       /\ todo' \in Seq(CommandNames)
  BY <1>1, <1>9, AfterTyped DEF OperationOK
<1>12. attempt' \in 1 .. MAX_RETRIES
  BY <1>1 DEF OperationOK, PollWait
<1>13. QED
  BY <1>3, <1>10, <1>11, <1>12 DEF LineInv, OperationOK

LEMMA BeginKeeps == LineInv /\ Begin => LineInv'
<1> SUFFICES ASSUME LineInv, Begin PROVE LineInv'
  OBVIOUS
<1>1. LineOK'
  BY DEF LineInv, LineOK, Begin, Good, Orderly, LateAnswers
<1>2. PICK o \in scenario.operations : todo' = CommandsOf[o]
  BY DEF Begin
<1>3. o \in AllOperations
  BY DEF LineInv, OperationOK, ScenarioRecords
<1>4. CommandsOf[o] \in Seq(CommandNames)
  <2>1. \A c \in CommandNames : <<c>> \in Seq(CommandNames)
    OBVIOUS
  <2>2. "Unload" \in CommandNames /\ "Tool" \in CommandNames /\ "Load" \in CommandNames
        /\ "Cut" \in CommandNames /\ "Read" \in CommandNames
    BY DEF CommandNames
  <2>3. <<"Unload", "Tool">> \in Seq(CommandNames)
    BY <2>2
  <2>4. CASE o = "ManualToolChange"
    BY <2>3, <2>4 DEF CommandsOf
  <2>5. CASE o = "ToolChange"
    BY <2>1, <2>2, <2>5 DEF CommandsOf
  <2>6. CASE o = "Unload"
    BY <2>1, <2>2, <2>6 DEF CommandsOf
  <2>7. CASE o = "Load"
    BY <2>1, <2>2, <2>7 DEF CommandsOf
  <2>8. CASE o = "Cut"
    BY <2>1, <2>2, <2>8 DEF CommandsOf
  <2>9. CASE o = "Read"
    BY <2>1, <2>2, <2>9 DEF CommandsOf
  <2>10. QED
    BY <1>3, <2>4, <2>5, <2>6, <2>7, <2>8, <2>9 DEF AllOperations
<1>5. OperationOK'
  BY <1>2, <1>4, Counts DEF LineInv, OperationOK, Begin
<1>6. QED
  BY <1>1, <1>5 DEF LineInv

LEMMA IssueKeeps == LineInv /\ Issue => LineInv'
<1> SUFFICES ASSUME LineInv, Issue PROVE LineInv'
  OBVIOUS
<1> DEFINE c == Head(todo)
           p == IF c = "Report" THEN [mmu.logic EXCEPT !.printerError = TRUE]
                ELSE PlanGenericRequest(mmu.logic, CommandOf[c])
           m == [mmu EXCEPT !.saved = {}, !.logic = p]
           n == Len(tx) + Len(Rest(NoMsg))
<1>1. /\ LineOK /\ OperationOK /\ todo # <<>> /\ todo \in Seq(CommandNames)
      /\ mmu \in MmuRecords /\ mmu.logic \in LogicRecords /\ Good(mmu.logic, Len(tx) + Len(rx))
  BY DEF LineInv, LineOK, OperationOK, Issue, Good
<1>2. c \in CommandNames
  BY <1>1
<1>3. c # "Report" => CommandOf[c] \in Requests
  <2>1. Regs8Count + Regs16Count \in Nat
    BY CountAssumption
  <2>2. QED
    BY <1>2, <2>1 DEF CommandNames, CommandOf, Slot, Req, Requests, Codes
<1>4. Rest(NoMsg) = rx /\ n \in Nat
  BY <1>1 DEF Rest, LineOK
<1>5. Good(p, n)
  <2> DEFINE e == [mmu.logic EXCEPT !.printerError = TRUE]
  <2>1. e \in LogicRecords /\ e.out = mmu.logic.out /\ e.st = mmu.logic.st
        /\ e.quiet = mmu.logic.quiet
    BY <1>1 DEF LogicRecords
  <2>2. Good(e, n)
    BY <1>1, <1>4, <2>1, SameLine
  <2>3. c # "Report" => Good(PlanGenericRequest(mmu.logic, CommandOf[c]), n)
    BY <1>1, <1>3, <1>4, PlanGood
  <2>4. QED
    BY <2>2, <2>3
<1>6. Commit(m, NoMsg) /\ UNCHANGED scenario
  BY DEF Issue
<1> HIDE DEF p
<1>7. GoodMmu(m, n)
  BY <1>1, <1>5 DEF GoodMmu, Good, MmuRecords
<1>8. LateAnswers' <=> LateAnswers
  BY <1>6 DEF LateAnswers
<1>9. LineOK'
  BY <1>1, <1>6, <1>7, <1>8, CommitGood
<1>10. OperationOK'
  BY <1>1 DEF OperationOK, Issue
<1>11. QED
  BY <1>9, <1>10 DEF LineInv

LEMMA VerifyKeeps == LineInv /\ (VerifyOk \/ VerifyFails) => LineInv'
<1> SUFFICES ASSUME LineInv, VerifyOk \/ VerifyFails PROVE LineInv'
  OBVIOUS
<1>1. LineOK /\ OperationOK /\ todo # <<>> /\ todo \in Seq(CommandNames)
      /\ attempt \in 1 .. MAX_RETRIES /\ scenario \in ScenarioRecords
  BY DEF LineInv, OperationOK, VerifyOk, VerifyFails
<1>2. UNCHANGED <<mmu, unit, tx, rx>>
  BY DEF VerifyOk, VerifyFails
<1>3. scenario' \in ScenarioRecords /\ (LateAnswers' <=> LateAnswers)
  <2>1. Fault("slip") \/ UNCHANGED scenario
    BY DEF VerifyOk, VerifyFails
  <2>2. QED
    BY <1>1, <2>1, FaultKept DEF LateAnswers
<1>4. LineOK'
  BY <1>1, <1>2, <1>3 DEF LineOK, Good, Orderly
<1>5. pc' = "free" /\ todo' \in Seq(CommandNames)
  <2>1. CASE VerifyOk
    BY <1>1, <2>1 DEF VerifyOk
  <2>2. CASE VerifyFails
    <3> DEFINE a == IF attempt = 2 THEN <<"Cut">> ELSE <<>>
               b == IF attempt = 1 THEN <<"Report">> ELSE <<>>
    <3>1. /\ <<"Unload">> \in Seq(CommandNames) /\ a \in Seq(CommandNames)
          /\ b \in Seq(CommandNames)
      <4>1. <<"Unload">> \in Seq(CommandNames) /\ <<"Cut">> \in Seq(CommandNames)
            /\ <<"Report">> \in Seq(CommandNames) /\ <<>> \in Seq(CommandNames)
        BY DEF CommandNames
      <4>2. a \in {<<"Cut">>, <<>>} /\ b \in {<<"Report">>, <<>>}
        OBVIOUS
      <4> HIDE DEF a, b
      <4>3. QED
        BY <4>1, <4>2
    <3>2. pc' = "free" /\ todo' = <<"Unload">> \o a \o b \o todo
      BY <2>2 DEF VerifyFails
    <3> HIDE DEF a, b
    <3>3. QED
      BY <1>1, <3>1, <3>2
  <2>3. QED
    BY <2>1, <2>2
<1>6. attempt' \in 1 .. MAX_RETRIES
  BY <1>1, Counts DEF VerifyOk, VerifyFails
<1>7. QED
  BY <1>3, <1>4, <1>5, <1>6 DEF LineInv, OperationOK

LEMMA TickKeeps == LineInv /\ Tick => LineInv'
<1> SUFFICES ASSUME LineInv, Tick PROVE LineInv'
  OBVIOUS
<1> DEFINE v == IF ExpectsResponse(mmu.logic) THEN linkLayerTimeout ELSE heartBeatPeriod
           p == [mmu.logic EXCEPT !.quiet = v]
<1>1. /\ LineOK /\ OperationOK /\ scenario \in ScenarioRecords /\ mmu \in MmuRecords
      /\ mmu.logic \in LogicRecords /\ Orderly(mmu.logic, Len(tx) + Len(rx))
      /\ mmu.logic.out = <<>>
  BY DEF LineInv, LineOK, OperationOK, Good
<1>2. v \in Nat /\ mmu' = [mmu EXCEPT !.logic = p] /\ UNCHANGED <<pc, todo, attempt, unit, tx, rx>>
  BY DEF Tick, linkLayerTimeout, heartBeatPeriod
<1> HIDE DEF v
<1>3. p \in LogicRecords /\ p.out = <<>> /\ p.st = mmu.logic.st
  BY <1>1, <1>2 DEF LogicRecords
<1> HIDE DEF p
<1>4. mmu' \in MmuRecords /\ mmu'.logic = p
  BY <1>1, <1>2, <1>3 DEF MmuRecords
<1>5. /\ scenario' \in ScenarioRecords /\ (LateAnswers' <=> LateAnswers)
      /\ ExpectsResponse(mmu.logic) /\ (tx # <<>> \/ rx # <<>>) => LateAnswers
  <2>1. /\ Fault("late") \/ UNCHANGED scenario
        /\ ExpectsResponse(mmu.logic) /\ (tx # <<>> \/ rx # <<>>) => Fault("late")
    BY DEF Tick
  <2>2. QED
    BY <1>1, <2>1, FaultKept DEF LateAnswers
<1>6. Orderly(mmu.logic, Len(tx) + Len(rx))'
  <2>1. CASE LateAnswers
    BY <1>5, <2>1 DEF Orderly
  <2>2. CASE ~LateAnswers /\ ExpectsResponse(mmu.logic)
    <3>1. tx = <<>> /\ rx = <<>>
      BY <1>5, <2>2
    <3>2. Len(p.out) = 0 /\ Len(tx') = 0 /\ Len(rx') = 0
      BY <1>2, <1>3, <3>1
    <3>3. QED
      BY <1>4, <3>2 DEF Orderly
  <2>3. CASE ~LateAnswers /\ ~ExpectsResponse(mmu.logic)
    <3>1. Len(tx) \in Nat /\ Len(rx) \in Nat /\ Len(mmu.logic.out) = 0 /\ Len(p.out) = 0
      BY <1>1, <1>3 DEF LineOK
    <3>2. Len(mmu.logic.out) + (Len(tx) + Len(rx)) = 0
      BY <1>1, <2>3 DEF Orderly
    <3>3. Len(tx) = 0 /\ Len(rx) = 0
      BY <3>1, <3>2
    <3>4. Len(tx') = 0 /\ Len(rx') = 0
      BY <1>2, <3>3
    <3>5. QED
      BY <1>4, <3>1, <3>4 DEF Orderly
  <2>4. QED
    BY <2>1, <2>2, <2>3
<1>7. LineOK'
  BY <1>1, <1>2, <1>3, <1>4, <1>6 DEF LineOK, Good
<1>8. OperationOK'
  BY <1>1, <1>2, <1>5 DEF OperationOK
<1>9. QED
  BY <1>7, <1>8 DEF LineInv

-----------------------------------------------------------------------------
(* The unit and the line.                                                     *)

LEMMA AnswerTyped ==
  ASSUME unit \in [cmd : Requests, st : UnitStates], NEW rq \in Requests
  PROVE  Answer(rq) \in Responses
<1>1. /\ rq \in Requests /\ unit.cmd \in Requests /\ unit.st \in Params
      /\ {"Accepted", "Rejected"} \subseteq Params
  BY DEF Params
<1>2. \A q \in Requests, r \in Params : Rsp(q, r) \in Responses
  BY DEF Rsp, Responses
<1>3. UnitSupported \in BOOLEAN
  BY EnvironmentAssumption
<1>4. [Rsp(rq, "Accepted") EXCEPT !.supported = UnitSupported] \in Responses
  BY <1>1, <1>2, <1>3 DEF Responses
<1>5. Rsp(unit.cmd, unit.st) \in Responses /\ Rsp(rq, "Accepted") \in Responses
      /\ Rsp(rq, "Rejected") \in Responses
  BY <1>1, <1>2
<1> DEFINE accept(b) == IF b THEN "Accepted" ELSE "Rejected"
<1>6. \A b : Rsp(rq, accept(b)) \in Responses
  BY <1>5
<1> HIDE DEF accept
<1>7. Answer(rq) =
        CASE rq.code = "Query"     -> Rsp(unit.cmd, unit.st)
          [] rq.code = "Version"   -> [Rsp(rq, "Accepted") EXCEPT !.supported = UnitSupported]
          [] rq.code = "Button"    -> Rsp(rq, accept(unit.st \in {"Error", "Button"}))
          [] rq.code \in Motions   -> Rsp(rq, accept(~Busy))
          [] OTHER                 -> Rsp(rq, "Accepted")
  BY DEF Answer, accept
<1>8. Rsp(rq, accept(unit.st \in {"Error", "Button"})) \in Responses
      /\ Rsp(rq, accept(~Busy)) \in Responses
  BY <1>6
<1>9. QED
  BY <1>4, <1>5, <1>7, <1>8 DEF Motions

LEMMA UnitAnswersKeeps == LineInv /\ UnitAnswers => LineInv'
<1> SUFFICES ASSUME LineInv, UnitAnswers PROVE LineInv'
  OBVIOUS
<1> DEFINE rq == Head(tx)
<1>1. /\ LineOK /\ OperationOK /\ tx # <<>> /\ tx \in Seq(Requests) /\ rx \in Seq(Responses)
      /\ unit \in [cmd : Requests, st : UnitStates]
  BY DEF LineInv, LineOK, UnitAnswers
<1>2. /\ tx' = Tail(tx) /\ rx' = Append(rx, Answer(rq))
      /\ UNCHANGED <<mmu, pc, todo, attempt, performed, scenario>>
      /\ \/ unit' = [unit EXCEPT !.st = "Processing"]
         \/ unit' = [cmd |-> rq, st |-> "Processing"]
         \/ unit' = unit
  BY DEF UnitAnswers
<1>3. rq \in Requests
  BY <1>1
<1>4. Answer(rq) \in Responses
  BY <1>1, <1>3, AnswerTyped
<1> HIDE DEF rq
<1>5. unit' \in [cmd : Requests, st : UnitStates]
  BY <1>1, <1>2, <1>3 DEF UnitStates
<1>6. /\ tx' \in Seq(Requests) /\ rx' \in Seq(Responses)
      /\ Len(tx') = Len(tx) - 1 /\ Len(rx') = Len(rx) + 1 /\ Len(tx) \in Nat /\ Len(rx) \in Nat
  BY <1>1, <1>2, <1>4
<1>7. Len(tx') + Len(rx') <= Len(tx) + Len(rx)
  BY <1>6
<1>8. LineOK'
  BY <1>1, <1>2, <1>5, <1>6, <1>7, LineShrinks DEF LateAnswers
<1>9. OperationOK'
  BY <1>1, <1>2 DEF OperationOK
<1>10. QED
  BY <1>8, <1>9 DEF LineInv

\* What happens to the unit.
LEMMA UnitKeeps ==
  LineInv /\ (UnitFinishes \/ UnitFails \/ UnitButton \/ UnitRestarts \/ UnitDies \/ Unheard)
    => LineInv'
<1> SUFFICES ASSUME LineInv, UnitFinishes \/ UnitFails \/ UnitButton \/ UnitRestarts \/ UnitDies
                             \/ Unheard
             PROVE  LineInv'
  OBVIOUS
<1>1. /\ LineOK /\ OperationOK /\ tx \in Seq(Requests) /\ rx \in Seq(Responses)
      /\ unit \in [cmd : Requests, st : UnitStates] /\ scenario \in ScenarioRecords
  BY DEF LineInv, LineOK, OperationOK
<1>2. UNCHANGED <<mmu, pc, todo, attempt, rx>> /\ (tx' = tx \/ tx' = <<>>)
  BY DEF UnitFinishes, UnitFails, UnitButton, UnitRestarts, UnitDies, Unheard
<1>3. scenario' \in ScenarioRecords /\ (LateAnswers' <=> LateAnswers)
  <2>1. UNCHANGED scenario \/ \E kind \in AllFaults : Fault(kind)
    BY DEF UnitFinishes, UnitFails, UnitButton, UnitRestarts, UnitDies, Unheard, AllFaults
  <2>2. QED
    BY <1>1, <2>1, FaultKept DEF LateAnswers
<1>4. unit' \in [cmd : Requests, st : UnitStates]
  <2>1. \/ \E s \in UnitStates : unit' = [unit EXCEPT !.st = s]
        \/ unit' = UnitStarted \/ unit' = [UnitStarted EXCEPT !.st = "Dead"] \/ unit' = unit
    BY DEF UnitFinishes, UnitFails, UnitButton, UnitRestarts, UnitDies, Unheard, UnitStates
  <2>2. "Dead" \in UnitStates
    BY DEF UnitStates
  <2>3. QED
    BY <1>1, <2>1, <2>2, StartedRecords
<1>5. /\ tx' \in Seq(Requests) /\ rx' \in Seq(Responses)
      /\ Len(tx') + Len(rx') <= Len(tx) + Len(rx)
  <2>1. CASE tx' = tx
    BY <1>1, <1>2, <2>1
  <2>2. CASE tx' = <<>>
    BY <1>1, <1>2, <2>2
  <2>3. QED
    BY <1>2, <2>1, <2>2
<1>6. LineOK'
  BY <1>1, <1>2, <1>3, <1>4, <1>5, LineShrinks
<1>7. OperationOK'
  BY <1>1, <1>2, <1>3 DEF OperationOK
<1>8. QED
  BY <1>6, <1>7 DEF LineInv

\* What happens on the line.
LEMMA FaultyLineKeeps == LineInv /\ (LoseRequest \/ LoseResponse \/ Garble) => LineInv'
<1> SUFFICES ASSUME LineInv, LoseRequest \/ LoseResponse \/ Garble PROVE LineInv'
  OBVIOUS
<1>1. /\ LineOK /\ OperationOK /\ tx \in Seq(Requests) /\ rx \in Seq(Responses)
      /\ unit \in [cmd : Requests, st : UnitStates] /\ scenario \in ScenarioRecords
  BY DEF LineInv, LineOK, OperationOK
<1>2. /\ UNCHANGED <<mmu, pc, todo, attempt, unit>>
      /\ \/ tx # <<>> /\ tx' = Tail(tx) /\ rx' = rx
         \/ rx # <<>> /\ tx' = tx /\ rx' = Tail(rx)
         \/ rx # <<>> /\ tx' = tx /\ rx' = <<Garbage>> \o Tail(rx)
  BY DEF LoseRequest, LoseResponse, Garble
<1>3. scenario' \in ScenarioRecords /\ (LateAnswers' <=> LateAnswers)
  <2>1. \E kind \in AllFaults : Fault(kind)
    BY DEF LoseRequest, LoseResponse, Garble, AllFaults
  <2>2. QED
    BY <1>1, <2>1, FaultKept
<1>4. Garbage \in Responses
  BY DEF Garbage, Rsp, NoReq, Req, Responses, Requests, Params, Codes
<1>5. /\ tx' \in Seq(Requests) /\ rx' \in Seq(Responses)
      /\ Len(tx') + Len(rx') <= Len(tx) + Len(rx)
  <2>1. CASE tx # <<>> /\ tx' = Tail(tx) /\ rx' = rx
    BY <1>1, <2>1
  <2>2. CASE rx # <<>> /\ tx' = tx /\ rx' = Tail(rx)
    BY <1>1, <2>2
  <2>3. CASE rx # <<>> /\ tx' = tx /\ rx' = <<Garbage>> \o Tail(rx)
    <3>1. /\ <<Garbage>> \in Seq(Responses) /\ Tail(rx) \in Seq(Responses)
          /\ Len(Tail(rx)) = Len(rx) - 1 /\ Len(<<Garbage>>) = 1
      BY <1>1, <1>4, <2>3
    <3>2. rx' \in Seq(Responses) /\ Len(rx') = Len(rx)
      BY <1>1, <2>3, <3>1
    <3>3. QED
      BY <1>1, <2>3, <3>2
  <2>4. QED
    BY <1>2, <2>1, <2>2, <2>3
<1>6. LineOK'
  BY <1>1, <1>2, <1>3, <1>5, LineShrinks
<1>7. OperationOK'
  BY <1>1, <1>2, <1>3 DEF OperationOK
<1>8. QED
  BY <1>6, <1>7 DEF LineInv

-----------------------------------------------------------------------------
(* The theorems.                                                              *)

LEMMA InitKeeps == Init => LineInv
<1> SUFFICES ASSUME Init PROVE LineInv
  OBVIOUS
<1> DEFINE l == Start(Logic)
           l0 == [l EXCEPT !.out = <<>>]
           v == Req("Version", 0)
           base == [Logic EXCEPT !.state = "InitSequence", !.scope = "StartSeq",
                                 !.retries = MaxRetries]
<1>1. v \in Requests /\ NoReq \in Requests /\ NoRsp \in Responses
  BY DEF Req, NoReq, NoRsp, Rsp, Requests, Responses, Codes, Params
<1>2. Logic \in LogicRecords
  <2>1. /\ "Stopped" \in Scopes /\ "Ready" \in ScopeStates /\ "Stopped" \in LogicStates
        /\ "ProtocolError" \in Statuses /\ "Processing" \in Statuses /\ "OK" \in Errors
    BY DEF Scopes, ScopeStates, Waiting, LogicStates, Statuses, Errors
  <2>2. <<>> \in Seq(Requests) /\ 0 \in Nat /\ 0 \in Int /\ FALSE \in BOOLEAN
    OBVIOUS
  <2>3. MaxOccurrences \in 1 .. MaxOccurrences /\ MAX_RETRIES \in 0 .. MAX_RETRIES
    BY Counts
  <2>4. QED
    BY <1>1, <2>1, <2>2, <2>3 DEF Logic, LogicRecords
<1>3. base \in LogicRecords /\ base.out = <<>>
  <2>1. "InitSequence" \in LogicStates /\ "StartSeq" \in Scopes /\ MaxRetries \in Int
    BY Counts DEF LogicStates, Scopes
  <2>2. \A p \in LogicRecords : [p EXCEPT !.state = "InitSequence", !.scope = "StartSeq",
                                           !.retries = MaxRetries] \in LogicRecords
    BY <2>1 DEF LogicRecords
  <2>3. base.out = Logic.out
    BY <1>2 DEF LogicRecords
  <2>4. Logic.out = <<>>
    BY DEF Logic
  <2>5. QED
    BY <1>2, <2>2, <2>3, <2>4
<1>4. l = [base EXCEPT !.out = <<v>>, !.st = "S0Sent", !.quiet = 0]
  <2>1. VersionSent[0 + 1] = "S0Sent"
    BY DEF VersionSent
  <2>2. l = [base EXCEPT !.out = Append(@, v), !.st = VersionSent[0 + 1], !.quiet = 0]
    BY DEF Start, SendVersion, Send
  <2> HIDE DEF base, v, l
  <2>3. Append(base.out, v) = <<v>>
    BY <1>3
  <2>4. QED
    BY <2>1, <2>2, <2>3
<1>a. l0 = [l EXCEPT !.out = <<>>]
  OBVIOUS
<1> HIDE DEF base, l, l0, v
<1>5. l \in LogicRecords /\ l.out = <<v>> /\ l.st = "S0Sent" /\ l.quiet = 0
  <2> DEFINE w == <<v>>
  <2>1. w \in Seq(Requests) /\ "S0Sent" \in ScopeStates /\ 0 \in Nat
    BY <1>1 DEF ScopeStates
  <2>2. l = [base EXCEPT !.out = w, !.st = "S0Sent", !.quiet = 0]
    BY <1>4
  <2> HIDE DEF w
  <2>3. \A p \in LogicRecords : [p EXCEPT !.out = w, !.st = "S0Sent", !.quiet = 0] \in LogicRecords
    BY <2>1 DEF LogicRecords
  <2>4. l \in LogicRecords
    BY <1>3, <2>2, <2>3
  <2>5. l.out = w /\ l.st = "S0Sent" /\ l.quiet = 0
    BY <1>3, <2>2 DEF LogicRecords
  <2>6. QED
    BY <2>4, <2>5 DEF w
<1>6. l0 \in LogicRecords /\ l0.out = <<>> /\ l0.st = "S0Sent" /\ l0.quiet = 0
  <2>1. l \in LogicRecords /\ l.st = "S0Sent" /\ l.quiet = 0 /\ <<>> \in Seq(Requests)
    BY <1>5
  <2>2. QED
    BY <1>a, <2>1 DEF LogicRecords
<1>7. /\ mmu.logic = l0 /\ mmu \in MmuRecords
      /\ tx = <<v>> /\ rx = <<>> /\ unit = UnitStarted
      /\ pc = "free" /\ todo = <<>> /\ attempt = MAX_RETRIES /\ scenario \in Scenarios
  <2>1. /\ "Connecting" \in {"Stopped", "Connecting", "Active"} /\ "Finished" \in Statuses
        /\ "NoOperation" \in Operations /\ "MMU_NOT_RESPONDING" \in Errors
        /\ "NoButton" \in {"NoButton", "Middle"} /\ "None" \in {"None", "MMU", "Printer"}
    BY DEF Statuses, Operations, Errors
  <2>2. {} \in SUBSET {"ParkExtruder", "CooldownPending", "Cooldown"}
    OBVIOUS
  <2>3. Started.logic = l
    BY DEF Started, l
  <2>4. Started \in MmuRecords
    BY <1>5, <2>1, <2>2 DEF Started, MmuRecords, l
  <2>5. mmu = [Started EXCEPT !.logic = l0]
    BY <1>a, <2>3 DEF Init
  <2>6. mmu.logic = l0 /\ mmu \in MmuRecords
    BY <1>6, <2>4, <2>5 DEF MmuRecords
  <2>7. QED
    BY <1>5, <2>3, <2>6 DEF Init
<1>8. Orderly(mmu.logic, Len(tx) + Len(rx))
  <2>1. Len(mmu.logic.out) = 0 /\ Len(tx) = 1 /\ Len(rx) = 0
    BY <1>6, <1>7
  <2>2. ExpectsResponse(mmu.logic) /\ ~(mmu.logic.quiet >= linkLayerTimeout)
    BY <1>6, <1>7 DEF ExpectsResponse, Waiting, linkLayerTimeout
  <2>3. QED
    BY <2>1, <2>2 DEF Orderly
<1>9. LineOK
  BY <1>1, <1>6, <1>7, <1>8, StartedRecords DEF LineOK, Good
<1>10. OperationOK
  BY <1>7, EnvironmentAssumption, Counts DEF OperationOK, ScenarioRecords
<1>11. QED
  BY <1>9, <1>10 DEF LineInv

LEMMA StutterKeeps == LineInv /\ UNCHANGED vars => LineInv'
BY DEF LineInv, LineOK, OperationOK, vars, Good, Orderly, LateAnswers, ExpectsResponse

\* Every step of the loop, of the unit and of the line keeps the invariant.
LEMMA StepKeeps == LineInv /\ [Next]_vars => LineInv'
BY PollFreeKeeps, PollWaitKeeps, BeginKeeps, IssueKeeps, VerifyKeeps, TickKeeps, UnitAnswersKeeps,
   UnitKeeps, FaultyLineKeeps, StutterKeeps
   DEF Next

\* The protocol asks one question at a time (ProtocolLogic::Step, Start and
\* PlanGenericRequest): whatever the buttons, the planned requests, the restarts of
\* the communication and the faults of the line do, there is at most one message on
\* it, unless answers come after their timeout.
THEOREM OneQuestion == Spec => []OneOutstanding
<1>1. LineInv => OneOutstanding
  <2> SUFFICES ASSUME LineInv, ~LateAnswers PROVE Len(tx) + Len(rx) <= 1
    BY DEF OneOutstanding
  <2>1. /\ Len(mmu.logic.out) = 0 /\ Len(tx) \in Nat /\ Len(rx) \in Nat
        /\ Orderly(mmu.logic, Len(tx) + Len(rx))
    BY DEF LineInv, LineOK, Good
  <2>2. QED
    BY <2>1 DEF Orderly
<1>2. QED
  BY <1>1, InitKeeps, StepKeeps, PTL DEF Spec

\* The MMU2 object, its protocol and the operations keep to their types: the
\* retries and the drop-outs stay within their limits, and manage_response() waits
\* for a command only while an operation has one left.
THEOREM MMUTyped == Spec => []TypeOK
<1>1. LineInv => TypeOK
  <2> SUFFICES ASSUME LineInv PROVE TypeOK
    OBVIOUS
  <2>1. /\ mmu \in MmuRecords /\ mmu.logic \in LogicRecords /\ OperationOK
    BY DEF LineInv, LineOK, Good
  <2>2. DOMAIN CommandOf \cup {"Report"} = CommandNames
    BY DEF CommandOf, CommandNames
  <2>3. \A i \in DOMAIN todo : todo[i] \in CommandNames
    BY <2>1 DEF OperationOK
  <2>4. /\ mmu.logic.scope \in Scopes /\ mmu.logic.st \in ScopeStates /\ mmu.logic.ret \in Statuses
        /\ mmu.logic.retryAttempts \in 0 .. MAX_RETRIES
        /\ mmu.logic.occurrences \in 1 .. MaxOccurrences
    BY <2>1 DEF LogicRecords
  <2>5. mmu.logic.occurrences \in 0 .. MaxOccurrences
    BY <2>4, Counts
  <2>6. /\ mmu.state \in {"Stopped", "Connecting", "Active"}
        /\ mmu.saved \subseteq {"ParkExtruder", "CooldownPending", "Cooldown"}
    BY <2>1 DEF MmuRecords
  <2>7. QED
    BY <2>1, <2>2, <2>3, <2>4, <2>5, <2>6 DEF TypeOK, OperationOK, ScenarioRecords, Scopes
<1>2. QED
  BY <1>1, InitKeeps, StepKeeps, PTL DEF Spec

-----------------------------------------------------------------------------
(* The head and the hotend while a command is waited for.                     *)

\* What can be undone: manage_response() remembers the head it has parked and the
\* hotend it has let cool.
Restorable(m) ==
  /\ m.parked => "ParkExtruder" \in m.saved
  /\ m.hot \/ "Cooldown" \in m.saved
  /\ m.saved \cap {"Cooldown", "CooldownPending"} # {} => m.resumeHot
Restored(m) == ~m.parked /\ m.hot

\* The inductive invariant.
RestoreInv == mmu.unfinished \/ (Restorable(mmu) /\ (pc # "wait" => Restored(mmu)))

Shaped(m) == {"saved", "resumeHot", "hot", "parked", "unfinished"} \subseteq DOMAIN m
\* The step from m to q leaves the head and the hotend alone; or, if it does
\* something to them, they stay as good as they were.
SameHead(q, m) ==
  /\ Shaped(q) /\ q.saved = m.saved /\ q.resumeHot = m.resumeHot /\ q.hot = m.hot
  /\ q.parked = m.parked /\ q.unfinished = m.unfinished
Calm(q, m) ==
  /\ Shaped(q) /\ q.unfinished = m.unfinished
  /\ Restorable(m) => Restorable(q)
  /\ Restored(m) => Restored(q)

LEMMA SameIsCalm == ASSUME NEW m, NEW q, SameHead(q, m) PROVE Calm(q, m)
BY DEF SameHead, Calm, Restorable, Restored

LEMMA SameTwice ==
  ASSUME NEW m, NEW q, NEW r, SameHead(q, m), SameHead(r, q) PROVE SameHead(r, m)
BY DEF SameHead

LEMMA CalmTwice == ASSUME NEW m, NEW q, NEW r, Calm(q, m), Calm(r, q) PROVE Calm(r, m)
BY DEF Calm

\* A hotend that was let cool is hot again once it is resumed.
LEMMA ResumesCalm ==
  ASSUME NEW m, Shaped(m)
  PROVE  /\ Calm(ResumeHotendTemp(m), m)
         /\ Restorable(m) => ResumeHotendTemp(m).hot
<1> DEFINE resumes == "Cooldown" \in m.saved /\ m.resumeHot
           h == m.hot \/ resumes
           s == m.saved \ ({"CooldownPending"} \cup IF resumes THEN {"Cooldown"} ELSE {})
           r == [m EXCEPT !.saved = s, !.hot = h]
<1>1. ResumeHotendTemp(m) = r
  BY DEF ResumeHotendTemp
<1>2. /\ "ParkExtruder" \in m.saved => "ParkExtruder" \in s
      /\ s \subseteq m.saved
      /\ "Cooldown" \in m.saved /\ ~resumes => "Cooldown" \in s
  BY DEF s
<1>3. /\ m.hot => h
      /\ h \/ "Cooldown" \notin m.saved \/ ~m.resumeHot
      /\ ~h => ~resumes
  BY Zenon DEF h, resumes
<1> HIDE DEF s, h, resumes
<1>4. /\ Shaped(r) /\ r.saved = s /\ r.resumeHot = m.resumeHot /\ r.hot = h
      /\ r.parked = m.parked /\ r.unfinished = m.unfinished
  BY DEF Shaped
<1> HIDE DEF r
<1>5. Restorable(m) => Restorable(r) /\ h
  BY <1>2, <1>3, <1>4 DEF Restorable
<1>6. Restored(m) => Restored(r)
  BY <1>3, <1>4 DEF Restored
<1>7. QED
  BY <1>1, <1>4, <1>5, <1>6 DEF Calm

\* The steps that do not look at the head.
LEMMA InputCalm == ASSUME NEW m, Shaped(m) PROVE Calm(CheckUserInput(m), m)
<1> DEFINE pressed == ButtonAvailable(m.lastError, m.selected)
           onUnit  == pressed = "NoButton" /\ m.lastButton # "NoButton"
           btn     == IF onUnit THEN m.lastButton ELSE pressed
           m1      == [m EXCEPT !.selected = "NoOperation",
                                !.lastButton = IF onUnit THEN "NoButton" ELSE @]
           m2      == IF m1.source = "Printer" /\ btn # "NoButton" THEN ClearPrinterError(m1) ELSE m1
<1>1. CheckUserInput(m) =
        CASE btn = "Middle" /\ m2.source = "MMU" ->
               [ResumeHotendTemp(m2) EXCEPT !.logic = PlanGenericRequest(@, Req("Button", 1))]
          [] btn = "Middle" /\ m2.source # "MMU" -> ResumeHotendTemp(m2)
          [] btn = "ResetMMU"   -> [m2 EXCEPT !.reset = TRUE]
          [] btn = "DisableMMU" -> StopKeepPowered(m2)
          [] OTHER -> m2
  BY DEF CheckUserInput
<1> HIDE DEF pressed, onUnit, btn
<1>2. SameHead(m1, m)
  BY DEF Shaped, SameHead
<1> HIDE DEF m1
<1>3. SameHead(ClearPrinterError(m1), m1)
  <2> DEFINE p == [m1.logic EXCEPT !.printerError = FALSE]
  <2>1. ClearPrinterError(m1) = [m1 EXCEPT !.logic = p, !.lastError = "OK", !.source = "None"]
    BY DEF ClearPrinterError
  <2> HIDE DEF p
  <2>2. QED
    BY <1>2, <2>1 DEF Shaped, SameHead
<1>4. SameHead(m2, m)
  BY <1>2, <1>3, SameTwice
<1> HIDE DEF m2
<1> DEFINE r     == ResumeHotendTemp(m2)
           asked == PlanGenericRequest(r.logic, Req("Button", 1))
           sent  == [r EXCEPT !.logic = asked]
<1>a. CheckUserInput(m) \in {sent, r, [m2 EXCEPT !.reset = TRUE], StopKeepPowered(m2), m2}
  BY <1>1
<1>5. Calm(r, m2) /\ Shaped(r) /\ Shaped(m2)
  BY <1>4, ResumesCalm DEF SameHead, Calm
<1> HIDE DEF r, asked
<1>6. SameHead(sent, r) /\ SameHead([m2 EXCEPT !.reset = TRUE], m2)
  BY <1>5 DEF Shaped, SameHead
<1>7. SameHead(StopKeepPowered(m2), m2)
  <2> DEFINE p == Stop(m2.logic)
  <2>1. StopKeepPowered(m2) = [m2 EXCEPT !.state = "Stopped", !.logic = p]
    BY DEF StopKeepPowered
  <2> HIDE DEF p
  <2>2. QED
    BY <1>5, <2>1 DEF Shaped, SameHead
<1>8. Calm(m2, m)
  BY <1>4, SameIsCalm
<1> HIDE DEF sent
<1>9. Calm(r, m) /\ Calm(sent, m) /\ Calm([m2 EXCEPT !.reset = TRUE], m)
      /\ Calm(StopKeepPowered(m2), m)
  BY <1>5, <1>6, <1>7, <1>8, SameIsCalm, CalmTwice
<1>10. QED
  BY <1>8, <1>9, <1>a

LEMMA HookSame == ASSUME NEW m, Shaped(m) PROVE SameHead(ReportErrorHook(m), m)
<1> DEFINE h == ~(m.logic.error = "OK" /\ m.source = "MMU")
<1>1. ReportErrorHook(m) = [m EXCEPT !.screen = h]
  BY DEF ReportErrorHook
<1> HIDE DEF h
<1>2. QED
  BY <1>1 DEF Shaped, SameHead

LEMMA ErrorSame ==
  ASSUME NEW m, Shaped(m), NEW ec, NEW source PROVE SameHead(ReportError(m, ec, source), m)
<1> DEFINE m1 == IF ec # m.lastError THEN [m EXCEPT !.lastError = ec, !.source = source] ELSE m
           m2 == IF m1.logic.retryAttempts > 0 THEN [m1 EXCEPT !.selected = "Retry"] ELSE m1
           possible == m1.logic.retryAttempts > 0 /\ ButtonAvailable(ec, "Retry") # "NoButton"
           p == [m2.logic EXCEPT !.inAutoRetry = possible]
           m3 == [m2 EXCEPT !.logic = p]
<1>1. ReportError(m, ec, source) = IF m3.logic.inAutoRetry THEN m3 ELSE ReportErrorHook(m3)
  BY DEF ReportError, RetryIfPossible
<1> HIDE DEF possible, p
<1>2. SameHead(m1, m)
  BY DEF Shaped, SameHead
<1> HIDE DEF m1
<1>3. SameHead(m2, m1)
  BY <1>2 DEF Shaped, SameHead
<1> HIDE DEF m2
<1>4. SameHead(m3, m2)
  BY <1>3 DEF Shaped, SameHead
<1> HIDE DEF m3
<1>5. SameHead(ReportErrorHook(m3), m3)
  BY <1>4, HookSame DEF SameHead
<1>6. SameHead(m3, m) /\ SameHead(ReportErrorHook(m3), m)
  BY <1>2, <1>3, <1>4, <1>5, SameTwice
<1>7. QED
  BY <1>1, <1>6

LEMMA ResultCalm == ASSUME NEW m, Shaped(m) PROVE Calm(HandleStepResult(m), m)
<1> DEFINE pushed == [m EXCEPT !.lastButton = "Middle"]
           lost == [m EXCEPT !.state = "Connecting"]
           stopped == StopKeepPowered(m)
           p == Stop(m.logic)
<1>1. SameHead(pushed, m) /\ SameHead(lost, m) /\ SameHead(m, m)
  BY DEF Shaped, SameHead
<1>2. SameHead(stopped, m)
  <2>1. stopped = [m EXCEPT !.state = "Stopped", !.logic = p]
    BY DEF StopKeepPowered
  <2> HIDE DEF p, stopped
  <2>2. QED
    BY <2>1 DEF Shaped, SameHead
<1>3. Shaped(pushed) /\ Shaped(lost) /\ Shaped(stopped)
  BY <1>1, <1>2 DEF SameHead
<1> HIDE DEF pushed, lost, stopped, p
<1>4. Calm(CheckUserInput(pushed), m)
  BY <1>1, <1>3, InputCalm, SameIsCalm, CalmTwice
<1>5. \A ec, source : /\ Calm(ReportError(m, ec, source), m)
                      /\ Calm(ReportError(lost, ec, source), m)
                      /\ Calm(ReportError(stopped, ec, source), m)
  BY <1>1, <1>2, <1>3, ErrorSame, SameTwice, SameIsCalm
<1>6. Calm(m, m)
  BY <1>1, SameIsCalm
<1>7. QED
  BY <1>4, <1>5, <1>6 DEF HandleStepResult, pushed, lost, stopped

\* A turn of the main loop leaves the head and the hotend no worse.
LEMMA TurnCalm ==
  ASSUME NEW m, Shaped(m), NEW msg, NEW fs, NEW click PROVE Calm(mmu_loop(m, msg, fs, click), m)
<1> DEFINE c == CheckUserInput(m)
           p == Step(c.logic, msg, fs)
           result == p.ret
           s == Stepped(c, p)
           h == HandleStepResult(s)
           t == CheckRunning(h)
           u == ReportErrorHook(t)
           v == [u EXCEPT !.screen = FALSE, !.selected = click]
<1>1. Calm(c, m) /\ Shaped(c)
  BY InputCalm DEF Calm
<1> HIDE DEF c, p
<1>2. SameHead(s, c)
  <2>1. s = [c EXCEPT !.logic = p, !.status = result]
    BY DEF Stepped
  <2> HIDE DEF result, s
  <2>2. QED
    BY <1>1, <2>1 DEF Shaped, SameHead
<1> HIDE DEF s
<1>3. Calm(h, s) /\ Shaped(h)
  BY <1>2, ResultCalm DEF SameHead, Calm
<1> HIDE DEF h
<1>4. SameHead(t, h)
  BY <1>3 DEF CheckRunning, Shaped, SameHead
<1> HIDE DEF t
<1>5. SameHead(u, t)
  BY <1>4, HookSame DEF SameHead
<1> HIDE DEF u
<1>6. SameHead(v, u)
  BY <1>5 DEF Shaped, SameHead
<1> HIDE DEF v
<1>7. Calm(t, m)
  BY <1>1, <1>2, <1>3, <1>4, SameIsCalm, CalmTwice
<1>8. Calm(u, m) /\ Calm(v, m)
  BY <1>5, <1>6, <1>7, SameIsCalm, CalmTwice
<1>9. mmu_loop(m, msg, fs, click) =
        IF ~t.screen THEN t ELSE IF u.screen /\ click # "NoOperation" THEN v ELSE u
  BY DEF mmu_loop, LogicStep, CheckErrorScreenUserInput, v, u, t, h, s, p, c
<1>10. QED
  BY <1>7, <1>8, <1>9

\* Parking and cooling are remembered when they are done.
LEMMA SavesRestorable ==
  ASSUME NEW m, Shaped(m), NEW b
  PROVE  /\ Shaped(SaveAndPark(m, b)) /\ SaveAndPark(m, b).unfinished = m.unfinished
         /\ Restorable(m) => Restorable(SaveAndPark(m, b))
         /\ Shaped(SaveHotendTemp(m, b)) /\ SaveHotendTemp(m, b).unfinished = m.unfinished
         /\ Restorable(m) => Restorable(SaveHotendTemp(m, b))
<1> DEFINE a == [m EXCEPT !.saved = {"ParkExtruder"}, !.parked = TRUE]
           s == m.saved \cup {"CooldownPending"}
           q == [m EXCEPT !.saved = s, !.resumeHot = m.hot]
<1>1. /\ Shaped(a) /\ a.unfinished = m.unfinished /\ a.saved = {"ParkExtruder"} /\ a.hot = m.hot
      /\ "ParkExtruder" \in a.saved /\ a.saved \cap {"Cooldown", "CooldownPending"} = {}
  BY DEF Shaped
<1>2. m.saved = {} /\ Restorable(m) => Restorable(a)
  BY <1>1 DEF Restorable
<1>3. "CooldownPending" \in s /\ m.saved \subseteq s
  OBVIOUS
<1> HIDE DEF s
<1>4. /\ Shaped(q) /\ q.unfinished = m.unfinished /\ q.saved = s /\ q.hot = m.hot
      /\ q.resumeHot = m.hot /\ q.parked = m.parked
  BY DEF Shaped
<1> HIDE DEF a, q
<1>5. m.saved \cap {"Cooldown", "CooldownPending"} = {} /\ Restorable(m) => Restorable(q)
  BY <1>3, <1>4 DEF Restorable
<1>6. SaveAndPark(m, b) \in {a, m} /\ (m.saved # {} => SaveAndPark(m, b) = m)
  BY DEF SaveAndPark, a
<1>7. SaveHotendTemp(m, b) \in {q, m}
      /\ (m.saved \cap {"Cooldown", "CooldownPending"} # {} => SaveHotendTemp(m, b) = m)
  BY DEF SaveHotendTemp, q, s
<1>8. QED
  BY <1>1, <1>2, <1>4, <1>5, <1>6, <1>7

\* A turn of manage_response() can still undo what it has done; it leaves only with
\* the head back and the hotend hot, or with the command unfinished.
LEMMA ManageRestores ==
  ASSUME NEW m0, Shaped(m0), NEW c, NEW cooled
  PROVE  LET w == manage_response(m0, c, cooled)
         IN  /\ Shaped(w.mmu) /\ (m0.unfinished => w.mmu.unfinished)
             /\ Restorable(m0) => /\ Restorable(w.mmu) \/ w.mmu.unfinished
                                  /\ w.result = "Stay" \/ w.mmu.unfinished \/ Restored(w.mmu)
<1> DEFINE s == (m0.saved \ {"CooldownPending"}) \cup {"Cooldown"}
           cold == [m0 EXCEPT !.saved = s, !.hot = FALSE]
           m == IF cooled /\ "CooldownPending" \in m0.saved THEN cold ELSE m0
           parked == SaveAndPark(m, MoveAxes(c))
           saved == SaveHotendTemp(parked, TurnOffNozzle(c))
           warm == ResumeHotendTemp(m)
           back == ResumeUnpark(warm)
           done == [back EXCEPT !.logic.retryAttempts = MAX_RETRIES]
           input == CheckUserInput(m)
           Kept(q) == Shaped(q) /\ q.unfinished = m0.unfinished
                      /\ (Restorable(m0) => Restorable(q))
<1>1. /\ "Cooldown" \in s /\ "CooldownPending" \notin s
      /\ "ParkExtruder" \in m0.saved => "ParkExtruder" \in s
  OBVIOUS
<1> HIDE DEF s
<1>2. /\ Shaped(cold) /\ cold.saved = s /\ cold.hot = FALSE /\ cold.unfinished = m0.unfinished
      /\ cold.resumeHot = m0.resumeHot /\ cold.parked = m0.parked
  BY DEF Shaped
<1> HIDE DEF cold
<1>3. "CooldownPending" \in m0.saved => Kept(cold)
  BY <1>1, <1>2 DEF Restorable
<1>4. Kept(m)
  BY <1>3
<1> HIDE DEF m
<1>5. Kept(parked)
  BY <1>4, SavesRestorable
<1>6. Kept(saved)
  BY <1>5, SavesRestorable
<1> HIDE DEF parked
<1>7. Kept(input) /\ Kept(CheckUserInput(saved))
  BY <1>4, <1>6, InputCalm DEF Calm
<1>8. Kept(warm) /\ (Restorable(m0) => warm.hot)
  BY <1>4, ResumesCalm DEF Calm
<1> HIDE DEF saved, warm, input
<1>9. Kept(back) /\ (Restorable(m0) => Restored(back))
  <2> DEFINE p == warm.parked /\ "ParkExtruder" \notin warm.saved
             t == warm.saved \ {"ParkExtruder"}
  <2>1. back = [warm EXCEPT !.saved = t, !.parked = p]
    BY DEF ResumeUnpark
  <2>2. /\ t \subseteq warm.saved /\ ("Cooldown" \in warm.saved => "Cooldown" \in t)
    OBVIOUS
  <2>3. Restorable(warm) => ~p
    BY Zenon DEF Restorable
  <2> HIDE DEF back, p, t
  <2>4. /\ Shaped(back) /\ back.saved = t /\ back.parked = p /\ back.hot = warm.hot
        /\ back.resumeHot = warm.resumeHot /\ back.unfinished = warm.unfinished
    BY <1>8, <2>1 DEF Shaped
  <2>5. QED
    BY <1>8, <2>2, <2>3, <2>4 DEF Restorable, Restored
<1> HIDE DEF back
<1>10. Kept(done) /\ (Restorable(m0) => Restored(done))
  <2> DEFINE p == [back.logic EXCEPT !.retryAttempts = MAX_RETRIES]
  <2>1. done = [back EXCEPT !.logic = p]
    OBVIOUS
  <2> HIDE DEF p, done
  <2>2. SameHead(done, back)
    BY <1>9, <2>1 DEF Shaped, SameHead
  <2>3. QED
    BY <1>9, <2>2, SameIsCalm DEF Calm
<1>11. \A q : Shaped(q) => Shaped(Left(q)) /\ Left(q).unfinished
  BY DEF Left, Shaped
<1>12. manage_response(m0, c, cooled) =
        CASE m.status = "Finished" -> [mmu |-> done, result |-> "TRUE"]
          [] m.status = "Interrupted" -> [mmu |-> Left(m), result |-> "FALSE"]
          [] m.status = "VersionMismatch" -> [mmu |-> Left(input), result |-> "TRUE"]
          [] m.status = "PrinterError" \/ (m.status \in ErrorStatuses /\ ~m.logic.inAutoRetry) ->
               [mmu |-> CheckUserInput(saved), result |-> "Stay"]
          [] OTHER -> [mmu |-> m, result |-> "Stay"]
  BY DEF manage_response, m, cold, s, back, warm, saved, parked, input, Left
<1> HIDE DEF done
<1>13. \/ manage_response(m0, c, cooled) = [mmu |-> done, result |-> "TRUE"]
       \/ manage_response(m0, c, cooled) = [mmu |-> Left(m), result |-> "FALSE"]
       \/ manage_response(m0, c, cooled) = [mmu |-> Left(input), result |-> "TRUE"]
       \/ manage_response(m0, c, cooled) = [mmu |-> CheckUserInput(saved), result |-> "Stay"]
       \/ manage_response(m0, c, cooled) = [mmu |-> m, result |-> "Stay"]
  BY <1>12
<1>14. QED
  BY <1>4, <1>7, <1>10, <1>11, <1>13

LEMMA CommitSame == ASSUME NEW m, Shaped(m), NEW msg, Commit(m, msg) PROVE SameHead(mmu', m)
<1> DEFINE p == [m.logic EXCEPT !.out = <<>>, !.drained = FALSE]
<1>1. mmu' = [m EXCEPT !.logic = p, !.reset = FALSE]
  BY DEF Commit
<1> HIDE DEF p
<1>2. QED
  BY <1>1 DEF Shaped, SameHead

-----------------------------------------------------------------------------
\* The records of the front end have these fields.
LEMMA MmuShaped == LineInv => Shaped(mmu)
BY DEF LineInv, LineOK, MmuRecords, Shaped

LEMMA PollFreeRestores == LineInv /\ RestoreInv /\ PollFree => RestoreInv'
<1> SUFFICES ASSUME LineInv, RestoreInv, PollFree PROVE RestoreInv'
  OBVIOUS
<1>1. PICK click \in Clicks, fs \in BOOLEAN : Commit(mmu_loop(mmu, Next1, fs, click), Next1)
  BY DEF PollFree
<1> DEFINE m == mmu_loop(mmu, Next1, fs, click)
<1>2. Calm(m, mmu)
  BY MmuShaped, TurnCalm
<1> HIDE DEF m
<1>3. SameHead(mmu', m)
  BY <1>1, <1>2, CommitSame DEF Calm, m
<1>4. Calm(mmu', mmu)
  BY <1>2, <1>3, SameIsCalm, CalmTwice
<1>5. pc # "wait" /\ pc' = pc
  BY DEF PollFree, PollsFree
<1>6. QED
  BY <1>4, <1>5 DEF RestoreInv, Calm

LEMMA PollWaitRestores == LineInv /\ RestoreInv /\ PollWait => RestoreInv'
<1> SUFFICES ASSUME LineInv, RestoreInv, PollWait PROVE RestoreInv'
  OBVIOUS
<1>1. PICK click \in Clicks, fs \in BOOLEAN, cooled \in BOOLEAN :
         EndTurn(manage_response(mmu_loop(mmu, Next1, fs, click), Head(todo), cooled))
  BY DEF PollWait
<1> DEFINE m == mmu_loop(mmu, Next1, fs, click)
           w == manage_response(m, Head(todo), cooled)
           q == w.mmu
           warm == ResumeHotendTemp(q)
<1>2. Calm(m, mmu)
  BY MmuShaped, TurnCalm
<1> HIDE DEF m
<1>3. Shaped(q) /\ (m.unfinished => q.unfinished)
      /\ (Restorable(m) => /\ Restorable(q) \/ q.unfinished
                           /\ w.result = "Stay" \/ q.unfinished \/ Restored(q))
  BY <1>2, ManageRestores DEF Calm
<1>4. EndTurn(w) /\ pc = "wait"
  BY <1>1 DEF PollWait, m, w
<1> HIDE DEF w
<1>5. (Commit(warm, Next1) \/ Commit(q, Next1)) /\ (w.result = "Stay" => pc' = pc)
  BY <1>4 DEF EndTurn
<1> HIDE DEF q
<1>6. Calm(warm, q)
  BY <1>3, ResumesCalm
<1> HIDE DEF warm
<1>7. SameHead(mmu', warm) \/ SameHead(mmu', q)
  BY <1>3, <1>5, <1>6, CommitSame DEF Calm
<1>8. Calm(mmu', q)
  BY <1>6, <1>7, SameIsCalm, CalmTwice
<1>9. q.unfinished \/ (Restorable(q) /\ (w.result = "Stay" \/ Restored(q)))
  BY <1>2, <1>3 DEF RestoreInv, Calm
<1>10. QED
  BY <1>4, <1>5, <1>8, <1>9 DEF RestoreInv, Calm

LEMMA IssueRestores == LineInv /\ RestoreInv /\ Issue => RestoreInv'
<1> SUFFICES ASSUME LineInv, RestoreInv, Issue PROVE RestoreInv'
  OBVIOUS
<1> DEFINE c == Head(todo)
           p == IF c = "Report" THEN [mmu.logic EXCEPT !.printerError = TRUE]
                ELSE PlanGenericRequest(mmu.logic, CommandOf[c])
           m == [mmu EXCEPT !.saved = {}, !.logic = p]
<1>1. pc = "free" /\ Commit(m, NoMsg)
  BY DEF Issue
<1> HIDE DEF p
<1>2. /\ Shaped(m) /\ m.saved = {} /\ m.hot = mmu.hot /\ m.parked = mmu.parked
      /\ m.unfinished = mmu.unfinished
  BY MmuShaped DEF Shaped
<1> HIDE DEF m
<1>3. SameHead(mmu', m)
  BY <1>1, <1>2, CommitSame
<1>4. QED
  BY <1>1, <1>2, <1>3 DEF RestoreInv, Restorable, Restored, SameHead

\* The other steps leave the front end as it is, except for its clock, and do not
\* end a wait.
LEMMA OthersRestore ==
  ASSUME LineInv, RestoreInv,
         \/ Begin \/ VerifyOk \/ VerifyFails \/ Tick \/ UnitAnswers \/ UnitFinishes \/ UnitFails
         \/ UnitButton \/ UnitRestarts \/ UnitDies \/ Unheard \/ LoseRequest \/ LoseResponse
         \/ Garble \/ UNCHANGED vars
  PROVE  RestoreInv'
<1>1. pc' = "wait" => pc = "wait"
  BY DEF Begin, VerifyOk, VerifyFails, Tick, UnitAnswers, UnitFinishes, UnitFails, UnitButton,
         UnitRestarts, UnitDies, Unheard, LoseRequest, LoseResponse, Garble, vars
<1>2. SameHead(mmu', mmu)
  <2>1. CASE mmu' = mmu
    BY <2>1, MmuShaped DEF SameHead
  <2>2. CASE Tick
    <3> DEFINE t == IF ExpectsResponse(mmu.logic) THEN linkLayerTimeout ELSE heartBeatPeriod
               p == [mmu.logic EXCEPT !.quiet = t]
    <3>1. mmu' = [mmu EXCEPT !.logic = p]
      BY <2>2 DEF Tick
    <3> HIDE DEF p
    <3>2. QED
      BY <3>1, MmuShaped DEF Shaped, SameHead
  <2>3. QED
    BY <2>1, <2>2 DEF Begin, VerifyOk, VerifyFails, UnitAnswers, UnitFinishes, UnitFails,
         UnitButton, UnitRestarts, UnitDies, Unheard, LoseRequest, LoseResponse, Garble, vars
<1>3. pc \in {"free", "wait", "verify"} /\ (pc' # "wait" => pc # "wait")
  BY DEF LineInv, OperationOK, Begin, VerifyOk, VerifyFails, Tick, UnitAnswers, UnitFinishes,
         UnitFails, UnitButton, UnitRestarts, UnitDies, Unheard, LoseRequest, LoseResponse,
         Garble, vars
<1>4. QED
  BY <1>2, <1>3, SameIsCalm DEF RestoreInv, Calm

\* When an operation is over, the head is back where it was and the hotend is as hot
\* as it was (SaveAndPark, SaveHotendTemp, ResumeUnpark and ResumeHotendTemp as
\* manage_response() calls them): whatever errors parked the head and however often,
\* whichever buttons were pushed, and whatever the line lost, unless a command was left
\* before it finished.
THEOREM HeadAndHotendRestored == Spec => []OperationRestores
<1>1. Init => RestoreInv
  BY DEF Init, Started, RestoreInv, Restorable, Restored
<1>2. LineInv /\ RestoreInv /\ [Next]_vars => RestoreInv'
  BY PollFreeRestores, PollWaitRestores, IssueRestores, OthersRestore DEF Next
<1>3. RestoreInv => OperationRestores
  BY DEF RestoreInv, Restored, OperationRestores
<1>4. QED
  BY <1>1, <1>2, <1>3, InitKeeps, StepKeeps, PTL DEF Spec
=============================================================================
