--------------------- MODULE PrintFlowRefinement_proofs ---------------------
(***************************************************************************)
(* PrintFlow implements FilePrint for every file, every size of the rings  *)
(* and every order of events, as long as no length overflows.              *)
(***************************************************************************)
EXTENDS PrintFlow_proofs, PrintFlowRefinement, Induction

-----------------------------------------------------------------------------
(* The sum that finds the end of the file.                                 *)

\* Nothing overflows: the sum of the lengths in the queue is the distance from
\* its start to its end.
LEMMA CalcSum ==
    ASSUME Inv, pc = "get", InFlight < SDLEN_MOD
    PROVE  CalcSdLength = sdpos_atomic - QueueStart
  <1>s. ShapeOK /\ buflen = Len(cmds) /\ buflen \in Nat
    BY Shape DEF Inv, Core, BuflenAgrees, Window, ShapeOK
  <1> DEFINE More(i) == IF cmds[i].type = "SDCARD" THEN cmds[i].len ELSE 0
             Body(f, i) == IF i = 0 THEN 0 ELSE Trunc(f[i - 1] + More(i))
             sum == CHOOSE f : f = [i \in 0 .. buflen |-> Body(f, i)]
             V(i) == IF i = 0 THEN 0 ELSE cmds[i].to - QueueStart
             w == [i \in 0 .. buflen |-> V(i)]
  <1>1. CalcSdLength = sum[buflen]
    BY DEF CalcSdLength
  <1>2. \A i \in 0 .. buflen : i > 0 => V(i) = Trunc(V(i - 1) + More(i))
    <2> SUFFICES ASSUME NEW i \in 1 .. Len(cmds) PROVE V(i) = Trunc(V(i - 1) + More(i))
      BY <1>s
    <2>1. /\ QueueStart \in Int /\ ResumePoint <= QueueStart /\ ResumePoint \in Int
          /\ cmds[i].to \in Int /\ cmds[i].from \in Int /\ sdpos_atomic \in Int
          /\ cmds[i].to <= sdpos_atomic /\ cmds[i].from <= cmds[i].to
      BY <1>s, Order DEF ShapeOK, Inv, Core, QueueChain
    <2>2. V(i - 1) = cmds[i].from - QueueStart /\ QueueStart <= cmds[i].from
      <3>1. cmds[1].type # "TO_BE_REMOVED" /\ QueueStart = cmds[1].from /\ cmds[1].from <= cmds[1].to
        BY <1>s DEF ShapeOK, Inv, Core, QueueBytes, QueueStart, QueueChain
      <3>2. CASE i = 1
        BY <2>1, <3>1, <3>2
      <3>3. CASE i > 1
        <4>1. i - 1 \in 1 .. Len(cmds) /\ i - 1 # 0 /\ i = (i - 1) + 1
          BY <1>s, <3>3
        <4>2. cmds[i - 1].to = cmds[i].from
          BY <4>1 DEF Inv, Core, QueueChain
        <4>3. cmds[1].to <= cmds[i].from /\ 1 \in 1 .. Len(cmds)
          BY <1>s, <3>3 DEF Inv, Core, QueueChain, ShapeOK
        <4>4. cmds[1].to \in Int /\ cmds[1].from \in Int
          BY <1>s, <4>3 DEF ShapeOK
        <4> QED
          BY <2>1, <3>1, <4>1, <4>2, <4>3, <4>4
      <3> QED
        BY <1>s, <3>2, <3>3 DEF ShapeOK
    <2>3. More(i) = cmds[i].to - cmds[i].from
      <3>1. cmds[i].type \in {"SDCARD", "UI"}
        BY <1>s DEF Inv, Core, QueueBytes, ShapeOK, Types
      <3>2. CASE cmds[i].type = "SDCARD"
        <4>1. cmds[i].len = Trunc(cmds[i].to - cmds[i].from)
          BY <3>2 DEF Inv, Core, QueueBytes
        <4>2. 0 <= cmds[i].to - cmds[i].from /\ cmds[i].to - cmds[i].from < SDLEN_MOD
          BY <2>1, <2>2, SizeAssumption DEF InFlight
        <4>3. cmds[i].to - cmds[i].from \in Int
          BY <2>1
        <4>4. Trunc(cmds[i].to - cmds[i].from) = cmds[i].to - cmds[i].from
          BY <4>2, <4>3, TruncFacts
        <4> QED
          BY <3>2, <4>1, <4>4
      <3>3. CASE cmds[i].type = "UI"
        BY <2>1, <3>3 DEF Inv, Core, QueueBytes
      <3> QED
        BY <3>1, <3>2, <3>3
    <2>4. V(i) = cmds[i].to - QueueStart /\ V(i - 1) + More(i) = V(i)
      BY <2>1, <2>2, <2>3, <1>s DEF ShapeOK
    <2>5. V(i) \in Int /\ 0 <= V(i) /\ V(i) < SDLEN_MOD
      BY <2>1, <2>2, <2>4, SizeAssumption DEF InFlight
    <2> QED
      BY <2>4, <2>5, TruncFacts
  <1>3. w = [i \in 0 .. buflen |-> Body(w, i)]
    <2> SUFFICES ASSUME NEW i \in 0 .. buflen PROVE V(i) = Body(w, i)
      OBVIOUS
    <2>1. CASE i = 0
      BY <2>1
    <2>2. CASE i > 0
      <3>1. w[i - 1] = V(i - 1)
        BY <1>s, <2>2
      <3> HIDE DEF w, V, More
      <3> QED
        BY <1>2, <2>2, <3>1
    <2> QED
      BY <1>s, <2>1, <2>2
  <1>4. sum = [i \in 0 .. buflen |-> Body(sum, i)]
    <2> HIDE DEF w, V, More
    <2> QED
      BY <1>3
  <1> HIDE DEF sum, w, V, More
  <1>5. \A i \in 0 .. buflen : sum[i] = V(i)
    <2> SUFFICES ASSUME {i \in 0 .. buflen : sum[i] # V(i)} # {} PROVE FALSE
      OBVIOUS
    <2> DEFINE D == {i \in 0 .. buflen : sum[i] # V(i)}
    <2>1. D \in SUBSET Nat
      OBVIOUS
    <2>2. PICK m \in D : \A k \in D : m <= k
      <3> HIDE DEF D
      <3> QED
        BY <2>1, LeastNumber DEF D
    <2>3. m \in 0 .. buflen /\ sum[m] # V(m) /\ sum[m] = Body(sum, m)
      BY <1>4
    <2>4. CASE m = 0
      BY <2>3, <2>4 DEF V
    <2>5. CASE m > 0
      <3>1. m - 1 \in 0 .. buflen /\ m - 1 \notin D
        BY <1>s, <2>2, <2>3, <2>5
      <3>2. sum[m - 1] = V(m - 1)
        BY <3>1
      <3> QED
        BY <1>2, <2>3, <2>5, <3>2
    <2> QED
      BY <1>s, <2>3, <2>4, <2>5
  <1>6. sum[buflen] = V(buflen)
    BY <1>s, <1>5
  <1>7. V(buflen) = sdpos_atomic - QueueStart
    <2>1. CASE buflen = 0
      BY <1>s, <2>1 DEF V, QueueStart, ShapeOK
    <2>2. CASE buflen > 0
      BY <1>s, <2>2 DEF V, Inv, Core, QueueChain
    <2> QED
      BY <1>s, <2>1, <2>2
  <1> QED
    BY <1>1, <1>6, <1>7

-----------------------------------------------------------------------------
(* What a step does to the queue and to the planner.                       *)

\* The commands that were in the queue, and those that stand for no byte.
Kept(c) ==
    \E j \in 1 .. Len(cmds) : /\ c.from = cmds[j].from /\ c.to = cmds[j].to
                              /\ c.type = "SDCARD" => cmds[j].type = "SDCARD"
Own(c) == c.type # "SDCARD" /\ c.from = c.to /\ c.from \in {QueueStart, sdpos_atomic}
Line(c) == pc = "commit" /\ c.from = sdpos_atomic /\ c.to = readpos

\* A line that has been read becomes the last command of the queue, or the menu
\* appends one of its own.
LEMMA CommitQueue ==
    ASSUME Inv, CommitLine \/ EnqueueUI
    PROVE  /\ QueueStart' = QueueStart
           /\ \A i \in 1 .. Len(cmds') : \/ Kept(cmds'[i]) \/ Own(cmds'[i])
                                         \/ CommitLine /\ Line(cmds'[i])
  <1>s. ShapeOK
    BY Shape DEF Inv, Core
  <1>1. PICK c \in Command : /\ cmds' = Append(cmds, c) /\ c.from = sdpos_atomic
                             /\ c.type # "TO_BE_REMOVED"
                             /\ Own(c) \/ (CommitLine /\ Line(c))
    <2>1. CASE CommitLine
      <3> DEFINE c == [type |-> "SDCARD", what |-> "line", len  |-> Trunc(readpos - sdpos_atomic),
                       from |-> sdpos_atomic, to |-> readpos]
      <3>1. readpos - sdpos_atomic \in Int
        BY <1>s DEF ShapeOK
      <3>2. c \in Command
        BY <3>1, <1>s, TruncFacts DEF ShapeOK, Command, Types, Kinds
      <3>3. cmds' = Append(cmds, c) /\ pc = "commit"
        BY <2>1 DEF CommitLine, Running
      <3> QED
        BY <2>1, <3>2, <3>3 DEF Line
    <2>2. CASE EnqueueUI
      <3> DEFINE c == UI("ui", sdpos_atomic)
      <3>1. c \in Command /\ c.from = sdpos_atomic /\ c.type # "TO_BE_REMOVED" /\ Own(c)
        BY <1>s DEF ShapeOK, Command, Types, Kinds, UI, Own
      <3>2. cmds' = Append(cmds, c)
        BY <2>2 DEF EnqueueUI
      <3> QED
        BY <3>1, <3>2
    <2> QED
      BY <2>1, <2>2
  <1>2. /\ Len(cmds') = Len(cmds) + 1 /\ cmds'[Len(cmds) + 1] = c
        /\ \A i \in 1 .. Len(cmds) : cmds'[i] = cmds[i]
        /\ cmds' \in Seq(Command)
    BY <1>s, <1>1, AppendShape DEF ShapeOK
  <1>4. QueueStart' = QueueStart
    <2>1. cmds' # <<>>
      BY <1>2, <1>s DEF ShapeOK
    <2>2. CASE Len(cmds) = 0
      BY <2>1, <2>2, <1>1, <1>2, <1>s DEF QueueStart, ShapeOK
    <2>3. CASE Len(cmds) # 0
      BY <2>1, <2>3, <1>2, <1>s DEF QueueStart, ShapeOK
    <2> QED
      BY <2>2, <2>3
  <1>5. \A i \in 1 .. Len(cmds') : i \in 1 .. Len(cmds) \/ i = Len(cmds) + 1
    BY <1>2, <1>s DEF ShapeOK
  <1> QED
    BY <1>1, <1>2, <1>4, <1>5 DEF Kept

\* G80 repeats a command behind one of its own, and a runout puts M600 first.
LEMMA PushQueue ==
    ASSUME Inv, RepeatAfterHoming \/ EnqueueM600
    PROVE  QueueStart' = QueueStart /\ \A i \in 1 .. Len(cmds') : Kept(cmds'[i]) \/ Own(cmds'[i])
  <1>s. ShapeOK
    BY Shape DEF Inv, Core
  <1> DEFINE c == [UI("ui", QueueStart) EXCEPT !.type = "STALE"]
  <1>1. cmds' = <<c>> \o cmds
    BY DEF RepeatAfterHoming, EnqueueM600
  <1>2. c \in Command /\ c.from = QueueStart /\ c.to = QueueStart /\ c.type = "STALE" /\ Own(c)
    BY Order DEF Command, Types, Kinds, UI, Own
  <1> HIDE DEF c
  <1>3. /\ cmds' \in Seq(Command) /\ Len(cmds') = Len(cmds) + 1 /\ cmds'[1] = c
        /\ \A i \in 2 .. Len(cmds) + 1 : cmds'[i] = cmds[i - 1]
    BY <1>s, <1>1, <1>2, ConsShape DEF ShapeOK
  <1>4. cmds' # <<>>
    BY <1>3, <1>s DEF ShapeOK
  <1>5. QueueStart' = QueueStart
    BY <1>2, <1>3, <1>4 DEF QueueStart
  <1>6. \A i \in 1 .. Len(cmds') : i = 1 \/ (i \in 2 .. Len(cmds) + 1 /\ i - 1 \in 1 .. Len(cmds))
    BY <1>3, <1>s DEF ShapeOK
  <1> QED
    BY <1>2, <1>3, <1>5, <1>6 DEF Kept

\* The command in front of the others is written and counted.
LEMMA FrontQueue ==
    ASSUME Inv, EnqueueFrontCommit
    PROVE  QueueStart' = QueueStart /\ \A i \in 1 .. Len(cmds') : Kept(cmds'[i])
  <1>s. ShapeOK
    BY Shape DEF Inv, Core
  <1>1. pc = "front" /\ cmds' = [cmds EXCEPT ![1].type = "UI"]
    BY DEF EnqueueFrontCommit, Running
  <1>2. 1 \in 1 .. Len(cmds) /\ cmds[1].type = "STALE" /\ Len(cmds) > 0
    BY <1>s, <1>1 DEF Inv, Core, Control, ShapeOK
  <1>3. cmds \in Seq(Command) /\ Len(cmds) > 0 /\ "UI" \in Types
    BY <1>s, <1>2 DEF ShapeOK, Types
  <1>4. /\ Len(cmds') = Len(cmds) /\ cmds'[1].type = "UI"
        /\ cmds'[1].from = cmds[1].from /\ cmds'[1].to = cmds[1].to
        /\ \A i \in 2 .. Len(cmds) : cmds'[i] = cmds[i]
    BY <1>1, <1>3, RetypeShape
  <1>5. cmds' # <<>> /\ cmds # <<>>
    BY <1>2, <1>4, <1>s DEF ShapeOK
  <1>6. QueueStart' = QueueStart
    BY <1>2, <1>4, <1>5 DEF QueueStart
  <1>7. \A i \in 1 .. Len(cmds') : i = 1 \/ (i \in 2 .. Len(cmds) /\ i \in 1 .. Len(cmds))
    BY <1>4, <1>s DEF ShapeOK
  <1> QED
    BY <1>2, <1>4, <1>6, <1>7 DEF Kept

\* The front command is released: a line of the file only by M601, with the
\* planner dry.
LEMMA PopQueue ==
    ASSUME Inv, PopAdvance
    PROVE  /\ QueueStart' = cmds[1].to /\ \A i \in 1 .. Len(cmds') : Kept(cmds'[i])
           /\ 1 \in 1 .. Len(cmds)
           /\ cmds[1].type # "SDCARD" => QueueStart' = QueueStart
           /\ cmds[1].type = "SDCARD" => QueueStart = cmds[1].from /\ blocks = <<>>
  <1>s. ShapeOK
    BY Shape DEF Inv, Core
  <1>1. pc = "pop2" /\ cmds' = Tail(cmds) /\ sdpos_atomic' = sdpos_atomic
    BY DEF PopAdvance, Running, fileVars
  <1>2. 1 \in 1 .. Len(cmds) /\ Len(cmds) > 0 /\ cmds # <<>>
    BY <1>s, <1>1 DEF Inv, Core, Control, ShapeOK
  <1>3. /\ cmds' \in Seq(Command) /\ Len(cmds') = Len(cmds) - 1
        /\ \A i \in 1 .. Len(cmds) - 1 : cmds'[i] = cmds[i + 1]
    BY <1>s, <1>1, <1>2, TailShape DEF ShapeOK
  <1>4. QueueStart' = cmds[1].to
    <2>1. CASE Len(cmds) = 1
      <3>1. cmds' = <<>>
        BY <2>1, <1>3
      <3> QED
        BY <2>1, <3>1, <1>1 DEF QueueStart, Inv, Core, QueueChain
    <2>2. CASE Len(cmds) # 1
      <3>1. 2 \in 1 .. Len(cmds) /\ cmds'[1] = cmds[2] /\ cmds' # <<>>
        BY <2>2, <1>2, <1>3, <1>s DEF ShapeOK
      <3>2. cmds[2].type # "TO_BE_REMOVED" /\ cmds[1].to = cmds[2].from
        BY <3>1, <1>2 DEF Inv, Core, QueueBytes, QueueChain
      <3> QED
        BY <3>1, <3>2 DEF QueueStart
    <2> QED
      BY <2>1, <2>2
  <1>5. cmds[1].type # "SDCARD" => QueueStart = cmds[1].to
    <2> SUFFICES ASSUME cmds[1].type # "SDCARD" PROVE QueueStart = cmds[1].to
      OBVIOUS
    <2>1. cmds[1].type = "TO_BE_REMOVED" \/ cmds[1].from = cmds[1].to
      BY <1>2, <1>s DEF Inv, Core, QueueBytes, ShapeOK, Types
    <2> QED
      BY <1>2, <2>1 DEF QueueStart
  <1>6. cmds[1].type = "SDCARD" => QueueStart = cmds[1].from /\ blocks = <<>>
    BY <1>1, <1>2 DEF QueueStart, Inv, Core, Control
  <1>7. \A i \in 1 .. Len(cmds') : i + 1 \in 1 .. Len(cmds) /\ cmds'[i] = cmds[i + 1]
    BY <1>3, <1>s DEF ShapeOK
  <1> QED
    BY <1>2, <1>4, <1>5, <1>6, <1>7 DEF Kept

\* The front line is handed over to the planner: its bytes go to the last block.
LEMMA HandOverQueue ==
    ASSUME Inv, HandOver, cmds[1].type = "SDCARD"
    PROVE  /\ QueueStart = cmds[1].from /\ QueueStart' = cmds[1].to /\ 1 \in 1 .. Len(cmds)
           /\ \A i \in 1 .. Len(cmds') : Kept(cmds'[i])
           /\ Len(blocks') = Len(blocks) /\ (blocks' = <<>> <=> blocks = <<>>)
           /\ \A i \in 1 .. Len(blocks) : blocks'[i].from = blocks[i].from
  <1>s. ShapeOK
    BY Shape DEF Inv, Core
  <1>1. /\ pc = "handover" /\ cmds' = [cmds EXCEPT ![1].type = "TO_BE_REMOVED"]
        /\ AddSdLength(cmds[1])
    BY DEF HandOver, Running
  <1>2. 1 \in 1 .. Len(cmds) /\ Len(cmds) > 0 /\ cmds # <<>> /\ cmds[1] \in Command
    BY <1>s, <1>1 DEF Inv, Core, Control, ShapeOK
  <1>3. "TO_BE_REMOVED" \in Types
    BY DEF Types
  <1>4. /\ Len(cmds') = Len(cmds) /\ cmds'[1].type = "TO_BE_REMOVED"
        /\ cmds'[1].from = cmds[1].from /\ cmds'[1].to = cmds[1].to /\ cmds' \in Seq(Command)
        /\ \A i \in 2 .. Len(cmds) : cmds'[i] = cmds[i]
    BY <1>s, <1>1, <1>2, <1>3, RetypeShape DEF ShapeOK
  <1>5. cmds' # <<>>
    BY <1>2, <1>4, <1>s DEF ShapeOK
  <1>6. QueueStart = cmds[1].from /\ QueueStart' = cmds[1].to
    BY <1>2, <1>4, <1>5 DEF QueueStart
  <1>7. \A i \in 1 .. Len(cmds') : i = 1 \/ (i \in 2 .. Len(cmds) /\ i \in 1 .. Len(cmds))
    BY <1>4, <1>s DEF ShapeOK
  <1>8. \A i \in 1 .. Len(cmds') : Kept(cmds'[i])
    BY <1>2, <1>4, <1>7 DEF Kept
  <1>9. /\ Len(blocks') = Len(blocks) /\ (blocks' = <<>> <=> blocks = <<>>)
        /\ \A i \in 1 .. Len(blocks) : blocks'[i].from = blocks[i].from
    <2>1. CASE blocks = <<>>
      <3>1. blocks' = blocks
        BY <1>1, <2>1 DEF AddSdLength
      <3> QED
        BY <3>1
    <2>2. CASE blocks # <<>>
      <3> DEFINE n == Len(blocks)
                 s == Trunc(blocks[n].sdlen + cmds[1].len)
                 t == cmds[1].to
      <3>1. n \in 1 .. Len(blocks) /\ blocks[n] \in Block
        BY <1>s, <2>2 DEF ShapeOK
      <3>2. blocks' = [blocks EXCEPT ![n] = [[blocks[n] EXCEPT !.sdlen = s] EXCEPT !.to = t]]
        BY <1>1, <2>2, <3>1, <1>s DEF AddSdLength, ShapeOK
      <3> HIDE DEF s, t
      <3> DEFINE b == [[blocks[n] EXCEPT !.sdlen = s] EXCEPT !.to = t]
      <3>3. b.from = blocks[n].from
        BY <3>1 DEF Block
      <3> HIDE DEF b
      <3>4. blocks' = [blocks EXCEPT ![n] = b]
        BY <3>2 DEF b
      <3>5. Len(blocks') = Len(blocks) /\ \A i \in 1 .. Len(blocks) : blocks'[i] = IF i = n THEN b ELSE blocks[i]
        BY <1>s, <3>1, <3>4 DEF ShapeOK
      <3>6. blocks' # <<>>
        BY <3>5, <3>1, <1>s DEF ShapeOK
      <3> QED
        BY <2>2, <3>3, <3>5, <3>6
    <2> QED
      BY <2>1, <2>2
  <1> QED
    BY <1>2, <1>6, <1>8, <1>9

-----------------------------------------------------------------------------
(* The planner.                                                            *)

\* A move is planned, or the moves of a restore are: blocks that stand for no
\* byte yet.  The resume point stays where it is.
LEMMA PlanBlocks ==
    ASSUME Inv, PlanPublish \/ RestoreMove
    PROVE  /\ QueueStart' = QueueStart /\ ResumePoint' = ResumePoint
           /\ \A i \in 1 .. Len(blocks') : \/ i \in 1 .. Len(blocks) /\ blocks'[i] = blocks[i]
                                           \/ blocks'[i].from = QueueStart
  <1>s. ShapeOK
    BY Shape DEF Inv, Core
  <1>1. UNCHANGED <<cmds, sdpos_atomic>>
    BY DEF PlanPublish, RestoreMove, fileVars, queueVars
  <1>2. QueueStart' = QueueStart /\ QueueStart \in Int
    BY <1>1, Order DEF QueueStart
  <1>3. CASE blocks' = blocks
    BY <1>1, <1>2, <1>3 DEF ResumePoint
  <1>4. CASE blocks' # blocks
    <2>1. PICK l \in Int : blocks' = Append(blocks, [sdlen |-> 0, line |-> l,
                                                     from |-> QueueStart, to |-> QueueStart])
      <3>1. CASE PlanPublish
        <4>1. line \in Int
          BY <1>s DEF ShapeOK
        <4>2. blocks' = Append(blocks, [sdlen |-> 0, line |-> line,
                                        from |-> QueueStart, to |-> QueueStart])
          BY <3>1, <1>4 DEF PlanPublish
        <4> QED
          BY <4>1, <4>2
      <3>2. CASE RestoreMove
        <4>1. NoLine \in Int
          BY DEF NoLine
        <4>2. blocks' = Append(blocks, [sdlen |-> 0, line |-> NoLine,
                                        from |-> QueueStart, to |-> QueueStart])
          BY <3>2 DEF RestoreMove
        <4> QED
          BY <4>1, <4>2
      <3> QED
        BY <3>1, <3>2
    <2> DEFINE b == [sdlen |-> 0, line |-> l, from |-> QueueStart, to |-> QueueStart]
    <2>2. b \in Block /\ b.from = QueueStart
      BY <1>2 DEF Block
    <2> HIDE DEF b
    <2>3. /\ Len(blocks') = Len(blocks) + 1 /\ blocks'[Len(blocks) + 1] = b
          /\ \A i \in 1 .. Len(blocks) : blocks'[i] = blocks[i]
          /\ blocks' \in Seq(Block)
      <3>1. blocks \in Seq(Block) /\ blocks' = Append(blocks, b)
        BY <1>s, <2>1 DEF ShapeOK, b
      <3> QED
        BY <2>2, <3>1, AppendShape
    <2>4. \A i \in 1 .. Len(blocks') : i \in 1 .. Len(blocks) \/ i = Len(blocks) + 1
      BY <2>3, <1>s DEF ShapeOK
    <2>5. blocks' # <<>>
      BY <2>3, <1>s DEF ShapeOK
    <2>6. ResumePoint' = ResumePoint
      <3>1. CASE Len(blocks) = 0
        BY <1>s, <2>2, <2>3, <2>5, <3>1 DEF ResumePoint, ShapeOK
      <3>2. CASE Len(blocks) # 0
        BY <1>s, <2>3, <2>5, <3>2 DEF ResumePoint, ShapeOK
      <3> QED
        BY <3>1, <3>2
    <2> QED
      BY <1>2, <2>2, <2>3, <2>4, <2>6
  <1> QED
    BY <1>3, <1>4

\* The stepper interrupt moves the resume point forward, never beyond the lines
\* that are handed over.
LEMMA StepperBlocks ==
    ASSUME Inv, StepperDone
    PROVE  /\ QueueStart' = QueueStart /\ ResumePoint' \in Int
           /\ ResumePoint <= ResumePoint' /\ ResumePoint' <= QueueStart
           /\ \A i \in 1 .. Len(blocks') :
                 i + 1 \in 1 .. Len(blocks) /\ blocks'[i] = blocks[i + 1]
  <1>s. ShapeOK
    BY Shape DEF Inv, Core
  <1>1. blocks # <<>> /\ blocks' = Tail(blocks) /\ UNCHANGED <<cmds, sdpos_atomic>>
    BY DEF StepperDone, fileVars, queueVars
  <1>2. QueueStart' = QueueStart
    BY <1>1 DEF QueueStart
  <1>3. /\ blocks' \in Seq(Block) /\ Len(blocks') = Len(blocks) - 1 /\ Len(blocks) > 0
        /\ \A i \in 1 .. Len(blocks) - 1 : blocks'[i] = blocks[i + 1]
    <2>1. blocks \in Seq(Block) /\ Len(blocks) > 0
      BY <1>s, <1>1 DEF ShapeOK
    <2> QED
      BY <1>1, <2>1, TailShape
  <1>4. \A i \in 1 .. Len(blocks') : i + 1 \in 1 .. Len(blocks) /\ blocks'[i] = blocks[i + 1]
    BY <1>3, <1>s DEF ShapeOK
  <1>5. ResumePoint' \in Int /\ ResumePoint <= ResumePoint' /\ ResumePoint' <= QueueStart
    <2>1. CASE Len(blocks) = 1
      <3>1. blocks' = <<>>
        BY <1>3, <2>1
      <3> QED
        BY <1>2, <3>1, Order DEF ResumePoint
    <2>2. CASE Len(blocks) # 1
      <3>1. 2 \in 1 .. Len(blocks) /\ blocks'[1] = blocks[2] /\ blocks' # <<>>
        BY <1>3, <2>2, <1>s DEF ShapeOK
      <3>2. ResumePoint' = blocks[2].from
        BY <3>1 DEF ResumePoint
      <3>3. /\ ResumePoint <= blocks[2].from /\ blocks[2].to <= QueueStart /\ QueueStart \in Int
            /\ blocks[2].from \in Int /\ blocks[2].to \in Int /\ blocks[2].from <= blocks[2].to
        BY <3>1, <1>s, Order DEF ShapeOK, Inv, Core, BlockChain
      <3> QED
        BY <3>2, <3>3
    <2> QED
      BY <2>1, <2>2
  <1> QED
    BY <1>2, <1>4, <1>5

\* A pause and a runout empty the queue and the planner; what is left is the
\* retraction a pause queues.
LEMMA StopQueue ==
    ASSUME Inv, FinishPause \/ FinishRunout
    PROVE  /\ QueueStart' = sdpos_atomic /\ ResumePoint' = sdpos_atomic
           /\ \A i \in 1 .. Len(cmds') : Own(cmds'[i])
           /\ Len(blocks') = 0 /\ sdpos_atomic' = sdpos_atomic
  <1>1. /\ blocks' = <<>> /\ sdpos_atomic' = sdpos_atomic
        /\ cmds' = <<>> \/ cmds' = <<UI("ui", sdpos_atomic)>>
    BY DEF FinishPause, FinishRunout, StopPrint
  <1> DEFINE c == UI("ui", sdpos_atomic)
  <1>2. c.from = sdpos_atomic /\ c.to = sdpos_atomic /\ c.type = "UI"
    BY DEF UI
  <1> HIDE DEF c
  <1>3. cmds' = <<>> \/ cmds' = <<c>>
    BY <1>1 DEF c
  <1>4. QueueStart' = sdpos_atomic
    BY <1>1, <1>2, <1>3 DEF QueueStart
  <1>5. \A i \in 1 .. Len(cmds') : cmds'[i] = c
    BY <1>3
  <1> QED
    BY <1>1, <1>2, <1>4, <1>5 DEF ResumePoint, Own

\* A restore of a print from the card sets the file and the queue back to the
\* saved position.
LEMMA RestoreQueue ==
    ASSUME Inv, RestoreFinish, saved_type = "sd"
    PROVE  /\ QueueStart' = saved_sdpos /\ ResumePoint' = saved_sdpos
           /\ \A i \in 1 .. Len(cmds') : /\ cmds'[i].type # "SDCARD"
                                         /\ cmds'[i].from = saved_sdpos /\ cmds'[i].to = saved_sdpos
           /\ Len(blocks') = 0 /\ sdpos_atomic' = saved_sdpos /\ readpos' = saved_sdpos
  <1>s. ShapeOK
    BY Shape DEF Inv, Core
  <1>1. /\ blocks' = <<>> /\ sdpos_atomic' = saved_sdpos /\ readpos' = saved_sdpos
        /\ cmds' = Rebase(cmds, saved_sdpos) /\ saved_printing
    BY DEF RestoreFinish, Running, Inv, Saver
  <1> DEFINE q == [i \in 1 .. Len(cmds) |-> [cmds[i] EXCEPT !.from = saved_sdpos, !.to = saved_sdpos]]
  <1>2. cmds' = q /\ DOMAIN cmds = 1 .. Len(cmds) /\ Len(cmds) \in Nat
    <2>1. DOMAIN cmds = 1 .. Len(cmds) /\ Len(cmds) \in Nat
      BY <1>s DEF ShapeOK
    <2> QED
      BY <1>1, <2>1 DEF Rebase
  <1>3. Len(cmds') = Len(cmds) /\ DOMAIN cmds' = 1 .. Len(cmds)
    <2>1. DOMAIN q = 1 .. Len(cmds)
      OBVIOUS
    <2> HIDE DEF q
    <2>2. DOMAIN cmds' = 1 .. Len(cmds)
      BY <1>2, <2>1
    <2>3. Len(cmds') = Len(cmds)
      BY <1>2, <2>2
    <2> QED
      BY <2>2, <2>3
  <1>4. ASSUME NEW i \in 1 .. Len(cmds)
        PROVE  /\ cmds'[i].type # "SDCARD"
               /\ cmds'[i].from = saved_sdpos /\ cmds'[i].to = saved_sdpos
    <2>1. cmds'[i] = [cmds[i] EXCEPT !.from = saved_sdpos, !.to = saved_sdpos]
      BY <1>2
    <2>2. cmds[i] \in Command /\ cmds[i].type # "SDCARD"
      BY <1>s, <1>1 DEF ShapeOK, Inv, Quiet
    <2> QED
      BY <2>1, <2>2 DEF Command
  <1>5. QueueStart' = saved_sdpos
    <2>1. CASE Len(cmds) = 0
      <3>1. cmds' = <<>>
        BY <1>1, <2>1, <1>s DEF Rebase, ShapeOK
      <3> QED
        BY <3>1, <1>1 DEF QueueStart
    <2>2. CASE Len(cmds) # 0
      <3>1. 1 \in 1 .. Len(cmds)
        BY <2>2, <1>s DEF ShapeOK
      <3>2. cmds' # <<>>
        BY <3>1, <1>3
      <3> QED
        BY <3>1, <3>2, <1>4 DEF QueueStart
    <2> QED
      BY <2>1, <2>2
  <1> QED
    BY <1>1, <1>3, <1>4, <1>5 DEF ResumePoint

-----------------------------------------------------------------------------
(* The steps that leave the queue and the planner alone.                   *)

Reading == GetLine \/ GetBlankLine
Saves   == PauseAfterM601 \/ Pause \/ FilamentRunout \/ PowerFail \/ SavePlanner \/ SaveCmdqueue
Moves   == \/ LoopTop \/ GetReturn \/ GetEndOfFile \/ LoopDispatch \/ PlanPrepare
           \/ GetWhileWaiting \/ ProcessM601 \/ CommandDone \/ ReleaseCheck \/ PopCount
           \/ LoopEnd \/ Resume \/ FinishPowerFail \/ PowerDown \/ UNCHANGED vars

\* The part of the state that the cursor into the file is made of.
Cursor == <<cmds, blocks, sdpos_atomic, reached, sdprinting, saved_printing>>

\* None of them moves the cursor.
LEMMA CursorStays ==
    ASSUME Inv, Reading \/ Saves \/ Moves
    PROVE  /\ UNCHANGED Cursor
           /\ UNCHANGED <<saved_type, saved_sdpos>> \/ (~SavedSD /\ ~SavedSD')
  <1> USE DEF fileVars, queueVars, planVars, savedVars, mainVars, isrVars, ghostVars, vars
  <1>1. CASE Reading
    BY <1>1 DEF Reading, GetLine, GetBlankLine, Cursor
  <1>2. CASE Moves
    BY <1>2 DEF Moves, LoopTop, GetReturn, GetEndOfFile, LoopDispatch, PlanPrepare,
       GetWhileWaiting, ProcessM601, CommandDone, ReleaseCheck, PopCount, LoopEnd, Resume,
       FinishPowerFail, PowerDown, GetEnter, Cursor
  <1>3. CASE Saves
    <2>1. UNCHANGED Cursor
      BY <1>3 DEF Saves, PauseAfterM601, Pause, PauseAt, FilamentRunout, PowerFail,
                  SavePlanner, SaveCmdqueue, Cursor
    <2>2. CASE SavePlanner \/ SaveCmdqueue
      <3>1. save \in {"planner", "cmdqueue"} /\ UNCHANGED <<saved_printing, saved_type>>
        BY <2>2 DEF SavePlanner, SaveCmdqueue
      <3>2. ~SavedSD
        BY <3>1 DEF Inv, Saver
      <3> QED
        BY <2>1, <3>1, <3>2 DEF SavedSD
    <2>3. CASE ~(SavePlanner \/ SaveCmdqueue)
      <3>1. \/ UNCHANGED <<saved_type, saved_sdpos>>
            \/ ~SavedSD /\ saved_type' = IF sdprinting THEN "sd" ELSE "none"
        BY <1>3, <2>3 DEF Saves, PauseAfterM601, Pause, PauseAt, FilamentRunout, PowerFail,
                          StartSave, SavedSD
      <3>2. saved_printing => ~sdprinting
        BY DEF Inv, Quiet
      <3> QED
        BY <2>1, <3>1, <3>2 DEF SavedSD, Cursor
    <2> QED
      BY <2>1, <2>2, <2>3
  <1> QED
    BY <1>1, <1>2, <1>3

LEMMA StillSteps ==
    ASSUME Inv, Reading \/ Saves \/ Moves
    PROVE  /\ QueueStart' = QueueStart /\ ResumePoint' = ResumePoint
           /\ UNCHANGED <<State, reached, Executed>> /\ SavedSD' = SavedSD
           /\ SavedSD' => saved_sdpos' = saved_sdpos
  <1>1. UNCHANGED Cursor /\ (UNCHANGED <<saved_type, saved_sdpos>> \/ (~SavedSD /\ ~SavedSD'))
    BY CursorStays
  <1>2. QueueStart' = QueueStart /\ ResumePoint' = ResumePoint
    BY <1>1 DEF Cursor, QueueStart, ResumePoint
  <1>3. SavedSD' = SavedSD /\ (SavedSD' => saved_sdpos' = saved_sdpos)
    BY <1>1 DEF Cursor, SavedSD
  <1>4. State' = State /\ Executed' = Executed /\ reached' = reached
    BY <1>1, <1>2, <1>3 DEF Cursor, State, Executed
  <1> QED
    BY <1>2, <1>3, <1>4

\* Where the printer stands in the file is always an end of a line.
LEMMA StartOffsets ==
    ASSUME Inv, FileLines
    PROVE  QueueStart \in Offsets /\ ResumePoint \in Offsets
  <1>s. ShapeOK
    BY Shape DEF Inv, Core
  <1>1. QueueStart \in Offsets
    <2>1. CASE Len(cmds) = 0
      BY <2>1, <1>s DEF QueueStart, FileLines, ShapeOK
    <2>2. CASE Len(cmds) # 0
      <3>1. 1 \in 1 .. Len(cmds) /\ cmds # <<>>
        BY <2>2, <1>s DEF ShapeOK
      <3> QED
        BY <3>1 DEF QueueStart, FileLines
    <2> QED
      BY <2>1, <2>2
  <1>2. ResumePoint \in Offsets
    <2>1. CASE Len(blocks) = 0
      BY <2>1, <1>1, <1>s DEF ResumePoint, ShapeOK
    <2>2. CASE Len(blocks) # 0
      <3>1. 1 \in 1 .. Len(blocks) /\ blocks # <<>>
        BY <2>2, <1>s DEF ShapeOK
      <3> QED
        BY <3>1 DEF ResumePoint, FileLines
    <2> QED
      BY <2>1, <2>2
  <1> QED
    BY <1>1, <1>2

\* A step of the queue or of the planner that reads nothing.
LEMMA LinesFrame ==
    ASSUME Inv, FileLines, UNCHANGED <<readpos, sdpos_atomic>>,
           pc' = "commit" <=> pc = "commit",
           \A i \in 1 .. Len(cmds') : Kept(cmds'[i]) \/ Own(cmds'[i]),
           \A i \in 1 .. Len(blocks') : blocks'[i].from \in Offsets,
           SavedSD' => saved_sdpos' \in Offsets
    PROVE  FileLines'
  <1>1. ASSUME NEW i \in 1 .. Len(cmds')
        PROVE  /\ cmds'[i].from \in Offsets /\ cmds'[i].to \in Offsets
               /\ cmds'[i].type = "SDCARD" => FP!CommandEnd(cmds'[i].from, cmds'[i].to)
    <2>1. CASE Kept(cmds'[i])
      <3>1. PICK j \in 1 .. Len(cmds) :
               /\ cmds'[i].from = cmds[j].from /\ cmds'[i].to = cmds[j].to
               /\ cmds'[i].type = "SDCARD" => cmds[j].type = "SDCARD"
        BY <2>1 DEF Kept
      <3>2. /\ cmds[j].from \in Offsets /\ cmds[j].to \in Offsets
            /\ cmds[j].type = "SDCARD" => FP!CommandEnd(cmds[j].from, cmds[j].to)
        BY DEF FileLines
      <3> QED
        BY <3>1, <3>2
    <2>2. CASE Own(cmds'[i])
      BY <2>2, StartOffsets DEF Own, FileLines
    <2> QED
      BY <2>1, <2>2
  <1>2. /\ readpos' \in Offsets /\ sdpos_atomic' \in Offsets
        /\ pc' = "commit" => FP!CommandEnd(sdpos_atomic', readpos')
        /\ pc' # "commit" => OnlyBlank(sdpos_atomic', readpos')
    BY DEF FileLines
  <1> QED
    BY <1>1, <1>2 DEF FileLines, OnlyBlank, Offsets

\* A line with a command has been read: it is the first one behind the last
\* line of the queue.  A line without one joins those in front of it.
LEMMA ReadLines ==
    ASSUME Inv, FileLines, Reading
    PROVE  FileLines'
  <1>s. ShapeOK
    BY Shape DEF Inv, Core
  <1>1. UNCHANGED Cursor /\ SavedSD' = SavedSD /\ (SavedSD' => saved_sdpos' = saved_sdpos)
    BY CursorStays, StillSteps
  <1>2. pc = "get" /\ sdpos_atomic <= readpos /\ readpos \in Offsets /\ OnlyBlank(sdpos_atomic, readpos)
    BY DEF Reading, GetLine, GetBlankLine, Running, FileLines, Inv, Core, QueueChain
  <1>3. PICK e \in LineEnd : EndsLine(readpos, e) /\ readpos' = e
    BY DEF Reading, GetLine, GetBlankLine
  <1>4. /\ sdpos_atomic \in Int /\ readpos \in Nat /\ e \in Nat /\ readpos < e
        /\ \A f \in LineEnd : f \in Nat /\ (f > readpos => e <= f)
    BY <1>s, <1>2, <1>3, FileAssumption DEF EndsLine, Offsets, ShapeOK
  <1>5. CASE GetLine
    <2>1. readpos \notin Blank /\ pc' = "commit"
      BY <1>5 DEF GetLine
    <2>2. FP!IsLine(readpos, e)
      BY <1>2, <1>4 DEF FP!IsLine, Offsets
    <2>3. FP!CommandEnd(sdpos_atomic, e)
      BY <1>2, <2>1, <2>2 DEF FP!CommandEnd, OnlyBlank, Offsets
    <2> QED
      BY <1>1, <1>3, <2>1, <2>3 DEF FileLines, Cursor, Offsets
  <1>6. CASE GetBlankLine
    <2>1. readpos \in Blank /\ pc' = ret /\ ret # "commit"
      BY <1>6, <1>2 DEF GetBlankLine, Inv, Core, Control
    <2>2. ASSUME NEW t \in Offsets, sdpos_atomic <= t, t < e PROVE t \in Blank
      <3>1. t \in Nat
        BY FileAssumption DEF Offsets
      <3>2. CASE t < readpos
        BY <1>2, <2>2, <3>2 DEF OnlyBlank
      <3>3. CASE t = readpos
        BY <2>1, <3>3
      <3>4. CASE t > readpos
        BY <1>4, <2>2, <3>1, <3>4 DEF Offsets
      <3> QED
        BY <1>4, <3>1, <3>2, <3>3, <3>4
    <2>3. OnlyBlank(sdpos_atomic, readpos')
      BY <1>3, <2>2 DEF OnlyBlank
    <2> QED
      BY <1>1, <1>3, <2>1, <2>3 DEF FileLines, Cursor, Offsets, OnlyBlank
  <1> QED
    BY <1>5, <1>6 DEF Reading

LEMMA StillLines ==
    ASSUME Inv, FileLines, Reading \/ Saves \/ Moves
    PROVE  FileLines'
  <1>1. CASE Reading
    BY <1>1, ReadLines
  <1>2. CASE ~Reading
    <2>1. UNCHANGED Cursor /\ SavedSD' = SavedSD /\ (SavedSD' => saved_sdpos' = saved_sdpos)
      BY CursorStays, StillSteps
    <2>2. readpos' = readpos /\ (pc' = "commit" <=> pc = "commit")
      <3> USE DEF fileVars, queueVars, planVars, savedVars, mainVars, isrVars, ghostVars, vars
      <3>1. CASE Saves
        BY <3>1 DEF Saves, PauseAfterM601, Pause, PauseAt, FilamentRunout, PowerFail,
                    SavePlanner, SaveCmdqueue, Running
      <3>2. CASE Moves
        <4>1. CASE GetReturn
          BY <4>1 DEF GetReturn, Running, Inv, Core, Control
        <4>2. CASE ~GetReturn
          BY <3>2, <4>2 DEF Moves, LoopTop, GetEndOfFile, LoopDispatch, PlanPrepare,
             GetWhileWaiting, ProcessM601, CommandDone, ReleaseCheck, PopCount, LoopEnd,
             Resume, FinishPowerFail, PowerDown, GetEnter, Running, Waits
        <4> QED
          BY <4>1, <4>2
      <3> QED
        BY <1>2, <3>1, <3>2
    <2>3. \A i \in 1 .. Len(cmds') : Kept(cmds'[i])
      BY <2>1 DEF Kept, Cursor
    <2>4. \A i \in 1 .. Len(blocks') : blocks'[i].from \in Offsets
      BY <2>1 DEF FileLines, Cursor
    <2> QED
      BY <2>1, <2>2, <2>3, <2>4, LinesFrame DEF Cursor, FileLines
  <1> QED
    BY <1>1, <1>2

\* The steps that leave the cursor alone are no steps of FilePrint, and keep
\* what the refinement needs.  At the end of the file, the lengths in the queue
\* sum up to nothing.
LEMMA StillRefines ==
    ASSUME Inv, RefinementInv, InFlight < SDLEN_MOD, Reading \/ Saves \/ Moves
    PROVE  RefinementInv' /\ UNCHANGED <<State, reached, Executed>>
  <1>1. /\ UNCHANGED Cursor /\ UNCHANGED <<State, reached, Executed>>
        /\ QueueStart' = QueueStart /\ ResumePoint' = ResumePoint
    BY CursorStays, StillSteps
  <1>2. Ended'
    BY <1>1 DEF RefinementInv, Ended, Cursor
  <1>3. AtFileEnd' => AtFileEnd \/ GetEndOfFile
    <2> USE DEF fileVars, queueVars, planVars, savedVars, mainVars, isrVars, ghostVars, vars
    <2>1. CASE Saves
      BY <2>1 DEF Saves, PauseAfterM601, Pause, PauseAt, FilamentRunout, PowerFail,
                  SavePlanner, SaveCmdqueue, Running, AtFileEnd
    <2>2. CASE Reading \/ GetReturn
      BY <2>2 DEF Reading, GetLine, GetBlankLine, GetReturn, Running, Inv, Core, Control, AtFileEnd
    <2>3. CASE Moves /\ ~GetReturn
      BY <2>3 DEF Moves, LoopTop, LoopDispatch, PlanPrepare,
         GetWhileWaiting, ProcessM601, CommandDone, ReleaseCheck, PopCount, LoopEnd,
         Resume, FinishPowerFail, PowerDown, GetEnter, Running, Waits, AtFileEnd
    <2> QED
      BY <2>1, <2>2, <2>3
  <1>4. EndOfFile'
    <2>1. CASE GetEndOfFile
      <3>1. CalcSdLength = 0 /\ CalcSdLength = sdpos_atomic - QueueStart
        BY <2>1, CalcSum DEF GetEndOfFile, Running
      <3>2. sdpos_atomic = QueueStart
        BY <3>1, Order, Shape DEF Inv, Core, ShapeOK
      <3> QED
        BY <1>1, <3>2 DEF EndOfFile, Cursor
    <2>2. CASE ~GetEndOfFile
      BY <1>1, <1>3, <2>2 DEF RefinementInv, EndOfFile, Cursor
    <2> QED
      BY <2>1, <2>2
  <1> QED
    BY <1>1, <1>2, <1>4, StillLines DEF RefinementInv

-----------------------------------------------------------------------------
(* The steps of the queue and of the planner.                              *)

QueueSteps ==
    CommitLine \/ EnqueueUI \/ RepeatAfterHoming \/ EnqueueM600 \/ EnqueueFrontCommit
    \/ HandOver \/ PopAdvance
PlanSteps == PlanPublish \/ RestoreMove \/ StepperDone

\* None of them touches what is saved.
LEMMA QueueFlags ==
    ASSUME QueueSteps \/ PlanSteps
    PROVE  /\ UNCHANGED <<sdprinting, saved_printing, saved_type, saved_sdpos, readpos>>
           /\ SavedSD' = SavedSD /\ save' = "off"
           /\ CommitLine \/ sdpos_atomic' = sdpos_atomic
           /\ HandOver \/ PlanSteps \/ blocks' = blocks
           /\ HandOver \/ PopAdvance \/ reached' = reached
           /\ PlanSteps => cmds' = cmds
  <1> USE DEF fileVars, queueVars, planVars, savedVars, mainVars, isrVars, ghostVars
  <1>1. /\ UNCHANGED <<sdprinting, saved_printing, saved_type, saved_sdpos, readpos>>
        /\ save' = "off"
        /\ CommitLine \/ sdpos_atomic' = sdpos_atomic
        /\ HandOver \/ PopAdvance \/ reached' = reached
    BY DEF QueueSteps, PlanSteps, CommitLine, EnqueueUI, RepeatAfterHoming, EnqueueM600,
           EnqueueFrontCommit, HandOver, PopAdvance, PlanPublish, RestoreMove, StepperDone, Running
  <1>2. HandOver \/ PlanSteps \/ blocks' = blocks
    BY DEF QueueSteps, CommitLine, EnqueueUI, RepeatAfterHoming, EnqueueM600,
           EnqueueFrontCommit, PopAdvance
  <1>3. PlanSteps => cmds' = cmds
    BY DEF PlanSteps, PlanPublish, RestoreMove, StepperDone
  <1> QED
    BY <1>1, <1>2, <1>3 DEF SavedSD

\* Where the main thread is: only a line that has been read is committed, and
\* the end of the file is found by get_command().
LEMMA QueuePlaces ==
    ASSUME Inv, QueueSteps \/ PlanSteps
    PROVE  /\ CommitLine \/ (pc' = "commit" <=> pc = "commit")
           /\ CommitLine => pc = "commit" /\ pc' # "commit" /\ sdprinting
           /\ AtFileEnd' => AtFileEnd /\ ~CommitLine /\ ~HandOver /\ ~PopAdvance
  <1> USE DEF fileVars, queueVars, planVars, savedVars, mainVars, isrVars, ghostVars
  <1>t. back # "commit" /\ ret \notin {"commit", "finish"}
    BY DEF Inv, Core, TypeOK, MainTypes
  <1>1. CASE CommitLine
    BY <1>1, <1>t DEF CommitLine, Running, Inv, Core, Control, Alone, AtFileEnd
  <1>2. CASE PopAdvance
    BY <1>2 DEF PopAdvance, Running, Inv, Core, Control, AtFileEnd, CommitLine, HandOver
  <1>3. CASE HandOver
    BY <1>3 DEF HandOver, Running, AtFileEnd, CommitLine
  <1>4. CASE ~CommitLine /\ ~PopAdvance /\ ~HandOver
    BY <1>4, <1>t DEF QueueSteps, PlanSteps, EnqueueUI, RepeatAfterHoming, EnqueueM600,
           EnqueueFrontCommit, PlanPublish, RestoreMove, StepperDone, Running, AtFileEnd
  <1> QED
    BY <1>1, <1>2, <1>3, <1>4

LEMMA QueueLines ==
    ASSUME Inv, FileLines, QueueSteps \/ PlanSteps
    PROVE  FileLines'
  <1>f. /\ readpos' = readpos /\ saved_sdpos' = saved_sdpos /\ SavedSD' = SavedSD
        /\ SavedSD' => saved_sdpos' \in Offsets
    BY QueueFlags DEF FileLines
  <1>o. QueueStart \in Offsets /\ \A i \in 1 .. Len(blocks) : blocks[i].from \in Offsets
    BY StartOffsets DEF FileLines
  <1>1. CASE CommitLine
    <2>1. pc = "commit" /\ pc' # "commit" /\ sdpos_atomic' = readpos /\ blocks' = blocks
      BY <1>1, QueuePlaces DEF CommitLine, planVars, QueueSteps
    <2>2. ASSUME NEW i \in 1 .. Len(cmds')
          PROVE  /\ cmds'[i].from \in Offsets /\ cmds'[i].to \in Offsets
                 /\ cmds'[i].type = "SDCARD" => FP!CommandEnd(cmds'[i].from, cmds'[i].to)
      <3>1. Kept(cmds'[i]) \/ Own(cmds'[i]) \/ Line(cmds'[i])
        BY <1>1, CommitQueue
      <3>2. CASE Kept(cmds'[i])
        <4>1. PICK j \in 1 .. Len(cmds) :
                 /\ cmds'[i].from = cmds[j].from /\ cmds'[i].to = cmds[j].to
                 /\ cmds'[i].type = "SDCARD" => cmds[j].type = "SDCARD"
          BY <3>2 DEF Kept
        <4>2. /\ cmds[j].from \in Offsets /\ cmds[j].to \in Offsets
              /\ cmds[j].type = "SDCARD" => FP!CommandEnd(cmds[j].from, cmds[j].to)
          BY DEF FileLines
        <4> QED
          BY <4>1, <4>2
      <3>3. CASE Own(cmds'[i])
        BY <1>o, <3>3 DEF Own, FileLines
      <3>4. CASE Line(cmds'[i])
        BY <3>4 DEF Line, FileLines
      <3> QED
        BY <3>1, <3>2, <3>3, <3>4
    <2>3. OnlyBlank(readpos, readpos)
      <3>1. readpos \in Int /\ \A t \in Offsets : t \in Int
        BY Shape, FileAssumption DEF Inv, Core, ShapeOK, Offsets
      <3> QED
        BY <3>1 DEF OnlyBlank
    <2> QED
      BY <1>f, <2>1, <2>2, <2>3 DEF FileLines, OnlyBlank, Offsets
  <1>2. CASE ~CommitLine
    <2>1. sdpos_atomic' = sdpos_atomic /\ (pc' = "commit" <=> pc = "commit")
      BY <1>2, QueueFlags, QueuePlaces
    <2>2. \A i \in 1 .. Len(cmds') : Kept(cmds'[i]) \/ Own(cmds'[i])
      <3>1. CASE cmds' = cmds
        BY <3>1 DEF Kept
      <3>2. CASE HandOver /\ cmds[1].type = "SDCARD"
        BY <3>2, HandOverQueue
      <3>3. CASE HandOver /\ cmds[1].type # "SDCARD"
        BY <3>1, <3>3 DEF HandOver
      <3>4. CASE EnqueueUI \/ RepeatAfterHoming \/ EnqueueM600 \/ EnqueueFrontCommit \/ PopAdvance
        BY <1>2, <3>4, CommitQueue, PushQueue, FrontQueue, PopQueue
      <3> QED
        BY <1>2, <3>1, <3>2, <3>3, <3>4, QueueFlags DEF QueueSteps
    <2>3. \A i \in 1 .. Len(blocks') : blocks'[i].from \in Offsets
      <3>1. CASE blocks' = blocks
        BY <1>o, <3>1
      <3>2. CASE HandOver /\ cmds[1].type = "SDCARD"
        <4>1. Len(blocks') = Len(blocks) /\ \A i \in 1 .. Len(blocks) : blocks'[i].from = blocks[i].from
          BY <3>2, HandOverQueue
        <4> QED
          BY <1>o, <4>1
      <3>3. CASE HandOver /\ cmds[1].type # "SDCARD"
        BY <3>1, <3>3 DEF HandOver
      <3>4. CASE PlanPublish \/ RestoreMove
        BY <1>o, <3>4, PlanBlocks
      <3>5. CASE StepperDone
        BY <1>o, <3>5, StepperBlocks
      <3> QED
        BY <3>1, <3>2, <3>3, <3>4, <3>5, QueueFlags DEF PlanSteps
    <2> QED
      BY <1>f, <2>1, <2>2, <2>3, LinesFrame
  <1> QED
    BY <1>1, <1>2

\* The steps that keep the next line of the file and the resume point.
LEMMA QueueStutters ==
    ASSUME Inv, RefinementInv, QueueSteps \/ PlanSteps,
           QueueStart' = QueueStart, ResumePoint' = ResumePoint, reached' = reached
    PROVE  RefinementInv' /\ UNCHANGED <<State, reached, Executed>>
  <1>1. UNCHANGED <<State, reached, Executed>>
    BY QueueFlags DEF State, Executed
  <1>2. FileLines'
    BY QueueLines DEF RefinementInv
  <1>3. EndOfFile'
    <2>1. AtFileEnd' => AtFileEnd /\ sdpos_atomic' = sdpos_atomic
      BY QueuePlaces, QueueFlags
    <2> QED
      BY <2>1 DEF RefinementInv, EndOfFile
  <1>4. Ended'
    <2>1. CASE CommitLine
      <3>1. sdprinting' \/ SavedSD'
        BY <2>1, QueuePlaces, QueueFlags
      <3> QED
        BY <3>1 DEF Ended, State
    <2>2. CASE ~CommitLine
      BY <1>1, <2>2, QueueFlags DEF RefinementInv, Ended
    <2> QED
      BY <2>1, <2>2
  <1> QED
    BY <1>1, <1>2, <1>3, <1>4 DEF RefinementInv

-----------------------------------------------------------------------------
(* The steps of FilePrint.                                                 *)

\* The cursor of FilePrint: what is processed next begins where the queue does,
\* and a print that has a line in the queue has not ended.
LEMMA CursorAt ==
    ASSUME Inv, Reached, RefinementInv
    PROVE  /\ State = "printing" => reached = QueueStart /\ Executed = ResumePoint
           /\ State = "saved" => SavedSD /\ reached = saved_sdpos /\ Executed = saved_sdpos
           /\ State = "ended" => /\ ~SavedSD /\ Executed = ResumePoint
                                 /\ ResumePoint = sdpos_atomic /\ QueueStart = sdpos_atomic
                                 /\ reached = sdpos_atomic
           /\ State \in {"printing", "saved", "ended"}
  <1>1. sdpos_atomic \in Int
    BY Shape DEF Inv, Core, ShapeOK
  <1>2. State = "printing" <=> ~SavedSD /\ sdprinting
    BY DEF State
  <1>3. State = "saved" <=> SavedSD
    BY DEF State
  <1>4. State = "ended" <=> ~SavedSD /\ ~sdprinting
    BY DEF State
  <1>5. State = "ended" => QueueStart = sdpos_atomic
    BY <1>1, Order DEF RefinementInv, Ended
  <1> QED
    BY <1>2, <1>3, <1>4, <1>5 DEF Reached, Executed, RefinementInv, Ended

\* The front line is handed over, or M601 releases itself: FilePrint processes
\* the line.  With nothing in the planner, the line is executed too.
LEMMA ProcessRefines ==
    ASSUME Inv, Reached, RefinementInv, HandOver \/ PopAdvance, cmds[1].type = "SDCARD"
    PROVE  RefinementInv' /\ FP!Process
  <1>s. ShapeOK
    BY Shape DEF Inv, Core
  <1>1. 1 \in 1 .. Len(cmds) /\ QueueStart = cmds[1].from /\ QueueStart' = cmds[1].to
    BY HandOverQueue, PopQueue
  <1>2. reached' = cmds[1].to
    BY DEF HandOver, PopAdvance
  <1>3. cmds[1].from < cmds[1].to /\ cmds[1].to <= sdpos_atomic /\ ~SavedSD
    BY <1>1, Order DEF Inv, Core, QueueBytes, Quiet, SavedSD
  <1>4. /\ sdpos_atomic \in Int /\ cmds[1].from \in Int /\ cmds[1].to \in Int
    BY <1>1, <1>s DEF ShapeOK
  <1>5. State = "printing" /\ reached = QueueStart /\ Executed = ResumePoint
    BY <1>1, <1>3, <1>4, CursorAt
  <1>6. FP!CommandEnd(reached, reached')
    BY <1>1, <1>2, <1>5 DEF RefinementInv, FileLines
  <1>7. reached' \in LineEnd
    BY <1>6 DEF FP!CommandEnd, FP!IsLine
  <1>8. State' = "printing" /\ Executed' = ResumePoint' /\ ~SavedSD'
    BY <1>3, <1>5, QueueFlags DEF QueueSteps, State, Executed
  <1>9. Executed' \in {Executed, reached'}
    <2>1. CASE blocks = <<>>
      <3>1. blocks' = <<>>
        BY <2>1, HandOverQueue, QueueFlags DEF QueueSteps, HandOver, PopAdvance, planVars
      <3> QED
        BY <1>1, <1>2, <1>8, <3>1 DEF ResumePoint
    <2>2. CASE blocks # <<>>
      <3>1. HandOver
        BY <2>2, PopQueue
      <3>2. blocks' # <<>> /\ 1 \in 1 .. Len(blocks) /\ blocks'[1].from = blocks[1].from
        BY <2>2, <3>1, <1>s, HandOverQueue DEF ShapeOK
      <3> QED
        BY <1>5, <1>8, <2>2, <3>2 DEF ResumePoint
    <2> QED
      BY <2>1, <2>2
  <1>10. FP!Process
    BY <1>5, <1>6, <1>7, <1>8, <1>9 DEF FP!Process
  <1>11. FileLines'
    BY QueueLines DEF RefinementInv, QueueSteps
  <1>12. EndOfFile'
    BY QueuePlaces DEF QueueSteps, EndOfFile
  <1>13. Ended'
    BY <1>8 DEF Ended
  <1> QED
    BY <1>10, <1>11, <1>12, <1>13 DEF RefinementInv

\* A block is executed.
LEMMA StepperRefines ==
    ASSUME Inv, Reached, RefinementInv, StepperDone
    PROVE  RefinementInv' /\ [FP!Next]_<<State, reached, Executed>>
  <1>1. /\ QueueStart' = QueueStart /\ ResumePoint' \in Int
        /\ ResumePoint <= ResumePoint' /\ ResumePoint' <= QueueStart
    BY StepperBlocks
  <1>2. ResumePoint \in Int /\ QueueStart \in Int
    BY Order
  <1>3. CASE ResumePoint' = ResumePoint
    <2>1. reached' = reached
      BY DEF StepperDone, ghostVars
    <2> QED
      BY <1>1, <1>3, <2>1, QueueStutters DEF PlanSteps
  <1>4. CASE ResumePoint' # ResumePoint
    <2>1. /\ reached' = reached /\ State' = State /\ sdpos_atomic' = sdpos_atomic
          /\ SavedSD' = SavedSD /\ saved_sdpos' = saved_sdpos /\ ~CommitLine /\ ~HandOver
      BY QueueFlags DEF PlanSteps, State, StepperDone, ghostVars, fileVars, mainVars,
                        CommitLine, HandOver, Running, queueVars
    <2>2. State # "ended"
      BY <1>1, <1>2, <1>4, CursorAt
    <2>3. FileLines'
      BY QueueLines DEF RefinementInv, PlanSteps
    <2>4. EndOfFile'
      BY <1>1, <2>1, QueuePlaces DEF PlanSteps, RefinementInv, EndOfFile
    <2>5. Ended'
      BY <2>1, <2>2 DEF Ended
    <2>6. CASE State = "printing"
      <3>1. reached = QueueStart /\ Executed = ResumePoint /\ ~SavedSD
        BY <2>6, CursorAt DEF State
      <3>2. Executed' = ResumePoint'
        BY <2>1, <3>1 DEF Executed
      <3>3. Executed' \in Executed + 1 .. reached
        BY <1>1, <1>2, <1>4, <3>1, <3>2
      <3>4. FP!Execute
        BY <2>1, <2>6, <3>3 DEF FP!Execute
      <3> QED
        BY <2>3, <2>4, <2>5, <3>4 DEF RefinementInv, FP!Next
    <2>7. CASE State = "saved"
      <3>1. Executed' = Executed
        BY <2>1, <2>7, CursorAt DEF Executed
      <3> QED
        BY <2>1, <2>3, <2>4, <2>5, <3>1 DEF RefinementInv
    <2> QED
      BY <2>2, <2>6, <2>7, CursorAt
  <1> QED
    BY <1>3, <1>4

\* Every other step of the queue and of the planner leaves the cursor alone.
LEMMA OtherRefines ==
    ASSUME Inv, RefinementInv, QueueSteps \/ PlanPublish \/ RestoreMove,
           (HandOver \/ PopAdvance) => cmds[1].type # "SDCARD"
    PROVE  RefinementInv' /\ UNCHANGED <<State, reached, Executed>>
  <1>1. QueueStart' = QueueStart /\ ResumePoint' = ResumePoint
    <2>1. CASE PlanPublish \/ RestoreMove
      BY <2>1, PlanBlocks
    <2>2. CASE QueueSteps
      <3>1. QueueStart' = QueueStart
        <4>1. CASE HandOver
          BY <4>1 DEF HandOver, fileVars, QueueStart
        <4> QED
          BY <2>2, <4>1, CommitQueue, PushQueue, FrontQueue, PopQueue DEF QueueSteps
      <3>2. blocks' = blocks
        BY <2>2, QueueFlags DEF QueueSteps, HandOver, PlanSteps, CommitLine, EnqueueUI,
           RepeatAfterHoming, EnqueueM600, EnqueueFrontCommit, PopAdvance, planVars
      <3> QED
        BY <3>1, <3>2 DEF ResumePoint
    <2> QED
      BY <2>1, <2>2
  <1>2. reached' = reached
    BY DEF QueueSteps, CommitLine, EnqueueUI, RepeatAfterHoming, EnqueueM600,
           EnqueueFrontCommit, HandOver, PopAdvance, PlanPublish, RestoreMove, ghostVars
  <1> QED
    BY <1>1, <1>2, QueueStutters DEF PlanSteps

-----------------------------------------------------------------------------
(* Pause, resume and the end of the print.                                 *)

\* A save that finds no print from the card running saves none.
SaveKind == save # "off" /\ saved_type # "sd" => ~sdprinting

LEMMA SaveKindKept == SaveKind /\ [Next]_vars => SaveKind'
  <1> USE DEF fileVars, queueVars, planVars, savedVars, mainVars, isrVars, ghostVars
  <1> SUFFICES ASSUME SaveKind, [Next]_vars PROVE SaveKind'
    OBVIOUS
  <1>1. CASE Main /\ ~PauseAfterM601
    <2>1. save' = "off"
      BY <1>1 DEF Main, LoopTop, GetLine, GetBlankLine, CommitLine, GetReturn, GetEndOfFile,
         PrintingHasFinished, LoopDispatch, PlanPrepare, PlanPublish, GetWhileWaiting,
         RepeatAfterHoming, EnqueueFrontCommit, ProcessM601, CommandDone, ReleaseCheck,
         HandOver, PopCount, PopAdvance, LoopEnd, RestoreMove, RestoreFinish, EnqueueM600,
         GetEnter, Running
    <2> QED
      BY <2>1 DEF SaveKind
  <1>2. CASE PauseAfterM601 \/ Pause \/ FilamentRunout \/ PowerFail
    <2>1. /\ save = "off" /\ sdprinting' = sdprinting
          /\ save' = save \/ saved_type' = IF sdprinting THEN "sd" ELSE "none"
      BY <1>2 DEF PauseAfterM601, Pause, PauseAt, FilamentRunout, PowerFail, StartSave, Running
    <2> QED
      BY <2>1 DEF SaveKind
  <1>3. CASE SavePlanner \/ SaveCmdqueue
    <2>1. save # "off" /\ UNCHANGED <<saved_type, sdprinting>>
      BY <1>3 DEF SavePlanner, SaveCmdqueue
    <2> QED
      BY <2>1 DEF SaveKind
  <1>4. CASE FinishPause \/ FinishRunout \/ CancelPrint
    BY <1>4 DEF FinishPause, FinishRunout, StopPrint, CancelPrint, PrintStop, SaveKind
  <1>5. CASE EnqueueUI \/ Resume \/ StepperDone \/ FinishPowerFail \/ PowerDown \/ UNCHANGED vars
    <2>1. UNCHANGED <<save, saved_type, sdprinting>>
      BY <1>5 DEF EnqueueUI, Resume, StepperDone, FinishPowerFail, PowerDown, vars
    <2> QED
      BY <2>1 DEF SaveKind
  <1> QED
    BY <1>1, <1>2, <1>3, <1>4, <1>5 DEF Next, Main, Saving, Environment

\* The print is stopped for a pause or a runout: FilePrint saves it where its
\* execution has come.
LEMMA SaveRefines ==
    ASSUME Inv, Reached, RefinementInv, SaveKind, InFlight < SDLEN_MOD,
           FinishPause \/ FinishRunout
    PROVE  RefinementInv' /\ [FP!Next]_<<State, reached, Executed>>
  <1>1. /\ QueueStart' = sdpos_atomic /\ ResumePoint' = sdpos_atomic
        /\ \A i \in 1 .. Len(cmds') : Own(cmds'[i])
        /\ Len(blocks') = 0 /\ sdpos_atomic' = sdpos_atomic
    BY StopQueue
  <1>2. /\ save = "done" /\ saved_printing' = TRUE /\ sdprinting' = FALSE
        /\ UNCHANGED <<saved_type, saved_sdpos, readpos>>
        /\ IF saved_type = "sd"
           THEN reached' = IF saved_sdpos < reached THEN saved_sdpos ELSE reached
           ELSE reached' = reached
    BY DEF FinishPause, FinishRunout, StopPrint, ghostVars
  <1>3. ~SavedSD /\ pc \in Waits \cup {"m601"}
    BY <1>2 DEF FinishPause, FinishRunout, Inv, Saver
  <1>4. pc # "commit" /\ pc' # "commit" /\ (AtFileEnd' => AtFileEnd)
    BY <1>3 DEF FinishPause, FinishRunout, Waits, AtFileEnd
  <1>5. EndOfFile'
    BY <1>1 DEF EndOfFile
  <1>6. CASE saved_type = "sd"
    <2>1. sdprinting /\ saved_sdpos = ResumePoint
      BY <1>2, <1>3, <1>6 DEF Inv, Core, Saver, Summed, PositionSaved, Waits, Window
    <2>2. State = "printing" /\ reached = QueueStart /\ Executed = ResumePoint
      <3>1. State = "printing"
        BY <1>3, <2>1 DEF State
      <3> QED
        BY <3>1, CursorAt
    <2>3. reached' = saved_sdpos
      BY <1>2, <1>6, <2>1, <2>2, Order
    <2>4. SavedSD' /\ State' = "saved" /\ Executed' = saved_sdpos
      BY <1>2, <1>6 DEF SavedSD, State, Executed
    <2>5. FP!Save
      BY <2>1, <2>2, <2>3, <2>4 DEF FP!Save
    <2>6. FileLines'
      <3>1. saved_sdpos' \in Offsets
        BY <1>2, <2>1, StartOffsets DEF RefinementInv
      <3> QED
        BY <1>1, <1>2, <1>4, <3>1, LinesFrame DEF RefinementInv
    <2>7. Ended'
      BY <2>4 DEF Ended
    <2> QED
      BY <1>5, <2>5, <2>6, <2>7 DEF RefinementInv, FP!Next
  <1>7. CASE saved_type # "sd"
    <2>1. State = "ended" /\ State' = "ended" /\ ~SavedSD'
      BY <1>2, <1>3, <1>7 DEF SaveKind, State, SavedSD
    <2>2. /\ Executed = sdpos_atomic /\ reached = sdpos_atomic /\ reached' = reached
          /\ Executed' = sdpos_atomic
      BY <1>1, <1>2, <1>7, <2>1, CursorAt DEF Executed
    <2>3. FileLines'
      BY <1>1, <1>2, <1>4, <2>1, LinesFrame DEF RefinementInv
    <2>4. Ended'
      BY <1>1, <2>2 DEF Ended
    <2> QED
      BY <1>5, <2>1, <2>2, <2>3, <2>4 DEF RefinementInv
  <1> QED
    BY <1>6, <1>7

\* The print goes on from the saved position.
LEMMA RestoreRefines ==
    ASSUME Inv, Reached, RefinementInv, RestoreFinish
    PROVE  RefinementInv' /\ [FP!Next]_<<State, reached, Executed>>
  <1>1. /\ pc = "restore" /\ blocks = <<>> /\ blocks' = <<>> /\ saved_printing' = FALSE
        /\ reached' = reached /\ (saved_printing \/ saved_type # "sd")
        /\ pc' = (IF by = "runout" THEN "m600" ELSE back) /\ back' = back
    BY DEF RestoreFinish, Running, ghostVars, Inv, Saver
  <1>2. pc' # "commit" /\ (AtFileEnd' => AtFileEnd) /\ ~SavedSD'
    BY <1>1 DEF Inv, Core, TypeOK, MainTypes, AtFileEnd, SavedSD
  <1>3. CASE saved_type = "sd"
    <2>1. /\ QueueStart' = saved_sdpos /\ ResumePoint' = saved_sdpos
          /\ \A i \in 1 .. Len(cmds') : /\ cmds'[i].type # "SDCARD"
                                        /\ cmds'[i].from = saved_sdpos /\ cmds'[i].to = saved_sdpos
          /\ Len(blocks') = 0 /\ sdpos_atomic' = saved_sdpos /\ readpos' = saved_sdpos
      BY <1>3, RestoreQueue
    <2>2. SavedSD /\ State = "saved" /\ reached = saved_sdpos /\ Executed = saved_sdpos
      BY <1>1, <1>3, CursorAt DEF SavedSD, State
    <2>3. State' = "printing" /\ Executed' = saved_sdpos
      BY <1>2, <1>3, <2>1 DEF State, Executed, RestoreFinish
    <2>4. FP!Resume
      BY <1>1, <2>2, <2>3 DEF FP!Resume
    <2>5. saved_sdpos \in Offsets /\ OnlyBlank(saved_sdpos, saved_sdpos)
      <3>1. saved_sdpos \in Offsets
        BY <2>2 DEF RefinementInv, FileLines
      <3>2. \A t \in Offsets : t \in Int
        BY FileAssumption DEF Offsets
      <3> QED
        BY <3>1, <3>2 DEF OnlyBlank
    <2>6. FileLines'
      BY <1>2, <2>1, <2>5 DEF FileLines, OnlyBlank, Offsets
    <2>7. EndOfFile' /\ Ended'
      BY <2>1, <2>3 DEF EndOfFile, Ended
    <2> QED
      BY <2>4, <2>6, <2>7 DEF RefinementInv, FP!Next
  <1>4. CASE saved_type # "sd"
    <2>1. UNCHANGED <<readpos, sdpos_atomic, sdprinting, cmds>>
      BY <1>4 DEF RestoreFinish
    <2>2. QueueStart' = QueueStart /\ ResumePoint' = ResumePoint /\ ~SavedSD
      BY <1>1, <1>4, <2>1 DEF QueueStart, ResumePoint, SavedSD
    <2>3. UNCHANGED <<State, reached, Executed>>
      BY <1>1, <1>2, <2>1, <2>2 DEF State, Executed
    <2>4. FileLines'
      <3>1. \A i \in 1 .. Len(cmds') : Kept(cmds'[i])
        BY <2>1 DEF Kept
      <3>2. \A i \in 1 .. Len(blocks') : blocks'[i].from \in Offsets
        BY <1>1
      <3> QED
        BY <1>1, <1>2, <2>1, <3>1, <3>2, LinesFrame DEF RefinementInv
    <2>5. EndOfFile' /\ Ended'
      BY <1>2, <2>1, <2>2, <2>3 DEF RefinementInv, EndOfFile, Ended
    <2> QED
      BY <2>3, <2>4, <2>5 DEF RefinementInv
  <1> QED
    BY <1>3, <1>4

\* The end of the file, with the planner dry, or the user gives the print up.
LEMMA EndRefines ==
    ASSUME Inv, Reached, RefinementInv, PrintingHasFinished \/ CancelPrint
    PROVE  RefinementInv' /\ [FP!Next]_<<State, reached, Executed>>
  <1>s. sdpos_atomic \in Int /\ QueueStart \in Int /\ reached \in Int
    BY Order, Shape DEF Inv, Core, ShapeOK
  <1>1. CASE PrintingHasFinished
    <2>1. /\ pc = "finish" /\ blocks = <<>> /\ sdprinting' = FALSE /\ pc' = ret
          /\ UNCHANGED <<readpos, sdpos_atomic, cmds, blocks, saved_printing, saved_type,
                         saved_sdpos, reached>>
      BY <1>1 DEF PrintingHasFinished, Running, queueVars, planVars, savedVars, ghostVars
    <2>2. pc' # "commit" /\ ~AtFileEnd'
      BY <2>1 DEF AtFileEnd, Inv, Core, Control
    <2>3. /\ QueueStart' = QueueStart /\ ResumePoint' = ResumePoint /\ SavedSD' = SavedSD
          /\ ResumePoint = QueueStart /\ QueueStart = sdpos_atomic
      BY <2>1 DEF QueueStart, ResumePoint, SavedSD, RefinementInv, EndOfFile, AtFileEnd
    <2>4. Executed' = Executed
      BY <2>1, <2>3 DEF Executed
    <2>5. FileLines'
      <3>1. \A i \in 1 .. Len(cmds') : Kept(cmds'[i])
        BY <2>1 DEF Kept
      <3>2. \A i \in 1 .. Len(blocks') : blocks'[i].from \in Offsets
        BY <2>1
      <3>3. SavedSD' => saved_sdpos' \in Offsets
        BY <2>1, <2>3 DEF RefinementInv, FileLines
      <3> QED
        BY <2>1, <2>2, <3>1, <3>2, <3>3, LinesFrame DEF RefinementInv
    <2>6. EndOfFile'
      BY <2>2 DEF EndOfFile
    <2>7. CASE State = "printing"
      <3>1. State' = "ended" /\ reached = QueueStart /\ Executed = ResumePoint
        BY <2>1, <2>3, <2>7, CursorAt DEF State
      <3>2. FP!Cancel
        BY <1>s, <2>1, <2>3, <2>4, <2>7, <3>1 DEF FP!Cancel
      <3>3. Ended'
        BY <2>1, <2>3, <3>1 DEF Ended
      <3> QED
        BY <2>5, <2>6, <3>2, <3>3 DEF RefinementInv, FP!Next
    <2>8. CASE State # "printing"
      <3>1. State' = State
        BY <2>1, <2>3, <2>8 DEF State
      <3>2. Ended'
        BY <2>1, <2>3, <3>1 DEF RefinementInv, Ended
      <3> QED
        BY <2>1, <2>4, <2>5, <2>6, <3>1, <3>2 DEF RefinementInv
    <2> QED
      BY <2>7, <2>8
  <1>2. CASE CancelPrint
    <2>1. /\ cmds' = <<>> /\ blocks' = <<>> /\ saved_printing' = FALSE /\ sdprinting' = FALSE
          /\ reached' = sdpos_atomic /\ UNCHANGED <<readpos, sdpos_atomic, pc>>
      BY <1>2 DEF CancelPrint, PrintStop, mainVars
    <2>2. /\ QueueStart' = sdpos_atomic /\ ResumePoint' = sdpos_atomic
          /\ State' = "ended" /\ Executed' = sdpos_atomic /\ ~SavedSD'
      BY <2>1 DEF QueueStart, ResumePoint, State, Executed, SavedSD
    <2>3. EndOfFile' /\ Ended'
      BY <2>1, <2>2 DEF EndOfFile, Ended
    <2>4. FileLines'
      <3>1. Len(cmds') = 0 /\ Len(blocks') = 0
        BY <2>1
      <3> QED
        BY <2>1, <2>2, <3>1, LinesFrame DEF RefinementInv
    <2>5. CASE State = "ended"
      <3>1. reached = sdpos_atomic /\ Executed = sdpos_atomic
        BY <2>5, CursorAt
      <3> QED
        BY <2>1, <2>2, <2>3, <2>4, <2>5, <3>1 DEF RefinementInv
    <2>6. CASE State # "ended"
      <3>1. FP!Cancel
        BY <1>s, <2>1, <2>2, <2>6 DEF FP!Cancel
      <3> QED
        BY <2>3, <2>4, <3>1 DEF RefinementInv, FP!Next
    <2> QED
      BY <2>5, <2>6
  <1> QED
    BY <1>1, <1>2

-----------------------------------------------------------------------------
\* Every step is a step of FilePrint or none, and keeps what that needs.
LEMMA StepRefines ==
    ASSUME Inv, Reached, RefinementInv, SaveKind, InFlight < SDLEN_MOD, [Next]_vars
    PROVE  RefinementInv' /\ [FP!Next]_<<State, reached, Executed>>
  <1>1. CASE Reading \/ Saves \/ Moves
    BY <1>1, StillRefines
  <1>2. CASE QueueSteps \/ PlanPublish \/ RestoreMove
    <2>1. CASE (HandOver \/ PopAdvance) /\ cmds[1].type = "SDCARD"
      BY <2>1, ProcessRefines DEF FP!Next
    <2>2. CASE ~((HandOver \/ PopAdvance) /\ cmds[1].type = "SDCARD")
      BY <1>2, <2>2, OtherRefines
    <2> QED
      BY <2>1, <2>2
  <1>3. CASE StepperDone
    BY <1>3, StepperRefines
  <1>4. CASE FinishPause \/ FinishRunout
    BY <1>4, SaveRefines
  <1>5. CASE RestoreFinish
    BY <1>5, RestoreRefines
  <1>6. CASE PrintingHasFinished \/ CancelPrint
    BY <1>6, EndRefines
  <1> QED
    BY <1>1, <1>2, <1>3, <1>4, <1>5, <1>6
       DEF Next, Main, Saving, Environment, Reading, Saves, Moves, QueueSteps

\* The print that has just been started is at the beginning of the file.
LEMMA InitRefines == Init => RefinementInv /\ SaveKind /\ FP!Init
  <1> SUFFICES ASSUME Init PROVE RefinementInv /\ SaveKind /\ FP!Init
    OBVIOUS
  <1>1. /\ readpos = 0 /\ sdpos_atomic = 0 /\ cmds = <<>> /\ blocks = <<>> /\ reached = 0
        /\ saved_printing = FALSE /\ sdprinting = TRUE /\ pc = "loop" /\ save = "off"
    BY DEF Init
  <1>2. ~SavedSD /\ State = "printing" /\ QueueStart = 0 /\ ResumePoint = 0 /\ Executed = 0
    BY <1>1 DEF SavedSD, State, QueueStart, ResumePoint, Executed
  <1>3. 0 \in Offsets /\ OnlyBlank(0, 0)
    BY FileAssumption DEF Offsets, OnlyBlank
  <1>4. FileLines
    BY <1>1, <1>2, <1>3 DEF FileLines
  <1>5. EndOfFile /\ Ended /\ SaveKind
    BY <1>1, <1>2 DEF EndOfFile, Ended, AtFileEnd, SaveKind
  <1> QED
    BY <1>1, <1>2, <1>4, <1>5 DEF RefinementInv, FP!Init

\* As long as the bytes in flight fit in the 16 bits of a length: for every
\* file, every size of the rings and every order of pauses, runouts, reloads
\* and cancellations, the lines of the file are processed and executed in
\* their order, none twice and none left out.
THEOREM FilePrintImplemented ==
    Spec /\ [](InFlight < SDLEN_MOD) => ImplementsFilePrint
  <1>1. Init => Reached
    BY DEF Init, Reached, SavedSD, QueueStart
  <1>2. Inv /\ Reached /\ InFlight < SDLEN_MOD /\ [Next]_vars => Reached'
    BY ReachedStep
  <1>3. Inv /\ Reached /\ RefinementInv /\ SaveKind /\ InFlight < SDLEN_MOD /\ [Next]_vars
           => RefinementInv' /\ [FP!Next]_<<State, reached, Executed>>
    BY StepRefines
  <1> QED
    BY <1>1, <1>2, <1>3, InitRefines, SaveKindKept, Invariance, PTL
       DEF Spec, ImplementsFilePrint, FP!Spec
=============================================================================
